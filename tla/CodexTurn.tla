------------------------------ MODULE CodexTurn ------------------------------
(***************************************************************************)
(* One conversation of the Codex bridge: the canonical transcript that the *)
(* bridge keeps (codex_history.rs), the transcript that Claude shows and   *)
(* resends, and how a turn assembles its input from both, commits, fails,  *)
(* recovers from a full context, or is compacted (codex_pipeline.rs and    *)
(* the /_clud/context routes of codex_bridge.rs).                          *)
(*                                                                         *)
(* A turn runs under the mutex of its conversation: it is one step.  Items *)
(* are [kind, id]; developer instructions and item contents are left out.  *)
(***************************************************************************)
EXTENDS Integers, SequencesExt

CONSTANTS
    MaxId,        \* bound on prompts, replies, calls and summaries
    MaxItems,     \* max_items_per_conversation
    MaxShown      \* bound on the length of Claude's transcript

ASSUME CodexAssumption ==
    MaxId \in Nat /\ MaxItems \in Nat \ {0} /\ MaxShown \in Nat \ {0, 1}

VARIABLES
    history,   \* the canonical items
    pendingReset, \* reset_after_harness_compaction
    route,     \* the route of the epoch
    shown,     \* Claude's transcript
    asked,     \* what Claude waits for: nothing, a turn, or its summary
    hooks,     \* what PreCompact did for the compaction that goes on
    floor,     \* ids below it were summarised away
    fresh,     \* the next id
    lost,      \* committed items whose reply Claude never got
    missed,    \* did a compaction hook fail to reach the bridge
    crossed,   \* did a change of route undo a compaction under way
    rejected   \* did the bridge refuse the latest request by itself

store == <<history, pendingReset, route>>
client == <<shown, asked, fresh>>
past == <<lost, missed, crossed>>
vars == <<store, client, hooks, floor, past, rejected>>

Kinds == {"prompt", "output", "note", "summary", "reply", "call", "opaque"}
Items == [kind : Kinds, id : 0..MaxId]
Item(k, n) == [kind |-> k, id |-> n]
FromAssistant(x) == x.kind \in {"reply", "call"}

Init ==
    /\ history = <<>> /\ pendingReset = FALSE /\ route = "none"
    /\ shown = <<>> /\ asked = "nothing" /\ hooks = "none"
    /\ floor = 0 /\ fresh = 0
    /\ lost = {} /\ missed = FALSE /\ crossed = FALSE /\ rejected = FALSE

-----------------------------------------------------------------------------
(* Assembling the input of a turn *)

Ids(s, k) == {s[i].id : i \in {j \in DOMAIN s : s[j].kind = k}}

\* Mutant: the whole replay is pending.
PendingAll(s) == s

\* pending_input_items_as_values: what follows the last assistant item, or the
\* last item alone.
Pending(s) ==
    LET said == {i \in DOMAIN s : FromAssistant(s[i])}
    IN  IF said = {} \/ Len(s) \in said THEN <<Last(s)>>
        ELSE SubSeq(s, Max(said) + 1, Len(s))

\* The results in s for the calls C, in their order.
Picked(s, C) ==
    LET picked[n \in 0..Len(s)] ==
            IF n = 0 THEN <<>>
            ELSE IF s[n].kind = "output" /\ s[n].id \in C THEN Append(picked[n - 1], s[n])
            ELSE picked[n - 1]
    IN  picked[Len(s)]

\* recover_pending_outputs: results that Claude holds for committed calls.
Recover(h, s, pending) ==
    Picked(s, Ids(h, "call") \ (Ids(h, "output") \cup Ids(pending, "output")))

\* Mutant: orphaned outputs are left as they are.
RepairNothing(s, context) == s

\* repair_orphaned_outputs: a result without its call becomes a message.
Repair(s, context) ==
    LET known == Ids(s, "call") \cup Ids(context, "call")
    IN  [i \in DOMAIN s |-> IF s[i].kind = "output" /\ s[i].id \notin known
                            THEN Item("note", s[i].id) ELSE s[i]]

\* validate_continuation_input: each call has one output, after it, and no
\* output is left over.
Valid(s) ==
    /\ \A i \in DOMAIN s : s[i].kind = "call" =>
          \E j \in DOMAIN s : j > i /\ s[j] = Item("output", s[i].id)
    /\ \A j \in DOMAIN s : s[j].kind = "output" =>
          /\ \E i \in DOMAIN s : i < j /\ s[i] = Item("call", s[j].id)
          /\ \A k \in DOMAIN s : s[k] = s[j] => k = j

\* history_aware_input: what the turn builds on, what it adds, what is sent.
Assembled(h, s) ==
    IF h = <<>>
    THEN LET turn == Repair(s, <<>>) IN [base |-> h, turn |-> turn, sent |-> turn]
    ELSE LET pending == Pending(s)
             turn == Repair(Recover(h, s, pending) \o pending, h)
         IN  [base |-> h, turn |-> turn, sent |-> Repair(h \o turn, <<>>)]

\* After a full context: provider compaction, and the same turn once more.
Compacted(a) ==
    LET turn == Repair(a.turn, <<Item("opaque", 0)>>)
    IN  [base |-> <<Item("opaque", 0)>>, turn |-> turn, sent |-> <<Item("opaque", 0)>> \o turn]

-----------------------------------------------------------------------------
(* The store *)

\* ConversationHistory::enter_route: another route clears the epoch, and with
\* it a reset that is due.
Entered(x) ==
    IF route \notin {"none", x} THEN [items |-> <<>>, flag |-> FALSE, crosses |-> hooks # "none"]
    ELSE [items |-> history, flag |-> pendingReset, crosses |-> FALSE]

Enter(x) ==
    /\ route' = x
    /\ crossed' = (crossed \/ Entered(x).crosses)

\* Mutant: nothing checks the limit.
FitsAlways(s) == TRUE

\* encode_items: the limit of items per conversation.
Fits(s) == Len(s) <= MaxItems

\* record_successful_turn: commit, or clear when the turn does not fit.
Commit(a, out, flag) ==
    LET items == a.base \o a.turn \o out
    IN  IF Fits(items) THEN history' = items /\ pendingReset' = flag
                       ELSE history' = <<>> /\ pendingReset' = FALSE

-----------------------------------------------------------------------------
(* Turns *)

\* Claude infers a summary, or a turn once the hooks of a compaction are over.
Infers == asked = "summary" \/ (asked = "turn" /\ hooks = "none")

\* What Claude sends: its transcript, and the request for a summary.
Body == IF asked = "summary" THEN Append(shown, Item("prompt", fresh)) ELSE shown

\* The answers a turn can have: one reply, or one or two tool calls.
Outputs ==
    IF asked = "summary" THEN {<<Item("reply", fresh + 1)>>}
    ELSE {<<Item("reply", fresh)>>, <<Item("call", fresh)>>,
          <<Item("call", fresh), Item("call", fresh + 1)>>}

\* Claude runs the tools of an answer, if it is one of calls, and sends their
\* results.
Results(out) ==
    IF out[1].kind = "reply" THEN <<>>
    ELSE [i \in DOMAIN out |-> Item("output", out[i].id)]

\* Claude's transcript after an answer.  A summary replaces it; a result that
\* was in flight may stay behind it.
Receives(out) ==
    \/ /\ asked = "turn" /\ fresh + Len(out) <= MaxId
       /\ Len(shown \o out \o Results(out)) <= MaxShown
       /\ shown' = shown \o out \o Results(out)
       /\ asked' = IF Results(out) = <<>> THEN "nothing" ELSE "turn"
       /\ fresh' = fresh + Len(out)
    \/ /\ asked = "summary" /\ fresh + 2 <= MaxId
       /\ \/ shown' = <<Item("summary", fresh + 2)>> /\ asked' = "nothing"
          \/ /\ Last(shown).kind = "output"
             /\ shown' = <<Item("summary", fresh + 2), Last(shown)>> /\ asked' = "turn"
       /\ fresh' = fresh + 2

\* Claude after a failure: it retries, or records an error or a partial answer,
\* whose tool call it may run; or it gives the compaction up.
GivesUp ==
    \/ UNCHANGED <<client, hooks>>
    \/ /\ asked = "turn" /\ Len(shown) < MaxShown /\ fresh < MaxId
       /\ shown' = Append(shown, Item("reply", fresh)) /\ fresh' = fresh + 1
       /\ asked' = "nothing" /\ UNCHANGED hooks
    \/ /\ asked = "turn" /\ Len(shown) + 2 <= MaxShown /\ fresh < MaxId
       /\ shown' = shown \o <<Item("call", fresh), Item("output", fresh)>> /\ fresh' = fresh + 1
       /\ UNCHANGED <<asked, hooks>>
    \/ /\ asked = "summary"
       /\ asked' = "nothing" /\ hooks' = "none" /\ UNCHANGED <<shown, fresh>>

\* The inputs of the two attempts: as assembled, and after a full context.
Attempts(h) ==
    LET first == Assembled(h, Body)
    IN  IF ~Valid(first.sent) THEN {first}
        ELSE {first} \cup (IF h = <<>> THEN {} ELSE {Compacted(first)})

\* stream_inner succeeds: the answer is committed and reaches Claude.
TurnDone ==
    /\ Infers /\ Enter("codex")
    /\ LET e == Entered("codex") IN
       \E a \in Attempts(e.items), out \in Outputs :
          Valid(a.sent) /\ Commit(a, out, e.flag) /\ Receives(out)
    /\ rejected' = FALSE
    /\ UNCHANGED <<hooks, floor, lost, missed>>

\* It succeeds, and the connection breaks before Claude has the answer.
TurnLost ==
    /\ Infers /\ asked = "turn" /\ lost = {} /\ Enter("codex")
    /\ LET e == Entered("codex") IN
       \E a \in Attempts(e.items), out \in Outputs :
          /\ Valid(a.sent) /\ fresh + Len(out) <= MaxId
          /\ \/ Commit(a, out, e.flag)
             \/ ~Fits(a.base \o a.turn \o out) /\ history' = a.base /\ pendingReset' = e.flag
          /\ lost' = ToSet(out) /\ fresh' = fresh + Len(out)
    /\ rejected' = FALSE
    /\ UNCHANGED <<shown, asked, hooks, floor, missed>>

\* The upstream fails, before or after output Claude saw: nothing is
\* committed, but a compaction made on the way stays.
TurnFails ==
    /\ Infers /\ Enter("codex")
    /\ LET e == Entered("codex") IN
       \E a \in Attempts(e.items) :
          Valid(a.sent) /\ history' = a.base /\ pendingReset' = e.flag
    /\ GivesUp
    /\ rejected' = FALSE
    /\ UNCHANGED <<floor, lost, missed>>

\* The bridge refuses the input it assembled.
TurnRejected ==
    /\ Infers /\ Enter("codex")
    /\ LET e == Entered("codex") IN
       \E a \in Attempts(e.items) :
          ~Valid(a.sent) /\ history' = a.base /\ pendingReset' = e.flag
    /\ GivesUp
    /\ rejected' = TRUE
    /\ UNCHANGED <<floor, lost, missed>>

\* Another route of the unified gateway answers, or fails.
OtherTurn ==
    /\ Infers /\ Enter("other")
    /\ history' = Entered("other").items /\ pendingReset' = Entered("other").flag
    /\ \/ \E out \in Outputs : Receives(out) /\ UNCHANGED hooks
       \/ GivesUp
    /\ rejected' = FALSE
    /\ UNCHANGED <<floor, lost, missed>>

-----------------------------------------------------------------------------
(* Claude, and the lifecycle hooks *)

Prompt ==
    /\ asked = "nothing" /\ hooks = "none"
    /\ fresh < MaxId /\ Len(shown) < MaxShown
    /\ shown' = Append(shown, Item("prompt", fresh))
    /\ fresh' = fresh + 1 /\ asked' = "turn"
    /\ UNCHANGED <<store, hooks, floor, past, rejected>>

\* Claude starts a compaction, by itself or on /compact.
Compacts ==
    /\ asked # "summary" /\ hooks = "none"
    /\ shown # <<>> /\ fresh + 2 <= MaxId
    /\ asked' = "summary"

\* Mutant: the fallback forgets to arm the second clear.
FallbackUnarmed == history' = <<>> /\ UNCHANGED pendingReset

\* begin_harness_compaction_fallback
Fallback == history' = <<>> /\ pendingReset' = TRUE

\* install_provider_compaction of a transcript that passes the validator.
InstallCompaction ==
    /\ history # <<>> /\ Valid(history)
    /\ history' = <<Item("opaque", 0)>> /\ pendingReset' = FALSE

\* serve_context_compact: provider compaction, or the two-phase fallback.
PreCompact ==
    /\ Compacts
    /\ \/ InstallCompaction /\ hooks' = "provider"
       \/ Fallback /\ hooks' = "fallback"
    /\ rejected' = FALSE
    /\ UNCHANGED <<route, shown, fresh, floor, past>>

\* The hook is refused or times out; Claude compacts all the same.
PreCompactMissed ==
    /\ Compacts
    /\ hooks' = "missed" /\ missed' = TRUE
    /\ UNCHANGED <<store, shown, fresh, floor, lost, crossed, rejected>>

\* serve_context_compact_finished, once Claude has installed its summary.
CompactFinished ==
    /\ asked # "summary" /\ hooks # "none"
    /\ IF pendingReset THEN history' = <<>> /\ pendingReset' = FALSE
                       ELSE UNCHANGED <<history, pendingReset>>
    /\ floor' = IF hooks = "fallback" THEN fresh ELSE floor
    /\ hooks' = "none" /\ rejected' = FALSE
    /\ UNCHANGED <<route, client, past>>

\* Its hook does not reach the bridge.
CompactFinishedMissed ==
    /\ asked # "summary" /\ hooks # "none"
    /\ hooks' = "none" /\ missed' = TRUE
    /\ UNCHANGED <<store, client, floor, lost, crossed, rejected>>

\* /clear: clear_session drops the entry.
ContextClear ==
    /\ asked = "nothing" /\ hooks = "none" /\ shown # <<>>
    /\ history' = <<>> /\ pendingReset' = FALSE /\ route' = "none"
    /\ shown' = <<>> /\ floor' = fresh
    /\ lost' = {} /\ missed' = FALSE /\ crossed' = FALSE /\ rejected' = FALSE
    /\ UNCHANGED <<asked, hooks, fresh>>

Next ==
    \/ Prompt \/ TurnDone \/ TurnLost \/ TurnFails \/ TurnRejected \/ OtherTurn
    \/ PreCompact \/ PreCompactMissed \/ CompactFinished \/ CompactFinishedMissed
    \/ ContextClear

Spec == Init /\ [][Next]_vars

-----------------------------------------------------------------------------
(* Properties *)

\* Types and bounds; the canonical history never holds more items than
\* max_items_per_conversation (encode_items refuses what would exceed it).
TypeOK ==
    /\ history \in Seq(Items) /\ Len(history) <= MaxItems
    /\ pendingReset \in BOOLEAN /\ route \in {"none", "codex", "other"}
    /\ shown \in Seq(Items) /\ Len(shown) <= MaxShown
    /\ asked \in {"nothing", "turn", "summary"}
    /\ hooks \in {"none", "provider", "fallback", "missed"}
    /\ floor \in 0..MaxId /\ fresh \in 0..MaxId
    /\ lost \subseteq Items /\ missed \in BOOLEAN /\ crossed \in BOOLEAN
    /\ rejected \in BOOLEAN

\* The bridge refuses its own input only while its history holds a call that
\* Claude never saw, or after a hook was missed or a change of route undid a compaction: failed
\* turns, partial answers, compaction in the middle of a tool batch and other
\* changes of route never wedge a session (recover_pending_outputs,
\* repair_orphaned_outputs).
RejectedOnlyAfterLoss ==
    rejected => missed \/ crossed \/ lost \cap ToSet(history) # {}

\* No prompt, answer, call or result is committed twice, so none is sent
\* twice, whatever fails or is retried, unless a reply, a hook or a compaction
\* was lost.
CommittedOnce ==
    lost = {} /\ ~missed /\ ~crossed =>
        \A i, j \in DOMAIN history :
            history[i] = history[j] /\ history[i].kind \notin {"note", "opaque"} => i = j

\* The items that Claude's own summary replaced.
Replaced == {x \in ToSet(history) : x.id < floor /\ x.kind \notin {"note", "opaque"}}

\* After a fallback compaction the canonical history holds nothing of the
\* transcript that the summary replaced, although the summary's inference
\* replayed it: the reset armed by PreCompact survives turns that fail, retries
\* and compactions that are given up.
SeedsFromSummary == ~crossed /\ ~missed => Replaced = {}

\* docs/architecture/codex-via-claude.md:103: the finished hook "completes a
\* pending fallback by discarding the pre-compaction transcript", with no
\* condition on the routes that answered meanwhile.
SeedsAcrossRoutes == ~missed => Replaced = {}
=============================================================================
