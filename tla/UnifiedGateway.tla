--------------------------- MODULE UnifiedGateway ---------------------------
(***************************************************************************)
(* The loopback gateway of a launch (codex_bridge.rs): its accept loop and *)
(* admission counter, its shutdown, and how a worker serves one /v1/       *)
(* messages request, descending the failover ladder (failover.rs) while    *)
(* the ledger of route health (route_health.rs) says who can serve.        *)
(*                                                                         *)
(* A request is one client connection.  The clock is left out: a cooldown  *)
(* may run out, and the wait for a free worker may end, at any time.       *)
(***************************************************************************)
EXTENDS Integers, Sequences, FiniteSets

CONSTANTS
    Requests,
    Routes,
    Codex,          \* the route whose pipeline commits on its own
    Configured,     \* routes with a credential
    Metered,        \* routes billed per token
    AllowMetered,   \* consent to descend onto them
    Ladder,         \* the specs of the rungs, in order
    RouteOf,        \* the route a spec names
    Want,           \* the route of the model each request names
    Conversation,   \* the conversation of each request
    Limit,          \* max_concurrency
    MaxConversations,
    None,
    Absent

Specs == {Ladder[i] : i \in DOMAIN Ladder}
Conversations == {Conversation[r] : r \in Requests}

ASSUME GatewayAssumption ==
    /\ IsFiniteSet(Requests)
    /\ Codex \in Routes /\ Configured \subseteq Routes /\ Metered \subseteq Routes
    /\ AllowMetered \in BOOLEAN
    /\ Ladder \in Seq(Specs)
    /\ RouteOf \in [Specs -> Routes]
    /\ Want \in [Requests -> Routes]
    /\ Conversation \in [Requests -> Conversations]
    /\ Limit \in Nat \ {0} /\ MaxConversations \in Nat
    /\ None \notin Specs \cup Requests

VARIABLES
    loop,        \* where the accept loop is
    cur,         \* the connection it has in hand
    active,      \* the admission counter
    registered,  \* connections in the map that shutdown walks
    closed,      \* connections shutdown has closed
    shutdown,    \* the flag
    wpc,         \* where each request is
    attempt,     \* the rung it is on, None for the route it asked for
    mode,        \* is the attempt probed, or the last one after the ladder
    verdict,     \* what the route that declined said
    heads,       \* response heads written to the client
    ledger,      \* route health
    holder       \* the request whose turn holds a conversation, None, or Absent
                 \* while the store has no entry for it

vars == <<loop, cur, active, registered, closed, shutdown, wpc, attempt, mode,
          verdict, heads, ledger, holder>>
server == <<loop, cur, active, registered, closed, shutdown>>
serving == <<attempt, mode, verdict, heads, ledger, holder>>

\* RouteVerdict: what an upstream answer says of its route.
FailsOver == {"exhausted", "drained", "unauthenticated"}
Answers == FailsOver \cup {"ok", "throttled", "transient", "fatal"}

Serving == {"read", "choose", "enter", "upstream", "committed", "declined", "descend"}
Leaving == {"leave", "uncount"}
Ended   == {"done", "refused", "dropped"}
Places  == {"away", "queued", "accepted"} \cup Serving \cup Leaving \cup Ended

TypeOK ==
    /\ loop \in {"top", "accept", "register", "spawn", "join", "ended"}
    /\ cur \in Requests \cup {None}
    /\ active \in 0..Limit
    /\ registered \subseteq Requests /\ closed \subseteq Requests
    /\ shutdown \in BOOLEAN
    /\ wpc \in [Requests -> Places]
    /\ attempt \in [Requests -> Specs \cup {None}]
    /\ mode \in [Requests -> {"plain", "probe", "final"}]
    /\ verdict \in [Requests -> FailsOver \cup {"none"}]
    /\ heads \in [Requests -> Nat]
    /\ ledger \in [Routes -> [down : BOOLEAN, cooling : BOOLEAN]]
    /\ holder \in [Conversations -> Requests \cup {None, Absent}]

Healthy == [down |-> FALSE, cooling |-> FALSE]

Init ==
    /\ loop = "top" /\ cur = None /\ active = 0
    /\ registered = {} /\ closed = {} /\ shutdown = FALSE
    /\ wpc = [r \in Requests |-> "away"]
    /\ attempt = [r \in Requests |-> None]
    /\ mode = [r \in Requests |-> "plain"]
    /\ verdict = [r \in Requests |-> "none"]
    /\ heads = [r \in Requests |-> 0]
    /\ ledger = [x \in Routes |-> Healthy]
    /\ holder = [k \in Conversations |-> Absent]

Goto(r, pc) == wpc' = [wpc EXCEPT ![r] = pc]
Head200(r)  == heads' = [heads EXCEPT ![r] = @ + 1]

-----------------------------------------------------------------------------
(* Route health and the ladder *)

\* RouteLedger::state
Available(x) == ~ledger[x].down /\ ~ledger[x].cooling

\* RouteLedger::record; the gateway records no other verdicts.
Record(x, v) ==
    IF v = "exhausted" THEN [ledger EXCEPT ![x].cooling = TRUE]
                       ELSE [ledger EXCEPT ![x].down = TRUE]

\* RouteLedger::record_success
RecordSuccess(x) == [ledger EXCEPT ![x] = Healthy]

Least(S) == CHOOSE i \in S : \A j \in S : i <= j

\* Mutant: the search starts at the rung just tried.
BelowItself(s) == IF s = None THEN 1 ELSE Least({i \in DOMAIN Ladder : Ladder[i] = s})

\* Where the search starts: below the first rung with that spec.
Below(s) == IF s = None THEN 1 ELSE Least({i \in DOMAIN Ladder : Ladder[i] = s}) + 1

\* Mutant: consent is forgotten.
NextRungUnpaid(s) ==
    LET usable == {i \in DOMAIN Ladder : i >= Below(s) /\ Available(RouteOf[Ladder[i]])}
    IN  IF usable = {} THEN None ELSE Ladder[Least(usable)]

\* FailoverLadder::next_available
NextRung(s) ==
    LET usable == {i \in DOMAIN Ladder :
                      /\ i >= Below(s)
                      /\ AllowMetered \/ RouteOf[Ladder[i]] \notin Metered
                      /\ Available(RouteOf[Ladder[i]])}
    IN  IF usable = {} THEN None ELSE Ladder[Least(usable)]

\* The route of the attempt a request is making.
Route(r) == IF attempt[r] = None THEN Want[r] ELSE RouteOf[attempt[r]]

\* A cooldown runs out.
CooldownEnds(x) ==
    /\ ledger[x].cooling
    /\ ledger' = [ledger EXCEPT ![x].cooling = FALSE]
    /\ UNCHANGED <<server, wpc, attempt, mode, verdict, heads, holder>>

-----------------------------------------------------------------------------
(* The accept loop: serve *)

\* The client connects: the kernel queues it while the listener is open.
Arrive(r) ==
    /\ wpc[r] = "away" /\ loop \notin {"join", "ended"}
    /\ Goto(r, "queued")
    /\ UNCHANGED <<server, serving>>

\* The loop goes on to accept when a worker is free, or after admission_wait.
LoopTop ==
    /\ loop = "top" /\ ~shutdown
    /\ loop' = "accept"
    /\ UNCHANGED <<cur, active, registered, closed, shutdown, wpc, serving>>

\* Mutant: one worker too many.
AcceptOverfull(r) ==
    /\ loop = "accept" /\ wpc[r] = "queued" /\ active <= Limit
    /\ active' = active + 1
    /\ loop' = "register" /\ cur' = r
    /\ Goto(r, "accepted")
    /\ UNCHANGED <<registered, closed, shutdown, serving>>

\* accept, then reserve_worker; a full gateway answers 503 (reject_busy).
Accept(r) ==
    /\ loop = "accept" /\ wpc[r] = "queued"
    /\ \/ /\ active < Limit
          /\ active' = active + 1
          /\ loop' = "register" /\ cur' = r
          /\ Goto(r, "accepted")
          /\ UNCHANGED heads
       \/ /\ active >= Limit
          /\ loop' = "top"
          /\ Goto(r, "refused") /\ Head200(r)
          /\ UNCHANGED <<active, cur>>
    /\ UNCHANGED <<registered, closed, shutdown, attempt, mode, verdict, ledger, holder>>

\* The socket cannot be set up or cloned: it is dropped, its slot given back.
AcceptDrops(r) ==
    /\ loop = "accept" /\ wpc[r] = "queued"
    /\ loop' = "top"
    /\ Goto(r, "dropped")
    /\ UNCHANGED <<cur, active, registered, closed, shutdown, serving>>

NothingPending ==
    /\ loop = "accept" /\ \A r \in Requests : wpc[r] # "queued"
    /\ loop' = "top"
    /\ UNCHANGED <<cur, active, registered, closed, shutdown, wpc, serving>>

\* Mutant: the flag is not read again once the connection is in the map.
RegisterBlind ==
    /\ loop = "register"
    /\ registered' = registered \cup {cur}
    /\ loop' = "spawn"
    /\ UNCHANGED <<cur, active, closed, shutdown, wpc, serving>>

\* Under the lock of the map: insert, and close at once if shutdown came first.
Register ==
    /\ loop = "register"
    /\ registered' = registered \cup {cur}
    /\ closed' = IF shutdown THEN closed \cup {cur} ELSE closed
    /\ loop' = "spawn"
    /\ UNCHANGED <<cur, active, shutdown, wpc, serving>>

SpawnWorker ==
    /\ loop = "spawn"
    /\ Goto(cur, "read")
    /\ loop' = "top" /\ cur' = None
    /\ UNCHANGED <<active, registered, closed, shutdown, serving>>

\* Mutant: a failed spawn keeps its slot.
SpawnFailsCounted ==
    /\ loop = "spawn"
    /\ registered' = registered \ {cur}
    /\ Goto(cur, "dropped")
    /\ loop' = "top" /\ cur' = None
    /\ UNCHANGED <<active, closed, shutdown, serving>>

SpawnFails ==
    /\ loop = "spawn"
    /\ active' = active - 1
    /\ registered' = registered \ {cur}
    /\ Goto(cur, "dropped")
    /\ loop' = "top" /\ cur' = None
    /\ UNCHANGED <<closed, shutdown, serving>>

\* The loop ends on the flag, or on an error of accept; the listener closes
\* and resets what is still queued.
LoopEnds ==
    /\ (loop = "top" /\ shutdown) \/ loop = "accept"
    /\ loop' = "join"
    /\ wpc' = [r \in Requests |-> IF wpc[r] = "queued" THEN "dropped" ELSE wpc[r]]
    /\ UNCHANGED <<cur, active, registered, closed, shutdown, serving>>

\* serve joins its workers and returns.
Joined ==
    /\ loop = "join" /\ \A r \in Requests : wpc[r] \notin Serving \cup Leaving
    /\ loop' = "ended"
    /\ UNCHANGED <<cur, active, registered, closed, shutdown, wpc, serving>>

\* BridgeHandle::shutdown, under the lock of the map.
Shutdown ==
    /\ ~shutdown
    /\ shutdown' = TRUE
    /\ closed' = closed \cup registered
    /\ UNCHANGED <<loop, cur, active, registered, wpc, serving>>

-----------------------------------------------------------------------------
(* A worker: handle_connection and serve_unified_messages *)

\* The request is read and parsed, or answered with an error; a request cut
\* off by shutdown is abandoned without a reply.
Read(r) ==
    /\ wpc[r] = "read"
    /\ \/ Goto(r, "choose") /\ UNCHANGED heads
       \/ Goto(r, "leave") /\ Head200(r)
       \/ shutdown /\ Goto(r, "leave") /\ UNCHANGED heads
    /\ UNCHANGED <<server, attempt, mode, verdict, ledger, holder>>

\* Probe the attempt only while a further rung could take over.
Choose(r) ==
    /\ wpc[r] = "choose"
    /\ mode' = [mode EXCEPT ![r] = IF NextRung(attempt[r]) = None THEN "plain" ELSE "probe"]
    /\ Goto(r, "enter")
    /\ UNCHANGED <<server, attempt, verdict, heads, ledger, holder>>

\* with_history: the turn holds its conversation for the whole exchange, and a
\* conversation the store does not know needs a free place.
StoreFull(k) ==
    holder[k] = Absent /\ Cardinality({j \in Conversations : holder[j] # Absent}) >= MaxConversations

Enter(r) ==
    /\ wpc[r] = "enter" /\ Route(r) \in Configured
    /\ LET k == Conversation[r] IN
       /\ holder[k] \in {None, Absent} /\ ~StoreFull(k)
       /\ holder' = [holder EXCEPT ![k] = r]
    /\ Goto(r, "upstream")
    /\ UNCHANGED <<server, attempt, mode, verdict, heads, ledger>>

\* The error of a provider that is not configured, or of a full store, counts
\* as an answer of the route.
EnterRefused(r) ==
    /\ wpc[r] = "enter"
    /\ Route(r) \notin Configured \/ StoreFull(Conversation[r])
    /\ Head200(r)
    /\ Goto(r, IF mode[r] = "final" THEN "leave" ELSE "committed")
    /\ UNCHANGED <<server, attempt, mode, verdict, ledger, holder>>

Release(r) == holder' = [holder EXCEPT ![Conversation[r]] = None]

\* Mutant: a route-terminal answer that was probed is passed on as well.
DeclineAloud(r, a) ==
    /\ wpc[r] = "upstream" /\ mode[r] = "probe" /\ Route(r) # Codex
    /\ a \in FailsOver
    /\ verdict' = [verdict EXCEPT ![r] = a]
    /\ Head200(r)
    /\ Goto(r, "declined")
    /\ Release(r)
    /\ UNCHANGED <<server, attempt, mode, ledger>>

\* Mutant: the declined attempt still holds its conversation.
DeclineHolding(r, a) ==
    /\ wpc[r] = "upstream" /\ mode[r] = "probe" /\ Route(r) # Codex
    /\ a \in FailsOver
    /\ verdict' = [verdict EXCEPT ![r] = a]
    /\ Goto(r, "declined")
    /\ UNCHANGED <<server, attempt, mode, heads, ledger, holder>>

\* The probe reads a route-terminal failure: nothing reaches the client.
Decline(r, a) ==
    /\ wpc[r] = "upstream" /\ mode[r] = "probe" /\ Route(r) # Codex
    /\ a \in FailsOver
    /\ verdict' = [verdict EXCEPT ![r] = a]
    /\ Goto(r, "declined")
    /\ Release(r)
    /\ UNCHANGED <<server, attempt, mode, heads, ledger>>

\* Whatever else the upstream answers goes to the client.
Commit(r, a) ==
    /\ wpc[r] = "upstream" /\ ~(mode[r] = "probe" /\ Route(r) # Codex /\ a \in FailsOver)
    /\ Head200(r)
    /\ Goto(r, IF mode[r] = "final" THEN "leave" ELSE "committed")
    /\ Release(r)
    /\ UNCHANGED <<server, attempt, mode, verdict, ledger>>

\* Committed counts as a success of the route, whatever the status was.
NoteSuccess(r) ==
    /\ wpc[r] = "committed"
    /\ ledger' = RecordSuccess(Route(r))
    /\ Goto(r, "leave")
    /\ UNCHANGED <<server, attempt, mode, verdict, heads, holder>>

NoteVerdict(r) ==
    /\ wpc[r] = "declined"
    /\ ledger' = Record(Route(r), verdict[r])
    /\ Goto(r, "descend")
    /\ UNCHANGED <<server, attempt, mode, verdict, heads, holder>>

\* The next rung, or the same route again without a probe.
Descend(r) ==
    /\ wpc[r] = "descend"
    /\ LET rung == NextRung(attempt[r]) IN
       \/ /\ rung # None
          /\ attempt' = [attempt EXCEPT ![r] = rung]
          /\ Goto(r, "choose")
          /\ UNCHANGED mode
       \/ /\ rung = None
          /\ mode' = [mode EXCEPT ![r] = "final"]
          /\ Goto(r, "enter")
          /\ UNCHANGED attempt
    /\ UNCHANGED <<server, verdict, heads, ledger, holder>>

\* ActiveWorker::drop
Unregister(r) ==
    /\ wpc[r] = "leave"
    /\ registered' = registered \ {r}
    /\ Goto(r, "uncount")
    /\ UNCHANGED <<loop, cur, active, closed, shutdown, serving>>

Uncount(r) ==
    /\ wpc[r] = "uncount"
    /\ active' = active - 1
    /\ Goto(r, "done")
    /\ UNCHANGED <<loop, cur, registered, closed, shutdown, serving>>

-----------------------------------------------------------------------------
Loop ==
    \/ LoopTop \/ NothingPending \/ Register \/ SpawnWorker \/ SpawnFails
    \/ LoopEnds \/ Joined
    \/ \E r \in Requests : Accept(r) \/ AcceptDrops(r)

Worker(r) ==
    \/ Read(r) \/ Choose(r) \/ Enter(r) \/ EnterRefused(r)
    \/ \E a \in Answers : Decline(r, a) \/ Commit(r, a)
    \/ NoteSuccess(r) \/ NoteVerdict(r) \/ Descend(r)
    \/ Unregister(r) \/ Uncount(r)

Next ==
    \/ Loop \/ Shutdown
    \/ \E r \in Requests : Arrive(r) \/ Worker(r)
    \/ \E x \in Routes : CooldownEnds(x)

\* Threads run; an upstream answers or times out, and so do the reads of a
\* request and the writes of a reply.
Fairness ==
    /\ WF_vars(Loop)
    /\ \A r \in Requests : WF_vars(Worker(r))

Spec == Init /\ [][Next]_vars /\ Fairness

-----------------------------------------------------------------------------
(* Properties *)

\* A client gets one response: a declined attempt leaves no trace that a later
\* rung would repeat, and a worker leaves without a reply only on shutdown.
OneResponse ==
    \A r \in Requests :
        /\ heads[r] <= 1
        /\ wpc[r] = "done" /\ r \notin closed => heads[r] = 1

\* The admission counter is the number of connections that hold a slot, on
\* every path out of the accept loop and of the workers.
SlotHolders ==
    {r \in Requests : wpc[r] \in {"accepted"} \cup Serving \cup Leaving}
SlotsExact == active = Cardinality(SlotHolders)

\* No connection escapes shutdown: one that is registered before the flag is
\* set is closed by BridgeHandle::shutdown, one after it by the accept loop.
ClosedAtShutdown == shutdown => registered \subseteq closed

\* Recovery spends nobody's money unasked: a metered route is tried only by a
\* client that named it, or with consent, whatever the ledger went through.
MeteredByConsent ==
    \A r \in Requests :
        wpc[r] = "upstream" /\ Route(r) \in Metered => AllowMetered \/ Route(r) = Want[r]

\* Every connection comes to an end: descents are finite however verdicts,
\* successes and cooldowns of others change the ledger meanwhile, and no turn
\* waits for ever on another for their conversation.
InFlight == {r \in Requests : wpc[r] \notin {"away"} \cup Ended}
RequestsEnd == InFlight # {} ~> InFlight = {}

\* shutdown returns: the accept loop ends and its workers can be joined.
ShutdownReturns == shutdown ~> loop = "ended"

\* The route a launch failed over from is left alone until it heals.
StaysOnFallback ==
    [][\A r \in Requests :
        wpc[r] = "enter" /\ wpc'[r] = "upstream" /\ mode[r] = "probe"
            => Available(Route(r))]_vars
=============================================================================
