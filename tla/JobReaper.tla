----------------------------- MODULE JobReaper -----------------------------
(***************************************************************************)
(* The reaper of tool shells of a foreground clud on Windows               *)
(* (job_orphan_reaper.rs).  A Job Object posts a message for each process  *)
(* that starts or ends below the agent; a listener thread keeps a table of *)
(* them, finds the shells the agent ran as tools, and when one has ended   *)
(* kills what it left behind, except servers.  The main thread registers   *)
(* the agent, and at the end of the session sweeps what was given up.      *)
(*                                                                         *)
(* A process is known by its birth, a number that never comes back (the    *)
(* code's creation time), and by its PID, which may.  The operating        *)
(* system's own tree is `procs'; the reaper's picture of it is             *)
(* `tracker.known', keyed by PID and linked by the PID of the parent.      *)
(*                                                                         *)
(* Left out: conhost (spared like a server, starts nothing), the signals   *)
(* that make a server (one kind here), the telemetry, the pen of           *)
(* unkeyable PIDs (nothing reads it), clud's own entry in the table.       *)
(* ACTIVE_PROCESS_ZERO is never posted: clud is a member of its own job.   *)
(***************************************************************************)
EXTENDS Naturals, Sequences, FiniteSets

CONSTANTS
    Pids,           \* the PIDs below clud, numbers
    AgentPid,       \* the PID of the backend clud starts
    Missable,       \* PIDs the process table may fail to show
    Recycled,       \* PIDs the system may give out again
    RootImages,     \* images of the backend: the agent, or a launcher of it
    Starts,         \* who starts whom: pairs of images
    MaxBirths,      \* bound: processes ever started
    MaxLag,         \* bound: messages the listener may be behind
    MaxRetries,     \* MAX_METADATA_RETRIES
    None

ASSUME ReaperAssumption ==
    /\ AgentPid \in Pids \ (Missable \cup Recycled)
    /\ Pids \subseteq Nat \ {0} /\ IsFiniteSet(Pids)
    /\ None \notin Pids /\ None \notin {"toolShell", "handoff"}
    /\ RootImages \subseteq {"agent", "cmd"}
    /\ Starts \subseteq {"agent", "bash", "cmd", "tool", "server"}
                  \X {"bash", "cmd", "tool", "server"}
    /\ MaxBirths \in Nat \ {0} /\ MaxLag \in Nat \ {0} /\ MaxRetries \in Nat \ {0}

VARIABLES
    procs,      \* processes by birth: PID, image, birth of the parent, alive
    port,       \* messages of the completion port
    tracker,    \* TrackerProcesses
    backend,    \* the registered backend: the birth of the agent, or 0
    listener,   \* where the listener thread is
    main,       \* where the main thread is
    plans,      \* decisions a thread has still to execute
    doom,       \* what the kill of a tree has selected
    ever        \* history: exits settled at some time, the process having ended

vars == <<procs, port, tracker, backend, listener, main, plans, doom, ever>>

Threads == {"listener", "main"}
Births == 1..MaxBirths
Images == {"agent", "bash", "cmd", "tool", "server"}

(***************************************************************************)
(* Images and roles.                                                       *)
(***************************************************************************)
IsShell(image) == image \in {"bash", "cmd"}

ChildRole(role, above, image) ==
    CASE role \in {"root", "bootstrap"} ->
            IF image = "agent" THEN "agentHost" ELSE "bootstrap"
      [] role = "agentHost" -> IF IsShell(image) THEN "toolShell" ELSE "client"
      [] role \in {"toolShell", "handoff"} /\ above = "bash" /\ image = "bash" ->
            "handoff"
      [] OTHER -> "client"

\* Roles spread from the backend along the links of the table, one generation
\* in a round.
Roles(known, registered) ==
    LET root == known[AgentPid]
        start == IF root = None \/ registered = 0 \/ root.birth # registered THEN {}
                 ELSE {<<AgentPid, IF root.image = "agent" THEN "agentHost" ELSE "root">>}
        Children(r) == {q \in Pids : known[q] # None /\ known[q].parent = r[1]}
        given[n \in 0..Cardinality(Pids)] ==
            IF n = 0 THEN start
            ELSE LET r == given[n - 1]
                 IN  r \cup UNION {{<<q, ChildRole(up[2], known[up[1]].image,
                                                   known[q].image)>> :
                                       q \in Children(up)} : up \in r}
        all == given[Cardinality(Pids)]
    IN  [p \in Pids |-> IF \E r \in all : r[1] = p
                        THEN (CHOOSE r \in all : r[1] = p)[2] ELSE None]

(***************************************************************************)
(* What a shell's exit leads to.                                           *)
(***************************************************************************)
\* The PIDs above one, through the links of the table.
Above(known, p) ==
    LET Parents(S) == {known[q].parent : q \in {x \in S \cap Pids : known[x] # None}}
        up[n \in 0..Cardinality(Pids)] ==
            IF n = 0 THEN Parents({p})
            ELSE LET S == up[n - 1] IN S \cup Parents(S)
    IN  up[Cardinality(Pids)]

\* Mutant: a shell that re-executes itself is a tool that has completed.
NeverHandedOff(known, roles, t) == FALSE

\* Git Bash has handed its work to a bash it started and that runs.
HandedOff(known, roles, t) ==
    /\ known[t].image = "bash"
    /\ \E p \in Pids : /\ known[p] # None /\ known[p].parent = t /\ known[p].alive
                     /\ roles[p] = "handoff"

Plan(known, roles, above, spares, t) ==
    LET Role(p) == IF roles[p] = None THEN "client" ELSE roles[p]
        under == {p \in Pids : t \in above[p]}
        Between(p) == under \cap above[p]
        Detached(p) == /\ Role(p) = "client" /\ IsShell(known[p].image)
                       /\ \E q \in Between(p) :
                             Role(q) = "client" /\ ~IsShell(known[q].image)
        Spared(p) == \E q \in {p} \cup Between(p) : q \in spares \/ Detached(q)
        \* the walk stops at a live process that is spared, and below one it
        \* takes it looks for the spared only
        live == {p \in under : /\ known[p].alive
                                  /\ \A q \in Between(p) :
                                        known[q].alive => ~Spared(q) /\ Spared(p)}
        handoff == HandedOff(known, roles, t)
        trigger == roles[t] \in {"toolShell", "handoff"}
        walked == IF trigger /\ ~handoff THEN live ELSE {}
    IN  [empty |-> ~trigger,
         noClients |-> trigger /\ ~handoff /\ live = {},
         reap |-> {known[p].birth : p \in {q \in walked : ~Spared(q)}},
         spare |-> {p \in walked : Spared(p)}]

(***************************************************************************)
(* The table of the operating system.                                      *)
(***************************************************************************)
Holder(p) ==
    LET born == {b \in DOMAIN procs : procs[b].pid = p}
    IN  IF born = {} THEN 0 ELSE CHOOSE b \in born : \A c \in born : c <= b

Live(p) == Holder(p) # 0 /\ procs[Holder(p)].alive

ParentPid(b) == IF procs[b].parent = 0 THEN 0 ELSE procs[procs[b].parent].pid

Seen(p) == [birth |-> Holder(p), parent |-> ParentPid(Holder(p)),
            image |-> procs[Holder(p)].image, alive |-> TRUE]

\* What a look at a PID may return.
Looks(p) == (IF Live(p) THEN {Seen(p)} ELSE {})
            \cup (IF Live(p) /\ p \notin Missable THEN {} ELSE {None})

(***************************************************************************)
(* The bookkeeping.                                                        *)
(***************************************************************************)
Observed(tr, p, look) ==
    IF look = None
    THEN [tr EXCEPT !.unresolved = @ \cup {p}]
    ELSE [tr EXCEPT !.known[p] = look, !.unresolved = @ \ {p}]

Exited(tr, p, look) ==
    LET final == IF p \in tr.unresolved THEN Observed(tr, p, look) ELSE tr
    IN  [final EXCEPT !.unresolved = @ \ {p},
                      !.known[p] = IF @ = None THEN None
                                   ELSE [@ EXCEPT !.alive = FALSE]]

\* Mutant: the count of a PID that is given up stays.
RetriedCountKept(tr, looks) ==
    LET left == {p \in tr.unresolved : looks[p] = None}
    IN  [tr EXCEPT
            !.known = [p \in Pids |-> IF p \in tr.unresolved \ left
                                      THEN looks[p] ELSE @[p]],
            !.unresolved = {p \in left : tr.tries[p] + 1 < MaxRetries},
            !.tries = [p \in Pids |-> IF p \in left THEN @[p] + 1 ELSE 0]]

\* Mutant: an unresolved PID is tried for ever.
RetriedForEver(tr, looks) ==
    LET left == {p \in tr.unresolved : looks[p] = None}
    IN  [tr EXCEPT
            !.known = [p \in Pids |-> IF p \in tr.unresolved \ left
                                      THEN looks[p] ELSE @[p]],
            !.unresolved = left]

\* A scan for the unresolved, then the count of their failures.
Retried(tr, looks) ==
    LET left == {p \in tr.unresolved : looks[p] = None}
        spent == {p \in left : tr.tries[p] + 1 >= MaxRetries}
    IN  [tr EXCEPT
            !.known = [p \in Pids |-> IF p \in tr.unresolved \ left
                                      THEN looks[p] ELSE @[p]],
            !.unresolved = left \ spent,
            !.tries = [p \in Pids |-> IF p \in left \ spent THEN @[p] + 1 ELSE 0]]

Dead(tr) == {p \in Pids : tr.known[p] # None /\ ~tr.known[p].alive}

Pending(tr) == {p \in Dead(tr) : /\ IsShell(tr.known[p].image)
                                 /\ tr.known[p].birth \notin tr.settled}

Evictable(tr) ==
    {p \in Dead(tr) \ Pending(tr) :
        \A q \in Pids \ Dead(tr) : p \notin Above(tr.known, q)}

\* Mutant: companions go when the process is dead, entries a little later.
PurgedApart(tr, gone) ==
    [tr EXCEPT !.known = [p \in Pids |-> IF p \in gone THEN None ELSE @[p]],
               !.settled = @ \ {tr.known[p].birth : p \in Dead(tr)}]

Purged(tr, gone) ==
    LET births == {tr.known[p].birth : p \in gone}
        kept == {tr.known[p].birth :
                    p \in {q \in Pids \ gone : tr.known[q] # None}}
    IN  [tr EXCEPT !.known = [p \in Pids |-> IF p \in gone THEN None ELSE @[p]],
                   !.settled = @ \ births,
                   !.provisional = @ \ births,
                   !.deferred = @ \cap kept]

\* PIDs that are servers now, or that OpenProcess refuses.
Spares(known, held) ==
    {p \in Pids : /\ known[p] # None
                  /\ \/ Live(p) /\ procs[Holder(p)].image = "server"
                     \/ ~Live(p) /\ p \notin held}

Settle(tr, S) == [tr EXCEPT !.settled = @ \cup S, !.provisional = @ \ S,
                            !.deferred = @ \ S]

(***************************************************************************)
(* One pass over the pending exits.  `final' says a quiet period has       *)
(* passed, `late' which deferred exits have outlived their time, `gone'    *)
(* which entries have outlived their grace, `held' which dead processes    *)
(* can still be opened.                                                    *)
(***************************************************************************)
Pass(old, registered, final, late, gone, held) ==
    LET tr == Purged(old, gone)
        known == tr.known
        spares == Spares(known, held)
        roles == Roles(known, registered)
        above == [p \in Pids |-> Above(known, p)]
        Id(p) == known[p].birth
        plan == [p \in Pending(tr) |-> Plan(known, roles, above, spares, p)]
        open == IF tr.unresolved = {} THEN Pending(tr) ELSE {}
        empty == {p \in open : plan[p].empty}
        waits == {p \in open : /\ plan[p].noClients
                               /\ ~(final /\ Id(p) \in tr.provisional)}
        kept == {Id(p) : p \in empty \cup waits}
        lost == kept \cap late \cap tr.deferred
        done == {Id(p) : p \in open \ (empty \cup waits)}
        deferred == [tr EXCEPT !.deferred = @ \cup kept,
                               !.provisional = @ \cup {Id(p) : p \in waits},
                               !.abandoned = @ \cup lost]
    IN  [tracker |-> Settle(deferred, done \cup lost),
         claims |-> {[reap |-> plan[p].reap,
                      spared |-> plan[p].spare \cup spares,
                      seen |-> {Id(q) : q \in {x \in Pids : known[x] # None}}] :
                        p \in {q \in open : plan[q].reap # {}}}]

\* The thread has executed all it decided.
Idle(t) == plans[t] = {} /\ doom[t] = None

\* A pass by a thread over the bookkeeping `tr'.
Reconciles(t, tr, final) ==
    \E late \in SUBSET tr.deferred, gone \in {{}, Evictable(tr)},
       held \in SUBSET {p \in Dead(tr) : ~Live(p) /\ \E q \in Pids : /\ tr.known[q] # None
                                                           /\ tr.known[q].parent = p} :
        LET pass == Pass(tr, backend', final, late, gone, held)
        IN  /\ tracker' = pass.tracker
            /\ plans' = [plans EXCEPT ![t] = pass.claims]
            /\ ever' = ever \cup {b \in pass.tracker.settled : ~procs[b].alive}

(***************************************************************************)
(* The processes.                                                          *)
(***************************************************************************)
Meta == [birth : Births, parent : Pids \cup {0}, image : Images, alive : BOOLEAN]

Empty == [known |-> [p \in Pids |-> None], unresolved |-> {},
          tries |-> [p \in Pids |-> 0], settled |-> {},
          provisional |-> {}, deferred |-> {}, abandoned |-> {}]

Init ==
    /\ \E image \in RootImages :
          procs = <<[pid |-> AgentPid, image |-> image, parent |-> 0, alive |-> TRUE]>>
    /\ port = <<[kind |-> "new", pid |-> AgentPid]>>
    /\ tracker = Empty
    /\ backend = 0
    /\ listener = "wait" /\ main = "boot"
    /\ plans = [t \in Threads |-> {}]
    /\ doom = [t \in Threads |-> None]
    /\ ever = {}

reaperVars == <<tracker, backend, listener, main, plans, doom, ever>>

\* A process starts another; a launcher starts the agent.  PIDs are given out
\* in order (which one a process gets tells nothing), or once more.
Spawn(b, p, image) ==
    /\ main # "closed" /\ Len(procs) < MaxBirths /\ Len(port) < MaxLag
    /\ procs[b].alive
    /\ IF b = 1 /\ procs[1].image = "cmd" THEN image = "agent"
       ELSE <<procs[b].image, image>> \in Starts
    /\ \/ Holder(p) = 0 /\ \A q \in Pids : Holder(q) = 0 => p <= q
       \/ p \in Recycled /\ Holder(p) # 0 /\ ~Live(p)
    /\ procs' = Append(procs, [pid |-> p, image |-> image, parent |-> b,
                               alive |-> TRUE])
    /\ port' = Append(port, [kind |-> "new", pid |-> p])
    /\ UNCHANGED reaperVars

Dies(b) == /\ procs' = [procs EXCEPT ![b].alive = FALSE]
           /\ port' = Append(port, [kind |-> "exit", pid |-> procs[b].pid])

\* A process ends by itself.
Ends(b) == /\ main # "closed" /\ procs[b].alive /\ Len(port) < MaxLag
           /\ Dies(b)
           /\ UNCHANGED reaperVars

(***************************************************************************)
(* The listener.                                                           *)
(***************************************************************************)
\* The next message of a batch.
Apply ==
    /\ listener \in {"wait", "batch"} /\ Idle("listener") /\ port # <<>>
    /\ LET p == Head(port).pid
       IN  \E look \in Looks(p) :
              tracker' = IF Head(port).kind = "new"
                         THEN Observed(tracker, p, look)
                         ELSE Exited(tracker, p, look)
    /\ port' = Tail(port)
    /\ listener' = "batch"
    /\ UNCHANGED <<procs, backend, main, plans, doom, ever>>

\* The pass at the end of a batch.
EndBatch ==
    /\ listener = "batch"
    /\ UNCHANGED backend
    /\ Reconciles("listener", tracker, FALSE)
    /\ listener' = "wait"
    /\ UNCHANGED <<procs, port, main, doom>>

\* No message for 200 ms.  The scan for the unresolved runs at a limited rate.
Timeout(next) ==
    /\ listener = "wait" /\ Idle("listener") /\ port = <<>>
    /\ next = "quiet" => tracker.unresolved # {}
    /\ listener' = next
    /\ UNCHANGED <<procs, port, tracker, backend, main, plans, doom, ever>>

\* The pass of a quiet period.
QuietPass ==
    /\ listener \in {"quiet", "scan"}
    /\ UNCHANGED backend
    /\ \E looks \in [tracker.unresolved -> UNION {Looks(p) : p \in Pids}] :
          /\ \A p \in tracker.unresolved : looks[p] \in Looks(p)
          /\ LET tr == IF listener = "scan" /\ tracker.unresolved # {}
                    THEN Retried(tracker, looks) ELSE tracker
             IN  Reconciles("listener", tr, tr.unresolved = {})
    /\ listener' = "wait"
    /\ UNCHANGED <<procs, port, main, doom>>

(***************************************************************************)
(* Executing decisions, in either thread.                                  *)
(***************************************************************************)
\* The tree below a process, as the system shows it, pruned at the spared.
Tree(b, spared) ==
    LET shown == {p \in Pids \ spared : Live(p)}
        down[n \in 0..Cardinality(Pids)] ==
            IF n = 0 THEN {procs[b].pid}
            ELSE LET S == down[n - 1]
                 IN  S \cup {p \in shown : ParentPid(Holder(p)) \in S}
    IN  {Holder(p) : p \in down[Cardinality(Pids)]}

\* The candidate is looked at once more; if it is another process it is let go.
Walk(t, claim, b) ==
    /\ doom[t] = None /\ claim \in plans[t] /\ b \in claim.reap
    /\ plans' = [plans EXCEPT ![t] =
                    (@ \ {claim}) \cup
                    (IF claim.reap = {b} THEN {}
                     ELSE {[claim EXCEPT !.reap = @ \ {b}]})]
    /\ doom' = [doom EXCEPT ![t] =
                    IF procs[b].alive /\ procs[b].pid \notin claim.spared
                    THEN [kill |-> Tree(b, claim.spared), seen |-> claim.seen]
                    ELSE None]
    /\ UNCHANGED <<procs, port, tracker, backend, listener, main, ever>>

\* One process of the tree, looked at once more.
Strike(t, b) ==
    /\ doom[t] # None /\ b \in doom[t].kill
    /\ IF procs[b].alive THEN Dies(b) ELSE UNCHANGED <<procs, port>>
    /\ doom' = [doom EXCEPT ![t] = IF @.kill = {b} THEN None
                                   ELSE [doom[t] EXCEPT !.kill = @ \ {b}]]
    /\ UNCHANGED <<tracker, backend, listener, main, plans, ever>>

(***************************************************************************)
(* The main thread.                                                        *)
(***************************************************************************)
\* The backend is registered, its entry seeded if it can be seen.
Register ==
    /\ main = "boot"
    /\ backend' = 1
    /\ LET seeded == [tracker EXCEPT
                        !.known[AgentPid] = IF @ = None THEN Seen(AgentPid) ELSE @,
                        !.unresolved = @ \ {AgentPid}]
       IN  Reconciles("main", IF Live(AgentPid) THEN seeded ELSE tracker, FALSE)
    /\ main' = "run"
    /\ UNCHANGED <<procs, port, listener, doom>>

\* The session has ended: the exits given up are planned once more.
Sweep ==
    /\ main = "run" /\ Idle("main") /\ ~procs[1].alive
    /\ LET known == [p \in Pids |->
                        IF tracker.known[p] = None THEN None
                        ELSE [tracker.known[p] EXCEPT
                                !.alive = @ /\ Live(p)
                                            /\ Holder(p) = tracker.known[p].birth]]
           triggers == {p \in Pids : /\ known[p] # None
                                     /\ known[p].birth \in tracker.abandoned}
       IN  \E held \in SUBSET {p \in Pids : known[p] # None /\ ~Live(p)} :
             LET spares == Spares(known, held)
                 roles == Roles(known, backend)
                 above == [p \in Pids |-> Above(known, p)]
                 plan == [p \in triggers |-> Plan(known, roles, above, spares, p)]
             IN  /\ tracker' = IF tracker.abandoned = {} THEN tracker
                               ELSE [tracker EXCEPT !.known = known, !.abandoned = {}]
                 /\ plans' = [plans EXCEPT !["main"] =
                       {[reap |-> plan[p].reap, spared |-> plan[p].spare \cup spares,
                         seen |-> {known[q].birth : q \in {x \in Pids : known[x] # None}}] :
                           p \in {q \in triggers : plan[q].reap # {}}}]
    /\ main' = "swept"
    /\ UNCHANGED <<procs, port, backend, listener, doom, ever>>

\* The tracker is dropped: the listener is joined, and each member of the job
\* is spared for what it is itself or terminated.
Close ==
    /\ main = "swept" /\ Idle("main") /\ listener = "wait" /\ Idle("listener")
    /\ procs' = [b \in DOMAIN procs |->
                    IF procs[b].image = "server" THEN procs[b]
                    ELSE [procs[b] EXCEPT !.alive = FALSE]]
    /\ main' = "closed" /\ listener' = "stopped"
    /\ tracker' = Empty /\ backend' = 0 /\ port' = <<>> /\ ever' = {}
    /\ UNCHANGED <<plans, doom>>

Next ==
    \/ \E b \in DOMAIN procs : Ends(b)
    \/ \E b \in DOMAIN procs, p \in Pids, image \in Images : Spawn(b, p, image)
    \/ Apply \/ EndBatch
    \/ Timeout("quiet") \/ Timeout("scan") \/ QuietPass
    \/ \E t \in Threads : \/ \E claim \in plans[t], b \in Births : Walk(t, claim, b)
                          \/ \E b \in Births : Strike(t, b)
    \/ Register \/ Sweep \/ Close

\* Messages are taken, and quiet periods come as long as the listener waits; one
\* of them scans, since the time between two scans passes.  The backend is
\* registered, and no thread stops inside a pass or before it has executed its
\* decisions (each step there stays possible until it is taken, so this is weak
\* fairness of those steps).
Fairness ==
    /\ WF_vars(Apply) /\ SF_vars(Timeout("scan"))
    /\ []<>(main # "boot")
    /\ []<>(listener \in {"wait", "stopped"})
    /\ \A t \in Threads : []<>Idle(t)

Spec == Init /\ [][Next]_vars /\ Fairness

(***************************************************************************)
(* Properties.                                                             *)
(***************************************************************************)
Claim == [reap : SUBSET Births, spared : SUBSET Pids, seen : SUBSET Births]

\* The tracker's sets hold what they are declared to hold, and the failures
\* counted for a PID stay below the bound of job_orphan_reaper.rs.
TypeOK ==
    /\ procs \in Seq([pid : Pids, image : Images, parent : 0..MaxBirths,
                      alive : BOOLEAN])
    /\ Len(procs) \in Births
    /\ port \in Seq([kind : {"new", "exit"}, pid : Pids])
    /\ tracker \in [known : [Pids -> Meta \cup {None}], unresolved : SUBSET Pids,
                    tries : [Pids -> 0..MaxRetries - 1], settled : SUBSET Births,
                    provisional : SUBSET Births, deferred : SUBSET Births,
                    abandoned : SUBSET Births]
    /\ backend \in 0..1
    /\ listener \in {"wait", "batch", "quiet", "scan", "stopped"}
    /\ main \in {"boot", "run", "swept", "closed"}
    /\ plans \in [Threads -> SUBSET Claim]
    /\ doom \in [Threads -> [kill : SUBSET Births, seen : SUBSET Births] \cup {None}]
    /\ ever \subseteq Births

\* The ancestors of a process, by birth.
Line(b) ==
    LET up[n \in 0..MaxBirths] ==
            IF n = 0 THEN {procs[b].parent}
            ELSE LET S == up[n - 1] IN S \cup {procs[c].parent : c \in S \ {0}}
    IN  up[MaxBirths] \ {0}

\* The shells the agent ran as tools, and those a bash among them became.
ToolShells == {b \in DOMAIN procs \ {1} :
                  /\ IsShell(procs[b].image)
                  /\ procs[procs[b].parent].image = "agent"}

Handoffs == {b \in DOMAIN procs : \E s \in ToolShells \cap Line(b) :
                \A c \in {b} \cup Line(b) : c >= s => procs[c].image = "bash"}

\* The PID of a process has been given out twice.
Reused(b) == \E c \in DOMAIN procs \ {b} : procs[c].pid = procs[b].pid

\* A bash that the reaper had in its table runs on in place of the shell s.
TakenOver(s, seen) ==
    /\ procs[s].image = "bash"
    /\ \E h \in seen : /\ procs[h].parent = s /\ procs[h].image = "bash"
                      /\ procs[h].alive /\ ~Reused(h)

\* What a tool left behind: a shell it ran in has ended and nothing has taken
\* over from it, and no server the reaper had in its table stands above.
LeftBehind(b, seen) ==
    /\ \E s \in Line(b) \cap (ToolShells \cup Handoffs) :
          ~procs[s].alive /\ ~TakenOver(s, seen)
    /\ \A s \in {b} \cup Line(b) :
          ~(procs[s].image = "server" /\ procs[s].alive /\ s \in seen)

\* A thread strikes b down.
Kills(t, b) ==
    /\ doom[t] # None /\ b \in doom[t].kill /\ doom'[t] # doom[t]
    /\ procs[b].alive /\ ~procs'[b].alive

\* While a session runs the reaper kills only what a completed tool left
\* behind: below a shell that has ended, never while the bash it became runs,
\* and never a server or what a server started (plan_shell_exit,
\* execute_decisions).  Where the PID of an ancestor has been given out again
\* the parent's PID is no proof of who started whom, and nothing is promised.
OnlyLeaksAreKilled ==
    [][\A t \in Threads, b \in DOMAIN procs :
          Kills(t, b) => \/ \E c \in Line(b) : Reused(c)
                         \/ LeftBehind(b, doom[t].seen)]_vars

\* The same with handoffs of handoffs: no bash that a tool was handed to, and
\* nothing below it, is killed while it runs.
HandoffsAreSpared ==
    [][\A t \in Threads, b \in DOMAIN procs :
          Kills(t, b) => \/ \E c \in Line(b) : Reused(c)
                         \/ \A h \in ({b} \cup Line(b)) \cap Handoffs : ~procs[h].alive]_vars

\* An exit that was settled after the process had ended is never settled again,
\* however long its entry outlives its companions (TrackerProcesses::purge).
SettledOnce == [][(tracker'.settled \ tracker.settled) \cap ever = {}]_vars

\* A client left by a tool shell that has ended, and whose bash did not hand
\* over to another, is killed in the end unless the exit was given up, even if
\* some other PID of the job can never be resolved.
LeftInTheEnd(b) ==
    /\ b \in DOMAIN procs
    /\ procs[b].alive /\ procs[b].image = "tool"
    /\ LET s == procs[b].parent
       IN  /\ s \in ToolShells /\ procs[s].parent = 1 /\ ~procs[s].alive
           /\ {procs[s].pid, procs[b].pid} \cap Missable = {}
           /\ ~Reused(s) /\ ~Reused(b)
           /\ ~\E c \in DOMAIN procs : procs[c].parent = s /\ procs[c].image = "bash"

LeaksAreReaped ==
    \A b \in Births \ {1, 2} :
        []<>(~LeftInTheEnd(b) \/ procs[b].parent \in tracker.abandoned)
=============================================================================
