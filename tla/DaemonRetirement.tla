-------------------------- MODULE DaemonRetirement --------------------------
(***************************************************************************)
(* When one running daemon decides that nobody needs it and retires: the   *)
(* accept loop of run_daemon (daemon/server.rs), the activity counters     *)
(* (daemon/activity.rs), the foreground client leases                      *)
(* (daemon/client_leases.rs), the worker map and the maintenance jobs of   *)
(* the registry worker (daemon/gc_service.rs).                             *)
(*                                                                         *)
(* The loop reads each of these at a moment of its own, between which the  *)
(* threads of connections and jobs run.                                    *)
(***************************************************************************)
EXTENDS Naturals

CONSTANTS
    Clients,       \* foreground clud processes
    BatchedPrune,  \* prune_dead_batched (TRUE) or its Windows branch (FALSE)
    MaxEvents      \* bound: requests sent and maintenance events due

Jobs == {"tick", "sweep"}
Maintenance == "maintenance"

ASSUME RetirementAssumption ==
    /\ Clients \cap (Jobs \cup {Maintenance}) = {}
    /\ BatchedPrune \in BOOLEAN
    /\ MaxEvents \in Nat

VARIABLES
    loop,      \* where the accept loop is
    shutdown,  \* shutdown_requested
    idle,      \* last_activity is at least the idle timeout ago
    leases,    \* ClientLeaseRegistry
    probed,    \* prune_dead: the leases it looked at,
    live,      \* ... and those it found alive
    workers,   \* clients whose session is in the worker map
    guard,     \* the thread of a connection or a job, and its ActiveWorkGuard
    op,        \* the request of a connection
    alive,     \* the client process exists
    holding,   \* the client was granted a lease it has not given back
    events,    \* requests and events so far
    owed,      \* history: who has needed the daemon ever since this poll began
    missed     \* history: ... and took up a need of a kind this poll had read

daemonVars == <<loop, shutdown, idle, leases, probed, live, workers>>
clientVars == <<op, alive, holding>>
historyVars == <<owed, missed>>
vars == <<daemonVars, clientVars, guard, events, historyVars>>


Polling   == {"prune", "retain", "workers", "noteWorkers", "idle",
              "conns", "jobs", "leases"}
LoopPC    == {"accept", "retired", "stopped", "gone"} \cup Polling
Counted   == {"counted", "done"}
GuardPC   == {"none", "tcp", "frame", "started", "dropped"} \cup Counted
Ops       == {"acquire", "release", "create", "shutdown"}
NoOp      == "none"

TypeOK ==
    /\ loop \in LoopPC
    /\ shutdown \in BOOLEAN /\ idle \in BOOLEAN
    /\ leases \subseteq Clients /\ probed \subseteq Clients /\ live \subseteq Clients
    /\ workers \subseteq Clients
    /\ guard \in [Clients \cup Jobs -> GuardPC]
    /\ op \in [Clients -> Ops \cup {NoOp}]
    /\ alive \in [Clients -> BOOLEAN]
    /\ holding \in [Clients -> BOOLEAN]
    /\ events \in 0 .. MaxEvents
    /\ owed \subseteq Clients \cup {Maintenance}
    /\ missed \subseteq Clients \cup {Maintenance}

Init ==
    /\ loop = "accept"
    /\ shutdown = FALSE
    /\ idle = FALSE
    /\ leases = {} /\ probed = {} /\ live = {} /\ workers = {}
    /\ guard = [w \in Clients \cup Jobs |-> "none"]
    /\ op = [c \in Clients |-> NoOp]
    /\ alive = [c \in Clients |-> TRUE]
    /\ holding = [c \in Clients |-> FALSE]
    /\ events = 0
    /\ owed = {} /\ missed = {}

\* Whom the daemon is there for: a client with a lease, a session or an active
\* connection, and maintenance that runs or has been handed to the sweep.
Needy ==
    {c \in Clients : holding[c] \/ c \in workers \/ guard[c] \in Counted}
    \cup {m \in {Maintenance} : \/ \E j \in Jobs : guard[j] \in Counted
                               \/ guard["sweep"] = "started"}

\* The loop goes on polling, or back to accept.
GoOn(pc) == loop' = pc /\ UNCHANGED historyVars
GoBack == loop' = "accept" /\ owed' = {} /\ missed' = {}

\* Where the need of somebody ends: who has another is still owed.
NeedEnds == owed' = owed \cap Needy' /\ UNCHANGED missed

-----------------------------------------------------------------------------
(* The accept loop.  A poll that finds a reason to stay ends there: the      *)
(* reads that the code still does after it change nothing.                   *)

AcceptTcp(c) ==
    /\ loop = "accept"
    /\ guard[c] = "tcp"
    /\ guard' = [guard EXCEPT ![c] = "started"]
    /\ UNCHANGED <<daemonVars, clientVars, events, historyVars>>

\* WouldBlock: nobody waits on the listener.  Leases are pruned once a second.
Poll ==
    /\ loop = "accept"
    /\ \A c \in Clients : guard[c] # "tcp"
    /\ \/ shutdown /\ loop' = "stopped"
       \/ ~shutdown /\ loop' = "prune"
       \/ ~shutdown /\ loop' = "workers"
    /\ owed' = Needy /\ missed' = {}
    /\ UNCHANGED <<shutdown, idle, leases, probed, live, workers, clientVars, guard, events>>

\* The snapshot and, outside the registry's lock, the liveness check of what
\* it holds: a death in between is one before the snapshot.
PruneProbe ==
    /\ loop = "prune"
    /\ IF leases = {}
       THEN /\ UNCHANGED <<probed, live>>
            /\ GoOn("workers")
       ELSE /\ probed' = leases
            /\ live' = {c \in leases : alive[c]}
            /\ GoOn("retain")
    /\ UNCHANGED <<shutdown, idle, leases, workers, clientVars, guard, events>>

\* Mutant: the Windows branch retains what it saw alive, like the other.
PruneRetainSeen ==
    /\ loop = "retain"
    /\ leases' = leases \cap live
    /\ probed' = {} /\ live' = {}
    /\ GoOn("workers")
    /\ UNCHANGED <<shutdown, idle, workers, clientVars, guard, events>>

\* The batched form keeps what its process table shows to be alive; that table
\* was refreshed for the snapshot only.
PruneRetain ==
    /\ loop = "retain"
    /\ leases' = IF BatchedPrune THEN leases \cap live ELSE leases \ (probed \ live)
    /\ probed' = {} /\ live' = {}
    /\ GoOn("workers")
    /\ UNCHANGED <<shutdown, idle, workers, clientVars, guard, events>>

\* Mutant: the leases are read before the connections.
AfterReadLeasesFirst ==
    [workers |-> "idle", idle |-> "leases", leases |-> "conns", conns |-> "jobs",
     jobs |-> "retired"]

\* The order in which the reads are made; the last is followed by the verdict.
AfterRead ==
    [workers |-> "idle", idle |-> "conns", conns |-> "jobs", jobs |-> "leases",
     leases |-> "retired"]

\* A read that finds nobody lets the poll go on.
Reads(nobody, behind) ==
    /\ IF nobody
       THEN /\ loop' = AfterRead[loop]
            /\ shutdown' = (shutdown \/ loop' = "retired")
            /\ owed' = owed
            /\ missed' = missed \cup behind
       ELSE GoBack /\ UNCHANGED shutdown
    /\ UNCHANGED <<idle, leases, probed, live, workers, clientVars, guard, events>>

ReadWorkers ==
    /\ loop = "workers"
    /\ IF workers = {}
       THEN Reads(TRUE, {})
       ELSE /\ GoOn("noteWorkers")
            /\ UNCHANGED <<shutdown, idle, leases, probed, live, workers, clientVars, guard, events>>

NoteWorkers ==
    /\ loop = "noteWorkers"
    /\ idle' = FALSE
    /\ GoBack
    /\ UNCHANGED <<shutdown, leases, probed, live, workers, clientVars, guard, events>>

ReadIdle == loop = "idle" /\ Reads(idle, {})

ReadConnections ==
    /\ loop = "conns"
    /\ Reads(\A c \in Clients : guard[c] \notin Counted, {})

ReadJobs ==
    /\ loop = "jobs"
    /\ Reads(\A j \in Jobs : guard[j] \notin Counted,
             {m \in {Maintenance} : guard["sweep"] = "started"})

ReadLeases == loop = "leases" /\ Reads(leases = {}, {})

\* run_daemon returns and the process ends, with whatever thread still runs.
Exit ==
    /\ loop \in {"retired", "stopped"}
    /\ GoOn("gone")
    /\ guard' = [w \in Clients \cup Jobs |-> "none"]
    /\ UNCHANGED <<shutdown, idle, leases, probed, live, workers, clientVars, events>>

\* idle_for is taken against the time at which the poll began.
TimePasses ==
    /\ loop = "accept"
    /\ ~idle
    /\ idle' = TRUE
    /\ UNCHANGED <<loop, shutdown, leases, probed, live, workers, clientVars, guard, events, historyVars>>

-----------------------------------------------------------------------------
(* The guard that the thread of a connection or a job holds while it works.  *)
(* Start notes the activity and then counts, which a poll that reads them in *)
(* the same order cannot tell from one step.  Drop uncounts, then notes.     *)

Running == loop # "gone"
Event   == events < MaxEvents /\ events' = events + 1
GuardGoes(w, from, to) ==
    /\ Running
    /\ guard[w] = from
    /\ guard' = [guard EXCEPT ![w] = to]

GuardStart(w) ==
    /\ GuardGoes(w, "started", "counted")
    /\ idle' = FALSE
    /\ UNCHANGED <<loop, shutdown, leases, probed, live, workers, clientVars, events, historyVars>>

\* Mutant: the sweep's thread leaves without dropping its guard.
GuardUncountLeaks(w) ==
    /\ w # "sweep"
    /\ GuardGoes(w, "done", "dropped")
    /\ UNCHANGED <<daemonVars, clientVars, events>>
    /\ NeedEnds

GuardUncount(w) ==
    /\ GuardGoes(w, "done", "dropped")
    /\ UNCHANGED <<daemonVars, clientVars, events>>
    /\ NeedEnds

GuardDropped(w) ==
    /\ GuardGoes(w, "dropped", "none")
    /\ idle' = FALSE
    /\ UNCHANGED <<loop, shutdown, leases, probed, live, workers, clientVars, events, historyVars>>

-----------------------------------------------------------------------------
(* Clients and the requests they send, over TCP or the broker frame lane;    *)
(* one connection of a client at a time.                                     *)

Call(c) ==
    /\ Running
    /\ alive[c]
    /\ guard[c] = "none"
    /\ Event
    /\ \E o \in Ops, lane \in {"tcp", "frame"} :
          /\ (o = "acquire" => ~holding[c]) /\ (o = "release" => holding[c])
          /\ (o = "create" => c \notin workers)
          /\ op' = [op EXCEPT ![c] = o]
          /\ guard' = [guard EXCEPT ![c] = lane]
          /\ holding' = [holding EXCEPT ![c] = @ /\ o # "release"]
    /\ UNCHANGED <<daemonVars, alive>>
    /\ NeedEnds

\* The frame lane accepts on a thread of its own, until it sees the flag.
AcceptFrame(c) ==
    /\ ~shutdown
    /\ GuardGoes(c, "frame", "started")
    /\ UNCHANGED <<daemonVars, clientVars, events, historyVars>>

\* The thread of c's connection handles the request and writes the reply.
Handle(c, o) ==
    /\ op[c] = o
    /\ GuardGoes(c, "counted", "done")
    /\ op' = [op EXCEPT ![c] = NoOp]
    /\ UNCHANGED <<loop, idle, probed, live, alive, events, owed>>

\* Mutant: the lease is entered under the request, not the client's identity.
AcquireMisnamed(c) ==
    /\ Handle(c, "acquire")
    /\ leases' = leases \cup {op[c]}
    /\ holding' = [holding EXCEPT ![c] = alive[c]]
    /\ UNCHANGED <<shutdown, workers, missed>>

Acquire(c) ==
    /\ Handle(c, "acquire")
    /\ leases' = IF alive[c] THEN leases \cup {c} ELSE leases
    /\ holding' = [holding EXCEPT ![c] = alive[c]]
    /\ UNCHANGED <<shutdown, workers, missed>>

Release(c) ==
    /\ Handle(c, "release")
    /\ leases' = leases \ {c}
    /\ UNCHANGED <<shutdown, workers, holding, missed>>

\* daemon_create_session enters the worker in the map, unless it is not ready
\* within 5 s: the worker then runs on outside the map.
Create(c) ==
    /\ Handle(c, "create")
    /\ \/ /\ workers' = workers \cup {c}
          /\ missed' = IF loop \in DOMAIN AfterRead \ {"workers"} THEN missed \cup {c}
                                                                  ELSE missed
       \/ UNCHANGED <<workers, missed>>
    /\ UNCHANGED <<shutdown, leases, holding>>

\* The flag is raised once the reply is on the wire.
Shutdown(c) ==
    /\ Handle(c, "shutdown")
    /\ shutdown' = TRUE
    /\ UNCHANGED <<leases, workers, holding, missed>>

\* reap_worker_when_done.
WorkerExits(c) ==
    /\ Running
    /\ c \in workers
    /\ workers' = workers \ {c}
    /\ UNCHANGED <<loop, shutdown, idle, leases, probed, live, clientVars, guard, events>>
    /\ NeedEnds

ClientDies(c) ==
    /\ Running
    /\ alive[c]
    /\ alive' = [alive EXCEPT ![c] = FALSE]
    /\ holding' = [holding EXCEPT ![c] = FALSE]
    /\ UNCHANGED <<daemonVars, op, guard, events>>
    /\ NeedEnds

-----------------------------------------------------------------------------
(* Maintenance: a tick on the registry thread, which hands the file system   *)
(* walks to a sweep thread.  The sweep takes its guard in its own thread,    *)
(* when the tick may have dropped the other already.                         *)

TickDue ==
    /\ Event
    /\ GuardGoes("tick", "none", "started")
    /\ UNCHANGED <<daemonVars, clientVars, historyVars>>

Tick ==
    /\ Running
    /\ guard["tick"] = "counted"
    /\ guard' = [guard EXCEPT !["tick"] = "done",
                              !["sweep"] = IF @ = "none" THEN "started" ELSE @]
    /\ UNCHANGED <<daemonVars, clientVars, events, historyVars>>

Sweep ==
    /\ GuardGoes("sweep", "counted", "done")
    /\ UNCHANGED <<daemonVars, clientVars, events, historyVars>>

-----------------------------------------------------------------------------
Loop ==
    \/ \E c \in Clients : AcceptTcp(c)
    \/ Poll \/ PruneProbe \/ PruneRetain
    \/ ReadWorkers \/ NoteWorkers \/ ReadIdle \/ ReadConnections \/ ReadJobs
    \/ ReadLeases \/ Exit

Serve(c) == AcceptFrame(c) \/ Acquire(c) \/ Release(c) \/ Create(c) \/ Shutdown(c)
Guard(w) == GuardStart(w) \/ GuardUncount(w) \/ GuardDropped(w)
Maintain == Tick \/ Sweep

Next ==
    \/ Loop \/ TimePasses \/ TickDue \/ Maintain
    \/ \E c \in Clients : Call(c) \/ Serve(c) \/ WorkerExits(c) \/ ClientDies(c)
    \/ \E w \in Clients \cup Jobs : Guard(w)

\* Threads run.  The two timers, of the idle clock and of the one-second prune,
\* run out however the poll interleaves with them: strong fairness.
Fairness ==
    /\ WF_vars(Loop)
    /\ SF_vars(TimePasses) /\ SF_vars(Poll /\ loop' = "prune")
    /\ WF_vars(Maintain)
    /\ \A c \in Clients : WF_vars(Serve(c))
    /\ \A w \in Clients \cup Jobs : WF_vars(Guard(w))

Spec == Init /\ [][Next]_vars /\ Fairness

-----------------------------------------------------------------------------
(* Properties *)

\* A granted lease stays in the registry until its client gives it back or
\* dies: pruning never takes the lease of a live client, whatever is acquired
\* and released while it probes.
LeaseKept ==
    [][\A c \in Clients : holding[c] /\ holding'[c] /\ c \in leases => c \in leases']_vars

\* A poll does not retire the daemon on somebody who has needed it ever since
\* the poll began, by a lease, a session, an active connection or maintenance in
\* turn: a need that ends during the poll has been followed by one that is read
\* later.  Two are not: a session made after the workers were read, and a sweep
\* that has not taken its guard when the jobs are.
RetiresUnneeded == loop = "retired" => owed \subseteq missed

\* The same without the exception for sessions: no poll retires the daemon on a
\* session whose client has needed it ever since the poll began.
SessionsPreventRetirement == loop = "retired" => owed \cap workers = {}

\* The same without the exception for sweeps: none on maintenance that was under
\* way when the poll began and still is.
MaintenancePreventsRetirement == loop = "retired" => Maintenance \notin owed

\* Nor on a connection accepted while the poll goes on: a daemon does not
\* retire on a request it has accepted and not answered.
RetiresUnasked ==
    loop = "retired" => \A c \in Clients : guard[c] \notin {"started", "counted"}

\* Once the clients and their sessions are gone for good, the daemon retires:
\* no lease of a dead client, lost count or maintenance keeps it up.
Unneeded == workers = {} /\ \A c \in Clients : ~alive[c]
RetiresInTheEnd == <>[]Unneeded => <>(loop = "gone")
=============================================================================
