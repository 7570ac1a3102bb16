---------------------------- MODULE SingleDaemon ----------------------------
(***************************************************************************)
(* What bring-up promises the commands that call ensure_daemon: at any     *)
(* time nobody or one daemon is in service, a process enters service once, *)
(* and a launch is told `ready' only on the strength of a daemon of its    *)
(* own version that it saw in service during its call and that still runs. *)
(* DaemonBringup implements this where it is calm.                         *)
(***************************************************************************)
CONSTANTS
    Daemons,            \* daemon processes
    Launches,           \* calls of ensure_daemon
    None,               \* no daemon
    Matches(_, _)       \* Matches(c, d): d runs the version of launch c

VARIABLES
    service,  \* the daemon in service, or None
    spent,    \* the daemons that are or were in service, or ended before it
    noted,    \* the running daemon each launch last saw in service
    outcome   \* what each launch was told

vars == <<service, spent, noted, outcome>>

Init ==
    /\ service = None
    /\ spent = {}
    /\ noted = [c \in Launches |-> None]
    /\ outcome = [c \in Launches |-> "none"]

\* A daemon publishes itself: nobody else is in service.
Start(d) ==
    /\ service = None
    /\ d \notin spent
    /\ service' = d
    /\ spent' = spent \cup {d}
    /\ UNCHANGED <<noted, outcome>>

\* The daemon in service withdraws; its process goes on for a while.
Withdraw ==
    /\ service # None
    /\ service' = None
    /\ UNCHANGED <<spent, noted, outcome>>

\* A daemon process ends: it retired, crashed, failed to start or was replaced.
End(d) ==
    /\ service' = IF service = d THEN None ELSE service
    /\ spent' = spent \cup {d}
    /\ noted' = [c \in Launches |-> IF noted[c] = d THEN None ELSE noted[c]]
    /\ UNCHANGED outcome

\* A launch looks who is in service.
Look(c) ==
    /\ outcome[c] = "none"
    /\ noted' = [noted EXCEPT ![c] = service]
    /\ UNCHANGED <<service, spent, outcome>>

Ready(c) ==
    /\ outcome[c] = "none"
    /\ noted[c] # None
    /\ Matches(c, noted[c])
    /\ outcome' = [outcome EXCEPT ![c] = "ready"]
    /\ UNCHANGED <<service, spent, noted>>

Fail(c) ==
    /\ outcome[c] = "none"
    /\ outcome' = [outcome EXCEPT ![c] = "failed"]
    /\ UNCHANGED <<service, spent, noted>>

Next ==
    \/ \E d \in Daemons : Start(d) \/ End(d)
    \/ Withdraw
    \/ \E c \in Launches : Look(c) \/ Ready(c) \/ Fail(c)

Spec == Init /\ [][Next]_vars
=============================================================================
