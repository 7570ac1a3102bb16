----------------------------- MODULE SessionFile -----------------------------
(***************************************************************************)
(* sessions/<id>.json of one session and everyone who writes it: threads   *)
(* of the worker (WorkerShared::persist_snapshot), the daemon's terminate  *)
(* and interrupt, and the clean-up of a later daemon.  Each save is a      *)
(* read, a write of the one shared <id>.tmp, a removal of the old file and *)
(* a rename (io_helpers.rs); nobody locks, and processes die anywhere.     *)
(* The copy of the snapshot and the read of the file are one step here.    *)
(*                                                                         *)
(* Of a snapshot the exit code, the background flag and the mark of an     *)
(* interrupt are kept.                                                     *)
(***************************************************************************)
EXTENDS Integers

CONSTANTS
    MaxEvents,    \* bound on attaches, terminates, interrupts and crashes
    WorkerMayCrash, DaemonMayDie   \* fault switches

ASSUME BoundAssumption == MaxEvents \in Nat

VARIABLES
    mem,       \* the worker's snapshot, under its mutex
    file, tmp, \* <id>.json and <id>.tmp
    child, worker, parent,   \* which processes live: backend, worker, daemon
    stop,      \* stop_accepting
    client,    \* is a client attached
    events,
    at,        \* where each thread is
    save,      \* the step of its save
    held,      \* the snapshot it saves
    seen,      \* the exit code that the last readable file showed
    torn       \* have two saves overlapped, or has one been cut off

procs == <<child, worker, parent>>
vars == <<mem, file, tmp, procs, stop, client, events, at, save, held, seen, torn>>

Inner == {"main", "wait", "watch", "cli", "ctrlc"}   \* threads of the worker
Outer == {"term", "intr"}                            \* threads of a daemon
Threads == Inner \cup Outer \cup {"clean"}

Codes == {"own", "143", "130", "137"}
Snapshots == [exit : Codes \cup {"none"}, bg : BOOLEAN, fast : BOOLEAN]
Missing == [exit |-> "missing", bg |-> FALSE, fast |-> FALSE]

Init ==
    /\ mem = [exit |-> "none", bg |-> TRUE, fast |-> FALSE]
    /\ file = Missing /\ tmp = Missing
    /\ child = "alive" /\ worker = TRUE /\ parent = TRUE
    /\ stop = FALSE /\ client = FALSE /\ events = 0
    /\ at = [t \in Threads |-> "start"]
    /\ save = [t \in Threads |-> "none"]
    /\ held = [t \in Threads |-> Missing]
    /\ seen = "none" /\ torn = FALSE

\* Bound: one more attach, terminate, interrupt or crash.
Event == events < MaxEvents /\ events' = events + 1

-----------------------------------------------------------------------------
(* Saving *)

Saving(t) == save[t] # "none"

\* Mutant: the exit code of a daemon's interrupt is not kept.
MergedPlain(x) == [x EXCEPT !.fast = @ \/ file.fast]

\* persist_snapshot: what the file says of an interrupt wins.
Merged(x) ==
    IF file.fast /\ file.exit # "none"
    THEN [exit |-> file.exit, bg |-> file.bg, fast |-> TRUE]
    ELSE [x EXCEPT !.fast = @ \/ file.fast]

\* A save begins with the snapshot x; the worker merges it with the file.
Begin(t, x) ==
    /\ save' = [save EXCEPT ![t] = "write"]
    /\ held' = [held EXCEPT ![t] = IF t \in Inner THEN Merged(x) ELSE x]
    /\ torn' = (torn \/ \E u \in Threads \ {t} : Saving(u))

SaveWrite(t) ==
    /\ save[t] = "write"
    /\ tmp' = held[t]
    /\ save' = [save EXCEPT ![t] = "remove"]
    /\ UNCHANGED <<file, held, seen>>

SaveRemove(t) ==
    /\ save[t] = "remove"
    /\ file' = Missing
    /\ save' = [save EXCEPT ![t] = "rename"]
    /\ UNCHANGED <<tmp, held, seen>>

\* Mutant: a rename that fails passes for a file.
SaveRenameBlind(t) ==
    /\ save[t] = "rename"
    /\ file' = tmp /\ seen' = tmp.exit /\ tmp' = Missing
    /\ save' = [save EXCEPT ![t] = "none"]
    /\ held' = [held EXCEPT ![t] = Missing]

\* The rename fails when another save has taken the file.
SaveRename(t) ==
    /\ save[t] = "rename"
    /\ IF tmp = Missing THEN UNCHANGED <<file, seen>>
       ELSE file' = tmp /\ seen' = tmp.exit
    /\ tmp' = Missing
    /\ save' = [save EXCEPT ![t] = "none"]
    /\ held' = [held EXCEPT ![t] = Missing]

\* One step of a save; what its thread does next depends on the outcome.
Save(t) ==
    /\ SaveWrite(t) \/ SaveRemove(t) \/ SaveRename(t)
    /\ at' = IF t = "main" /\ at[t] = "ready" /\ save[t] = "rename" /\ tmp = Missing
                THEN [at EXCEPT ![t] = "aborts"]
             ELSE IF t = "intr" /\ at[t] = "told" /\ save[t] = "rename" /\ tmp = Missing
                THEN [at EXCEPT ![t] = "over"]
             ELSE at
    /\ UNCHANGED <<mem, procs, stop, client, events, torn>>

Idle(t, label) == at[t] = label /\ ~Saving(t)
Move(t, label) == at' = [at EXCEPT ![t] = label]

\* The threads S end; a save they were in is cut off.
Ended(S) ==
    /\ at' = [t \in Threads |-> IF t \in S THEN "over" ELSE at[t]]
    /\ save' = [t \in Threads |-> IF t \in S THEN "none" ELSE save[t]]
    /\ held' = [t \in Threads |-> IF t \in S THEN Missing ELSE held[t]]
    /\ torn' = (torn \/ \E t \in S : Saving(t))

disk == <<file, tmp, seen>>
quiet == <<save, held, torn>>

-----------------------------------------------------------------------------
(* The worker *)

\* set_root_pid, and the save after it that must succeed.
MainRoot ==
    /\ Idle("main", "start") /\ Begin("main", mem) /\ Move("main", "root")
    /\ UNCHANGED <<mem, disk, procs, stop, client, events>>
MainReady ==
    /\ Idle("main", "root") /\ Begin("main", mem) /\ Move("main", "ready")
    /\ UNCHANGED <<mem, disk, procs, stop, client, events>>
MainLoop ==
    /\ Idle("main", "ready") /\ Move("main", "loop")
    /\ UNCHANGED <<mem, disk, procs, stop, client, events, quiet>>

\* The accept loop ends: the final save.
MainFinal ==
    /\ Idle("main", "loop") /\ stop /\ ~client
    /\ Begin("main", mem) /\ Move("main", "final")
    /\ UNCHANGED <<mem, disk, procs, stop, client, events>>

\* run_worker returns, after the final save or because it could not save.
MainReturns ==
    /\ Idle("main", "final") \/ Idle("main", "aborts")
    /\ worker' = FALSE /\ Ended(Inner)
    /\ UNCHANGED <<mem, disk, child, parent, stop, client, events>>

\* Mutant: the last thread to call it names the code.
ExitedLast(code) == [mem EXCEPT !.exit = code]

\* set_exit_code: the first code stays.
Exited(code) == IF mem.exit = "none" THEN [mem EXCEPT !.exit = code] ELSE mem

SetExit(t, code, label) ==
    /\ mem' = Exited(code)
    /\ Begin(t, mem') /\ Move(t, label)
    /\ UNCHANGED <<disk, stop, client, events>>

\* broadcast_exit, once the code is saved.
Stop(t, before, label) ==
    /\ Idle(t, before) /\ stop' = TRUE /\ Move(t, label)
    /\ UNCHANGED <<mem, disk, procs, client, events, quiet>>

ChildEnds ==
    /\ child = "alive" /\ child' = "own"
    /\ UNCHANGED <<mem, disk, worker, parent, stop, client, events, at, quiet>>

\* The wait thread.
WaitExit ==
    /\ Idle("wait", "start") /\ child # "alive"
    /\ SetExit("wait", child, "told") /\ UNCHANGED procs

\* The watchdog of the daemon.
WatchKills ==
    /\ Idle("watch", "start") /\ ~parent /\ mem.exit = "none"
    /\ at["main"] \in {"loop", "final"}
    /\ child' = (IF child = "alive" THEN "143" ELSE child)
    /\ SetExit("watch", "137", "told") /\ UNCHANGED <<worker, parent>>
WatchAgain ==
    /\ Idle("watch", "stopped") /\ Begin("watch", mem) /\ Move("watch", "over")
    /\ UNCHANGED <<mem, disk, procs, stop, client, events>>

\* set_background, of an attach, a detach or an eviction.
Flip(b) ==
    /\ mem' = [mem EXCEPT !.bg = b]
    /\ IF mem.bg = b THEN UNCHANGED quiet ELSE Begin("cli", mem')

Attach ==
    /\ Idle("cli", "start") /\ at["main"] = "loop" /\ ~client /\ Event
    /\ client' = TRUE /\ Flip(FALSE)
    /\ UNCHANGED <<disk, procs, stop, at>>
Detach ==
    /\ Idle("cli", "start") /\ client /\ client' = FALSE
    /\ IF mem.exit = "none" THEN Flip(TRUE) ELSE UNCHANGED <<mem, quiet>>
    /\ UNCHANGED <<disk, procs, stop, events, at>>

\* start_interrupt_fast_path: it records the interrupt, kills the child,
\* records that, and ends the session with 130.
CtrlC ==
    /\ Idle("ctrlc", "start") /\ client
    /\ mem' = [mem EXCEPT !.fast = TRUE] /\ Begin("ctrlc", mem') /\ Move("ctrlc", "kill")
    /\ UNCHANGED <<disk, procs, stop, client, events>>
CtrlCKills ==
    /\ Idle("ctrlc", "kill")
    /\ child' = (IF child = "alive" THEN "143" ELSE child)
    /\ Begin("ctrlc", mem) /\ Move("ctrlc", "killed")
    /\ UNCHANGED <<mem, disk, worker, parent, stop, client, events>>
CtrlCExit ==
    /\ Idle("ctrlc", "killed") /\ SetExit("ctrlc", "130", "told") /\ UNCHANGED procs

WorkerStep ==
    \/ MainRoot \/ MainReady \/ MainLoop \/ MainFinal \/ MainReturns
    \/ WaitExit \/ Stop("wait", "told", "over")
    \/ WatchKills \/ Stop("watch", "told", "stopped") \/ WatchAgain
    \/ CtrlCKills \/ CtrlCExit \/ Stop("ctrlc", "told", "over")

-----------------------------------------------------------------------------
(* The daemon *)

\* The snapshot x of a session that another process ended with a code.
Over(x, code) == [exit |-> code, bg |-> FALSE, fast |-> x.fast]
Interrupted(x) == [exit |-> "130", bg |-> FALSE, fast |-> TRUE]

\* daemon_terminate_session reads the file; with none it replies an error.
TermRead ==
    /\ Idle("term", "start") /\ file # Missing /\ Event
    /\ held' = [held EXCEPT !["term"] = file] /\ Move("term", "kill")
    /\ UNCHANGED <<mem, disk, procs, stop, client, save, torn>>

\* terminate_session_processes: the tree of the backend, then the worker.
KillChild(t) ==
    /\ Idle(t, "kill")
    /\ child' = (IF child = "alive" THEN "143" ELSE child)
    /\ Move(t, "killing")
    /\ UNCHANGED <<mem, disk, worker, parent, stop, client, events, quiet>>
KillWorker(t) ==
    /\ Idle(t, "killing")
    /\ worker' = FALSE
    /\ at' = [u \in Threads |-> IF u \in Inner THEN "over" ELSE IF u = t THEN "killed" ELSE at[u]]
    /\ save' = [u \in Threads |-> IF u \in Inner THEN "none" ELSE save[u]]
    /\ held' = [u \in Threads |-> IF u \in Inner THEN Missing ELSE held[u]]
    /\ torn' = (torn \/ \E u \in Inner : Saving(u))
    /\ UNCHANGED <<mem, disk, child, parent, stop, client, events>>

TermWrite ==
    /\ Idle("term", "killed")
    /\ Begin("term", Over(held["term"], "130"))
    /\ Move("term", "over")
    /\ UNCHANGED <<mem, disk, procs, stop, client, events>>

\* daemon_interrupt_session saves 130 at once, and replies.
IntrRead ==
    /\ Idle("intr", "start") /\ file # Missing /\ Event
    /\ Begin("intr", Interrupted(file)) /\ Move("intr", "told")
    /\ UNCHANGED <<mem, disk, procs, stop, client>>

\* finish_daemon_interrupt_session, before and after the kill.
IntrAgain ==
    /\ Idle("intr", "told")
    /\ IF file = Missing THEN Move("intr", "over") /\ UNCHANGED quiet
       ELSE Begin("intr", [file EXCEPT !.fast = TRUE]) /\ Move("intr", "kill")
    /\ UNCHANGED <<mem, disk, procs, stop, client, events>>
IntrFinish ==
    /\ Idle("intr", "killed") /\ Move("intr", "over")
    /\ IF file = Missing THEN UNCHANGED quiet ELSE Begin("intr", Interrupted(file))
    /\ UNCHANGED <<mem, disk, procs, stop, client, events>>

DaemonStep ==
    \/ \E t \in Outer : KillChild(t) \/ KillWorker(t)
    \/ TermWrite \/ IntrAgain \/ IntrFinish

\* Mutant: sessions in the background are passed over.
StaleForeground == file # Missing /\ file.exit = "none" /\ ~worker /\ ~file.bg

\* A snapshot without an exit code, of a worker that is gone.
Stale == file # Missing /\ file.exit = "none" /\ ~worker

\* cleanup_stale_state, at the next launch that finds no daemon.
Clean ==
    /\ Idle("clean", "start") /\ ~parent /\ Stale
    /\ Begin("clean", Over(file, "137"))
    /\ UNCHANGED <<mem, disk, procs, stop, client, events, at>>

WorkerCrashes ==
    /\ WorkerMayCrash /\ worker /\ Event
    /\ worker' = FALSE /\ Ended(Inner)
    /\ UNCHANGED <<mem, disk, child, parent, stop, client>>

\* The daemon is killed, with the requests it was serving.
DaemonDies ==
    /\ DaemonMayDie /\ parent
    /\ parent' = FALSE /\ Ended({t \in Outer : at[t] # "start"})
    /\ UNCHANGED <<mem, disk, child, worker, stop, client, events>>

Next ==
    \/ \E t \in Threads : Save(t)
    \/ WorkerStep \/ DaemonStep \/ Clean
    \/ ChildEnds \/ Attach \/ Detach \/ CtrlC \/ TermRead \/ IntrRead
    \/ WorkerCrashes \/ DaemonDies

\* Threads that have begun go on; a daemon is launched again some day.
Spec ==
    /\ Init /\ [][Next]_vars
    /\ \A t \in Threads : WF_vars(Save(t))
    /\ WF_vars(WorkerStep) /\ WF_vars(DaemonStep) /\ WF_vars(Clean)

-----------------------------------------------------------------------------
(* Properties *)

TypeOK ==
    /\ mem \in Snapshots
    /\ file \in Snapshots \cup {Missing} /\ tmp \in Snapshots \cup {Missing}
    /\ child \in {"alive", "own", "143"} /\ worker \in BOOLEAN /\ parent \in BOOLEAN
    /\ stop \in BOOLEAN /\ client \in BOOLEAN /\ events \in 0..MaxEvents
    /\ at \in [Threads -> {"start", "root", "ready", "loop", "final", "aborts", "told",
                           "stopped", "kill", "killing", "killed", "over"}]
    /\ save \in [Threads -> {"none", "write", "remove", "rename"}]
    /\ held \in [Threads -> Snapshots \cup {Missing}]
    /\ seen \in Codes \cup {"none"} /\ torn \in BOOLEAN

\* While saves do not overlap and none is cut off, the exit code of a session
\* is final for its readers: only terminate and interrupt replace it, by 130,
\* and neither the worker's own code nor the clean-up ever undoes a 130.
ExitIsFinal == [][~torn' /\ seen # "none" => seen' \in {seen, "130"}]_vars

\* The session of a worker that is gone ends up recorded as over, or its file
\* is gone too, once a daemon has been launched again: clud list never shows a
\* dead session as live for ever.
DeadIsRecorded ==
    (~worker /\ ~parent) ~> [](file = Missing \/ file.exit # "none")

\* docs/architecture/daemon-ipc.md:232: write_json_file is "atomic on POSIX and
\* Windows": a snapshot that was written is there when nobody is writing it.
WrittenIsKept ==
    at["main"] \in {"ready", "loop", "final"} /\ (\A t \in Threads : ~Saving(t))
        => file # Missing
=============================================================================
