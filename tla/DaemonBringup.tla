--------------------------- MODULE DaemonBringup ---------------------------
(***************************************************************************)
(* How concurrent clud processes bring up, upgrade and stop the one daemon *)
(* of a state directory (daemon/client.rs), together with the start-up and *)
(* exit path of that daemon (daemon/server.rs, run_daemon).                *)
(*                                                                         *)
(* The shared state is on disk: daemon.json (who serves), daemon.tmp (the  *)
(* file write_json_file fills before it renames), the advisory lock on     *)
(* daemon.lock and the exclusive lock redb takes on data.redb.  Every      *)
(* access to one of them is a step of its own.                             *)
(*                                                                         *)
(* A client process runs one command and spawns at most one daemon, so the *)
(* daemon that client c spawns is named c as well.                         *)
(***************************************************************************)
EXTENDS FiniteSets

CONSTANTS
    Clients,        \* clud processes (and the daemons they spawn)
    OldClients,     \* those that run the previous clud version
    Restarters,     \* those that run `clud daemon restart`
    Stoppers,       \* those that run `clud daemon stop`
    None,           \* no daemon, no holder
    Slow,           \* a deadline may expire while what it waits for goes on
    ClientsMayDie,  \* a client may be killed at any point
    DaemonsMayDie   \* a daemon may be killed at any point

ASSUME BringupAssumption ==
    /\ OldClients \subseteq Clients
    /\ Restarters \subseteq Clients
    /\ Stoppers \subseteq Clients
    /\ None \notin Clients
    /\ {Slow, ClientsMayDie, DaemonsMayDie} \subseteq BOOLEAN

VARIABLES
    daemonJson,  \* the daemon that daemon.json names, or None: no file
    daemonTmp,   \* the daemon that daemon.tmp names, or None: no file
    lock,        \* the client that holds daemon.lock
    redb,        \* the daemon that holds data.redb
    dpc,         \* where each daemon is in run_daemon
    gc,          \* has the daemon a registry worker (gc_tx is Some)
    cpc,         \* where each client is
    seen,        \* the DaemonInfo each client last read
    asked        \* the daemon each client sent its Shutdown request to

vars == <<daemonJson, daemonTmp, lock, redb, dpc, gc, cpc, seen, asked>>

Booting  == {"spawned", "cleanRemove", "open", "writeTmp", "removeOld", "rename"}
Up       == {"serving", "stopping"}
DaemonPC == {"unborn", "dead", "stopped"} \cup Booting \cup Up

\* What a client does while it holds daemon.lock.
Locked   == {"cleanRead", "cleanRemove", "reread", "reconnect", "replaceKill",
             "replaceRemove", "spawn", "awaitRead", "awaitConnect"}
InEnsure == {"read", "connect", "lockClean", "lockUpgrade"} \cup Locked
InStop   == {"stopRead", "stopCheck", "stopRemoveDead", "stopSend", "stopReply",
             "stopWait", "stopRemove"}
ClientPC == {"idle", "ready", "failed", "done", "gone"} \cup InEnsure \cup InStop

TypeOK ==
    /\ daemonJson \in Clients \cup {None}
    /\ daemonTmp \in Clients \cup {None}
    /\ lock \in Clients \cup {None}
    /\ redb \in Clients \cup {None}
    /\ dpc \in [Clients -> DaemonPC]
    /\ gc \in [Clients -> BOOLEAN]
    /\ cpc \in [Clients -> ClientPC]
    /\ seen \in [Clients -> Clients \cup {None}]
    /\ asked \in [Clients -> Clients \cup {None}]

Init ==
    /\ daemonJson = None
    /\ daemonTmp = None
    /\ lock = None
    /\ redb = None
    /\ dpc = [c \in Clients |-> "unborn"]
    /\ gc = [c \in Clients |-> FALSE]
    /\ cpc = [c \in Clients |-> "idle"]
    /\ seen = [c \in Clients |-> None]
    /\ asked = [c \in Clients |-> None]

-----------------------------------------------------------------------------
(* Observations. *)

\* identity_is_alive: a PID whose start time matches the recorded one.
Alive(d) == d # None /\ dpc[d] \notin {"unborn", "dead"}

\* probe_existing after the file was read.  The listener is bound before
\* daemon.json is written and closes only with the process, and the kernel
\* completes the connect whether or not the daemon still calls accept().
Answers(d) == Alive(d)

\* daemon_version_matches: the daemon runs the binary of its spawner.
SameVersion(c, d) == c \in OldClients <=> d \in OldClients

Goto(c, pc) == cpc' = [cpc EXCEPT ![c] = pc]

\* The process of d is gone; the OS drops its lock on data.redb.
Kill(d) ==
    /\ dpc' = IF Alive(d) THEN [dpc EXCEPT ![d] = "dead"] ELSE dpc
    /\ redb' = IF Alive(d) /\ redb = d THEN None ELSE redb

disk == <<daemonJson, daemonTmp, lock, redb>>
daemonVars == <<dpc, gc>>
clientVars == <<cpc, seen, asked>>

-----------------------------------------------------------------------------
(* ensure_daemon *)

Begin(c) ==
    /\ cpc[c] = "idle"
    /\ Goto(c, IF c \in Restarters \cup Stoppers THEN "stopRead" ELSE "read")
    /\ UNCHANGED <<disk, daemonVars, seen, asked>>

ProbeRead(c) ==
    /\ cpc[c] = "read"
    /\ seen' = [seen EXCEPT ![c] = daemonJson]
    /\ Goto(c, IF daemonJson = None THEN "lockClean" ELSE "connect")
    /\ UNCHANGED <<disk, daemonVars, asked>>

\* Mutant: the first probe does not compare versions.
ProbeAnyVersion(c) ==
    /\ cpc[c] = "connect"
    /\ Goto(c, IF Answers(seen[c]) THEN "ready" ELSE "lockClean")
    /\ UNCHANGED <<disk, daemonVars, seen, asked>>

ProbeConnect(c) ==
    /\ cpc[c] = "connect"
    /\ Goto(c, IF ~Answers(seen[c]) THEN "lockClean"
               ELSE IF SameVersion(c, seen[c]) THEN "ready" ELSE "lockUpgrade")
    /\ UNCHANGED <<disk, daemonVars, seen, asked>>

\* acquire_bringup_lock; the upgrade path does not clean stale state.
AcquireLock(c) ==
    /\ cpc[c] \in {"lockClean", "lockUpgrade"}
    /\ lock = None
    /\ lock' = c
    /\ Goto(c, IF cpc[c] = "lockClean" THEN "cleanRead" ELSE "reread")
    /\ UNCHANGED <<daemonJson, daemonTmp, redb, daemonVars, seen, asked>>

\* Mutant: clean-up takes every daemon.json it finds for a stale one.
CleanReadUnchecked(c) ==
    /\ cpc[c] = "cleanRead"
    /\ Goto(c, IF daemonJson # None THEN "cleanRemove" ELSE "reread")
    /\ UNCHANGED <<disk, daemonVars, seen, asked>>

\* cleanup_stale_state reads daemon.json and checks the identity in it ...
CleanRead(c) ==
    /\ cpc[c] = "cleanRead"
    /\ Goto(c, IF daemonJson # None /\ ~Alive(daemonJson) THEN "cleanRemove" ELSE "reread")
    /\ UNCHANGED <<disk, daemonVars, seen, asked>>

\* ... and then removes whatever the file holds by now.
CleanRemove(c) ==
    /\ cpc[c] = "cleanRemove"
    /\ daemonJson' = None
    /\ Goto(c, "reread")
    /\ UNCHANGED <<daemonTmp, lock, redb, daemonVars, seen, asked>>

\* Mutant: no second probe under the lock.
LockedReadNoProbe(c) ==
    /\ cpc[c] = "reread"
    /\ Goto(c, "spawn")
    /\ UNCHANGED <<disk, daemonVars, seen, asked>>

LockedRead(c) ==
    /\ cpc[c] = "reread"
    /\ seen' = [seen EXCEPT ![c] = daemonJson]
    /\ Goto(c, IF daemonJson = None THEN "spawn" ELSE "reconnect")
    /\ UNCHANGED <<disk, daemonVars, asked>>

LockedConnect(c) ==
    /\ cpc[c] = "reconnect"
    /\ \/ /\ Answers(seen[c]) /\ SameVersion(c, seen[c])
          /\ Goto(c, "ready")
          /\ lock' = None
       \/ /\ Answers(seen[c]) /\ ~SameVersion(c, seen[c])
          /\ Goto(c, "replaceKill")
          /\ UNCHANGED lock
       \/ /\ ~Answers(seen[c])
          /\ Goto(c, "spawn")
          /\ UNCHANGED lock
    /\ UNCHANGED <<daemonJson, daemonTmp, redb, daemonVars, seen, asked>>

\* replace_stale_daemon: Term, then Kill, of the identity that was read.
ReplaceKill(c) ==
    /\ cpc[c] = "replaceKill"
    /\ Kill(seen[c])
    /\ Goto(c, "replaceRemove")
    /\ UNCHANGED <<daemonJson, daemonTmp, lock, gc, seen, asked>>

ReplaceRemove(c) ==
    /\ cpc[c] = "replaceRemove"
    /\ daemonJson' = None
    /\ Goto(c, "spawn")
    /\ UNCHANGED <<daemonTmp, lock, redb, daemonVars, seen, asked>>

\* spawn_and_await_daemon: the child is detached and outlives its spawner.
Spawn(c) ==
    /\ cpc[c] = "spawn"
    /\ dpc' = [dpc EXCEPT ![c] = "spawned"]
    /\ Goto(c, "awaitRead")
    /\ UNCHANGED <<disk, gc, seen, asked>>

AwaitRead(c) ==
    /\ cpc[c] = "awaitRead"
    /\ daemonJson # None
    /\ seen' = [seen EXCEPT ![c] = daemonJson]
    /\ Goto(c, "awaitConnect")
    /\ UNCHANGED <<disk, daemonVars, asked>>

AwaitConnect(c) ==
    /\ cpc[c] = "awaitConnect"
    /\ \/ /\ Answers(seen[c]) /\ SameVersion(c, seen[c])
          /\ Goto(c, "ready")
          /\ lock' = None
       \/ /\ ~(Answers(seen[c]) /\ SameVersion(c, seen[c]))
          /\ Goto(c, "awaitRead")
          /\ UNCHANGED lock
    /\ UNCHANGED <<daemonJson, daemonTmp, redb, daemonVars, seen, asked>>

\* The 5 s deadline.  Unless Slow, it does not expire on a child that is still
\* starting or that the next poll finds.
AwaitTimeout(c) ==
    /\ cpc[c] = "awaitRead"
    /\ Slow \/ ~(dpc[c] \in Booting \/ (dpc[c] \in Up /\ daemonJson = c))
    /\ Goto(c, "failed")
    /\ lock' = None
    /\ UNCHANGED <<daemonJson, daemonTmp, redb, daemonVars, seen, asked>>

-----------------------------------------------------------------------------
(* request_daemon_shutdown, for `clud daemon stop` and `clud daemon        *)
(* restart`.  Nothing here takes daemon.lock.                              *)

\* What follows a stop: restart goes on to ensure_daemon.
AfterStop(c) == IF c \in Restarters THEN "read" ELSE "done"

StopRead(c) ==
    /\ cpc[c] = "stopRead"
    /\ seen' = [seen EXCEPT ![c] = daemonJson]
    /\ Goto(c, IF daemonJson = None THEN AfterStop(c) ELSE "stopCheck")
    /\ UNCHANGED <<disk, daemonVars, asked>>

StopCheck(c) ==
    /\ cpc[c] = "stopCheck"
    /\ Goto(c, IF Alive(seen[c]) THEN "stopSend" ELSE "stopRemoveDead")
    /\ UNCHANGED <<disk, daemonVars, seen, asked>>

StopRemoveDead(c) ==
    /\ cpc[c] = "stopRemoveDead"
    /\ daemonJson' = None
    /\ Goto(c, AfterStop(c))
    /\ UNCHANGED <<daemonTmp, lock, redb, daemonVars, seen, asked>>

\* send_daemon_request reads daemon.json again, so the daemon that is asked
\* need not be the recorded one, and connects ...
StopSend(c) ==
    /\ cpc[c] = "stopSend"
    /\ asked' = [asked EXCEPT ![c] = daemonJson]
    /\ Goto(c, IF daemonJson = None THEN AfterStop(c)
               ELSE IF Answers(daemonJson) THEN "stopReply" ELSE "failed")
    /\ UNCHANGED <<disk, daemonVars, seen>>

\* ... and waits for a reply without a deadline: the acknowledgement of a
\* daemon in its accept loop, or a connection closed by the exit of one that
\* left it, which reads as an old daemon: the recorded one is killed.
StopReply(c) ==
    /\ cpc[c] = "stopReply"
    /\ \/ /\ dpc[asked[c]] = "serving"
          /\ dpc' = [dpc EXCEPT ![asked[c]] = "stopping"]
          /\ seen' = [seen EXCEPT ![c] = asked[c]]
          /\ UNCHANGED redb
       \/ /\ ~Alive(asked[c])
          /\ Kill(seen[c])
          /\ UNCHANGED seen
    /\ Goto(c, "stopWait")
    /\ UNCHANGED <<daemonJson, daemonTmp, lock, gc, asked>>

\* Wait for the exit, polling every 50 ms ...
StopWait(c) ==
    /\ cpc[c] = "stopWait"
    /\ \/ ~Alive(seen[c]) /\ Goto(c, "stopRemove")
       \/ Slow /\ Alive(seen[c]) /\ Goto(c, "failed")
    /\ UNCHANGED <<disk, daemonVars, seen, asked>>

\* ... and remove daemon.json, whatever it holds by now.
StopRemove(c) ==
    /\ cpc[c] = "stopRemove"
    /\ daemonJson' = None
    /\ Goto(c, AfterStop(c))
    /\ UNCHANGED <<daemonTmp, lock, redb, daemonVars, seen, asked>>

\* Mutant: daemon.lock is a mere file, which outlives its holder.
ClientDiesHoldingLock(c) ==
    /\ ClientsMayDie
    /\ cpc[c] \in InEnsure \cup InStop
    /\ Goto(c, "gone")
    /\ UNCHANGED <<disk, daemonVars, seen, asked>>

\* The process is killed; the OS releases its lock on daemon.lock.
ClientDies(c) ==
    /\ ClientsMayDie
    /\ cpc[c] \in InEnsure \cup InStop
    /\ Goto(c, "gone")
    /\ lock' = IF lock = c THEN None ELSE lock
    /\ UNCHANGED <<daemonJson, daemonTmp, redb, daemonVars, seen, asked>>

-----------------------------------------------------------------------------
(* run_daemon *)

DaemonGoto(d, pc) == dpc' = [dpc EXCEPT ![d] = pc]

\* The daemon's own cleanup_stale_state, with the same gap.
DaemonCleanRead(d) ==
    /\ dpc[d] = "spawned"
    /\ DaemonGoto(d, IF daemonJson # None /\ ~Alive(daemonJson) THEN "cleanRemove" ELSE "open")
    /\ UNCHANGED <<disk, gc, clientVars>>

DaemonCleanRemove(d) ==
    /\ dpc[d] = "cleanRemove"
    /\ daemonJson' = None
    /\ DaemonGoto(d, "open")
    /\ UNCHANGED <<daemonTmp, lock, redb, gc, clientVars>>

\* Mutants: the open ignores the lock; a failed open is left for later.
OpenRegistryShared(d) ==
    /\ dpc[d] = "open"
    /\ gc' = [gc EXCEPT ![d] = TRUE]
    /\ redb' = d
    /\ DaemonGoto(d, "writeTmp")
    /\ UNCHANGED <<daemonJson, daemonTmp, lock, clientVars>>

OpenRegistryLater(d) ==
    /\ dpc[d] = "open"
    /\ gc' = [gc EXCEPT ![d] = redb = None]
    /\ redb' = IF redb = None THEN d ELSE redb
    /\ DaemonGoto(d, IF redb = None THEN "writeTmp" ELSE "reopen")
    /\ UNCHANGED <<daemonJson, daemonTmp, lock, clientVars>>

\* Bind the listener, then open data.redb: one attempt, failure not fatal.
OpenRegistry(d) ==
    /\ dpc[d] = "open"
    /\ gc' = [gc EXCEPT ![d] = redb = None]
    /\ redb' = IF redb = None THEN d ELSE redb
    /\ DaemonGoto(d, "writeTmp")
    /\ UNCHANGED <<daemonJson, daemonTmp, lock, clientVars>>

\* write_json_file: fill daemon.tmp, remove daemon.json, rename.
WriteTmp(d) ==
    /\ dpc[d] = "writeTmp"
    /\ daemonTmp' = d
    /\ DaemonGoto(d, "removeOld")
    /\ UNCHANGED <<daemonJson, lock, redb, gc, clientVars>>

RemoveOld(d) ==
    /\ dpc[d] = "removeOld"
    /\ daemonJson' = None
    /\ DaemonGoto(d, "rename")
    /\ UNCHANGED <<daemonTmp, lock, redb, gc, clientVars>>

Publish(d) ==
    /\ dpc[d] = "rename"
    /\ daemonTmp # None
    /\ daemonJson' = daemonTmp
    /\ daemonTmp' = None
    /\ DaemonGoto(d, "serving")
    /\ UNCHANGED <<lock, redb, gc, clientVars>>

\* Another daemon renamed daemon.tmp away: run_daemon returns 1.
PublishFails(d) ==
    /\ dpc[d] = "rename"
    /\ daemonTmp = None
    /\ Kill(d)
    /\ UNCHANGED <<daemonJson, daemonTmp, lock, gc, clientVars>>

\* The accept loop breaks: idle, expired, or asked to over another lane.
Retire(d) ==
    /\ dpc[d] = "serving"
    /\ DaemonGoto(d, "stopping")
    /\ UNCHANGED <<disk, gc, clientVars>>

Unpublish(d) ==
    /\ dpc[d] = "stopping"
    /\ daemonJson' = None
    /\ DaemonGoto(d, "stopped")
    /\ UNCHANGED <<daemonTmp, lock, redb, gc, clientVars>>

DaemonExits(d) ==
    /\ dpc[d] = "stopped"
    /\ Kill(d)
    /\ UNCHANGED <<daemonJson, daemonTmp, lock, gc, clientVars>>

DaemonCrashes(d) ==
    /\ DaemonsMayDie
    /\ Alive(d)
    /\ Kill(d)
    /\ UNCHANGED <<daemonJson, daemonTmp, lock, gc, clientVars>>

-----------------------------------------------------------------------------
Ensure(c) ==
    \/ ProbeRead(c)    \/ ProbeConnect(c) \/ AcquireLock(c)
    \/ CleanRead(c)    \/ CleanRemove(c)  \/ LockedRead(c)  \/ LockedConnect(c)
    \/ ReplaceKill(c)  \/ ReplaceRemove(c)
    \/ Spawn(c)        \/ AwaitRead(c)    \/ AwaitConnect(c) \/ AwaitTimeout(c)

Stop(c) ==
    \/ StopRead(c) \/ StopCheck(c) \/ StopRemoveDead(c)
    \/ StopSend(c) \/ StopReply(c) \/ StopWait(c) \/ StopRemove(c)

Boot(d) ==
    \/ DaemonCleanRead(d) \/ DaemonCleanRemove(d) \/ OpenRegistry(d)
    \/ WriteTmp(d) \/ RemoveOld(d) \/ Publish(d) \/ PublishFails(d)

Leave(d) == Unpublish(d) \/ DaemonExits(d)

Next ==
    \E c \in Clients :
        \/ Begin(c) \/ Ensure(c) \/ Stop(c) \/ ClientDies(c)
        \/ Boot(c) \/ Retire(c) \/ Leave(c) \/ DaemonCrashes(c)

\* Processes that can run do run.  The deadline is a clock that passes however
\* often the loop polls, so it is not lost to a poll that runs first: strong
\* fairness.  The lock needs weak fairness only, a process takes it at most once.
Fairness == \A c \in Clients :
    /\ WF_vars(Ensure(c)) /\ SF_vars(AwaitTimeout(c))
    /\ WF_vars(Stop(c))
    /\ WF_vars(Boot(c)) /\ WF_vars(Leave(c))

Spec == Init /\ [][Next]_vars /\ Fairness

-----------------------------------------------------------------------------
(* Properties *)

\* No two daemons accept requests for one state directory.  Bring-up relies on
\* daemon.lock, on the second probe under it and on spawn_and_await_daemon
\* holding it until the child is visible.
AtMostOneDaemon ==
    \A d, e \in Clients : dpc[d] \in Up /\ dpc[e] \in Up => d = e

\* A daemon that serves can be found: nobody's clean-up, upgrade or exit
\* removes the daemon.json of a daemon that is in service.
ServingIsDiscoverable ==
    \A d \in Clients : dpc[d] \in Up => daemonJson = d

\* Of all live daemons, however many there are, at most one has the registry,
\* so the redb file never has two writers.
OneRegistryOwner ==
    \A d, e \in Clients : Alive(d) /\ Alive(e) /\ gc[d] /\ gc[e] => d = e

\* A daemon in service has the registry for GC operations, its own predecessor
\* having released data.redb when it retired (start-up opens it only once).
ServingOwnsRegistry ==
    \A d \in Clients : dpc[d] = "serving" => gc[d]

\* A launch returns from ensure_daemon and a stop from request_daemon_shutdown:
\* no interleaving of probes, lock, deaths and deadlines leaves one hanging.
CommandReturns ==
    \A c \in Clients :
        cpc[c] \in InEnsure \cup InStop ~> cpc[c] \notin InEnsure \cup InStop

\* Bring-up as SingleDaemon sees it: who is in service, who was; what a launch
\* has noted is the daemon it read in daemon.json, while that process lives.
InService == IF \E d \in Clients : dpc[d] \in Up
             THEN CHOOSE d \in Clients : dpc[d] \in Up ELSE None
Spent     == {d \in Clients : dpc[d] \notin {"unborn"} \cup Booting}
Noted     == [c \in Clients |-> IF Alive(seen[c]) THEN seen[c] ELSE None]
Outcome   == [c \in Clients |-> IF cpc[c] \in {"ready", "failed"} THEN cpc[c] ELSE "none"]

Single == INSTANCE SingleDaemon WITH
    Daemons <- Clients, Launches <- Clients, Matches <- SameVersion,
    service <- InService, spent <- Spent, noted <- Noted, outcome <- Outcome

\* In calm conditions every step of launches and daemons is one of SingleDaemon:
\* one daemon in service, and `ready' only for a live daemon of the right
\* version that was in service when the launch looked.
ImplementsSingleDaemon == Single!Spec
=============================================================================
