# clud: a TLA+ verification project

`clud` is a launcher for coding agents. A foreground process starts a backend
(Claude, Codex, ...) in a PTY or as a subprocess, alone or under a per-user
*daemon* that keeps sessions alive in *worker* processes, to which a terminal
attaches and detaches. A launch may put a loopback *gateway* between Claude and
its model providers, and on Windows a *reaper* cleans up after the agent's tools.
This directory models the parts in which several processes and threads have to
agree, checks them with TLC and proves the main safety properties with TLAPS.

Paths below are relative to `src/crates/clud-bin/src/` unless they start with
`src/`. `PROJECT.json` maps every definition to the lines it was translated from.

## 1. Files

| module | what it is |
| --- | --- |
| `SingleDaemon` | what bring-up promises: nobody or one daemon in service |
| `DaemonBringup`, `_proofs` | concurrent launches bring up, upgrade and stop the daemon of a state directory |
| `DaemonRetirement`, `_proofs` | the accept loop of a daemon decides that nobody needs it |
| `WorkerAttach`, `_proofs` | a session worker: output, attach and detach, exit code, end |
| `SessionFile`, `_proofs` | everyone who writes `sessions/<id>.json` |
| `GcPurge`, `_proofs` | registry rows, verdicts, the purge pool and the directories they are about |
| `UnifiedGateway`, `_proofs` | admission, shutdown, and a request's descent of the failover ladder |
| `CodexTurn`, `_proofs` | one conversation: the bridge's canonical history against Claude's transcript |
| `JobReaper`, `_proofs` | the Windows reaper of what tool shells leave behind |
| `MC...` and `MC..._<run>.cfg` | the instances for TLC |

To check a run: `tlc -config MCWorkerAttach_clients.cfg MCWorkerAttach`.
To check the proofs: `tlapm WorkerAttach_proofs.tla`.

## 2. Inventory of the system

### 2.1 Daemon bring-up, upgrade and stop (`DaemonBringup`, `SingleDaemon`)

*State*, all of it on disk: `daemon.json` (PID, start time, port and version of
the daemon in service), the temporary file beside it, the advisory lock
`daemon.lock`, the registry `data.redb` that admits one process.
*Operations*: `ensure_daemon` (probe, lock, clean, probe again, replace an old
version, spawn and await), `request_daemon_shutdown` (`clud daemon stop`,
`restart`), the daemon's own start-up and exit in `run_daemon`.
*Hard*: every access is a separate file operation, made by processes that die,
are slow, or run another version; the removals of `daemon.json` go by name.
*Right when*: one daemon serves, it can be found, the registry has one owner and
every command returns.

### 2.2 Idle retirement (`DaemonRetirement`)

*State*: last activity, counts of connections and jobs (`daemon/activity.rs`),
foreground leases (`daemon/client_leases.rs`), the worker map, the shutdown flag.
*Operations*: requests over TCP and over the broker frame lane, pruning of dead
leases once a second, maintenance ticks and sweeps, the poll of the accept loop.
*Hard*: the poll reads five facts one after the other, without a common lock,
while requests and jobs move on; pruning probes processes outside the lock.
*Right when*: the daemon never retires on somebody who needed it all along, be it
as a connection first and a lease afterwards, no live client loses its lease, and
an unneeded daemon does retire.

### 2.3 Session worker and attach broker (`WorkerAttach`)

*State*: the child, the backlog of its output, the single-client slot, a channel
per client, the session snapshot (exit code, background flag), `stop_accepting`.
*Operations*: push output, attach (evict, take the slot, snapshot, replay),
detach, evict a dead client, broadcast the exit, the heartbeat, the watchdog over
the daemon, the interrupt fast path, the accept loop's end.
*Hard*: some ten threads around four locks that are never held together; sockets
that close, reset, and hide the end of a stream behind unread data.
*Right when*: one client at a time, all output before the exit code, one exit
code for everybody, nobody attached misses it, the worker ends.

### 2.4 Session snapshots: terminate, interrupt, clean-up (`SessionFile`)

*State*: `sessions/<id>.json` and its temporary file; the worker's snapshot.
*Operations*: the worker's `persist_snapshot` by each of its threads,
`daemon_terminate_session`, `daemon_interrupt_session` and the thread that
finishes it, `cleanup_stale_state`.
*Hard*: nobody locks; a save is four file operations through one temporary name
with a window in which there is no file; the worker saves copies taken earlier;
each process can die between two operations.
*Right when*: an exit code that readers saw is final but for the 130 of a
terminate or interrupt, and a dead session ends up recorded as over.
*Not modelled*: `daemon_create_session`'s wait for readiness, over two lanes.

### 2.5 Registry worker and purge (`GcPurge`)

*State*: the rows of `data.redb`, the verdict cache with its in-flight flag, the
purge pool and its queue, completions, and the directories themselves.
*Operations*: insert and rescan, `partition_purgeable`, dispatch, re-verify,
remove, apply completion, the extern probe, tick, a user's purge and delete, stop
and start.
*Hard*: verdicts are a tick old when used, a row can be dispatched twice, a
completion may meet the row of a path that exists again, the daemon stops anywhere.
*Right when*: no local work is deleted, no row of a standing directory is lost,
an idle repository is reclaimed and a gone worktree forgotten.

### 2.6 Unified gateway, route health, failover (`UnifiedGateway`)

*State*: the admission counter, the map of connections, the shutdown flag, the
ledger of routes, which request holds which conversation.
*Operations*: `serve` (accept, reserve, register, spawn, join),
`BridgeHandle::shutdown`, `serve_unified_messages` with its attempts,
`RouteLedger::record` and `record_success`, `next_available`.
*Hard*: shutdown races with registration; a slot is taken before three steps that
can fail; verdicts of concurrent requests fold into one ledger in any order; a
conversation is locked across an upstream exchange.
*Right when*: a request is answered once, every descent and every connection
ends, no slot leaks, shutdown returns, a metered route is used by consent.

### 2.7 Codex conversation (`CodexTurn`)

*State*: canonical items, the pending reset and the route of a conversation;
Claude's own transcript and what it is waiting for.
*Operations*: a turn (assemble, repair, validate, send, commit), its failures,
recovery from a full context, `PreCompact` and `compact-finished`, `/clear`, a
change of route.
*Hard*: two transcripts of one conversation, which part company whenever a turn
fails half-way, a reply is lost, or Claude compacts in the middle of a tool batch.
*Right when*: the bridge does not wedge a session by refusing its own input,
commits nothing twice, and keeps nothing that a summary replaced.

### 2.8 Foreground job reaper on Windows (`JobReaper`)

*State*: the table of processes by PID, unresolved PIDs and their retries, the
ledger of exits (provisional, deferred, abandoned, settled), the backend.
*Operations*: messages of the Job Object, batches and quiet periods, purge,
`reconcile_pending`, `execute_decisions`, `register_backend`, the sweep at the end
of a session, the drop of the tracker.
*Hard*: messages carry a PID only, arrive late, and cannot be looked up at times;
decisions are executed on a newer picture of the processes than they were made on;
PIDs come back.
*Right when*: only what a completed tool left behind is killed, never a server;
each exit is settled once; a leak is reaped.

### 2.9 Not modelled

- Instance cap (`session_registry.rs`): every operation runs under `sessions.lock`
  from load to save; what is left is a reissued PID that counts as alive.
- Orphan sweep and handover registry (`orphan_reaper.rs`,
  `daemon/handover_registry.rs`): two writers of one file without a lock, the
  pattern that `SessionFile` checks; the sweep is one pass over a scan.
- Loop driver (`loop_spec.rs`, `runner*.rs`): sequential.
- PTY pump, title stripper, bracketed paste: bytes and terminal I/O. Read all the
  same: a parameterless OSC that ends with ESC `\` loses its ESC
  (`console_title_osc.rs:66-79`), although only OSC 0/2 are meant to
  be dropped (`console_title.rs:22-27`).
- Wedge and tool watchdogs: one-process timers with pure, tested decisions.
- Wire formats, SSE and format translation, argument parsing, command guard:
  data conversion, where a model would repeat the code.
- Dashboard, samplers, sweeps of directories: no protocol between actors.
- Voice, drag and drop, skills, shims, settings, trash, crash reports, packaging.

### 2.10 How the parts meet

A launch calls `ensure_daemon`, then takes a lease or asks for a session over
TCP or the frame lane. The daemon spawns the worker and keeps it in a map; the
worker tells the world its state through the snapshot file and its own port, to
which clients connect without the daemon. The worker watches the daemon and ends
the session if it dies; the daemon counts worker, leases, connections and jobs to
retire. Each of these contacts is an action on both sides:

| contact | there | here |
| --- | --- | --- |
| the daemon retires | `DaemonRetirement`: the verdict | `DaemonBringup!Retire`, at any time |
| the daemon is gone | `DaemonBringup`: death, stop, upgrade | `WorkerAttach!Watchdog`, `SessionFile!DaemonDies`, `GcPurge!Stop` |
| the exit code and the background flag change | `WorkerAttach`: change and save in one step | `SessionFile`: the save, taken apart |
| maintenance tick and sweep | `GcPurge!Tick`: what they do | `DaemonRetirement`: the guards they hold |
| a turn | `UnifiedGateway`: who holds the conversation, which route answers | `CodexTurn`: what the turn does, as one step, and `OtherTurn` |

So each module leaves the others' verdicts open, and no result depends on them.
`JobReaper` and the gateway belong to a foreground launch and meet the daemon in
nothing that either decides on.

## 3. The modules

### 3.1 DaemonBringup and SingleDaemon

One step per access to shared state, so `cleanup_stale_state` is `CleanRead` and
`CleanRemove`, and `write_json_file` is `WriteTmp`, `RemoveOld` and `Publish`.
`cpc[c]` is where client `c` is in `ensure_daemon` or `request_daemon_shutdown`,
`dpc[d]` where daemon `d` is in `run_daemon`. A client spawns at most once, so the
daemon of client `c` is called `c`.

| state | code |
| --- | --- |
| `daemonJson`, `daemonTmp` | the files that `write_json_file` and `remove_file` touch |
| `lock` | `acquire_bringup_lock`: released by return, error or death |
| `redb`, `gc` | redb's file lock; `gc_tx`, set once in `run_daemon` |
| `seen`, `asked` | the `DaemonInfo` a client read; whom it sent `Shutdown` |

Choices: a PID is never mistaken for another's (the code compares start times);
the TCP probe of a live daemon succeeds even while it exits, since the kernel
completes the connection; a kill takes effect at once (the code waits up to four
seconds for it). `Slow` lets a deadline expire while its object is still on the way.

`SingleDaemon` has four variables: who is in service, who has been, whom each
launch last saw, what it was told. `DaemonBringup` implements it in calm
conditions under the mapping `InService`, `Spent`, `Noted`, `Outcome`: a daemon is
in service from `Publish` until it removes its file or dies.

### 3.2 DaemonRetirement

`loop` is the accept loop: `Poll` is the branch in which nobody waits, then a read
per step in the code's order: prune (`PruneProbe`, `PruneRetain`), the worker map,
idle time, connections, jobs, leases. `guard[w]` follows the `ActiveWorkGuard` of a
connection or job: accepted, started (thread runs, not counted yet), counted,
done, dropped. Two history variables follow a poll. `owed` is who needed the daemon
when it began and has needed it ever since, no matter by what: a client by its
connection, its session or its lease, maintenance by a tick or a sweep. `missed` is
those among whom a need changed hands where this order of reads cannot see it: a
session entered after the workers were read, and a sweep that has not yet taken
its guard when the jobs are. `BatchedPrune` picks between the two bodies
of `prune_dead`, the one for Unix and the one for Windows.

Choices: no clock; `idle` says that the timeout has passed since the last
activity. A poll that meets a reason to stay stops reading, as what it would read
changes nothing. Requests and maintenance events together are at most `MaxEvents`.

### 3.3 WorkerAttach

Threads: the drain of the child's output; three that may end the session
(`wait`, `watchdog`, `interrupt`, each with the exit code it brings); per client a
reader (`handle_worker_client`) and a writer; the heartbeat; the accept loop.

| state | code |
| --- | --- |
| `slot` | `WorkerShared::client` |
| `chan[c]`, `grabbed` | the channel of a client; the sender `send_to_client` cloned |
| `exit`, `background` | the two fields of the snapshot that the protocol uses |
| `pushed`, `from[c]` | chunks pushed; the first that the replay of `c` had |
| `conn[c]`, `interrupt[c]` | what `probe_socket_dead` can tell of the connection |
| `client[c]`, `got[c]`, `told[c]` | the client process and what it was sent |

`send_to_client` clones the sender under the lock and uses it later: `Grab` and
`Send` are two steps. `attach_client` takes the slot in `TakeSlot` and looks at the
snapshot in `Look`; the backlog is copied in `Reply`.

Choices: chunks are numbers; a PTY's screen repaint counts as the chunks it shows.
A change of the snapshot and its save are one step, so nothing here speaks of
the file. An eviction and the claim after it are one step, as are the release of
the slot and the background flag of one detach. A client reads what it is sent,
so a writer never blocks. A client attaches at most once.

### 3.4 SessionFile

Every save is `Begin`, `SaveWrite`, `SaveRemove`, `SaveRename`; `save[t]` is the step
a thread is in and `held[t]` the snapshot it has in hand. `at[t]` places five
threads of the worker (`run_worker`, the wait thread, the watchdog, the client's
thread, the interrupt fast path), two of a daemon (`term`, `intr` with the thread
that finishes it) and the clean-up of the next launch. `Merged` is what
`persist_snapshot` does with the file it finds: an interrupt recorded there wins.
`seen` is the exit code the last readable file showed; `torn` records that two
saves have overlapped or one was cut off.

Choices: of a snapshot the exit code, the background flag and the mark of an
interrupt are kept. Copying the snapshot and reading the file are one step, and
a write is whole or not there. Terminate and interrupt come once each.

### 3.5 GcPurge

`dir[p]` is a directory, `row[p]` the id of its row (0: none), `cache`, `slot` and
`probes` are `SpareReasons` and the probe threads, `jobs` and `busy` the pool,
`msgs` the registry worker's queue. `Remove` and `Handle` are separate: a directory
goes first, its row when the completion is applied. `late` and `stood` are history
variables: was a directory touched after its removal was verified, and has it
stood ever since its row was inserted.

Choices: a low disk is a free choice of `Tick`; time is `RowAges` and `GoesIdle`;
`Remnants` says what a failed or cut-off removal may leave, following
`remove_worktree_path_with_git_and_process_refs` and its fallback. A probe whose
daemon stops is lost. Nobody asks of a worktree or a clone more than whether it
is there, since the code does not.

### 3.6 UnifiedGateway

`loop` and `cur` are the accept thread, `wpc[r]` where a connection is: queued by
the kernel, accepted, being read, then `choose` (probe this attempt?), `enter` (the
conversation's lock), `upstream`, `committed` or `declined`, `descend`. `attempt[r]` is
the rung it is on, `None` for the route its model names, which the code tries
first whatever the ledger says. `heads[r]` counts response heads, so that a
declined attempt that leaks output shows as a second one.

Choices: no clock, cooldowns may end at any time; upstreams answer or time out;
an error of `accept` ends the gateway, as it does in the code; a spec that occurs
twice in a ladder is found at its first place, as `position` does. The verdict
`throttled` never reaches the ledger. A conversation once known keeps its place in
the store, so a conversation beyond `MaxConversations` is refused. That the write timeout
of a socket cannot be set (`codex_bridge.rs:703-708`, the connection is then dropped)
is left out.

### 3.7 CodexTurn

A turn runs under the mutex of its conversation and is one step: `Assembled` is
`history_aware_input` (pending items, recovered outputs, repaired orphans),
`Attempts` its first input and the one after a provider compaction, `Commit` what
`record_successful_turn` keeps. Claude is the environment: `Prompt`, `Results`,
`GivesUp` (retry, an error turn, a partial answer whose tool it ran), `PreCompact`
and `CompactFinished` with the variants in which the hook does not arrive.

Choices: items are a kind and an id. At most one reply is lost at a time. `floor`
is where the last summary cut; `lost`, `missed` and `crossed` record what excuses a
refusal.

### 3.8 JobReaper

`procs` is the system's own tree, by *birth*, a number that never comes back (the
code's creation time); `tracker` is `TrackerProcesses`, keyed by PID and linked by the
PID of the parent; `port` holds the job's messages. `Apply` takes one message of a
batch, `EndBatch` the pass after it, `QuietPass` the one after 200 ms of silence with
or without a scan for the unresolved. `Pass` is `reconcile_pending` over
`claim_exit_replay`; `Walk` and `Strike` execute a decision, which looks at the system
once more and walks its tree. `Reconciles`'s choices stand for time: which deferred
exits have expired, which entries have outlived their grace, which dead processes
can still be opened.

Choices: the signs of a server are one kind; conhost and a cooperative marker are
like it. Clud's own entry, the pen of PIDs without a key and the telemetry are
left out. `ACTIVE_PROCESS_ZERO` is never posted, as clud is a member of its own job.
The shells are known by descent: `ToolShells` are those the agent started,
`Handoffs` the bashes a tool bash became; `TakenOver` says that a bash the reaper had
in its table runs on in a shell's place. All evictable entries are purged, or none. The system gives out PIDs in order,
those in `Recycled` once more after their holder ended. A look is at one moment: a
scan whose two halves see different holders of a PID is not modelled.

## 4. Runs

| run | question | bounds | outcome |
| --- | --- | --- | --- |
| `bringup_calm` | Do three launches of two versions ever give two daemons or hide one? Is it `SingleDaemon`? Daemons may be killed. | 3 clients, 1 of the old version | holds |
| `bringup_storm` | With stop, restart, kills of anyone and deadlines that expire early: does the registry keep one owner, does every command return? | 3 clients: a stop, a restart, an old launch | holds |
| `bringup_restart` | "at most one per state-dir" under one restart | 3 clients | violated |
| `retirement` | Verdict on clients that move between connection, session and lease; leases; eventual retirement where prune drops what it saw dead | 2 clients, 2 events | holds |
| `attach_clients` | One client, complete output, exit learnt, worker ends, broken clients evicted | 2 clients (1 interactive), 2 chunks, backlog of 1 | holds |
| `attach_exits` | Three ways to end the session race | 2 clients, no output, daemon may die, one interrupt | holds |
| `session` | Is an exit code final, is a dead session recorded? | 1 event beside one terminate, interrupt, clean-up; worker and daemon may die | holds |
| `session_vanishes` | Is a written snapshot there when nobody writes? | 2 events, nobody dies | violated |
| `gc_purge` | Work kept, rows kept, idle repositories reclaimed, gone worktrees forgotten | a worktree and an extern repository, 1 pool thread, 1 probe, queue of 2, 2 ids, 2 events | holds |
| `gateway` | One response, exact slots, closed at shutdown, consent, everything ends | 3 requests (2 of one conversation), 3 rungs, 2 workers, a store of 1 | holds |
| `codex_turns` | Does the bridge ever refuse itself, commit twice, keep what was summarised? | 9 ids, 8 items, 7 shown | holds |
| `reaper` | Only leaks killed, each exit settled once, leaks reaped | 4 PIDs and births, 1 PID that cannot be seen, 1 that comes back, 2 messages of lag, 2 retries | holds |

What the passing runs say of the code:

- `AtMostOneDaemon`, `ServingIsDiscoverable`, `ImplementsSingleDaemon`: lock, second
  probe and waiting under the lock suffice, although clean-up, upgrade and exit
  remove `daemon.json` by name.
- `OneRegistryOwner`: holds even when there are two daemons.
- `CommandReturns`: no order of probes, locks, deaths and deadlines hangs a launch.
- `LeaseKept`: what is acquired while prune probes stays. `RetiresUnneeded`: the
  order of the five reads matters, and for a client that goes from a connection to
  a lease it is a safe one, since leases are read after connections (the other way
  round TLC finds the client missed). It is not for one that goes from a connection
  to a session, as the workers are read first: the property excepts it, and the
  list of divergences shows it.
- `RetiresInTheEnd`: no guard leaks, no dead lease stays.
- `OneAttached`: late detaches of evicted clients never free another's slot.
- `CompleteBeforeExit`: the join of the drain thread is what this rests on.
- `AttachedLearnsExit`: the slot is taken before the snapshot is read, the code is
  set before the slot is read, so one of the two tells the client.
- `WorkerEnds`, `EvictedInSession`: what the heartbeat and the accept loop do ensure.
- `OneExitCode`: the first of the three ends the session and names its code.
- `ExitIsFinal`: the merge in `persist_snapshot` and the first-code rule of
  `set_exit_code` keep an order among writers that do not lock, as long as their
  saves do not overlap. `DeadIsRecorded`: a crash anywhere leaves what the clean-up
  can finish.
- `WorkIsKept`: the check right before the removal is what this rests on; the
  verdict of the probe may be arbitrarily old. `StandingRowKept`: deleting by id, not
  by path, is. `IdleIsReclaimed`: the slot is freed by whatever the registry worker
  hears. `GoneWorktreeForgotten`: a purge takes rows of directories that are gone.
- `OneResponse`: nothing is relayed before an attempt is known not to be declined.
  `SlotsExact`, `ClosedAtShutdown`: both sides of the race see one of flag and map.
  `RequestsEnd`: a descent goes down only, so that a reset ledger cannot make it
  circle. `ShutdownReturns`: no conversation is held across rungs.
- `RejectedOnlyAfterLoss`: recovery of outputs and repair of orphans cover failed
  turns and compactions in the middle of a batch; what is left is a reply that was
  committed and lost, a hook that did not arrive, and the divergence below.
- `OnlyLeaksAreKilled`: between decision and kill nothing becomes a victim that was
  not one. A victim is below a tool shell that has ended and in whose place no bash
  runs on that the reaper had seen: without the handoff guard of `plan_shell_exit`
  TLC finds a running handoff reaped. The guard looks one generation down; what
  becomes of a handoff of a handoff is among the divergences. A message names a PID only: below an ancestor whose PID was given out
  twice the property asks nothing, since the exit of the old holder can be taken
  for that of the new one when the message is looked up late. `SettledOnce`: an
  entry and what is noted about it are purged together. `LeaksAreReaped`: a PID
  that cannot be resolved delays the others for a bounded number of scans.

Why the bounds suffice. Bring-up: the races are between two launches, or a launch
and a stop, about a third process's file; three clients give each of them, with
a daemon apiece. Retirement: two clients are the one that is needed and one that
moves; two events let a request or a maintenance job begin while another ends.
Attach: two clients are a holder and a contender; a backlog of one chunk and two
chunks written make the backlog drop; one interrupt is all a session takes. The
exits run has no output, since the codes do not depend on it. Session: a session
ends once; one attach beside terminate, interrupt, watchdog and clean-up gives
each pair of writers. Garbage collection: rows interact by id only, so that two
paths and two ids give a path that comes back and a neighbour to hurt; a queue of
two lets a row be sent twice. Gateway: two workers and three requests leave one
waiting, two requests share a conversation, and a store of one is full for the
third. Codex: nine ids are a batch of two calls, a compaction and the turn after
it. Reaper: four births are an agent, a tool shell, what it started and one
process more: a neighbour, a grandchild (of a handoff, a client or a server) or the
next holder of the shell's PID. The
safety properties were also run with two PIDs that are both hard to see and
reused, and with a launcher between clud and the agent (`RootImages`).

`CHECK_DEADLOCK FALSE` in every run: a launch that returned, a daemon that has
gone and a worker or gateway that ended have no further step, and bounds stop the
environment in the others.

The mutants in `PROJECT.json` are one per property: a changed copy of an action or
helper, the way a bug in that code would change it, under which TLC finds the
property violated. They stand before the definition that they change.

### Known divergences

Where a document or comment of the repository promises what the code does not do.
The first two are runs and listed under `findings`. The others with a
configuration end in a counterexample when it is run by hand.

| promise | what happens | configuration, property |
| --- | --- | --- |
| "at most one per state-dir" (`src/docs/architecture/daemon-ipc.md:9`) | a stop removes `daemon.json` outside the lock (`daemon/client.rs:465`); the next launch spawns a second | run `bringup_restart`, `AtMostOneDaemon` |
| `write_json_file` is "atomic on POSIX and Windows" (`daemon-ipc.md:232`) | two saves share one temporary file; the session can be left without a file | run `session_vanishes`, `WrittenIsKept` |
| the next launch brings the database back (`gc-and-registry.md:80-82`) | a retiring daemon unpublishes before it gives up the registry; its successor serves without it for life (`daemon/server.rs:413`) | `MCDaemonBringup_handover`, `ServingOwnsRegistry` |
| leases prevent retirement (`daemon-ipc.md:49-52`) | the batched prune drops a lease taken while it probes (`daemon/client_leases.rs:86`) | `MCDaemonRetirement_batched`, `LeaseKept` |
| active connections prevent retirement (same place) | a connection counts once its thread runs (`daemon/server.rs:289`) | `MCDaemonRetirement_latecomer`, `RetiresUnasked` |
| active connections and sessions prevent retirement (same place) | a client whose session is entered after the workers were read, and whose connection is uncounted before the connections are, is in neither; its activity is noted after it is uncounted (`daemon/server.rs:324`, `daemon/activity.rs:84`) | `MCDaemonRetirement_handed`, `SessionsPreventRetirement` |
| pending maintenance prevents retirement (same place) | the sweep takes its guard in its own thread, which the tick does not wait for (`daemon/gc_service.rs:830`); a poll between the two counts no job | `MCDaemonRetirement_sweep`, `MaintenancePreventsRetirement` |
| the heartbeat evicts a crashed client (`daemon-ipc.md:274`) | it ends with the session; a client that breaks then keeps the worker (`daemon/worker.rs:196`) | `MCWorkerAttach_deadclient`, `DeadIsEvicted` |
| `attach_client` sets `background = false` (`daemon-ipc.md:206`) | a late detach marks a successor's session as in the background (`daemon/worker_shared.rs:434`) | `MCWorkerAttach_background`, `AttachedIsForeground` |
| stay on the fallback until the primary heals (`provider-failover.md:143`) | each request starts on the route its model names (`codex_bridge.rs:1278`) | `MCUnifiedGateway_sticky`, `StaysOnFallback` |
| `compact-finished` discards the old transcript (`codex-via-claude.md:102-105`) | a change of route in between cancels the reset (`codex_history.rs:250`) | `MCCodexTurn_routes`, `SeedsAcrossRoutes` |
| the next purge or list reconciles stale rows (`gc-and-registry.md:214-216`) | the row of an extern repository removed just before a stop stays (`daemon/gc_service/extern_repo.rs:304`) | `MCGcPurge_stale`, `StaleRowsReconciled` |
| folding a batch's passes into one reaches the same end state (`job_orphan_reaper.rs:945-953`) | a tool bash, its handoff and the handoff's handoff in one batch: the one pass sees the middle bash dead below the first, finds no running handoff of the first and reaps the last, which runs | `MCJobReaper_folded`, `HandoffsAreSpared` |
| an absent PID can only spare (`job_orphan_reaper.rs:800-802`) | it is not in the list of the spared either, and the kill of a tree walks the system's own | read in the code |
| "A None never spares" (`reaper_facts.rs:83-88`) | a process that has ended cannot be opened and counts as another user's: what it left is spared with it (`job_orphan_reaper.rs:2193`) | in the model, `Spares` |
| what a spared server started is spared (`job_orphan_reaper.rs:2345-2350`) | the drop of the tracker judges each member of the job by itself (`:1641`) | in the model, `Close` |

Three more things the models show and no document denies: a removal that fails
half-way leaves files that read as local work, so that the repository is kept from
then on; clones are not verified before they are deleted; an empty snapshot that
waits in the registry worker's queue can free the probe's slot while a newer probe
is out.

## 5. Fairness

- `DaemonBringup`: weak fairness for each process's steps, as the OS runs
  processes. Strong fairness for the start-up deadline: the clock runs out however
  often the polling loop goes round. No fairness for deaths, retirement or the
  beginning of a command. `daemon.lock` needs none, since a process takes it once.
- `DaemonRetirement`: weak fairness for the loop, the connections and the jobs;
  strong fairness for the two timers (idle time, the one-second prune), which a
  poll in progress only delays. Clients need not do anything.
- `WorkerAttach`: weak fairness for every thread of the worker, and for a client's
  reaction to `Exited`; none for the child, the daemon, or what users do.
- `SessionFile`: weak fairness for saves under way, the worker, the daemon, and the
  clean-up, which means that a daemon is launched again some day; none for the
  child, users and deaths.
- `GcPurge`: weak fairness for the daemon's start and its threads (tick, queue,
  probes, pool) and for the age of rows; none for users, developers and stops, nor
  for `GoesIdle`.
- `UnifiedGateway`: weak fairness for the accept loop and for each worker: an
  upstream answers or times out, and so do the reads and writes of a connection.
- `JobReaper`: weak fairness for taking messages and strong fairness for the quiet
  period that scans, as the time between two scans passes while the port is
  silent. That a thread leaves a pass and executes its decisions is said as
  `[]<>`: each of those steps stays possible until it is taken, so weak fairness of
  them implies it. None for processes.
- `CodexTurn`: none, all its properties are safety.

`RetiresInTheEnd` holds with finitely many events: a maintenance tick counts as
activity, so with an idle timeout above the tick cadence the daemon stays up, which
a model without clock cannot show.

## 6. Proofs

Assumptions: the `ASSUME` of each module only (which constants are sets, Booleans
and numbers), and what a theorem states. No bound on clients, chunks, rows,
requests or events is used, so the theorems hold for every value of the constants.

| theorem | statement | argument |
| --- | --- | --- |
| `DaemonBringup_proofs!TypeCorrect` | `Spec => []TypeOK` | by actions |
| `RegistryExclusive` | `Spec => []OneRegistryOwner` | `SpawnsOnce`, `RegistryHeld` |
| `OneDaemonWhenCalm` | `Calm => (Spec => []AtMostOneDaemon)` | `CalmInv` |
| `DiscoverableWhenCalm` | `Calm => (Spec => []ServingIsDiscoverable)` | `CalmInv` |
| `BringupIsSingle` | `Calm => (Spec => ImplementsSingleDaemon)` | `CalmInv`, `SeenServed` |
| `DaemonRetirement_proofs!TypeCorrect` | `Spec => []TypeOK` | by actions |
| `LeasesAreKept` | `~BatchedPrune => (Spec => LeaseKept)` | `LeaseInv` |
| `RetiresOnlyUnneeded` | `~BatchedPrune => (Spec => []RetiresUnneeded)` | `LeaseInv`, `OwedInv` |
| `WorkerAttach_proofs!TypeCorrect` | `Spec => []TypeOK` | by actions |
| `OneCodeTold` | `Spec => []OneExitCode` | `CodeInv` |
| `OneClientAttached` | `Spec => []OneAttached` | `SlotInv` |
| `ExitAfterOutput` | `Spec => []CompleteBeforeExit` | `CodeInv`, `SlotInv`, `HandlerInv`, `ChunkInv` |
| `SessionFile_proofs!TypeCorrect` | `Spec => []TypeOK` | by actions |
| `CodeIsFinal` | `Spec => ExitIsFinal` | `Dead`, `Killed`, `Calm` |
| `GcPurge_proofs!TypeCorrect` | `Spec => []TypeOK` | `IInv` |
| `LocalWorkIsKept` | `Spec => WorkIsKept` | `IInv` |
| `RowsAreKept` | `Spec => StandingRowKept` | `IInv` |
| `UnifiedGateway_proofs!TypeCorrect` | `Spec => []TypeOK` | `IInv` |
| `SlotsAreExact` | `Spec => []SlotsExact` | `IInv` |
| `NoneEscapesShutdown` | `Spec => []ClosedAtShutdown` | `IInv` |
| `OneResponseEach` | `Spec => []OneResponse` | `IInv` |
| `ConsentIsAsked` | `Spec => []MeteredByConsent` | `IInv` |
| `JobReaper_proofs!Invariance` | `Spec => []ReaperInv` | by actions |
| `JobReaper_proofs!TypeCorrect` | `Spec => []TypeOK` | `ReaperInv` |
| `SettledExitsStaySettled` | `Spec => SettledOnce` | `ReaperInv` |
| `KillsOnlyLeaks` | `Spec => OnlyLeaksAreKilled` | `ReaperInv` |
| `CodexTurn_proofs!Invariance` | `Spec => []TurnInv` | by actions |
| `CodexTurn_proofs!TypeCorrect` | `Spec => []TypeOK` | `TurnInv` |
| `RefusesOnlyAfterLoss` | `Spec => []RejectedOnlyAfterLoss` | `TurnInv` |
| `CommitsOnce` | `Spec => []CommittedOnce` | `TurnInv` |
| `SummarySeeds` | `Spec => []SeedsFromSummary` | `TurnInv` |

Why the strengthenings are needed:

- `RegistryHeld`: `gc[d]` is never taken back, so that two live daemons do not both
  have it needs the link to redb's lock (`redb = d`), and that a daemon which has
  not opened the registry has none.
- `CalmInv`: a client decides on what it read earlier. `Knows` says what each stage
  of the locked section may rely on: before a removal or a spawn no daemon is in
  service; at the second probe only the one that was read; while it awaits, only
  its own child. `BootUnderLock` ties a starting daemon to a spawner that holds the
  lock. `Calm` excludes stop and restart, early deadlines and kills of launches.
  A restart breaks the property in run `bringup_restart`; TLC finds it broken as
  well when only `Slow` or only `ClientsMayDie` is set.
- `SeenServed`: a launch is told `ready` on what it read, so it must have read only
  daemons that had entered service.
- `LeaseInv`: between probe and retain, what was found dead stays dead, and who holds
  a lease has no release on the way.
- `OwedInv`: who is owed and was not missed has a need of a kind that is still to be
  read: each read strikes one kind off, and after the last none is left. It is
  inductive because a client that gives up one of them for another takes one that
  is read later (its lease is entered while its connection is counted), or is
  noted in `missed`.
- `CodeInv`: `OneExitCode` speaks of what clients were told; the codes that wait in
  channels have to agree too, and none is sent before one is set.
- `SlotInv`: an attached client that was not told has a reader that will detach it
  only later, and a reader of an open connection has the slot; eviction needs a
  connection that is not open, and a living client's is.
- `ChunkInv`: for an attached client that was told nothing, each chunk since its
  replay has reached it, waits in its channel or is the one in the hand of the
  drain thread (`NoChunkLost`), and waits before any exit of the child
  (`ExitComesLast`). `HandlerInv` says why a send reaches the client: its writer
  runs (`WriterRuns`) and its handler is past the replay (`HandlerFollows`);
  `DrainJoined` says that at the exit nothing is in the drain thread's hand.
- `Dead`, `Killed`: a worker that is gone saves nothing, and terminate and clean-up
  write only then, so that daemon and worker write in turn but for the interrupt.
  `Calm`: while saves stay apart, what is on its way to the disk shows readers no
  other code than they saw, unless it is 130 (`Under`); and a code that readers
  have seen and the worker does not say is the marked 130 of an interrupt, which the
  merge keeps (`Owned`, `HeldOwned`).
- `GcPurge`'s `IInv`: an id is given to one row only and never again (`Once`), so a
  job can drop no row but the one it was made for, and once its completion is sent
  the directory behind that row has not stood all the time (`Queued`). `Checked`: what
  a thread is removing held no work when it was taken up.
- `UnifiedGateway`'s `IInv`: `Tracked` ties the map of connections to where they are,
  `HeadsByPlace` counts responses by the place of a request, `RungsConsented` says that
  every rung a request has reached was one consent covers. That the search finds a
  rung needs that a set of numbers has a least one (`LeastExists`), from the
  library's theorem on well-founded orders.
- `JobReaper`'s `ReaperInv`: the tracker is a stale picture keyed by PIDs that come
  back, so even its types are inductive only with what it says of the system.
  `ProcsInv` is the shape of the system's table (parents first, old holders of a PID
  dead). `Faithful`: an entry shows some process that had its PID, and one taken for
  dead had a PID some holder of which has ended (the message of an exit may strike
  the entry of a later process); what was given up is over or shares its PID;
  what was ever settled stays settled as long as an entry shows it. `PlansOK` and
  `DoomOK`: what waits to be killed is a leak, judged by the servers the decision had
  seen. That a decision is (`DecisionJustified`) needs that, where no ancestor of a
  process shares its PID, the links of the table are the line of descent
  (`AboveIsLine`), that roles are then deserved (`RolesDeserved`), and that a bash that
  runs on in the shell's place has the role of a handoff in the table
  (`TakenOverKnown`): the child of what has a role has the one its parent's gives it,
  and no other (`RolesClosed`).
- The walks of `JobReaper` (`Tree`, `Above`, `Roles`, `Line`) are recursive functions that
  iterate a step. That such a function exists, that what is closed under the step
  holds all of it and that it is closed itself (`Iterates`, `IterationStays`,
  `IterationCloses`) follow from a least counterexample (`LeastNat`), without the
  induction theorems of the library, which the provers cannot instantiate.

- `CodexTurn`'s `TurnInv`: the bridge never compares its history with the transcript
  that Claude resends, so that a turn is neither refused nor doubled rests on the two
  fitting together (`Fitting`): what Claude said since the assistant's last word is not
  in the history, and each call of the history has its result there or with Claude.
  `Taken` and `Committed` show that an input assembled from two that fit passes the
  validator and that what it commits repeats nothing; `FittingInv`, that they fit
  whenever a turn may follow, unless a hook was missed, a change of route undid a
  compaction, or the history holds a reply that was lost (`Clean`). A lost call stays
  harmful only while it is in the history. `ClaudeInv` is what Claude's transcript has at
  all times: nothing twice, a result for each call. `ReplayInv`: while a compaction goes
  on its fallback is armed or the history is empty, and after the summary Claude shows
  nothing older but results; `floor` moves up only then. `BridgeInv`: a provider
  compaction leaves neither calls nor results until the finished hook, so that the
  replies it does not clear fit the new transcript. Ids are handed out in order, which
  tells what a step adds from what was there (`Old`, `Young`).
- `Pending`, `Picked` and `Repair` are described by what the result holds
  (`PendingItems`, `PickedItems`, `RepairItems`); `Picked` is a recursive function over
  the transcript and needs the existence of such a function and an induction over it
  (`Inducts`, `Walks`), again from a least counterexample.

Only model-checked: liveness (`CommandReturns`, `RetiresInTheEnd`, `AttachedLearnsExit`,
`WorkerEnds`, `EvictedInSession`, `DeadIsRecorded`, `IdleIsReclaimed`,
`GoneWorktreeForgotten`, `RequestsEnd`, `ShutdownReturns`, `LeaksAreReaped`), as the
prover does not handle fairness and ENABLED. Every safety property of a passing run
has a theorem; those of the runs that expect a violation are false.

## 7. What could come next

1. `daemon_create_session`: its readiness loop over two lanes, and the request that is
   sent again on the other lane.
2. The orphan sweep with two daemons, and the instance cap.
3. The byte machines (bracketed paste, titles) against a reference over bounded
   inputs.
