------------------------------ MODULE GcPurge ------------------------------
(***************************************************************************)
(* The garbage collection of worktrees, clones and extern repositories:    *)
(* the registry worker, which alone owns the rows; the purge pool, which   *)
(* removes directories first and reports later; the probe, which computes  *)
(* the verdicts on extern repositories beside them; and the developer, who *)
(* comes back at any time.  The daemon can stop at every point, and takes  *)
(* with it all but the rows.                                               *)
(*                                                                         *)
(* A directory is "fresh" (nothing to lose, touched lately), "idle" (the   *)
(* same, long ago), "dirty" (local work), "broken" (what a removal that    *)
(* failed left of a repository) or "gone"; of a worktree or a clone nobody *)
(* asks more than whether it is there: "fresh".                            *)
(***************************************************************************)
EXTENDS Integers, Sequences, FiniteSets

CONSTANTS
    Worktrees, Clones, Extern,   \* the directories of each kind
    Pool,             \* threads of the purge pool
    MaxId, MaxJobs, MaxMsgs, MaxProbes, MaxEvents,   \* bounds
    Nobody            \* no job

Paths == Worktrees \cup Clones \cup Extern

ASSUME BoundAssumption == MaxId \in Nat /\ MaxJobs \in Nat /\ MaxMsgs \in Nat
                           /\ MaxProbes \in Nat /\ MaxEvents \in Nat
ASSUME KindAssumption ==
    Worktrees \cap Clones = {} /\ Worktrees \cap Extern = {} /\ Clones \cap Extern = {}
ASSUME FiniteAssumption == IsFiniteSet(Paths)

VARIABLES
    dir, live,     \* the directories, and whether a session is in one
    row, old,      \* registry: the id of each path's row (0: none), aged past 48 h
    nextId,
    up,            \* is the daemon up
    cache,         \* SpareReasons.entries
    slot,          \* SpareReasons.probe_in_flight
    probes,        \* the probe threads
    jobs, busy,    \* the queue of the pool, and what each thread removes
    msgs,          \* RegistryMsg: completions and snapshots
    events,
    late,          \* was the directory touched after its removal was verified
    stood          \* has the directory stood ever since its row was inserted

worldVars == <<dir, live, late>>
rowVars == <<row, old, nextId, stood>>
poolVars == <<jobs, busy>>
probeVars == <<cache, slot, probes>>
vars == <<worldVars, rowVars, up, probeVars, poolVars, msgs, events>>

Ids == 1..MaxId
Jobs == [path : Paths, id : Ids]
Verdicts == [Extern -> {"none", "take", "spare"}]
NoVerdict == [p \in Extern |-> "none"]
ProbeIds == 1..MaxProbes
NoProbe == [todo |-> {}, found |-> NoVerdict, on |-> FALSE]

Init ==
    /\ dir \in [Paths -> {"gone", "fresh"}] /\ live = [p \in Paths |-> FALSE]
    /\ row = [p \in Paths |-> 0] /\ old = [p \in Paths |-> FALSE] /\ nextId = 1
    /\ up = FALSE
    /\ cache = NoVerdict /\ slot = FALSE /\ probes = [i \in ProbeIds |-> NoProbe]
    /\ jobs = <<>> /\ busy = [w \in Pool |-> Nobody] /\ msgs = <<>>
    /\ events = 0
    /\ late = [p \in Paths |-> FALSE] /\ stood = [p \in Paths |-> FALSE]

\* Bound: one more step of the developer, the user or of chance.
Event == events < MaxEvents /\ events' = events + 1

-----------------------------------------------------------------------------
(* The developer and the sessions *)

Removing(p) == \E w \in Pool : busy[w] # Nobody /\ busy[w].path = p

Touch(p, state) ==
    /\ dir' = [dir EXCEPT ![p] = state]
    /\ late' = [late EXCEPT ![p] = p \in Extern /\ Removing(p)]

\* A worktree is added, a repository cloned: again under its old name, too.
Create(p) ==
    /\ dir[p] = "gone" /\ Event /\ Touch(p, "fresh")
    /\ UNCHANGED <<live, rowVars, up, probeVars, poolVars, msgs>>
Work(p) ==
    /\ p \in Extern /\ dir[p] \in {"fresh", "idle"} /\ Event /\ Touch(p, "dirty")
    /\ UNCHANGED <<live, rowVars, up, probeVars, poolVars, msgs>>
Push(p) ==
    /\ dir[p] = "dirty" /\ Event /\ Touch(p, "fresh")
    /\ UNCHANGED <<live, rowVars, up, probeVars, poolVars, msgs>>
RemovedOutside(p) ==
    /\ dir[p] # "gone" /\ Event /\ Touch(p, "gone")
    /\ stood' = [stood EXCEPT ![p] = FALSE]
    /\ UNCHANGED <<live, row, old, nextId, up, probeVars, poolVars, msgs>>
Enter(p) ==
    /\ ~live[p] /\ dir[p] # "gone" /\ Event /\ live' = [live EXCEPT ![p] = TRUE]
    /\ UNCHANGED <<dir, late, rowVars, up, probeVars, poolVars, msgs>>
Leave(p) ==
    /\ live[p] /\ live' = [live EXCEPT ![p] = FALSE]
    /\ UNCHANGED <<dir, late, rowVars, up, probeVars, poolVars, msgs, events>>

\* Time passes for a directory, and for a row.
GoesIdle(p) ==
    /\ p \in Extern /\ dir[p] = "fresh" /\ dir' = [dir EXCEPT ![p] = "idle"]
    /\ UNCHANGED <<live, late, rowVars, up, probeVars, poolVars, msgs, events>>
RowAges(p) ==
    /\ p \notin Extern /\ row[p] # 0 /\ ~old[p] /\ old' = [old EXCEPT ![p] = TRUE]
    /\ UNCHANGED <<worldVars, row, nextId, stood, up, probeVars, poolVars, msgs, events>>

-----------------------------------------------------------------------------
(* Rows *)

\* Mutant: the id is minted from the counter after its increment.
InsertMinted(p) ==
    /\ row[p] = 0 /\ nextId <= MaxId
    /\ row' = [row EXCEPT ![p] = nextId + 1] /\ nextId' = nextId + 1
    /\ old' = [old EXCEPT ![p] = FALSE]
    /\ stood' = [stood EXCEPT ![p] = dir[p] # "gone"]

\* insert_if_new: a row that is there stays as it is, id and age.
InsertIfNew(p) ==
    /\ row[p] = 0 /\ nextId <= MaxId
    /\ row' = [row EXCEPT ![p] = nextId] /\ nextId' = nextId + 1
    /\ old' = [old EXCEPT ![p] = FALSE]
    /\ stood' = [stood EXCEPT ![p] = dir[p] # "gone"]

\* GcOp::Insert: the directory may be gone by now.
Insert(p) ==
    /\ up /\ Event /\ InsertIfNew(p)
    /\ UNCHANGED <<worldVars, up, probeVars, poolVars, msgs>>

\* The watch service rescans the root that a launch registered.
Rescan(p) ==
    /\ up /\ dir[p] # "gone" /\ InsertIfNew(p)
    /\ UNCHANGED <<worldVars, up, probeVars, poolVars, msgs, events>>

\* Mutant: the row is looked up by its path.
DeleteByPath(job) == row' = [row EXCEPT ![job.path] = 0]

\* Registry::delete, by id.
Delete(job) == row' = [p \in Paths |-> IF row[p] = job.id THEN 0 ELSE row[p]]

-----------------------------------------------------------------------------
(* Verdicts *)

\* extern_repo_purge_verdict: the only one that takes is "clean and pushed".
Verdict(p) == IF dir[p] = "idle" THEN "take" ELSE "spare"

Spawned(i, rows) == [probes EXCEPT ![i] = [todo |-> rows, found |-> NoVerdict, on |-> TRUE]]

\* Mutant: a spawn that fails leaves the slot claimed.
SpawnLeaky(rows) ==
    /\ slot' = TRUE
    /\ \/ \E i \in ProbeIds : ~probes[i].on /\ probes' = Spawned(i, rows) /\ UNCHANGED events
       \/ Event /\ UNCHANGED probes

\* The thread of a probe starts, or fails to: then the slot is free again.
Spawn(rows) ==
    \/ \E i \in ProbeIds :
         ~probes[i].on /\ probes' = Spawned(i, rows) /\ slot' = TRUE /\ UNCHANGED events
    \/ Event /\ UNCHANGED <<slot, probes>>

\* spawn_extern_probe: every row of the kind, one probe at a time; without rows
\* an empty snapshot is sent, unless a probe is out.
SpawnProbe ==
    LET rows == {p \in Extern : row[p] # 0} IN
    /\ UNCHANGED cache
    /\ IF rows = {}
       THEN /\ msgs' = (IF slot THEN msgs ELSE Append(msgs, [done |-> Nobody, found |-> NoVerdict]))
            /\ UNCHANGED <<slot, probes, events>>
       ELSE /\ IF slot THEN UNCHANGED <<slot, probes, events>> ELSE Spawn(rows)
            /\ UNCHANGED msgs

ProbeOne(i, p) ==
    /\ probes[i].on /\ p \in probes[i].todo
    /\ probes' = [probes EXCEPT ![i].todo = @ \ {p}, ![i].found[p] = Verdict(p)]
    /\ UNCHANGED <<worldVars, rowVars, up, cache, slot, poolVars, msgs, events>>
ProbeEnds(i) ==
    /\ probes[i].on /\ probes[i].todo = {}
    /\ msgs' = Append(msgs, [done |-> Nobody, found |-> probes[i].found])
    /\ probes' = [probes EXCEPT ![i] = NoProbe]
    /\ UNCHANGED <<worldVars, rowVars, up, cache, slot, poolVars, events>>

-----------------------------------------------------------------------------
(* Purges *)

\* entry_is_live: a session's directory; a worktree's lock outlives it.
Live(p) == live[p] /\ (dir[p] # "gone" \/ p \in Worktrees)

\* Mutant: a directory that is gone has nothing to purge.
PurgeablePresent(S) ==
    {p \in S : row[p] # 0 /\ dir[p] # "gone" /\ ~Live(p) /\ (p \in Extern => cache[p] = "take")}

\* partition_purgeable: no extern repository without a verdict that takes it.
Purgeable(S) ==
    {p \in S : row[p] # 0 /\ ~Live(p) /\ (p \in Extern => cache[p] = "take")}

\* dispatch_purge_entries hands the rows S to the pool, in some order.
Dispatches(S) ==
    {[k \in 1..Cardinality(S) |-> [path |-> f[k], id |-> row[f[k]]]] :
        f \in {g \in [1..Cardinality(S) -> S] : \A j, k \in 1..Cardinality(S) : g[j] = g[k] => j = k}}

\* run_periodic_purge_tick: on a low disk old worktrees and clones, then old
\* worktrees, then extern repositories, then the next probe.
Tick ==
    /\ up
    /\ \E low \in BOOLEAN :
         LET aged(S) == Purgeable({p \in S : old[p]})
             all == IF low THEN aged(Worktrees \cup Clones) ELSE {}
         IN \E a \in Dispatches(all), b \in Dispatches(aged(Worktrees)),
               c \in Dispatches(Purgeable(Extern)) :
              jobs' = jobs \o a \o b \o c
    /\ Len(jobs') <= MaxJobs
    /\ SpawnProbe /\ Len(msgs') <= MaxMsgs
    /\ UNCHANGED <<worldVars, rowVars, up, busy>>

\* GcOp::Purge of a user, of one kind and any age.
UserPurge ==
    /\ up /\ Event
    /\ \E kind \in {Worktrees, Clones, Extern} :
         \E a \in Dispatches(Purgeable(kind)) : jobs' = jobs \o a
    /\ Len(jobs') <= MaxJobs
    /\ UNCHANGED <<worldVars, rowVars, up, probeVars, busy, msgs>>

\* What is left after a removal that failed or was cut off: all of it, a
\* repository with files missing, or files that are no repository any more.
Remnants(p) ==
    IF p \notin Extern \/ dir[p] = "gone" THEN {dir[p]} ELSE {dir[p], "broken", "fresh"}

\* GcOp::DeleteById, of the dashboard: removal and row in one step, whatever
\* the directory holds; the row stays if the removal fails.
UserDelete(p) ==
    /\ up /\ row[p] # 0 /\ ~Live(p) /\ Event
    /\ \/ /\ Touch(p, "gone")
          /\ row' = [row EXCEPT ![p] = 0] /\ stood' = [stood EXCEPT ![p] = FALSE]
       \/ (\E s \in Remnants(p) : Touch(p, s)) /\ UNCHANGED <<row, stood>>
    /\ UNCHANGED <<live, old, nextId, up, probeVars, poolVars, msgs>>

\* Mutant: the verdict of the last probe is good enough.
TakenAsSent(job) == job.path \in Worktrees => ~live[job.path]

\* reverify_before_delete, and the check of a worktree's processes.
Taken(job) ==
    /\ job.path \in Extern => Verdict(job.path) = "take"
    /\ job.path \in Worktrees => ~live[job.path]

\* purge_pool_worker takes a job up; of one it spares there is but a log line.
Take(w) ==
    /\ busy[w] = Nobody /\ jobs # <<>>
    /\ jobs' = Tail(jobs)
    /\ busy' = [busy EXCEPT ![w] = IF Taken(Head(jobs)) THEN Head(jobs) ELSE Nobody]
    /\ late' = IF Taken(Head(jobs)) THEN [late EXCEPT ![Head(jobs).path] = FALSE] ELSE late
    /\ UNCHANGED <<dir, live, rowVars, up, probeVars, msgs, events>>

\* remove_entry_filesystem; the completion is sent.
Remove(w) ==
    /\ busy[w] # Nobody
    /\ dir' = [dir EXCEPT ![busy[w].path] = "gone"]
    /\ stood' = [stood EXCEPT ![busy[w].path] = FALSE]
    /\ busy' = [busy EXCEPT ![w] = Nobody]
    /\ msgs' = Append(msgs, [done |-> busy[w], found |-> NoVerdict])
    /\ UNCHANGED <<live, late, row, old, nextId, up, probeVars, jobs, events>>

RemoveFails(w) ==
    /\ busy[w] # Nobody /\ Event
    /\ \E s \in Remnants(busy[w].path) : dir' = [dir EXCEPT ![busy[w].path] = s]
    /\ busy' = [busy EXCEPT ![w] = Nobody]
    /\ UNCHANGED <<live, late, rowVars, up, probeVars, jobs, msgs>>

-----------------------------------------------------------------------------
(* The registry worker's queue *)

\* apply_purge_completion, or a snapshot that replaces the cache wholesale.
Handle ==
    /\ up /\ msgs # <<>> /\ msgs' = Tail(msgs)
    /\ IF Head(msgs).done # Nobody
       THEN Delete(Head(msgs).done) /\ UNCHANGED <<cache, slot>>
       ELSE cache' = Head(msgs).found /\ slot' = FALSE /\ UNCHANGED row
    /\ UNCHANGED <<worldVars, old, nextId, stood, up, probes, poolVars, events>>

\* The daemon comes up with its rows, and primes the verdicts.
Start ==
    /\ ~up /\ up' = TRUE /\ SpawnProbe
    /\ UNCHANGED <<worldVars, rowVars, poolVars>>

\* It retires, is restarted or dies: nothing waits for the pool.
Stop ==
    /\ up /\ Event /\ up' = FALSE
    /\ \E d \in [Paths -> {"gone", "fresh", "idle", "dirty", "broken"}] :
         /\ \A p \in Paths : d[p] \in (IF Removing(p) THEN Remnants(p) \cup {"gone"} ELSE {dir[p]})
         /\ dir' = d
         /\ stood' = [p \in Paths |-> stood[p] /\ d[p] # "gone"]
    /\ cache' = NoVerdict /\ slot' = FALSE /\ probes' = [i \in ProbeIds |-> NoProbe]
    /\ jobs' = <<>> /\ busy' = [w \in Pool |-> Nobody] /\ msgs' = <<>>
    /\ UNCHANGED <<live, late, row, old, nextId>>

Next ==
    \/ \E p \in Paths :
         \/ Create(p) \/ Work(p) \/ Push(p) \/ RemovedOutside(p) \/ Enter(p) \/ Leave(p)
         \/ GoesIdle(p) \/ RowAges(p) \/ Insert(p) \/ Rescan(p) \/ UserDelete(p)
    \/ \E i \in ProbeIds : ProbeEnds(i) \/ \E p \in Extern : ProbeOne(i, p)
    \/ \E w \in Pool : Take(w) \/ Remove(w) \/ RemoveFails(w)
    \/ Tick \/ UserPurge \/ Handle \/ Start \/ Stop

\* The daemon is launched again, its threads run, rows age.
Spec ==
    /\ Init /\ [][Next]_vars
    /\ WF_vars(Start) /\ WF_vars(Tick) /\ WF_vars(Handle)
    /\ \A p \in Paths : WF_vars(RowAges(p))
    /\ \A i \in ProbeIds : WF_vars(ProbeEnds(i)) /\ \A p \in Extern : WF_vars(ProbeOne(i, p))
    /\ \A w \in Pool : WF_vars(Take(w)) /\ WF_vars(Remove(w))

-----------------------------------------------------------------------------
(* Properties *)

TypeOK ==
    /\ dir \in [Paths -> {"gone", "fresh", "idle", "dirty", "broken"}]
    /\ live \in [Paths -> BOOLEAN] /\ late \in [Paths -> BOOLEAN]
    /\ row \in [Paths -> 0..MaxId] /\ nextId \in 1..(MaxId + 1)
    /\ old \in [Paths -> BOOLEAN] /\ stood \in [Paths -> BOOLEAN]
    /\ up \in BOOLEAN /\ slot \in BOOLEAN
    /\ cache \in Verdicts
    /\ probes \in [ProbeIds -> [todo : SUBSET Extern, found : Verdicts, on : BOOLEAN]]
    /\ jobs \in Seq(Jobs) /\ busy \in [Pool -> Jobs \cup {Nobody}]
    /\ msgs \in Seq([done : Jobs \cup {Nobody}, found : Verdicts])
    /\ events \in 0..MaxEvents

\* The pool removes no extern repository with local work, however old the
\* verdict that sent it there and whatever was cloned at its path since: only
\* work that began after the last check, in the midst of the removal, is lost.
WorkIsKept ==
    [][\A w \in Pool : Remove(w) =>
         LET p == busy[w].path IN (p \in Extern /\ dir[p] = "dirty") => late[p]]_vars

\* A completion drops no row of a directory that stood ever since the row was
\* inserted: late and repeated completions of a path leave its new row alone.
StandingRowKept ==
    [][\A p \in Paths : (stood[p] /\ row[p] # 0) => (row'[p] = row[p] \/ ~stood'[p])]_vars

\* An extern repository with a row that nobody uses and that stays idle is
\* reclaimed: the probe, its slot, the cache and the pool never get stuck.
IdleIsReclaimed ==
    \A p \in Extern : ~<>[](row[p] # 0 /\ dir[p] = "idle" /\ ~live[p])

\* The row of a worktree that is gone goes too, even if the daemon stopped
\* between the removal and its completion, unless its agent still lives.
GoneWorktreeForgotten ==
    \A p \in Worktrees :
        (row[p] # 0 /\ dir[p] = "gone") ~> (row[p] = 0 \/ dir[p] # "gone" \/ live[p])

\* docs/architecture/gc-and-registry.md:214: "Stale rows during/after a partial
\* purge are tolerated - eventual consistency, not transactional; the next
\* purge or list reconciles": once a removal began, the row goes or the
\* directory comes back.
StaleRowsReconciled ==
    \A p \in Paths : Removing(p) ~> (row[p] = 0 \/ []<>(dir[p] # "gone"))
=============================================================================
