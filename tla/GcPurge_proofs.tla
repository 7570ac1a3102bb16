--------------------------- MODULE GcPurge_proofs ---------------------------
(***************************************************************************)
(* Proofs about garbage collection: the pool removes no local work on an   *)
(* old verdict, and no completion drops the row of a directory that        *)
(* stands, for any number of directories, threads, probes and messages.    *)
(*                                                                         *)
(* Ids carry the argument.  An id is given to one row only and never       *)
(* again, so a job can drop no row but the one it was made for; and once   *)
(* its completion is sent, the directory behind that row has not stood all *)
(* the time.                                                               *)
(***************************************************************************)
EXTENDS GcPurge, FiniteSetTheorems, SequenceTheorems, TLAPS

\* Jobs that can drop no row but the one of their path.
Sound == {j \in Jobs : j.id < nextId /\ \A p \in Paths : row[p] = j.id => p = j.path}

\* Jobs whose directory has been removed since that row was inserted.
Finished == {j \in Sound : \A p \in Paths : row[p] = j.id => ~stood[p]}

Msgs(S) == [done : S \cup {Nobody}, found : Verdicts]

\* What a thread is removing holds no local work, but for work done meanwhile.
Checked ==
    \A w \in Pool :
        (busy[w] # Nobody /\ busy[w].path \in Extern /\ dir[busy[w].path] = "dirty")
            => late[busy[w].path]

\* Ids are given once.
Once ==
    /\ \A p \in Paths : row[p] < nextId
    /\ \A p, q \in Paths : (row[p] # 0 /\ row[p] = row[q]) => p = q

\* What the queues hold is sound, and what was completed finished.
Queued == jobs \in Seq(Sound) /\ busy \in [Pool -> Sound \cup {Nobody}] /\ msgs \in Seq(Msgs(Finished))

IInv == TypeOK /\ Checked /\ Once /\ Queued

-----------------------------------------------------------------------------
(* The rows only shrink, but for fresh ids *)

\* From a state to the next, a row stays, with a directory that has stood no
\* longer than before, or it goes, or it has an id nobody had.
Steady ==
    /\ nextId' \in Nat /\ nextId' >= nextId
    /\ \A p \in Paths :
        \/ row'[p] = row[p] /\ (stood'[p] => stood[p])
        \/ row'[p] = 0
        \/ row'[p] >= nextId

\* Steps of that kind leave jobs sound and finished.
LEMMA Grow ==
  ASSUME TypeOK, Steady
  PROVE  Sound \subseteq Sound' /\ Finished \subseteq Finished'
<1>1. \A j \in Jobs : j.id \in Nat /\ j.id # 0
  BY BoundAssumption DEF Jobs, Ids
<1>2. nextId \in Nat
  BY BoundAssumption DEF TypeOK
<1>3. ASSUME NEW j \in Sound, NEW p \in Paths, row'[p] = j.id
      PROVE  row[p] = j.id /\ (stood'[p] => stood[p])
  <2>1. j \in Jobs /\ j.id < nextId
    BY DEF Sound
  <2>2. row'[p] # 0 /\ ~(row'[p] >= nextId)
    BY <2>1, <1>1, <1>2, <1>3
  <2> QED
    BY <2>2, <1>3 DEF Steady
<1>4. ASSUME NEW j \in Sound
      PROVE  j \in Sound'
  <2>1. j \in Jobs /\ j.id < nextId'
    BY <1>1, <1>2 DEF Sound, Steady
  <2> QED
    BY <2>1, <1>3 DEF Sound
<1>5. ASSUME NEW j \in Finished
      PROVE  j \in Finished'
  <2>1. j \in Sound /\ j \in Sound'
    BY <1>4 DEF Finished
  <2> QED
    BY <2>1, <1>3 DEF Finished
<1> QED
  BY <1>4, <1>5

\* The queues stay as they are while the rows move like that.
LEMMA StillQueued ==
  ASSUME TypeOK, Steady, Queued
  PROVE  /\ jobs \in Seq(Sound')
         /\ busy \in [Pool -> Sound' \cup {Nobody}]
         /\ msgs \in Seq(Msgs(Finished'))
<1>1. Sound \subseteq Sound' /\ Finished \subseteq Finished'
  BY Grow
<1>2. jobs \in Seq(Sound')
  BY <1>1, SeqMonotonic DEF Queued
<1>3. busy \in [Pool -> Sound' \cup {Nobody}]
  BY <1>1 DEF Queued
<1>4. Msgs(Finished) \subseteq Msgs(Finished')
  BY <1>1 DEF Msgs
<1>5. msgs \in Seq(Msgs(Finished'))
  BY <1>4, SeqMonotonic DEF Queued
<1> QED
  BY <1>2, <1>3, <1>5

\* A purge queues sound jobs.
LEMMA DispatchesSound ==
  ASSUME TypeOK, Once, NEW S \in SUBSET Paths, \A p \in S : row[p] # 0,
         NEW a \in Dispatches(S)
  PROVE  a \in Seq(Sound)
<1> DEFINE n == Cardinality(S)
<1>1. n \in Nat
  <2>1. IsFiniteSet(S)
    BY FiniteAssumption, FS_Subset
  <2> QED
    BY <2>1, FS_CardinalityType
<1>2. PICK f \in [1..n -> S] : a = [k \in 1..n |-> [path |-> f[k], id |-> row[f[k]]]]
  BY DEF Dispatches
<1>3. \A p \in S : [path |-> p, id |-> row[p]] \in Sound
  <2> SUFFICES ASSUME NEW p \in S
               PROVE  [path |-> p, id |-> row[p]] \in Sound
    OBVIOUS
  <2>1. row[p] \in Ids
    BY BoundAssumption DEF TypeOK, Ids
  <2>2. [path |-> p, id |-> row[p]] \in Jobs
    BY <2>1 DEF Jobs
  <2> QED
    BY <2>2 DEF Once, Sound
<1>4. a \in [1..n -> Sound]
  BY <1>2, <1>3
<1> QED
  BY <1>1, <1>4, SeqDef

-----------------------------------------------------------------------------
(* Types *)

\* The types of all but the queues; theirs follow from what they hold.
Plain ==
    /\ dir \in [Paths -> {"gone", "fresh", "idle", "dirty", "broken"}]
    /\ live \in [Paths -> BOOLEAN] /\ late \in [Paths -> BOOLEAN]
    /\ row \in [Paths -> 0..MaxId] /\ nextId \in 1..(MaxId + 1)
    /\ old \in [Paths -> BOOLEAN] /\ stood \in [Paths -> BOOLEAN]
    /\ up \in BOOLEAN /\ slot \in BOOLEAN
    /\ cache \in Verdicts
    /\ probes \in [ProbeIds -> [todo : SUBSET Extern, found : Verdicts, on : BOOLEAN]]
    /\ events \in 0..MaxEvents

LEMMA PlainType ==
  ASSUME Plain, Queued
  PROVE  TypeOK
<1>1. Sound \subseteq Jobs /\ Finished \subseteq Jobs
  BY DEF Sound, Finished
<1>2. Msgs(Finished) \subseteq Msgs(Jobs)
  BY <1>1 DEF Msgs
<1>3. jobs \in Seq(Jobs) /\ msgs \in Seq(Msgs(Jobs))
  BY <1>1, <1>2, SeqMonotonic DEF Queued
<1>4. busy \in [Pool -> Jobs \cup {Nobody}]
  BY <1>1 DEF Queued
<1> QED
  BY <1>3, <1>4 DEF Plain, Msgs, TypeOK

LEMMA EventType ==
  ASSUME TypeOK, Event
  PROVE  events' \in 0..MaxEvents
BY BoundAssumption DEF TypeOK, Event

\* Probes keep their types; a snapshot is a verdict on each repository.
LEMMA ProbeType ==
  ASSUME TypeOK, NEW i \in ProbeIds
  PROVE  /\ NoVerdict \in Verdicts
         /\ NoProbe \in [todo : SUBSET Extern, found : Verdicts, on : BOOLEAN]
         /\ probes[i].found \in Verdicts
         /\ \A S \in SUBSET Extern :
              Spawned(i, S) \in [ProbeIds -> [todo : SUBSET Extern, found : Verdicts, on : BOOLEAN]]
<1>1. NoVerdict \in Verdicts
  BY DEF NoVerdict, Verdicts
<1>2. NoProbe \in [todo : SUBSET Extern, found : Verdicts, on : BOOLEAN]
  BY <1>1 DEF NoProbe
<1>3. probes[i].found \in Verdicts
  BY DEF TypeOK
<1>4. ASSUME NEW S \in SUBSET Extern
      PROVE  Spawned(i, S) \in [ProbeIds -> [todo : SUBSET Extern, found : Verdicts, on : BOOLEAN]]
  <2>1. [todo |-> S, found |-> NoVerdict, on |-> TRUE]
          \in [todo : SUBSET Extern, found : Verdicts, on : BOOLEAN]
    BY <1>1
  <2> QED
    BY <2>1 DEF Spawned, TypeOK
<1> QED
  BY <1>1, <1>2, <1>3, <1>4

LEMMA SpawnType ==
  ASSUME TypeOK, SpawnProbe
  PROVE  /\ slot' \in BOOLEAN /\ cache' \in Verdicts /\ events' \in 0..MaxEvents
         /\ probes' \in [ProbeIds -> [todo : SUBSET Extern, found : Verdicts, on : BOOLEAN]]
<1> DEFINE rows == {p \in Extern : row[p] # 0}
<1>1. cache' \in Verdicts
  BY DEF SpawnProbe, TypeOK
<1>2. CASE UNCHANGED <<slot, probes, events>>
  BY <1>1, <1>2 DEF TypeOK
<1>3. CASE Spawn(rows)
  <2>1. CASE \E i \in ProbeIds : probes' = Spawned(i, rows) /\ slot' = TRUE /\ UNCHANGED events
    <3>1. PICK i \in ProbeIds : probes' = Spawned(i, rows) /\ slot' = TRUE /\ UNCHANGED events
      BY <2>1
    <3>2. rows \in SUBSET Extern
      OBVIOUS
    <3>3. probes' \in [ProbeIds -> [todo : SUBSET Extern, found : Verdicts, on : BOOLEAN]]
      BY <3>1, <3>2, ProbeType
    <3>4. events' \in 0..MaxEvents /\ slot' \in BOOLEAN
      BY <3>1 DEF TypeOK
    <3> QED
      BY <3>3, <3>4, <1>1
  <2>2. CASE Event /\ UNCHANGED <<slot, probes>>
    BY <2>2, <1>1, EventType DEF TypeOK
  <2> QED
    BY <1>3, <2>1, <2>2 DEF Spawn
<1> QED
  BY <1>2, <1>3 DEF SpawnProbe

\* Insertions and changes of a directory keep the types they touch.
LEMMA InsertType ==
  ASSUME TypeOK, NEW p \in Paths, InsertIfNew(p)
  PROVE  /\ row' \in [Paths -> 0..MaxId] /\ nextId' \in 1..(MaxId + 1)
         /\ old' \in [Paths -> BOOLEAN] /\ stood' \in [Paths -> BOOLEAN]
<1>1. nextId \in 0..MaxId /\ nextId' \in 1..(MaxId + 1)
  BY BoundAssumption DEF TypeOK, InsertIfNew
<1>2. (dir[p] # "gone") \in BOOLEAN
  OBVIOUS
<1> QED
  BY <1>1, <1>2 DEF TypeOK, InsertIfNew

LEMMA TouchType ==
  ASSUME TypeOK, NEW p \in Paths, NEW s \in {"gone", "fresh", "idle", "dirty", "broken"}, Touch(p, s)
  PROVE  /\ dir' \in [Paths -> {"gone", "fresh", "idle", "dirty", "broken"}]
         /\ late' \in [Paths -> BOOLEAN]
<1>1. (p \in Extern /\ Removing(p)) \in BOOLEAN
  OBVIOUS
<1> QED
  BY <1>1 DEF TypeOK, Touch

LEMMA RemnantType ==
  ASSUME TypeOK, NEW p \in Paths
  PROVE  Remnants(p) \subseteq {"gone", "fresh", "idle", "dirty", "broken"}
BY DEF TypeOK, Remnants

\* What a thread removes is in the tables.
LEMMA BusyPath ==
  ASSUME TypeOK, NEW w \in Pool, busy[w] # Nobody
  PROVE  busy[w] \in Jobs /\ busy[w].path \in Paths
BY DEF TypeOK, Jobs

LEMMA HeadJob ==
  ASSUME TypeOK, jobs # <<>>
  PROVE  Head(jobs) \in Jobs /\ Head(jobs).path \in Paths
<1>1. Head(jobs) \in Jobs
  BY HeadTailProperties DEF TypeOK
<1> QED
  BY <1>1 DEF Jobs

\* Steps of the developer, the sessions and the clock.
LEMMA WorldPlain ==
  ASSUME TypeOK, NEW p \in Paths,
         \/ Create(p) \/ Work(p) \/ Push(p) \/ RemovedOutside(p) \/ Enter(p) \/ Leave(p)
         \/ GoesIdle(p) \/ RowAges(p)
  PROVE  Plain'
<1> USE EventType
<1>1. CASE Create(p)
  BY <1>1, TouchType DEF Create, rowVars, probeVars, TypeOK, Plain
<1>2. CASE Work(p)
  BY <1>2, TouchType DEF Work, rowVars, probeVars, TypeOK, Plain
<1>3. CASE Push(p)
  BY <1>3, TouchType DEF Push, rowVars, probeVars, TypeOK, Plain
<1>4. CASE RemovedOutside(p)
  <2>1. dir' \in [Paths -> {"gone", "fresh", "idle", "dirty", "broken"}] /\ late' \in [Paths -> BOOLEAN]
    BY <1>4, TouchType DEF RemovedOutside
  <2> QED
    BY <1>4, <2>1 DEF RemovedOutside, probeVars, TypeOK, Plain
<1>5. CASE Enter(p)
  BY <1>5 DEF Enter, rowVars, probeVars, TypeOK, Plain
<1>6. CASE Leave(p)
  BY <1>6 DEF Leave, rowVars, probeVars, TypeOK, Plain
<1>7. CASE GoesIdle(p)
  BY <1>7 DEF GoesIdle, rowVars, probeVars, TypeOK, Plain
<1>8. CASE RowAges(p)
  BY <1>8 DEF RowAges, worldVars, probeVars, TypeOK, Plain
<1> QED
  BY <1>1, <1>2, <1>3, <1>4, <1>5, <1>6, <1>7, <1>8

\* Steps of the registry worker and its clients.
LEMMA WorkerPlain ==
  ASSUME TypeOK, (\E p \in Paths : Insert(p) \/ Rescan(p) \/ UserDelete(p)) \/ Tick \/ UserPurge \/ Handle
  PROVE  Plain'
<1>1. ASSUME NEW p \in Paths, Insert(p)
      PROVE  Plain'
  BY <1>1, InsertType, EventType DEF Insert, worldVars, probeVars, TypeOK, Plain
<1>2. ASSUME NEW p \in Paths, Rescan(p)
      PROVE  Plain'
  BY <1>2, InsertType DEF Rescan, worldVars, probeVars, TypeOK, Plain
<1>3. ASSUME NEW p \in Paths, UserDelete(p)
      PROVE  Plain'
  <2>1. dir' \in [Paths -> {"gone", "fresh", "idle", "dirty", "broken"}] /\ late' \in [Paths -> BOOLEAN]
    BY <1>3, TouchType, RemnantType DEF UserDelete
  <2>2. row' \in [Paths -> 0..MaxId] /\ stood' \in [Paths -> BOOLEAN]
    <3>1. CASE UNCHANGED <<row, stood>>
      BY <3>1 DEF TypeOK
    <3>2. CASE row' = [row EXCEPT ![p] = 0] /\ stood' = [stood EXCEPT ![p] = FALSE]
      BY <3>2, BoundAssumption DEF TypeOK
    <3> QED
      BY <1>3, <3>1, <3>2 DEF UserDelete
  <2> QED
    BY <1>3, <2>1, <2>2, EventType DEF UserDelete, probeVars, TypeOK, Plain
<1>4. CASE Tick
  BY <1>4, SpawnType DEF Tick, worldVars, rowVars, TypeOK, Plain
<1>5. CASE UserPurge
  BY <1>5, EventType DEF UserPurge, worldVars, rowVars, probeVars, TypeOK, Plain
<1>6. CASE Handle
  <2>1. Head(msgs) \in Msgs(Jobs)
    BY <1>6, HeadTailProperties DEF Handle, TypeOK, Msgs
  <2>2. row' \in [Paths -> 0..MaxId] /\ cache' \in Verdicts /\ slot' \in BOOLEAN
    <3>1. CASE Head(msgs).done # Nobody
      BY <1>6, <3>1, BoundAssumption DEF Handle, Delete, TypeOK
    <3>2. CASE Head(msgs).done = Nobody
      BY <1>6, <3>2, <2>1 DEF Handle, Msgs, TypeOK
    <3> QED
      BY <3>1, <3>2
  <2> QED
    BY <1>6, <2>2 DEF Handle, worldVars, TypeOK, Plain
<1> QED
  BY <1>1, <1>2, <1>3, <1>4, <1>5, <1>6

\* Steps of the pool, of the probes and of the daemon as a whole.
LEMMA ThreadPlain ==
  ASSUME TypeOK,
         \/ \E i \in ProbeIds : ProbeEnds(i) \/ \E p \in Extern : ProbeOne(i, p)
         \/ \E w \in Pool : Take(w) \/ Remove(w) \/ RemoveFails(w)
         \/ Start \/ Stop
  PROVE  Plain'
<1>1. ASSUME NEW i \in ProbeIds, ProbeEnds(i)
      PROVE  Plain'
  BY <1>1, ProbeType DEF ProbeEnds, worldVars, rowVars, TypeOK, Plain
<1>2. ASSUME NEW i \in ProbeIds, NEW p \in Extern, ProbeOne(i, p)
      PROVE  Plain'
  <2>1. Verdict(p) \in {"none", "take", "spare"}
    BY DEF Verdict
  <2>2. [probes[i].found EXCEPT ![p] = Verdict(p)] \in Verdicts
    BY <2>1, ProbeType DEF Verdicts
  <2>3. probes[i] \in [todo : SUBSET Extern, found : Verdicts, on : BOOLEAN]
    BY DEF TypeOK
  <2>4. [probes[i] EXCEPT !.todo = @ \ {p}, !.found[p] = Verdict(p)]
          \in [todo : SUBSET Extern, found : Verdicts, on : BOOLEAN]
    BY <2>2, <2>3
  <2>5. probes' = [probes EXCEPT ![i] = [probes[i] EXCEPT !.todo = @ \ {p}, !.found[p] = Verdict(p)]]
    BY <1>2, <2>3 DEF ProbeOne, TypeOK
  <2>6. probes' \in [ProbeIds -> [todo : SUBSET Extern, found : Verdicts, on : BOOLEAN]]
    BY <2>4, <2>5 DEF TypeOK
  <2> QED
    BY <1>2, <2>6 DEF ProbeOne, worldVars, rowVars, TypeOK, Plain
<1>3. ASSUME NEW w \in Pool, Take(w)
      PROVE  Plain'
  BY <1>3 DEF Take, rowVars, probeVars, TypeOK, Plain
<1>4. ASSUME NEW w \in Pool, Remove(w)
      PROVE  Plain'
  BY <1>4 DEF Remove, probeVars, TypeOK, Plain
<1>5. ASSUME NEW w \in Pool, RemoveFails(w)
      PROVE  Plain'
  <2>1. busy[w].path \in Paths
    BY <1>5, BusyPath DEF RemoveFails
  <2>2. dir' \in [Paths -> {"gone", "fresh", "idle", "dirty", "broken"}]
    BY <1>5, <2>1, RemnantType DEF RemoveFails, TypeOK
  <2> QED
    BY <1>5, <2>2, EventType DEF RemoveFails, rowVars, probeVars, TypeOK, Plain
<1>6. CASE Start
  BY <1>6, SpawnType DEF Start, worldVars, rowVars, TypeOK, Plain
<1>7. CASE Stop
  <2>1. dir' \in [Paths -> {"gone", "fresh", "idle", "dirty", "broken"}] /\ stood' \in [Paths -> BOOLEAN]
    BY <1>7 DEF Stop, TypeOK
  <2>2. probes' \in [ProbeIds -> [todo : SUBSET Extern, found : Verdicts, on : BOOLEAN]]
    BY <1>7 DEF Stop, NoProbe, NoVerdict, Verdicts
  <2>3. cache' \in Verdicts
    BY <1>7 DEF Stop, NoVerdict, Verdicts
  <2> QED
    BY <1>7, <2>1, <2>2, <2>3, EventType DEF Stop, TypeOK, Plain
<1> QED
  BY <1>1, <1>2, <1>3, <1>4, <1>5, <1>6, <1>7

-----------------------------------------------------------------------------
(* Rows, ids and queues *)

\* What a step does to the rows: nothing, an insertion, the deletion of one
\* path's row, or that of a finished job; and who is no more than stood before.
Rows ==
    \/ /\ row' = row /\ nextId' = nextId
       /\ \A p \in Paths : stood'[p] => stood[p]
    \/ \E p \in Paths : InsertIfNew(p)
    \/ /\ nextId' = nextId
       /\ \E p \in Paths :
            row' = [row EXCEPT ![p] = 0] /\ stood' = [stood EXCEPT ![p] = FALSE]
    \/ nextId' = nextId /\ stood' = stood /\ \E job \in Finished : Delete(job)

LEMMA StepRows ==
  ASSUME TypeOK, Queued, [Next]_vars
  PROVE  Rows
<1>1. ASSUME NEW p \in Paths,
             \/ Create(p) \/ Work(p) \/ Push(p) \/ RemovedOutside(p) \/ Enter(p) \/ Leave(p)
             \/ GoesIdle(p) \/ RowAges(p) \/ Insert(p) \/ Rescan(p) \/ UserDelete(p)
      PROVE  Rows
  <2>1. CASE Create(p) \/ Work(p) \/ Push(p) \/ Enter(p) \/ Leave(p) \/ GoesIdle(p) \/ RowAges(p)
    BY <2>1 DEF Create, Work, Push, Enter, Leave, GoesIdle, RowAges, rowVars, Rows
  <2>2. CASE RemovedOutside(p)
    BY <2>2 DEF RemovedOutside, TypeOK, Rows
  <2>3. CASE Insert(p) \/ Rescan(p)
    BY <2>3 DEF Insert, Rescan, Rows
  <2>4. CASE UserDelete(p)
    BY <2>4 DEF UserDelete, Rows
  <2> QED
    BY <1>1, <2>1, <2>2, <2>3, <2>4
<1>2. ASSUME NEW i \in ProbeIds, ProbeEnds(i) \/ \E p \in Extern : ProbeOne(i, p)
      PROVE  Rows
  BY <1>2 DEF ProbeEnds, ProbeOne, rowVars, Rows
<1>3. ASSUME NEW w \in Pool, Take(w) \/ Remove(w) \/ RemoveFails(w)
      PROVE  Rows
  <2>1. CASE Take(w) \/ RemoveFails(w)
    BY <2>1 DEF Take, RemoveFails, rowVars, Rows
  <2>2. CASE Remove(w)
    BY <2>2 DEF Remove, TypeOK, Rows
  <2> QED
    BY <1>3, <2>1, <2>2
<1>4. CASE Tick \/ UserPurge \/ Start
  BY <1>4 DEF Tick, UserPurge, Start, rowVars, Rows
<1>5. CASE Handle
  <2>1. Head(msgs) \in Msgs(Finished)
    BY <1>5, HeadTailProperties DEF Handle, Queued
  <2>2. CASE Head(msgs).done # Nobody
    <3>1. Head(msgs).done \in Finished
      BY <2>1, <2>2 DEF Msgs
    <3> QED
      BY <1>5, <2>2, <3>1 DEF Handle, Rows
  <2>3. CASE Head(msgs).done = Nobody
    BY <1>5, <2>3 DEF Handle, Rows
  <2> QED
    BY <2>2, <2>3
<1>6. CASE Stop
  BY <1>6 DEF Stop, Rows
<1>7. CASE UNCHANGED vars
  BY <1>7 DEF vars, rowVars, Rows
<1> QED
  BY <1>1, <1>2, <1>3, <1>4, <1>5, <1>6, <1>7 DEF Next

LEMMA RowsSteady ==
  ASSUME TypeOK, Rows
  PROVE  Steady
<1>1. nextId \in Nat
  BY BoundAssumption DEF TypeOK
<1>2. ASSUME NEW p \in Paths, InsertIfNew(p)
      PROVE  Steady
  <2>1. nextId' = nextId + 1
    BY <1>2 DEF InsertIfNew
  <2>2. row'[p] = nextId
    BY <1>2 DEF InsertIfNew, TypeOK
  <2>3. \A q \in Paths \ {p} : row'[q] = row[q] /\ stood'[q] = stood[q]
    BY <1>2 DEF InsertIfNew, TypeOK
  <2> QED
    BY <1>1, <2>1, <2>2, <2>3 DEF Steady
<1>3. ASSUME NEW p \in Paths, nextId' = nextId,
             row' = [row EXCEPT ![p] = 0], stood' = [stood EXCEPT ![p] = FALSE]
      PROVE  Steady
  <2>1. \A q \in Paths \ {p} : row'[q] = row[q] /\ stood'[q] = stood[q]
    BY <1>3 DEF TypeOK
  <2>2. row'[p] = 0
    BY <1>3 DEF TypeOK
  <2> QED
    BY <1>1, <1>3, <2>1, <2>2 DEF Steady
<1>4. ASSUME NEW job \in Finished, nextId' = nextId, stood' = stood, Delete(job)
      PROVE  Steady
  BY <1>1, <1>4 DEF Delete, Steady
<1>5. CASE row' = row /\ nextId' = nextId /\ \A p \in Paths : stood'[p] => stood[p]
  BY <1>1, <1>5 DEF Steady
<1> QED
  BY <1>2, <1>3, <1>4, <1>5 DEF Rows

LEMMA RowsOnce ==
  ASSUME TypeOK, Once, Rows
  PROVE  Once'
<1>1. nextId \in Nat /\ nextId > 0 /\ \A p \in Paths : row[p] \in Nat
  BY BoundAssumption DEF TypeOK
<1>2. ASSUME NEW p \in Paths, InsertIfNew(p)
      PROVE  Once'
  <2>1. nextId' = nextId + 1
    BY <1>2 DEF InsertIfNew
  <2>2. row'[p] = nextId /\ \A q \in Paths \ {p} : row'[q] = row[q]
    BY <1>2 DEF InsertIfNew, TypeOK
  <2>3. \A q \in Paths : row[q] < nextId
    BY DEF Once
  <2>4. \A q \in Paths : row'[q] < nextId'
    BY <1>1, <2>1, <2>2, <2>3
  <2>5. ASSUME NEW q \in Paths, NEW r \in Paths, row'[q] # 0, row'[q] = row'[r]
        PROVE  q = r
    <3>1. CASE q # p /\ r # p
      BY <3>1, <2>2, <2>5 DEF Once
    <3>2. CASE (q = p /\ r # p) \/ (q # p /\ r = p)
      BY <3>2, <1>1, <2>2, <2>3, <2>5
    <3> QED
      BY <3>1, <3>2
  <2> QED
    BY <2>4, <2>5 DEF Once
<1>3. CASE nextId' = nextId /\ \A p \in Paths : row'[p] = row[p] \/ row'[p] = 0
  <2>1. \A p \in Paths : row'[p] < nextId'
    BY <1>1, <1>3 DEF Once, TypeOK
  <2>2. \A p, q \in Paths : (row'[p] # 0 /\ row'[p] = row'[q]) => p = q
    BY <1>3 DEF Once
  <2> QED
    BY <2>1, <2>2 DEF Once
<1>4. ASSUME NEW p \in Paths, nextId' = nextId, row' = [row EXCEPT ![p] = 0]
      PROVE  Once'
  BY <1>3, <1>4 DEF TypeOK
<1>5. ASSUME NEW job \in Finished, nextId' = nextId, Delete(job)
      PROVE  Once'
  BY <1>3, <1>5 DEF Delete
<1>6. CASE row' = row /\ nextId' = nextId
  BY <1>3, <1>6
<1> QED
  BY <1>2, <1>4, <1>5, <1>6 DEF Rows

\* What a step appends to the queues is sound, and finished when completed.
LEMMA StepQueued ==
  ASSUME TypeOK, Once, Queued, Steady, [Next]_vars
  PROVE  Queued'
<1>1. /\ jobs \in Seq(Sound')
      /\ busy \in [Pool -> Sound' \cup {Nobody}]
      /\ msgs \in Seq(Msgs(Finished'))
  BY StillQueued
<1>2. Sound \subseteq Sound'
  BY Grow
<1>3. ASSUME NEW S \in SUBSET Paths, NEW a \in Dispatches(Purgeable(S))
      PROVE  a \in Seq(Sound')
  <2>1. Purgeable(S) \in SUBSET Paths /\ \A p \in Purgeable(S) : row[p] # 0
    BY DEF Purgeable
  <2>2. a \in Seq(Sound)
    BY <2>1, DispatchesSound
  <2> QED
    BY <1>2, <2>2, SeqMonotonic
<1>4. ASSUME NEW v \in Verdicts
      PROVE  Append(msgs, [done |-> Nobody, found |-> v]) \in Seq(Msgs(Finished'))
  <2>1. [done |-> Nobody, found |-> v] \in Msgs(Finished')
    BY DEF Msgs
  <2> QED
    BY <1>1, <2>1
<1>5. NoVerdict \in Verdicts
  BY DEF NoVerdict, Verdicts
<1>6. SpawnProbe => msgs' \in Seq(Msgs(Finished'))
  BY <1>1, <1>4, <1>5 DEF SpawnProbe
<1>7. CASE UNCHANGED <<poolVars, msgs>>
  BY <1>1, <1>7 DEF poolVars, Queued
<1>8. CASE Tick
  <2>1. PICK low \in BOOLEAN :
          LET aged(S) == Purgeable({p \in S : old[p]})
              all == IF low THEN aged(Worktrees \cup Clones) ELSE {}
          IN \E a \in Dispatches(all), b \in Dispatches(aged(Worktrees)),
                c \in Dispatches(Purgeable(Extern)) :
               jobs' = jobs \o a \o b \o c
    BY <1>8 DEF Tick
  <2> DEFINE aged(S) == Purgeable({p \in S : old[p]})
             all == IF low THEN aged(Worktrees \cup Clones) ELSE {}
  <2>2. PICK a \in Dispatches(all), b \in Dispatches(aged(Worktrees)),
             c \in Dispatches(Purgeable(Extern)) : jobs' = jobs \o a \o b \o c
    BY <2>1
  <2>3. a \in Seq(Sound')
    <3>1. CASE low
      <4>1. {p \in Worktrees \cup Clones : old[p]} \in SUBSET Paths
        BY DEF Paths
      <4> QED
        BY <3>1, <4>1, <1>3
    <3>2. CASE ~low
      <4>1. a \in Dispatches({})
        BY <3>2
      <4>2. a \in Seq(Sound)
        BY <4>1, DispatchesSound
      <4> QED
        BY <4>2, <1>2, SeqMonotonic
    <3> QED
      BY <3>1, <3>2
  <2>4. b \in Seq(Sound') /\ c \in Seq(Sound')
    <3>1. {p \in Worktrees : old[p]} \in SUBSET Paths /\ Extern \in SUBSET Paths
      BY DEF Paths
    <3> QED
      BY <3>1, <1>3
  <2>5. jobs \o a \in Seq(Sound')
    BY <1>1, <2>3, ConcatProperties
  <2>6. (jobs \o a) \o b \in Seq(Sound')
    BY <2>5, <2>4, ConcatProperties
  <2>7. jobs' \in Seq(Sound')
    BY <2>2, <2>6, <2>4, ConcatProperties
  <2>8. busy' = busy /\ msgs' \in Seq(Msgs(Finished'))
    BY <1>6, <1>8 DEF Tick
  <2> QED
    BY <1>1, <2>7, <2>8 DEF Queued
<1>9. CASE UserPurge
  <2>1. PICK kind \in {Worktrees, Clones, Extern} :
          \E a \in Dispatches(Purgeable(kind)) : jobs' = jobs \o a
    BY <1>9 DEF UserPurge
  <2>2. kind \in SUBSET Paths
    BY DEF Paths
  <2>3. jobs' \in Seq(Sound')
    BY <1>1, <1>3, <2>1, <2>2, ConcatProperties
  <2> QED
    BY <1>1, <1>9, <2>3 DEF UserPurge, Queued
<1>10. CASE Start
  BY <1>1, <1>6, <1>10 DEF Start, poolVars, Queued
<1>11. CASE Handle
  <2>1. msgs' \in Seq(Msgs(Finished'))
    BY <1>1, <1>11, HeadTailProperties DEF Handle
  <2> QED
    BY <1>1, <1>11, <2>1 DEF Handle, poolVars, Queued
<1>12. ASSUME NEW i \in ProbeIds, ProbeEnds(i)
       PROVE  Queued'
  <2>1. msgs' \in Seq(Msgs(Finished'))
    BY <1>4, <1>12, ProbeType DEF ProbeEnds
  <2> QED
    BY <1>1, <1>12, <2>1 DEF ProbeEnds, poolVars, Queued
<1>13. ASSUME NEW w \in Pool, Take(w)
       PROVE  Queued'
  <2>1. Head(jobs) \in Sound' /\ jobs' \in Seq(Sound')
    BY <1>1, <1>13, HeadTailProperties DEF Take
  <2>2. busy' \in [Pool -> Sound' \cup {Nobody}]
    BY <1>1, <1>13, <2>1 DEF Take
  <2> QED
    BY <1>1, <1>13, <2>1, <2>2 DEF Take, Queued
<1>14. ASSUME NEW w \in Pool, Remove(w)
       PROVE  Queued'
  <2>1. busy[w] \in Sound /\ busy[w] \in Sound' /\ busy[w].path \in Paths
    BY <1>1, <1>14, BusyPath DEF Remove, Queued
  <2>2. busy[w] \in Finished'
    <3>1. \A p \in Paths : row[p] = busy[w].id => ~stood'[p]
      BY <1>14, <2>1 DEF Remove, Sound, TypeOK
    <3> QED
      BY <1>14, <2>1, <3>1 DEF Remove, Finished
  <2>3. [done |-> busy[w], found |-> NoVerdict] \in Msgs(Finished')
    BY <1>5, <2>2 DEF Msgs
  <2>4. msgs' \in Seq(Msgs(Finished'))
    BY <1>1, <1>14, <2>3 DEF Remove
  <2>5. busy' \in [Pool -> Sound' \cup {Nobody}]
    BY <1>1, <1>14 DEF Remove
  <2> QED
    BY <1>1, <1>14, <2>4, <2>5 DEF Remove, Queued
<1>15. ASSUME NEW w \in Pool, RemoveFails(w)
       PROVE  Queued'
  BY <1>1, <1>15 DEF RemoveFails, Queued
<1>16. CASE Stop
  <2>1. jobs' \in Seq(Sound') /\ msgs' \in Seq(Msgs(Finished'))
    BY <1>16 DEF Stop
  <2> QED
    BY <1>16, <2>1 DEF Stop, Queued
<1>17. ASSUME NEW p \in Paths,
              \/ Create(p) \/ Work(p) \/ Push(p) \/ RemovedOutside(p) \/ Enter(p) \/ Leave(p)
              \/ GoesIdle(p) \/ RowAges(p) \/ Insert(p) \/ Rescan(p) \/ UserDelete(p)
       PROVE  Queued'
  BY <1>7, <1>17 DEF Create, Work, Push, RemovedOutside, Enter, Leave, GoesIdle, RowAges, Insert,
                     Rescan, UserDelete
<1>18. ASSUME NEW i \in ProbeIds, NEW p \in Extern, ProbeOne(i, p)
       PROVE  Queued'
  BY <1>7, <1>18 DEF ProbeOne
<1>19. CASE UNCHANGED vars
  BY <1>7, <1>19 DEF vars
<1> QED
  BY <1>8, <1>9, <1>10, <1>11, <1>12, <1>13, <1>14, <1>15, <1>16, <1>17, <1>18, <1>19 DEF Next

-----------------------------------------------------------------------------
(* Removals *)

\* Whoever changes a directory under removal leaves his mark.
LEMMA TouchChecked ==
  ASSUME TypeOK, Checked, NEW p \in Paths, NEW s \in {"gone", "fresh", "idle", "dirty", "broken"},
         Touch(p, s), busy' = busy
  PROVE  Checked'
<1> SUFFICES ASSUME NEW w \in Pool, busy[w] # Nobody, busy[w].path \in Extern,
                    dir'[busy[w].path] = "dirty"
             PROVE  late'[busy[w].path]
  BY DEF Checked
<1>1. busy[w].path \in Paths
  BY BusyPath
<1>2. CASE busy[w].path = p
  <2>1. Removing(p)
    BY <1>2 DEF Removing
  <2> QED
    BY <1>2, <2>1 DEF Touch, TypeOK
<1>3. CASE busy[w].path # p
  BY <1>1, <1>3 DEF Touch, Checked, TypeOK
<1> QED
  BY <1>2, <1>3

LEMMA StepChecked ==
  ASSUME TypeOK, Checked, [Next]_vars
  PROVE  Checked'
<1>1. CASE UNCHANGED <<dir, late, busy>>
  BY <1>1 DEF Checked
<1>2. ASSUME NEW p \in Paths, Create(p) \/ Work(p) \/ Push(p) \/ RemovedOutside(p) \/ UserDelete(p)
      PROVE  Checked'
  <2>1. busy' = busy
    BY <1>2 DEF Create, Work, Push, RemovedOutside, UserDelete, poolVars
  <2>2. \E s \in {"gone", "fresh", "idle", "dirty", "broken"} : Touch(p, s)
    BY <1>2, RemnantType DEF Create, Work, Push, RemovedOutside, UserDelete
  <2> QED
    BY <2>1, <2>2, TouchChecked
<1>3. ASSUME NEW p \in Paths, GoesIdle(p)
      PROVE  Checked'
  <2>1. dir' = [dir EXCEPT ![p] = "idle"] /\ UNCHANGED <<busy, late>>
    BY <1>3 DEF GoesIdle, poolVars
  <2>2. \A q : dir'[q] = "dirty" => dir[q] = "dirty"
    BY <2>1 DEF TypeOK
  <2> QED
    BY <2>1, <2>2 DEF Checked
<1>4. ASSUME NEW p \in Paths, Enter(p) \/ Leave(p) \/ RowAges(p) \/ Insert(p) \/ Rescan(p)
      PROVE  Checked'
  BY <1>1, <1>4 DEF Enter, Leave, RowAges, Insert, Rescan, worldVars, poolVars
<1>5. ASSUME NEW i \in ProbeIds, ProbeEnds(i) \/ \E p \in Extern : ProbeOne(i, p)
      PROVE  Checked'
  BY <1>1, <1>5 DEF ProbeEnds, ProbeOne, worldVars, poolVars
<1>6. ASSUME NEW w \in Pool, Take(w)
      PROVE  Checked'
  <2> DEFINE job == Head(jobs)
  <2>1. CASE Taken(job)
    <3>1. job.path \in Paths
      BY <1>6, HeadJob DEF Take
    <3>2. job.path \in Extern => dir[job.path] # "dirty"
      BY <2>1 DEF Taken, Verdict
    <3>3. \A v \in Pool \ {w} : busy'[v] = busy[v]
      BY <1>6 DEF Take, TypeOK
    <3>4. busy'[w] = job
      BY <1>6, <2>1 DEF Take, TypeOK
    <3>5. \A p \in Paths \ {job.path} : late'[p] = late[p]
      BY <1>6, <2>1 DEF Take, TypeOK
    <3>6. ASSUME NEW v \in Pool, busy'[v] # Nobody, busy'[v].path \in Extern, dir[busy'[v].path] = "dirty"
          PROVE  late'[busy'[v].path]
      <4>1. busy'[v].path # job.path
        BY <3>2, <3>6
      <4>2. v # w /\ busy'[v] = busy[v]
        BY <3>3, <3>4, <4>1
      <4>3. busy'[v].path \in Paths \ {job.path}
        BY <4>1, <4>2, <3>6, BusyPath
      <4> QED
        BY <3>5, <3>6, <4>2, <4>3 DEF Checked
    <3> QED
      BY <1>6, <3>6 DEF Take, Checked
  <2>2. CASE ~Taken(job)
    BY <1>6, <2>2 DEF Take, TypeOK, Checked
  <2> QED
    BY <2>1, <2>2
<1>7. ASSUME NEW w \in Pool, Remove(w)
      PROVE  Checked'
  BY <1>7 DEF Remove, TypeOK, Checked
<1>8. ASSUME NEW w \in Pool, RemoveFails(w)
      PROVE  Checked'
  <2>1. busy[w].path \in Paths
    BY <1>8, BusyPath DEF RemoveFails
  <2>2. late' = late /\ \A p \in Paths : dir'[p] = dir[p] \/ dir'[p] # "dirty"
    BY <1>8, <2>1 DEF RemoveFails, Remnants, TypeOK
  <2>3. ASSUME NEW v \in Pool, busy'[v] # Nobody
        PROVE  busy'[v] = busy[v] /\ busy[v].path \in Paths
    <3>1. busy'[v] = busy[v]
      BY <1>8, <2>3 DEF RemoveFails, TypeOK
    <3> QED
      BY <3>1, <2>3, BusyPath
  <2> QED
    BY <2>2, <2>3 DEF Checked
<1>9. CASE Tick \/ UserPurge \/ Handle \/ Start
  BY <1>1, <1>9 DEF Tick, UserPurge, Handle, Start, worldVars, poolVars
<1>10. CASE Stop
  BY <1>10 DEF Stop, Checked
<1>11. CASE UNCHANGED vars
  BY <1>1, <1>11 DEF vars, worldVars, poolVars
<1> QED
  BY <1>2, <1>3, <1>4, <1>5, <1>6, <1>7, <1>8, <1>9, <1>10, <1>11 DEF Next

-----------------------------------------------------------------------------
(* The invariant, and what follows from it *)

LEMMA InitInv == Init => IInv
<1> SUFFICES ASSUME Init
             PROVE  IInv
  OBVIOUS
<1>1. Plain
  <2>1. NoVerdict \in Verdicts
    BY DEF NoVerdict, Verdicts
  <2>2. NoProbe \in [todo : SUBSET Extern, found : Verdicts, on : BOOLEAN]
    BY <2>1 DEF NoProbe
  <2>3. probes \in [ProbeIds -> [todo : SUBSET Extern, found : Verdicts, on : BOOLEAN]]
    BY <2>2 DEF Init
  <2>4. nextId \in 1..(MaxId + 1) /\ events \in 0..MaxEvents /\ row \in [Paths -> 0..MaxId]
    BY BoundAssumption DEF Init
  <2>5. dir \in [Paths -> {"gone", "fresh", "idle", "dirty", "broken"}]
    BY DEF Init
  <2> QED
    BY <2>1, <2>3, <2>4, <2>5 DEF Init, Plain
<1>2. Queued
  <2>1. jobs \in Seq(Sound) /\ msgs \in Seq(Msgs(Finished))
    BY DEF Init
  <2> QED
    BY <2>1 DEF Init, Queued
<1>3. Once
  BY DEF Init, Once
<1>4. Checked
  BY DEF Init, Checked
<1> QED
  BY <1>1, <1>2, <1>3, <1>4, PlainType DEF IInv

LEMMA StepInv == IInv /\ [Next]_vars => IInv'
<1> SUFFICES ASSUME IInv, [Next]_vars
             PROVE  IInv'
  OBVIOUS
<1>1. TypeOK /\ Checked /\ Once /\ Queued
  BY DEF IInv
<1>2. Rows
  BY <1>1, StepRows
<1>3. Steady
  BY <1>1, <1>2, RowsSteady
<1>4. Once' /\ Queued' /\ Checked'
  BY <1>1, <1>2, <1>3, RowsOnce, StepQueued, StepChecked
<1>5. Plain'
  <2>1. CASE UNCHANGED vars
    BY <1>1, <2>1 DEF vars, worldVars, rowVars, probeVars, TypeOK, Plain
  <2>2. CASE Next
    BY <1>1, <2>2, WorldPlain, WorkerPlain, ThreadPlain DEF Next
  <2> QED
    BY <2>1, <2>2
<1>6. (Plain /\ Queued => TypeOK)'
  BY PlainType, PTL
<1> QED
  BY <1>4, <1>5, <1>6 DEF IInv

\* The types of garbage collection hold in every behaviour, through failed
\* removals and stops of the daemon.
THEOREM TypeCorrect == Spec => []TypeOK
<1>1. IInv => TypeOK
  BY DEF IInv
<1> QED
  BY <1>1, InitInv, StepInv, PTL DEF Spec

\* purge_pool_worker: whatever the age of the verdict that sent it a
\* repository, the pool removes no local work there was when it last checked.
THEOREM LocalWorkIsKept == Spec => WorkIsKept
<1>1. IInv => [\A w \in Pool : Remove(w) =>
                 LET p == busy[w].path IN (p \in Extern /\ dir[p] = "dirty") => late[p]]_vars
  BY DEF IInv, Checked, Remove
<1> QED
  BY <1>1, InitInv, StepInv, PTL DEF Spec, WorkIsKept

\* apply_purge_completion: late or repeated, a completion drops no row of a
\* directory that has stood since the row was inserted.
THEOREM RowsAreKept == Spec => StandingRowKept
<1>1. IInv /\ [Next]_vars => [\A p \in Paths :
          (stood[p] /\ row[p] # 0) => (row'[p] = row[p] \/ ~stood'[p])]_vars
  <2> SUFFICES ASSUME IInv, [Next]_vars, NEW p \in Paths, stood[p], row[p] # 0
               PROVE  row'[p] = row[p] \/ ~stood'[p]
    OBVIOUS
  <2>1. Rows
    BY StepRows DEF IInv
  <2>2. ASSUME NEW q \in Paths, InsertIfNew(q)
        PROVE  row'[p] = row[p]
    BY <2>2 DEF InsertIfNew, IInv, TypeOK
  <2>3. ASSUME NEW q \in Paths, row' = [row EXCEPT ![q] = 0], stood' = [stood EXCEPT ![q] = FALSE]
        PROVE  row'[p] = row[p] \/ ~stood'[p]
    BY <2>3 DEF IInv, TypeOK
  <2>4. ASSUME NEW job \in Finished, Delete(job)
        PROVE  row'[p] = row[p]
    BY <2>4 DEF Delete, Finished
  <2> QED
    BY <2>1, <2>2, <2>3, <2>4 DEF Rows
<1> QED
  BY <1>1, InitInv, StepInv, PTL DEF Spec, StandingRowKept
=============================================================================
