----------------------- MODULE UnifiedGateway_proofs -----------------------
(***************************************************************************)
(* Proofs about the gateway, for any number of requests and routes, any    *)
(* ladder, any consent and any worker limit.                               *)
(***************************************************************************)
EXTENDS UnifiedGateway, FiniteSetTheorems, TLAPS

\* A non-empty set of rungs has a first one: the intervals below its members
\* are finite sets, so one of them has no other inside it.
LEMMA LeastExists ==
  ASSUME NEW n \in Nat, NEW S \in SUBSET (1..n), S # {}
  PROVE  Least(S) \in S
<1> DEFINE below == {1..i : i \in S}
<1>1. below \subseteq SUBSET (1..n) /\ below # {}
  <2>1. \A i \in S : 1..i \in SUBSET (1..n)
    OBVIOUS
  <2> QED
    BY <2>1
<1>2. IsFiniteSet(1..n)
  BY FS_Interval
<1>3. IsWellFoundedOn(StrictSubsetOrdering(1..n), FiniteSubsetsOf(1..n))
  BY <1>2, FS_StrictSubsetOrderingWellFounded
<1>4. \A A \in SUBSET (1..n) : IsFiniteSet(A)
  BY <1>2, FS_Subset
<1>5. \E x \in below : \A y \in below : <<y, x>> \notin StrictSubsetOrdering(1..n)
  <2>1. below \subseteq FiniteSubsetsOf(1..n)
    BY <1>1, <1>4 DEF FiniteSubsetsOf
  <2> HIDE DEF below
  <2> QED
    BY <1>1, <1>3, <2>1, WFMin
<1>6. PICK i \in S : \A j \in S : <<1..j, 1..i>> \notin StrictSubsetOrdering(1..n)
  BY <1>5
<1>7. ASSUME NEW j \in S PROVE i <= j
  <2> SUFFICES ASSUME j < i PROVE FALSE
    OBVIOUS
  <2>1. 1..j \subseteq 1..i /\ 1..j # 1..i
    <3>1. i \in 1..i /\ i \notin 1..j
      OBVIOUS
    <3> QED
      BY <3>1
  <2>2. 1..j \in SUBSET (1..n) /\ 1..i \in SUBSET (1..n)
    OBVIOUS
  <2>3. <<1..j, 1..i>> \in StrictSubsetOrdering(1..n)
    <3> DEFINE A == 1..j
               B == 1..i
    <3>1. A \in SUBSET (1..n) /\ B \in SUBSET (1..n) /\ A \subseteq B /\ A # B
      BY <2>1, <2>2
    <3> HIDE DEF A, B
    <3>2. <<A, B>> \in StrictSubsetOrdering(1..n)
      BY <3>1 DEF StrictSubsetOrdering
    <3> QED
      BY <3>2 DEF A, B
  <2> QED
    BY <1>6, <2>3
<1> QED
  BY <1>7 DEF Least

\* A record of the ledger is replaced by another one.
LEMMA Replaced ==
  ASSUME NEW D, NEW R, NEW f \in [D -> R], NEW x, NEW e, x \in D => e \in R
  PROVE  [f EXCEPT ![x] = e] \in [D -> R]
OBVIOUS

\* What a verdict leaves in the ledger.
LEMMA RecordType ==
  ASSUME ledger \in [Routes -> [down : BOOLEAN, cooling : BOOLEAN]], NEW x, NEW v
  PROVE  Record(x, v) \in [Routes -> [down : BOOLEAN, cooling : BOOLEAN]]
<1> DEFINE L == [down : BOOLEAN, cooling : BOOLEAN]
           hot == [ledger[x] EXCEPT !.cooling = TRUE]
           off == [ledger[x] EXCEPT !.down = TRUE]
<1>1. x \in Routes => ledger[x] \in L
  OBVIOUS
<1>2. x \in Routes => hot \in L /\ off \in L
  BY <1>1
<1>3. Record(x, v) = [ledger EXCEPT ![x] = hot] \/ Record(x, v) = [ledger EXCEPT ![x] = off]
  BY DEF Record
<1>4. ledger \in [Routes -> L]
  OBVIOUS
<1> HIDE DEF L, hot, off
<1>5. /\ [ledger EXCEPT ![x] = hot] \in [Routes -> L]
      /\ [ledger EXCEPT ![x] = off] \in [Routes -> L]
  BY <1>2, <1>4, Replaced
<1>6. Record(x, v) \in [Routes -> L]
  BY <1>3, <1>5
<1> QED
  BY <1>6 DEF L

\* A descent lands on a rung of the ladder that consent covers and the ledger
\* allows, or nowhere.
LEMMA NextRungUsable ==
  ASSUME NEW s, NextRung(s) # None
  PROVE  /\ NextRung(s) \in Specs
         /\ AllowMetered \/ RouteOf[NextRung(s)] \notin Metered
         /\ Available(RouteOf[NextRung(s)])
<1> DEFINE usable == {i \in DOMAIN Ladder :
                         /\ i >= Below(s)
                         /\ AllowMetered \/ RouteOf[Ladder[i]] \notin Metered
                         /\ Available(RouteOf[Ladder[i]])}
<1>1. usable # {} /\ NextRung(s) = Ladder[Least(usable)]
  BY DEF NextRung
<1>2. Len(Ladder) \in Nat /\ usable \in SUBSET (1..Len(Ladder))
  BY GatewayAssumption
<1>3. Least(usable) \in usable
  BY <1>1, <1>2, LeastExists
<1> HIDE DEF usable
<1>4. PICK i \in usable : NextRung(s) = Ladder[i]
  BY <1>1, <1>3
<1> QED
  BY <1>4 DEF usable, Specs

-----------------------------------------------------------------------------
(* The inductive invariant *)

Unanswered == {"away", "queued", "accepted", "read", "choose", "enter",
               "upstream", "declined", "descend", "dropped"}

\* The connection in hand is an accepted one; what a worker serves is in the
\* map that shutdown walks.
Tracked ==
    /\ loop \in {"register", "spawn"} => cur \in Requests /\ wpc[cur] = "accepted"
    /\ loop = "spawn" => cur \in registered
    /\ \A r \in Requests : wpc[r] \in Serving \cup {"leave"} => r \in registered

\* What was written to a client, by where its request is.
HeadsByPlace ==
    \A r \in Requests :
        /\ heads[r] \in {0, 1}
        /\ wpc[r] \in Unanswered => heads[r] = 0
        /\ wpc[r] = "committed" => heads[r] = 1
        /\ wpc[r] \in Leaving \cup {"done"} => heads[r] = 1 \/ r \in closed

\* Every rung a request is on was paid for by consent.
RungsConsented ==
    \A r \in Requests :
        attempt[r] # None => AllowMetered \/ RouteOf[attempt[r]] \notin Metered

IInv == TypeOK /\ SlotsExact /\ ClosedAtShutdown /\ Tracked /\ HeadsByPlace /\ RungsConsented

-----------------------------------------------------------------------------
\* A request that holds a slot is counted.
LEMMA HolderCounted ==
  ASSUME TypeOK, SlotsExact, NEW r \in SlotHolders
  PROVE  active >= 1
<1>1. IsFiniteSet(SlotHolders) /\ SlotHolders # {}
  BY GatewayAssumption, FS_Subset DEF SlotHolders
<1>2. Cardinality(SlotHolders) # 0 /\ Cardinality(SlotHolders) \in Nat
  BY <1>1, FS_EmptySet, FS_CardinalityType
<1> QED
  BY <1>2 DEF SlotsExact

\* Where a request goes, and what is written to it.
LEMMA GotoType ==
  ASSUME TypeOK, NEW r \in Requests, NEW pc \in Places, Goto(r, pc)
  PROVE  wpc' \in [Requests -> Places]
BY DEF TypeOK, Goto

LEMMA HeadType ==
  ASSUME TypeOK, NEW r \in Requests, Head200(r)
  PROVE  heads' \in [Requests -> Nat]
BY DEF TypeOK, Head200

\* Every step keeps the types; the counter goes down only from a holder.
LEMMA TypeStep == IInv /\ [Next]_vars => TypeOK'
<1> SUFFICES ASSUME IInv, [Next]_vars PROVE TypeOK'
  OBVIOUS
<1> USE GatewayAssumption DEF IInv, server, serving
<1>p. {"away", "queued", "accepted", "refused", "dropped", "done", "uncount", "read",
       "choose", "enter", "upstream", "committed", "declined", "descend", "leave"} = Places
  BY DEF Places, Serving, Leaving, Ended
<1>1. CASE Loop
  <2>1. CASE LoopTop \/ NothingPending \/ Register \/ Joined
    BY <2>1 DEF TypeOK, LoopTop, NothingPending, Register, Joined, Tracked
  <2>2. CASE SpawnWorker
    <3>1. wpc' \in [Requests -> Places]
      BY <2>2, <1>p, GotoType DEF SpawnWorker, Tracked
    <3> QED
      BY <2>2, <3>1 DEF TypeOK, SpawnWorker
  <2>3. CASE SpawnFails
    <3>1. wpc' \in [Requests -> Places]
      BY <2>3, <1>p, GotoType DEF SpawnFails, Tracked
    <3>2. cur \in SlotHolders
      BY <2>3 DEF SpawnFails, Tracked, SlotHolders
    <3>3. active >= 1
      BY <3>2, HolderCounted
    <3> QED
      BY <2>3, <3>1, <3>3 DEF TypeOK, SpawnFails
  <2>4. CASE LoopEnds
    <3>1. wpc' \in [Requests -> Places]
      BY <2>4, <1>p DEF TypeOK, LoopEnds
    <3> QED
      BY <2>4, <3>1 DEF TypeOK, LoopEnds
  <2>5. ASSUME NEW r \in Requests, Accept(r) PROVE TypeOK'
    <3>1. wpc' \in [Requests -> Places]
      BY <2>5, <1>p, GotoType DEF Accept
    <3>2. heads' \in [Requests -> Nat]
      BY <2>5, HeadType DEF Accept, TypeOK
    <3> QED
      BY <2>5, <3>1, <3>2 DEF TypeOK, Accept
  <2>6. ASSUME NEW r \in Requests, AcceptDrops(r) PROVE TypeOK'
    <3>1. wpc' \in [Requests -> Places]
      BY <2>6, <1>p, GotoType DEF AcceptDrops
    <3> QED
      BY <2>6, <3>1 DEF TypeOK, AcceptDrops
  <2> QED
    BY <1>1, <2>1, <2>2, <2>3, <2>4, <2>5, <2>6 DEF Loop
<1>2. CASE Shutdown
  BY <1>2 DEF TypeOK, Shutdown
<1>3. ASSUME NEW r \in Requests, Arrive(r) PROVE TypeOK'
  <2>1. wpc' \in [Requests -> Places]
    BY <1>3, <1>p, GotoType DEF Arrive
  <2> QED
    BY <1>3, <2>1 DEF TypeOK, Arrive
<1>4. ASSUME NEW r \in Requests, Worker(r) PROVE TypeOK'
  <2>1. wpc' \in [Requests -> Places]
    BY <1>4, <1>p, GotoType DEF Worker, Read, Choose, Enter, EnterRefused, Decline, Commit,
       NoteSuccess, NoteVerdict, Descend, Unregister, Uncount
  <2>2. heads' \in [Requests -> Nat]
    <3>1. Head200(r) \/ UNCHANGED heads
      BY <1>4 DEF Worker, Read, Choose, Enter, EnterRefused, Decline, Commit,
         NoteSuccess, NoteVerdict, Descend, Unregister, Uncount
    <3> QED
      BY <3>1, HeadType DEF TypeOK
  <2>3. holder' \in [Conversations -> Requests \cup {None, Absent}]
    <3>1. CASE Enter(r)
      BY <3>1 DEF TypeOK, Enter
    <3>2. CASE ~Enter(r)
      BY <1>4, <3>2 DEF TypeOK, Worker, Read, Choose, EnterRefused, Decline, Commit, Release,
         NoteSuccess, NoteVerdict, Descend, Unregister, Uncount
    <3> QED
      BY <3>1, <3>2
  <2>4. attempt' \in [Requests -> Specs \cup {None}]
    <3>1. CASE Descend(r)
      <4> DEFINE rung == NextRung(attempt[r])
      <4>1. rung # None => rung \in Specs
        BY NextRungUsable
      <4>2. \/ rung # None /\ attempt' = [attempt EXCEPT ![r] = rung]
            \/ UNCHANGED attempt
        BY <3>1 DEF Descend
      <4> HIDE DEF rung
      <4> QED
        BY <4>1, <4>2 DEF TypeOK
    <3>2. CASE ~Descend(r)
      BY <1>4, <3>2 DEF TypeOK, Worker, Read, Choose, Enter, EnterRefused, Decline, Commit,
         NoteSuccess, NoteVerdict, Unregister, Uncount
    <3> QED
      BY <3>1, <3>2
  <2>5. /\ mode' \in [Requests -> {"plain", "probe", "final"}]
        /\ verdict' \in [Requests -> FailsOver \cup {"none"}]
    <3>1. CASE Choose(r) \/ Descend(r)
      BY <3>1 DEF TypeOK, Choose, Descend
    <3>2. ASSUME NEW a \in Answers, Decline(r, a)
          PROVE  /\ mode' \in [Requests -> {"plain", "probe", "final"}]
                 /\ verdict' \in [Requests -> FailsOver \cup {"none"}]
      BY <3>2 DEF TypeOK, Decline
    <3>3. CASE UNCHANGED <<mode, verdict>>
      BY <3>3 DEF TypeOK
    <3>4. UNCHANGED <<mode, verdict>> \/ Choose(r) \/ Descend(r)
            \/ \E a \in Answers : Decline(r, a)
      BY <1>4 DEF Worker, Read, Enter, EnterRefused, Commit, NoteSuccess, NoteVerdict, Unregister, Uncount
    <3> QED
      BY <3>1, <3>2, <3>3, <3>4
  <2>6. ledger' \in [Routes -> [down : BOOLEAN, cooling : BOOLEAN]]
    <3>1. CASE NoteSuccess(r)
      BY <3>1 DEF TypeOK, NoteSuccess, RecordSuccess, Healthy
    <3>2. CASE NoteVerdict(r)
      BY <3>2, RecordType DEF TypeOK, NoteVerdict
    <3>3. CASE ~NoteSuccess(r) /\ ~NoteVerdict(r)
      BY <1>4, <3>3 DEF TypeOK, Worker, Read, Choose, Enter, EnterRefused, Decline, Commit,
         Descend, Unregister, Uncount
    <3> QED
      BY <3>1, <3>2, <3>3
  <2>7. active' \in 0..Limit
    <3>1. CASE Uncount(r)
      <4>1. r \in SlotHolders
        BY <3>1 DEF Uncount, SlotHolders, Leaving
      <4>2. active >= 1
        BY <4>1, HolderCounted
      <4> QED
        BY <3>1, <4>2 DEF TypeOK, Uncount
    <3>2. CASE ~Uncount(r)
      BY <1>4, <3>2 DEF TypeOK, Worker, Read, Choose, Enter, EnterRefused, Decline, Commit,
         NoteSuccess, NoteVerdict, Descend, Unregister
    <3> QED
      BY <3>1, <3>2
  <2>8. /\ UNCHANGED <<loop, cur, closed, shutdown>>
        /\ registered' = registered \/ registered' = registered \ {r}
    BY <1>4 DEF Worker, Read, Choose, Enter, EnterRefused, Decline, Commit,
       NoteSuccess, NoteVerdict, Descend, Unregister, Uncount
  <2> QED
    BY <2>1, <2>2, <2>3, <2>4, <2>5, <2>6, <2>7, <2>8 DEF TypeOK
<1>5. ASSUME NEW x \in Routes, CooldownEnds(x) PROVE TypeOK'
  BY <1>5 DEF TypeOK, CooldownEnds
<1>6. CASE UNCHANGED vars
  BY <1>6 DEF TypeOK, vars
<1> QED
  BY <1>1, <1>2, <1>3, <1>4, <1>5, <1>6 DEF Next

\* Who holds a slot changes with the counter.
LEMMA SlotsStep == IInv /\ [Next]_vars => SlotsExact'
<1> SUFFICES ASSUME IInv, [Next]_vars PROVE SlotsExact'
  OBVIOUS
<1> USE DEF IInv, server, serving, Goto
<1>f. IsFiniteSet(SlotHolders)
  BY GatewayAssumption, FS_Subset DEF SlotHolders
<1>a. active \in Nat
  BY GatewayAssumption DEF TypeOK
<1>s. ASSUME SlotHolders' = SlotHolders, active' = active PROVE SlotsExact'
  BY <1>s DEF SlotsExact
<1>p. ASSUME NEW r \in Requests, r \notin SlotHolders,
             SlotHolders' = SlotHolders \cup {r}, active' = active + 1
      PROVE  SlotsExact'
  BY <1>f, <1>p, FS_AddElement DEF SlotsExact
<1>m. ASSUME NEW r \in Requests, r \in SlotHolders,
             SlotHolders' = SlotHolders \ {r}, active' = active - 1
      PROVE  SlotsExact'
  BY <1>f, <1>m, FS_RemoveElement DEF SlotsExact
<1> USE DEF SlotHolders, Serving, Leaving, Ended
<1>1. CASE Loop
  <2>1. CASE LoopTop \/ NothingPending \/ Register \/ Joined
    BY <2>1, <1>s DEF LoopTop, NothingPending, Register, Joined
  <2>2. CASE SpawnWorker
    <3>1. wpc' = [wpc EXCEPT ![cur] = "read"] /\ wpc[cur] = "accepted" /\ active' = active
      BY <2>2 DEF SpawnWorker, Tracked
    <3>2. SlotHolders' = SlotHolders
      BY <3>1 DEF TypeOK
    <3> QED
      BY <3>1, <3>2, <1>s
  <2>3. CASE SpawnFails
    <3>1. /\ wpc' = [wpc EXCEPT ![cur] = "dropped"] /\ wpc[cur] = "accepted" /\ cur \in Requests
          /\ active' = active - 1
      BY <2>3 DEF SpawnFails, Tracked
    <3>2. SlotHolders' = SlotHolders \ {cur} /\ cur \in SlotHolders
      BY <3>1 DEF TypeOK
    <3> QED
      BY <3>1, <3>2, <1>m
  <2>4. CASE LoopEnds
    <3>1. SlotHolders' = SlotHolders
      BY <2>4 DEF LoopEnds, TypeOK
    <3> QED
      BY <2>4, <3>1, <1>s DEF LoopEnds
  <2>5. ASSUME NEW r \in Requests, Accept(r) PROVE SlotsExact'
    <3>1. CASE active < Limit
      <4>1. /\ wpc' = [wpc EXCEPT ![r] = "accepted"] /\ wpc[r] = "queued"
            /\ active' = active + 1
        BY <2>5, <3>1, <1>a, GatewayAssumption DEF Accept
      <4>2. SlotHolders' = SlotHolders \cup {r} /\ r \notin SlotHolders
        BY <4>1 DEF TypeOK
      <4> QED
        BY <4>1, <4>2, <1>p
    <3>2. CASE ~(active < Limit)
      <4>1. wpc' = [wpc EXCEPT ![r] = "refused"] /\ wpc[r] = "queued" /\ active' = active
        BY <2>5, <3>2 DEF Accept
      <4>2. SlotHolders' = SlotHolders
        BY <4>1 DEF TypeOK
      <4> QED
        BY <4>1, <4>2, <1>s
    <3> QED
      BY <3>1, <3>2
  <2>6. ASSUME NEW r \in Requests, AcceptDrops(r) PROVE SlotsExact'
    <3>1. wpc' = [wpc EXCEPT ![r] = "dropped"] /\ wpc[r] = "queued" /\ active' = active
      BY <2>6 DEF AcceptDrops
    <3>2. SlotHolders' = SlotHolders
      BY <3>1 DEF TypeOK
    <3> QED
      BY <3>1, <3>2, <1>s
  <2> QED
    BY <1>1, <2>1, <2>2, <2>3, <2>4, <2>5, <2>6 DEF Loop
<1>2. CASE Shutdown
  BY <1>2, <1>s DEF Shutdown
<1>3. ASSUME NEW r \in Requests, Arrive(r) PROVE SlotsExact'
  <2>1. wpc' = [wpc EXCEPT ![r] = "queued"] /\ wpc[r] = "away" /\ active' = active
    BY <1>3 DEF Arrive
  <2>2. SlotHolders' = SlotHolders
    BY <2>1 DEF TypeOK
  <2> QED
    BY <2>1, <2>2, <1>s
<1>4. ASSUME NEW r \in Requests, Worker(r) PROVE SlotsExact'
  <2>1. CASE Uncount(r)
    <3>1. wpc' = [wpc EXCEPT ![r] = "done"] /\ wpc[r] = "uncount" /\ active' = active - 1
      BY <2>1 DEF Uncount
    <3>2. SlotHolders' = SlotHolders \ {r} /\ r \in SlotHolders
      BY <3>1 DEF TypeOK
    <3> QED
      BY <3>1, <3>2, <1>m
  <2>2. CASE ~Uncount(r)
    <3>1. /\ wpc[r] \in Serving \cup {"leave"} /\ active' = active
          /\ \E pc \in Serving \cup Leaving : wpc' = [wpc EXCEPT ![r] = pc]
      BY <1>4, <2>2 DEF Worker, Read, Choose, Enter, EnterRefused, Decline, Commit,
         NoteSuccess, NoteVerdict, Descend, Unregister
    <3>2. SlotHolders' = SlotHolders
      BY <3>1 DEF TypeOK
    <3> QED
      BY <3>1, <3>2, <1>s
  <2> QED
    BY <2>1, <2>2
<1>5. ASSUME NEW x \in Routes, CooldownEnds(x) PROVE SlotsExact'
  BY <1>5, <1>s DEF CooldownEnds
<1>6. CASE UNCHANGED vars
  BY <1>6, <1>s DEF vars
<1> QED
  BY <1>1, <1>2, <1>3, <1>4, <1>5, <1>6 DEF Next

\* What a step of a worker does to the place of its request.
LEMMA WorkerMoves ==
  ASSUME TypeOK, NEW r \in Requests, Worker(r)
  PROVE  /\ wpc[r] \in Serving \cup Leaving
         /\ \A q \in Requests \ {r} : wpc'[q] = wpc[q] /\ heads'[q] = heads[q]
         /\ UNCHANGED <<loop, cur, closed, shutdown>>
         /\ \/ registered' = registered /\ wpc[r] # "leave"
            \/ registered' = registered \ {r} /\ wpc[r] = "leave" /\ wpc'[r] = "uncount"
BY DEF TypeOK, Serving, Leaving, Worker, Read, Choose, Enter, EnterRefused, Decline, Commit,
   NoteSuccess, NoteVerdict, Descend, Unregister, Uncount, Goto, Head200, server, serving

\* The map follows the places of the requests.
LEMMA TrackedStep == IInv /\ [Next]_vars => Tracked'
<1> SUFFICES ASSUME IInv, [Next]_vars PROVE Tracked'
  OBVIOUS
<1> USE DEF IInv, server, serving, Goto, Tracked
<1>1. CASE Loop
  <2>1. CASE LoopTop \/ NothingPending \/ Register \/ Joined
    BY <2>1 DEF LoopTop, NothingPending, Register, Joined
  <2>2. CASE SpawnWorker
    BY <2>2 DEF TypeOK, SpawnWorker
  <2>3. CASE SpawnFails
    BY <2>3 DEF TypeOK, SpawnFails, Serving
  <2>4. CASE LoopEnds
    BY <2>4 DEF TypeOK, LoopEnds, Serving
  <2>5. ASSUME NEW r \in Requests, Accept(r) \/ AcceptDrops(r) PROVE Tracked'
    BY <2>5 DEF TypeOK, Accept, AcceptDrops, Serving
  <2> QED
    BY <1>1, <2>1, <2>2, <2>3, <2>4, <2>5 DEF Loop
<1>2. CASE Shutdown
  BY <1>2 DEF Shutdown
<1>3. ASSUME NEW r \in Requests, Arrive(r) PROVE Tracked'
  BY <1>3 DEF TypeOK, Arrive, Serving
<1>4. ASSUME NEW r \in Requests, Worker(r) PROVE Tracked'
  <2>1. wpc[r] # "uncount" => r \in registered
    BY <1>4, WorkerMoves DEF Leaving
  <2>2. wpc[r] = "uncount" => wpc'[r] = "done"
    BY <1>4 DEF TypeOK, Worker, Read, Choose, Enter, EnterRefused, Decline, Commit,
       NoteSuccess, NoteVerdict, Descend, Unregister, Uncount
  <2> QED
    BY <1>4, <2>1, <2>2, WorkerMoves DEF Serving, Leaving
<1>5. ASSUME NEW x \in Routes, CooldownEnds(x) PROVE Tracked'
  BY <1>5 DEF CooldownEnds
<1>6. CASE UNCHANGED vars
  BY <1>6 DEF vars
<1> QED
  BY <1>1, <1>2, <1>3, <1>4, <1>5, <1>6 DEF Next

\* No connection escapes shutdown.
LEMMA ClosedStep == IInv /\ [Next]_vars => ClosedAtShutdown' /\ closed \subseteq closed'
<1> SUFFICES ASSUME IInv, [Next]_vars PROVE ClosedAtShutdown' /\ closed \subseteq closed'
  OBVIOUS
<1> USE DEF IInv, server, serving, ClosedAtShutdown
<1>1. CASE Loop
  BY <1>1 DEF Loop, LoopTop, NothingPending, Register, SpawnWorker, SpawnFails, LoopEnds, Joined,
     Accept, AcceptDrops
<1>2. CASE Shutdown
  BY <1>2 DEF Shutdown
<1>3. ASSUME NEW r \in Requests, Arrive(r) PROVE ClosedAtShutdown' /\ closed \subseteq closed'
  BY <1>3 DEF Arrive
<1>4. ASSUME NEW r \in Requests, Worker(r) PROVE ClosedAtShutdown' /\ closed \subseteq closed'
  BY <1>4, WorkerMoves
<1>5. ASSUME NEW x \in Routes, CooldownEnds(x) PROVE ClosedAtShutdown' /\ closed \subseteq closed'
  BY <1>5 DEF CooldownEnds
<1>6. CASE UNCHANGED vars
  BY <1>6 DEF vars
<1> QED
  BY <1>1, <1>2, <1>3, <1>4, <1>5, <1>6 DEF Next

\* A response head is written once, by the step that settles the request.
LEMMA HeadsStep == IInv /\ [Next]_vars => HeadsByPlace'
<1> SUFFICES ASSUME IInv, [Next]_vars PROVE HeadsByPlace'
  OBVIOUS
<1> USE DEF IInv, server, serving, HeadsByPlace, Unanswered, Leaving
<1>c. closed \subseteq closed'
  BY ClosedStep
<1>1. CASE Loop
  <2>1. CASE LoopTop \/ NothingPending \/ Register \/ Joined
    BY <2>1, <1>c DEF LoopTop, NothingPending, Register, Joined
  <2>2. CASE SpawnWorker \/ SpawnFails
    BY <2>2 DEF TypeOK, Tracked, SpawnWorker, SpawnFails, Goto
  <2>4. CASE LoopEnds
    BY <2>4 DEF TypeOK, LoopEnds
  <2>5. ASSUME NEW r \in Requests, Accept(r) \/ AcceptDrops(r) PROVE HeadsByPlace'
    BY <2>5 DEF TypeOK, Accept, AcceptDrops, Goto, Head200
  <2> QED
    BY <1>1, <2>1, <2>2, <2>4, <2>5 DEF Loop
<1>2. CASE Shutdown
  BY <1>2, <1>c DEF Shutdown
<1>3. ASSUME NEW r \in Requests, Arrive(r) PROVE HeadsByPlace'
  BY <1>3 DEF TypeOK, Arrive, Goto
<1>4. ASSUME NEW r \in Requests, Worker(r) PROVE HeadsByPlace'
  <2> DEFINE Right(h, pc) == /\ h \in {0, 1}
                             /\ pc \in Unanswered => h = 0
                             /\ pc = "committed" => h = 1
                             /\ pc \in Leaving \cup {"done"} => h = 1 \/ r \in closed'
  <2>0. Right(heads[r], wpc[r]) /\ wpc'[r] \in Places
    BY <1>c, <1>4, TypeStep DEF TypeOK
  <2>1. CASE Read(r)
    <3>1. shutdown => r \in closed'
      BY <2>1, <1>c DEF Tracked, ClosedAtShutdown, Read, Serving
    <3> QED
      BY <1>4, <2>0, <2>1, <3>1, WorkerMoves DEF TypeOK, Read, Goto, Head200
  <2>2. CASE Choose(r) \/ Enter(r) \/ NoteVerdict(r) \/ Descend(r) \/ Unregister(r) \/ Uncount(r)
             \/ NoteSuccess(r)
    BY <1>4, <2>0, <2>2, WorkerMoves DEF TypeOK, Choose, Enter, NoteVerdict, Descend, Unregister,
       Uncount, NoteSuccess, Goto
  <2>3. CASE EnterRefused(r)
    BY <1>4, <2>0, <2>3, WorkerMoves DEF TypeOK, EnterRefused, Goto, Head200
  <2>4. ASSUME NEW a \in Answers, Decline(r, a) \/ Commit(r, a) PROVE HeadsByPlace'
    BY <1>4, <2>0, <2>4, WorkerMoves DEF TypeOK, Decline, Commit, Goto, Head200
  <2> QED
    BY <1>4, <2>1, <2>2, <2>3, <2>4 DEF Worker
<1>5. ASSUME NEW x \in Routes, CooldownEnds(x) PROVE HeadsByPlace'
  BY <1>5 DEF CooldownEnds
<1>6. CASE UNCHANGED vars
  BY <1>6 DEF vars
<1> QED
  BY <1>1, <1>2, <1>3, <1>4, <1>5, <1>6 DEF Next

\* Only a descent changes the rung of a request, to one that NextRung allows.
LEMMA RungStep == IInv /\ [Next]_vars => RungsConsented'
<1> SUFFICES ASSUME IInv, [Next]_vars PROVE RungsConsented'
  OBVIOUS
<1> USE DEF IInv, server, serving, RungsConsented
<1>1. CASE UNCHANGED attempt
  BY <1>1
<1>2. ASSUME NEW r \in Requests, Descend(r) PROVE RungsConsented'
  BY <1>2, NextRungUsable DEF TypeOK, Descend
<1>3. UNCHANGED attempt \/ \E r \in Requests : Descend(r)
  BY DEF Next, Loop, LoopTop, NothingPending, Register, SpawnWorker, SpawnFails, LoopEnds, Joined,
     Accept, AcceptDrops, Shutdown, Arrive, CooldownEnds, vars, Worker, Read, Choose, Enter,
     EnterRefused, Decline, Commit, NoteSuccess, NoteVerdict, Unregister, Uncount
<1> QED
  BY <1>1, <1>2, <1>3

LEMMA InvInit == Init => IInv
<1> SUFFICES ASSUME Init PROVE IInv
  OBVIOUS
<1>1. TypeOK
  <2>1. wpc \in [Requests -> Places] /\ heads \in [Requests -> Nat]
    BY DEF Init, Places
  <2>2. /\ mode \in [Requests -> {"plain", "probe", "final"}]
        /\ verdict \in [Requests -> FailsOver \cup {"none"}]
        /\ attempt \in [Requests -> Specs \cup {None}]
    BY DEF Init
  <2>3. /\ ledger \in [Routes -> [down : BOOLEAN, cooling : BOOLEAN]]
        /\ holder \in [Conversations -> Requests \cup {None, Absent}]
    BY DEF Init, Healthy
  <2>4. /\ loop = "top" /\ cur = None /\ active = 0 /\ 0 \in 0..Limit
        /\ registered = {} /\ closed = {} /\ shutdown = FALSE
    BY GatewayAssumption DEF Init
  <2> QED
    BY <2>1, <2>2, <2>3, <2>4 DEF TypeOK
<1>2. SlotsExact
  <2>1. SlotHolders = {}
    BY DEF Init, SlotHolders, Serving, Leaving
  <2> QED
    BY <2>1, FS_EmptySet DEF Init, SlotsExact
<1>3. ClosedAtShutdown /\ Tracked /\ HeadsByPlace /\ RungsConsented
  BY DEF Init, ClosedAtShutdown, Tracked, HeadsByPlace, RungsConsented, Serving, Leaving, Unanswered
<1> QED
  BY <1>1, <1>2, <1>3 DEF IInv

LEMMA Invariance == Spec => []IInv
<1>1. IInv /\ [Next]_vars => IInv'
  BY TypeStep, SlotsStep, TrackedStep, ClosedStep, HeadsStep, RungStep DEF IInv
<1> QED
  BY <1>1, InvInit, PTL DEF Spec

-----------------------------------------------------------------------------
(* Theorems *)

\* The gateway keeps its types: in particular the admission counter stays
\* between 0 and the limit.
THEOREM TypeCorrect == Spec => []TypeOK
BY Invariance, PTL DEF IInv

\* The counter of reserve_worker is exact on every path that gives a slot back.
THEOREM SlotsAreExact == Spec => []SlotsExact
BY Invariance, PTL DEF IInv

\* Every connection that a worker serves after shutdown has been closed.
THEOREM NoneEscapesShutdown == Spec => []ClosedAtShutdown
BY Invariance, PTL DEF IInv

\* A declined attempt writes nothing: the client gets one response, whatever
\* the rungs of the ladder said before.
THEOREM OneResponseEach == Spec => []OneResponse
<1>1. IInv => OneResponse
  BY DEF IInv, HeadsByPlace, OneResponse, Leaving
<1> QED
  BY <1>1, Invariance, PTL

\* No descent reaches a metered route without consent.
THEOREM ConsentIsAsked == Spec => []MeteredByConsent
<1>1. IInv => MeteredByConsent
  BY DEF IInv, RungsConsented, MeteredByConsent, Route
<1> QED
  BY <1>1, Invariance, PTL
=============================================================================
