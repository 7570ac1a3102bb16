------------------------ MODULE DaemonRetirement_proofs ------------------------
(***************************************************************************)
(* Proofs about idle retirement, for any number of clients, requests and   *)
(* maintenance ticks.  What is proved of leases is proved of the branch of *)
(* prune_dead that drops what it found dead; of the batched branch it is   *)
(* false (see the README).                                                 *)
(***************************************************************************)
EXTENDS DaemonRetirement, TLAPS

\* A daemon that has just begun to accept is well typed.
LEMMA TypeInit == Init => TypeOK
<1> SUFFICES ASSUME Init PROVE TypeOK
  OBVIOUS
<1> USE RetirementAssumption DEF Init
<1>1. loop \in LoopPC /\ shutdown \in BOOLEAN /\ idle \in BOOLEAN
  BY DEF LoopPC
<1>2. /\ guard \in [Clients \cup Jobs -> GuardPC]
      /\ op \in [Clients -> Ops \cup {NoOp}]
      /\ alive \in [Clients -> BOOLEAN] /\ holding \in [Clients -> BOOLEAN]
  BY DEF GuardPC
<1>3. events \in 0 .. MaxEvents
  OBVIOUS
<1> QED
  BY <1>1, <1>2, <1>3 DEF TypeOK

\* Clients and maintenance need the daemon, and nobody else.
LEMMA NeedyType == Needy \subseteq Clients \cup {Maintenance}
BY DEF Needy

\* No step of the loop, a connection or a job leaves the types.
LEMMA TypeStep == TypeOK /\ [Next]_vars => TypeOK'
<1> SUFFICES ASSUME TypeOK, [Next]_vars PROVE TypeOK'
  OBVIOUS
<1> USE RetirementAssumption, NeedyType DEF TypeOK, historyVars, NeedEnds, LoopPC, Polling, GuardPC, Counted, Ops, NoOp,
        Jobs, daemonVars, clientVars
<1>0. CASE UNCHANGED vars
  BY <1>0 DEF vars
<1>1. ASSUME Poll PROVE TypeOK'
  BY <1>1 DEF Poll
<1>2. ASSUME PruneProbe PROVE TypeOK'
  BY <1>2 DEF PruneProbe, GoOn
<1>3. ASSUME PruneRetain PROVE TypeOK'
  BY <1>3 DEF PruneRetain, GoOn
<1>4. ASSUME ReadWorkers PROVE TypeOK'
  BY <1>4 DEF ReadWorkers, Reads, AfterRead, GoOn, GoBack
<1>5. ASSUME NoteWorkers PROVE TypeOK'
  BY <1>5 DEF NoteWorkers, GoBack
<1>6. ASSUME ReadIdle PROVE TypeOK'
  BY <1>6 DEF ReadIdle, Reads, AfterRead, GoOn, GoBack
<1>7. ASSUME ReadConnections PROVE TypeOK'
  BY <1>7 DEF ReadConnections, Reads, AfterRead, GoOn, GoBack
<1>8. ASSUME ReadJobs PROVE TypeOK'
  BY <1>8 DEF ReadJobs, Reads, AfterRead, GoOn, GoBack
<1>9. ASSUME ReadLeases PROVE TypeOK'
  BY <1>9 DEF ReadLeases, Reads, AfterRead, GoOn, GoBack
<1>10. ASSUME Exit PROVE TypeOK'
  BY <1>10 DEF Exit, GoOn
<1>11. ASSUME TimePasses PROVE TypeOK'
  BY <1>11 DEF TimePasses
<1>12. ASSUME TickDue PROVE TypeOK'
  BY <1>12 DEF TickDue, Event, GuardGoes
<1>13. ASSUME Tick PROVE TypeOK'
  BY <1>13 DEF Tick
<1>14. ASSUME Sweep PROVE TypeOK'
  BY <1>14 DEF Sweep, GuardGoes
<1>15. ASSUME NEW c \in Clients, AcceptTcp(c) PROVE TypeOK'
  BY <1>15 DEF AcceptTcp
<1>16. ASSUME NEW c \in Clients, Call(c) PROVE TypeOK'
  BY <1>16 DEF Call, Event
<1>17. ASSUME NEW c \in Clients, AcceptFrame(c) PROVE TypeOK'
  BY <1>17 DEF AcceptFrame, GuardGoes
<1>18. ASSUME NEW c \in Clients, Acquire(c) PROVE TypeOK'
  BY <1>18 DEF Acquire, Handle, GuardGoes
<1>19. ASSUME NEW c \in Clients, Release(c) PROVE TypeOK'
  BY <1>19 DEF Release, Handle, GuardGoes
<1>20. ASSUME NEW c \in Clients, Create(c) PROVE TypeOK'
  BY <1>20 DEF Create, Handle, GuardGoes
<1>21. ASSUME NEW c \in Clients, Shutdown(c) PROVE TypeOK'
  BY <1>21 DEF Shutdown, Handle, GuardGoes
<1>22. ASSUME NEW c \in Clients, WorkerExits(c) PROVE TypeOK'
  BY <1>22 DEF WorkerExits
<1>23. ASSUME NEW c \in Clients, ClientDies(c) PROVE TypeOK'
  BY <1>23 DEF ClientDies
<1>24. ASSUME NEW w \in Clients \cup Jobs, GuardStart(w) PROVE TypeOK'
  BY <1>24 DEF GuardStart, GuardGoes
<1>25. ASSUME NEW w \in Clients \cup Jobs, GuardUncount(w) PROVE TypeOK'
  BY <1>25 DEF GuardUncount, GuardGoes
<1>26. ASSUME NEW w \in Clients \cup Jobs, GuardDropped(w) PROVE TypeOK'
  BY <1>26 DEF GuardDropped, GuardGoes
<1> QED
  BY <1>0, <1>1, <1>2, <1>3, <1>4, <1>5, <1>6, <1>7, <1>8, <1>9, <1>10,
     <1>11, <1>12, <1>13, <1>14, <1>15, <1>16, <1>17, <1>18, <1>19, <1>20,
     <1>21, <1>22, <1>23, <1>24, <1>25, <1>26
    DEF Next, Loop, Maintain, Serve, Guard

\* The daemon's bookkeeping keeps its types: leases name clients, guards and
\* the loop are in states the code has.
THEOREM TypeCorrect == Spec => []TypeOK
<1> QED
  BY TypeInit, TypeStep, PTL DEF Spec

-----------------------------------------------------------------------------
(* Leases *)

\* Who holds a lease lives and is in the registry; what prune is about to drop
\* is dead.
LeaseInv ==
    /\ \A c \in Clients : holding[c] => c \in leases /\ alive[c] /\ op[c] # "release"
    /\ loop = "retain" => \A c \in probed \ live : ~alive[c]

\* Between the probe of prune_dead and its retain nothing makes a lease that
\* was found dead one of a live client.
LEMMA LeaseStep ==
    ASSUME ~BatchedPrune, TypeOK, LeaseInv, [Next]_vars PROVE LeaseInv'
<1> USE RetirementAssumption DEF TypeOK, LeaseInv, historyVars, Jobs, NoOp, daemonVars, clientVars
<1>0. CASE UNCHANGED vars
  BY <1>0 DEF vars
<1>1. ASSUME Poll PROVE LeaseInv'
  BY <1>1 DEF Poll
<1>2. ASSUME PruneProbe PROVE LeaseInv'
  BY <1>2 DEF PruneProbe, GoOn
<1>3. ASSUME PruneRetain PROVE LeaseInv'
  BY <1>3 DEF PruneRetain, GoOn
<1>4. ASSUME ReadWorkers PROVE LeaseInv'
  BY <1>4 DEF ReadWorkers, Reads, AfterRead, GoOn, GoBack
<1>5. ASSUME NoteWorkers PROVE LeaseInv'
  BY <1>5 DEF NoteWorkers, GoBack
<1>6. ASSUME ReadIdle PROVE LeaseInv'
  BY <1>6 DEF ReadIdle, Reads, AfterRead, GoOn, GoBack
<1>7. ASSUME ReadConnections PROVE LeaseInv'
  BY <1>7 DEF ReadConnections, Reads, AfterRead, GoOn, GoBack
<1>8. ASSUME ReadJobs PROVE LeaseInv'
  BY <1>8 DEF ReadJobs, Reads, AfterRead, GoOn, GoBack
<1>9. ASSUME ReadLeases PROVE LeaseInv'
  BY <1>9 DEF ReadLeases, Reads, AfterRead, GoOn, GoBack
<1>10. ASSUME Exit PROVE LeaseInv'
  BY <1>10 DEF Exit, GoOn
<1>11. ASSUME TimePasses PROVE LeaseInv'
  BY <1>11 DEF TimePasses
<1>12. ASSUME TickDue PROVE LeaseInv'
  BY <1>12 DEF TickDue, Event, GuardGoes
<1>13. ASSUME Tick PROVE LeaseInv'
  BY <1>13 DEF Tick
<1>14. ASSUME Sweep PROVE LeaseInv'
  BY <1>14 DEF Sweep, GuardGoes
<1>15. ASSUME NEW c \in Clients, AcceptTcp(c) PROVE LeaseInv'
  BY <1>15 DEF AcceptTcp
<1>16. ASSUME NEW c \in Clients, Call(c) PROVE LeaseInv'
  BY <1>16 DEF Call, Event
<1>17. ASSUME NEW c \in Clients, AcceptFrame(c) PROVE LeaseInv'
  BY <1>17 DEF AcceptFrame, GuardGoes
<1>18. ASSUME NEW c \in Clients, Acquire(c) PROVE LeaseInv'
  BY <1>18 DEF Acquire, Handle, GuardGoes
<1>19. ASSUME NEW c \in Clients, Release(c) PROVE LeaseInv'
  BY <1>19 DEF Release, Handle, GuardGoes
<1>20. ASSUME NEW c \in Clients, Create(c) PROVE LeaseInv'
  BY <1>20 DEF Create, Handle, GuardGoes
<1>21. ASSUME NEW c \in Clients, Shutdown(c) PROVE LeaseInv'
  BY <1>21 DEF Shutdown, Handle, GuardGoes
<1>22. ASSUME NEW c \in Clients, WorkerExits(c) PROVE LeaseInv'
  BY <1>22 DEF WorkerExits
<1>23. ASSUME NEW c \in Clients, ClientDies(c) PROVE LeaseInv'
  BY <1>23 DEF ClientDies
<1>24. ASSUME NEW w \in Clients \cup Jobs, GuardStart(w) PROVE LeaseInv'
  BY <1>24 DEF GuardStart, GuardGoes
<1>25. ASSUME NEW w \in Clients \cup Jobs, GuardUncount(w) PROVE LeaseInv'
  BY <1>25 DEF GuardUncount, GuardGoes
<1>26. ASSUME NEW w \in Clients \cup Jobs, GuardDropped(w) PROVE LeaseInv'
  BY <1>26 DEF GuardDropped, GuardGoes
<1> QED
  BY <1>0, <1>1, <1>2, <1>3, <1>4, <1>5, <1>6, <1>7, <1>8, <1>9, <1>10,
     <1>11, <1>12, <1>13, <1>14, <1>15, <1>16, <1>17, <1>18, <1>19, <1>20,
     <1>21, <1>22, <1>23, <1>24, <1>25, <1>26
    DEF Next, Loop, Maintain, Serve, Guard

\* So LeaseInv holds throughout.
LEMMA LeaseInvariant ==
    ASSUME ~BatchedPrune PROVE Spec => [](TypeOK /\ LeaseInv)
<1>1. Init => LeaseInv
  BY DEF Init, LeaseInv
<1>2. TypeOK /\ LeaseInv /\ [Next]_vars => LeaseInv'
  BY LeaseStep
<1> QED
  BY <1>1, <1>2, TypeCorrect, PTL DEF Spec

\* The registry never loses the lease of a client that holds it: prune_dead
\* drops only identities it has seen dead.
THEOREM LeasesAreKept ==
    ASSUME ~BatchedPrune PROVE Spec => LeaseKept
<1>1. LeaseInv /\ LeaseInv' =>
        [\A c \in Clients : holding[c] /\ holding'[c] /\ c \in leases => c \in leases']_vars
  BY DEF LeaseInv
<1> QED
  BY <1>1, LeaseInvariant, PTL DEF LeaseKept

-----------------------------------------------------------------------------
(* Retirement *)

\* Who is owed needs the daemon still, in a way the poll has yet to read: not by
\* a session once the workers are read, and once the connections are by a lease
\* that is in the registry.
OwedInv ==
    /\ loop # "gone" => owed \subseteq Needy
    /\ loop \in {"idle", "conns", "jobs", "leases"} =>
          \A c \in Clients \cap (owed \ missed) : c \notin workers
    /\ loop \in {"jobs", "leases"} =>
          \A c \in Clients \cap (owed \ missed) : c \in leases /\ op[c] # "release"
    /\ loop = "leases" => Maintenance \notin owed \ missed
    /\ loop = "retired" => owed \subseteq missed

\* What moves a client from one need to the next moves it to one that is read
\* later, but for a new session; and each read finds who is owed by its kind.
LEMMA OwedStep ==
    ASSUME TypeOK, LeaseInv, OwedInv, [Next]_vars PROVE OwedInv'
<1> USE RetirementAssumption DEF TypeOK, LeaseInv, OwedInv, Needy, NeedEnds, Maintenance,
        AfterRead, historyVars, Jobs, NoOp, Counted, daemonVars, clientVars
<1>0. CASE UNCHANGED vars
  BY <1>0 DEF vars
<1>1. ASSUME Poll PROVE OwedInv'
  BY <1>1 DEF Poll
<1>2. ASSUME PruneProbe PROVE OwedInv'
  BY <1>2 DEF PruneProbe, GoOn
<1>3. ASSUME PruneRetain PROVE OwedInv'
  BY <1>3 DEF PruneRetain, GoOn
<1>4. ASSUME ReadWorkers PROVE OwedInv'
  BY <1>4 DEF ReadWorkers, Reads, AfterRead, GoOn, GoBack
<1>5. ASSUME NoteWorkers PROVE OwedInv'
  BY <1>5 DEF NoteWorkers, GoBack
<1>6. ASSUME ReadIdle PROVE OwedInv'
  BY <1>6 DEF ReadIdle, Reads, AfterRead, GoOn, GoBack
<1>7. ASSUME ReadConnections PROVE OwedInv'
  BY <1>7 DEF ReadConnections, Reads, AfterRead, GoOn, GoBack
<1>8. ASSUME ReadJobs PROVE OwedInv'
  BY <1>8 DEF ReadJobs, Reads, AfterRead, GoOn, GoBack
<1>9. ASSUME ReadLeases PROVE OwedInv'
  BY <1>9 DEF ReadLeases, Reads, AfterRead, GoOn, GoBack
<1>10. ASSUME Exit PROVE OwedInv'
  BY <1>10 DEF Exit, GoOn
<1>11. ASSUME TimePasses PROVE OwedInv'
  BY <1>11 DEF TimePasses
<1>12. ASSUME TickDue PROVE OwedInv'
  BY <1>12 DEF TickDue, Event, GuardGoes
<1>13. ASSUME Tick PROVE OwedInv'
  BY <1>13 DEF Tick
<1>14. ASSUME Sweep PROVE OwedInv'
  BY <1>14 DEF Sweep, GuardGoes
<1>15. ASSUME NEW c \in Clients, AcceptTcp(c) PROVE OwedInv'
  BY <1>15 DEF AcceptTcp
<1>16. ASSUME NEW c \in Clients, Call(c) PROVE OwedInv'
  <2>1. PICK o \in Ops, lane \in {"tcp", "frame"} :
           /\ o = "release" => holding[c]
           /\ op' = [op EXCEPT ![c] = o]
           /\ guard' = [guard EXCEPT ![c] = lane]
           /\ holding' = [holding EXCEPT ![c] = @ /\ o # "release"]
    BY <1>16 DEF Call
  <2>2. /\ UNCHANGED <<loop, leases, workers, missed>> /\ loop # "gone"
        /\ owed' \subseteq owed /\ owed' \subseteq Needy'
    BY <1>16 DEF Call, Running
  <2>3. loop \in {"jobs", "leases"} =>
          \A d \in Clients \cap (owed' \ missed) : d \in leases /\ op'[d] # "release"
    <3> SUFFICES ASSUME loop \in {"jobs", "leases"}, NEW d \in Clients, d \in owed', d \notin missed
                 PROVE  d \in leases /\ op'[d] # "release"
      BY <2>2
    <3>1. d \in leases /\ op[d] # "release" /\ d \notin workers
      BY <2>2
    <3>2. CASE d # c
      BY <2>1, <3>1, <3>2
    <3>3. CASE d = c
      <4>1. c \in Needy' /\ c # Maintenance
        BY <2>2, <3>3
      <4>2. ASSUME o = "release" PROVE FALSE
        <5>1. holding'[c] = FALSE
          <6> DEFINE left == holding[c] /\ o # "release"
          <6>0. holding' = [holding EXCEPT ![c] = left] /\ holding \in [Clients -> BOOLEAN]
            BY <2>1
          <6> HIDE DEF left
          <6>1. holding'[c] = left
            BY <6>0
          <6> USE DEF left
          <6> QED
            BY <4>2, <6>1
        <5>2. guard'[c] \notin {"counted", "done"} /\ c \notin workers'
          BY <2>1, <2>2, <3>1, <3>3
        <5> QED
          BY <4>1, <5>1, <5>2
      <4> QED
        BY <2>1, <3>1, <3>3, <4>2
    <3> QED
      BY <3>2, <3>3
  <2> QED
    BY <2>2, <2>3
<1>17. ASSUME NEW c \in Clients, AcceptFrame(c) PROVE OwedInv'
  BY <1>17 DEF AcceptFrame, GuardGoes
<1>18. ASSUME NEW c \in Clients, Acquire(c) PROVE OwedInv'
  BY <1>18 DEF Acquire, Handle, GuardGoes
<1>19. ASSUME NEW c \in Clients, Release(c) PROVE OwedInv'
  BY <1>19 DEF Release, Handle, GuardGoes
<1>20. ASSUME NEW c \in Clients, Create(c) PROVE OwedInv'
  BY <1>20 DEF Create, Handle, GuardGoes
<1>21. ASSUME NEW c \in Clients, Shutdown(c) PROVE OwedInv'
  BY <1>21 DEF Shutdown, Handle, GuardGoes
<1>22. ASSUME NEW c \in Clients, WorkerExits(c) PROVE OwedInv'
  BY <1>22 DEF WorkerExits
<1>23. ASSUME NEW c \in Clients, ClientDies(c) PROVE OwedInv'
  BY <1>23 DEF ClientDies
<1>24. ASSUME NEW w \in Clients \cup Jobs, GuardStart(w) PROVE OwedInv'
  BY <1>24 DEF GuardStart, GuardGoes
<1>25. ASSUME NEW w \in Clients \cup Jobs, GuardUncount(w) PROVE OwedInv'
  BY <1>25 DEF GuardUncount, GuardGoes
<1>26. ASSUME NEW w \in Clients \cup Jobs, GuardDropped(w) PROVE OwedInv'
  BY <1>26 DEF GuardDropped, GuardGoes
<1> QED
  BY <1>0, <1>1, <1>2, <1>3, <1>4, <1>5, <1>6, <1>7, <1>8, <1>9, <1>10,
     <1>11, <1>12, <1>13, <1>14, <1>15, <1>16, <1>17, <1>18, <1>19, <1>20,
     <1>21, <1>22, <1>23, <1>24, <1>25, <1>26
    DEF Next, Loop, Maintain, Serve, Guard

\* A poll never retires the daemon on somebody who has needed it, in whatever
\* way, ever since the poll began, unless the need became one of a session after
\* the workers were read, or one of a sweep without its guard (run_daemon).
THEOREM RetiresOnlyUnneeded ==
    ASSUME ~BatchedPrune PROVE Spec => []RetiresUnneeded
<1>1. Init => OwedInv
  BY DEF Init, OwedInv
<1>2. TypeOK /\ LeaseInv /\ OwedInv /\ [Next]_vars => OwedInv'
  BY OwedStep
<1>3. OwedInv => RetiresUnneeded
  BY DEF OwedInv, RetiresUnneeded
<1> QED
  BY <1>1, <1>2, <1>3, LeaseInvariant, PTL DEF Spec
=============================================================================
