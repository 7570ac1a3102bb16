------------------------ MODULE DaemonBringup_proofs ------------------------
(***************************************************************************)
(* Proofs about daemon bring-up, for any number of clients and daemons.    *)
(*                                                                         *)
(* Type correctness and the single owner of the registry hold whatever     *)
(* deaths, slow starts and stop or restart commands occur.  That there is  *)
(* one daemon, and that it can be found, holds in calm conditions: nobody  *)
(* runs stop or restart, a start beats its deadline and no client is       *)
(* killed in bring-up.  Daemons may die, retire and be upgraded at will.   *)
(***************************************************************************)
EXTENDS DaemonBringup, TLAPS

Calm == Restarters = {} /\ Stoppers = {} /\ ~Slow /\ ~ClientsMayDie

Awaiting    == {"awaitRead", "awaitConnect"}
BeforeSpawn == {"idle"} \cup (InEnsure \ Awaiting) \cup InStop

-----------------------------------------------------------------------------
(* The inductive invariants. *)

\* Client c spawns at most once.
SpawnsOnce == \A c \in Clients : cpc[c] \in BeforeSpawn => dpc[c] = "unborn"

\* A daemon has no registry before it opens one, and holds redb's lock while
\* it lives with one.
RegistryHeld ==
    \A d \in Clients :
        /\ dpc[d] \in {"unborn", "spawned", "cleanRemove", "open"} => ~gc[d]
        /\ Alive(d) /\ gc[d] => redb = d

\* The lock is held in exactly the locked section, which the spawner of a
\* starting daemon does not leave.
LockHeld == \A c \in Clients : lock = c <=> cpc[c] \in Locked
BootUnderLock == \A d \in Clients : dpc[d] \in Booting => cpc[d] \in Awaiting
CalmClients == \A c \in Clients : cpc[c] \notin InStop \cup {"gone"}

\* daemon.json names the daemon in service, or one that died.
Published ==
    \A d \in Clients :
        /\ dpc[d] \in Up => daemonJson = d
        /\ daemonJson = d => dpc[d] \in Up \cup {"dead"}
        /\ dpc[d] \in {"removeOld", "rename"} => daemonTmp = d

\* What a client in the locked section knows of the daemons in service.
NoneUp == \A d \in Clients : dpc[d] \notin Up
OnlyUp(x) == \A d \in Clients : dpc[d] \in Up => d = x
Knows ==
    \A c \in Clients :
        /\ cpc[c] \in {"cleanRemove", "replaceRemove", "spawn"} => NoneUp
        /\ cpc[c] \in {"reconnect", "replaceKill"} => OnlyUp(seen[c]) /\ seen[c] # None
        /\ cpc[c] \in Awaiting => OnlyUp(c)
        /\ cpc[c] = "awaitConnect" =>
              /\ seen[c] # None
              /\ \/ seen[c] = c /\ dpc[c] \notin Booting
                 \/ dpc[seen[c]] = "dead"

CalmInv ==
    /\ TypeOK /\ SpawnsOnce /\ LockHeld /\ BootUnderLock /\ CalmClients
    /\ Published /\ Knows

-----------------------------------------------------------------------------
(* Type correctness. *)

\* A state directory in which nothing has started is well typed.
LEMMA TypeInit == Init => TypeOK
  BY BringupAssumption DEF Init, TypeOK, DaemonPC, ClientPC

\* Every state component keeps its range: run_daemon and the commands leave
\* only states the model names.
THEOREM TypeCorrect == Spec => []TypeOK
<1>1. Init => TypeOK
  BY TypeInit
<1>2. TypeOK /\ [Next]_vars => TypeOK'
  <2> SUFFICES ASSUME TypeOK, [Next]_vars PROVE TypeOK'
    OBVIOUS
  <2> USE BringupAssumption DEF TypeOK, disk, daemonVars, clientVars, Goto, DaemonGoto
  <2>0. CASE UNCHANGED vars
    BY <2>0 DEF vars
  <2>1. ASSUME NEW c \in Clients, Begin(c) PROVE TypeOK'
    BY <2>1 DEF Begin, ClientPC, InEnsure, InStop, Locked
  <2>2. ASSUME NEW c \in Clients, ProbeRead(c) PROVE TypeOK'
    BY <2>2 DEF ProbeRead, ClientPC, InEnsure, InStop, Locked
  <2>3. ASSUME NEW c \in Clients, ProbeConnect(c) PROVE TypeOK'
    BY <2>3 DEF ProbeConnect, ClientPC, InEnsure, InStop, Locked
  <2>4. ASSUME NEW c \in Clients, AcquireLock(c) PROVE TypeOK'
    BY <2>4 DEF AcquireLock, ClientPC, InEnsure, InStop, Locked
  <2>5. ASSUME NEW c \in Clients, CleanRead(c) PROVE TypeOK'
    BY <2>5 DEF CleanRead, ClientPC, InEnsure, InStop, Locked
  <2>6. ASSUME NEW c \in Clients, CleanRemove(c) PROVE TypeOK'
    BY <2>6 DEF CleanRemove, ClientPC, InEnsure, InStop, Locked
  <2>7. ASSUME NEW c \in Clients, LockedRead(c) PROVE TypeOK'
    BY <2>7 DEF LockedRead, ClientPC, InEnsure, InStop, Locked
  <2>8. ASSUME NEW c \in Clients, LockedConnect(c) PROVE TypeOK'
    BY <2>8 DEF LockedConnect, ClientPC, InEnsure, InStop, Locked
  <2>9. ASSUME NEW c \in Clients, ReplaceKill(c) PROVE TypeOK'
    BY <2>9 DEF ReplaceKill, ClientPC, InEnsure, InStop, Locked, Kill, DaemonPC
  <2>10. ASSUME NEW c \in Clients, ReplaceRemove(c) PROVE TypeOK'
    BY <2>10 DEF ReplaceRemove, ClientPC, InEnsure, InStop, Locked
  <2>11. ASSUME NEW c \in Clients, Spawn(c) PROVE TypeOK'
    BY <2>11 DEF Spawn, ClientPC, InEnsure, InStop, Locked, DaemonPC, Booting
  <2>12. ASSUME NEW c \in Clients, AwaitRead(c) PROVE TypeOK'
    BY <2>12 DEF AwaitRead, ClientPC, InEnsure, InStop, Locked
  <2>13. ASSUME NEW c \in Clients, AwaitConnect(c) PROVE TypeOK'
    BY <2>13 DEF AwaitConnect, ClientPC, InEnsure, InStop, Locked
  <2>14. ASSUME NEW c \in Clients, AwaitTimeout(c) PROVE TypeOK'
    BY <2>14 DEF AwaitTimeout, ClientPC, InEnsure, InStop, Locked
  <2>15. ASSUME NEW c \in Clients, StopRead(c) PROVE TypeOK'
    BY <2>15 DEF StopRead, ClientPC, InEnsure, InStop, Locked, AfterStop
  <2>16. ASSUME NEW c \in Clients, StopCheck(c) PROVE TypeOK'
    BY <2>16 DEF StopCheck, ClientPC, InEnsure, InStop, Locked
  <2>17. ASSUME NEW c \in Clients, StopRemoveDead(c) PROVE TypeOK'
    BY <2>17 DEF StopRemoveDead, ClientPC, InEnsure, InStop, Locked, AfterStop
  <2>18. ASSUME NEW c \in Clients, StopSend(c) PROVE TypeOK'
    BY <2>18 DEF StopSend, ClientPC, InEnsure, InStop, Locked, AfterStop
  <2>19. ASSUME NEW c \in Clients, StopReply(c) PROVE TypeOK'
    BY <2>19 DEF StopReply, ClientPC, InEnsure, InStop, Locked, Kill,
       DaemonPC, Up
  <2>20. ASSUME NEW c \in Clients, StopWait(c) PROVE TypeOK'
    BY <2>20 DEF StopWait, ClientPC, InEnsure, InStop, Locked
  <2>21. ASSUME NEW c \in Clients, StopRemove(c) PROVE TypeOK'
    BY <2>21 DEF StopRemove, ClientPC, InEnsure, InStop, Locked, AfterStop
  <2>22. ASSUME NEW c \in Clients, ClientDies(c) PROVE TypeOK'
    BY <2>22 DEF ClientDies, ClientPC, InEnsure, InStop, Locked
  <2>23. ASSUME NEW c \in Clients, DaemonCleanRead(c) PROVE TypeOK'
    BY <2>23 DEF DaemonCleanRead, DaemonPC, Booting, Up
  <2>24. ASSUME NEW c \in Clients, DaemonCleanRemove(c) PROVE TypeOK'
    BY <2>24 DEF DaemonCleanRemove, DaemonPC, Booting, Up
  <2>25. ASSUME NEW c \in Clients, OpenRegistry(c) PROVE TypeOK'
    BY <2>25 DEF OpenRegistry, DaemonPC, Booting, Up
  <2>26. ASSUME NEW c \in Clients, WriteTmp(c) PROVE TypeOK'
    BY <2>26 DEF WriteTmp, DaemonPC, Booting, Up
  <2>27. ASSUME NEW c \in Clients, RemoveOld(c) PROVE TypeOK'
    BY <2>27 DEF RemoveOld, DaemonPC, Booting, Up
  <2>28. ASSUME NEW c \in Clients, Publish(c) PROVE TypeOK'
    BY <2>28 DEF Publish, DaemonPC, Booting, Up
  <2>29. ASSUME NEW c \in Clients, PublishFails(c) PROVE TypeOK'
    BY <2>29 DEF PublishFails, Kill, DaemonPC
  <2>30. ASSUME NEW c \in Clients, Retire(c) PROVE TypeOK'
    BY <2>30 DEF Retire, DaemonPC, Booting, Up
  <2>31. ASSUME NEW c \in Clients, Unpublish(c) PROVE TypeOK'
    BY <2>31 DEF Unpublish, DaemonPC, Booting, Up
  <2>32. ASSUME NEW c \in Clients, DaemonExits(c) PROVE TypeOK'
    BY <2>32 DEF DaemonExits, Kill, DaemonPC
  <2>33. ASSUME NEW c \in Clients, DaemonCrashes(c) PROVE TypeOK'
    BY <2>33 DEF DaemonCrashes, Kill, DaemonPC
  <2> QED
    BY <2>0, <2>1, <2>2, <2>3, <2>4, <2>5, <2>6, <2>7, <2>8, <2>9, <2>10,
       <2>11, <2>12, <2>13, <2>14, <2>15, <2>16, <2>17, <2>18, <2>19,
       <2>20, <2>21, <2>22, <2>23, <2>24, <2>25, <2>26, <2>27, <2>28,
       <2>29, <2>30, <2>31, <2>32, <2>33
      DEF Next, Ensure, Stop, Boot, Leave
<1> QED
  BY <1>1, <1>2, PTL DEF Spec
-----------------------------------------------------------------------------
(* One registry owner, whatever happens. *)

\* data.redb is never open in two live daemons: spawn_registry_worker opens it
\* under redb's own exclusive lock, which goes only with the process.
THEOREM RegistryExclusive == Spec => []OneRegistryOwner
<1>1. Init => SpawnsOnce /\ RegistryHeld
  BY DEF Init, SpawnsOnce, RegistryHeld, Alive
<1>2. TypeOK /\ SpawnsOnce /\ RegistryHeld /\ [Next]_vars => SpawnsOnce' /\ RegistryHeld'
  <2> SUFFICES ASSUME TypeOK, SpawnsOnce, RegistryHeld, [Next]_vars
               PROVE  SpawnsOnce' /\ RegistryHeld'
    OBVIOUS
  <2> USE BringupAssumption DEF TypeOK, SpawnsOnce, RegistryHeld, Alive,
          BeforeSpawn, Awaiting, InEnsure, InStop, Locked,
          disk, daemonVars, clientVars, Goto, DaemonGoto
  <2>0. CASE UNCHANGED vars
    BY <2>0 DEF vars
  <2>1. ASSUME NEW c \in Clients, Begin(c) PROVE SpawnsOnce' /\ RegistryHeld'
    BY <2>1 DEF Begin
  <2>2. ASSUME NEW c \in Clients, ProbeRead(c) PROVE SpawnsOnce' /\ RegistryHeld'
    BY <2>2 DEF ProbeRead
  <2>3. ASSUME NEW c \in Clients, ProbeConnect(c) PROVE SpawnsOnce' /\ RegistryHeld'
    BY <2>3 DEF ProbeConnect
  <2>4. ASSUME NEW c \in Clients, AcquireLock(c) PROVE SpawnsOnce' /\ RegistryHeld'
    BY <2>4 DEF AcquireLock
  <2>5. ASSUME NEW c \in Clients, CleanRead(c) PROVE SpawnsOnce' /\ RegistryHeld'
    BY <2>5 DEF CleanRead
  <2>6. ASSUME NEW c \in Clients, CleanRemove(c) PROVE SpawnsOnce' /\ RegistryHeld'
    BY <2>6 DEF CleanRemove
  <2>7. ASSUME NEW c \in Clients, LockedRead(c) PROVE SpawnsOnce' /\ RegistryHeld'
    BY <2>7 DEF LockedRead
  <2>8. ASSUME NEW c \in Clients, LockedConnect(c) PROVE SpawnsOnce' /\ RegistryHeld'
    BY <2>8 DEF LockedConnect
  <2>9. ASSUME NEW c \in Clients, ReplaceKill(c) PROVE SpawnsOnce' /\ RegistryHeld'
    BY <2>9 DEF ReplaceKill, Kill
  <2>10. ASSUME NEW c \in Clients, ReplaceRemove(c) PROVE SpawnsOnce' /\ RegistryHeld'
    BY <2>10 DEF ReplaceRemove
  <2>11. ASSUME NEW c \in Clients, Spawn(c) PROVE SpawnsOnce' /\ RegistryHeld'
    BY <2>11 DEF Spawn
  <2>12. ASSUME NEW c \in Clients, AwaitRead(c) PROVE SpawnsOnce' /\ RegistryHeld'
    BY <2>12 DEF AwaitRead
  <2>13. ASSUME NEW c \in Clients, AwaitConnect(c) PROVE SpawnsOnce' /\ RegistryHeld'
    BY <2>13 DEF AwaitConnect
  <2>14. ASSUME NEW c \in Clients, AwaitTimeout(c) PROVE SpawnsOnce' /\ RegistryHeld'
    BY <2>14 DEF AwaitTimeout
  <2>15. ASSUME NEW c \in Clients, StopRead(c) PROVE SpawnsOnce' /\ RegistryHeld'
    BY <2>15 DEF StopRead, AfterStop
  <2>16. ASSUME NEW c \in Clients, StopCheck(c) PROVE SpawnsOnce' /\ RegistryHeld'
    BY <2>16 DEF StopCheck
  <2>17. ASSUME NEW c \in Clients, StopRemoveDead(c) PROVE SpawnsOnce' /\ RegistryHeld'
    BY <2>17 DEF StopRemoveDead, AfterStop
  <2>18. ASSUME NEW c \in Clients, StopSend(c) PROVE SpawnsOnce' /\ RegistryHeld'
    BY <2>18 DEF StopSend, AfterStop
  <2>19. ASSUME NEW c \in Clients, StopReply(c) PROVE SpawnsOnce' /\ RegistryHeld'
    BY <2>19 DEF StopReply, Kill
  <2>20. ASSUME NEW c \in Clients, StopWait(c) PROVE SpawnsOnce' /\ RegistryHeld'
    BY <2>20 DEF StopWait
  <2>21. ASSUME NEW c \in Clients, StopRemove(c) PROVE SpawnsOnce' /\ RegistryHeld'
    BY <2>21 DEF StopRemove, AfterStop
  <2>22. ASSUME NEW c \in Clients, ClientDies(c) PROVE SpawnsOnce' /\ RegistryHeld'
    BY <2>22 DEF ClientDies
  <2>23. ASSUME NEW c \in Clients, DaemonCleanRead(c) PROVE SpawnsOnce' /\ RegistryHeld'
    BY <2>23 DEF DaemonCleanRead
  <2>24. ASSUME NEW c \in Clients, DaemonCleanRemove(c) PROVE SpawnsOnce' /\ RegistryHeld'
    BY <2>24 DEF DaemonCleanRemove
  <2>25. ASSUME NEW c \in Clients, OpenRegistry(c) PROVE SpawnsOnce' /\ RegistryHeld'
    BY <2>25 DEF OpenRegistry
  <2>26. ASSUME NEW c \in Clients, WriteTmp(c) PROVE SpawnsOnce' /\ RegistryHeld'
    BY <2>26 DEF WriteTmp
  <2>27. ASSUME NEW c \in Clients, RemoveOld(c) PROVE SpawnsOnce' /\ RegistryHeld'
    BY <2>27 DEF RemoveOld
  <2>28. ASSUME NEW c \in Clients, Publish(c) PROVE SpawnsOnce' /\ RegistryHeld'
    BY <2>28 DEF Publish
  <2>29. ASSUME NEW c \in Clients, PublishFails(c) PROVE SpawnsOnce' /\ RegistryHeld'
    BY <2>29 DEF PublishFails, Kill
  <2>30. ASSUME NEW c \in Clients, Retire(c) PROVE SpawnsOnce' /\ RegistryHeld'
    BY <2>30 DEF Retire
  <2>31. ASSUME NEW c \in Clients, Unpublish(c) PROVE SpawnsOnce' /\ RegistryHeld'
    BY <2>31 DEF Unpublish
  <2>32. ASSUME NEW c \in Clients, DaemonExits(c) PROVE SpawnsOnce' /\ RegistryHeld'
    BY <2>32 DEF DaemonExits, Kill
  <2>33. ASSUME NEW c \in Clients, DaemonCrashes(c) PROVE SpawnsOnce' /\ RegistryHeld'
    BY <2>33 DEF DaemonCrashes, Kill
  <2> QED
    BY <2>0, <2>1, <2>2, <2>3, <2>4, <2>5, <2>6, <2>7, <2>8, <2>9, <2>10,
       <2>11, <2>12, <2>13, <2>14, <2>15, <2>16, <2>17, <2>18, <2>19,
       <2>20, <2>21, <2>22, <2>23, <2>24, <2>25, <2>26, <2>27, <2>28,
       <2>29, <2>30, <2>31, <2>32, <2>33
      DEF Next, Ensure, Stop, Boot, Leave
<1>3. TypeOK /\ RegistryHeld => OneRegistryOwner
  BY DEF RegistryHeld, OneRegistryOwner
<1> QED
  BY <1>1, <1>2, <1>3, TypeCorrect, PTL DEF Spec
-----------------------------------------------------------------------------
(* One daemon, in calm conditions. *)

\* No step of a launch or a daemon breaks CalmInv where nobody stops a daemon,
\* no deadline runs out early and no launch is killed inside ensure_daemon.
LEMMA CalmStep ==
    ASSUME Calm, CalmInv, TypeOK', [Next]_vars
    PROVE  CalmInv'
<1> USE BringupAssumption DEF Calm, CalmInv, TypeOK, SpawnsOnce, LockHeld, BootUnderLock,
        CalmClients, Published, Knows, NoneUp, OnlyUp, Alive, Answers, Booting, Up,
        BeforeSpawn, Awaiting, InEnsure, InStop, Locked,
        disk, daemonVars, clientVars, Goto, DaemonGoto
<1>0. CASE UNCHANGED vars
  BY <1>0 DEF vars
<1>1. ASSUME NEW c \in Clients, Begin(c) PROVE CalmInv'
  BY <1>1 DEF Begin
<1>2. ASSUME NEW c \in Clients, ProbeRead(c) PROVE CalmInv'
  BY <1>2 DEF ProbeRead
<1>3. ASSUME NEW c \in Clients, ProbeConnect(c) PROVE CalmInv'
  BY <1>3 DEF ProbeConnect
<1>4. ASSUME NEW c \in Clients, AcquireLock(c) PROVE CalmInv'
  BY <1>4 DEF AcquireLock
<1>5. ASSUME NEW c \in Clients, CleanRead(c) PROVE CalmInv'
  BY <1>5 DEF CleanRead
<1>6. ASSUME NEW c \in Clients, CleanRemove(c) PROVE CalmInv'
  BY <1>6 DEF CleanRemove
<1>7. ASSUME NEW c \in Clients, LockedRead(c) PROVE CalmInv'
  BY <1>7 DEF LockedRead
<1>8. ASSUME NEW c \in Clients, LockedConnect(c) PROVE CalmInv'
  BY <1>8 DEF LockedConnect
<1>9. ASSUME NEW c \in Clients, ReplaceKill(c) PROVE CalmInv'
  BY <1>9 DEF ReplaceKill, Kill
<1>10. ASSUME NEW c \in Clients, ReplaceRemove(c) PROVE CalmInv'
  BY <1>10 DEF ReplaceRemove
<1>11. ASSUME NEW c \in Clients, Spawn(c) PROVE CalmInv'
  BY <1>11 DEF Spawn
<1>12. ASSUME NEW c \in Clients, AwaitRead(c) PROVE CalmInv'
  BY <1>12 DEF AwaitRead
<1>13. ASSUME NEW c \in Clients, AwaitConnect(c) PROVE CalmInv'
  BY <1>13 DEF AwaitConnect
<1>14. ASSUME NEW c \in Clients, AwaitTimeout(c) PROVE CalmInv'
  BY <1>14 DEF AwaitTimeout
<1>15. ASSUME NEW c \in Clients, Stop(c) PROVE CalmInv'
  BY <1>15 DEF Stop, StopRead, StopCheck, StopRemoveDead, StopSend,
     StopReply, StopWait, StopRemove
<1>16. ASSUME NEW c \in Clients, ClientDies(c) PROVE CalmInv'
  BY <1>16 DEF ClientDies
<1>17. ASSUME NEW c \in Clients, DaemonCleanRead(c) PROVE CalmInv'
  BY <1>17 DEF DaemonCleanRead
<1>18. ASSUME NEW c \in Clients, DaemonCleanRemove(c) PROVE CalmInv'
  BY <1>18 DEF DaemonCleanRemove
<1>19. ASSUME NEW c \in Clients, OpenRegistry(c) PROVE CalmInv'
  BY <1>19 DEF OpenRegistry
<1>20. ASSUME NEW c \in Clients, WriteTmp(c) PROVE CalmInv'
  BY <1>20 DEF WriteTmp
<1>21. ASSUME NEW c \in Clients, RemoveOld(c) PROVE CalmInv'
  BY <1>21 DEF RemoveOld
<1>22. ASSUME NEW c \in Clients, Publish(c) PROVE CalmInv'
  BY <1>22 DEF Publish
<1>23. ASSUME NEW c \in Clients, PublishFails(c) PROVE CalmInv'
  BY <1>23 DEF PublishFails, Kill
<1>24. ASSUME NEW c \in Clients, Retire(c) PROVE CalmInv'
  BY <1>24 DEF Retire
<1>25. ASSUME NEW c \in Clients, Unpublish(c) PROVE CalmInv'
  BY <1>25 DEF Unpublish
<1>26. ASSUME NEW c \in Clients, DaemonExits(c) PROVE CalmInv'
  BY <1>26 DEF DaemonExits, Kill
<1>27. ASSUME NEW c \in Clients, DaemonCrashes(c) PROVE CalmInv'
  BY <1>27 DEF DaemonCrashes, Kill
<1> QED
  BY <1>0, <1>1, <1>2, <1>3, <1>4, <1>5, <1>6, <1>7, <1>8, <1>9, <1>10,
     <1>11, <1>12, <1>13, <1>14, <1>15, <1>16, <1>17, <1>18, <1>19, <1>20,
     <1>21, <1>22, <1>23, <1>24, <1>25, <1>26, <1>27
    DEF Next, Ensure, Boot, Leave

\* So CalmInv holds throughout, and with it the types it is stated over.
LEMMA CalmInvariant ==
    ASSUME Calm PROVE Spec => []CalmInv
<1>1. Init => CalmInv
  BY BringupAssumption, TypeInit DEF Init, CalmInv, SpawnsOnce, LockHeld,
     BootUnderLock,
     CalmClients, Published, Knows, NoneUp, OnlyUp, Booting, Up,
     BeforeSpawn, Awaiting, InEnsure, InStop, Locked
<1>2. CalmInv /\ TypeOK' /\ [Next]_vars => CalmInv'
  BY CalmStep
<1> QED
  BY <1>1, <1>2, TypeCorrect, PTL DEF Spec

\* In calm conditions bring-up never produces a second daemon in service:
\* daemon.lock is held from before the spawn until the child has published
\* itself, and the probe under it finds what was published before.
THEOREM OneDaemonWhenCalm ==
    ASSUME Calm PROVE Spec => []AtMostOneDaemon
<1>1. CalmInv => AtMostOneDaemon
  BY DEF CalmInv, Published, AtMostOneDaemon
<1> QED
  BY <1>1, CalmInvariant, PTL

\* In calm conditions nobody's clean-up, upgrade or exit removes the
\* daemon.json of a daemon in service, so every launch can find it.
THEOREM DiscoverableWhenCalm ==
    ASSUME Calm PROVE Spec => []ServingIsDiscoverable
<1>1. CalmInv => ServingIsDiscoverable
  BY DEF CalmInv, Published, ServingIsDiscoverable
<1> QED
  BY <1>1, CalmInvariant, PTL
-----------------------------------------------------------------------------
(* Bring-up implements SingleDaemon, in calm conditions. *)

\* A launch reads in daemon.json only daemons that have been in service.
SeenServed ==
    \A c \in Clients : seen[c] # None => dpc[seen[c]] \notin {"unborn"} \cup Booting

\* What reads daemon.json reads a daemon that has published itself, and no
\* daemon goes back to starting.
LEMMA SeenStep ==
    ASSUME Calm, CalmInv, SeenServed, [Next]_vars
    PROVE  SeenServed'
<1> USE BringupAssumption DEF Calm, CalmInv, TypeOK, SpawnsOnce, CalmClients, Published,
        SeenServed, Alive, Answers, Booting, Up, BeforeSpawn, Awaiting, InEnsure, InStop,
        Locked, disk, daemonVars, clientVars, Goto, DaemonGoto
<1>0. CASE UNCHANGED vars
  BY <1>0 DEF vars
<1>1. ASSUME NEW c \in Clients, Begin(c) \/ ClientDies(c) PROVE SeenServed'
  BY <1>1 DEF Begin, ClientDies
<1>2. ASSUME NEW c \in Clients,
             ProbeRead(c) \/ LockedRead(c) \/ AwaitRead(c)
      PROVE  SeenServed'
  BY <1>2 DEF ProbeRead, LockedRead, AwaitRead
<1>3. ASSUME NEW c \in Clients,
             \/ ProbeConnect(c) \/ AcquireLock(c) \/ CleanRead(c) \/ CleanRemove(c)
             \/ LockedConnect(c) \/ ReplaceRemove(c) \/ AwaitConnect(c) \/ AwaitTimeout(c)
      PROVE  SeenServed'
  BY <1>3 DEF ProbeConnect, AcquireLock, CleanRead, CleanRemove, LockedConnect,
     ReplaceRemove, AwaitConnect, AwaitTimeout
<1>4. ASSUME NEW c \in Clients, ReplaceKill(c) PROVE SeenServed'
  BY <1>4 DEF ReplaceKill, Kill
<1>5. ASSUME NEW c \in Clients, Spawn(c) PROVE SeenServed'
  BY <1>5 DEF Spawn
<1>6. ASSUME NEW c \in Clients, Stop(c) PROVE SeenServed'
  BY <1>6 DEF Stop, StopRead, StopCheck, StopRemoveDead, StopSend,
     StopReply, StopWait, StopRemove
<1>7. ASSUME NEW c \in Clients,
             DaemonCleanRead(c) \/ DaemonCleanRemove(c) \/ OpenRegistry(c) \/ WriteTmp(c) \/ RemoveOld(c)
      PROVE  SeenServed'
  BY <1>7 DEF DaemonCleanRead, DaemonCleanRemove, OpenRegistry, WriteTmp, RemoveOld
<1>8. ASSUME NEW c \in Clients, Publish(c) \/ Retire(c) \/ Unpublish(c) PROVE SeenServed'
  BY <1>8 DEF Publish, Retire, Unpublish
<1>9. ASSUME NEW c \in Clients, PublishFails(c) \/ DaemonExits(c) \/ DaemonCrashes(c)
      PROVE  SeenServed'
  BY <1>9 DEF PublishFails, DaemonExits, DaemonCrashes, Kill
<1> QED
  BY <1>0, <1>1, <1>2, <1>3, <1>4, <1>5, <1>6, <1>7, <1>8, <1>9
    DEF Next, Ensure, Boot, Leave

\* In calm conditions a step of bring-up is a step of SingleDaemon or changes
\* nothing that SingleDaemon speaks of.
LEMMA SingleStep ==
    ASSUME Calm, CalmInv, CalmInv', SeenServed, [Next]_vars
    PROVE  [Single!Next]_(Single!vars)
<1> USE BringupAssumption DEF Calm
<1> DEFINE OutcomeOf(pc) == IF pc \in {"ready", "failed"} THEN pc ELSE "none"
<1>a. /\ \A d \in Clients : dpc[d] \in Up => InService = d
      /\ NoneUp => InService = None
      /\ InService # None => InService \in Clients /\ dpc[InService] \in Up
  BY DEF CalmInv, TypeOK, Published, NoneUp, InService
<1>b. /\ \A d \in Clients : dpc'[d] \in Up => InService' = d
      /\ (\A d \in Clients : dpc'[d] \notin Up) => InService' = None
  BY DEF CalmInv, TypeOK, Published, InService
<1>c. dpc' = dpc => InService' = InService /\ Spent' = Spent
  BY DEF InService, Spent
<1>d. dpc' = dpc /\ seen' = seen => Noted' = Noted
  BY DEF Noted, Alive
<1>e. cpc' = cpc => Outcome' = Outcome
  BY DEF Outcome
<1>f. ASSUME NEW c \in Clients, NEW pc, Goto(c, pc)
      PROVE  Outcome' = [Outcome EXCEPT ![c] = OutcomeOf(pc)]
  BY <1>f DEF Outcome, Goto, CalmInv, TypeOK
<1>g. ASSUME NEW c \in Clients, NEW pc, Goto(c, pc),
             cpc[c] \notin {"ready", "failed"}, pc \notin {"ready", "failed"}
      PROVE  Outcome' = Outcome
  BY <1>g DEF Outcome, Goto, CalmInv, TypeOK
<1>h. ASSUME NEW d \in Clients, Kill(d), Alive(d), UNCHANGED seen, Outcome' = Outcome
      PROVE  Single!End(d)
  <2>1. /\ dpc' = [dpc EXCEPT ![d] = "dead"]
        /\ \A e \in Clients : dpc'[e] = IF e = d THEN "dead" ELSE dpc[e]
    BY <1>h DEF Kill, CalmInv, TypeOK
  <2>2. InService' = IF InService = d THEN None ELSE InService
    <3>1. CASE InService = d
      <4>1. \A e \in Clients : dpc'[e] \notin Up
        BY <2>1, <1>a, <3>1 DEF Up
      <4> QED
        BY <4>1, <1>b, <3>1
    <3>2. CASE InService = None
      <4>1. \A e \in Clients : dpc'[e] \notin Up
        BY <2>1, <1>a, <3>2 DEF Up
      <4> QED
        BY <4>1, <1>b, <3>2
    <3>3. CASE InService \notin {d, None}
      BY <2>1, <1>a, <1>b, <3>3
    <3> QED
      BY <3>1, <3>2, <3>3
  <2>3. Spent' = Spent \cup {d}
    BY <2>1 DEF Spent, Booting
  <2>4. Noted' = [c \in Clients |-> IF Noted[c] = d THEN None ELSE Noted[c]]
    BY <1>h, <2>1 DEF Noted, Alive, CalmInv, TypeOK
  <2> QED
    BY <1>h, <2>2, <2>3, <2>4 DEF Single!End
<1>0. CASE UNCHANGED vars
  BY <1>0, <1>c, <1>d, <1>e DEF vars, Single!vars
<1>1. ASSUME NEW c \in Clients, ProbeRead(c) \/ LockedRead(c) \/ AwaitRead(c)
      PROVE  Single!Look(c)
  <2>1. /\ UNCHANGED <<dpc, daemonJson>> /\ seen' = [seen EXCEPT ![c] = daemonJson]
        /\ Outcome' = Outcome /\ Outcome[c] = "none"
    <3>1. UNCHANGED <<dpc, daemonJson>> /\ seen' = [seen EXCEPT ![c] = daemonJson]
      BY <1>1 DEF ProbeRead, LockedRead, AwaitRead, disk, daemonVars
    <3>2. /\ cpc[c] \in {"read", "reread", "awaitRead"}
          /\ \E pc \in {"lockClean", "connect", "spawn", "reconnect", "awaitConnect"} : Goto(c, pc)
      BY <1>1 DEF ProbeRead, LockedRead, AwaitRead
    <3> QED
      BY <3>1, <3>2, <1>g DEF Outcome
  <2>2. (IF Alive(daemonJson) THEN daemonJson ELSE None) = InService
    BY <1>a DEF CalmInv, TypeOK, Published, Alive, Up, NoneUp
  <2>3. Noted' = [Noted EXCEPT ![c] = InService]
    BY <2>1, <2>2 DEF Noted, Alive, CalmInv, TypeOK
  <2> QED
    BY <2>1, <2>3, <1>c DEF Single!Look
<1>2. ASSUME NEW c \in Clients, ProbeConnect(c) \/ LockedConnect(c) \/ AwaitConnect(c)
      PROVE  Single!Ready(c) \/ UNCHANGED Single!vars
  <2>1. /\ UNCHANGED <<dpc, seen>> /\ Outcome[c] = "none"
        /\ \/ Alive(seen[c]) /\ SameVersion(c, seen[c]) /\ Goto(c, "ready")
           \/ \E pc \in {"lockClean", "lockUpgrade", "replaceKill", "spawn", "awaitRead"} : Goto(c, pc)
    BY <1>2 DEF ProbeConnect, LockedConnect, AwaitConnect, Answers, disk, daemonVars, Outcome
  <2>2. CASE Alive(seen[c]) /\ SameVersion(c, seen[c]) /\ Goto(c, "ready")
    <3>1. Noted[c] = seen[c] /\ seen[c] # None
      BY <2>2 DEF Noted, Alive
    <3>2. Outcome' = [Outcome EXCEPT ![c] = "ready"]
      BY <2>2, <1>f
    <3> QED
      BY <2>1, <2>2, <3>1, <3>2, <1>c, <1>d DEF Single!Ready
  <2>3. ASSUME NEW pc \in {"lockClean", "lockUpgrade", "replaceKill", "spawn", "awaitRead"}, Goto(c, pc)
        PROVE  UNCHANGED Single!vars
    <3>1. Outcome' = Outcome
      BY <2>1, <2>3, <1>g DEF Outcome
    <3> QED
      BY <2>1, <3>1, <1>c, <1>d DEF Single!vars
  <2> QED
    BY <2>1, <2>2, <2>3
<1>3. ASSUME NEW c \in Clients, AwaitTimeout(c) PROVE Single!Fail(c)
  <2>1. UNCHANGED <<dpc, seen>> /\ cpc[c] = "awaitRead" /\ Goto(c, "failed")
    BY <1>3 DEF AwaitTimeout, daemonVars
  <2>2. Outcome' = [Outcome EXCEPT ![c] = "failed"] /\ Outcome[c] = "none"
    BY <2>1, <1>f DEF Outcome
  <2> QED
    BY <2>1, <2>2, <1>c, <1>d DEF Single!Fail
<1>4. ASSUME NEW c \in Clients,
             Begin(c) \/ AcquireLock(c) \/ CleanRead(c) \/ CleanRemove(c) \/ ReplaceRemove(c)
      PROVE  UNCHANGED Single!vars
  <2>1. /\ UNCHANGED <<dpc, seen>>
        /\ cpc[c] \notin {"ready", "failed"}
        /\ \E pc \in {"read", "cleanRead", "reread", "cleanRemove", "spawn"} : Goto(c, pc)
    BY <1>4 DEF Begin, AcquireLock, CleanRead, CleanRemove, ReplaceRemove, disk, daemonVars
  <2> QED
    BY <2>1, <1>c, <1>d, <1>g DEF Single!vars
<1>5. ASSUME NEW c \in Clients, ReplaceKill(c)
      PROVE  [\E d \in Clients : Single!End(d)]_(Single!vars)
  <2>1. /\ Kill(seen[c]) /\ UNCHANGED seen /\ Outcome' = Outcome /\ seen[c] \in Clients
    BY <1>5, <1>g DEF ReplaceKill, CalmInv, Knows, TypeOK
  <2>2. CASE Alive(seen[c])
    BY <2>1, <2>2, <1>h
  <2>3. CASE ~Alive(seen[c])
    BY <2>1, <2>3, <1>c, <1>d DEF Kill, Single!vars
  <2> QED
    BY <2>2, <2>3
<1>6. ASSUME NEW c \in Clients, Spawn(c) PROVE UNCHANGED Single!vars
  <2>1. /\ cpc[c] = "spawn" /\ UNCHANGED seen /\ Outcome' = Outcome
        /\ dpc[c] = "unborn" /\ dpc' = [dpc EXCEPT ![c] = "spawned"]
    BY <1>6, <1>g DEF Spawn, CalmInv, SpawnsOnce, BeforeSpawn, InEnsure, Locked, Awaiting
  <2>2. \A d \in Clients : dpc'[d] = IF d = c THEN "spawned" ELSE dpc[d]
    BY <2>1 DEF CalmInv, TypeOK
  <2>3. NoneUp /\ InService' = None
    BY <2>1, <2>2, <1>b DEF CalmInv, Knows, NoneUp, Up
  <2>4. Spent' = Spent
    BY <2>1, <2>2 DEF Spent, Booting
  <2>5. Noted' = Noted
    BY <2>1, <2>2 DEF Noted, Alive, SeenServed, CalmInv, TypeOK
  <2> QED
    BY <2>1, <2>3, <2>4, <2>5, <1>a DEF Single!vars
<1>7. ASSUME NEW d \in Clients,
             \/ DaemonCleanRead(d) \/ DaemonCleanRemove(d) \/ OpenRegistry(d)
             \/ WriteTmp(d) \/ RemoveOld(d) \/ Retire(d)
      PROVE  UNCHANGED Single!vars
  <2>1. /\ UNCHANGED <<seen, cpc>>
        /\ \/ dpc[d] \in Booting /\ \E pc \in Booting : dpc' = [dpc EXCEPT ![d] = pc]
           \/ dpc[d] \in Up /\ \E pc \in Up : dpc' = [dpc EXCEPT ![d] = pc]
    BY <1>7 DEF DaemonCleanRead, DaemonCleanRemove, OpenRegistry, WriteTmp, RemoveOld, Retire,
       DaemonGoto, clientVars, Booting, Up
  <2>2. \A e \in Clients : /\ dpc'[e] \in Up <=> dpc[e] \in Up
                           /\ dpc'[e] \in Booting <=> dpc[e] \in Booting
                           /\ dpc'[e] = "unborn" <=> dpc[e] = "unborn"
                           /\ dpc'[e] = "dead" <=> dpc[e] = "dead"
    BY <2>1 DEF CalmInv, TypeOK, Up, Booting
  <2>3. InService' = InService
    BY <2>2, <1>a, <1>b DEF NoneUp
  <2>4. Spent' = Spent
    BY <2>2 DEF Spent
  <2>5. Noted' = Noted
    BY <2>1, <2>2 DEF Noted, Alive, CalmInv, TypeOK
  <2> QED
    BY <2>1, <2>3, <2>4, <2>5, <1>e DEF Single!vars
<1>8. ASSUME NEW d \in Clients, Publish(d) PROVE Single!Start(d)
  <2>1. /\ UNCHANGED <<seen, cpc>> /\ dpc[d] = "rename" /\ dpc' = [dpc EXCEPT ![d] = "serving"]
    BY <1>8 DEF Publish, DaemonGoto, clientVars
  <2>2. \A e \in Clients : dpc'[e] = IF e = d THEN "serving" ELSE dpc[e]
    BY <2>1 DEF CalmInv, TypeOK
  <2>3. NoneUp
    BY <2>1 DEF CalmInv, BootUnderLock, Knows, OnlyUp, Booting, Up, NoneUp
  <2>4. InService = None /\ InService' = d
    BY <2>2, <2>3, <1>a, <1>b DEF Up
  <2>5. d \notin Spent /\ Spent' = Spent \cup {d}
    BY <2>1, <2>2 DEF Spent, Booting
  <2>6. Noted' = Noted
    BY <2>1, <2>2 DEF Noted, Alive, CalmInv, TypeOK
  <2> QED
    BY <2>1, <2>4, <2>5, <2>6, <1>e DEF Single!Start
<1>9. ASSUME NEW d \in Clients, Unpublish(d) PROVE Single!Withdraw
  <2>1. /\ UNCHANGED <<seen, cpc>> /\ dpc[d] = "stopping" /\ dpc' = [dpc EXCEPT ![d] = "stopped"]
    BY <1>9 DEF Unpublish, DaemonGoto, clientVars
  <2>2. \A e \in Clients : dpc'[e] = IF e = d THEN "stopped" ELSE dpc[e]
    BY <2>1 DEF CalmInv, TypeOK
  <2>3. InService = d /\ InService' = None
    BY <2>1, <2>2, <1>a, <1>b DEF Up
  <2>4. Spent' = Spent
    BY <2>1, <2>2 DEF Spent, Booting
  <2>5. Noted' = Noted
    BY <2>1, <2>2 DEF Noted, Alive, CalmInv, TypeOK
  <2> QED
    BY <2>1, <2>3, <2>4, <2>5, <1>e DEF Single!Withdraw
<1>10. ASSUME NEW d \in Clients, PublishFails(d) \/ DaemonExits(d) \/ DaemonCrashes(d)
       PROVE  Single!End(d)
  <2>1. Kill(d) /\ Alive(d) /\ UNCHANGED <<seen, cpc>>
    BY <1>10 DEF PublishFails, DaemonExits, DaemonCrashes, Alive, clientVars
  <2> QED
    BY <2>1, <1>e, <1>h
<1>11. ASSUME NEW c \in Clients, Stop(c) \/ ClientDies(c) PROVE FALSE
  BY <1>11 DEF Stop, StopRead, StopCheck, StopRemoveDead, StopSend, StopReply, StopWait,
     StopRemove, ClientDies, CalmInv, CalmClients, InStop
<1> QED
  BY <1>0, <1>1, <1>2, <1>3, <1>4, <1>5, <1>6, <1>7, <1>8, <1>9, <1>10, <1>11
    DEF Next, Ensure, Boot, Leave, Single!Next

\* Bring-up implements SingleDaemon in calm conditions: what a launch is told
\* rests on a daemon that it saw in service and that still runs.
THEOREM BringupIsSingle ==
    ASSUME Calm PROVE Spec => ImplementsSingleDaemon
<1>1. Init => SeenServed
  BY DEF Init, SeenServed
<1>2. CalmInv /\ SeenServed /\ [Next]_vars => SeenServed'
  BY SeenStep
<1>3. Init => Single!Init
  BY BringupAssumption DEF Init, Single!Init, InService, Spent, Noted, Outcome, Alive, Up
<1>4. CalmInv /\ CalmInv' /\ SeenServed /\ [Next]_vars => [Single!Next]_(Single!vars)
  BY SingleStep
<1> QED
  BY <1>1, <1>2, <1>3, <1>4, CalmInvariant, PTL
    DEF Spec, ImplementsSingleDaemon, Single!Spec

=============================================================================
