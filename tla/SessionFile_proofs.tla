------------------------- MODULE SessionFile_proofs -------------------------
(***************************************************************************)
(* Proofs about the snapshot file of a session: types, and that the exit   *)
(* code readers saw is final while saves stay apart, for any number of     *)
(* attaches, commands and crashes.                                         *)
(***************************************************************************)
EXTENDS SessionFile, TLAPS

\* The threads by name.
LEMMA Names ==
  /\ {"main", "wait", "watch", "cli", "ctrlc", "term", "intr", "clean"} \subseteq Threads
  /\ Inner \subseteq Threads /\ Outer \subseteq Threads
BY DEF Inner, Outer, Threads

\* The values a snapshot takes, field by field.
LEMMA Fields ==
  /\ \A x \in Snapshots \cup {Missing} :
        /\ \A e \in Codes : Over(x, e) \in Snapshots
        /\ Interrupted(x) \in Snapshots
  /\ \A x \in Snapshots :
        /\ \A e \in Codes : [x EXCEPT !.exit = e] \in Snapshots
        /\ \A b \in BOOLEAN : [x EXCEPT !.bg = b] \in Snapshots
        /\ [x EXCEPT !.fast = TRUE] \in Snapshots
        /\ x # Missing
        /\ x.exit \in Codes \cup {"none"}
  /\ {"143", "130", "137", "own"} \subseteq Codes
  /\ [exit |-> "none", bg |-> TRUE, fast |-> FALSE] \in Snapshots
<1>1. ASSUME NEW x \in Snapshots \cup {Missing}, NEW e \in Codes
      PROVE  Over(x, e) \in Snapshots
  <2>1. x.fast \in BOOLEAN
    <3>1. x \in Snapshots => x.fast \in BOOLEAN
      BY DEF Snapshots
    <3>2. Missing.fast \in BOOLEAN
      BY DEF Missing
    <3> QED
      BY <3>1, <3>2
  <2> QED
    BY <2>1 DEF Snapshots, Over
<1>2. \A x : Interrupted(x) \in Snapshots
  BY DEF Snapshots, Codes, Interrupted
<1>3. ASSUME NEW x \in Snapshots
      PROVE  /\ \A e \in Codes : [x EXCEPT !.exit = e] \in Snapshots
             /\ \A b \in BOOLEAN : [x EXCEPT !.bg = b] \in Snapshots
             /\ [x EXCEPT !.fast = TRUE] \in Snapshots
             /\ x.exit \in Codes \cup {"none"}
  BY DEF Snapshots, Codes
<1>4. Missing \notin Snapshots
  <2>1. Missing.exit \notin Codes \cup {"none"}
    BY DEF Missing, Codes
  <2> QED
    BY <2>1, <1>3
<1>5. [exit |-> "none", bg |-> TRUE, fast |-> FALSE] \in Snapshots
  BY DEF Snapshots
<1>6. {"143", "130", "137", "own"} \subseteq Codes
  BY DEF Codes
<1> QED
  BY <1>1, <1>2, <1>3, <1>4, <1>5, <1>6

\* An event is counted up to the bound.
LEMMA EventType ==
  ASSUME TypeOK, Event
  PROVE  events' \in 0..MaxEvents
BY BoundAssumption DEF TypeOK, Event

\* What a worker saves is a snapshot.
LEMMA MergedType ==
  ASSUME TypeOK, NEW x \in Snapshots
  PROVE  Merged(x) \in Snapshots
BY DEF TypeOK, Merged, Snapshots, Missing, Codes

\* A save begins with a snapshot.
LEMMA BeginType ==
  ASSUME TypeOK, NEW t \in Threads, NEW x \in Snapshots, Begin(t, x)
  PROVE  /\ save' \in [Threads -> {"none", "write", "remove", "rename"}]
         /\ held' \in [Threads -> Snapshots \cup {Missing}]
         /\ torn' \in BOOLEAN
BY MergedType DEF TypeOK, Begin

\* So does an end of threads.
LEMMA EndedType ==
  ASSUME TypeOK, NEW S \in SUBSET Threads, Ended(S)
  PROVE  /\ at' \in [Threads -> {"start", "root", "ready", "loop", "final", "aborts", "told",
                           "stopped", "kill", "killing", "killed", "over"}]
         /\ save' \in [Threads -> {"none", "write", "remove", "rename"}]
         /\ held' \in [Threads -> Snapshots \cup {Missing}]
         /\ torn' \in BOOLEAN
BY DEF TypeOK, Ended

\* The initial state is well typed.
LEMMA TypeInit ==
  ASSUME Init PROVE TypeOK
<1>1. mem \in Snapshots /\ file \in {Missing} /\ tmp \in {Missing}
  BY Fields DEF Init
<1>2. events \in 0..MaxEvents
  BY BoundAssumption DEF Init
<1>3. /\ at \in [Threads -> {"start"}]
      /\ save \in [Threads -> {"none"}]
      /\ held \in [Threads -> {Missing}]
  BY DEF Init
<1> QED
  BY <1>1, <1>2, <1>3 DEF Init, TypeOK

\* So is the state after a step.
LEMMA TypeStep ==
  ASSUME TypeOK, [Next]_vars PROVE TypeOK'
<1>1. ASSUME NEW t \in Threads, Save(t) PROVE TypeOK'
  <2>1. /\ save' \in [Threads -> {"none", "write", "remove", "rename"}]
        /\ held' \in [Threads -> Snapshots \cup {Missing}]
    BY <1>1 DEF TypeOK, Save, SaveWrite, SaveRemove, SaveRename
  <2>2. /\ file' \in Snapshots \cup {Missing} /\ tmp' \in Snapshots \cup {Missing}
        /\ seen' \in Codes \cup {"none"}
    BY <1>1, Fields DEF TypeOK, Save, SaveWrite, SaveRemove, SaveRename
  <2>3. at' \in [Threads -> {"start", "root", "ready", "loop", "final", "aborts", "told",
                         "stopped", "kill", "killing", "killed", "over"}]
    BY <1>1, Names DEF TypeOK, Save
  <2> QED
    BY <1>1, <2>1, <2>2, <2>3 DEF TypeOK, Save, procs
<1>2. CASE WorkerStep
  <2>1. CASE MainRoot \/ MainReady \/ MainFinal \/ WatchAgain
    BY <2>1, BeginType, Names, Fields DEF TypeOK, MainRoot, MainReady, MainFinal, WatchAgain, Move, disk, procs
  <2>2. CASE MainLoop
    BY <2>2, Names DEF TypeOK, MainLoop, Move, disk, procs, quiet
  <2>3. CASE MainReturns
    BY <2>3, EndedType, Names DEF TypeOK, MainReturns, disk, procs
  <2>4. ASSUME NEW t \in Threads, NEW code \in Codes, NEW label \in {"told"},
               SetExit(t, code, label)
        PROVE  /\ mem' \in Snapshots
               /\ save' \in [Threads -> {"none", "write", "remove", "rename"}]
               /\ held' \in [Threads -> Snapshots \cup {Missing}] /\ torn' \in BOOLEAN
               /\ at' = [at EXCEPT ![t] = label]
               /\ UNCHANGED <<file, tmp, seen, stop, client, events>>
    <3>1. mem' \in Snapshots
      BY <2>4, Fields DEF TypeOK, SetExit, Exited
    <3> QED
      BY <2>4, <3>1, BeginType, Names, Fields DEF SetExit, Move, disk
  <2>5. CASE WaitExit
    <3>1. child \in Codes
      BY <2>5, Fields DEF WaitExit, TypeOK
    <3> QED
      BY <2>5, <2>4, <3>1, Names, Fields DEF TypeOK, WaitExit, procs
  <2>6. CASE WatchKills
    BY <2>6, <2>4, Names, Fields DEF TypeOK, WatchKills, procs
  <2>7. CASE CtrlCExit
    BY <2>7, <2>4, Names, Fields DEF TypeOK, CtrlCExit, procs
  <2>8. CASE CtrlCKills
    BY <2>8, BeginType, Names, Fields DEF TypeOK, CtrlCKills, Move, disk
  <2>9. CASE Stop("wait", "told", "over") \/ Stop("watch", "told", "stopped")
                \/ Stop("ctrlc", "told", "over")
    BY <2>9, Names DEF TypeOK, Stop, Move, disk, procs, quiet
  <2> QED
    BY <1>2, <2>1, <2>2, <2>3, <2>5, <2>6, <2>7, <2>8, <2>9 DEF WorkerStep
<1>3. CASE DaemonStep
  <2>1. ASSUME NEW t \in Outer, KillChild(t) PROVE TypeOK'
    BY <2>1, Names DEF TypeOK, KillChild, Move, disk, procs, quiet
  <2>2. ASSUME NEW t \in Outer, KillWorker(t) PROVE TypeOK'
    BY <2>2, Names DEF TypeOK, KillWorker, disk, procs
  <2>3. CASE TermWrite
    <3>1. Over(held["term"], "130") \in Snapshots
      BY Fields, Names DEF TypeOK
    <3> QED
      BY <2>3, <3>1, BeginType, Names, Fields DEF TypeOK, TermWrite, Move, disk, procs
  <2>4. CASE IntrAgain
    <3>1. file # Missing => [file EXCEPT !.fast = TRUE] \in Snapshots
      BY Fields, Names DEF TypeOK
    <3> QED
      BY <2>4, <3>1, BeginType, Names, Fields DEF TypeOK, IntrAgain, Move, disk, procs, quiet
  <2>5. CASE IntrFinish
    <3>1. Interrupted(file) \in Snapshots
      BY Fields DEF TypeOK
    <3> QED
      BY <2>5, <3>1, BeginType, Names, Fields DEF TypeOK, IntrFinish, Move, disk, procs, quiet
  <2> QED
    BY <1>3, <2>1, <2>2, <2>3, <2>4, <2>5 DEF DaemonStep
<1>4. CASE Clean
  <2>1. Over(file, "137") \in Snapshots
    BY Fields DEF TypeOK
  <2> QED
    BY <1>4, <2>1, BeginType, Names, Fields DEF TypeOK, Clean, disk, procs
<1>5. CASE ChildEnds
  BY <1>5 DEF TypeOK, ChildEnds, disk, quiet
<1>6. CASE Attach \/ Detach
  <2>1. ASSUME NEW b \in BOOLEAN, Flip(b)
        PROVE  /\ mem' \in Snapshots
               /\ save' \in [Threads -> {"none", "write", "remove", "rename"}]
               /\ held' \in [Threads -> Snapshots \cup {Missing}] /\ torn' \in BOOLEAN
    <3>1. mem' \in Snapshots
      BY <2>1, Fields DEF TypeOK, Flip
    <3> QED
      BY <2>1, <3>1, BeginType, Names, Fields DEF Flip, quiet, TypeOK
  <2> QED
    BY <1>6, <2>1, EventType DEF TypeOK, Attach, Detach, disk, procs, quiet
<1>7. CASE CtrlC
  <2>1. mem' \in Snapshots
    BY <1>7, Fields DEF TypeOK, CtrlC
  <2> QED
    BY <1>7, <2>1, BeginType, Names, Fields DEF TypeOK, CtrlC, Move, disk, procs
<1>8. CASE TermRead
  BY <1>8, Names, EventType DEF TypeOK, TermRead, Move, disk, procs
<1>9. CASE IntrRead
  <2>1. Interrupted(file) \in Snapshots
    BY Fields DEF TypeOK
  <2> QED
    BY <1>9, <2>1, BeginType, Names, Fields, EventType DEF TypeOK, IntrRead, Move, disk, procs
<1>10. CASE WorkerCrashes
  BY <1>10, EndedType, EventType, Names DEF TypeOK, WorkerCrashes, disk
<1>11. CASE DaemonDies
  <2>1. {t \in Outer : at[t] # "start"} \in SUBSET Threads
    BY Names
  <2> QED
    BY <1>11, <2>1, EndedType DEF TypeOK, DaemonDies, disk
<1>12. CASE UNCHANGED vars
  BY <1>12 DEF TypeOK, vars, procs
<1> QED
  BY <1>1, <1>2, <1>3, <1>4, <1>5, <1>6, <1>7, <1>8, <1>9, <1>10, <1>11, <1>12 DEF Next

\* Every behaviour keeps the types of the session's state: whatever dies, the
\* file holds a snapshot or nothing, and readers saw an exit code or none.
THEOREM TypeCorrect == Spec => []TypeOK
<1> QED
  BY TypeInit, TypeStep, PTL DEF Spec

-----------------------------------------------------------------------------
(* The exit code is final *)

\* A dead worker has no threads.
Dead == ~worker => \A t \in Inner : at[t] = "over" /\ ~Saving(t)

\* Terminate and the clean-up write only after the worker is gone.
Killed ==
  at["term"] = "killed" \/ Saving("term") \/ Saving("clean") => ~worker

\* Of the saves at most one is under way.
Apart == \A t, u \in Threads : Saving(t) /\ Saving(u) => t = u

\* Readers saw what the file holds; it is missing only in the midst of a save.
Shown ==
  /\ file # Missing => seen = file.exit
  /\ file = Missing => seen = "none" \/ \E t \in Threads : save[t] = "rename"

\* The save under way shows readers no other code, unless it is 130.
Under ==
  \A t \in Threads : Saving(t) =>
    /\ held[t] \in Snapshots
    /\ seen = "none" \/ held[t].exit \in {seen, "130"}
    /\ save[t] # "write" => tmp = held[t]

\* A snapshot marked as interrupted, with 130.
Stands(x) == x.exit = "130" /\ x.fast

\* What readers saw and the worker does not say is the 130 of an interrupt,
\* and the file's mark, which the worker merges, keeps it.
Owned ==
  worker /\ seen \notin {"none", mem.exit} =>
    /\ file # Missing => Stands(file)
    /\ seen = "130"
    /\ \A t \in Threads : Saving(t) => Stands(held[t])

\* A save beside a live worker holds its code or the 130 of an interrupt.
HeldOwned ==
  worker => \A t \in Threads : Saving(t) =>
    held[t].exit \in {"none", mem.exit} \/ Stands(held[t])

\* While no two saves have overlapped and none was cut off.
Calm == ~torn => Apart /\ Shown /\ Under /\ Owned /\ HeldOwned

\* A step that neither saves nor starts to, and leaves the code of the worker,
\* keeps the saves in order.
LEMMA QuietCalm ==
  ASSUME TypeOK, Calm, torn' \in {torn, TRUE}, UNCHANGED <<file, tmp, seen>>,
         mem'.exit = mem.exit, worker' => worker,
         save' = save, \A t \in Threads : Saving(t) => held'[t] = held[t]
  PROVE  Calm'
<1> SUFFICES ASSUME ~torn' PROVE Apart' /\ Shown' /\ Under' /\ Owned' /\ HeldOwned'
  BY DEF Calm
<1>0. ~torn
  OBVIOUS
<1>1. Apart' /\ Shown'
  BY <1>0 DEF Calm, Apart, Shown, Saving
<1>2. Under'
  BY <1>0 DEF Calm, Under, Saving
<1>3. Owned' /\ HeldOwned'
  BY <1>0 DEF Calm, Owned, HeldOwned, Saving, Stands
<1> QED
  BY <1>1, <1>2, <1>3

\* An end of threads that cuts off no save is such a step.
LEMMA EndedCalm ==
  ASSUME TypeOK, Calm, NEW S \in SUBSET Threads, UNCHANGED <<file, tmp, seen, mem>>,
         worker' => worker,
         save' = [t \in Threads |-> IF t \in S THEN "none" ELSE save[t]],
         held' = [t \in Threads |-> IF t \in S THEN Missing ELSE held[t]],
         torn' = (torn \/ \E t \in S : Saving(t))
  PROVE  Calm'
<1>1. CASE torn'
  BY <1>1 DEF Calm
<1>2. CASE ~torn'
  <2>1. \A t \in S : save[t] = "none"
    BY <1>2 DEF Saving
  <2>2. save' = save
    BY <2>1 DEF TypeOK
  <2>3. \A t \in Threads : Saving(t) => held'[t] = held[t]
    BY <2>1 DEF Saving
  <2>4. torn' \in {torn, TRUE}
    BY <1>2 DEF TypeOK
  <2>5. mem'.exit = mem.exit
    OBVIOUS
  <2> QED
    BY <2>2, <2>3, <2>4, <2>5, QuietCalm
<1> QED
  BY <1>1, <1>2 DEF TypeOK

\* A save may begin with what readers saw or with 130; beside a live worker,
\* with the worker's code or a 130 that is marked.
LEMMA BeginCalm ==
  ASSUME TypeOK, Calm, NEW t \in Threads, NEW x, Begin(t, x), ~Saving(t),
         UNCHANGED <<file, tmp, seen, worker>>,
         mem'.exit = mem.exit \/ mem.exit = "none",
         ~torn =>
           /\ held'[t] \in Snapshots
           /\ seen = "none" \/ held'[t].exit \in {seen, "130"}
           /\ worker => held'[t].exit \in {"none", mem'.exit} \/ Stands(held'[t])
           /\ worker /\ seen \notin {"none", mem'.exit} => Stands(held'[t])
  PROVE  Calm'
<1> SUFFICES ASSUME ~torn' PROVE Apart' /\ Shown' /\ Under' /\ Owned' /\ HeldOwned'
  BY DEF Calm
<1>1. ~torn /\ \A u \in Threads \ {t} : save[u] = "none"
  BY DEF Begin, Saving
<1>2. \A u \in Threads : save'[u] = IF u = t THEN "write" ELSE "none"
  BY <1>1 DEF Begin, TypeOK
<1>3. Apart'
  BY <1>2 DEF Apart, Saving
<1>4. Shown'
  <2>1. ~\E u \in Threads : save[u] = "rename"
    BY <1>1 DEF Saving
  <2> QED
    BY <1>1, <2>1 DEF Calm, Shown
<1>5. Under'
  BY <1>1, <1>2 DEF Under, Saving
<1>6. HeldOwned'
  BY <1>1, <1>2 DEF HeldOwned, Saving, Stands
<1>7. Owned'
  <2> SUFFICES ASSUME worker, seen \notin {"none", mem'.exit} PROVE Owned'
    BY DEF Owned
  <2>1. seen \notin {"none", mem.exit}
    OBVIOUS
  <2>2. (file # Missing => Stands(file)) /\ seen = "130"
    BY <1>1, <2>1 DEF Calm, Owned
  <2> QED
    BY <1>1, <1>2, <2>2 DEF Owned, Saving, Stands
<1> QED
  BY <1>3, <1>4, <1>5, <1>6, <1>7

\* A worker's save holds its own code, or what the file says of an interrupt.
LEMMA InnerCalm ==
  ASSUME TypeOK, Dead, Calm, NEW t \in Inner, NEW x \in Snapshots, Begin(t, x),
         ~Saving(t), at[t] # "over", UNCHANGED <<file, tmp, seen, worker>>,
         x.exit = mem'.exit, mem'.exit = mem.exit \/ mem.exit = "none"
  PROVE  Calm'
<1>1. t \in Threads
  BY Names
<1>2. CASE torn'
  BY <1>2 DEF Calm
<1>3. CASE ~torn'
  <2>1. ~torn /\ \A u \in Threads : save[u] = "none"
    BY <1>1, <1>3 DEF Begin, Saving
  <2>2. worker /\ held'[t] = Merged(x) /\ Merged(x) \in Snapshots
    BY <1>1, MergedType DEF Begin, TypeOK, Dead
  <2>3. file = Missing => seen = "none"
    BY <2>1 DEF Calm, Shown
  <2>4. file # Missing => seen = file.exit
    BY <2>1 DEF Calm, Shown
  <2>5. seen \notin {"none", mem'.exit} => file # Missing /\ Stands(file)
    BY <2>1, <2>2, <2>3 DEF Calm, Owned
  <2>6. Merged(x).exit = (IF file.fast /\ file.exit # "none" THEN file.exit ELSE x.exit)
    BY DEF Merged, Snapshots
  <2>7. Stands(file) => Stands(Merged(x))
    BY DEF Merged, Stands
  <2>8. ~Missing.fast
    BY DEF Missing
  <2>9. seen = "none" \/ Merged(x).exit \in {seen, "130"}
    BY <2>3, <2>4, <2>5, <2>6 DEF Stands
  <2>10. Merged(x).exit \in {"none", mem'.exit} \/ Stands(Merged(x))
    BY <2>3, <2>4, <2>5, <2>6, <2>7, <2>8
  <2>11. seen \notin {"none", mem'.exit} => Stands(Merged(x))
    BY <2>5, <2>7
  <2> QED
    BY <1>1, <2>2, <2>9, <2>10, <2>11, BeginCalm
<1> QED
  BY <1>2, <1>3 DEF TypeOK, Begin

\* A save shows readers what it began with.
LEMMA SaveCalm ==
  ASSUME TypeOK, Calm, NEW t \in Threads, Save(t)
  PROVE  Calm' /\ (~torn' /\ seen # "none" => seen' \in {seen, "130"})
<1> SUFFICES ASSUME ~torn PROVE Apart' /\ Shown' /\ Under' /\ Owned' /\ HeldOwned'
                                /\ (seen # "none" => seen' \in {seen, "130"})
  BY DEF Calm, Save
<1>1. Saving(t) /\ \A u \in Threads : u # t => save[u] = "none"
  BY DEF Save, SaveWrite, SaveRemove, SaveRename, Saving, Calm, Apart
<1>2. \A u \in Threads : u # t => save'[u] = "none"
  BY <1>1 DEF Save, SaveWrite, SaveRemove, SaveRename, TypeOK
<1>3. Apart'
  BY <1>2 DEF Apart, Saving
<1>4. UNCHANGED <<mem, worker>>
  BY DEF Save, procs
<1>5. /\ held[t] \in Snapshots
      /\ seen = "none" \/ held[t].exit \in {seen, "130"}
      /\ save[t] # "write" => tmp = held[t]
  BY <1>1 DEF Calm, Under
<1>6. CASE SaveWrite(t) \/ SaveRemove(t)
  <2>1. /\ held' = held /\ seen' = seen /\ file' \in {file, Missing} /\ tmp' = held[t]
        /\ Missing = file' => seen = "none" \/ save'[t] = "rename"
    <3>1. CASE SaveWrite(t)
      <4>1. file = Missing => seen = "none"
        BY <3>1, <1>1 DEF SaveWrite, Calm, Shown
      <4> QED
        BY <3>1, <4>1 DEF SaveWrite
    <3>2. CASE SaveRemove(t)
      BY <3>2, <1>5 DEF SaveRemove, TypeOK
    <3> QED
      BY <1>6, <3>1, <3>2
  <2>2. Shown'
    BY <2>1 DEF Calm, Shown
  <2>3. Under'
    BY <1>2, <1>5, <2>1 DEF Under, Saving
  <2>4. HeldOwned'
    BY <1>1, <1>2, <1>4, <2>1 DEF Calm, HeldOwned, Saving, Stands
  <2>5. Owned'
    BY <1>1, <1>2, <1>4, <2>1 DEF Calm, Owned, Saving, Stands
  <2> QED
    BY <1>3, <2>1, <2>2, <2>3, <2>4, <2>5
<1>7. CASE SaveRename(t)
  <2>1. tmp = held[t] /\ tmp # Missing
    BY <1>5, <1>7, Fields DEF SaveRename
  <2>2. file' = held[t] /\ seen' = held[t].exit
    BY <2>1, <1>7 DEF SaveRename
  <2>3. \A u \in Threads : save'[u] = "none"
    BY <1>2, <1>7 DEF SaveRename, TypeOK
  <2>4. Shown' /\ Under' /\ HeldOwned'
    BY <2>1, <2>2, <2>3 DEF Shown, Under, HeldOwned, Saving
  <2>5. worker => held[t].exit \in {"none", mem.exit} \/ Stands(held[t])
    BY <1>1 DEF Calm, HeldOwned
  <2>6. Owned'
    BY <1>4, <2>2, <2>3, <2>5 DEF Owned, Saving, Stands
  <2> QED
    BY <1>3, <1>5, <2>2, <2>4, <2>6
<1> QED
  BY <1>6, <1>7 DEF Save

\* A dead worker has no threads, and terminate and the clean-up write only
\* after it is gone: a step keeps that.
LEMMA DeadStep ==
  ASSUME TypeOK, Dead, Killed, Next
  PROVE  Dead' /\ Killed'
<1>1. ASSUME NEW t \in Threads, Save(t) PROVE Dead' /\ Killed'
  <2>1. worker' = worker /\ Saving(t)
    BY <1>1 DEF Save, SaveWrite, SaveRemove, SaveRename, procs, Saving
  <2>2. \A u \in Threads : Saving(u)' => Saving(u)
    BY <1>1, <2>1 DEF Save, SaveWrite, SaveRemove, SaveRename, Saving, TypeOK
  <2>3. \A u \in Threads : at'[u] \in {at[u], "aborts", "over"}
    BY <1>1, Names DEF Save, TypeOK
  <2>4. ~worker => \A u \in Inner : at'[u] = at[u]
    BY <1>1, <2>1, Names DEF Save, Dead, Saving, Inner, TypeOK
  <2>5. Dead'
    BY <2>1, <2>2, <2>4, Names DEF Dead
  <2>6. Killed'
    BY <2>1, <2>2, <2>3, Names DEF Killed
  <2> QED
    BY <2>5, <2>6
<1>2. ASSUME worker' = worker, worker,
             \A u \in {"term", "clean"} : save'[u] = save[u],
             at'["term"] = at["term"] \/ at'["term"] # "killed"
      PROVE  Dead' /\ Killed'
  BY <1>2 DEF Dead, Killed, Saving
<1>3. ASSUME worker' = worker,
             \A u \in Inner : at'[u] = at[u] /\ save'[u] \in {save[u], "none"},
             \A u \in {"term", "clean"} : save'[u] \in {save[u], "none"},
             at'["term"] = at["term"] \/ at'["term"] # "killed"
      PROVE  Dead' /\ Killed'
  BY <1>3 DEF Dead, Killed, Saving
<1>4. ASSUME NEW S, Inner \subseteq S, Ended(S), ~worker' PROVE Dead' /\ Killed'
  BY <1>4, Names DEF Ended, Dead, Killed, Saving
<1>5. CASE WorkerStep
  <2>1. ASSUME NEW t \in Inner, at[t] # "over" PROVE worker
    BY <2>1 DEF Dead
  <2>2. ASSUME NEW t \in Inner, NEW x, Begin(t, x)
        PROVE  \A u \in {"term", "clean"} : save'[u] = save[u]
    BY <2>2, Names DEF Begin, Inner, TypeOK
  <2>3. ASSUME NEW t \in Inner, NEW label, Move(t, label)
        PROVE  at'["term"] = at["term"]
    BY <2>3, Names DEF Move, Inner, TypeOK
  <2>4. {"main", "wait", "watch", "ctrlc"} \subseteq Inner
    BY DEF Inner
  <2>5. CASE MainRoot \/ MainReady \/ MainFinal
    BY <1>2, <2>1, <2>2, <2>3, <2>4, <2>5 DEF MainRoot, MainReady, MainFinal, Idle, procs
  <2>6. CASE MainLoop
    BY <1>2, <2>1, <2>3, <2>4, <2>6 DEF MainLoop, Idle, procs, quiet
  <2>7. CASE MainReturns
    BY <1>4, <2>7 DEF MainReturns
  <2>8. CASE WaitExit
    BY <1>2, <2>1, <2>2, <2>3, <2>4, <2>8 DEF WaitExit, SetExit, Idle, procs
  <2>9. CASE WatchKills \/ WatchAgain
    BY <1>2, <2>1, <2>2, <2>3, <2>4, <2>9 DEF WatchKills, WatchAgain, SetExit, Idle, procs
  <2>10. CASE CtrlCKills \/ CtrlCExit
    BY <1>2, <2>1, <2>2, <2>3, <2>4, <2>10 DEF CtrlCKills, CtrlCExit, SetExit, Idle, procs
  <2>11. ASSUME NEW t \in Inner, NEW before \in {"told"}, NEW label, Stop(t, before, label)
         PROVE  Dead' /\ Killed'
    BY <1>2, <2>1, <2>3, <2>11 DEF Stop, Idle, procs, quiet
  <2> QED
    BY <1>5, <2>4, <2>5, <2>6, <2>7, <2>8, <2>9, <2>10, <2>11 DEF WorkerStep
<1>6. CASE DaemonStep
  <2>1. ASSUME NEW t \in Outer, KillChild(t) PROVE Dead' /\ Killed'
    BY <1>3, <2>1, Names DEF KillChild, Move, Outer, Inner, quiet, TypeOK
  <2>2. ASSUME NEW t \in Outer, KillWorker(t) PROVE Dead' /\ Killed'
    BY <2>2, Names DEF KillWorker, Dead, Killed, Saving
  <2>3. CASE TermWrite
    <3>1. ~worker /\ worker' = worker
      BY <2>3 DEF TermWrite, Idle, Killed, procs
    <3>2. Dead'
      BY <2>3, <3>1, Names DEF TermWrite, Begin, Move, Dead, Saving, Inner, TypeOK
    <3> QED
      BY <3>1, <3>2 DEF Killed
  <2>4. CASE IntrAgain \/ IntrFinish
    BY <1>3, <2>4, Names DEF IntrAgain, IntrFinish, Begin, Move, Inner, procs, quiet, TypeOK
  <2> QED
    BY <1>6, <2>1, <2>2, <2>3, <2>4 DEF DaemonStep
<1>7. CASE Clean
  <2>1. ~worker /\ worker' = worker
    BY <1>7 DEF Clean, Stale, procs
  <2>2. Dead'
    BY <1>7, <2>1, Names DEF Clean, Begin, Dead, Saving, Inner, TypeOK
  <2> QED
    BY <2>1, <2>2 DEF Killed
<1>8. CASE ChildEnds
  BY <1>3, <1>8 DEF ChildEnds, quiet
<1>9. CASE Attach \/ Detach
  <2>1. worker
    BY <1>9 DEF Attach, Detach, Idle, Dead, Inner
  <2>2. \A u \in {"term", "clean"} : save'[u] = save[u]
    BY <1>9, Names DEF Attach, Detach, Flip, Begin, quiet, TypeOK
  <2> QED
    BY <1>2, <1>9, <2>1, <2>2 DEF Attach, Detach, procs
<1>10. CASE CtrlC
  <2>1. worker
    BY <1>10 DEF CtrlC, Idle, Dead, Inner
  <2> QED
    BY <1>2, <1>10, <2>1, Names DEF CtrlC, Begin, Move, procs, TypeOK
<1>11. CASE TermRead \/ IntrRead
  BY <1>3, <1>11, Names DEF TermRead, IntrRead, Begin, Move, Inner, procs, TypeOK
<1>12. CASE WorkerCrashes
  BY <1>4, <1>12 DEF WorkerCrashes
<1>13. CASE DaemonDies
  <2>1. worker' = worker /\ Ended({t \in Outer : at[t] # "start"})
    BY <1>13 DEF DaemonDies
  <2> QED
    BY <1>3, <2>1, Names DEF Ended, Outer, Inner
<1> QED
  BY <1>1, <1>5, <1>6, <1>7, <1>8, <1>9, <1>10, <1>11, <1>12, <1>13 DEF Next

\* The worker's own steps keep the saves in order.
LEMMA WorkerCalm ==
  ASSUME TypeOK, Dead, Calm, WorkerStep
  PROVE  Calm'
<1>1. {"main", "wait", "watch", "ctrlc"} \subseteq Inner /\ Inner \subseteq Threads
  BY Names DEF Inner
<1>2. ASSUME NEW t \in Inner, NEW before, before # "over", Idle(t, before), Begin(t, mem),
             UNCHANGED <<mem, file, tmp, seen, worker>>
      PROVE  Calm'
  <2>1. mem \in Snapshots /\ mem.exit = mem'.exit
    BY <1>2 DEF TypeOK
  <2> QED
    BY <1>2, <2>1, InnerCalm DEF Idle
<1>3. ASSUME NEW t \in Inner, NEW before, before # "over", Idle(t, before), NEW code \in Codes,
             NEW label, SetExit(t, code, label), worker' = worker
      PROVE  Calm'
  <2>1. mem' \in Snapshots /\ (mem'.exit = mem.exit \/ mem.exit = "none")
    BY <1>3, Fields DEF SetExit, Exited, TypeOK
  <2> QED
    BY <1>3, <2>1, InnerCalm DEF Idle, SetExit, disk
<1>4. CASE MainRoot \/ MainReady \/ MainFinal \/ WatchAgain \/ CtrlCKills
  BY <1>1, <1>2, <1>4 DEF MainRoot, MainReady, MainFinal, WatchAgain, CtrlCKills, disk, procs
<1>5. CASE MainLoop
  BY <1>5, QuietCalm DEF MainLoop, disk, procs, quiet
<1>6. CASE MainReturns
  BY <1>1, <1>6, EndedCalm DEF MainReturns, Ended, disk
<1>7. CASE WaitExit
  <2>1. child \in Codes
    BY <1>7, Fields DEF WaitExit, TypeOK
  <2> QED
    BY <1>1, <1>3, <1>7, <2>1 DEF WaitExit, procs
<1>8. CASE WatchKills
  BY <1>1, <1>3, <1>8, Fields DEF WatchKills
<1>9. CASE CtrlCExit
  BY <1>1, <1>3, <1>9, Fields DEF CtrlCExit, procs
<1>10. ASSUME NEW t, NEW before, NEW label, Stop(t, before, label) PROVE Calm'
  BY <1>10, QuietCalm DEF Stop, disk, procs, quiet
<1> QED
  BY <1>4, <1>5, <1>6, <1>7, <1>8, <1>9, <1>10 DEF WorkerStep

\* A snapshot that keeps the file's code, or says 130, and is marked may be
\* saved by a daemon beside a live worker; without one the mark matters not.
LEMMA OuterCalm ==
  ASSUME TypeOK, Calm, NEW t \in {"term", "intr", "clean"}, NEW x \in Snapshots,
         Begin(t, x), ~Saving(t), UNCHANGED <<mem, file, tmp, seen, worker>>,
         x.exit = "130" \/ (file # Missing /\ (file.exit = "none" \/ x.exit = file.exit)),
         worker => x.fast /\ (x.exit = "130" \/ (file # Missing /\ x.exit = file.exit))
  PROVE  Calm'
<1>1. t \in Threads /\ t \notin Inner
  BY Names DEF Inner
<1>2. held'[t] = x
  BY <1>1 DEF Begin, TypeOK
<1>3. file # Missing /\ ~torn => seen = file.exit
  BY DEF Calm, Shown
<1>4. ~torn /\ worker /\ seen \notin {"none", mem.exit} /\ file # Missing => file.exit = "130"
  BY DEF Calm, Owned, Stands
<1> QED
  BY <1>1, <1>2, <1>3, <1>4, BeginCalm DEF Stands

\* What an interrupt saves is 130, marked.
LEMMA InterruptedStands ==
  \A x : /\ Interrupted(x) \in Snapshots
        /\ Interrupted(x).exit = "130" /\ Interrupted(x).fast
BY DEF Interrupted, Snapshots, Codes

\* A step of a daemon, of a client or of nature keeps the saves in order.
LEMMA CalmStep ==
  ASSUME TypeOK, Dead, Killed, Calm, Next
  PROVE  Calm'
<1>1. CASE \E t \in Threads : Save(t)
  BY <1>1, SaveCalm
<1>2. CASE WorkerStep
  BY <1>2, WorkerCalm
<1>3. CASE DaemonStep
  <2>1. ASSUME NEW t \in Outer, KillChild(t) PROVE Calm'
    BY <2>1, QuietCalm DEF KillChild, disk, procs, quiet
  <2>2. ASSUME NEW t \in Outer, KillWorker(t) PROVE Calm'
    BY <2>2, EndedCalm, Names DEF KillWorker, disk
  <2>3. CASE TermWrite
    <3>1. ~worker
      BY <2>3 DEF TermWrite, Idle, Killed
    <3>2. Over(held["term"], "130") \in Snapshots
      BY Fields, Names DEF TypeOK
    <3>3. Over(held["term"], "130").exit = "130"
      BY DEF Over
    <3>4. Begin("term", Over(held["term"], "130")) /\ ~Saving("term")
          /\ UNCHANGED <<mem, file, tmp, seen, worker>>
      BY <2>3 DEF TermWrite, Idle, disk, procs
    <3> QED
      BY <3>1, <3>2, <3>3, <3>4, OuterCalm
  <2>4. CASE IntrAgain
    <3>1. CASE file = Missing
      BY <2>4, <3>1, QuietCalm DEF IntrAgain, disk, procs, quiet
    <3>2. CASE file # Missing
      <4>1. [file EXCEPT !.fast = TRUE] \in Snapshots
        BY <3>2, Fields DEF TypeOK
      <4>2. file \in Snapshots
        BY <3>2 DEF TypeOK
      <4>3. [file EXCEPT !.fast = TRUE].exit = file.exit /\ [file EXCEPT !.fast = TRUE].fast
        BY <4>2 DEF Snapshots
      <4> QED
        BY <2>4, <3>2, <4>1, <4>3, OuterCalm DEF IntrAgain, Idle, disk, procs
    <3> QED
      BY <3>1, <3>2
  <2>5. CASE IntrFinish
    <3>1. CASE file = Missing
      BY <2>5, <3>1, QuietCalm DEF IntrFinish, disk, procs, quiet
    <3>2. CASE file # Missing
      <4>1. Begin("intr", Interrupted(file)) /\ ~Saving("intr")
            /\ UNCHANGED <<mem, file, tmp, seen, worker>>
        BY <2>5, <3>2 DEF IntrFinish, Idle, disk, procs
      <4> QED
        BY <4>1, InterruptedStands, OuterCalm
    <3> QED
      BY <3>1, <3>2
  <2> QED
    BY <1>3, <2>1, <2>2, <2>3, <2>4, <2>5 DEF DaemonStep
<1>4. CASE Clean
  <2>1. Over(file, "137") \in Snapshots /\ ~worker
    BY <1>4, Fields DEF TypeOK, Clean, Stale
  <2> QED
    BY <1>4, <2>1, OuterCalm DEF Clean, Stale, Idle, disk, procs
<1>5. CASE ChildEnds
  BY <1>5, QuietCalm DEF ChildEnds, disk, quiet
<1>6. CASE Attach \/ Detach
  <2>1. UNCHANGED <<file, tmp, seen, worker>> /\ Idle("cli", "start")
    BY <1>6 DEF Attach, Detach, disk, procs
  <2>2. CASE UNCHANGED <<save, held, torn>> /\ mem'.exit = mem.exit
    BY <2>1, <2>2, QuietCalm
  <2>3. CASE Begin("cli", mem') /\ mem' \in Snapshots /\ mem'.exit = mem.exit
    BY <2>1, <2>3, InnerCalm DEF Idle, Inner
  <2>4. ASSUME NEW b \in BOOLEAN, Flip(b) PROVE Calm'
    <3>1. mem' \in Snapshots /\ mem'.exit = mem.exit
      BY <2>4, Fields DEF Flip, TypeOK, Snapshots
    <3> QED
      BY <2>2, <2>3, <2>4, <3>1 DEF Flip, quiet
  <2>5. CASE UNCHANGED <<mem, quiet>>
    BY <2>2, <2>5 DEF quiet
  <2> QED
    BY <1>6, <2>4, <2>5 DEF Attach, Detach
<1>7. CASE CtrlC
  <2>1. mem' \in Snapshots /\ mem'.exit = mem.exit
    BY <1>7, Fields DEF CtrlC, TypeOK, Snapshots
  <2> QED
    BY <1>7, <2>1, InnerCalm DEF CtrlC, Idle, Inner, disk, procs
<1>8. CASE TermRead
  <2>1. \A t \in Threads : Saving(t) => held'[t] = held[t]
    BY <1>8 DEF TermRead, Idle, TypeOK
  <2> QED
    BY <1>8, <2>1, QuietCalm DEF TermRead, disk, procs
<1>9. CASE IntrRead
  <2>1. Begin("intr", Interrupted(file)) /\ ~Saving("intr")
        /\ UNCHANGED <<mem, file, tmp, seen, worker>>
    BY <1>9 DEF IntrRead, Idle, disk, procs
  <2> QED
    BY <2>1, InterruptedStands, OuterCalm
<1>10. CASE WorkerCrashes
  BY <1>10, EndedCalm, Names DEF WorkerCrashes, Ended, disk
<1>11. CASE DaemonDies
  <2>1. {t \in Outer : at[t] # "start"} \in SUBSET Threads
    BY Names
  <2> QED
    BY <1>11, <2>1, EndedCalm DEF DaemonDies, Ended, disk
<1> QED
  BY <1>1, <1>2, <1>3, <1>4, <1>5, <1>6, <1>7, <1>8, <1>9, <1>10, <1>11 DEF Next

\* Readers see only what a save renames into place.
LEMMA NoSave ==
  ASSUME Next, ~\E t \in Threads : Save(t) PROVE seen' = seen
<1>1. CASE WorkerStep
  BY <1>1 DEF WorkerStep, MainRoot, MainReady, MainLoop, MainFinal, MainReturns, WaitExit,
     WatchKills, WatchAgain, CtrlCKills, CtrlCExit, SetExit, Stop, disk
<1>2. CASE DaemonStep
  BY <1>2 DEF DaemonStep, KillChild, KillWorker, TermWrite, IntrAgain, IntrFinish, disk
<1> QED
  BY <1>1, <1>2 DEF Next, Clean, ChildEnds, Attach, Detach, CtrlC, TermRead, IntrRead,
     WorkerCrashes, DaemonDies, disk

\* The exit code of a session that a reader saw changes only to the 130 of
\* terminate or interrupt, while saves neither overlap nor are cut off.
THEOREM CodeIsFinal == Spec => ExitIsFinal
<1> DEFINE IInv == TypeOK /\ Dead /\ Killed /\ Calm
<1>1. Init => IInv
  <2> SUFFICES ASSUME Init PROVE IInv
    OBVIOUS
  <2>1. \A t \in Threads : save[t] = "none"
    BY DEF Init
  <2>2. TypeOK
    BY TypeInit
  <2>3. Dead /\ Killed
    BY <2>1, Names DEF Init, Dead, Killed, Saving
  <2>4. Calm
    BY <2>1 DEF Init, Calm, Apart, Shown, Under, Owned, HeldOwned, Saving
  <2> QED
    BY <2>2, <2>3, <2>4
<1>2. IInv /\ [Next]_vars => IInv'
  <2> SUFFICES ASSUME IInv, [Next]_vars PROVE IInv'
    OBVIOUS
  <2>1. TypeOK'
    BY TypeStep
  <2>2. Dead' /\ Killed'
    BY DeadStep DEF Dead, Killed, Saving, vars, procs
  <2>3. Calm'
    <3>1. CASE Next
      BY <3>1, CalmStep
    <3>2. CASE UNCHANGED vars
      BY <3>2, QuietCalm DEF vars, procs
    <3> QED
      BY <3>1, <3>2
  <2> QED
    BY <2>1, <2>2, <2>3
<1>3. IInv /\ [Next]_vars => [~torn' /\ seen # "none" => seen' \in {seen, "130"}]_vars
  <2> SUFFICES ASSUME IInv, Next, ~torn', seen # "none" PROVE seen' \in {seen, "130"}
    OBVIOUS
  <2>1. CASE \E t \in Threads : Save(t)
    BY <2>1, SaveCalm
  <2>2. CASE ~\E t \in Threads : Save(t)
    BY <2>2, NoSave
  <2> QED
    BY <2>1, <2>2
<1> QED
  BY <1>1, <1>2, <1>3, PTL DEF Spec, ExitIsFinal
=============================================================================
