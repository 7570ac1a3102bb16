-------------------------- MODULE WorkerAttach_proofs --------------------------
(***************************************************************************)
(* Proofs about a session worker, for any number of clients and chunks,    *)
(* with or without a daemon that dies and clients that interrupt.          *)
(***************************************************************************)
EXTENDS WorkerAttach, TLAPS

\* A worker whose child has just started is well typed.
LEMMA TypeInit == Init => TypeOK
<1> SUFFICES ASSUME Init PROVE TypeOK
  OBVIOUS
<1> USE AttachAssumption DEF Init, Codes
<1>1. /\ running \in BOOLEAN /\ stopAccepting \in BOOLEAN /\ background \in BOOLEAN
      /\ pushed \in 0 .. MaxOutput /\ drain \in {"read", "grab", "send", "done"}
      /\ exiter \in [Exiters -> {"idle", "due", "latch", "stop", "send", "done"}]
      /\ grabbed \in [Senders -> Clients \cup {None}]
      /\ exit \in Codes /\ slot \in Clients \cup {None}
  <2>1. running \in BOOLEAN /\ stopAccepting \in BOOLEAN /\ background \in BOOLEAN
    OBVIOUS
  <2>2. pushed \in 0 .. MaxOutput /\ drain \in {"read", "grab", "send", "done"}
    OBVIOUS
  <2>3. /\ exiter \in [Exiters -> {"idle", "due", "latch", "stop", "send", "done"}]
        /\ grabbed \in [Senders -> Clients \cup {None}]
    OBVIOUS
  <2> QED
    BY <2>1, <2>2, <2>3
<1>2. /\ chan \in [Clients -> Seq(Messages)]
      /\ main \in {"accept", "gone"} /\ heartbeat \in {"beat", "done"}
  OBVIOUS
<1>3. /\ reader = [c \in Clients |-> "none"] /\ writer = [c \in Clients |-> "none"]
      /\ conn = [c \in Clients |-> "none"]
  OBVIOUS
<1>4. /\ from \in [Clients -> Nat] /\ interrupt \in [Clients -> BOOLEAN]
      /\ client = [c \in Clients |-> "away"]
      /\ got \in [Clients -> SUBSET (0 .. MaxOutput)] /\ told \in [Clients -> Codes]
  OBVIOUS
<1> QED
  BY <1>1, <1>2, <1>3, <1>4 DEF TypeOK

\* The first chunk of the backlog is a natural number: the drop never goes
\* below the chunks pushed.
LEMMA BacklogType ==
  ASSUME TypeOK
  PROVE  BacklogFrom \in Nat /\ BacklogFrom .. pushed \subseteq 0 .. MaxOutput
BY AttachAssumption DEF TypeOK, BacklogFrom

\* What send_to_client leaves.
LEMMA SendType ==
  ASSUME TypeOK, NEW t \in Senders, NEW m \in Messages, Send(t, m)
  PROVE  chan' \in [Clients -> Seq(Messages)] /\ grabbed' \in [Senders -> Clients \cup {None}]
<1>1. \A c \in Clients : chan[c] \in Seq(Messages) /\ Append(chan[c], m) \in Seq(Messages)
  BY DEF TypeOK
<1> DEFINE Next_(c) == IF grabbed[t] = c /\ ReceiverLives(c) THEN Append(chan[c], m) ELSE chan[c]
<1>2. \A c \in Clients : Next_(c) \in Seq(Messages)
  BY <1>1
<1>3. chan' = [c \in Clients |-> Next_(c)]
  BY DEF Send
<1>4. chan' \in [Clients -> Seq(Messages)]
  BY <1>2, <1>3
<1> QED
  BY <1>4 DEF TypeOK, Send

ReplayTypeOK ==
  /\ from \in [Clients -> Nat]
  /\ client \in [Clients -> {"away", "asking", "refused", "attached", "gone"}]
  /\ got \in [Clients -> SUBSET (0 .. MaxOutput)]
  /\ told \in [Clients -> Codes]

\* What the replay leaves.
LEMMA ReplayType ==
  ASSUME TypeOK, NEW c \in Clients, NEW code \in Codes, SendReplay(c, code)
  PROVE  ReplayTypeOK'
<1>1. from' \in [Clients -> Nat]
  BY BacklogType DEF TypeOK, SendReplay
<1>2. CASE client[c] = "asking"
  <2>1. /\ client' = [client EXCEPT ![c] = "attached"]
        /\ got' = [got EXCEPT ![c] = BacklogFrom .. pushed]
        /\ told' = [told EXCEPT ![c] = code]
    BY <1>2 DEF SendReplay
  <2>2. BacklogFrom .. pushed \in SUBSET (0 .. MaxOutput)
    BY BacklogType
  <2>3. client' \in [Clients -> {"away", "asking", "refused", "attached", "gone"}]
    BY <2>1 DEF TypeOK
  <2>4. got' \in [Clients -> SUBSET (0 .. MaxOutput)]
    BY <2>1, <2>2 DEF TypeOK
  <2>5. told' \in [Clients -> Codes]
    BY <2>1 DEF TypeOK
  <2> QED
    BY <1>1, <2>3, <2>4, <2>5 DEF ReplayTypeOK
<1>3. CASE client[c] # "asking"
  BY <1>1, <1>3 DEF TypeOK, SendReplay, ReplayTypeOK
<1> QED
  BY <1>2, <1>3

\* The conjuncts of TypeOK, by what the actions leave alone together.
SessionTypeOK ==
  /\ running \in BOOLEAN /\ stopAccepting \in BOOLEAN /\ background \in BOOLEAN
  /\ pushed \in 0 .. MaxOutput
  /\ drain \in {"read", "grab", "send", "done"}
  /\ exit \in Codes /\ slot \in Clients \cup {None}
  /\ main \in {"accept", "gone"} /\ heartbeat \in {"beat", "done"}
ExiterTypeOK == exiter \in [Exiters -> {"idle", "due", "latch", "stop", "send", "done"}]
SendingTypeOK ==
  grabbed \in [Senders -> Clients \cup {None}] /\ chan \in [Clients -> Seq(Messages)]
HandlerTypeOK ==
  /\ reader \in [Clients -> {"none", "hello", "look", "reply", "farewell", "reading", "leaving",
                            "ended", "failed"}]
  /\ writer \in [Clients -> {"none", "run", "ended"}]
ConnTypeOK ==
  /\ conn \in [Clients -> {"none", "open", "closed", "reset"}]
  /\ interrupt \in [Clients -> BOOLEAN]

\* No step of a thread or a client leaves the types.
LEMMA TypeStep == TypeOK /\ [Next]_vars => TypeOK'
<1> SUFFICES ASSUME TypeOK, [Next]_vars PROVE TypeOK'
  OBVIOUS
<1> USE AttachAssumption DEF TypeOK, Up, Codes, Senders, Exiters, output, session, exiting, sending,
        loops, handlers, clients
<1>0. CASE UNCHANGED vars
  BY <1>0 DEF vars
<1>1. ASSUME ChildExits PROVE TypeOK'
  BY <1>1 DEF ChildExits
<1>2. ASSUME DrainChunk PROVE TypeOK'
  BY <1>2 DEF DrainChunk
<1>3. ASSUME DrainEnds PROVE TypeOK'
  BY <1>3 DEF DrainEnds
<1>4. ASSUME DrainGrab PROVE TypeOK'
  BY <1>4 DEF DrainGrab, Grab
<1>5. ASSUME DrainSend PROVE TypeOK'
  <2>1. [chunk |-> pushed, exit |-> None] \in Messages
    BY DEF Messages
  <2>2. chan' \in [Clients -> Seq(Messages)] /\ grabbed' \in [Senders -> Clients \cup {None}]
    BY <1>5, <2>1, SendType DEF DrainSend
  <2> QED
    BY <1>5, <2>2 DEF DrainSend
<1>6. ASSUME ChildWaited PROVE TypeOK'
  BY <1>6 DEF ChildWaited, Goto
<1>7. ASSUME Watchdog PROVE TypeOK'
  BY <1>7 DEF Watchdog, Goto
<1>8. ASSUME Heartbeat PROVE TypeOK'
  BY <1>8 DEF Heartbeat, SlotDead, BackgroundUnlessExited
<1>9. ASSUME WorkerExits PROVE TypeOK'
  BY <1>9 DEF WorkerExits
<1>10. ASSUME NEW x \in Exiters, CleanupTree(x) PROVE TypeOK'
  BY <1>10 DEF CleanupTree, Goto
<1>11. ASSUME NEW x \in Exiters, SetExitCode(x) PROVE TypeOK'
  BY <1>11 DEF SetExitCode, Goto
<1>12. ASSUME NEW x \in Exiters, StopAccepting(x) PROVE TypeOK'
  BY <1>12 DEF StopAccepting, Goto, Grab
<1>13. ASSUME NEW x \in Exiters, SendExited(x) PROVE TypeOK'
  <2>1. [chunk |-> 0, exit |-> exit] \in Messages
    BY DEF Messages
  <2>2. chan' \in [Clients -> Seq(Messages)] /\ grabbed' \in [Senders -> Clients \cup {None}]
    BY <1>13, <2>1, SendType DEF SendExited
  <2>3. exiter' \in [Exiters -> {"idle", "due", "latch", "stop", "send", "done"}]
    BY <1>13 DEF SendExited, Goto
  <2>4. UNCHANGED <<output, session, stopAccepting, slot, loops, handlers, clients>>
    BY <1>13 DEF SendExited
  <2>5. SessionTypeOK'
    BY <2>4 DEF SessionTypeOK
  <2>6. ExiterTypeOK'
    BY <2>3 DEF ExiterTypeOK
  <2>7. SendingTypeOK'
    BY <2>2 DEF SendingTypeOK
  <2>8. HandlerTypeOK'
    BY <2>4 DEF HandlerTypeOK
  <2>9. ConnTypeOK'
    BY <2>4 DEF ConnTypeOK
  <2>10. ReplayTypeOK'
    BY <2>4 DEF ReplayTypeOK
  <2> QED
    BY <2>5, <2>6, <2>7, <2>8, <2>9, <2>10, Zenon DEF SessionTypeOK, ExiterTypeOK, SendingTypeOK, HandlerTypeOK, ConnTypeOK, ReplayTypeOK
<1>14. ASSUME NEW c \in Clients, TakeSlot(c) PROVE TypeOK'
  BY <1>14 DEF TakeSlot, ReaderGoto, SlotDead, BackgroundUnlessExited
<1>15. ASSUME NEW c \in Clients, Refuse(c) PROVE TypeOK'
  <2>1. UNCHANGED <<output, session, exiting, slot, sending, loops, writer, from, interrupt, got, told>>
    BY <1>15 DEF Refuse
  <2>2. \E to \in {"none", "ended"} : reader' = [reader EXCEPT ![c] = to]
    BY <1>15 DEF Refuse, ReaderGoto
  <2>3. \/ UNCHANGED <<client, conn>>
        \/ client' = [client EXCEPT ![c] = "refused"] /\ conn' = [conn EXCEPT ![c] = "none"]
    BY <1>15 DEF Refuse
  <2>4. reader' \in [Clients -> {"none", "hello", "look", "reply", "farewell", "reading",
                             "leaving", "ended", "failed"}]
    BY <2>2
  <2>5. /\ client' \in [Clients -> {"away", "asking", "refused", "attached", "gone"}]
        /\ conn' \in [Clients -> {"none", "open", "closed", "reset"}]
    <3>1. CASE UNCHANGED <<client, conn>>
      BY <3>1
    <3>2. CASE client' = [client EXCEPT ![c] = "refused"] /\ conn' = [conn EXCEPT ![c] = "none"]
      BY <3>2
    <3> QED
      BY <2>3, <3>1, <3>2
  <2>6. SessionTypeOK'
    BY <2>1 DEF SessionTypeOK
  <2>7. ExiterTypeOK'
    BY <2>1 DEF ExiterTypeOK
  <2>8. SendingTypeOK'
    BY <2>1 DEF SendingTypeOK
  <2>9. HandlerTypeOK'
    BY <2>1, <2>4 DEF HandlerTypeOK
  <2>10. ConnTypeOK'
    BY <2>1, <2>5 DEF ConnTypeOK
  <2>11. ReplayTypeOK'
    BY <2>1, <2>5 DEF ReplayTypeOK
  <2> QED
    BY <2>6, <2>7, <2>8, <2>9, <2>10, <2>11, Zenon DEF SessionTypeOK, ExiterTypeOK, SendingTypeOK, HandlerTypeOK, ConnTypeOK, ReplayTypeOK
<1>16. ASSUME NEW c \in Clients, Look(c) PROVE TypeOK'
  BY <1>16 DEF Look, ReaderGoto
<1>17. ASSUME NEW c \in Clients, Reply(c) PROVE TypeOK'
  <2>1. reader' = [reader EXCEPT ![c] = "reading"] /\ writer' = [writer EXCEPT ![c] = "run"]
    BY <1>17 DEF Reply, ReaderGoto
  <2>2. None \in Codes /\ SendReplay(c, None)
    BY <1>17 DEF Reply
  <2>3. ReplayTypeOK'
    BY <2>2, ReplayType
  <2>4. /\ reader' \in [Clients -> {"none", "hello", "look", "reply", "farewell", "reading",
                             "leaving", "ended", "failed"}]
        /\ writer' \in [Clients -> {"none", "run", "ended"}]
    BY <2>1
  <2>5. UNCHANGED <<output, session, exiting, slot, sending, loops, conn, interrupt>>
    BY <1>17 DEF Reply
  <2>6. SessionTypeOK'
    BY <2>5 DEF SessionTypeOK
  <2>7. ExiterTypeOK'
    BY <2>5 DEF ExiterTypeOK
  <2>8. SendingTypeOK'
    BY <2>5 DEF SendingTypeOK
  <2>9. HandlerTypeOK'
    BY <2>4 DEF HandlerTypeOK
  <2>10. ConnTypeOK'
    BY <2>5 DEF ConnTypeOK
  <2> QED
    BY <2>6, <2>7, <2>8, <2>9, <2>10, <2>3, Zenon DEF SessionTypeOK, ExiterTypeOK, SendingTypeOK, HandlerTypeOK, ConnTypeOK, ReplayTypeOK
<1>18. ASSUME NEW c \in Clients, Farewell(c) PROVE TypeOK'
  <2>1. reader' = [reader EXCEPT ![c] = "leaving"] /\ chan' = [chan EXCEPT ![c] = <<>>]
    BY <1>18 DEF Farewell, ReaderGoto
  <2>2. exit \in Codes /\ SendReplay(c, exit)
    BY <1>18 DEF Farewell
  <2>3. ReplayTypeOK'
    BY <2>2, ReplayType
  <2>4. chan' \in [Clients -> Seq(Messages)]
    BY <2>1
  <2>5. reader' \in [Clients -> {"none", "hello", "look", "reply", "farewell", "reading",
                             "leaving", "ended", "failed"}]
    BY <2>1
  <2>6. UNCHANGED <<output, session, exiting, slot, grabbed, loops, writer, conn, interrupt>>
    BY <1>18 DEF Farewell
  <2>7. SessionTypeOK'
    BY <2>6 DEF SessionTypeOK
  <2>8. ExiterTypeOK'
    BY <2>6 DEF ExiterTypeOK
  <2>9. SendingTypeOK'
    BY <2>4, <2>6 DEF SendingTypeOK
  <2>10. HandlerTypeOK'
    BY <2>5, <2>6 DEF HandlerTypeOK
  <2>11. ConnTypeOK'
    BY <2>6 DEF ConnTypeOK
  <2> QED
    BY <2>7, <2>8, <2>9, <2>10, <2>11, <2>3, Zenon DEF SessionTypeOK, ExiterTypeOK, SendingTypeOK, HandlerTypeOK, ConnTypeOK, ReplayTypeOK
<1>19. ASSUME NEW c \in Clients, ReplyFails(c) PROVE TypeOK'
  <2>1. reader' = [reader EXCEPT ![c] = "failed"] /\ chan' = [chan EXCEPT ![c] = <<>>]
    BY <1>19 DEF ReplyFails, ReaderGoto
  <2>2. chan' \in [Clients -> Seq(Messages)]
    BY <2>1
  <2> QED
    BY <1>19, <2>1, <2>2 DEF ReplyFails
<1>20. ASSUME NEW c \in Clients, ReadEnds(c) PROVE TypeOK'
  BY <1>20 DEF ReadEnds, ReaderGoto, Detach, BackgroundUnlessExited
<1>21. ASSUME NEW c \in Clients, ReadFails(c) PROVE TypeOK'
  BY <1>21 DEF ReadFails, ReaderGoto
<1>22. ASSUME NEW c \in Clients, ReadInterrupt(c) PROVE TypeOK'
  BY <1>22 DEF ReadInterrupt, ReaderGoto, Goto
<1>23. ASSUME NEW c \in Clients, WriteNext(c) PROVE TypeOK'
  <2>1. Head(chan[c]) \in Messages /\ chan' = [chan EXCEPT ![c] = Tail(chan[c])]
    BY <1>23 DEF WriteNext
  <2>2. chan' \in [Clients -> Seq(Messages)]
    BY <1>23, <2>1 DEF WriteNext
  <2>3. conn' \in [Clients -> {"none", "open", "closed", "reset"}]
    BY <1>23 DEF WriteNext
  <2>4. got' \in [Clients -> SUBSET (0 .. MaxOutput)] /\ told' \in [Clients -> Codes]
    <3> DEFINE m == Head(chan[c])
    <3>1. m.chunk \in 0 .. MaxOutput /\ m.exit \in Codes
      BY <2>1 DEF Messages
    <3>2. CASE Deliver(c, m)
      <4>1. \/ got' = [got EXCEPT ![c] = got[c] \cup {m.chunk}] /\ UNCHANGED told
            \/ told' = [told EXCEPT ![c] = m.exit] /\ UNCHANGED got
        BY <3>2 DEF Deliver
      <4>2. got[c] \cup {m.chunk} \in SUBSET (0 .. MaxOutput)
        BY <3>1
      <4> HIDE DEF m
      <4>3. CASE got' = [got EXCEPT ![c] = got[c] \cup {m.chunk}] /\ UNCHANGED told
        <5>1. got' \in [Clients -> SUBSET (0 .. MaxOutput)]
          BY <4>2, <4>3
        <5> QED
          BY <4>3, <5>1
      <4>4. CASE told' = [told EXCEPT ![c] = m.exit] /\ UNCHANGED got
        BY <3>1, <4>4
      <4> QED
        BY <4>1, <4>3, <4>4
    <3>3. CASE UNCHANGED <<got, told>>
      BY <3>3
    <3> QED
      BY <1>23, <3>2, <3>3 DEF WriteNext
  <2>5. UNCHANGED <<output, session, exiting, slot, grabbed, loops, handlers, interrupt, client>>
    BY <1>23 DEF WriteNext
  <2>6. SessionTypeOK'
    BY <2>5 DEF SessionTypeOK
  <2>7. ExiterTypeOK'
    BY <2>5 DEF ExiterTypeOK
  <2>8. SendingTypeOK'
    BY <2>2, <2>5 DEF SendingTypeOK
  <2>9. HandlerTypeOK'
    BY <2>5 DEF HandlerTypeOK
  <2>10. ConnTypeOK'
    BY <2>3, <2>5 DEF ConnTypeOK
  <2>11. ReplayTypeOK'
    BY <2>4, <2>5 DEF ReplayTypeOK
  <2> QED
    BY <2>6, <2>7, <2>8, <2>9, <2>10, <2>11, Zenon DEF SessionTypeOK, ExiterTypeOK, SendingTypeOK, HandlerTypeOK, ConnTypeOK, ReplayTypeOK
<1>24. ASSUME NEW c \in Clients, WriterEnds(c) PROVE TypeOK'
  BY <1>24 DEF WriterEnds, Detach, BackgroundUnlessExited
<1>25. ASSUME NEW c \in Clients, Connect(c) PROVE TypeOK'
  BY <1>25 DEF Connect, ClientGoto, ReaderGoto
<1>26. ASSUME NEW c \in Clients, GiveUp(c) PROVE TypeOK'
  <2>1. client' = [client EXCEPT ![c] = "gone"] /\ got' = [got EXCEPT ![c] = {}]
        /\ told' = [told EXCEPT ![c] = None]
    BY <1>26 DEF GiveUp, ClientGoto
  <2>2. UNCHANGED <<output, session, exiting, slot, sending, loops, handlers, conn, interrupt>>
    BY <1>26 DEF GiveUp, ClientGoto
  <2> QED
    BY <2>1, <2>2
<1>27. ASSUME NEW c \in Clients, Leave(c) PROVE TypeOK'
  <2>1. conn' \in [Clients -> {"none", "open", "closed", "reset"}]
    BY <1>27 DEF Leave, Close
  <2>2. client' = [client EXCEPT ![c] = "gone"] /\ got' = [got EXCEPT ![c] = {}]
        /\ told' = [told EXCEPT ![c] = None]
    BY <1>27 DEF Leave, ClientGoto
  <2>3. UNCHANGED <<output, session, exiting, slot, sending, loops, handlers, interrupt>>
    BY <1>27 DEF Leave, ClientGoto, Close
  <2>4. SessionTypeOK'
    BY <2>3 DEF SessionTypeOK
  <2>5. ExiterTypeOK'
    BY <2>3 DEF ExiterTypeOK
  <2>6. SendingTypeOK'
    BY <2>3 DEF SendingTypeOK
  <2>7. HandlerTypeOK'
    BY <2>3 DEF HandlerTypeOK
  <2>8. ConnTypeOK'
    BY <2>1, <2>3 DEF ConnTypeOK
  <2>9. ReplayTypeOK'
    BY <2>2, <2>3 DEF ReplayTypeOK
  <2> QED
    BY <2>4, <2>5, <2>6, <2>7, <2>8, <2>9, Zenon DEF SessionTypeOK, ExiterTypeOK, SendingTypeOK, HandlerTypeOK, ConnTypeOK, ReplayTypeOK
<1>28. ASSUME NEW c \in Clients, EndsOnExited(c) PROVE TypeOK'
  <2>1. conn' \in [Clients -> {"none", "open", "closed", "reset"}]
    BY <1>28 DEF EndsOnExited, Close
  <2>2. client' = [client EXCEPT ![c] = "gone"] /\ got' = [got EXCEPT ![c] = {}]
        /\ told' = [told EXCEPT ![c] = None]
    BY <1>28 DEF EndsOnExited, ClientGoto
  <2>3. UNCHANGED <<output, session, exiting, slot, sending, loops, handlers, interrupt>>
    BY <1>28 DEF EndsOnExited, ClientGoto, Close
  <2>4. SessionTypeOK'
    BY <2>3 DEF SessionTypeOK
  <2>5. ExiterTypeOK'
    BY <2>3 DEF ExiterTypeOK
  <2>6. SendingTypeOK'
    BY <2>3 DEF SendingTypeOK
  <2>7. HandlerTypeOK'
    BY <2>3 DEF HandlerTypeOK
  <2>8. ConnTypeOK'
    BY <2>1, <2>3 DEF ConnTypeOK
  <2>9. ReplayTypeOK'
    BY <2>2, <2>3 DEF ReplayTypeOK
  <2> QED
    BY <2>4, <2>5, <2>6, <2>7, <2>8, <2>9, Zenon DEF SessionTypeOK, ExiterTypeOK, SendingTypeOK, HandlerTypeOK, ConnTypeOK, ReplayTypeOK
<1>29. ASSUME NEW c \in Clients, Interrupt(c) PROVE TypeOK'
  <2>1. client' = [client EXCEPT ![c] = "gone"] /\ got' = [got EXCEPT ![c] = {}]
        /\ told' = [told EXCEPT ![c] = None]
    BY <1>29 DEF Interrupt, ClientGoto
  <2>2. interrupt' = [interrupt EXCEPT ![c] = TRUE] /\ conn' = [conn EXCEPT ![c] = "closed"]
    BY <1>29 DEF Interrupt
  <2>3. UNCHANGED <<output, session, exiting, slot, sending, loops, handlers>>
    BY <1>29 DEF Interrupt, ClientGoto
  <2>4. SessionTypeOK'
    BY <2>3 DEF SessionTypeOK
  <2>5. ExiterTypeOK'
    BY <2>3 DEF ExiterTypeOK
  <2>6. SendingTypeOK'
    BY <2>3 DEF SendingTypeOK
  <2>7. HandlerTypeOK'
    BY <2>3 DEF HandlerTypeOK
  <2>8. ConnTypeOK'
    BY <2>2 DEF ConnTypeOK
  <2>9. ReplayTypeOK'
    BY <2>1, <2>3 DEF ReplayTypeOK
  <2> QED
    BY <2>4, <2>5, <2>6, <2>7, <2>8, <2>9, Zenon DEF SessionTypeOK, ExiterTypeOK, SendingTypeOK, HandlerTypeOK, ConnTypeOK, ReplayTypeOK
<1> QED
  BY <1>0, <1>1, <1>2, <1>3, <1>4, <1>5, <1>6, <1>7, <1>8, <1>9, <1>10, <1>11, <1>12, <1>13, <1>14, <1>15,
      <1>16, <1>17, <1>18, <1>19, <1>20, <1>21, <1>22, <1>23, <1>24, <1>25, <1>26, <1>27, <1>28, <1>29
  DEF Next, Drain, Exiter, Reader, Writer, ClientStep

\* The bookkeeping of a worker keeps its types.
THEOREM TypeCorrect == Spec => []TypeOK
<1>1. Init => TypeOK
  BY TypeInit
<1>2. TypeOK /\ [Next]_vars => TypeOK'
  BY TypeStep
<1> QED
  BY <1>1, <1>2, PTL DEF Spec

-----------------------------------------------------------------------------
(* One exit code.  Until the first thread of broadcast_exit sets it, nobody  *)
(* has sent a code; from then on it does not change.                         *)

SentCode ==
  \A c \in Clients : \A i \in DOMAIN chan[c] : chan[c][i].exit \in {None, exit}

CodeInv == OneExitCode /\ SentCode

\* A send keeps the codes in all channels to the one that is set.
LEMMA SendCode ==
  ASSUME TypeOK, SentCode, exit' = exit, NEW t \in Senders,
         NEW m \in Messages, m.exit \in {None, exit}, Send(t, m)
  PROVE  SentCode'
<1> SUFFICES ASSUME NEW c \in Clients, NEW i \in DOMAIN chan'[c]
             PROVE  chan'[c][i].exit \in {None, exit}
  BY DEF SentCode
<1>1. chan[c] \in Seq(Messages) /\ \A j \in DOMAIN chan[c] : chan[c][j].exit \in {None, exit}
  BY DEF TypeOK, SentCode
<1>2. chan'[c] = chan[c] \/ chan'[c] = Append(chan[c], m)
  BY DEF Send
<1>3. CASE chan'[c] = chan[c]
  BY <1>1, <1>3
<1>4. CASE chan'[c] = Append(chan[c], m)
  <2> DEFINE q == chan[c]
  <2>1. /\ q \in Seq(Messages) /\ \A j \in DOMAIN q : q[j].exit \in {None, exit}
        /\ i \in DOMAIN Append(q, m) /\ chan'[c][i] = Append(q, m)[i]
    BY <1>1, <1>4
  <2> HIDE DEF q
  <2>2. /\ DOMAIN q = 1 .. Len(q) /\ Len(q) \in Nat /\ i \in 1 .. Len(q) + 1
        /\ \A j \in 1 .. Len(q) : Append(q, m)[j] = q[j]
        /\ Append(q, m)[Len(q) + 1] = m
    BY <2>1
  <2>3. CASE i = Len(q) + 1
    BY <2>1, <2>2, <2>3
  <2>4. CASE i # Len(q) + 1
    <3>1. i \in 1 .. Len(q)
      BY <2>2, <2>4
    <3> QED
      BY <2>1, <2>2, <3>1
  <2> QED
    BY <2>3, <2>4
<1> QED
  BY <1>2, <1>3, <1>4

\* Telling a client the code that is set keeps OneExitCode.
LEMMA TellCode ==
  ASSUME TypeOK, OneExitCode, exit' = exit, NEW c \in Clients, NEW code \in {None, exit},
         told' = [told EXCEPT ![c] = code]
  PROVE  OneExitCode'
BY DEF TypeOK, OneExitCode

\* No step sets a second code or puts another into a channel.
LEMMA CodeStep == TypeOK /\ TypeOK' /\ CodeInv /\ [Next]_vars => CodeInv'
<1> SUFFICES ASSUME TypeOK, TypeOK', CodeInv, [Next]_vars PROVE CodeInv'
  OBVIOUS
<1> USE AttachAssumption DEF output, session, exiting, sending, loops, handlers, clients, Exiters, Senders
<1>0. CASE UNCHANGED vars
  BY <1>0 DEF vars, CodeInv, OneExitCode, SentCode
<1>1. ASSUME ChildExits PROVE CodeInv'
  BY <1>1 DEF ChildExits, TypeOK, CodeInv, OneExitCode, SentCode, Codes
<1>2. ASSUME DrainChunk PROVE CodeInv'
  BY <1>2 DEF DrainChunk, TypeOK, CodeInv, OneExitCode, SentCode, Codes
<1>3. ASSUME DrainEnds PROVE CodeInv'
  BY <1>3 DEF DrainEnds, TypeOK, CodeInv, OneExitCode, SentCode, Codes
<1>4. ASSUME DrainGrab PROVE CodeInv'
  BY <1>4 DEF DrainGrab, Grab, TypeOK, CodeInv, OneExitCode, SentCode, Codes
<1>5. ASSUME DrainSend PROVE CodeInv'
  <2>1. [chunk |-> pushed, exit |-> None] \in Messages
    BY DEF TypeOK, Messages, Codes
  <2>2. UNCHANGED <<told, exit>>
    BY <1>5 DEF DrainSend
  <2> QED
    BY <1>5, <2>1, <2>2, SendCode DEF DrainSend, CodeInv, OneExitCode
<1>6. ASSUME ChildWaited PROVE CodeInv'
  BY <1>6 DEF ChildWaited, Goto, TypeOK, CodeInv, OneExitCode, SentCode, Codes
<1>7. ASSUME Watchdog PROVE CodeInv'
  BY <1>7 DEF Watchdog, Goto, TypeOK, CodeInv, OneExitCode, SentCode, Codes
<1>8. ASSUME Heartbeat PROVE CodeInv'
  BY <1>8 DEF Heartbeat, SlotDead, BackgroundUnlessExited, TypeOK, CodeInv, OneExitCode, SentCode, Codes
<1>9. ASSUME WorkerExits PROVE CodeInv'
  BY <1>9 DEF WorkerExits, TypeOK, CodeInv, OneExitCode, SentCode, Codes
<1>10. ASSUME NEW x \in Exiters, CleanupTree(x) PROVE CodeInv'
  BY <1>10 DEF CleanupTree, Goto, TypeOK, CodeInv, OneExitCode, SentCode, Codes
<1>11. ASSUME NEW x \in Exiters, SetExitCode(x) PROVE CodeInv'
  BY <1>11 DEF SetExitCode, Goto, TypeOK, CodeInv, OneExitCode, SentCode, Codes
<1>12. ASSUME NEW x \in Exiters, StopAccepting(x) PROVE CodeInv'
  BY <1>12 DEF StopAccepting, Goto, Grab, TypeOK, CodeInv, OneExitCode, SentCode, Codes
<1>13. ASSUME NEW x \in Exiters, SendExited(x) PROVE CodeInv'
  <2>1. [chunk |-> 0, exit |-> exit] \in Messages
    BY DEF TypeOK, Messages
  <2>2. UNCHANGED <<told, exit>>
    BY <1>13 DEF SendExited
  <2> QED
    BY <1>13, <2>1, <2>2, SendCode DEF SendExited, CodeInv, OneExitCode
<1>14. ASSUME NEW c \in Clients, TakeSlot(c) PROVE CodeInv'
  BY <1>14 DEF TakeSlot, ReaderGoto, SlotDead, BackgroundUnlessExited, TypeOK, CodeInv, OneExitCode, SentCode, Codes
<1>15. ASSUME NEW c \in Clients, Refuse(c) PROVE CodeInv'
  BY <1>15 DEF Refuse, ReaderGoto, TypeOK, CodeInv, OneExitCode, SentCode, Codes
<1>16. ASSUME NEW c \in Clients, Look(c) PROVE CodeInv'
  BY <1>16 DEF Look, ReaderGoto, TypeOK, CodeInv, OneExitCode, SentCode, Codes
<1>17. ASSUME NEW c \in Clients, Reply(c) PROVE CodeInv'
  <2>1. UNCHANGED <<chan, exit>> /\ (UNCHANGED told \/ told' = [told EXCEPT ![c] = None])
    BY <1>17 DEF Reply, SendReplay
  <2> QED
    BY <2>1, TellCode DEF CodeInv, SentCode, OneExitCode
<1>18. ASSUME NEW c \in Clients, Farewell(c) PROVE CodeInv'
  <2>1. /\ UNCHANGED exit /\ chan' = [chan EXCEPT ![c] = <<>>]
        /\ UNCHANGED told \/ told' = [told EXCEPT ![c] = exit]
    BY <1>18 DEF Farewell, SendReplay
  <2>2. OneExitCode'
    BY <2>1, TellCode DEF CodeInv, OneExitCode
  <2>3. SentCode'
    BY <2>1 DEF TypeOK, CodeInv, SentCode
  <2> QED
    BY <2>2, <2>3 DEF CodeInv
<1>19. ASSUME NEW c \in Clients, ReplyFails(c) PROVE CodeInv'
  BY <1>19 DEF ReplyFails, ReaderGoto, TypeOK, CodeInv, OneExitCode, SentCode, Codes
<1>20. ASSUME NEW c \in Clients, ReadEnds(c) PROVE CodeInv'
  BY <1>20 DEF ReadEnds, ReaderGoto, Detach, BackgroundUnlessExited, TypeOK, CodeInv, OneExitCode, SentCode, Codes
<1>21. ASSUME NEW c \in Clients, ReadFails(c) PROVE CodeInv'
  BY <1>21 DEF ReadFails, ReaderGoto, TypeOK, CodeInv, OneExitCode, SentCode, Codes
<1>22. ASSUME NEW c \in Clients, ReadInterrupt(c) PROVE CodeInv'
  BY <1>22 DEF ReadInterrupt, ReaderGoto, Goto, TypeOK, CodeInv, OneExitCode, SentCode, Codes
<1>23. ASSUME NEW c \in Clients, WriteNext(c) PROVE CodeInv'
  <2>1. /\ UNCHANGED exit /\ chan[c] # <<>> /\ chan' = [chan EXCEPT ![c] = Tail(chan[c])]
        /\ UNCHANGED told \/ told' = [told EXCEPT ![c] = Head(chan[c]).exit]
    BY <1>23 DEF WriteNext, Deliver
  <2>2. chan[c] \in Seq(Messages) /\ \A i \in DOMAIN chan[c] : chan[c][i].exit \in {None, exit}
    BY DEF TypeOK, CodeInv, SentCode
  <2>3. Head(chan[c]).exit \in {None, exit}
    BY <2>1, <2>2
  <2>4. \A i \in DOMAIN Tail(chan[c]) : Tail(chan[c])[i].exit \in {None, exit}
    BY <2>1, <2>2
  <2>5. OneExitCode'
    BY <2>1, <2>3, TellCode DEF CodeInv, OneExitCode
  <2>6. SentCode'
    <3> SUFFICES ASSUME NEW d \in Clients
                 PROVE  \A i \in DOMAIN chan'[d] : chan'[d][i].exit \in {None, exit}
      BY <2>1 DEF SentCode
    <3>1. CASE d = c
      <4>1. chan'[d] = Tail(chan[c])
        BY <2>1, <3>1 DEF TypeOK
      <4> QED
        BY <2>4, <4>1
    <3>2. CASE d # c
      <4>1. chan'[d] = chan[d]
        BY <2>1, <3>2 DEF TypeOK
      <4> QED
        BY <4>1 DEF CodeInv, SentCode
    <3> QED
      BY <3>1, <3>2
  <2> QED
    BY <2>5, <2>6 DEF CodeInv
<1>24. ASSUME NEW c \in Clients, WriterEnds(c) PROVE CodeInv'
  BY <1>24 DEF WriterEnds, Detach, BackgroundUnlessExited, TypeOK, CodeInv, OneExitCode, SentCode, Codes
<1>25. ASSUME NEW c \in Clients, Connect(c) PROVE CodeInv'
  BY <1>25 DEF Connect, ClientGoto, ReaderGoto, TypeOK, CodeInv, OneExitCode, SentCode, Codes
<1>26. ASSUME NEW c \in Clients, GiveUp(c) PROVE CodeInv'
  <2>1. told' = [told EXCEPT ![c] = None] /\ UNCHANGED <<chan, exit>>
    BY <1>26 DEF GiveUp, ClientGoto
  <2> QED
    BY <2>1, TellCode DEF CodeInv, SentCode
<1>27. ASSUME NEW c \in Clients, Leave(c) PROVE CodeInv'
  <2>1. told' = [told EXCEPT ![c] = None] /\ UNCHANGED <<chan, exit>>
    BY <1>27 DEF Leave, ClientGoto
  <2> QED
    BY <2>1, TellCode DEF CodeInv, SentCode
<1>28. ASSUME NEW c \in Clients, EndsOnExited(c) PROVE CodeInv'
  <2>1. told' = [told EXCEPT ![c] = None] /\ UNCHANGED <<chan, exit>>
    BY <1>28 DEF EndsOnExited, ClientGoto
  <2> QED
    BY <2>1, TellCode DEF CodeInv, SentCode
<1>29. ASSUME NEW c \in Clients, Interrupt(c) PROVE CodeInv'
  <2>1. told' = [told EXCEPT ![c] = None] /\ UNCHANGED <<chan, exit>>
    BY <1>29 DEF Interrupt, ClientGoto
  <2> QED
    BY <2>1, TellCode DEF CodeInv, SentCode
<1> QED
  BY <1>0, <1>1, <1>2, <1>3, <1>4, <1>5, <1>6, <1>7, <1>8, <1>9, <1>10, <1>11, <1>12, <1>13, <1>14, <1>15,
      <1>16, <1>17, <1>18, <1>19, <1>20, <1>21, <1>22, <1>23, <1>24, <1>25, <1>26, <1>27, <1>28, <1>29
  DEF Next, Drain, Exiter, Reader, Writer, ClientStep

\* Whichever thread ends the session first, every client is told its code.
THEOREM OneCodeTold == Spec => []OneExitCode
<1>1. Init => CodeInv
  BY DEF Init, CodeInv, OneExitCode, SentCode
<1>2. TypeOK /\ TypeOK' /\ CodeInv /\ [Next]_vars => CodeInv'
  BY CodeStep
<1>3. CodeInv => OneExitCode
  BY DEF CodeInv
<1> QED
  BY <1>1, <1>2, <1>3, TypeCorrect, PTL DEF Spec

-----------------------------------------------------------------------------
(* One client.  A living client that was answered, and one whose handler is  *)
(* about to answer it, has the slot: it is never evicted, and its handler    *)
(* detaches it only after it was told of the exit or left.                   *)

LiveIsOpen ==
  \A c \in Clients : client[c] \in {"asking", "attached"} => conn[c] = "open"
InterruptsLast == \A c \in Clients : interrupt[c] => client[c] = "gone"
HandledHasSlot ==
  \A c \in Clients :
    reader[c] \in {"look", "reply", "farewell", "reading"} /\ conn[c] = "open" => slot = c
AttachedIsRead ==
  \A c \in Clients : client[c] = "attached" /\ told[c] = None => reader[c] = "reading"
FarewellAfterExit == \A c \in Clients : reader[c] = "farewell" => exit # None

SlotInv == LiveIsOpen /\ InterruptsLast /\ HandledHasSlot /\ AttachedIsRead /\ FarewellAfterExit

\* No attach, eviction, late detach or departure breaks SlotInv.
LEMMA SlotStep == TypeOK /\ SlotInv /\ [Next]_vars => SlotInv'
<1> SUFFICES ASSUME TypeOK, SlotInv, [Next]_vars PROVE SlotInv'
  OBVIOUS
<1> USE AttachAssumption DEF TypeOK, SlotInv, LiveIsOpen, InterruptsLast, HandledHasSlot, AttachedIsRead,
        FarewellAfterExit, Codes, Senders, Exiters, output, session, exiting, sending, loops,
        handlers, clients
<1>0. CASE UNCHANGED vars
  BY <1>0 DEF vars
<1>1. ASSUME ChildExits PROVE SlotInv'
  BY <1>1 DEF ChildExits
<1>2. ASSUME DrainChunk PROVE SlotInv'
  BY <1>2 DEF DrainChunk
<1>3. ASSUME DrainEnds PROVE SlotInv'
  BY <1>3 DEF DrainEnds
<1>4. ASSUME DrainGrab PROVE SlotInv'
  BY <1>4 DEF DrainGrab, Grab
<1>5. ASSUME DrainSend PROVE SlotInv'
  BY <1>5 DEF DrainSend, Send
<1>6. ASSUME ChildWaited PROVE SlotInv'
  BY <1>6 DEF ChildWaited, Goto
<1>7. ASSUME Watchdog PROVE SlotInv'
  BY <1>7 DEF Watchdog, Goto
<1>8. ASSUME Heartbeat PROVE SlotInv'
  BY <1>8 DEF Heartbeat, SlotDead, BackgroundUnlessExited
<1>9. ASSUME WorkerExits PROVE SlotInv'
  BY <1>9 DEF WorkerExits
<1>10. ASSUME NEW x \in Exiters, CleanupTree(x) PROVE SlotInv'
  BY <1>10 DEF CleanupTree, Goto
<1>11. ASSUME NEW x \in Exiters, SetExitCode(x) PROVE SlotInv'
  BY <1>11 DEF SetExitCode, Goto
<1>12. ASSUME NEW x \in Exiters, StopAccepting(x) PROVE SlotInv'
  BY <1>12 DEF StopAccepting, Goto, Grab
<1>13. ASSUME NEW x \in Exiters, SendExited(x) PROVE SlotInv'
  BY <1>13 DEF SendExited, Goto, Send
<1>14. ASSUME NEW c \in Clients, TakeSlot(c) PROVE SlotInv'
  BY <1>14 DEF TakeSlot, ReaderGoto, SlotDead, BackgroundUnlessExited
<1>15. ASSUME NEW c \in Clients, Refuse(c) PROVE SlotInv'
  <2>1. CASE client[c] = "asking"
    <3>1. /\ reader' = [reader EXCEPT ![c] = "none"] /\ client' = [client EXCEPT ![c] = "refused"]
          /\ conn' = [conn EXCEPT ![c] = "none"] /\ UNCHANGED <<slot, told, interrupt, exit>>
          /\ ~interrupt[c]
      BY <1>15, <2>1 DEF Refuse, ReaderGoto
    <3> QED
      BY <3>1
  <2>2. CASE client[c] # "asking"
    <3>1. /\ reader' = [reader EXCEPT ![c] = "ended"] /\ reader[c] = "hello"
          /\ UNCHANGED <<slot, told, interrupt, exit, client, conn>>
      BY <1>15, <2>2 DEF Refuse, ReaderGoto
    <3> QED
      BY <3>1
  <2> QED
    BY <2>1, <2>2
<1>16. ASSUME NEW c \in Clients, Look(c) PROVE SlotInv'
  BY <1>16 DEF Look, ReaderGoto
<1>17. ASSUME NEW c \in Clients, Reply(c) PROVE SlotInv'
  BY <1>17 DEF Reply, ReaderGoto, SendReplay
<1>18. ASSUME NEW c \in Clients, Farewell(c) PROVE SlotInv'
  BY <1>18 DEF Farewell, ReaderGoto, SendReplay
<1>19. ASSUME NEW c \in Clients, ReplyFails(c) PROVE SlotInv'
  BY <1>19 DEF ReplyFails, ReaderGoto
<1>20. ASSUME NEW c \in Clients, ReadEnds(c) PROVE SlotInv'
  BY <1>20 DEF ReadEnds, ReaderGoto, Detach, BackgroundUnlessExited
<1>21. ASSUME NEW c \in Clients, ReadFails(c) PROVE SlotInv'
  BY <1>21 DEF ReadFails, ReaderGoto
<1>22. ASSUME NEW c \in Clients, ReadInterrupt(c) PROVE SlotInv'
  BY <1>22 DEF ReadInterrupt, ReaderGoto, Goto
<1>23. ASSUME NEW c \in Clients, WriteNext(c) PROVE SlotInv'
  <2>1. /\ UNCHANGED <<session, slot, reader, interrupt, client>>
        /\ \/ conn[c] = "open" /\ UNCHANGED conn
           \/ conn[c] = "closed" /\ conn' = [conn EXCEPT ![c] = "reset"] /\ UNCHANGED told
    BY <1>23 DEF WriteNext
  <2>2. UNCHANGED told \/ \E code : told' = [told EXCEPT ![c] = code] /\ code # None
    BY <1>23 DEF WriteNext, Deliver
  <2>3. LiveIsOpen' /\ InterruptsLast' /\ HandledHasSlot' /\ FarewellAfterExit'
    BY <2>1
  <2>4. AttachedIsRead'
    BY <2>1, <2>2
  <2> QED
    BY <2>3, <2>4
<1>24. ASSUME NEW c \in Clients, WriterEnds(c) PROVE SlotInv'
  BY <1>24 DEF WriterEnds, Detach, BackgroundUnlessExited
<1>25. ASSUME NEW c \in Clients, Connect(c) PROVE SlotInv'
  <2>1. /\ reader' = [reader EXCEPT ![c] = "hello"] /\ client' = [client EXCEPT ![c] = "asking"]
        /\ conn' = [conn EXCEPT ![c] = "open"] /\ UNCHANGED <<slot, told, interrupt, exit>>
        /\ client[c] # "gone"
    BY <1>25 DEF Connect, ClientGoto, ReaderGoto
  <2> QED
    BY <2>1
<1>26. ASSUME NEW c \in Clients, GiveUp(c) PROVE SlotInv'
  BY <1>26 DEF GiveUp, ClientGoto
<1>27. ASSUME NEW c \in Clients, Leave(c) PROVE SlotInv'
  BY <1>27 DEF Leave, ClientGoto, Close
<1>28. ASSUME NEW c \in Clients, EndsOnExited(c) PROVE SlotInv'
  BY <1>28 DEF EndsOnExited, ClientGoto, Close
<1>29. ASSUME NEW c \in Clients, Interrupt(c) PROVE SlotInv'
  BY <1>29 DEF Interrupt, ClientGoto
<1> QED
  BY <1>0, <1>1, <1>2, <1>3, <1>4, <1>5, <1>6, <1>7, <1>8, <1>9, <1>10, <1>11, <1>12, <1>13, <1>14, <1>15,
      <1>16, <1>17, <1>18, <1>19, <1>20, <1>21, <1>22, <1>23, <1>24, <1>25, <1>26, <1>27, <1>28, <1>29
  DEF Next, Drain, Exiter, Reader, Writer, ClientStep

\* The single-client slot: two living clients are never both attached to a
\* session that goes on, whatever dies, is evicted, refused or detached late.
THEOREM OneClientAttached == Spec => []OneAttached
<1>1. Init => SlotInv
  BY DEF Init, SlotInv, LiveIsOpen, InterruptsLast, HandledHasSlot, AttachedIsRead, FarewellAfterExit
<1>2. TypeOK /\ SlotInv /\ [Next]_vars => SlotInv'
  BY SlotStep
<1>3. SlotInv => OneAttached
  BY DEF SlotInv, OneAttached, LiveIsOpen, InterruptsLast, HandledHasSlot, AttachedIsRead
<1> QED
  BY <1>1, <1>2, <1>3, TypeCorrect, PTL DEF Spec

-----------------------------------------------------------------------------
(* Every chunk before the exit.  A chunk that the drain thread pushed while  *)
(* a client was attached has reached the client, waits in its channel before *)
(* any exit, or is on its way there; and once the wait thread has ended the  *)
(* session, nothing is on its way.                                           *)

ChunkMessage(k) == [chunk |-> k, exit |-> None]

\* The client has chunk k, or has it in the first n messages of its channel.
Has(c, n, k) == k \in got[c] \/ \E j \in 1 .. n : chan[c][j] = ChunkMessage(k)

\* The drain thread has pushed chunk k and has yet to send it.
OnItsWay(c, k) == k = pushed /\ (drain = "grab" \/ (drain = "send" /\ grabbed["drain"] = c))

Served(c) == client[c] = "attached" /\ told[c] = None

Answered == {"reading", "leaving", "ended", "failed"}

DrainJoined == exiter["wait"] # "idle" \/ exit = "wait" => drain = "done"
HandlerFollows ==
  \A c \in Clients :
    /\ client[c] \in {"away", "refused"} => reader[c] = "none"
    /\ client[c] = "asking" => reader[c] \in {"hello", "look", "reply", "farewell"}
    /\ client[c] = "attached" => reader[c] \in Answered
WriterRuns ==
  \A c \in Clients :
    /\ Served(c) => writer[c] = "run"
    /\ writer[c] = "run" => reader[c] \in Answered
ToldIsAttached ==
  \A c \in Clients :
    /\ conn[c] = "open" => client[c] \in {"asking", "attached"}
    /\ told[c] # None => client[c] = "attached"

HandlerInv == DrainJoined /\ HandlerFollows /\ WriterRuns /\ ToldIsAttached

NoChunkLost(c) ==
  Served(c) => \A k \in from[c] .. pushed : Has(c, Len(chan[c]), k) \/ OnItsWay(c, k)
ExitComesLast(c) ==
  Served(c) /\ exit = "wait" =>
    \A i \in DOMAIN chan[c] : chan[c][i].exit # None =>
      \A k \in from[c] .. pushed : Has(c, i - 1, k)
Complete(c) == told[c] = "wait" => from[c] .. pushed \subseteq got[c]

ClientChunks(c) == NoChunkLost(c) /\ ExitComesLast(c) /\ Complete(c)
ChunkInv == \A c \in Clients : ClientChunks(c)

\* No step takes a client that waits for output from its handler.
LEMMA HandlerStep == TypeOK /\ SlotInv /\ HandlerInv /\ [Next]_vars => HandlerInv'
<1> SUFFICES ASSUME TypeOK, SlotInv, HandlerInv, [Next]_vars PROVE HandlerInv'
  OBVIOUS
<1> USE AttachAssumption DEF TypeOK, SlotInv, LiveIsOpen, InterruptsLast, HandledHasSlot, AttachedIsRead,
        FarewellAfterExit, HandlerInv, DrainJoined, HandlerFollows, WriterRuns,
        ToldIsAttached, Served, Answered, Codes, Senders, Exiters, output, session, exiting, sending, loops,
        handlers, clients
<1>0. CASE UNCHANGED vars
  BY <1>0 DEF vars
<1>1. ASSUME ChildExits PROVE HandlerInv'
  BY <1>1 DEF ChildExits
<1>2. ASSUME DrainChunk PROVE HandlerInv'
  BY <1>2 DEF DrainChunk
<1>3. ASSUME DrainEnds PROVE HandlerInv'
  BY <1>3 DEF DrainEnds
<1>4. ASSUME DrainGrab PROVE HandlerInv'
  BY <1>4 DEF DrainGrab, Grab
<1>5. ASSUME DrainSend PROVE HandlerInv'
  BY <1>5 DEF DrainSend, Send
<1>6. ASSUME ChildWaited PROVE HandlerInv'
  BY <1>6 DEF ChildWaited, Goto
<1>7. ASSUME Watchdog PROVE HandlerInv'
  BY <1>7 DEF Watchdog, Goto
<1>8. ASSUME Heartbeat PROVE HandlerInv'
  BY <1>8 DEF Heartbeat, SlotDead, BackgroundUnlessExited
<1>9. ASSUME WorkerExits PROVE HandlerInv'
  BY <1>9 DEF WorkerExits
<1>10. ASSUME NEW x \in Exiters, CleanupTree(x) PROVE HandlerInv'
  BY <1>10 DEF CleanupTree, Goto
<1>11. ASSUME NEW x \in Exiters, SetExitCode(x) PROVE HandlerInv'
  BY <1>11 DEF SetExitCode, Goto
<1>12. ASSUME NEW x \in Exiters, StopAccepting(x) PROVE HandlerInv'
  BY <1>12 DEF StopAccepting, Goto, Grab
<1>13. ASSUME NEW x \in Exiters, SendExited(x) PROVE HandlerInv'
  BY <1>13 DEF SendExited, Goto, Send
<1>14. ASSUME NEW c \in Clients, TakeSlot(c) PROVE HandlerInv'
  BY <1>14 DEF TakeSlot, ReaderGoto, SlotDead, BackgroundUnlessExited
<1>15. ASSUME NEW c \in Clients, Refuse(c) PROVE HandlerInv'
  <2>1. CASE client[c] = "asking"
    <3>1. /\ reader' = [reader EXCEPT ![c] = "none"] /\ client' = [client EXCEPT ![c] = "refused"]
          /\ conn' = [conn EXCEPT ![c] = "none"] /\ reader[c] = "hello"
          /\ UNCHANGED <<told, exit, exiter, drain, writer>>
      BY <1>15, <2>1 DEF Refuse, ReaderGoto
    <3>2. told[c] = None /\ writer[c] # "run"
      BY <2>1, <3>1
    <3>3. DrainJoined' /\ ToldIsAttached'
      BY <3>1, <3>2
    <3>4. HandlerFollows'
      BY <3>1
    <3>5. WriterRuns'
      BY <3>1, <3>2
    <3> QED
      BY <3>3, <3>4, <3>5
  <2>2. CASE client[c] # "asking"
    <3>1. /\ reader' = [reader EXCEPT ![c] = "ended"] /\ reader[c] = "hello"
          /\ UNCHANGED <<told, exit, exiter, drain, writer, client, conn>>
      BY <1>15, <2>2 DEF Refuse, ReaderGoto
    <3>2. DrainJoined'
      BY <3>1
    <3>3. HandlerFollows'
      <4> SUFFICES ASSUME NEW d \in Clients
                   PROVE  /\ client[d] \in {"away", "refused"} => reader'[d] = "none"
                          /\ client[d] = "asking" =>
                               reader'[d] \in {"hello", "look", "reply", "farewell"}
                          /\ client[d] = "attached" => reader'[d] \in Answered
        BY <3>1
      <4>1. CASE d = c
        BY <2>2, <3>1, <4>1
      <4>2. CASE d # c
        BY <3>1, <4>2
      <4> QED
        BY <4>1, <4>2
    <3>4. WriterRuns'
      BY <3>1
    <3>5. ToldIsAttached'
      BY <3>1
    <3> QED
      BY <3>2, <3>3, <3>4, <3>5
  <2> QED
    BY <2>1, <2>2
<1>16. ASSUME NEW c \in Clients, Look(c) PROVE HandlerInv'
  BY <1>16 DEF Look, ReaderGoto
<1>17. ASSUME NEW c \in Clients, Reply(c) PROVE HandlerInv'
  <2>1. /\ reader[c] = "reply" /\ reader' = [reader EXCEPT ![c] = "reading"]
        /\ writer' = [writer EXCEPT ![c] = "run"] /\ UNCHANGED <<exit, exiter, drain, conn>>
    BY <1>17 DEF Reply, ReaderGoto
  <2>2. \/ /\ client' = [client EXCEPT ![c] = "attached"] /\ told' = [told EXCEPT ![c] = None]
           /\ client[c] = "asking"
        \/ UNCHANGED <<client, told>> /\ client[c] # "asking"
    BY <1>17 DEF Reply, SendReplay
  <2> QED
    BY <2>1, <2>2
<1>18. ASSUME NEW c \in Clients, Farewell(c) PROVE HandlerInv'
  <2>1. /\ reader[c] = "farewell" /\ reader' = [reader EXCEPT ![c] = "leaving"]
        /\ UNCHANGED <<exit, exiter, drain, writer, conn>>
    BY <1>18 DEF Farewell, ReaderGoto
  <2>2. \/ /\ client' = [client EXCEPT ![c] = "attached"] /\ told' = [told EXCEPT ![c] = exit]
           /\ client[c] = "asking" /\ exit # None
        \/ UNCHANGED <<client, told>> /\ client[c] # "asking"
    BY <1>18, <2>1 DEF Farewell, SendReplay
  <2>3. DrainJoined'
    BY <2>1, <2>2
  <2>4. HandlerFollows'
    BY <2>1, <2>2
  <2>5. WriterRuns'
    BY <2>1, <2>2
  <2>6. ToldIsAttached'
    <3>1. CASE client[c] = "asking"
      BY <2>1, <2>2, <3>1
    <3>2. CASE client[c] # "asking"
      BY <2>1, <2>2, <3>2
    <3> QED
      BY <3>1, <3>2
  <2> QED
    BY <2>3, <2>4, <2>5, <2>6
<1>19. ASSUME NEW c \in Clients, ReplyFails(c) PROVE HandlerInv'
  <2>1. /\ reader[c] \in {"reply", "farewell"} /\ reader' = [reader EXCEPT ![c] = "failed"]
        /\ client[c] # "asking" /\ UNCHANGED <<client, told, exit, exiter, drain, writer, conn>>
    BY <1>19 DEF ReplyFails, ReaderGoto, Dead
  <2> QED
    BY <2>1
<1>20. ASSUME NEW c \in Clients, ReadEnds(c) PROVE HandlerInv'
  <2>1. /\ reader[c] \in {"reading", "leaving"} /\ reader' = [reader EXCEPT ![c] = "ended"]
        /\ UNCHANGED <<client, told, exit, exiter, drain, writer, conn>>
    BY <1>20 DEF ReadEnds, ReaderGoto, Detach
  <2>2. DrainJoined'
    BY <2>1
  <2>3. HandlerFollows'
    BY <2>1
  <2>4. WriterRuns'
    BY <2>1
  <2>5. ToldIsAttached'
    BY <2>1
  <2> QED
    BY <2>2, <2>3, <2>4, <2>5
<1>21. ASSUME NEW c \in Clients, ReadFails(c) PROVE HandlerInv'
  BY <1>21 DEF ReadFails, ReaderGoto
<1>22. ASSUME NEW c \in Clients, ReadInterrupt(c) PROVE HandlerInv'
  BY <1>22 DEF ReadInterrupt, ReaderGoto, Goto
<1>23. ASSUME NEW c \in Clients, WriteNext(c) PROVE HandlerInv'
  <2>1. writer[c] = "run" /\ UNCHANGED <<client, exit, exiter, drain, reader, writer>>
    BY <1>23 DEF WriteNext
  <2>2. \/ /\ conn[c] = "open" /\ UNCHANGED conn
           /\ UNCHANGED told \/ \E code \in Codes \ {None} : told' = [told EXCEPT ![c] = code]
        \/ conn' = [conn EXCEPT ![c] = "reset"] /\ UNCHANGED told
    <3>1. chan[c] \in Seq(Messages) /\ chan[c] # <<>>
      BY <1>23 DEF WriteNext
    <3>2. Head(chan[c]) \in Messages
      BY <3>1
    <3>3. Head(chan[c]).exit \in Codes
      BY <3>2 DEF Messages
    <3> QED
      BY <1>23, <3>3 DEF WriteNext, Deliver
  <2>3. conn[c] = "open" => client[c] = "attached"
    BY <2>1
  <2> QED
    BY <2>1, <2>2, <2>3
<1>24. ASSUME NEW c \in Clients, WriterEnds(c) PROVE HandlerInv'
  <2>1. /\ writer' = [writer EXCEPT ![c] = "ended"] /\ ~Served(c)
        /\ UNCHANGED <<client, told, exit, exiter, drain, reader, conn>>
    BY <1>24 DEF WriterEnds, Detach
  <2> QED
    BY <2>1
<1>25. ASSUME NEW c \in Clients, Connect(c) PROVE HandlerInv'
  <2>1. /\ reader' = [reader EXCEPT ![c] = "hello"] /\ client' = [client EXCEPT ![c] = "asking"]
        /\ conn' = [conn EXCEPT ![c] = "open"]
        /\ reader[c] = "none" /\ UNCHANGED <<told, exit, exiter, drain, writer>>
        /\ client[c] \in {"away", "refused"}
    BY <1>25 DEF Connect, ClientGoto, ReaderGoto
  <2>2. told[c] = None /\ writer[c] # "run"
    BY <2>1
  <2>3. DrainJoined' /\ ToldIsAttached'
    BY <2>1, <2>2
  <2>4. HandlerFollows'
    BY <2>1
  <2>5. WriterRuns'
    BY <2>1, <2>2
  <2> QED
    BY <2>3, <2>4, <2>5
<1>26. ASSUME NEW c \in Clients, GiveUp(c) PROVE HandlerInv'
  BY <1>26 DEF GiveUp, ClientGoto
<1>27. ASSUME NEW c \in Clients, Leave(c) PROVE HandlerInv'
  BY <1>27 DEF Leave, ClientGoto, Close
<1>28. ASSUME NEW c \in Clients, EndsOnExited(c) PROVE HandlerInv'
  BY <1>28 DEF EndsOnExited, ClientGoto, Close
<1>29. ASSUME NEW c \in Clients, Interrupt(c) PROVE HandlerInv'
  BY <1>29 DEF Interrupt, ClientGoto
<1> HIDE DEF TypeOK, SlotInv, LiveIsOpen, InterruptsLast, HandledHasSlot, AttachedIsRead,
        FarewellAfterExit, HandlerInv, DrainJoined, HandlerFollows, WriterRuns, ToldIsAttached
<1> QED
  BY <1>0, <1>1, <1>2, <1>3, <1>4, <1>5, <1>6, <1>7, <1>8, <1>9, <1>10, <1>11, <1>12, <1>13, <1>14, <1>15,
      <1>16, <1>17, <1>18, <1>19, <1>20, <1>21, <1>22, <1>23, <1>24, <1>25, <1>26, <1>27, <1>28, <1>29
  DEF Next, Drain, Exiter, Reader, Writer, ClientStep

\* A client none of whose bookkeeping moves, while the drain thread rests.
LEMMA SameChunks ==
  ASSUME NEW c \in Clients, ClientChunks(c), UNCHANGED <<pushed, drain, exit>>,
         grabbed'["drain"] = grabbed["drain"], chan'[c] = chan[c], from'[c] = from[c],
         got'[c] = got[c], told'[c] = told[c], client'[c] = client[c]
  PROVE  ClientChunks(c)'
<1>1. \A n, k : Has(c, n, k)' <=> Has(c, n, k)
  BY DEF Has
<1>2. \A k : OnItsWay(c, k)' <=> OnItsWay(c, k)
  BY DEF OnItsWay
<1> QED
  BY <1>1, <1>2 DEF ClientChunks, NoChunkLost, ExitComesLast, Complete, Served

\* A client that is not attached, and has been told nothing.
LEMMA UnservedChunks ==
  ASSUME NEW c \in Clients, client'[c] # "attached", told'[c] = None
  PROVE  ClientChunks(c)'
BY AttachAssumption DEF ClientChunks, NoChunkLost, ExitComesLast, Complete, Served, Exiters

\* The session has not ended by the wait thread while the drain thread runs.
LEMMA DrainFirst ==
  ASSUME TypeOK, CodeInv, HandlerInv, drain # "done"
  PROVE  exit # "wait" /\ \A c \in Clients : told[c] # "wait"
BY AttachAssumption DEF TypeOK, CodeInv, OneExitCode, HandlerInv, DrainJoined, Exiters

\* A channel with one more message.
LEMMA AppendFacts ==
  ASSUME NEW S, NEW q \in Seq(S), NEW m, NEW n \in Nat, n = Len(q)
  PROVE  /\ Len(Append(q, m)) = n + 1 /\ Append(q, m)[n + 1] = m
         /\ \A i \in 1 .. n : Append(q, m)[i] = q[i]
OBVIOUS

\* It hides none of the others.
LEMMA AppendHas ==
  ASSUME TypeOK, NEW c \in Clients, NEW m, got'[c] = got[c], chan'[c] = Append(chan[c], m),
         NEW n \in Nat, n = Len(chan[c]), NEW j \in 0 .. n, NEW k, Has(c, j, k)
  PROVE  Has(c, j, k)' /\ Has(c, j + 1, k)'
<1>1. chan[c] \in Seq(Messages)
  BY DEF TypeOK
<1>2. \A i \in 1 .. n : chan'[c][i] = chan[c][i]
  BY <1>1, AppendFacts
<1> QED
  BY <1>2 DEF Has, ChunkMessage

\* A channel after its first message was taken.
LEMMA TailFacts ==
  ASSUME NEW S, NEW q \in Seq(S), q # <<>>
  PROVE  /\ Len(q) \in Nat \ {0} /\ Head(q) = q[1] /\ Len(Tail(q)) = Len(q) - 1
         /\ \A j \in 1 .. Len(q) - 1 : Tail(q)[j] = q[j + 1]
         /\ DOMAIN q = 1 .. Len(q) /\ DOMAIN Tail(q) = 1 .. Len(q) - 1
OBVIOUS

\* No step loses a chunk on its way to a client that waits for it, or puts an
\* exit in front of it.
LEMMA ChunkStep ==
  TypeOK /\ TypeOK' /\ CodeInv /\ SlotInv /\ HandlerInv /\ ChunkInv /\ [Next]_vars => ChunkInv'
<1> SUFFICES ASSUME TypeOK, TypeOK', CodeInv, SlotInv, HandlerInv, ChunkInv, [Next]_vars
             PROVE  ChunkInv'
  OBVIOUS
<1> USE AttachAssumption DEF output, session, exiting, sending, loops, handlers, clients
<1> DEFINE Rests ==
       /\ UNCHANGED <<pushed, drain, exit, chan, from, got, told, client>>
       /\ grabbed'["drain"] = grabbed["drain"]
\* A step that moves no chunk; one that concerns client c only.
<1>r. ASSUME Rests PROVE ChunkInv'
  BY <1>r, SameChunks DEF ChunkInv
<1>s. ASSUME NEW c \in Clients, ClientChunks(c)', UNCHANGED <<pushed, drain, exit>>,
             grabbed'["drain"] = grabbed["drain"],
             \A d \in Clients \ {c} : /\ chan'[d] = chan[d] /\ from'[d] = from[d]
                                      /\ got'[d] = got[d] /\ told'[d] = told[d]
                                      /\ client'[d] = client[d]
      PROVE  ChunkInv'
  <2> SUFFICES ASSUME NEW d \in Clients PROVE ClientChunks(d)'
    BY DEF ChunkInv
  <2>1. CASE d = c
    BY <1>s, <2>1
  <2>2. CASE d # c
    BY <1>s, <2>2, SameChunks DEF ChunkInv
  <2> QED
    BY <2>1, <2>2
<1>t. \A c \in Clients : client[c] # "attached" => told[c] = None
  BY DEF HandlerInv, ToldIsAttached
<1>u. \A c \in Clients : Served(c) => /\ conn[c] = "open" /\ reader[c] = "reading" /\ slot = c
                                      /\ writer[c] = "run"
  BY DEF Served, HandlerInv, WriterRuns, SlotInv, LiveIsOpen, AttachedIsRead, HandledHasSlot
<1>0. CASE UNCHANGED vars
  BY <1>0, <1>r DEF vars
<1>1. ASSUME ChildExits PROVE ChunkInv'
  BY <1>1, <1>r DEF ChildExits
<1>2. ASSUME DrainChunk PROVE ChunkInv'
  <2> SUFFICES ASSUME NEW c \in Clients PROVE ClientChunks(c)'
    BY DEF ChunkInv
  <2>1. /\ drain = "read" /\ drain' = "grab" /\ pushed' = pushed + 1 /\ pushed \in Nat
        /\ UNCHANGED <<exit, chan, from, got, told, client>> /\ from[c] \in Nat
    BY <1>2 DEF DrainChunk, TypeOK
  <2>2. exit # "wait" /\ told[c] # "wait"
    BY <2>1, DrainFirst
  <2>3. NoChunkLost(c)'
    <3> SUFFICES ASSUME Served(c), NEW k \in from[c] .. pushed + 1
                 PROVE  Has(c, Len(chan[c]), k)' \/ OnItsWay(c, k)'
      BY <2>1 DEF NoChunkLost, Served
    <3>1. CASE k = pushed + 1
      BY <2>1, <3>1 DEF OnItsWay
    <3>2. CASE k # pushed + 1
      <4>1. k \in from[c] .. pushed
        BY <2>1, <3>2
      <4>2. Has(c, Len(chan[c]), k)
        BY <2>1, <4>1 DEF ChunkInv, ClientChunks, NoChunkLost, OnItsWay
      <4> QED
        BY <2>1, <4>2 DEF Has
    <3> QED
      BY <3>1, <3>2
  <2> QED
    BY <2>1, <2>2, <2>3 DEF ClientChunks, ExitComesLast, Complete
<1>3. ASSUME DrainEnds PROVE ChunkInv'
  <2> SUFFICES ASSUME NEW c \in Clients PROVE ClientChunks(c)'
    BY DEF ChunkInv
  <2>1. /\ drain = "read" /\ UNCHANGED <<exit, chan, from, got, told, client, pushed>>
    BY <1>3 DEF DrainEnds
  <2>2. exit # "wait" /\ told[c] # "wait"
    BY <2>1, DrainFirst
  <2>3. NoChunkLost(c)'
    BY <2>1 DEF ChunkInv, ClientChunks, NoChunkLost, OnItsWay, Served, Has
  <2> QED
    BY <2>1, <2>2, <2>3 DEF ClientChunks, ExitComesLast, Complete
<1>4. ASSUME DrainGrab PROVE ChunkInv'
  <2> SUFFICES ASSUME NEW c \in Clients PROVE ClientChunks(c)'
    BY DEF ChunkInv
  <2>1. /\ drain = "grab" /\ drain' = "send" /\ grabbed'["drain"] = slot
        /\ UNCHANGED <<exit, chan, from, got, told, client, pushed>>
    BY <1>4 DEF DrainGrab, Grab, TypeOK, Senders
  <2>2. exit # "wait" /\ told[c] # "wait"
    BY <2>1, DrainFirst
  <2>3. NoChunkLost(c)'
    <3> SUFFICES ASSUME Served(c), NEW k \in from[c] .. pushed
                 PROVE  Has(c, Len(chan[c]), k)' \/ OnItsWay(c, k)'
      BY <2>1 DEF NoChunkLost, Served
    <3>1. CASE Has(c, Len(chan[c]), k)
      BY <2>1, <3>1 DEF Has
    <3>2. CASE OnItsWay(c, k)
      BY <1>u, <2>1, <3>2 DEF OnItsWay
    <3> QED
      BY <3>1, <3>2 DEF ChunkInv, ClientChunks, NoChunkLost
  <2> QED
    BY <2>1, <2>2, <2>3 DEF ClientChunks, ExitComesLast, Complete
<1>5. ASSUME DrainSend PROVE ChunkInv'
  <2> SUFFICES ASSUME NEW c \in Clients PROVE ClientChunks(c)'
    BY DEF ChunkInv
  <2>1. /\ drain = "send" /\ UNCHANGED <<exit, from, got, told, client, pushed>>
        /\ chan'[c] = IF grabbed["drain"] = c /\ ReceiverLives(c)
                      THEN Append(chan[c], ChunkMessage(pushed)) ELSE chan[c]
    BY <1>5 DEF DrainSend, Send, ChunkMessage
  <2>2. exit # "wait" /\ told[c] # "wait"
    BY <2>1, DrainFirst
  <2>3. NoChunkLost(c)'
    <3> SUFFICES ASSUME Served(c), NEW k \in from[c] .. pushed
                 PROVE  Has(c, Len(chan[c]), k)'
      BY <2>1 DEF NoChunkLost, Served
    <3>1. Has(c, Len(chan[c]), k) \/ OnItsWay(c, k)
      BY DEF ChunkInv, ClientChunks, NoChunkLost
    <3>2. CASE grabbed["drain"] = c
      <4>1. chan'[c] = Append(chan[c], ChunkMessage(pushed)) /\ got'[c] = got[c]
        BY <1>u, <2>1, <3>2 DEF ReceiverLives
      <4>n. PICK n \in Nat : n = Len(chan[c])
        BY DEF TypeOK
      <4>2. Len(chan'[c]) = n + 1 /\ chan'[c][n + 1] = ChunkMessage(pushed)
        BY <4>n, <4>1, AppendFacts DEF TypeOK
      <4>3. CASE Has(c, Len(chan[c]), k)
        <5>1. n \in 0 .. n /\ Has(c, n, k)
          BY <4>n, <4>3
        <5>2. Has(c, n + 1, k)'
          BY <4>n, <4>1, <5>1, AppendHas
        <5> QED
          BY <4>2, <5>2 DEF Has
      <4>4. CASE OnItsWay(c, k)
        <5>1. k = pushed
          BY <4>4 DEF OnItsWay
        <5> QED
          BY <4>2, <5>1 DEF Has, ChunkMessage
      <4> QED
        BY <3>1, <4>3, <4>4
    <3>3. CASE grabbed["drain"] # c
      BY <2>1, <3>1, <3>3 DEF OnItsWay, Has
    <3> QED
      BY <3>2, <3>3
  <2> QED
    BY <2>1, <2>2, <2>3 DEF ClientChunks, ExitComesLast, Complete
<1>6. ASSUME ChildWaited PROVE ChunkInv'
  BY <1>6, <1>r DEF ChildWaited
<1>7. ASSUME Watchdog PROVE ChunkInv'
  BY <1>7, <1>r DEF Watchdog
<1>8. ASSUME Heartbeat PROVE ChunkInv'
  BY <1>8, <1>r DEF Heartbeat
<1>9. ASSUME WorkerExits PROVE ChunkInv'
  BY <1>9, <1>r DEF WorkerExits
<1>10. ASSUME NEW x \in Exiters, CleanupTree(x) PROVE ChunkInv'
  BY <1>10, <1>r DEF CleanupTree
<1>11. ASSUME NEW x \in Exiters, SetExitCode(x) PROVE ChunkInv'
  <2> SUFFICES ASSUME NEW c \in Clients PROVE ClientChunks(c)'
    BY DEF ChunkInv
  <2>1. /\ UNCHANGED <<pushed, drain, grabbed, chan, from, got, told, client>>
        /\ exit # None => exit' = exit
    BY <1>11 DEF SetExitCode
  <2>2. CASE exit # None
    BY <2>1, <2>2, SameChunks DEF ChunkInv
  <2>3. CASE exit = None
    <3>1. \A i \in DOMAIN chan[c] : chan[c][i].exit = None
      BY <2>3 DEF CodeInv, SentCode
    <3>2. ExitComesLast(c)'
      BY <2>1, <3>1 DEF ExitComesLast
    <3> QED
      BY <2>1, <3>2 DEF ChunkInv, ClientChunks, NoChunkLost, Complete, Served, OnItsWay, Has
  <2> QED
    BY <2>2, <2>3
<1>12. ASSUME NEW x \in Exiters, StopAccepting(x) PROVE ChunkInv'
  <2>1. x # "drain"
    BY DEF Exiters
  <2> QED
    BY <1>12, <1>r, <2>1 DEF StopAccepting, Grab, TypeOK, Senders
<1>13. ASSUME NEW x \in Exiters, SendExited(x) PROVE ChunkInv'
  <2> SUFFICES ASSUME NEW c \in Clients PROVE ClientChunks(c)'
    BY DEF ChunkInv
  <2>m. PICK m : m = [chunk |-> 0, exit |-> exit]
    OBVIOUS
  <2>1. x # "drain"
    BY DEF Exiters
  <2>2. /\ UNCHANGED <<pushed, drain, exit, from, got, told, client>>
        /\ chan'[c] = chan[c] \/ chan'[c] = Append(chan[c], m)
        /\ grabbed'["drain"] = grabbed["drain"]
    BY <1>13, <2>m, <2>1 DEF SendExited, Send, TypeOK, Senders
  <2>3. CASE chan'[c] = chan[c]
    BY <2>2, <2>3, SameChunks DEF ChunkInv
  <2>4. CASE chan'[c] = Append(chan[c], m)
    <3>n. PICK n \in Nat : n = Len(chan[c])
      BY DEF TypeOK
    <3>1. Len(chan'[c]) = n + 1 /\ \A i \in 1 .. n : chan'[c][i] = chan[c][i]
      BY <3>n, <2>4, AppendFacts DEF TypeOK
    <3>h. ASSUME NEW j \in 0 .. n, NEW k, Has(c, j, k) PROVE Has(c, j, k)' /\ Has(c, j + 1, k)'
      <4>1. got'[c] = got[c]
        BY <2>2
      <4> QED
        BY <3>n, <3>h, <2>4, <4>1, AppendHas
    <3>z. n \in 0 .. n
      OBVIOUS
    <3>2. NoChunkLost(c)'
      <4> SUFFICES ASSUME Served(c), NEW k \in from[c] .. pushed, ~OnItsWay(c, k)
                   PROVE  Has(c, Len(chan[c]), k)'
        BY <2>2 DEF NoChunkLost, Served, OnItsWay
      <4>1. Has(c, n, k)
        BY <3>n DEF ChunkInv, ClientChunks, NoChunkLost
      <4>2. Has(c, n + 1, k)'
        BY <3>h, <3>z, <4>1
      <4> QED
        BY <3>1, <4>2 DEF Has
    <3>3. ExitComesLast(c)'
      <4> SUFFICES ASSUME Served(c), exit = "wait", NEW i \in 1 .. n + 1,
                          chan'[c][i].exit # None, NEW k \in from[c] .. pushed
                   PROVE  Has(c, i - 1, k)'
        <5>1. chan'[c] \in Seq(Messages)
          BY DEF TypeOK
        <5>2. DOMAIN chan'[c] = 1 .. n + 1
          BY <3>1, <5>1
        <5> QED
          BY <2>2, <5>2 DEF ExitComesLast, Served
      <4>1. CASE i = n + 1
        <5>1. drain = "done"
          BY DrainFirst
        <5>2. Has(c, n, k)
          BY <3>n, <5>1 DEF ChunkInv, ClientChunks, NoChunkLost, OnItsWay
        <5>3. Has(c, n, k)'
          BY <3>h, <3>z, <5>2
        <5>4. i - 1 = n
          BY <3>1, <4>1
        <5> QED
          BY <5>3, <5>4 DEF Has
      <4>2. CASE i # n + 1
        <5>1. i \in 1 .. n /\ i - 1 \in 0 .. n
          BY <3>1, <4>2
        <5>2. chan[c] \in Seq(Messages) /\ DOMAIN chan[c] = 1 .. n
          BY <3>n DEF TypeOK
        <5>3. Has(c, i - 1, k)
          BY <3>1, <5>1, <5>2 DEF ChunkInv, ClientChunks, ExitComesLast
        <5> QED
          BY <3>h, <5>1, <5>3
      <4> QED
        BY <4>1, <4>2
    <3> QED
      BY <2>2, <3>2, <3>3 DEF ChunkInv, ClientChunks, Complete
  <2> QED
    BY <2>2, <2>3, <2>4
<1>14. ASSUME NEW c \in Clients, TakeSlot(c) PROVE ChunkInv'
  BY <1>14, <1>r DEF TakeSlot
<1>15. ASSUME NEW c \in Clients, Refuse(c) PROVE ChunkInv'
  <2>1. CASE client[c] = "asking"
    <3>1. /\ client' = [client EXCEPT ![c] = "refused"]
          /\ UNCHANGED <<pushed, drain, grabbed, exit, chan, from, got, told>>
      BY <1>15, <2>1 DEF Refuse
    <3>2. ClientChunks(c)'
      BY <1>t, <2>1, <3>1, UnservedChunks DEF TypeOK
    <3> QED
      BY <1>s, <3>1, <3>2 DEF TypeOK
  <2>2. CASE client[c] # "asking"
    BY <1>15, <1>r, <2>2 DEF Refuse
  <2> QED
    BY <2>1, <2>2
<1>16. ASSUME NEW c \in Clients, Look(c) PROVE ChunkInv'
  BY <1>16, <1>r DEF Look
<1>17. ASSUME NEW c \in Clients, Reply(c) PROVE ChunkInv'
  <2>1. /\ reader[c] = "reply" /\ UNCHANGED chan
        /\ UNCHANGED <<pushed, drain, grabbed, exit>> /\ SendReplay(c, None)
    BY <1>17 DEF Reply, ReaderGoto
  <2>2. client[c] # "attached"
    BY <2>1 DEF HandlerInv, HandlerFollows, Answered
  <2>3. from' = [from EXCEPT ![c] = BacklogFrom]
    BY <2>1 DEF SendReplay
  <2>4. CASE client[c] = "asking"
    <3>1. /\ client' = [client EXCEPT ![c] = "attached"]
          /\ got' = [got EXCEPT ![c] = BacklogFrom .. pushed]
          /\ told' = [told EXCEPT ![c] = None]
      BY <2>1, <2>4 DEF SendReplay
    <3>2. from'[c] .. pushed' \subseteq got'[c]
      BY <2>1, <2>3, <3>1 DEF TypeOK
    <3>3. ClientChunks(c)'
      BY <3>2 DEF ClientChunks, NoChunkLost, ExitComesLast, Complete, Has
    <3> QED
      BY <1>s, <2>1, <2>3, <3>1, <3>3 DEF TypeOK
  <2>5. CASE client[c] # "asking"
    <3>1. UNCHANGED <<client, got, told>>
      BY <2>1, <2>5 DEF SendReplay
    <3>2. ClientChunks(c)'
      BY <1>t, <2>2, <3>1, UnservedChunks
    <3> QED
      BY <1>s, <2>1, <2>3, <3>1, <3>2 DEF TypeOK
  <2> QED
    BY <2>4, <2>5
<1>18. ASSUME NEW c \in Clients, Farewell(c) PROVE ChunkInv'
  <2>1. /\ reader[c] = "farewell" /\ chan' = [chan EXCEPT ![c] = <<>>]
        /\ UNCHANGED <<pushed, drain, grabbed, exit>> /\ SendReplay(c, exit)
    BY <1>18 DEF Farewell, ReaderGoto
  <2>2. client[c] # "attached"
    BY <2>1 DEF HandlerInv, HandlerFollows, Answered
  <2>3. from' = [from EXCEPT ![c] = BacklogFrom]
    BY <2>1 DEF SendReplay
  <2>4. CASE client[c] = "asking"
    <3>1. /\ client' = [client EXCEPT ![c] = "attached"]
          /\ got' = [got EXCEPT ![c] = BacklogFrom .. pushed]
          /\ told' = [told EXCEPT ![c] = exit]
      BY <2>1, <2>4 DEF SendReplay
    <3>2. from'[c] .. pushed' \subseteq got'[c]
      BY <2>1, <2>3, <3>1 DEF TypeOK
    <3>3. ClientChunks(c)'
      BY <3>2 DEF ClientChunks, NoChunkLost, ExitComesLast, Complete, Has
    <3> QED
      BY <1>s, <2>1, <2>3, <3>1, <3>3 DEF TypeOK
  <2>5. CASE client[c] # "asking"
    <3>1. UNCHANGED <<client, got, told>>
      BY <2>1, <2>5 DEF SendReplay
    <3>2. ClientChunks(c)'
      BY <1>t, <2>2, <3>1, UnservedChunks
    <3> QED
      BY <1>s, <2>1, <2>3, <3>1, <3>2 DEF TypeOK
  <2> QED
    BY <2>4, <2>5
<1>19. ASSUME NEW c \in Clients, ReplyFails(c) PROVE ChunkInv'
  <2>1. /\ reader[c] \in {"reply", "farewell"} /\ chan' = [chan EXCEPT ![c] = <<>>]
        /\ UNCHANGED <<pushed, drain, grabbed, exit, from, got, told, client>>
    BY <1>19 DEF ReplyFails, ReaderGoto
  <2>2. client[c] # "attached"
    BY <2>1 DEF HandlerInv, HandlerFollows, Answered
  <2>3. ClientChunks(c)'
    BY <1>t, <2>1, <2>2, UnservedChunks
  <2> QED
    BY <1>s, <2>1, <2>3 DEF TypeOK
<1>20. ASSUME NEW c \in Clients, ReadEnds(c) PROVE ChunkInv'
  BY <1>20, <1>r DEF ReadEnds, Detach
<1>21. ASSUME NEW c \in Clients, ReadFails(c) PROVE ChunkInv'
  BY <1>21, <1>r DEF ReadFails
<1>22. ASSUME NEW c \in Clients, ReadInterrupt(c) PROVE ChunkInv'
  BY <1>22, <1>r DEF ReadInterrupt
<1>23. ASSUME NEW c \in Clients, WriteNext(c) PROVE ChunkInv'
  <2>m. PICK m : m = Head(chan[c])
    OBVIOUS
  <2>n. PICK n \in Nat : n = Len(chan[c])
    BY DEF TypeOK
  <2>1. /\ chan[c] \in Seq(Messages) /\ chan[c] # <<>>
        /\ chan' = [chan EXCEPT ![c] = Tail(chan[c])]
        /\ UNCHANGED <<pushed, drain, grabbed, exit, from, client>>
    BY <1>23 DEF WriteNext, TypeOK
  <2>2. \/ conn[c] = "open" /\ Deliver(c, m)
        \/ conn[c] = "closed" /\ UNCHANGED <<got, told>>
    BY <2>m, <1>23 DEF WriteNext
  <2>3. \A d \in Clients \ {c} : /\ chan'[d] = chan[d] /\ from'[d] = from[d]
                                 /\ got'[d] = got[d] /\ told'[d] = told[d]
                                 /\ client'[d] = client[d]
    BY <2>1, <2>2 DEF Deliver, TypeOK
  <2>4. /\ n \in Nat \ {0} /\ m = chan[c][1] /\ Len(chan'[c]) = n - 1
        /\ \A j \in 1 .. n - 1 : chan'[c][j] = chan[c][j + 1]
        /\ DOMAIN chan[c] = 1 .. n /\ DOMAIN chan'[c] = 1 .. n - 1
    <3>1. chan'[c] = Tail(chan[c])
      BY <2>1 DEF TypeOK
    <3> QED
      BY <2>m, <2>n, <2>1, <3>1, TailFacts
  <2>5. m.exit \in {None, exit}
    BY <2>4 DEF CodeInv, SentCode
  <2>6. CASE conn[c] = "closed" /\ UNCHANGED <<got, told>>
    <3>1. client[c] # "attached"
      BY <2>6 DEF SlotInv, LiveIsOpen
    <3>2. ClientChunks(c)'
      BY <1>t, <2>1, <2>6, <3>1, UnservedChunks
    <3> QED
      BY <1>s, <2>1, <2>3, <3>2
  <2>7. CASE conn[c] = "open" /\ Deliver(c, m) /\ m.exit = None
    <3>1. got'[c] = got[c] \cup {m.chunk} /\ told' = told
      BY <2>7 DEF Deliver, TypeOK
    <3>2. \A j \in 0 .. n - 1 : \A k : Has(c, j + 1, k) => Has(c, j, k)'
      <4> SUFFICES ASSUME NEW j \in 0 .. n - 1, NEW k, Has(c, j + 1, k)
                   PROVE  Has(c, j, k)'
        OBVIOUS
      <4>1. CASE k \in got[c]
        BY <3>1, <4>1 DEF Has
      <4>2. CASE \E i \in 1 .. j + 1 : chan[c][i] = ChunkMessage(k)
        <5>1. PICK i \in 1 .. j + 1 : chan[c][i] = ChunkMessage(k)
          BY <4>2
        <5>2. CASE i = 1
          <6>1. m.chunk = k
            BY <2>4, <5>1, <5>2 DEF ChunkMessage
          <6> QED
            BY <3>1, <6>1 DEF Has
        <5>3. CASE i # 1
          <6>1. i - 1 \in 1 .. j /\ i - 1 \in 1 .. n - 1 /\ (i - 1) + 1 = i
            BY <2>4, <5>3
          <6>2. chan'[c][i - 1] = ChunkMessage(k)
            BY <2>4, <5>1, <6>1
          <6>3. ChunkMessage(k)' = ChunkMessage(k)
            BY DEF ChunkMessage
          <6> QED
            BY <6>1, <6>2 DEF Has, ChunkMessage
        <5> QED
          BY <5>2, <5>3
      <4> QED
        BY <4>1, <4>2 DEF Has
    <3>3. NoChunkLost(c)'
      <4> SUFFICES ASSUME Served(c), NEW k \in from[c] .. pushed
                   PROVE  Has(c, n - 1, k)' \/ OnItsWay(c, k)'
        BY <2>1, <2>4, <3>1 DEF NoChunkLost, Served
      <4>1. Has(c, n, k) \/ OnItsWay(c, k)
        BY <2>n DEF ChunkInv, ClientChunks, NoChunkLost
      <4>2. n - 1 \in 0 .. n - 1 /\ (n - 1) + 1 = n
        <5>1. n \in Nat /\ n # 0
          BY <2>4
        <5> QED
          BY <5>1
      <4>3. Has(c, n, k) => Has(c, n - 1, k)'
        BY <3>2, <4>2
      <4> QED
        BY <2>1, <4>1, <4>3 DEF OnItsWay
    <3>4. ExitComesLast(c)'
      <4> SUFFICES ASSUME Served(c), exit = "wait", NEW i \in 1 .. n - 1,
                          chan'[c][i].exit # None, NEW k \in from[c] .. pushed
                   PROVE  Has(c, i - 1, k)'
        BY <2>1, <2>4, <3>1 DEF ExitComesLast, Served
      <4>1. i + 1 \in 1 .. n /\ i - 1 \in 0 .. n - 1 /\ (i + 1) - 1 = i /\ (i - 1) + 1 = i
        BY <2>4
      <4>2. chan[c][i + 1].exit # None
        BY <2>4
      <4>3. Has(c, (i + 1) - 1, k)
        BY <2>4, <4>1, <4>2 DEF ChunkInv, ClientChunks, ExitComesLast
      <4>4. Has(c, (i - 1) + 1, k)
        BY <4>1, <4>3
      <4> QED
        BY <3>2, <4>1, <4>4
    <3>5. Complete(c)'
      BY <2>1, <3>1 DEF ChunkInv, ClientChunks, Complete
    <3> QED
      BY <1>s, <2>1, <2>3, <3>3, <3>4, <3>5 DEF ClientChunks
  <2>8. CASE conn[c] = "open" /\ Deliver(c, m) /\ m.exit # None
    <3>1. told'[c] = exit /\ exit # None /\ got' = got
      BY <2>5, <2>8 DEF Deliver, TypeOK
    <3>2. client[c] = "attached"
      <4>1. writer[c] = "run"
        BY <1>23 DEF WriteNext
      <4> QED
        BY <2>8, <4>1 DEF HandlerInv, HandlerFollows, WriterRuns, ToldIsAttached, Answered
    <3>3. ASSUME exit = "wait" PROVE from[c] .. pushed \subseteq got[c]
      <4>1. CASE told[c] = None
        <5>1. 1 \in DOMAIN chan[c] /\ chan[c][1].exit # None
          BY <2>4, <2>8
        <5>2. \A k \in from[c] .. pushed : Has(c, 1 - 1, k)
          BY <3>2, <3>3, <4>1, <5>1 DEF ChunkInv, ClientChunks, ExitComesLast, Served
        <5> QED
          BY <5>2 DEF Has
      <4>2. CASE told[c] # None
        <5>1. told[c] = "wait"
          BY <3>3, <4>2 DEF CodeInv, OneExitCode
        <5> QED
          BY <5>1 DEF ChunkInv, ClientChunks, Complete
      <4> QED
        BY <4>1, <4>2
    <3>4. ClientChunks(c)'
      BY <2>1, <3>1, <3>3 DEF ClientChunks, NoChunkLost, ExitComesLast, Complete, Served
    <3> QED
      BY <1>s, <2>1, <2>3, <3>4
  <2> QED
    BY <2>2, <2>6, <2>7, <2>8
<1>24. ASSUME NEW c \in Clients, WriterEnds(c) PROVE ChunkInv'
  <2>1. /\ ~Served(c) /\ chan' = [chan EXCEPT ![c] = <<>>]
        /\ UNCHANGED <<pushed, drain, grabbed, exit, from, got, told, client>>
    BY <1>24, <1>u DEF WriterEnds, Detach
  <2>2. ClientChunks(c)'
    BY <2>1 DEF ChunkInv, ClientChunks, NoChunkLost, ExitComesLast, Complete, Served
  <2> QED
    BY <1>s, <2>1, <2>2 DEF TypeOK
<1>25. ASSUME NEW c \in Clients, Connect(c) PROVE ChunkInv'
  <2>1. /\ client[c] # "attached" /\ client' = [client EXCEPT ![c] = "asking"]
        /\ UNCHANGED <<pushed, drain, grabbed, exit, chan, from, got, told>>
    BY <1>25 DEF Connect, ClientGoto
  <2>2. ClientChunks(c)'
    BY <1>t, <2>1, UnservedChunks DEF TypeOK
  <2> QED
    BY <1>s, <2>1, <2>2 DEF TypeOK
<1>26. ASSUME NEW c \in Clients, GiveUp(c) PROVE ChunkInv'
  <2>1. /\ client' = [client EXCEPT ![c] = "gone"] /\ got' = [got EXCEPT ![c] = {}]
        /\ told' = [told EXCEPT ![c] = None]
        /\ UNCHANGED <<pushed, drain, grabbed, exit, chan, from>>
    BY <1>26 DEF GiveUp, ClientGoto
  <2>2. ClientChunks(c)'
    BY <2>1, UnservedChunks DEF TypeOK
  <2> QED
    BY <1>s, <2>1, <2>2 DEF TypeOK
<1>27. ASSUME NEW c \in Clients, Leave(c) PROVE ChunkInv'
  <2>1. /\ client' = [client EXCEPT ![c] = "gone"] /\ got' = [got EXCEPT ![c] = {}]
        /\ told' = [told EXCEPT ![c] = None]
        /\ UNCHANGED <<pushed, drain, grabbed, exit, chan, from>>
    BY <1>27 DEF Leave, ClientGoto, Close
  <2>2. ClientChunks(c)'
    BY <2>1, UnservedChunks DEF TypeOK
  <2> QED
    BY <1>s, <2>1, <2>2 DEF TypeOK
<1>28. ASSUME NEW c \in Clients, EndsOnExited(c) PROVE ChunkInv'
  <2>1. /\ client' = [client EXCEPT ![c] = "gone"] /\ got' = [got EXCEPT ![c] = {}]
        /\ told' = [told EXCEPT ![c] = None]
        /\ UNCHANGED <<pushed, drain, grabbed, exit, chan, from>>
    BY <1>28 DEF EndsOnExited, ClientGoto, Close
  <2>2. ClientChunks(c)'
    BY <2>1, UnservedChunks DEF TypeOK
  <2> QED
    BY <1>s, <2>1, <2>2 DEF TypeOK
<1>29. ASSUME NEW c \in Clients, Interrupt(c) PROVE ChunkInv'
  <2>1. /\ client' = [client EXCEPT ![c] = "gone"] /\ got' = [got EXCEPT ![c] = {}]
        /\ told' = [told EXCEPT ![c] = None]
        /\ UNCHANGED <<pushed, drain, grabbed, exit, chan, from>>
    BY <1>29 DEF Interrupt, ClientGoto
  <2>2. ClientChunks(c)'
    BY <2>1, UnservedChunks DEF TypeOK
  <2> QED
    BY <1>s, <2>1, <2>2 DEF TypeOK
<1> QED
  BY <1>0, <1>1, <1>2, <1>3, <1>4, <1>5, <1>6, <1>7, <1>8, <1>9, <1>10, <1>11, <1>12, <1>13, <1>14, <1>15,
      <1>16, <1>17, <1>18, <1>19, <1>20, <1>21, <1>22, <1>23, <1>24, <1>25, <1>26, <1>27, <1>28, <1>29
  DEF Next, Drain, Exiter, Reader, Writer, ClientStep

\* The join of the drain thread before broadcast_exit: a client that is told of
\* the child's own exit has been sent every chunk since its replay, however many
\* clients come, go, are evicted or detached late in between.
THEOREM ExitAfterOutput == Spec => []CompleteBeforeExit
<1>1. Init => CodeInv
  BY DEF Init, CodeInv, OneExitCode, SentCode
<1>2. Init => SlotInv
  BY DEF Init, SlotInv, LiveIsOpen, InterruptsLast, HandledHasSlot, AttachedIsRead, FarewellAfterExit
<1>3. Init => HandlerInv /\ ChunkInv
  BY AttachAssumption
  DEF Init, HandlerInv, DrainJoined, HandlerFollows, WriterRuns, ToldIsAttached, Served, Exiters,
      ChunkInv, ClientChunks, NoChunkLost, ExitComesLast, Complete
<1>4. TypeOK /\ TypeOK' /\ CodeInv /\ SlotInv /\ HandlerInv /\ ChunkInv /\ [Next]_vars
        => CodeInv' /\ SlotInv' /\ HandlerInv' /\ ChunkInv'
  BY CodeStep, SlotStep, HandlerStep, ChunkStep
<1>5. ChunkInv => CompleteBeforeExit
  BY DEF ChunkInv, ClientChunks, Complete, CompleteBeforeExit
<1> QED
  BY <1>1, <1>2, <1>3, <1>4, <1>5, TypeCorrect, PTL DEF Spec

=============================================================================
