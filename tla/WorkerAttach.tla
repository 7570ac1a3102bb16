---------------------------- MODULE WorkerAttach ----------------------------
(***************************************************************************)
(* One session worker (daemon/worker.rs, daemon/worker_shared.rs): its     *)
(* child's output, the clients that attach to it one at a time, the exit   *)
(* code, and the end of the worker.  The clients are `clud attach` and     *)
(* `clud --detachable` (daemon/attach.rs).                                 *)
(*                                                                         *)
(* A step ends where the code gives up a lock that another thread's next   *)
(* move depends on, or where it writes to or reads from a socket.  Each    *)
(* change of the snapshot is saved to sessions/<id>.json as it is made:    *)
(* the file is not kept apart from the snapshot here.                      *)
(***************************************************************************)
EXTENDS Integers, Sequences

CONSTANTS
    Clients,       \* client processes, each attaching at most once
    Interactive,   \* those in run_remote_interactive: they do not see the exit
    None,          \* no client, no code
    BacklogLimit,  \* chunks the backlog keeps
    MaxOutput,     \* bound: chunks the child writes
    DaemonMayDie,
    MayInterrupt   \* clients may send Interrupt; bound: the worker gets one

\* The threads that call broadcast_exit; each name is also its exit code.
Exiters == {"wait", "watchdog", "interrupt"}
Senders == Exiters \cup {"drain"}
Codes   == Exiters \cup {None}

ASSUME AttachAssumption ==
    /\ None \notin Clients /\ None \notin Exiters
    /\ Interactive \subseteq Clients
    /\ BacklogLimit \in Nat \ {0} /\ MaxOutput \in Nat
    /\ DaemonMayDie \in BOOLEAN /\ MayInterrupt \in BOOLEAN

VARIABLES
    running,             \* the child runs
    pushed,              \* chunks of push_output
    drain,               \* the thread that reads the child
    exiter,              \* the threads that end the session
    grabbed,             \* send_to_client: the sender a thread has cloned
    exit, background,    \* WorkerShared::snapshot
    stopAccepting,
    slot,                \* WorkerShared::client
    chan,                \* the channel of a client
    main, heartbeat,     \* the accept loop and the heartbeat thread
    reader, writer,      \* the threads of a connection
    from,                \* the first chunk of the replay
    conn,                \* the state of a client's connection
    interrupt,           \* an Interrupt line the worker has not read
    client,              \* the client process
    got, told            \* the chunks and the exit code it was sent

output   == <<running, pushed, drain>>
session  == <<exit, background>>
exiting  == <<exiter, stopAccepting>>
sending  == <<chan, grabbed>>
loops    == <<main, heartbeat>>
handlers == <<reader, writer, from>>
clients  == <<conn, interrupt, client, got, told>>
vars == <<output, session, exiting, slot, sending, loops, handlers, clients>>

Messages == [chunk : 0 .. MaxOutput, exit : Codes]

TypeOK ==
    /\ running \in BOOLEAN /\ stopAccepting \in BOOLEAN /\ background \in BOOLEAN
    /\ pushed \in 0 .. MaxOutput
    /\ drain \in {"read", "grab", "send", "done"}
    /\ exiter \in [Exiters -> {"idle", "due", "latch", "stop", "send", "done"}]
    /\ grabbed \in [Senders -> Clients \cup {None}]
    /\ exit \in Codes
    /\ slot \in Clients \cup {None}
    /\ chan \in [Clients -> Seq(Messages)]
    /\ main \in {"accept", "gone"}
    /\ heartbeat \in {"beat", "done"}
    /\ reader \in [Clients -> {"none", "hello", "look", "reply", "farewell", "reading", "leaving",
                              "ended", "failed"}]
    /\ writer \in [Clients -> {"none", "run", "ended"}]
    /\ from \in [Clients -> Nat]
    /\ conn \in [Clients -> {"none", "open", "closed", "reset"}]
    /\ interrupt \in [Clients -> BOOLEAN]
    /\ client \in [Clients -> {"away", "asking", "refused", "attached", "gone"}]
    /\ got \in [Clients -> SUBSET (0 .. MaxOutput)]
    /\ told \in [Clients -> Codes]

Init ==
    /\ running = TRUE /\ pushed = 0 /\ drain = "read"
    /\ exiter = [x \in Exiters |-> "idle"] /\ stopAccepting = FALSE
    /\ grabbed = [t \in Senders |-> None]
    /\ exit = None /\ background \in BOOLEAN
    /\ slot = None /\ chan = [c \in Clients |-> <<>>]
    /\ main = "accept" /\ heartbeat = "beat"
    /\ reader = [c \in Clients |-> "none"] /\ writer = reader /\ conn = reader
    /\ from = [c \in Clients |-> 1]
    /\ interrupt = [c \in Clients |-> FALSE]
    /\ client = [c \in Clients |-> "away"]
    /\ got = [c \in Clients |-> {}] /\ told = [c \in Clients |-> None]

\* The worker process exists.
Up == main # "gone"

\* The end of detach_client and of evict_dead_client.
BackgroundUnlessExited == background' = (exit = None \/ background)

-----------------------------------------------------------------------------
(* The child and the thread that drains its output.                          *)

ChildExits ==
    /\ running
    /\ running' = FALSE
    /\ UNCHANGED <<pushed, drain, session, exiting, slot, sending, loops, handlers, clients>>

\* push_output: the backlog, then send_to_client.
DrainChunk ==
    /\ Up /\ drain = "read" /\ pushed < MaxOutput
    /\ pushed' = pushed + 1
    /\ drain' = "grab"
    /\ UNCHANGED <<running, session, exiting, slot, sending, loops, handlers, clients>>

\* The end of the output, or a timeout after which the child has an exit code.
DrainEnds ==
    /\ Up /\ drain = "read" /\ ~running
    /\ drain' = "done"
    /\ UNCHANGED <<running, pushed, session, exiting, slot, sending, loops, handlers, clients>>

\* send_to_client clones the sender under the slot's lock and uses it after.
Grab(t) == grabbed' = [grabbed EXCEPT ![t] = slot] /\ UNCHANGED chan

ReceiverLives(c) == reader[c] \in {"look", "reply", "farewell"} \/ writer[c] = "run"

Send(t, m) ==
    /\ chan' = [c \in Clients |-> IF grabbed[t] = c /\ ReceiverLives(c)
                                  THEN Append(chan[c], m) ELSE chan[c]]
    /\ grabbed' = [grabbed EXCEPT ![t] = None]

DrainGrab ==
    /\ Up /\ drain = "grab"
    /\ drain' = "send"
    /\ Grab("drain")
    /\ UNCHANGED <<running, pushed, session, exiting, slot, loops, handlers, clients>>

DrainSend ==
    /\ Up /\ drain = "send"
    /\ drain' = "read"
    /\ Send("drain", [chunk |-> pushed, exit |-> None])
    /\ UNCHANGED <<running, pushed, session, exiting, slot, loops, handlers, clients>>

-----------------------------------------------------------------------------
(* The threads that end the session.                                         *)

Goto(x, before, to) ==
    /\ Up /\ exiter[x] = before
    /\ exiter' = [exiter EXCEPT ![x] = to]

\* Mutant: the wait thread does not join the drain.
WaitedUnjoined ==
    /\ Goto("wait", "idle", "latch")
    /\ ~running
    /\ UNCHANGED <<output, session, stopAccepting, slot, sending, loops, handlers, clients>>

\* The wait thread joins the drain before it broadcasts.
ChildWaited ==
    /\ Goto("wait", "idle", "latch")
    /\ ~running /\ drain = "done"
    /\ UNCHANGED <<output, session, stopAccepting, slot, sending, loops, handlers, clients>>

\* The watchdog, until the session has ended, may find the daemon dead.
Watchdog ==
    /\ exit = None /\ DaemonMayDie
    /\ Goto("watchdog", "idle", "due")
    /\ UNCHANGED <<output, session, stopAccepting, slot, sending, loops, handlers, clients>>

\* The watchdog and the thread of start_interrupt_fast_path.
CleanupTree(x) ==
    /\ Goto(x, "due", "latch")
    /\ running' = FALSE
    /\ UNCHANGED <<pushed, drain, session, stopAccepting, slot, sending, loops, handlers, clients>>

\* Mutant: the last code wins.
LastExitCode(x) ==
    /\ Goto(x, "latch", "stop")
    /\ exit' = x
    /\ UNCHANGED <<output, background, stopAccepting, slot, sending, loops, handlers, clients>>

\* broadcast_exit: set_exit_code keeps the first code.
SetExitCode(x) ==
    /\ Goto(x, "latch", "stop")
    /\ exit' = IF exit = None THEN x ELSE exit
    /\ UNCHANGED <<output, background, stopAccepting, slot, sending, loops, handlers, clients>>

StopAccepting(x) ==
    /\ Goto(x, "stop", "send")
    /\ stopAccepting' = TRUE
    /\ Grab(x)
    /\ UNCHANGED <<output, session, slot, loops, handlers, clients>>

\* The code sent is the one set_exit_code returned.
SendExited(x) ==
    /\ Goto(x, "send", "done")
    /\ Send(x, [chunk |-> 0, exit |-> exit])
    /\ UNCHANGED <<output, session, stopAccepting, slot, loops, handlers, clients>>

-----------------------------------------------------------------------------
(* A connection: handle_worker_client, with its writer thread.               *)

Dead(c) == conn[c] \in {"closed", "reset"}

\* Mutants: every probe finds the client dead, or only a clean end does.
ProbeFindsDead == slot # None
ProbeMissesReset == \E c \in Clients : slot = c /\ conn[c] = "closed" /\ ~interrupt[c]

\* probe_socket_dead: a line that nobody has read hides the end behind it.
SlotDead ==
    \E c \in Clients : slot = c /\ (conn[c] = "reset" \/ (conn[c] = "closed" /\ ~interrupt[c]))

ReaderGoto(c, before, to) ==
    /\ Up /\ reader[c] = before
    /\ reader' = [reader EXCEPT ![c] = to]

\* attach_client: a dead client is evicted, as by the heartbeat, and the slot taken.
TakeSlot(c) ==
    /\ ReaderGoto(c, "hello", "look")
    /\ slot = None \/ SlotDead
    /\ slot' = c
    /\ IF slot = None THEN UNCHANGED background ELSE BackgroundUnlessExited
    /\ UNCHANGED <<output, exit, exiting, sending, loops, writer, from, clients>>

\* "session already has an attached client"
Refuse(c) ==
    /\ slot # None /\ ~SlotDead
    /\ IF client[c] = "asking"
       THEN /\ ReaderGoto(c, "hello", "none")
            /\ client' = [client EXCEPT ![c] = "refused"]
            /\ conn' = [conn EXCEPT ![c] = "none"]
       ELSE ReaderGoto(c, "hello", "ended") /\ UNCHANGED <<client, conn>>
    /\ UNCHANGED <<output, session, exiting, slot, sending, loops, writer, from, interrupt, got, told>>

\* Mutant: an exit before the attach is left to the channel.
LookAway(c) ==
    /\ ReaderGoto(c, "look", "reply")
    /\ background' = FALSE
    /\ UNCHANGED <<output, exit, exiting, slot, sending, loops, writer, from, clients>>

\* set_background(false), and the snapshot that the client is shown.
Look(c) ==
    /\ ReaderGoto(c, "look", IF exit = None THEN "reply" ELSE "farewell")
    /\ background' = FALSE
    /\ UNCHANGED <<output, exit, exiting, slot, sending, loops, writer, from, clients>>

\* Mutant: the subtraction is not guarded.
BacklogUnderflows == pushed - BacklogLimit + 1

\* The chunks push_output has left in the backlog; for a PTY, the screen they made.
BacklogFrom == IF pushed < BacklogLimit THEN 1 ELSE pushed - BacklogLimit + 1

\* Attached and the replay, which reach a client that has not left.
SendReplay(c, code) ==
    /\ from' = [from EXCEPT ![c] = BacklogFrom]
    /\ IF client[c] = "asking"
       THEN /\ client' = [client EXCEPT ![c] = "attached"]
            /\ got' = [got EXCEPT ![c] = BacklogFrom .. pushed]
            /\ told' = [told EXCEPT ![c] = code]
       ELSE UNCHANGED <<client, got, told>>

Reply(c) ==
    /\ ReaderGoto(c, "reply", "reading")
    /\ conn[c] # "reset"
    /\ SendReplay(c, None)
    /\ writer' = [writer EXCEPT ![c] = "run"]
    /\ UNCHANGED <<output, session, exiting, slot, sending, loops, conn, interrupt>>

\* For a session that had exited, Exited comes last.
Farewell(c) ==
    /\ ReaderGoto(c, "farewell", "leaving")
    /\ conn[c] # "reset"
    /\ SendReplay(c, exit)
    /\ chan' = [chan EXCEPT ![c] = <<>>]
    /\ UNCHANGED <<output, session, exiting, slot, grabbed, loops, writer, conn, interrupt>>

\* A write that fails returns from handle_worker_client with the slot taken.
ReplyFails(c) ==
    /\ ReaderGoto(c, "reply", "failed") \/ ReaderGoto(c, "farewell", "failed")
    /\ Dead(c)
    /\ chan' = [chan EXCEPT ![c] = <<>>]
    /\ UNCHANGED <<output, session, exiting, slot, grabbed, loops, writer, from, clients>>

\* detach_client, by the reader or the writer thread.
Detach(c) ==
    /\ slot' = IF slot = c THEN None ELSE slot
    /\ BackgroundUnlessExited
    /\ UNCHANGED exit

\* Mutant: a clean end does not detach either.
ReadEndsAttached(c) ==
    /\ \/ ReaderGoto(c, "leaving", "ended")
       \/ /\ ReaderGoto(c, "reading", "ended")
          /\ slot = c => conn[c] = "closed" /\ ~interrupt[c]
    /\ UNCHANGED <<output, session, exiting, slot, sending, loops, writer, from, clients>>

ReadEnds(c) ==
    /\ \/ ReaderGoto(c, "leaving", "ended")
       \/ /\ ReaderGoto(c, "reading", "ended")
          /\ slot = c => conn[c] = "closed" /\ ~interrupt[c]
    /\ Detach(c)
    /\ UNCHANGED <<output, exiting, sending, loops, writer, from, clients>>

\* A read that fails returns without detach_client.
ReadFails(c) ==
    /\ ReaderGoto(c, "reading", "failed")
    /\ conn[c] = "reset"
    /\ UNCHANGED <<output, session, exiting, slot, sending, loops, writer, from, clients>>

\* start_interrupt_fast_path
ReadInterrupt(c) ==
    /\ ReaderGoto(c, "reading", "leaving")
    /\ interrupt[c] /\ slot = c
    /\ interrupt' = [interrupt EXCEPT ![c] = FALSE]
    /\ Goto("interrupt", "idle", "due")
    /\ UNCHANGED <<output, session, stopAccepting, slot, sending, loops, writer, from,
                   conn, client, got, told>>

Deliver(c, m) ==
    IF m.exit = None
    THEN got' = [got EXCEPT ![c] = @ \cup {m.chunk}] /\ UNCHANGED told
    ELSE told' = [told EXCEPT ![c] = m.exit] /\ UNCHANGED got

\* A write to a client that has closed is lost, and answered with a reset.
WriteNext(c) ==
    /\ Up /\ writer[c] = "run" /\ chan[c] # <<>>
    /\ chan' = [chan EXCEPT ![c] = Tail(@)]
    /\ \/ conn[c] = "open" /\ Deliver(c, Head(chan[c])) /\ UNCHANGED conn
       \/ conn[c] = "closed" /\ conn' = [conn EXCEPT ![c] = "reset"] /\ UNCHANGED <<got, told>>
    /\ UNCHANGED <<output, session, exiting, slot, grabbed, loops, handlers, interrupt, client>>

\* A write fails, or the last sender is gone.
WriterEnds(c) ==
    /\ Up /\ writer[c] = "run"
    /\ \/ chan[c] # <<>> /\ conn[c] = "reset"
       \/ chan[c] = <<>> /\ slot # c /\ \A t \in Senders : grabbed[t] # c
    /\ writer' = [writer EXCEPT ![c] = "ended"]
    /\ chan' = [chan EXCEPT ![c] = <<>>]
    /\ Detach(c)
    /\ UNCHANGED <<output, exiting, grabbed, loops, reader, from, clients>>

-----------------------------------------------------------------------------
(* The heartbeat, and the accept loop's end.                                 *)

\* It stops with the session: from then on only an attach evicts.
Heartbeat ==
    /\ Up /\ heartbeat = "beat"
    /\ \/ stopAccepting /\ heartbeat' = "done" /\ UNCHANGED <<slot, background>>
       \/ ~stopAccepting /\ SlotDead
          /\ slot' = None /\ BackgroundUnlessExited /\ UNCHANGED heartbeat
    /\ UNCHANGED <<output, exit, exiting, sending, main, handlers, clients>>

\* run_worker returns: the process and its other threads end where they are.
WorkerExits ==
    /\ Up /\ stopAccepting /\ slot = None
    /\ main' = "gone"
    /\ UNCHANGED <<output, session, exiting, slot, sending, heartbeat, handlers, clients>>

-----------------------------------------------------------------------------
(* The clients.                                                              *)

\* What a client had been sent is forgotten with it.
ClientGoto(c, before, to) ==
    /\ client[c] \in before
    /\ client' = [client EXCEPT ![c] = to]
    /\ IF to = "gone"
       THEN got' = [got EXCEPT ![c] = {}] /\ told' = [told EXCEPT ![c] = None]
       ELSE UNCHANGED <<got, told>>
    /\ UNCHANGED <<output, session, exiting, slot, sending, loops, writer, from>>

\* A connection, accepted, and its Attach line.  Refused, the client tries again.
Connect(c) ==
    /\ ClientGoto(c, {"away", "refused"}, "asking")
    /\ ReaderGoto(c, "none", "hello")
    /\ conn' = [conn EXCEPT ![c] = "open"]
    /\ UNCHANGED interrupt

\* ... for five seconds.
GiveUp(c) ==
    /\ ClientGoto(c, {"refused"}, "gone")
    /\ UNCHANGED <<conn, interrupt, reader>>

Close(c) ==
    /\ \E how \in {"closed", "reset"} : conn' = [conn EXCEPT ![c] = how]
    /\ UNCHANGED <<interrupt, reader>>

\* The client leaves the session in the background, or crashes.
Leave(c) == ClientGoto(c, {"asking", "attached"}, "gone") /\ Close(c)

EndsOnExited(c) ==
    /\ c \notin Interactive
    /\ told[c] # None
    /\ ClientGoto(c, {"attached"}, "gone")
    /\ Close(c)

\* send_interrupt_fast_path, where the daemon could not be reached.
Interrupt(c) ==
    /\ MayInterrupt
    /\ exiter["interrupt"] = "idle" /\ \A d \in Clients : ~interrupt[d]
    /\ ClientGoto(c, {"attached"}, "gone")
    /\ interrupt' = [interrupt EXCEPT ![c] = TRUE]
    /\ conn' = [conn EXCEPT ![c] = "closed"]
    /\ UNCHANGED reader

-----------------------------------------------------------------------------
Drain == DrainChunk \/ DrainEnds \/ DrainGrab \/ DrainSend

Exiter(x) == CleanupTree(x) \/ SetExitCode(x) \/ StopAccepting(x) \/ SendExited(x)

Reader(c) ==
    \/ TakeSlot(c) \/ Refuse(c) \/ Look(c) \/ Reply(c) \/ Farewell(c) \/ ReplyFails(c)
    \/ ReadEnds(c) \/ ReadFails(c) \/ ReadInterrupt(c)

Writer(c) == WriteNext(c) \/ WriterEnds(c)

ClientStep(c) == Connect(c) \/ GiveUp(c) \/ Leave(c) \/ EndsOnExited(c) \/ Interrupt(c)

Next ==
    \/ ChildExits \/ Drain \/ ChildWaited \/ Watchdog \/ Heartbeat \/ WorkerExits
    \/ \E x \in Exiters : Exiter(x)
    \/ \E c \in Clients : Reader(c) \/ Writer(c) \/ ClientStep(c)

\* Every thread of the worker is scheduled, and a client told Exited ends.
Fairness ==
    /\ WF_vars(Drain) /\ WF_vars(ChildWaited) /\ WF_vars(Heartbeat) /\ WF_vars(WorkerExits)
    /\ \A x \in Exiters : WF_vars(Exiter(x))
    /\ \A c \in Clients : WF_vars(Reader(c)) /\ WF_vars(Writer(c)) /\ WF_vars(EndsOnExited(c))

Spec == Init /\ [][Next]_vars /\ Fairness

-----------------------------------------------------------------------------
(* Properties.                                                               *)

\* set_exit_code keeps the first code: whichever of the wait thread, the
\* watchdog and the interrupt gets there first, every client is told its code.
OneExitCode == \A c \in Clients : told[c] \in {None, exit}

\* The single-client slot (attach_client, detach_client, evict_dead_client):
\* two living clients are never both attached to a session that goes on.
OneAttached ==
    \A c, d \in Clients :
        client[c] = "attached" /\ client[d] = "attached" /\ told[c] = None /\ told[d] = None
            => c = d

\* The join of the drain before broadcast_exit (worker.rs): a client that is
\* told of the child's own exit has been sent every chunk since its replay.
CompleteBeforeExit ==
    \A c \in Clients : told[c] = "wait" => from[c] .. pushed \subseteq got[c]

\* attach_client takes the slot before it looks at the snapshot, and
\* broadcast_exit changes the snapshot before it looks at the slot: an attached
\* client is told of the exit by one or the other, unless it leaves.
AttachedLearnsExit ==
    \A c \in Clients :
        client[c] = "attached" /\ exit # None ~> told[c] # None \/ client[c] = "gone"

\* Once the session has ended the worker ends (run_worker), unless a client
\* that does not leave, or one whose handler failed, has the slot.
WorkerEnds ==
    exit # None ~>
        \/ main = "gone"
        \/ \E c \in Clients : slot = c /\ (c \in Interactive \/ reader[c] = "failed")

\* While the worker accepts clients, the heartbeat evicts a client whose
\* connection broke, even where its handler returned without detaching it.
EvictedInSession ==
    \A c \in Clients : slot = c /\ conn[c] = "reset" ~> slot # c \/ stopAccepting

\* docs/architecture/daemon-ipc.md on a client whose terminal crashes: the
\* heartbeat evicts it and releases the slot.
DeadIsEvicted == \A c \in Clients : slot = c /\ conn[c] = "reset" ~> slot # c

\* docs/architecture/daemon-ipc.md on attach_client: it takes the slot and sets
\* background = false, so an attached session is not one in the background.
AttachedIsForeground ==
    \A c \in Clients :
        slot = c /\ conn[c] = "open" /\ reader[c] = "reading" => ~background

=============================================================================
