------------------------------- MODULE Multi2 -------------------------------
(***************************************************************************)
(* The relay of multi2.c.  NB_PROCESS processes, forked by main, each run  *)
(* four threads: a server that accepts a connection and receives a text, a *)
(* brain that appends the number of its process to it, a client that sends *)
(* the result to a randomly chosen other process, and a tracker that       *)
(* writes it on the pipe of an observer, which appends it to log.txt.  The *)
(* process with the highest number starts the relay with "bonjour".        *)
(*                                                                         *)
(* The nine semaphores and the buffers are globals of the C program; after *)
(* fork every process has its own copy, so they are functions of Procs.    *)
(*                                                                         *)
(* A step is as long as the others cannot tell: consecutive sem_waits with *)
(* the accesses they protect, one access to something shared, and the      *)
(* sem_posts after it (a post never blocks and only enables others).  The  *)
(* text of bufferBrainClient is also written without its mutex, so that    *)
(* the first writing by the brain and every use by the client are separate *)
(* steps.                                                                  *)
(***************************************************************************)
EXTENDS Texts

CONSTANTS
  Backlog,     \* second argument of listen (multi2.c:346)
  Unbindable,  \* processes whose bind may fail, the port being taken
  Tracked      \* processes whose tracker thread exists: create_threads ignores
               \* what pthread_create returns (multi2.c:179)

ASSUME BacklogAssumption == Backlog \in Nat
ASSUME ProcessesAssumption == /\ Unbindable \subseteq 0 .. NB_PROCESS - 1
                              /\ Tracked \subseteq 0 .. NB_PROCESS - 1

VARIABLES
  receive_plein, receive_vide, receive_mutex,   \* server -> brain
  sending_plein, sending_vide, sending_mutex,   \* brain -> client
  tracker_plein, tracker_vide, tracker_mutex,   \* brain -> tracker
  bufferServBrain, bufferClient, bufferBrainClient, bufferBrainTracker,
  brain, client, server,  \* where each thread of each process is
  alive,      \* FALSE once error() has ended the process
  target,     \* the process the client has drawn
  sock,       \* the client's sockfd: an index into conns[target]
  conns,      \* per process, the connections made to it, in order
  accepted,   \* per process, how many of them accept() has returned
  pipe        \* the texts written on the observer's pipe, in order

receiveSems == <<receive_plein, receive_vide, receive_mutex>>
sendingSems == <<sending_plein, sending_vide, sending_mutex>>
trackerSems == <<tracker_plein, tracker_vide, tracker_mutex>>
sems == <<receiveSems, sendingSems, trackerSems>>
buffers == <<bufferServBrain, bufferClient, bufferBrainClient, bufferBrainTracker>>
threads == <<brain, client, server>>
sockets == <<target, sock, conns, accepted>>
vars == <<sems, buffers, threads, alive, sockets, pipe>>

-----------------------------------------------------------------------------
sem_wait(sem, p) == sem[p] > 0 /\ sem' = [sem EXCEPT ![p] = @ - 1]
sem_post(sem, p) == sem' = [sem EXCEPT ![p] = @ + 1]
Goto(thread, p, from, to) == /\ alive[p]
                             /\ thread[p] = from
                             /\ thread' = [thread EXCEPT ![p] = to]

Everywhere(x) == [p \in Procs |-> x]

(* The children after fork, their servers at s: semaphores as main         *)
(* initialised them.                                                       *)
InitAt(s) ==
  /\ receive_plein = Everywhere(0) /\ receive_vide = Everywhere(1)
  /\ sending_plein = Everywhere(0) /\ sending_vide = Everywhere(1)
  /\ tracker_plein = Everywhere(0) /\ tracker_vide = Everywhere(1)
  /\ receive_mutex = Everywhere(1) /\ sending_mutex = Everywhere(1)
  /\ tracker_mutex = Everywhere(1)
  /\ bufferServBrain = Everywhere(Empty) /\ bufferClient = Everywhere(Empty)
  /\ bufferBrainClient = Everywhere(Empty) /\ bufferBrainTracker = Everywhere(Empty)
  /\ brain = [p \in Procs |-> IF p = Starter THEN "seed" ELSE "take"]
  /\ client = Everywhere("take") /\ server = Everywhere(s)
  /\ alive = Everywhere(TRUE)
  /\ target = Everywhere(0) /\ sock = Everywhere(0)
  /\ conns = Everywhere(<<>>) /\ accepted = Everywhere(0)
  /\ pipe = <<>>

Init == InitAt("start")

-----------------------------------------------------------------------------
(* thread_brain *)

BrainSeed(p) ==
  /\ Goto(brain, p, "seed", "take")
  /\ bufferBrainClient' = [bufferBrainClient EXCEPT ![p] = Greeting]
  /\ sem_post(sending_plein, p)
  /\ UNCHANGED <<receiveSems, sending_vide, sending_mutex, trackerSems,
                 bufferServBrain, bufferClient, bufferBrainTracker,
                 client, server, alive, sockets, pipe>>

(* Mutant: the client is woken before its text is written.                 *)
BrainTakeAnnouncing(p) ==
  /\ Goto(brain, p, "take", "compose")
  /\ sem_wait(receive_plein, p)
  /\ sem_wait(receive_mutex, p)
  /\ sem_post(sending_plein, p)
  /\ bufferClient' = [bufferClient EXCEPT ![p] = bufferServBrain[p]]
  /\ bufferBrainClient' = [bufferBrainClient EXCEPT ![p] = Torn]
  /\ UNCHANGED <<receive_vide, sending_vide, sending_mutex, trackerSems,
                 bufferServBrain, bufferBrainTracker,
                 client, server, alive, sockets, pipe>>

(* The copy, and the start of the sprintf into bufferBrainClient: it runs  *)
(* under receive_mutex, not under the sending_mutex the client holds while *)
(* it uses that buffer.                                                    *)
BrainTake(p) ==
  /\ Goto(brain, p, "take", "compose")
  /\ sem_wait(receive_plein, p)
  /\ sem_wait(receive_mutex, p)
  /\ bufferClient' = [bufferClient EXCEPT ![p] = bufferServBrain[p]]
  /\ bufferBrainClient' = [bufferBrainClient EXCEPT ![p] = Torn]
  /\ UNCHANGED <<receive_vide, sendingSems, trackerSems,
                 bufferServBrain, bufferBrainTracker,
                 client, server, alive, sockets, pipe>>

BrainFreeSlotNoVide(p) == sem_post(receive_mutex, p) /\ UNCHANGED receive_vide
BrainFreeSlot(p) == sem_post(receive_mutex, p) /\ sem_post(receive_vide, p)

(* The end of that sprintf: a memset of the client in between leaves the   *)
(* text cut anywhere.  Then the slot is given back and the text announced. *)
BrainCompose(p) ==
  LET stamped == Stamp(bufferClient[p], p)
  IN
  /\ Goto(brain, p, "compose", "rewrite")
  /\ \E m \in IF bufferBrainClient[p] = Torn THEN {stamped} ELSE Cuts(stamped) :
       bufferBrainClient' = [bufferBrainClient EXCEPT ![p] = m]
  /\ BrainFreeSlot(p)
  /\ sem_post(sending_plein, p)
  /\ UNCHANGED <<receive_plein, sending_vide, sending_mutex, trackerSems,
                 bufferServBrain, bufferClient, bufferBrainTracker,
                 client, server, alive, sockets, pipe>>

(* The second writing of the text, under sending_mutex, and its second      *)
(* announcement.                                                           *)
BrainRewrite(p) ==
  /\ Goto(brain, p, "rewrite", "track")
  /\ sending_mutex[p] > 0
  /\ bufferBrainClient' = [bufferBrainClient EXCEPT ![p] = Stamp(bufferClient[p], p)]
  /\ sem_post(sending_plein, p)
  /\ sem_post(tracker_plein, p)
  /\ UNCHANGED <<receiveSems, sending_vide, sending_mutex, tracker_vide, tracker_mutex,
                 bufferServBrain, bufferClient, bufferBrainTracker,
                 client, server, alive, sockets, pipe>>

(* Mutant: the tracker is only told before its text is written.            *)
BrainTrackOnce(p) ==
  /\ Goto(brain, p, "track", "take")
  /\ tracker_mutex[p] > 0
  /\ bufferBrainTracker' = [bufferBrainTracker EXCEPT ![p] = Stamp(bufferClient[p], p)]
  /\ UNCHANGED <<receiveSems, sendingSems, trackerSems,
                 bufferServBrain, bufferClient, bufferBrainClient,
                 client, server, alive, sockets, pipe>>

(* The tracker was told before this buffer is written, and is told again.  *)
BrainTrack(p) ==
  /\ Goto(brain, p, "track", "take")
  /\ tracker_mutex[p] > 0
  /\ bufferBrainTracker' = [bufferBrainTracker EXCEPT ![p] = Stamp(bufferClient[p], p)]
  /\ sem_post(tracker_plein, p)
  /\ UNCHANGED <<receiveSems, sendingSems, tracker_vide, tracker_mutex,
                 bufferServBrain, bufferClient, bufferBrainClient,
                 client, server, alive, sockets, pipe>>

-----------------------------------------------------------------------------
(* thread_client *)

(* rand() % NB_PROCESS, drawn again while it is the process itself.        *)
DrawOffByOne(p) == (1 .. NB_PROCESS) \ {p}
DrawAny(p) == Procs
Draw(p) == Procs \ {p}

ClientTake(p) ==
  /\ Goto(client, p, "take", "connect")
  /\ sem_wait(sending_plein, p)
  /\ sem_wait(sending_mutex, p)
  /\ \E q \in Draw(p) : target' = [target EXCEPT ![p] = q]
  /\ UNCHANGED <<receiveSems, sending_vide, trackerSems, buffers,
                 brain, server, alive, sock, conns, accepted, pipe>>

ClientReleaseNoMutex(p) == sem_post(sending_vide, p) /\ UNCHANGED sending_mutex
ClientRelease(p) == sem_post(sending_mutex, p) /\ sem_post(sending_vide, p)

Listening(q) == alive[q] /\ server[q] # "start"

(* Linux queues one connection more than the backlog listen was given.     *)
QueueFull(q) == Len(conns[q]) - accepted[q] > Backlog

ClientConnect(p) ==
  LET q == target[p]
  IN
  /\ Goto(client, p, "connect", "send")
  /\ Listening(q) /\ ~QueueFull(q)
  /\ conns' = [conns EXCEPT ![q] = Append(@, [data |-> Empty, open |-> TRUE])]
  /\ sock' = [sock EXCEPT ![p] = Len(conns[q]) + 1]
  /\ UNCHANGED <<sems, buffers, brain, server, alive, target, accepted, pipe>>

(* connect fails: nobody listens, or the queue stays full until it times   *)
(* out.  The loop goes back to waiting on sending_plein.                   *)
ClientRefused(p) ==
  /\ Goto(client, p, "connect", "take")
  /\ Listening(target[p]) => QueueFull(target[p])
  /\ ClientRelease(p)
  /\ UNCHANGED <<receiveSems, sending_plein, trackerSems, buffers,
                 brain, server, alive, sockets, pipe>>

(* send of strlen(bufferBrainClient) bytes: nothing if it is empty *)
ClientSend(p) ==
  /\ Goto(client, p, "send", "clear")
  /\ conns' = [conns EXCEPT ![target[p]][sock[p]].data = bufferBrainClient[p]]
  /\ UNCHANGED <<sems, buffers, brain, server, alive, target, sock, accepted,
                 pipe>>

ClientClear(p) ==
  /\ Goto(client, p, "clear", "close")
  /\ bufferBrainClient' = [bufferBrainClient EXCEPT ![p] = Empty]
  /\ UNCHANGED <<sems, bufferServBrain, bufferClient, bufferBrainTracker,
                 brain, server, alive, sockets, pipe>>

ClientClose(p) ==
  /\ Goto(client, p, "close", "take")
  /\ conns' = [conns EXCEPT ![target[p]][sock[p]].open = FALSE]
  /\ ClientRelease(p)
  /\ UNCHANGED <<receiveSems, sending_plein, trackerSems, buffers,
                 brain, server, alive, target, sock, accepted, pipe>>

-----------------------------------------------------------------------------
(* thread_server *)

ServerListen(p) ==
  /\ Goto(server, p, "start", "accept")
  /\ UNCHANGED <<sems, buffers, brain, client, alive, sockets, pipe>>

(* bind fails: error() exits, which ends the four threads and closes the   *)
(* connection the client may have open.                                    *)
ServerFails(p) ==
  /\ p \in Unbindable
  /\ alive[p] /\ server[p] = "start"
  /\ alive' = [alive EXCEPT ![p] = FALSE]
  /\ conns' = IF client[p] \in {"send", "clear", "close"}
              THEN [conns EXCEPT ![target[p]][sock[p]].open = FALSE]
              ELSE conns
  /\ UNCHANGED <<sems, buffers, threads, target, sock, accepted, pipe>>

ServerAccept(p) ==
  /\ Goto(server, p, "accept", "take")
  /\ accepted[p] < Len(conns[p])
  /\ accepted' = [accepted EXCEPT ![p] = @ + 1]
  /\ UNCHANGED <<sems, buffers, brain, client, alive, target, sock, conns,
                 pipe>>

(* The memset before recv *)
ServerTake(p) ==
  /\ Goto(server, p, "take", "recv")
  /\ sem_wait(receive_vide, p)
  /\ sem_wait(receive_mutex, p)
  /\ bufferServBrain' = [bufferServBrain EXCEPT ![p] = Empty]
  /\ UNCHANGED <<receive_plein, sendingSems, trackerSems,
                 bufferClient, bufferBrainClient, bufferBrainTracker,
                 brain, client, alive, sockets, pipe>>

(* recv returns the bytes the peer has sent *)
ServerReceive(p) ==
  LET peer == conns[p][accepted[p]]
  IN
  /\ Goto(server, p, "recv", "take")
  /\ peer.data # Empty
  /\ bufferServBrain' = [bufferServBrain EXCEPT ![p] = peer.data]
  /\ conns' = [conns EXCEPT ![p][accepted[p]].data = Empty]
  /\ sem_post(receive_mutex, p)
  /\ sem_post(receive_plein, p)
  /\ UNCHANGED <<receive_vide, sendingSems, trackerSems,
                 bufferClient, bufferBrainClient, bufferBrainTracker,
                 brain, client, alive, target, sock, accepted, pipe>>

(* Mutant: the slot is given back when the peer hangs up.                  *)
ServerHangupFreeing(p) ==
  LET peer == conns[p][accepted[p]]
  IN
  /\ Goto(server, p, "recv", "accept")
  /\ peer.data = Empty /\ ~peer.open
  /\ sem_post(receive_mutex, p)
  /\ sem_post(receive_vide, p)
  /\ UNCHANGED <<receive_plein, sendingSems, trackerSems, buffers,
                 brain, client, alive, sockets, pipe>>

(* recv returns 0: the peer has closed and everything was read.  The break *)
(* leaves the inner loop with receive_mutex and the receive_vide token.    *)
ServerHangup(p) ==
  LET peer == conns[p][accepted[p]]
  IN
  /\ Goto(server, p, "recv", "accept")
  /\ peer.data = Empty /\ ~peer.open
  /\ UNCHANGED <<sems, buffers, brain, client, alive, sockets, pipe>>

-----------------------------------------------------------------------------
(* thread_tracker *)

TrackerWrite(p) ==
  /\ p \in Tracked
  /\ alive[p]
  /\ sem_wait(tracker_plein, p)
  /\ tracker_mutex[p] > 0
  /\ pipe' = IF bufferBrainTracker[p] = Empty THEN pipe
             ELSE Append(pipe, bufferBrainTracker[p])
  /\ sem_post(tracker_vide, p)
  /\ UNCHANGED <<receiveSems, sendingSems, tracker_mutex, buffers, threads, alive, sockets>>

-----------------------------------------------------------------------------
Brain(p) == \/ BrainSeed(p) \/ BrainTake(p) \/ BrainCompose(p)
            \/ BrainRewrite(p) \/ BrainTrack(p)
Client(p) == \/ ClientTake(p) \/ ClientConnect(p) \/ ClientRefused(p)
             \/ ClientSend(p) \/ ClientClear(p) \/ ClientClose(p)
Serve(p) == \/ ServerListen(p) \/ ServerAccept(p) \/ ServerTake(p)
            \/ ServerReceive(p) \/ ServerHangup(p)
Track(p) == TrackerWrite(p)

Run == \E p \in Procs : Brain(p) \/ Client(p) \/ Serve(p) \/ Track(p)

Next == Run \/ \E p \in Procs : ServerFails(p)

Spec == Init /\ [][Next]_vars

(* While some thread can run, one does; no bind is obliged to fail.  More  *)
(* is not needed: no step of the relay can be repeated for ever.           *)
Fairness == WF_vars(Run)

FairSpec == Spec /\ Fairness

-----------------------------------------------------------------------------
(* The values of every variable.                                           *)
Connection == [data: Text, open: BOOLEAN]

SemsOK ==
  /\ receive_plein \in [Procs -> Nat] /\ receive_vide \in [Procs -> Nat]
  /\ sending_plein \in [Procs -> Nat] /\ sending_vide \in [Procs -> Nat]
  /\ tracker_plein \in [Procs -> Nat] /\ tracker_vide \in [Procs -> Nat]
  /\ receive_mutex \in [Procs -> Nat] /\ sending_mutex \in [Procs -> Nat]
  /\ tracker_mutex \in [Procs -> Nat]

BuffersOK ==
  /\ bufferServBrain \in [Procs -> Text] /\ bufferClient \in [Procs -> Text]
  /\ bufferBrainClient \in [Procs -> Text] /\ bufferBrainTracker \in [Procs -> Text]
  /\ pipe \in Seq(Text)

ThreadsOK ==
  /\ brain \in [Procs -> {"seed", "take", "compose", "rewrite", "track"}]
  /\ client \in [Procs -> {"take", "connect", "send", "clear", "close"}]
  /\ server \in [Procs -> {"start", "accept", "take", "recv"}]
  /\ alive \in [Procs -> BOOLEAN]

(* A client that uses its socket has one; the server has the connections   *)
(* it has accepted, and is at a connection while it is in the inner loop.  *)
SocketsOK ==
  /\ target \in [Procs -> Procs] /\ sock \in [Procs -> Nat] /\ accepted \in [Procs -> Nat]
  /\ conns \in [Procs -> Seq(Connection)]
  /\ \A p \in Procs :
       /\ client[p] \in {"send", "clear", "close"} => sock[p] \in 1 .. Len(conns[target[p]])
       /\ accepted[p] <= Len(conns[p])
       /\ server[p] \in {"take", "recv"} => accepted[p] >= 1
       /\ server[p] = "start" => accepted[p] = 0

TypeOK == SemsOK /\ BuffersOK /\ ThreadsOK /\ SocketsOK

(* The one-place slot between server and brain is full, empty, in use by   *)
(* exactly one of them, or lost: receive_mutex is free exactly while       *)
(* receive_vide or receive_plein holds the one token.                      *)
ReceiveSlot ==
  \A p \in Procs :
    /\ receive_mutex[p] = receive_vide[p] + receive_plein[p]
    /\ receive_mutex[p] <= 1
    /\ server[p] = "recv" \/ brain[p] = "compose" => receive_mutex[p] = 0
    /\ ~(server[p] = "recv" /\ brain[p] = "compose")

(* The token of the slot is gone for good.                                 *)
Jammed(p) == receive_mutex[p] = 0 /\ server[p] # "recv" /\ brain[p] # "compose"

(* The break after recv returned 0 keeps the token: the server is never    *)
(* back at accept, after its first connection, with a slot to receive in.  *)
HangupJams ==
  \A p \in Procs : server[p] = "accept" /\ accepted[p] > 0 => Jammed(p)

(* A process relays at most one text in its life, although its three loops *)
(* are endless: what the brain has taken once it never replaces.           *)
AtMostOneText ==
  [][\A p \in Procs : bufferClient[p] # Empty => bufferClient'[p] = bufferClient[p]]_vars

(* sending_mutex is held exactly while the client has a connection to make *)
(* or to use, on every path through its loop.                              *)
SendingMutex ==
  \A p \in Procs : sending_mutex[p] = (IF client[p] = "take" THEN 1 ELSE 0)

(* On every path, that of a peer that hangs up and that of a refused       *)
(* connect included, slot and connection have at most one owner.           *)
Exclusion == ReceiveSlot /\ SendingMutex

(* The writing of bufferBrainClient without sending_mutex meets a client   *)
(* that uses this buffer only in the starter, and only while the client is *)
(* between send and memset for the greeting.                               *)
RaceOnlyAtStarter ==
  \A p \in Procs : brain[p] = "compose" /\ client[p] \in {"connect", "send", "clear"}
                     => p = Starter /\ client[p] = "clear"

(* The relay is a hop trace.                                               *)
Trace == INSTANCE HopTrace
           WITH text <- [p \in Procs |-> IF bufferClient[p] = Empty THEN Empty
                                          ELSE Stamp(bufferClient[p], p)],
                trace <- pipe

IsHopTrace == Trace!Spec

(* So no text that a process has stamped ever comes back to be stamped     *)
(* again, on whatever way the draws of the targets send it ...             *)
VisitsOnce == Trace!VisitsOnce

(* ... and a text that begins with a damaged greeting comes from a starter *)
(* that has stamped before, and lacks its stamp.                           *)
DamageHidesStarter == Trace!DamageHidesStarter

(* What is logged tells the way of a text: no process is twice in it, and  *)
(* a damaged one comes from the starter, without its stamp.                *)
LogTells == VisitsOnce /\ DamageHidesStarter

-----------------------------------------------------------------------------
(* The text of the first connection a process gets is relayed: its brain   *)
(* takes it, whatever happens on the later connections.                    *)
FirstTextIsTaken ==
  \A p \in Procs : (accepted[p] = 0 /\ conns[p] # <<>> /\ conns[p][1].data # Empty)
                     ~> bufferClient[p] # Empty

(* A relayed text is written on the pipe of the observer.                  *)
TakenIsTracked ==
  \A p \in Tracked : bufferClient[p] # Empty
                       ~> \E i \in DOMAIN pipe : pipe[i] = Stamp(bufferClient[p], p)

(* What comes on a first connection is relayed, and logged, whoever hangs  *)
(* up afterwards.                                                          *)
FirstTextIsTracked == FirstTextIsTaken /\ TakenIsTracked

(* The relay comes to rest: from some moment on all clients and brains     *)
(* wait, and no announcement is left to them.  It says nothing of trackers *)
(* and servers.                                                            *)
AtRest ==
  \A p \in Procs : /\ client[p] = "take" /\ sending_plein[p] = 0
                    /\ brain[p] = "take" /\ receive_plein[p] = 0
RelayEnds == <>[]AtRest

(* multi2.c:301, "Retry connection": a client that has failed to connect   *)
(* tries again, so what it has to send is sent at last.                    *)
RetriesConnection == \A p \in Procs : client[p] = "connect" ~> client[p] = "send"
=============================================================================
