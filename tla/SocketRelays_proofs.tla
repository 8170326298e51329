------------------------- MODULE SocketRelays_proofs --------------------------
(***************************************************************************)
(* Three things about the relays of more than two processes, for any       *)
(* number of processes of gVersion2.c and any length of queues and         *)
(* streams: in multi.c, which of the two threads must come first for a     *)
(* process to receive and to send; in gVersion2.c, who owns slot and       *)
(* mutexes, and that a text is written over unless it came while the brain *)
(* was at work; and what alone stops gVersion2.c: a step that leaves no    *)
(* text, or a ring of connects to full queues.                             *)
(***************************************************************************)
EXTENDS SocketRelays, SequenceTheorems, TLAPS

USE NAssumption, SemMaxAssumption, BacklogAssumption, DueAssumption, StreamAssumption

-----------------------------------------------------------------------------
(* multi.c *)

(* What MU!TypeOK leaves open: pc is a function of process and thread.     *)
MultiCalls == {"socket", "connect", "send", "bind", "listen", "accept", "waits", "recv"}
MultiTypeOK == MU!TypeOK /\ pc \in [MU!Procs -> [MU!Threads -> MultiCalls]]

(* A server that waits for a connection, or has one, while the client has  *)
(* a socket made before the server's accept: the one socket that both of   *)
(* them meet is one that listens, and it cannot connect.                   *)
ServerHasTheSocket ==
  \A p \in MU!Procs :
    state[p] # "ended" /\ ~ready[p] /\ pc[p]["server"] \in {"waits", "recv"} /\ pc[p]["client"] # "socket"
      => MU!Meets(p, "server") \in {"listens", "elsewhere"}

MultiInv == MultiTypeOK /\ ServerHasTheSocket

(* multi.c begins with nobody forked and no socket.                        *)
LEMMA MultiInit == MU!Init => MultiInv
  BY DEF MU!Init, MU!TypeOK, MU!Threads, MU!Procs, MU!None, MU!Starter, MU!SocketStates, MU!Up,
         MultiInv, MultiTypeOK, MultiCalls, ServerHasTheSocket

(* A call changes the place of one thread in one process.                  *)
LEMMA MultiGoes ==
  ASSUME MultiTypeOK, NEW p \in MU!Procs, NEW t \in MU!Threads, NEW from,
         NEW next \in MultiCalls, MU!Goto(p, t, from, next)
  PROVE  /\ pc' \in [MU!Procs -> [MU!Threads -> MultiCalls]]
         /\ pc[p][t] = from /\ pc'[p][t] = next
         /\ \A u \in MU!Threads : u # t => pc'[p][u] = pc[p][u]
         /\ \A q \in MU!Procs : q # p => pc'[q] = pc[q]
         /\ MU!Up(p)
  BY DEF MultiTypeOK, MU!Goto, MU!At

(* What a call makes of the socket it meets.                               *)
LEMMA MultiBecomes ==
  ASSUME MultiTypeOK, NEW p \in MU!Procs, NEW t \in MU!Threads, NEW s \in MU!SocketStates,
         MU!Becomes(p, t, s)
  PROVE  /\ sock' \in [MU!Procs -> [MU!Threads -> MU!SocketStates]]
         /\ \A q \in MU!Procs : q # p => sock'[q] = sock[q]
  BY DEF MultiTypeOK, MU!TypeOK, MU!Becomes, MU!Fd

(* multi.c: of a process that ended nothing is claimed.                    *)
LEMMA MultiEnds ==
  ASSUME MultiInv, NEW p \in MU!Procs, MU!Ends(p)
  PROVE  MultiInv'
<1>1. MultiTypeOK'
  BY DEF MultiInv, MultiTypeOK, MU!TypeOK, MU!Ends, MU!SocketStates, MU!None, MU!Procs
<1>2. ServerHasTheSocket'
  BY DEF MultiInv, MultiTypeOK, MU!TypeOK, ServerHasTheSocket, MU!Ends, MU!Meets, MU!Fd, MU!Up
<1> QED BY <1>1, <1>2 DEF MultiInv

(* Only the process that takes a step has to be looked at.                 *)
LEMMA MultiOthers ==
  ASSUME MultiInv, MultiTypeOK', NEW p \in MU!Procs, UNCHANGED state,
         \A q \in MU!Procs : q # p => /\ pc'[q] = pc[q] /\ sock'[q] = sock[q]
                                      /\ sockfd'[q] = sockfd[q] /\ ready'[q] = ready[q],
         ~ready'[p] /\ pc'[p]["server"] \in {"waits", "recv"} /\ pc'[p]["client"] # "socket"
           => MU!Meets(p, "server")' \in {"listens", "elsewhere"}
  PROVE  MultiInv'
  BY DEF MultiInv, ServerHasTheSocket, MU!Meets, MU!Fd

(* multi.c: socket puts the descriptor of one thread in the place of the   *)
(* other's.                                                                *)
LEMMA MultiSocket ==
  ASSUME MultiInv, NEW p \in MU!Procs, NEW t \in MU!Threads, MU!socket(p, t)
  PROVE  MultiInv'
<1> DEFINE next == IF t = "client" THEN "connect" ELSE "bind"
<1>0. MultiTypeOK /\ next \in MultiCalls /\ MU!Goto(p, t, "socket", next)
  BY DEF MultiInv, MultiCalls, MU!socket
<1> HIDE DEF next
<1>1. /\ pc' \in [MU!Procs -> [MU!Threads -> MultiCalls]]
      /\ pc[p][t] = "socket" /\ pc'[p][t] = next
      /\ \A u \in MU!Threads : u # t => pc'[p][u] = pc[p][u]
      /\ \A q \in MU!Procs : q # p => pc'[q] = pc[q]
  BY <1>0, MultiGoes
<1>2. MultiTypeOK'
  <2>1. /\ sock' \in [MU!Procs -> [MU!Threads -> MU!SocketStates]]
        /\ sockfd' \in [MU!Procs -> MU!Threads \cup {"none"}]
        /\ ready' \in [MU!Procs -> BOOLEAN]
    BY <1>0 DEF MultiTypeOK, MU!TypeOK, MU!socket, MU!SocketStates
  <2>2. \A q \in MU!Procs : /\ pc'[q].client \in {"socket", "connect", "send"}
                            /\ pc'[q].server \in {"socket", "bind", "listen", "accept", "waits", "recv"}
    BY <1>0, <1>1 DEF MultiTypeOK, MU!TypeOK, MU!Threads, next
  <2> QED BY <1>0, <1>1, <2>1, <2>2 DEF MultiTypeOK, MU!TypeOK, MU!socket, MU!flow
<1>5. UNCHANGED state /\ \A q \in MU!Procs : q # p => /\ sock'[q] = sock[q] /\ sockfd'[q] = sockfd[q]
                                                     /\ ready'[q] = ready[q]
  BY <1>0 DEF MU!socket, MultiTypeOK, MU!TypeOK
<1>3. CASE t = "client"
  <2>1. ready'[p] = (pc[p]["server"] \in {"waits", "recv"})
    BY <1>0, <1>3 DEF MU!socket, MultiTypeOK, MU!TypeOK
  <2>2. pc'[p]["server"] = pc[p]["server"]
    BY <1>1, <1>3 DEF MU!Threads
  <2> QED BY <2>1, <2>2, <1>1, <1>2, <1>5, MultiOthers
<1>4. CASE t = "server"
  <2>1. pc'[p]["server"] = "bind"
    BY <1>1, <1>4 DEF next
  <2> QED BY <2>1, <1>1, <1>2, <1>5, MultiOthers
<1> QED BY <1>3, <1>4 DEF MU!Threads

(* A socket that listens cannot connect: with ServerHasTheSocket, a client *)
(* that can has a server that has not come so far, or came first.          *)
LEMMA MultiConnect ==
  ASSUME MultiInv, NEW p \in MU!Procs, MU!Connect(p)
  PROVE  MultiInv'
<1>0. MultiTypeOK /\ MU!Goto(p, "client", "connect", "send") /\ MU!Becomes(p, "client", "connected")
  BY DEF MultiInv, MU!Connect
<1>1. /\ pc' \in [MU!Procs -> [MU!Threads -> MultiCalls]] /\ MU!Up(p)
      /\ pc[p]["client"] = "connect" /\ pc'[p]["client"] = "send"
      /\ pc'[p]["server"] = pc[p]["server"]
      /\ \A q \in MU!Procs : q # p => pc'[q] = pc[q]
  BY <1>0, MultiGoes DEF MU!Threads, MultiCalls
<1>2. /\ sock' \in [MU!Procs -> [MU!Threads -> MU!SocketStates]]
      /\ \A q \in MU!Procs : q # p => sock'[q] = sock[q]
  BY <1>0, MultiBecomes DEF MU!Threads, MU!SocketStates
<1>3. MultiTypeOK'
  <2>1. to' \in [MU!Procs -> MU!Procs \cup {MU!None}]
    BY <1>0 DEF MultiTypeOK, MU!TypeOK, MU!Connect
  <2>2. \A q \in MU!Procs : /\ pc'[q].client \in {"socket", "connect", "send"}
                            /\ pc'[q].server \in {"socket", "bind", "listen", "accept", "waits", "recv"}
    BY <1>0, <1>1 DEF MultiTypeOK, MU!TypeOK
  <2>3. UNCHANGED <<state, sockfd, newsockfd, due, wire, broken, ready>>
    BY DEF MU!Connect, MU!flow
  <2> QED BY SMTT(30), <1>0, <1>1, <1>2, <2>1, <2>2, <2>3 DEF MultiTypeOK, MU!TypeOK
<1>4. MU!Meets(p, "server") \notin {"listens", "elsewhere"}
  BY DEF MU!Connect, MU!Meets, MU!Fd
<1>5. ready[p] \/ pc[p]["server"] \notin {"waits", "recv"}
  BY <1>1, <1>4 DEF MultiInv, ServerHasTheSocket, MU!Up
<1> QED BY <1>1, <1>2, <1>3, <1>5, MultiOthers DEF MU!Connect

(* multi.c: send, on whatever the variable names by then.                  *)
LEMMA MultiSend ==
  ASSUME MultiInv, NEW p \in MU!Procs, MU!Send(p)
  PROVE  MultiInv'
<1>0. due \in [MU!Procs -> 0 .. Due] /\ wire \in [MU!Procs -> 0 .. Stream]
      /\ broken \in [MU!Procs -> BOOLEAN]
  BY DEF MultiInv, MultiTypeOK, MU!TypeOK
<1>3. due[p] - 1 \in 0 .. Due /\ (wire[p] < Stream => wire[p] + 1 \in 0 .. Stream)
  BY <1>0 DEF MU!Send
<1>1. due' \in [MU!Procs -> 0 .. Due] /\ wire' \in [MU!Procs -> 0 .. Stream]
      /\ broken' \in [MU!Procs -> BOOLEAN]
  BY <1>0, <1>3 DEF MU!Send
<1>2. MultiTypeOK'
  BY <1>1 DEF MultiInv, MultiTypeOK, MU!TypeOK, MU!Send
<1> QED BY <1>2 DEF MultiInv, ServerHasTheSocket, MU!Send, MU!Up, MU!Meets, MU!Fd

(* multi.c: bind and listen change the state of the socket they meet.      *)
LEMMA MultiBindListen ==
  ASSUME MultiInv, NEW p \in MU!Procs, MU!Bind(p) \/ MU!Listen(p)
  PROVE  MultiInv'
<1>0. MultiTypeOK
  BY DEF MultiInv
<1>1. CASE MU!Ends(p)
  BY <1>1, MultiEnds
<1>2. ASSUME NEW from, NEW next \in {"listen", "accept"}, MU!Goto(p, "server", from, next),
             \/ \E s \in MU!SocketStates : MU!Becomes(p, "server", s)
             \/ UNCHANGED sock,
             UNCHANGED <<state, sockfd, to, newsockfd, due, wire, broken, ready>>
      PROVE  MultiInv'
  <2>1. /\ pc' \in [MU!Procs -> [MU!Threads -> MultiCalls]]
        /\ pc'[p]["server"] = next
        /\ \A q \in MU!Procs : q # p => pc'[q] = pc[q]
    BY <1>0, <1>2, MultiGoes DEF MU!Threads, MultiCalls
  <2>2. /\ sock' \in [MU!Procs -> [MU!Threads -> MU!SocketStates]]
        /\ \A q \in MU!Procs : q # p => sock'[q] = sock[q]
    BY <1>0, <1>2, MultiBecomes DEF MU!Threads, MultiTypeOK, MU!TypeOK
  <2>3. pc'[p].client = pc[p].client
    BY <1>0, <1>2, MultiGoes DEF MU!Threads, MultiCalls
  <2>4. MultiTypeOK'
    BY <1>0, <1>2, <2>1, <2>2, <2>3 DEF MultiTypeOK, MU!TypeOK
  <2> QED BY <1>2, <2>1, <2>2, <2>4, MultiOthers
<1>3. CASE MU!Bind(p) /\ ~MU!Ends(p)
  BY <1>2, <1>3 DEF MU!Bind, MU!flow, MU!SocketStates
<1>4. CASE MU!Listen(p)
  BY <1>2, <1>4 DEF MU!Listen, MU!flow, MU!SocketStates
<1> QED BY <1>1, <1>3, <1>4

(* accept waits on a socket that listens, or fails.                        *)
LEMMA MultiAccept ==
  ASSUME MultiInv, NEW p \in MU!Procs, MU!Accept(p)
  PROVE  MultiInv'
<1>0. MultiTypeOK
  BY DEF MultiInv
<1>1. CASE MU!Ends(p)
  BY <1>1, MultiEnds
<1>2. ASSUME NEW from, NEW next \in {"waits", "recv"}, MU!Goto(p, "server", from, next),
             newsockfd' \in [MU!Procs -> MU!Procs \cup {MU!None}],
             from = "waits" \/ MU!Meets(p, "server") \in {"listens", "elsewhere"},
             UNCHANGED <<state, sockfd, sock, to, due, wire, broken, ready>>
      PROVE  MultiInv'
  <2>1. /\ pc' \in [MU!Procs -> [MU!Threads -> MultiCalls]] /\ MU!Up(p)
        /\ pc[p]["server"] = from /\ pc'[p]["server"] = next
        /\ pc'[p]["client"] = pc[p]["client"]
        /\ \A q \in MU!Procs : q # p => pc'[q] = pc[q]
    BY <1>0, <1>2, MultiGoes DEF MU!Threads, MultiCalls
  <2>2. MultiTypeOK'
    BY <1>0, <1>2, <2>1 DEF MultiTypeOK, MU!TypeOK
  <2>3. ~ready[p] /\ pc[p]["client"] # "socket" => MU!Meets(p, "server") \in {"listens", "elsewhere"}
    BY <1>2, <2>1 DEF MultiInv, ServerHasTheSocket, MU!Up
  <2> QED BY <1>2, <2>1, <2>2, <2>3, MultiOthers DEF MU!Meets, MU!Fd
<1>3. CASE /\ MU!Goto(p, "server", "accept", "waits") /\ MU!Meets(p, "server") \in {"listens", "elsewhere"}
           /\ UNCHANGED <<state, sockfd, sock, to, newsockfd, due, wire, broken, ready>>
  BY <1>0, <1>2, <1>3 DEF MultiTypeOK, MU!TypeOK
<1>4. CASE /\ MU!Goto(p, "server", "waits", "recv")
           /\ \E q \in MU!Procs : newsockfd' = [newsockfd EXCEPT ![p] = q]
           /\ UNCHANGED <<state, sockfd, sock, to, due, wire, broken, ready>>
  BY <1>0, <1>2, <1>4 DEF MultiTypeOK, MU!TypeOK
<1> QED BY <1>1, <1>3, <1>4 DEF MU!Accept, MU!flow

(* multi.c: recv moves texts and counts, and no socket.                    *)
LEMMA MultiReceive ==
  ASSUME MultiInv, NEW p \in MU!Procs, MU!Receive(p)
  PROVE  MultiInv'
<1>1. due' \in [MU!Procs -> 0 .. Due]
  BY DEF MultiInv, MultiTypeOK, MU!TypeOK, MU!Receive
<1>2. wire' \in [MU!Procs -> 0 .. Stream]
  BY SMTT(30) DEF MultiInv, MultiTypeOK, MU!TypeOK, MU!Receive
<1>3. MultiTypeOK'
  BY <1>1, <1>2 DEF MultiInv, MultiTypeOK, MU!TypeOK, MU!Receive
<1> QED BY <1>3 DEF MultiInv, ServerHasTheSocket, MU!Receive, MU!Up, MU!Meets, MU!Fd

(* multi.c: a fork touches no socket.                                      *)
LEMMA MultiFork ==
  ASSUME MultiInv, MU!main
  PROVE  MultiInv'
<1>1. state' \in [MU!Procs \cup {MU!None} -> {"none", "runs", "ended"}]
  BY SMTT(30) DEF MultiInv, MultiTypeOK, MU!TypeOK, MU!main
<1>2. \A p \in MU!Procs : state'[p] # "ended" => state[p] # "ended"
  BY DEF MultiInv, MultiTypeOK, MU!TypeOK, MU!main, MU!Procs, MU!None
<1>3. UNCHANGED <<sockfd, sock, pc, to, newsockfd, due, wire, broken, ready>>
  BY DEF MU!main, MU!flow
<1>4. MultiTypeOK'
  BY <1>1, <1>3 DEF MultiInv, MultiTypeOK, MU!TypeOK
<1> QED BY <1>2, <1>3, <1>4 DEF MultiInv, ServerHasTheSocket, MU!Meets, MU!Fd

(* And so every step of multi.c.                                           *)
LEMMA MultiNext ==
  ASSUME MultiInv, MU!Next
  PROVE  MultiInv'
<1>1. ASSUME NEW p \in MU!Procs, MU!Client(p) \/ MU!Server(p)
      PROVE  MultiInv'
  <2>1. CASE \E t \in MU!Threads : MU!socket(p, t)
    BY <2>1, MultiSocket
  <2>2. CASE MU!SendFails(p)
    BY <2>2, MultiEnds DEF MU!SendFails
  <2> QED
    BY <1>1, <2>1, <2>2, MultiConnect, MultiSend, MultiBindListen, MultiAccept, MultiReceive
    DEF MU!Client, MU!Server, MU!Threads
<1> QED BY <1>1, MultiFork DEF MU!Next, MU!create_threads

(* multi.c: a process that can both receive and send is one whose server   *)
(* thread had called accept before its client made its socket; for any     *)
(* length of the streams, and any number of sends owed.                    *)
THEOREM DuplexCorrect == Safe => []DuplexOnlyServerFirst
<1>1. Starts => (program = "multi" => MultiInv)
  BY MultiInit DEF Starts
<1>2. (program = "multi" => MultiInv) /\ [Run]_everything => (program = "multi" => MultiInv)'
  <2> SUFFICES ASSUME program = "multi" => MultiInv, [Run]_everything, program' = "multi"
               PROVE  MultiInv'
    OBVIOUS
  <2>1. CASE UNCHANGED everything
    <3>1. program = "multi"
      BY <2>1 DEF everything
    <3>2. UNCHANGED <<state, sockfd, sock, pc, to, newsockfd, due, wire, broken, ready>>
      BY <2>1 DEF everything, vars, life
    <3> QED
      BY <3>1, <3>2 DEF MultiInv, MultiTypeOK, MU!TypeOK, ServerHasTheSocket, MU!Meets, MU!Fd
  <2>2. CASE Run
    BY <2>2, MultiNext DEF Run
  <2> QED BY <2>1, <2>2
<1>3. (program = "multi" => MultiInv) => DuplexOnlyServerFirst
  BY DEF MultiInv, MultiTypeOK, ServerHasTheSocket, DuplexOnlyServerFirst, MU!DuplexOnlyServerFirst,
         MU!Sends, MU!At, MU!Up, MU!Meets, MU!Fd
<1> QED BY <1>1, <1>2, <1>3, PTL DEF Safe

-----------------------------------------------------------------------------
(* gVersion2.c *)

Calls == [client : {"take", "connect", "send"},
          server : {"bind", "accept", "wait", "recv"},
          brain : {"greet", "take", "client", "tracker"}]
Contents == {"bonjour", "other", "yet", "end"}

ArrayTypes ==
  /\ state \in [Procs \cup {Main} -> {"none", "runs", "forked", "handler", "unsure", "ended"}]
  /\ killed \subseteq Procs /\ pc \in [Procs -> Calls]
  /\ sending_plein \in [Procs -> 0 .. SemMax] /\ sending_mutex \in [Procs -> 0 .. 1]
  /\ receive_plein \in [Procs -> 0 .. 1] /\ receive_vide \in [Procs -> 0 .. 1]
  /\ receive_mutex \in [Procs -> 0 .. 1]
  /\ bufferServBrain \in [Procs -> BOOLEAN] /\ bufferBrainClient \in [Procs -> BOOLEAN]
  /\ target_pid \in [Procs -> Procs] /\ late \in [Procs -> {"no", "bonjour", "other"}]

(* The connection that a server has accepted stays the first of its queue, *)
(* and beside it there are no more than the kernel lets wait.              *)
Queues ==
  /\ backlog \in [Procs -> Seq(Procs \X Contents)]
  /\ \A p \in Procs : /\ Queued(p) <= Backlog
                      /\ pc[p].server \in {"wait", "recv"} => backlog[p] # <<>>

(* A brain that is at work has in bufferServBrain what came last while it  *)
(* was; one that has finished has it in bufferBrainClient, for the client. *)
LateOf(p) ==
  /\ pc[p].brain = "greet" => late[p] = Own(p) /\ ~bufferBrainClient[p]
  /\ pc[p].brain = "take" => (bufferBrainClient[p] <=> late[p] = "bonjour")
  /\ pc[p].brain \in AtWork => (bufferServBrain[p] <=> late[p] = "bonjour")
  /\ bufferBrainClient[p] => late[p] # "no"
LateTexts == \A p \in Procs : LateOf(p)

ArraysInv == ArrayTypes /\ Queues /\ Slot /\ LateTexts

(* SlotOwned is part of it.                                                *)
LEMMA ArraysTell ==
  ASSUME ArraysInv
  PROVE  TypeOK /\ Slot
BY DEF ArraysInv, ArrayTypes, Queues, TypeOK, Calls

(* gVersion2.c: what holds of slots, mutexes and buffers holds at the      *)
(* beginning.                                                              *)
LEMMA ArraysInit == Init => ArraysInv
<1> SUFFICES ASSUME Init PROVE ArraysInv
  OBVIOUS
<1>1. ArrayTypes /\ Slot /\ LateTexts
  BY DEF Init, Pc0, Calls, Procs, Main, ArrayTypes, Slot, Flag, LateTexts, LateOf, Own, AtWork
<1>2. Queues
  BY DEF Init, Pc0, Queues, Queued
<1> QED BY <1>1, <1>2 DEF ArraysInv

(* A call changes the place of one thread in one process.                  *)
LEMMA ArraysGo ==
  ASSUME ArrayTypes, NEW p \in Procs, NEW t \in {"client", "server", "brain"}, NEW from, NEW next,
         Goto(p, t, from, next)
  PROVE  /\ pc[p][t] = from /\ pc'[p][t] = next
         /\ \A u \in {"client", "server", "brain"} : u # t => pc'[p][u] = pc[p][u]
         /\ \A q \in Procs : q # p => pc'[q] = pc[q]
         /\ (\/ t = "client" /\ next \in {"take", "connect", "send"}
             \/ t = "server" /\ next \in {"bind", "accept", "wait", "recv"}
             \/ t = "brain" /\ next \in {"greet", "take", "client", "tracker"})
              => pc' \in [Procs -> Calls]
<1>1. pc \in [Procs -> Calls] /\ pc' = [pc EXCEPT ![p][t] = next] /\ pc[p][t] = from
  BY DEF ArrayTypes, Goto
<1>2. pc[p] \in Calls
  BY <1>1
<1>3. (\/ t = "client" /\ next \in {"take", "connect", "send"}
       \/ t = "server" /\ next \in {"bind", "accept", "wait", "recv"}
       \/ t = "brain" /\ next \in {"greet", "take", "client", "tracker"})
         => [pc[p] EXCEPT ![t] = next] \in Calls
  BY <1>2 DEF Calls
<1> QED BY <1>1, <1>2, <1>3 DEF Calls

(* Queues of which nothing changes but perhaps a place of another thread.  *)
LEMMA QueuesStay ==
  ASSUME Queues, UNCHANGED backlog,
         \A p \in Procs : pc'[p].server \in {"wait", "recv"} <=> pc[p].server \in {"wait", "recv"}
  PROVE  Queues'
  BY DEF Queues, Queued

(* Slot, of process p; and that it is enough to look at the process that   *)
(* takes a step.                                                           *)
SlotOf(p) ==
  /\ receive_vide[p] + receive_plein[p] + Flag(pc[p].server = "recv") = 1
  /\ receive_mutex[p] + Flag(pc[p].server = "recv") = 1
  /\ sending_mutex[p] + Flag(pc[p].client \in {"connect", "send"}) = 1

(* Only the slot of the process whose semaphores a step touches has to be  *)
(* looked at.                                                              *)
LEMMA SlotOfOthers ==
  ASSUME Slot, NEW p \in Procs, SlotOf(p)',
         \A q \in Procs : q # p => /\ receive_vide'[q] = receive_vide[q] /\ receive_plein'[q] = receive_plein[q]
                                   /\ receive_mutex'[q] = receive_mutex[q]
                                   /\ sending_mutex'[q] = sending_mutex[q] /\ pc'[q] = pc[q]
  PROVE  Slot'
  BY DEF Slot, SlotOf

(* Likewise for the greeting, which is in the buffers of one process.      *)
LEMMA LateOfOthers ==
  ASSUME LateTexts, NEW p \in Procs, LateOf(p)',
         \A q \in Procs : q # p => /\ late'[q] = late[q]
                                   /\ bufferServBrain'[q] = bufferServBrain[q]
                                   /\ bufferBrainClient'[q] = bufferBrainClient[q] /\ pc'[q] = pc[q]
  PROVE  LateTexts'
  BY DEF LateTexts, LateOf

(* The client takes a text and sending_mutex with it.                      *)
LEMMA ClientTakeKeeps ==
  ASSUME ArraysInv, NEW p \in Procs, ClientTake(p)
  PROVE  ArraysInv'
<1>0. ArrayTypes /\ Goto(p, "client", "take", "connect") /\ sending_plein[p] > 0 /\ sending_mutex[p] > 0
  BY DEF ArraysInv, ClientTake, Take
<1>5. /\ pc' \in [Procs -> Calls] /\ pc[p].client = "take" /\ pc'[p].client = "connect"
      /\ pc'[p].server = pc[p].server /\ pc'[p].brain = pc[p].brain
      /\ \A q \in Procs : q # p => pc'[q] = pc[q]
  BY <1>0, ArraysGo
<1>1. ArrayTypes'
  BY <1>0, <1>5 DEF ArrayTypes, ClientTake, Take, life, buffers
<1>2. Queues'
  BY <1>5, QueuesStay DEF ArraysInv, ClientTake
<1>3. Slot'
  <2>1. sending_mutex'[p] = sending_mutex[p] - 1 /\ \A q \in Procs : q # p => sending_mutex'[q] = sending_mutex[q]
    BY <1>0 DEF ClientTake, Take, ArrayTypes
  <2>2. SlotOf(p)' 
    BY SMTT(30), <1>0, <1>5, <2>1 DEF ArraysInv, Slot, SlotOf, Flag, ClientTake, ArrayTypes
  <2> QED BY <2>1, <2>2, <1>5, SlotOfOthers DEF ArraysInv, ClientTake
<1>4. LateTexts'
  BY <1>5 DEF ArraysInv, LateTexts, LateOf, ClientTake, buffers
<1> QED BY <1>1, <1>2, <1>3, <1>4 DEF ArraysInv

(* The client connects, and waits in the queue of its target.              *)
LEMMA ConnectKeeps ==
  ASSUME ArraysInv, NEW p \in Procs, Connect(p)
  PROVE  ArraysInv'
<1>0. ArrayTypes /\ Goto(p, "client", "connect", "send")
  BY DEF ArraysInv, Connect
<1>6. PICK q \in Procs : q = target_pid[p]
  BY <1>0 DEF ArrayTypes
<1>5. /\ pc' \in [Procs -> Calls] /\ pc[p].client = "connect" /\ pc'[p].client = "send"
      /\ pc'[p].server = pc[p].server /\ pc'[p].brain = pc[p].brain
      /\ \A r \in Procs : r # p => pc'[r] = pc[r]
  BY <1>0, ArraysGo
<1>1. ArrayTypes'
  BY <1>0, <1>5 DEF ArrayTypes, Connect, life, semaphores, buffers
<1>2. Queues'
  <2>1. /\ q \in Procs /\ Queued(q) < Backlog /\ <<p, "yet">> \in Procs \X Contents
        /\ backlog' = [backlog EXCEPT ![q] = Append(backlog[q], <<p, "yet">>)]
    BY <1>6 DEF Connect, Contents
  <2>0. backlog[q] \in Seq(Procs \X Contents)
    BY <2>1 DEF ArraysInv, Queues
  <2>2. /\ Append(backlog[q], <<p, "yet">>) \in Seq(Procs \X Contents)
        /\ Len(Append(backlog[q], <<p, "yet">>)) = Len(backlog[q]) + 1 /\ Len(backlog[q]) \in Nat
        /\ Append(backlog[q], <<p, "yet">>) # <<>>
    BY SMTT(30), <2>0, <2>1, AppendProperties, LenProperties
  <2>3. \A r \in Procs : pc'[r].server = pc[r].server
    BY <1>5
  <2>4. backlog' \in [Procs -> Seq(Procs \X Contents)]
    BY <2>1, <2>2 DEF ArraysInv, Queues
  <2>5. Queued(q)' <= Backlog /\ backlog'[q] # <<>>
    <3>1. backlog'[q] = Append(backlog[q], <<p, "yet">>)
      BY <2>1 DEF ArraysInv, Queues
    <3>2. Queued(q)' = Queued(q) + 1 /\ Queued(q) \in Int
      <4>1. Len(backlog'[q]) = Len(backlog[q]) + 1 /\ pc'[q].server = pc[q].server
        BY <2>2, <2>3, <3>1
      <4>2. CASE pc[q].server \in {"wait", "recv"}
        BY <2>2, <4>1, <4>2 DEF Queued
      <4>3. CASE pc[q].server \notin {"wait", "recv"}
        BY <2>2, <4>1, <4>3 DEF Queued
      <4> QED BY <4>2, <4>3
    <3> QED BY <2>1, <2>2, <3>1, <3>2
  <2>6. \A r \in Procs : r # q => backlog'[r] = backlog[r] /\ Queued(r)' = Queued(r)
    BY <2>1, <2>3 DEF ArraysInv, Queues, Queued
  <2>7. \A r \in Procs : /\ Queued(r)' <= Backlog
                         /\ pc'[r].server \in {"wait", "recv"} => backlog'[r] # <<>>
    BY <2>3, <2>5, <2>6 DEF ArraysInv, Queues
  <2> QED BY <2>4, <2>7 DEF Queues
<1>3. Slot'
  BY <1>5 DEF ArraysInv, Slot, Flag, Connect, semaphores
<1>4. LateTexts'
  BY <1>5 DEF ArraysInv, LateTexts, LateOf, Connect, semaphores, buffers
<1> QED BY <1>1, <1>2, <1>3, <1>4 DEF ArraysInv

(* What becomes of a connection does not change how many there are.        *)
LEMMA QueuesRelabelled ==
  ASSUME Queues,
         \A p \in Procs : pc'[p].server \in {"wait", "recv"} <=> pc[p].server \in {"wait", "recv"},
         NEW c \in Contents, NEW p \in Procs, Sent(p, c)
  PROVE  Queues'
<1> DEFINE b(q) == [i \in DOMAIN backlog[q] |->
                      IF i \in Pending(p, q) THEN <<p, c>> ELSE backlog[q][i]]
<1>1. ASSUME NEW q \in Procs
      PROVE  b(q) \in Seq(Procs \X Contents) /\ Len(b(q)) = Len(backlog[q])
             /\ (b(q) = <<>> <=> backlog[q] = <<>>)
  <2>1. /\ Len(backlog[q]) \in Nat /\ DOMAIN backlog[q] = 1 .. Len(backlog[q])
        /\ \A i \in 1 .. Len(backlog[q]) : backlog[q][i] \in Procs \X Contents
    BY LenProperties, ElementOfSeq DEF Queues
  <2>2. <<p, c>> \in Procs \X Contents
    OBVIOUS
  <2>3. b(q) \in [1 .. Len(backlog[q]) -> Procs \X Contents]
    BY <2>1, <2>2
  <2> HIDE DEF b
  <2>4. b(q) \in Seq(Procs \X Contents) /\ Len(b(q)) = Len(backlog[q])
    BY <2>1, <2>3, SeqDef, LenProperties
  <2> QED BY <2>4, EmptySeq, LenProperties DEF Queues
<1>2. backlog' = [q \in Procs |-> b(q)]
  BY DEF Sent
<1> HIDE DEF b
<1>3. backlog' \in [Procs -> Seq(Procs \X Contents)]
  BY <1>1, <1>2
<1>4. \A q \in Procs : Queued(q)' = Queued(q)
  BY <1>1, <1>2 DEF Queued
<1> QED BY <1>1, <1>2, <1>3, <1>4 DEF Queues

(* However the client comes back to its loop, it gives sending_mutex back  *)
(* and touches no buffer.                                                  *)
LEMMA ClientReturns ==
  ASSUME ArraysInv, NEW p \in Procs, NEW from \in {"connect", "send"}, Goto(p, "client", from, "take"),
         Give(sending_mutex, p), target_pid' = [target_pid EXCEPT ![p] = p], Queues',
         UNCHANGED <<life, sending_plein, receive_plein, receive_vide, receive_mutex, buffers, late>>
  PROVE  ArraysInv'
<1>0. ArrayTypes
  BY DEF ArraysInv
<1>5. /\ pc' \in [Procs -> Calls] /\ pc[p].client \in {"connect", "send"} /\ pc'[p].client = "take"
      /\ pc'[p].server = pc[p].server /\ pc'[p].brain = pc[p].brain
      /\ \A r \in Procs : r # p => pc'[r] = pc[r]
  BY <1>0, ArraysGo
<1>6. sending_mutex[p] = 0
  BY <1>0, <1>5 DEF ArraysInv, Slot, Flag, ArrayTypes
<1>7. sending_mutex' = [sending_mutex EXCEPT ![p] = 1]
  <2>1. (IF 0 + 1 > SemMax THEN SemMax ELSE 0 + 1) = 1
    OBVIOUS
  <2> QED BY <2>1, <1>6 DEF Give, Post
<1>1. ArrayTypes'
  BY <1>0, <1>5, <1>7 DEF ArrayTypes, life, buffers
<1>3. Slot'
  <2>1. SlotOf(p)'
    BY <1>0, <1>5, <1>7 DEF ArraysInv, Slot, SlotOf, Flag, ArrayTypes
  <2> QED BY <1>0, <1>5, <1>7, <2>1, SlotOfOthers DEF ArraysInv, ArrayTypes
<1>4. LateTexts'
  BY <1>5 DEF ArraysInv, LateTexts, LateOf, buffers
<1> QED BY <1>1, <1>3, <1>4 DEF ArraysInv

(* A connect that fails and a send both bring it back.                     *)
LEMMA ClientReturnKeeps ==
  ASSUME ArraysInv, NEW p \in Procs, ConnectFails(p) \/ Send(p)
  PROVE  ArraysInv'
<1>0. ArrayTypes
  BY DEF ArraysInv
<1>1. CASE ConnectFails(p)
  <2>1. \A r \in Procs : pc'[r].server = pc[r].server
    BY <1>0, <1>1, ArraysGo DEF ConnectFails
  <2>2. Queues'
    BY <1>1, <2>1, QueuesStay DEF ArraysInv, ConnectFails
  <2> QED BY <1>1, <2>2, ClientReturns DEF ConnectFails
<1>2. CASE Send(p)
  <2>1. \A r \in Procs : pc'[r].server = pc[r].server
    BY <1>0, <1>2, ArraysGo DEF Send
  <2>2. PICK c \in Contents : Sent(p, c)
    BY <1>2 DEF Send, Contents
  <2>3. Queues'
    BY <2>1, <2>2, QueuesRelabelled DEF ArraysInv
  <2> QED BY <1>2, <2>3, ClientReturns DEF Send
<1> QED BY <1>1, <1>2

(* The tracker takes an announcement and neither slot nor mutex.           *)
LEMMA TrackerKeeps ==
  ASSUME ArraysInv, NEW p \in Procs, Tracker(p)
  PROVE  ArraysInv'
<1>1. ArrayTypes'
  BY DEF ArraysInv, ArrayTypes, Tracker, Take, life, buffers
<1> QED BY <1>1, QueuesStay DEF ArraysInv, Slot, LateTexts, LateOf, Tracker, buffers

(* The server's bind and accept leave all semaphores alone.                *)
LEMMA BindAcceptKeeps ==
  ASSUME ArraysInv, NEW p \in Procs, Bind(p) \/ Accept(p)
  PROVE  ArraysInv'
<1>0. ArrayTypes
  BY DEF ArraysInv
<1>5. /\ pc' \in [Procs -> Calls] /\ pc[p].server # "recv" /\ pc'[p].server # "recv"
      /\ pc[p].server \notin {"wait", "recv"}
      /\ pc'[p].server = "wait" => backlog[p] # <<>>
      /\ pc'[p].client = pc[p].client /\ pc'[p].brain = pc[p].brain
      /\ \A r \in Procs : r # p => pc'[r] = pc[r]
  BY <1>0, ArraysGo DEF Bind, Accept
<1>6. UNCHANGED <<life, semaphores, buffers, target_pid, backlog, late>>
  BY DEF Bind, Accept
<1>1. ArrayTypes'
  BY <1>0, <1>5, <1>6 DEF ArrayTypes, life, semaphores, buffers
<1>2. Queues'
  <2>1. Len(backlog[p]) \in Nat
    BY LenProperties DEF ArraysInv, Queues
  <2>2. Queued(p)' <= Backlog
    BY <2>1, <1>5, <1>6 DEF ArraysInv, Queues, Queued
  <2>3. \A r \in Procs : r # p => Queued(r)' = Queued(r)
    BY <1>5, <1>6 DEF Queued
  <2> QED BY <2>2, <2>3, <1>5, <1>6 DEF ArraysInv, Queues
<1>3. Slot'
  <2>1. SlotOf(p)'
    BY <1>5, <1>6 DEF ArraysInv, Slot, SlotOf, Flag, semaphores
  <2> QED BY <2>1, <1>5, <1>6, SlotOfOthers DEF ArraysInv, semaphores
<1>4. LateTexts'
  BY <1>5, <1>6 DEF ArraysInv, LateTexts, LateOf, semaphores, buffers
<1> QED BY <1>1, <1>2, <1>3, <1>4 DEF ArraysInv

(* The server takes the slot.                                              *)
LEMMA ServerTakeKeeps ==
  ASSUME ArraysInv, NEW p \in Procs, ServerTake(p)
  PROVE  ArraysInv'
<1>0. ArrayTypes /\ receive_vide[p] > 0 /\ receive_mutex[p] > 0
  BY DEF ArraysInv, ServerTake, Take
<1>5. /\ pc' \in [Procs -> Calls] /\ pc[p].server = "wait" /\ pc'[p].server = "recv"
      /\ pc'[p].client = pc[p].client /\ pc'[p].brain = pc[p].brain
      /\ \A r \in Procs : r # p => pc'[r] = pc[r]
  BY <1>0, ArraysGo DEF ServerTake
<1>6. /\ receive_vide' = [receive_vide EXCEPT ![p] = @ - 1]
      /\ receive_mutex' = [receive_mutex EXCEPT ![p] = @ - 1]
      /\ UNCHANGED <<life, sending_plein, sending_mutex, receive_plein, buffers, target_pid,
                     backlog, late>>
  BY DEF ServerTake, Take
<1>1. ArrayTypes'
  BY <1>0, <1>5, <1>6 DEF ArrayTypes, life, buffers
<1>2. Queues'
  BY <1>5, <1>6, QueuesStay DEF ArraysInv
<1>3. Slot'
  <2>0. /\ receive_vide[p] = 1 /\ receive_mutex[p] = 1 /\ receive_plein[p] = 0
        /\ receive_vide'[p] = 0 /\ receive_mutex'[p] = 0
    BY <1>0, <1>5, <1>6 DEF ArraysInv, Slot, Flag, ArrayTypes
  <2>1. SlotOf(p)'
    BY <1>5, <1>6, <2>0 DEF ArraysInv, Slot, SlotOf, Flag
  <2> QED BY <2>1, <1>0, <1>5, <1>6, SlotOfOthers DEF ArraysInv, ArrayTypes
<1>4. LateTexts'
  BY <1>5, <1>6 DEF ArraysInv, LateTexts, LateOf, buffers
<1> QED BY <1>1, <1>2, <1>3, <1>4 DEF ArraysInv

(* sem_post, of a semaphore that is at 0.                                  *)
LEMMA GivesOne == (IF 0 + 1 > SemMax THEN SemMax ELSE 0 + 1) = 1
  OBVIOUS

(* What recv returns counts if the brain is at work meanwhile.             *)
LEMMA ReceiveKeeps ==
  ASSUME ArraysInv, NEW p \in Procs, Receive(p)
  PROVE  ArraysInv'
<1>0. ArrayTypes
  BY DEF ArraysInv
<1>5. /\ pc' \in [Procs -> Calls] /\ pc[p].server = "recv" /\ pc'[p].server = "accept"
      /\ pc'[p].client = pc[p].client /\ pc'[p].brain = pc[p].brain
      /\ \A r \in Procs : r # p => pc'[r] = pc[r]
  BY <1>0, ArraysGo DEF Receive
<1>6. receive_mutex[p] = 0 /\ receive_plein[p] = 0 /\ receive_vide[p] = 0
  BY <1>0, <1>5 DEF ArraysInv, Slot, Flag, ArrayTypes
<1>7. /\ receive_mutex' = [receive_mutex EXCEPT ![p] = 1]
      /\ receive_plein' = [receive_plein EXCEPT ![p] = 1]
      /\ UNCHANGED <<life, sending_plein, sending_mutex, receive_vide, bufferBrainClient, target_pid>>
  BY <1>6, GivesOne DEF Receive, Give, Post
<1>4. PICK text \in {"bonjour", "other", "end"} :
        /\ bufferServBrain' = IF text = "end" THEN bufferServBrain
                              ELSE [bufferServBrain EXCEPT ![p] = text = "bonjour"]
        /\ late' = IF pc[p].brain \notin AtWork \/ text = "end" THEN late
                   ELSE [late EXCEPT ![p] = IF text = "other" /\ @ = "no" THEN @ ELSE text]
  <2>1. backlog[p] \in Seq(Procs \X Contents) /\ backlog[p] # <<>>
    BY <1>5 DEF ArraysInv, Queues
  <2>2. Head(backlog[p]) \in Procs \X Contents
    BY <2>1, HeadTailProperties
  <2>3. Head(backlog[p])[2] \in {"bonjour", "other", "end"}
    BY <2>2 DEF Receive, Contents
  <2> QED BY <2>3 DEF Receive
<1>8. /\ bufferServBrain' \in [Procs -> BOOLEAN]
      /\ \A r \in Procs : r # p => bufferServBrain'[r] = bufferServBrain[r]
      /\ text # "end" => (bufferServBrain'[p] <=> text = "bonjour")
      /\ text = "end" => bufferServBrain'[p] = bufferServBrain[p]
  BY <1>0, <1>4 DEF ArrayTypes
<1>9. /\ late' \in [Procs -> {"no", "bonjour", "other"}]
      /\ \A r \in Procs : r # p => late'[r] = late[r]
      /\ late'[p] = IF pc[p].brain \notin AtWork \/ text = "end" \/ (text = "other" /\ late[p] = "no")
                    THEN late[p] ELSE text
  <2>1. late \in [Procs -> {"no", "bonjour", "other"}]
    BY <1>0 DEF ArrayTypes
  <2> QED BY <2>1, <1>4
<1>1. ArrayTypes'
  <2>1. receive_mutex' \in [Procs -> 0 .. 1] /\ receive_plein' \in [Procs -> 0 .. 1]
    BY <1>0, <1>7 DEF ArrayTypes
  <2>2. late' \in [Procs -> {"no", "bonjour", "other"}]
    BY <1>9
  <2> QED BY <1>0, <1>5, <1>7, <1>8, <2>1, <2>2 DEF ArrayTypes, life
<1>2. Queues'
  <2>1. backlog[p] \in Seq(Procs \X Contents) /\ backlog[p] # <<>>
    BY <1>5 DEF ArraysInv, Queues
  <2>2. Tail(backlog[p]) \in Seq(Procs \X Contents) /\ Len(Tail(backlog[p])) = Len(backlog[p]) - 1
        /\ Len(backlog[p]) \in Nat
    BY <2>1, HeadTailProperties, LenProperties
  <2>3. backlog' = [backlog EXCEPT ![p] = Tail(backlog[p])]
    BY DEF Receive
  <2>4. backlog' \in [Procs -> Seq(Procs \X Contents)]
    BY <2>2, <2>3 DEF ArraysInv, Queues
  <2>5. Queued(p)' = Queued(p)
    BY <2>2, <2>3, <1>5 DEF ArraysInv, Queues, Queued
  <2>6. \A r \in Procs : r # p => backlog'[r] = backlog[r] /\ Queued(r)' = Queued(r)
    BY <2>3, <1>5 DEF ArraysInv, Queues, Queued
  <2> QED BY <2>4, <2>5, <2>6, <1>5 DEF ArraysInv, Queues
<1>3. Slot'
  <2>1. SlotOf(p)'
    BY <1>0, <1>5, <1>6, <1>7 DEF ArraysInv, Slot, SlotOf, Flag, ArrayTypes
  <2> QED BY <2>1, <1>0, <1>5, <1>7, SlotOfOthers DEF ArraysInv, ArrayTypes
<1>10. LateTexts'
  <2>0. LateOf(p) /\ pc'[p].brain = pc[p].brain /\ bufferBrainClient'[p] = bufferBrainClient[p]
    BY <1>5, <1>7 DEF ArraysInv, LateTexts
  <2>1. LateOf(p)'
    <3>1. CASE pc[p].brain \notin AtWork
      BY <2>0, <1>9, <3>1 DEF LateOf
    <3>2. CASE pc[p].brain \in AtWork /\ text = "end"
      BY <2>0, <1>8, <1>9, <3>2 DEF LateOf
    <3>3. CASE pc[p].brain \in AtWork /\ text # "end"
      BY <2>0, <1>8, <1>9, <3>3 DEF LateOf, AtWork
    <3> QED BY <3>1, <3>2, <3>3
  <2> QED BY <2>1, <1>0, <1>5, <1>7, <1>8, <1>9, LateOfOthers DEF ArraysInv, ArrayTypes
<1> QED BY <1>1, <1>2, <1>3, <1>10 DEF ArraysInv

(* sending_plein counts to SemMax, whatever is posted.                     *)
LEMMA PostCounts ==
  ASSUME ArrayTypes, NEW p \in Procs, NEW k \in {1, 2}
  PROVE  Post(sending_plein, p, k) \in [Procs -> 0 .. SemMax]
  BY DEF ArrayTypes, Post

(* The brain of process 0 writes the greeting, those of the others         *)
(* nothing.                                                                *)
LEMMA GreetKeeps ==
  ASSUME ArraysInv, NEW p \in Procs, Greet(p)
  PROVE  ArraysInv'
<1>0. ArrayTypes
  BY DEF ArraysInv
<1>5. /\ pc' \in [Procs -> Calls] /\ pc[p].brain = "greet" /\ pc'[p].brain = "take"
      /\ pc'[p].client = pc[p].client /\ pc'[p].server = pc[p].server
      /\ \A r \in Procs : r # p => pc'[r] = pc[r]
  BY <1>0, ArraysGo DEF Greet
<1>6. /\ bufferBrainClient' \in [Procs -> BOOLEAN]
      /\ \A r \in Procs : bufferBrainClient'[r] = IF r = p /\ p = 0 THEN TRUE ELSE bufferBrainClient[r]
      /\ sending_plein' \in [Procs -> 0 .. SemMax]
  <2>1. bufferBrainClient \in [Procs -> BOOLEAN] /\ sending_plein \in [Procs -> 0 .. SemMax]
    BY <1>0 DEF ArrayTypes
  <2>2. Post(sending_plein, p, 1) \in [Procs -> 0 .. SemMax]
    BY <1>0, PostCounts
  <2>3. CASE p = 0
    BY <2>1, <2>2, <2>3 DEF Greet, Give
  <2>4. CASE p # 0
    BY <2>1, <2>4 DEF Greet
  <2> QED BY <2>3, <2>4
<1>7. UNCHANGED <<life, sending_mutex, receive_plein, receive_vide, receive_mutex,
                  bufferServBrain, target_pid, backlog, late>>
  BY DEF Greet
<1>1. ArrayTypes'
  BY <1>0, <1>5, <1>6, <1>7 DEF ArrayTypes, life
<1>2. Queues'
  BY <1>5, <1>7, QueuesStay DEF ArraysInv
<1>3. Slot'
  BY <1>5, <1>7 DEF ArraysInv, Slot, Flag
<1>4. LateTexts'
  <2>1. LateOf(p)'
    BY <1>5, <1>6, <1>7 DEF ArraysInv, LateTexts, LateOf, Own, AtWork
  <2> QED BY <2>1, <1>5, <1>6, <1>7, LateOfOthers DEF ArraysInv
<1> QED BY <1>1, <1>2, <1>3, <1>4 DEF ArraysInv

(* The brain's own last text is copied over the one received.              *)
LEMMA BrainTakeKeeps ==
  ASSUME ArraysInv, NEW p \in Procs, BrainTake(p)
  PROVE  ArraysInv'
<1>0. ArrayTypes /\ receive_plein[p] > 0
  BY DEF ArraysInv, BrainTake, Take
<1>5. /\ pc' \in [Procs -> Calls] /\ pc[p].brain = "take" /\ pc'[p].brain = "client"
      /\ pc'[p].client = pc[p].client /\ pc'[p].server = pc[p].server
      /\ \A r \in Procs : r # p => pc'[r] = pc[r]
  BY <1>0, ArraysGo DEF BrainTake
<1>6. receive_plein[p] = 1 /\ receive_vide[p] = 0
  BY <1>0 DEF ArraysInv, Slot, Flag, ArrayTypes
<1>7. /\ receive_plein' = [receive_plein EXCEPT ![p] = 0]
      /\ receive_vide' = [receive_vide EXCEPT ![p] = 1]
      /\ sending_plein' \in [Procs -> 0 .. SemMax]
      /\ bufferServBrain' = [bufferServBrain EXCEPT ![p] = bufferBrainClient[p]]
      /\ UNCHANGED <<life, sending_mutex, receive_mutex, bufferBrainClient, target_pid, backlog, late>>
  <2>1. receive_vide' = [receive_vide EXCEPT ![p] = 1]
    BY <1>6, GivesOne DEF BrainTake, Give, Post
  <2>2. sending_plein' \in [Procs -> 0 .. SemMax]
    BY <1>0, PostCounts DEF BrainTake, Give
  <2>3. 1 - 1 = 0
    OBVIOUS
  <2> QED BY <2>1, <2>2, <2>3, <1>6 DEF BrainTake, Take
<1>1. ArrayTypes'
  BY <1>0, <1>5, <1>7 DEF ArrayTypes, life
<1>2. Queues'
  BY <1>5, <1>7, QueuesStay DEF ArraysInv
<1>3. Slot'
  <2>1. SlotOf(p)'
    BY <1>0, <1>5, <1>6, <1>7 DEF ArraysInv, Slot, SlotOf, Flag, ArrayTypes
  <2> QED BY <2>1, <1>0, <1>5, <1>7, SlotOfOthers DEF ArraysInv, ArrayTypes
<1>4. LateTexts'
  <2>1. LateOf(p)'
    BY <1>0, <1>5, <1>6, <1>7 DEF ArraysInv, LateTexts, LateOf, AtWork, ArrayTypes
  <2> QED BY <2>1, <1>0, <1>5, <1>7, LateOfOthers DEF ArraysInv, ArrayTypes
<1> QED BY <1>1, <1>2, <1>3, <1>4 DEF ArraysInv

(* The brain rewrites a buffer and announces it, once or twice.            *)
LEMMA BrainRewriteKeeps ==
  ASSUME ArraysInv, NEW p \in Procs, NEW from \in {"client", "tracker"}, NEW next \in {"tracker", "take"},
         NEW announced \in {1, 2}, BrainRewrite(p, from, next, announced)
  PROVE  ArraysInv'
<1>0. ArrayTypes
  BY DEF ArraysInv
<1>5. /\ pc' \in [Procs -> Calls] /\ pc[p].brain \in {"client", "tracker"}
      /\ pc'[p].brain = next /\ pc'[p].client = pc[p].client /\ pc'[p].server = pc[p].server
      /\ \A r \in Procs : r # p => pc'[r] = pc[r]
  BY <1>0, ArraysGo DEF BrainRewrite
<1>6. /\ bufferBrainClient' = [bufferBrainClient EXCEPT ![p] = bufferServBrain[p]]
      /\ sending_plein' \in [Procs -> 0 .. SemMax]
      /\ UNCHANGED <<life, sending_mutex, receive_plein, receive_vide, receive_mutex,
                     bufferServBrain, target_pid, backlog, late>>
  BY <1>0, PostCounts DEF BrainRewrite
<1>1. ArrayTypes'
  BY <1>0, <1>5, <1>6 DEF ArrayTypes, life
<1>2. Queues'
  BY <1>5, <1>6, QueuesStay DEF ArraysInv
<1>3. Slot'
  BY <1>5, <1>6 DEF ArraysInv, Slot, Flag
<1>4. LateTexts'
  <2>1. LateOf(p)'
    BY <1>0, <1>5, <1>6 DEF ArraysInv, LateTexts, LateOf, AtWork, ArrayTypes
  <2> QED BY <2>1, <1>0, <1>5, <1>6, LateOfOthers DEF ArraysInv, ArrayTypes
<1> QED BY <1>1, <1>2, <1>3, <1>4 DEF ArraysInv

-----------------------------------------------------------------------------
(* Who ends leaves a process as it was at its beginning, and connections   *)
(* at their end.                                                           *)

(* A process leaves: its semaphores, buffers and calls are as they began.  *)
LEMMA LeavesKeeps ==
  ASSUME ArraysInv, NEW x \in Procs \cup {Main}, Leaves(x), killed' \subseteq Procs
  PROVE  ArraysInv'
<1>0. ArrayTypes
  BY DEF ArraysInv
<1>1. ArrayTypes'
  <2>1. Pc0 \in Calls
    BY DEF Pc0, Calls
  <2>2. /\ pc' \in [Procs -> Calls] /\ target_pid' \in [Procs -> Procs]
        /\ late' \in [Procs -> {"no", "bonjour", "other"}]
    BY <1>0, <2>1 DEF Leaves, ArrayTypes, Own
  <2>3. /\ sending_plein' \in [Procs -> 0 .. SemMax] /\ sending_mutex' \in [Procs -> 0 .. 1]
        /\ receive_plein' \in [Procs -> 0 .. 1] /\ receive_vide' \in [Procs -> 0 .. 1]
        /\ receive_mutex' \in [Procs -> 0 .. 1]
    BY <1>0 DEF Leaves, ArrayTypes
  <2>4. bufferServBrain' \in [Procs -> BOOLEAN] /\ bufferBrainClient' \in [Procs -> BOOLEAN]
    BY <1>0 DEF Leaves, ArrayTypes
  <2>5. state' \in [Procs \cup {Main} -> {"none", "runs", "forked", "handler", "unsure", "ended"}]
    BY <1>0 DEF Leaves, ArrayTypes
  <2> QED BY <2>2, <2>3, <2>4, <2>5 DEF ArrayTypes
<1> DEFINE b(q) == [i \in DOMAIN backlog[q] |->
                      IF i \in Pending(x, q) THEN <<x, "end">> ELSE backlog[q][i]]
<1>2. ASSUME NEW q \in Procs
      PROVE  /\ b(q) \in Seq(Procs \X Contents) /\ Len(b(q)) = Len(backlog[q])
             /\ Len(backlog[q]) \in Nat /\ (b(q) = <<>> <=> backlog[q] = <<>>)
  <2>1. /\ Len(backlog[q]) \in Nat /\ DOMAIN backlog[q] = 1 .. Len(backlog[q])
        /\ \A i \in 1 .. Len(backlog[q]) : backlog[q][i] \in Procs \X Contents
    BY LenProperties, ElementOfSeq DEF ArraysInv, Queues
  <2>2. ASSUME NEW i \in Pending(x, q) PROVE <<x, "end">> \in Procs \X Contents
    <3>1. <<x, "yet">> \in Procs \X Contents
      BY <2>1 DEF Pending
    <3> QED BY <3>1 DEF Contents
  <2>3. b(q) \in [1 .. Len(backlog[q]) -> Procs \X Contents]
    BY <2>1, <2>2
  <2> HIDE DEF b
  <2>4. b(q) \in Seq(Procs \X Contents) /\ Len(b(q)) = Len(backlog[q])
    BY <2>1, <2>3, SeqDef, LenProperties
  <2> QED BY <2>1, <2>4, EmptySeq, LenProperties DEF ArraysInv, Queues
<1>3. Queues'
  <2>1. backlog' = [q \in Procs |-> IF q = x THEN <<>> ELSE b(q)]
    BY DEF Leaves
  <2> HIDE DEF b
  <2>2. backlog' \in [Procs -> Seq(Procs \X Contents)]
    BY <1>2, <2>1
  <2>3. ASSUME NEW q \in Procs
        PROVE  /\ Queued(q)' <= Backlog
               /\ pc'[q].server \in {"wait", "recv"} => backlog'[q] # <<>>
    <3>1. CASE q = x
      <4>1. backlog'[q] = <<>> /\ pc'[q].server = "bind" /\ Len(<<>>) = 0
        BY <2>1, <3>1 DEF Leaves, Pc0
      <4> QED BY <4>1 DEF Queued
    <3>2. CASE q # x
      <4>1. backlog'[q] = b(q) /\ pc'[q] = pc[q]
        BY <2>1, <3>2 DEF Leaves
      <4> QED BY <4>1, <1>2 DEF ArraysInv, Queues, Queued
    <3> QED BY <3>1, <3>2
  <2> QED BY <2>2, <2>3 DEF Queues
<1>4. Slot'
  <2>1. ASSUME NEW q \in Procs PROVE SlotOf(q)'
    <3>1. CASE q = x
      BY <3>1 DEF Leaves, Pc0, SlotOf, Flag
    <3>2. CASE q # x
      BY <3>2 DEF Leaves, ArraysInv, Slot, SlotOf, Flag
    <3> QED BY <3>1, <3>2
  <2> QED BY <2>1 DEF Slot, SlotOf
<1>5. LateTexts'
  <2>1. ASSUME NEW q \in Procs PROVE LateOf(q)'
    <3>1. CASE q = x
      BY <3>1 DEF Leaves, Pc0, LateOf, Own, AtWork
    <3>2. CASE q # x
      BY <3>2 DEF Leaves, ArraysInv, LateTexts, LateOf
    <3> QED BY <3>1, <3>2
  <2> QED BY <2>1 DEF LateTexts, LateOf
<1> QED BY <1>1, <1>3, <1>4, <1>5 DEF ArraysInv

(* So it does when it ends, whatever killed it.                            *)
LEMMA EndsKeeps ==
  ASSUME ArraysInv, NEW x \in Procs \cup {Main}, Ends(x)
  PROVE  ArraysInv'
  BY LeavesKeeps DEF Ends, ArraysInv, ArrayTypes

(* What changes a state or sends a signal, and nothing else.               *)
LEMMA OnlyLife ==
  ASSUME ArraysInv, UNCHANGED <<pc, semaphores, buffers, target_pid, backlog, late>>,
         state' \in [Procs \cup {Main} -> {"none", "runs", "forked", "handler", "unsure", "ended"}],
         killed' \subseteq Procs
  PROVE  ArraysInv'
<1>1. ArrayTypes'
  BY DEF ArraysInv, ArrayTypes, semaphores, buffers
<1>2. Queues'
  BY QueuesStay DEF ArraysInv
<1>3. Slot' /\ LateTexts'
  BY DEF ArraysInv, Slot, LateTexts, LateOf, semaphores, buffers
<1> QED BY <1>1, <1>2, <1>3 DEF ArraysInv

(* main and cleanup change states only, or end somebody.                   *)
LEMMA MainKeeps ==
  ASSUME ArraysInv, main \/ cleanup
  PROVE  ArraysInv'
<1>0. Main \in Procs \cup {Main} /\ ArrayTypes
  BY DEF ArraysInv
<1>1. CASE Ends(Main)
  BY <1>0, <1>1, EndsKeeps
<1>2. CASE Fork /\ ~Ends(Main)
  <2>1. state' \in [Procs \cup {Main} -> {"none", "runs", "forked", "handler", "unsure", "ended"}]
    BY <1>0, <1>2 DEF Fork, ArrayTypes
  <2> QED BY <1>0, <1>2, <2>1, OnlyLife DEF Fork, ArrayTypes
<1>3. CASE Record
  BY <1>0, <1>3, OnlyLife DEF Record, ArrayTypes
<1> QED BY <1>1, <1>2, <1>3 DEF main, cleanup

(* signal_handler in any process sends signals, or ends that process.      *)
LEMMA SignalsKeep ==
  ASSUME ArraysInv, NEW x \in Procs \cup {Main}, signal_handler(x)
  PROVE  ArraysInv'
<1>0. ArrayTypes
  BY DEF ArraysInv
<1>1. killed' \subseteq Procs
  BY <1>0 DEF ArrayTypes, signal_handler, Known, Forked
<1>2. CASE x = Main
  <2>1. state' \in [Procs \cup {Main} -> {"none", "runs", "forked", "handler", "unsure", "ended"}]
    BY <1>0, <1>2 DEF signal_handler, ArrayTypes
  <2> QED BY <1>1, <1>2, <2>1, OnlyLife DEF signal_handler
<1>3. CASE x # Main
  BY <1>1, <1>3, LeavesKeeps DEF signal_handler
<1> QED BY <1>2, <1>3

(* And so every step of gVersion2.c.                                       *)
LEMMA ArraysNext ==
  ASSUME ArraysInv, Next
  PROVE  ArraysInv'
<1>1. ASSUME NEW p \in Procs, create_threads(p)
      PROVE  ArraysInv'
  <2>1. CASE Brain(p)
    BY <2>1, GreetKeeps, BrainTakeKeeps, BrainRewriteKeeps DEF Brain
  <2>2. CASE Server(p)
    BY <2>2, BindAcceptKeeps, ServerTakeKeeps, ReceiveKeeps DEF Server
  <2>3. CASE Client(p)
    BY <2>3, ClientTakeKeeps, ConnectKeeps, ClientReturnKeeps DEF Client
  <2> QED BY <1>1, <2>1, <2>2, <2>3, TrackerKeeps DEF create_threads
<1>2. ASSUME NEW p \in Procs, bindFails(p) \/ Killed(p)
      PROVE  ArraysInv'
  BY <1>2, EndsKeeps DEF bindFails, Killed
<1> QED BY <1>1, <1>2, MainKeeps, SignalsKeep DEF Next

(* gVersion2.c: slot and mutexes have their owners; and a process other    *)
(* than 0 has the greeting to send only if one came while its brain was at *)
(* work on an earlier text or the end of a connection, and after that work *)
(* just when it was the last text to come so; for any number of processes, *)
(* limit of the semaphores and length of the queues.                       *)
THEOREM GreetingCorrect == Safe => []RelayNeedsTwo
<1>1. Starts => (program = "gVersion2" => ArraysInv)
  BY ArraysInit DEF Starts
<1>2. (program = "gVersion2" => ArraysInv) /\ [Run]_everything => (program = "gVersion2" => ArraysInv)'
  <2> SUFFICES ASSUME program = "gVersion2" => ArraysInv, [Run]_everything, program' = "gVersion2"
               PROVE  ArraysInv'
    OBVIOUS
  <2>1. CASE UNCHANGED everything
    <3>1. ArraysInv
      BY <2>1 DEF everything
    <3> QED BY <2>1, <3>1, OnlyLife DEF everything, vars, life, ArraysInv, ArrayTypes
  <2>2. CASE Run
    BY <2>2, ArraysNext DEF Run
  <2> QED BY <2>1, <2>2
<1>3. (program = "gVersion2" => ArraysInv) => RelayNeedsTwo
  <2>1. CASE program = "gVersion2" /\ ArraysInv
    <3>1. SlotOwned
      BY <2>1, ArraysTell DEF SlotOwned
    <3>2. \A p \in Procs : /\ bufferBrainClient[p] => late[p] # "no"
                           /\ pc[p].brain = "take" => (bufferBrainClient[p] <=> late[p] = "bonjour")
      BY <2>1 DEF ArraysInv, LateTexts, LateOf
    <3> QED BY <3>1, <3>2 DEF RelayNeedsTwo
  <2>2. CASE program # "gVersion2"
    BY <2>2 DEF RelayNeedsTwo, SlotOwned
  <2> QED BY <2>1, <2>2
<1> QED BY <1>1, <1>2, <1>3, PTL DEF Safe

(* While no process has ended, the connection of a client that has yet to  *)
(* send is in a queue.                                                     *)
Unsent ==
  (\A p \in Procs : state[p] # "ended") =>
    \A p \in Procs : pc[p].client = "send" =>
      \E q \in Procs : \E k \in DOMAIN backlog[q] : backlog[q][k] = <<p, "yet">>

(* It stays there when queues do not change and nobody comes to send.      *)
LEMMA UnsentStays ==
  ASSUME Unsent, UNCHANGED backlog,
         \A p \in Procs : state'[p] # "ended" => state[p] # "ended",
         \A p \in Procs : pc'[p].client = "send" => pc[p].client = "send"
  PROVE  Unsent'
BY DEF Unsent

(* What the steps of the threads do to it.                                 *)
LEMMA UnsentConnect ==
  ASSUME ArraysInv, Unsent, NEW p \in Procs, Connect(p)
  PROVE  Unsent'
<1>0. ArrayTypes /\ Goto(p, "client", "connect", "send") /\ backlog \in [Procs -> Seq(Procs \X Contents)]
  BY DEF ArraysInv, Connect, Queues
<1>1. /\ \A r \in Procs : r # p => pc'[r] = pc[r]
      /\ state' = state
  BY <1>0, ArraysGo DEF Connect, life
<1>2. PICK q \in Procs : q = target_pid[p]
  BY <1>0 DEF ArrayTypes
<1>3. backlog' = [backlog EXCEPT ![q] = Append(backlog[q], <<p, "yet">>)]
  BY <1>2 DEF Connect
<1>4. <<p, "yet">> \in Procs \X Contents /\ backlog[q] \in Seq(Procs \X Contents)
  BY <1>0 DEF Contents
<1>5. /\ backlog'[q] = Append(backlog[q], <<p, "yet">>)
      /\ \A r \in Procs : r # q => backlog'[r] = backlog[r]
  BY <1>0, <1>3
<1>6. /\ Len(backlog[q]) + 1 \in DOMAIN backlog'[q]
      /\ backlog'[q][Len(backlog[q]) + 1] = <<p, "yet">>
      /\ \A k \in DOMAIN backlog[q] : k \in DOMAIN backlog'[q] /\ backlog'[q][k] = backlog[q][k]
  BY <1>4, <1>5, AppendProperties, LenProperties
<1> SUFFICES ASSUME \A r \in Procs : state[r] # "ended", NEW r \in Procs, pc'[r].client = "send"
             PROVE  \E s \in Procs : \E k \in DOMAIN backlog'[s] : backlog'[s][k] = <<r, "yet">>
  BY <1>1 DEF Unsent
<1>7. CASE r = p
  BY <1>6, <1>7
<1>8. CASE r # p
  <2>1. PICK s \in Procs : \E k \in DOMAIN backlog[s] : backlog[s][k] = <<r, "yet">>
    BY <1>1, <1>8 DEF Unsent
  <2>2. CASE s = q
    BY <1>6, <2>1, <2>2
  <2>3. CASE s # q
    BY <1>5, <2>1, <2>3
  <2> QED BY <2>2, <2>3
<1> QED BY <1>7, <1>8

(* A connection that gets its text, or its end, is not that of another.    *)
LEMMA UnsentRelabelled ==
  ASSUME Unsent, NEW x, NEW c,
         \A p \in Procs : state'[p] # "ended" => state[p] # "ended",
         \A p \in Procs : pc'[p].client = "send" => p # x /\ pc[p].client = "send",
         \A q \in Procs : /\ DOMAIN backlog'[q] = DOMAIN backlog[q]
                          /\ \A k \in DOMAIN backlog[q] :
                               backlog'[q][k] = IF k \in Pending(x, q) THEN <<x, c>> ELSE backlog[q][k]
  PROVE  Unsent'
<1> SUFFICES ASSUME \A r \in Procs : state'[r] # "ended", NEW r \in Procs, pc'[r].client = "send"
             PROVE  \E s \in Procs : \E k \in DOMAIN backlog'[s] : backlog'[s][k] = <<r, "yet">>
  BY DEF Unsent
<1>1. PICK s \in Procs : \E k \in DOMAIN backlog[s] : backlog[s][k] = <<r, "yet">>
  BY DEF Unsent
<1>2. PICK k \in DOMAIN backlog[s] : backlog[s][k] = <<r, "yet">>
  BY <1>1
<1>3. k \notin Pending(x, s)
  <2>1. r # x
    OBVIOUS
  <2>2. <<r, "yet">> # <<x, "yet">>
    BY <2>1
  <2> QED BY <1>2, <2>2 DEF Pending
<1>4. backlog'[s][k] = <<r, "yet">> /\ k \in DOMAIN backlog'[s]
  BY <1>2, <1>3
<1> QED BY <1>4

(* recv takes a connection off the queue whose text has come: one that     *)
(* nobody has sent on stays.                                               *)
LEMMA UnsentReceive ==
  ASSUME ArraysInv, Unsent, NEW p \in Procs, Receive(p)
  PROVE  Unsent'
<1>0. ArrayTypes /\ Goto(p, "server", "recv", "accept") /\ backlog \in [Procs -> Seq(Procs \X Contents)]
  BY DEF ArraysInv, Receive, Queues
<1>1. (\A r \in Procs : pc'[r].client = pc[r].client) /\ state' = state
  BY <1>0, ArraysGo DEF Receive, life
<1>2. backlog[p] \in Seq(Procs \X Contents) /\ backlog[p] # <<>>
  BY <1>0, ArraysGo DEF ArraysInv, Queues
<1>3. /\ backlog' = [backlog EXCEPT ![p] = Tail(backlog[p])] /\ Head(backlog[p])[2] # "yet"
  BY DEF Receive
<1>4. /\ backlog'[p] = Tail(backlog[p])
      /\ \A r \in Procs : r # p => backlog'[r] = backlog[r]
  BY <1>0, <1>3
<1>5. \A k \in DOMAIN backlog[p] :
        k # 1 => k - 1 \in DOMAIN backlog'[p] /\ backlog'[p][k - 1] = backlog[p][k]
  BY <1>2, <1>4, HeadTailProperties, LenProperties
<1>6. \A r \in Procs : backlog[p][1] # <<r, "yet">>
  BY <1>2, <1>3
<1> SUFFICES ASSUME \A r \in Procs : state[r] # "ended", NEW r \in Procs, pc'[r].client = "send"
             PROVE  \E s \in Procs : \E k \in DOMAIN backlog'[s] : backlog'[s][k] = <<r, "yet">>
  BY <1>1 DEF Unsent
<1>7. PICK s \in Procs : \E k \in DOMAIN backlog[s] : backlog[s][k] = <<r, "yet">>
  BY <1>1 DEF Unsent
<1>8. PICK k \in DOMAIN backlog[s] : backlog[s][k] = <<r, "yet">>
  BY <1>7
<1>9. CASE s = p
  <2>1. k # 1
    BY <1>6, <1>8, <1>9
  <2> QED BY <1>5, <1>8, <1>9, <2>1
<1>10. CASE s # p
  BY <1>4, <1>8, <1>10
<1> QED BY <1>9, <1>10

(* In gVersion2.c nothing is sent that somebody could receive, step after  *)
(* step.                                                                   *)
LEMMA UnsentNext ==
  ASSUME ArraysInv, Unsent, Next
  PROVE  Unsent'
<1>0. ArrayTypes /\ backlog \in [Procs -> Seq(Procs \X Contents)]
  BY DEF ArraysInv, Queues
<1>1. ASSUME NEW p \in Procs, create_threads(p)
      PROVE  Unsent'
  <2>1. CASE Connect(p)
    BY <2>1, UnsentConnect
  <2>2. CASE Receive(p)
    BY <2>2, UnsentReceive
  <2>3. CASE Send(p)
    <3>1. /\ Goto(p, "client", "send", "take") /\ state' = state
          /\ Sent(p, IF bufferBrainClient[p] THEN "bonjour" ELSE "other")
      BY <2>3 DEF Send, life
    <3>2. pc'[p].client = "take" /\ \A r \in Procs : r # p => pc'[r] = pc[r]
      BY <1>0, <3>1, ArraysGo
    <3>3. PICK c : Sent(p, c)
      BY <3>1
    <3>4. \A q \in Procs : /\ DOMAIN backlog'[q] = DOMAIN backlog[q]
                           /\ \A k \in DOMAIN backlog[q] :
                                backlog'[q][k] = IF k \in Pending(p, q) THEN <<p, c>> ELSE backlog[q][k]
      BY <3>3 DEF Sent
    <3>5. \A r \in Procs : pc'[r].client = "send" => r # p /\ pc[r].client = "send"
      BY <3>2
    <3>6. \A r \in Procs : state'[r] # "ended" => state[r] # "ended"
      BY <3>1
    <3> QED BY ONLY Unsent, <3>4, <3>5, <3>6, UnsentRelabelled
  <2>4. CASE ClientTake(p) \/ ConnectFails(p)
    <3>1. /\ Goto(p, "client", "take", "connect") \/ Goto(p, "client", "connect", "take")
          /\ state' = state /\ backlog' = backlog
      BY <2>4 DEF ClientTake, ConnectFails, life
    <3>2. pc'[p].client # "send" /\ \A r \in Procs : r # p => pc'[r] = pc[r]
      BY <1>0, <3>1, ArraysGo
    <3>3. \A r \in Procs : pc'[r].client = "send" => pc[r].client = "send"
      BY <3>2
    <3> QED BY <3>1, <3>3, UnsentStays
  <2>5. CASE Tracker(p)
    BY <2>5, UnsentStays DEF Tracker, life
  <2>6. CASE Bind(p) \/ Accept(p) \/ ServerTake(p)
    <3>1. /\ \E from, next : Goto(p, "server", from, next)
          /\ state' = state /\ backlog' = backlog
      BY <2>6 DEF Bind, Accept, ServerTake, life
    <3>2. \A r \in Procs : pc'[r].client = pc[r].client
      BY <1>0, <3>1, ArraysGo
    <3> QED BY <3>1, <3>2, UnsentStays
  <2>7. CASE Brain(p)
    <3>1. /\ \E from, next : Goto(p, "brain", from, next)
          /\ state' = state /\ backlog' = backlog
      BY <2>7 DEF Brain, Greet, BrainTake, BrainRewrite, life
    <3>2. \A r \in Procs : pc'[r].client = pc[r].client
      BY <1>0, <3>1, ArraysGo
    <3> QED BY <3>1, <3>2, UnsentStays
  <2> QED BY <1>1, <2>1, <2>2, <2>3, <2>4, <2>5, <2>6, <2>7
          DEF create_threads, Client, Server
<1>2. ASSUME NEW x \in Procs, Leaves(x)
      PROVE  Unsent'
  <2>1. state'[x] = "ended"
    BY <1>0, <1>2 DEF Leaves, ArrayTypes
  <2> QED BY <2>1 DEF Unsent
<1>3. ASSUME Leaves(Main)
      PROVE  Unsent'
  <2>1. \A p \in Procs : p # Main
    BY DEF Procs, Main
  <2>2. \A p \in Procs : pc'[p] = pc[p] /\ state'[p] = state[p]
    BY <1>0, <1>3, <2>1 DEF Leaves, ArrayTypes
  <2>3. \A q \in Procs : /\ DOMAIN backlog'[q] = DOMAIN backlog[q]
                         /\ \A k \in DOMAIN backlog[q] :
                              backlog'[q][k] = IF k \in Pending(Main, q) THEN <<Main, "end">> ELSE backlog[q][k]
    BY <1>3, <2>1 DEF Leaves
  <2>4. \A p \in Procs : pc'[p].client = "send" => p # Main /\ pc[p].client = "send"
    BY <2>1, <2>2
  <2>5. \A p \in Procs : state'[p] # "ended" => state[p] # "ended"
    BY <2>2
  <2> QED BY ONLY Unsent, <2>3, <2>4, <2>5, UnsentRelabelled
<1>4. ASSUME UNCHANGED <<pc, backlog>>, \A p \in Procs : state'[p] # "ended" => state[p] # "ended"
      PROVE  Unsent'
  BY <1>4, UnsentStays
<1>5. CASE main \/ cleanup
  <2>1. CASE Ends(Main)
    BY <1>3, <2>1 DEF Ends
  <2>2. CASE (Fork \/ Record) /\ ~Ends(Main)
    <3>1. UNCHANGED <<pc, backlog>>
      BY <2>2 DEF Fork, Record
    <3>2. \A p \in Procs : state'[p] # "ended" => state[p] # "ended"
      BY <1>0, <2>2 DEF Fork, Record, ArrayTypes
    <3> QED BY <1>4, <3>1, <3>2
  <2> QED BY <1>5, <2>1, <2>2 DEF main, cleanup
<1>6. ASSUME NEW x \in Procs \cup {Main}, signal_handler(x)
      PROVE  Unsent'
  <2>1. CASE x = Main
    <3>1. UNCHANGED <<pc, backlog>>
      BY <1>6, <2>1 DEF signal_handler
    <3>2. \A p \in Procs : state'[p] # "ended" => state[p] # "ended"
      BY <1>0, <1>6, <2>1 DEF signal_handler, ArrayTypes, Procs, Main
    <3> QED BY <1>4, <3>1, <3>2
  <2>2. CASE x # Main
    BY <1>2, <1>6, <2>2 DEF signal_handler
  <2> QED BY <2>1, <2>2
<1>7. ASSUME NEW p \in Procs, bindFails(p) \/ Killed(p)
      PROVE  Unsent'
  BY <1>2, <1>7 DEF bindFails, Killed, Ends
<1> QED BY <1>1, <1>5, <1>6, <1>7 DEF Next

(* A connection without its text is that of a client before its send.      *)
YetToSend ==
  \A q \in Procs : \A k \in DOMAIN backlog[q] : \A p \in Procs :
    backlog[q][k] = <<p, "yet">> => pc[p].client = "send"

(* It stays so when queues do not change and no client comes from there.   *)
LEMMA YetStays ==
  ASSUME YetToSend, UNCHANGED backlog,
         \A p \in Procs : pc[p].client = "send" => pc'[p].client = "send"
  PROVE  YetToSend'
BY DEF YetToSend

(* A client that sends, or a process that ends, leaves none of its own.    *)
LEMMA YetRelabelled ==
  ASSUME YetToSend, NEW x, NEW c, c # "yet",
         \A p \in Procs : p # x => pc'[p] = pc[p],
         \A q \in Procs : \A k \in DOMAIN backlog'[q] :
           /\ k \in DOMAIN backlog[q]
           /\ backlog'[q][k] = IF k \in Pending(x, q) THEN <<x, c>> ELSE backlog[q][k]
  PROVE  YetToSend'
<1> SUFFICES ASSUME NEW q \in Procs, NEW k \in DOMAIN backlog'[q], NEW p \in Procs,
                    backlog'[q][k] = <<p, "yet">>
             PROVE  pc'[p].client = "send"
  BY DEF YetToSend
<1>1. <<x, c>> # <<p, "yet">>
  BY c # "yet"
<1>2. k \in DOMAIN backlog[q] /\ k \notin Pending(x, q) /\ backlog[q][k] = <<p, "yet">>
  BY <1>1
<1>3. p # x
  BY <1>2 DEF Pending
<1> QED BY <1>2, <1>3 DEF YetToSend

(* The connection that a client makes is its own, and it sends next.       *)
LEMMA YetConnect ==
  ASSUME ArraysInv, YetToSend, NEW p \in Procs, Connect(p)
  PROVE  YetToSend'
<1>0. ArrayTypes /\ Goto(p, "client", "connect", "send") /\ backlog \in [Procs -> Seq(Procs \X Contents)]
  BY DEF ArraysInv, Connect, Queues
<1>1. pc'[p].client = "send" /\ \A r \in Procs : r # p => pc'[r] = pc[r]
  BY <1>0, ArraysGo
<1>2. PICK q \in Procs : q = target_pid[p]
  BY <1>0 DEF ArrayTypes
<1>3. backlog' = [backlog EXCEPT ![q] = Append(backlog[q], <<p, "yet">>)]
  BY <1>2 DEF Connect
<1>4. <<p, "yet">> \in Procs \X Contents /\ backlog[q] \in Seq(Procs \X Contents)
  BY <1>0 DEF Contents
<1>5. /\ backlog'[q] = Append(backlog[q], <<p, "yet">>)
      /\ \A r \in Procs : r # q => backlog'[r] = backlog[r]
  BY <1>0, <1>3
<1>6. \A k \in DOMAIN backlog'[q] : \/ backlog'[q][k] = <<p, "yet">>
                                    \/ k \in DOMAIN backlog[q] /\ backlog'[q][k] = backlog[q][k]
  BY <1>4, <1>5, AppendProperties, LenProperties
<1> SUFFICES ASSUME NEW s \in Procs, NEW k \in DOMAIN backlog'[s], NEW r \in Procs, r # p,
                    backlog'[s][k] = <<r, "yet">>
             PROVE  pc[r].client = "send"
  BY <1>1 DEF YetToSend
<1>7. <<r, "yet">> # <<p, "yet">>
  OBVIOUS
<1>8. k \in DOMAIN backlog[s] /\ backlog[s][k] = <<r, "yet">>
  BY <1>5, <1>6, <1>7
<1> QED BY <1>8 DEF YetToSend

(* recv takes one off the queue, and the others move up.                   *)
LEMMA YetReceive ==
  ASSUME ArraysInv, YetToSend, NEW p \in Procs, Receive(p)
  PROVE  YetToSend'
<1>0. ArrayTypes /\ Goto(p, "server", "recv", "accept") /\ backlog \in [Procs -> Seq(Procs \X Contents)]
  BY DEF ArraysInv, Receive, Queues
<1>1. \A r \in Procs : pc'[r].client = pc[r].client
  BY <1>0, ArraysGo
<1>2. backlog[p] \in Seq(Procs \X Contents) /\ backlog[p] # <<>>
  BY <1>0, ArraysGo DEF ArraysInv, Queues
<1>3. /\ backlog'[p] = Tail(backlog[p])
      /\ \A r \in Procs : r # p => backlog'[r] = backlog[r]
  BY <1>0 DEF Receive
<1>4. \A k \in DOMAIN backlog'[p] : k + 1 \in DOMAIN backlog[p] /\ backlog'[p][k] = backlog[p][k + 1]
  BY <1>2, <1>3, HeadTailProperties, LenProperties
<1> SUFFICES ASSUME NEW s \in Procs, NEW k \in DOMAIN backlog'[s], NEW r \in Procs,
                    backlog'[s][k] = <<r, "yet">>
             PROVE  pc[r].client = "send"
  BY <1>1 DEF YetToSend
<1>5. CASE s = p
  BY <1>4, <1>5 DEF YetToSend
<1>6. CASE s # p
  BY <1>3, <1>6 DEF YetToSend
<1> QED BY <1>5, <1>6

(* And so it is step after step.                                           *)
LEMMA YetNext ==
  ASSUME ArraysInv, YetToSend, Next
  PROVE  YetToSend'
<1>0. ArrayTypes
  BY DEF ArraysInv
<1>1. ASSUME NEW p \in Procs, create_threads(p)
      PROVE  YetToSend'
  <2>1. CASE Connect(p)
    BY <2>1, YetConnect
  <2>2. CASE Receive(p)
    BY <2>2, YetReceive
  <2>3. CASE Send(p)
    <3>1. PICK c : Sent(p, c) /\ c # "yet"
      BY <2>3 DEF Send
    <3>2. \A r \in Procs : r # p => pc'[r] = pc[r]
      BY <1>0, <2>3, ArraysGo DEF Send
    <3>3. \A q \in Procs : \A k \in DOMAIN backlog'[q] :
            /\ k \in DOMAIN backlog[q]
            /\ backlog'[q][k] = IF k \in Pending(p, q) THEN <<p, c>> ELSE backlog[q][k]
      BY <3>1 DEF Sent
    <3> QED BY ONLY YetToSend, <3>1, <3>2, <3>3, YetRelabelled
  <2>4. CASE ClientTake(p) \/ ConnectFails(p)
    <3>1. /\ Goto(p, "client", "take", "connect") \/ Goto(p, "client", "connect", "take")
          /\ backlog' = backlog
      BY <2>4 DEF ClientTake, ConnectFails
    <3>2. pc[p].client # "send" /\ \A r \in Procs : r # p => pc'[r] = pc[r]
      BY <1>0, <3>1, ArraysGo
    <3> QED BY <3>1, <3>2, YetStays
  <2>5. CASE Tracker(p)
    BY <2>5, YetStays DEF Tracker
  <2>6. CASE Bind(p) \/ Accept(p) \/ ServerTake(p) \/ Brain(p)
    <3>1. /\ \E t \in {"server", "brain"} : \E from, next : Goto(p, t, from, next)
          /\ backlog' = backlog
      BY <2>6 DEF Bind, Accept, ServerTake, Brain, Greet, BrainTake, BrainRewrite
    <3>2. \A r \in Procs : pc'[r].client = pc[r].client
      BY <1>0, <3>1, ArraysGo
    <3> QED BY <3>1, <3>2, YetStays
  <2> QED BY <1>1, <2>1, <2>2, <2>3, <2>4, <2>5, <2>6 DEF create_threads, Client, Server
<1>2. ASSUME NEW x \in Procs \cup {Main}, Leaves(x)
      PROVE  YetToSend'
  <2>1. \A p \in Procs : p # x => pc'[p] = pc[p]
    BY <1>2 DEF Leaves
  <2>2. \A q \in Procs : \A k \in DOMAIN backlog'[q] :
          /\ k \in DOMAIN backlog[q]
          /\ backlog'[q][k] = IF k \in Pending(x, q) THEN <<x, "end">> ELSE backlog[q][k]
    BY <1>2 DEF Leaves
  <2>3. "end" # "yet"
    OBVIOUS
  <2> QED BY ONLY YetToSend, <2>1, <2>2, <2>3, YetRelabelled
<1>3. ASSUME UNCHANGED <<pc, backlog>>
      PROVE  YetToSend'
  BY <1>3, YetStays
<1>4. CASE main \/ cleanup
  BY <1>2, <1>3, <1>4 DEF main, cleanup, Fork, Record, Ends
<1>5. ASSUME NEW x \in Procs \cup {Main}, signal_handler(x)
      PROVE  YetToSend'
  BY <1>2, <1>3, <1>5 DEF signal_handler
<1>6. ASSUME NEW p \in Procs, bindFails(p) \/ Killed(p)
      PROVE  YetToSend'
  BY <1>2, <1>6 DEF bindFails, Killed, Ends
<1> QED BY <1>1, <1>4, <1>5, <1>6 DEF Next

(* Where nobody can do a step, a server that waits for its brain waits     *)
(* with it for a client that is in a connect.                              *)
LEMMA WaitsForClient ==
  ASSUME ArraysInv, YetToSend, \A p \in Procs : Blocked(p), NEW q \in Procs
  PROVE  \/ pc[q].server = "accept" /\ backlog[q] = <<>>
         \/ pc[q].client = "connect" /\ receive_plein[q] = 1 /\ pc[q].brain \in AtWork
<1>1. /\ Blocked(q) /\ SlotOf(q) /\ ArrayTypes
      /\ backlog[q] \in Seq(Procs \X Contents)
      /\ pc[q].server \in {"wait", "recv"} => backlog[q] # <<>>
  BY DEF ArraysInv, Slot, SlotOf, Queues
<1>2. CASE pc[q].server = "recv"
  <2>0. Head(backlog[q])[2] = "yet"
    <3>1. Blocked(q)
      OBVIOUS
    <3> QED BY ONLY <1>2, <3>1 DEF Blocked
  <2>1. backlog[q] \in Seq(Procs \X Contents) /\ backlog[q] # <<>>
    BY <1>1, <1>2
  <2>2. 1 \in DOMAIN backlog[q] /\ Head(backlog[q]) = backlog[q][1] /\ backlog[q][1] \in Procs \X Contents
    <3>1. Len(backlog[q]) \in Nat /\ Len(backlog[q]) # 0 /\ DOMAIN backlog[q] = 1 .. Len(backlog[q])
      BY <2>1, LenProperties, EmptySeq
    <3>2. 1 \in 1 .. Len(backlog[q])
      BY <3>1
    <3> QED BY <2>1, <3>1, <3>2, ElementOfSeq
  <2>3. PICK p \in Procs : backlog[q][1] = <<p, "yet">>
    BY <2>0, <2>2
  <2>4. pc[p].client = "send" /\ Blocked(p)
    BY <2>2, <2>3 DEF YetToSend
  <2> QED BY <2>4 DEF Blocked
<1>3. CASE pc[q].server = "wait"
  <2>1. receive_mutex[q] = 1 /\ receive_vide[q] = 0 /\ receive_plein[q] = 1
    BY <1>1, <1>3 DEF SlotOf, Flag, Blocked, ArrayTypes
  <2>2. pc[q].brain \in AtWork /\ sending_mutex[q] = 0
    BY <1>1, <2>1 DEF Blocked
  <2>3. pc[q].client = "connect"
    BY <1>1, <2>2 DEF SlotOf, Flag, Blocked
  <2> QED BY <2>1, <2>2, <2>3
<1> QED BY <1>1, <1>2, <1>3 DEF Blocked

(* So they stand still only in silence or in a ring of connects.           *)
LEMMA StandsStill ==
  ASSUME ArraysInv, YetToSend
  PROVE  StandsInRing
<1> SUFFICES ASSUME AllUp, \A p \in Procs : Blocked(p), ~Silent
             PROVE  /\ \E p \in Procs : pc[p].client = "connect"
                    /\ \A p \in Procs : pc[p].client = "connect" =>
                         /\ target_pid[p] \in Procs /\ pc[target_pid[p]].client = "connect"
                         /\ receive_plein[target_pid[p]] = 1 /\ pc[target_pid[p]].brain \in AtWork
  BY DEF StandsInRing
<1>1. ArrayTypes /\ 0 \in Procs /\ \A q \in Procs : SlotOf(q)
  BY DEF ArraysInv, Slot, SlotOf, Procs
<1>2. ASSUME \A p \in Procs : pc[p].client # "connect"
      PROVE  FALSE
  <2>1. ASSUME NEW p \in Procs
        PROVE  /\ sending_plein[p] = 0 /\ receive_plein[p] = 0 /\ pc[p].client = "take"
               /\ backlog[p] = <<>> /\ pc[p].brain = "take"
    <3>1. pc[p].server = "accept" /\ backlog[p] = <<>> /\ pc[p].client = "take" /\ Blocked(p)
      BY <1>2, WaitsForClient DEF Blocked
    <3>2. sending_mutex[p] = 1 /\ receive_mutex[p] = 1
      <4>1. SlotOf(p) /\ sending_mutex[p] \in 0 .. 1 /\ receive_mutex[p] \in 0 .. 1
        BY <1>1 DEF ArrayTypes
      <4> QED BY ONLY <3>1, <4>1 DEF SlotOf, Flag
    <3>3. sending_plein[p] = 0
      BY <1>1, <3>1, <3>2 DEF Blocked
    <3>4. pc[p].brain = "take" /\ receive_plein[p] = 0
      BY <1>1, <3>1, <3>2 DEF Blocked
    <3> QED BY <3>1, <3>3, <3>4
  <2> QED BY <1>1, <2>1 DEF Silent, AtWork
<1>3. ASSUME NEW p \in Procs, pc[p].client = "connect"
      PROVE  /\ target_pid[p] \in Procs /\ pc[target_pid[p]].client = "connect"
             /\ receive_plein[target_pid[p]] = 1 /\ pc[target_pid[p]].brain \in AtWork
  <2>1. PICK q \in Procs : q = target_pid[p]
    BY <1>1 DEF ArrayTypes
  <2>2. Queued(q) >= Backlog
    BY <1>3, <2>1 DEF Blocked
  <2>3. ~(pc[q].server = "accept" /\ backlog[q] = <<>>)
    <3>1. pc[q].server = "accept" /\ backlog[q] = <<>> => Queued(q) = 0
      BY Len(<<>>) = 0 DEF Queued
    <3> QED BY <2>2, <3>1
  <2> QED BY <2>1, <2>3, WaitsForClient
<1> QED BY <1>2, <1>3

(* What leaves a system as silent as it was.                               *)
LEMMA SilentStays ==
  ASSUME UNCHANGED <<sending_plein, receive_plein, backlog>>,
         pc'[0].brain = pc[0].brain,
         \A p \in Procs : /\ pc'[p].client = pc[p].client
                          /\ pc'[p].brain \in {"client", "tracker"} => pc[p].brain \in {"client", "tracker"}
                          /\ pc[p].brain \in {"client", "tracker"} => pc'[p].brain \in {"client", "tracker"}
  PROVE  Silent' <=> Silent
BY DEF Silent, AtWork

(* The steps by which a system comes to rest while nobody ends: a client   *)
(* that takes a text has one to send, its connection waits in a queue      *)
(* until the text is received, and the brain announces it again.           *)
LEMMA SilencedBy ==
  ASSUME ArraysInv, Unsent, Next, AllUp, AllUp', ~Silent, Silent'
  PROVE  \E p \in Procs : Tracker(p) \/ ConnectFails(p)
<1>0. /\ ArrayTypes /\ backlog \in [Procs -> Seq(Procs \X Contents)] /\ 0 \in Procs
      /\ \A p \in Procs : state[p] # "ended"
  <2>1. ArrayTypes /\ backlog \in [Procs -> Seq(Procs \X Contents)]
    BY DEF ArraysInv, Queues
  <2>2. 0 \in Procs
    BY DEF Procs
  <2>3. \A p \in Procs : state[p] # "ended"
    BY DEF AllUp, Up
  <2> QED BY <2>1, <2>2, <2>3
<1>1. ASSUME NEW p \in Procs, create_threads(p), ~Tracker(p), ~ConnectFails(p)
      PROVE  FALSE
  <2>1. CASE ClientTake(p)
    <3>1. pc'[p].client = "connect"
      BY <1>0, <2>1, ArraysGo DEF ClientTake
    <3> QED BY <3>1 DEF Silent, AtWork
  <2>2. CASE Connect(p)
    <3>1. pc'[p].client = "send"
      BY <1>0, <2>2, ArraysGo DEF Connect
    <3> QED BY <3>1 DEF Silent, AtWork
  <2>3. CASE Send(p)
    <3>1. pc[p].client = "send"
      BY <2>3 DEF Send, Goto
    <3>2. PICK q \in Procs : \E k \in DOMAIN backlog[q] : backlog[q][k] = <<p, "yet">>
      BY <1>0, <3>1 DEF Unsent
    <3>3. DOMAIN backlog'[q] = DOMAIN backlog[q]
      BY <2>3 DEF Send, Sent
    <3>4. backlog'[q] # <<>>
      BY <3>2, <3>3
    <3> QED BY <3>4 DEF Silent
  <2>4. CASE Bind(p) \/ Accept(p) \/ ServerTake(p)
    <3>1. /\ \E from, next : Goto(p, "server", from, next)
          /\ UNCHANGED <<sending_plein, receive_plein, backlog>>
      BY <2>4 DEF Bind, Accept, ServerTake, semaphores
    <3>2. \A r \in Procs : pc'[r].client = pc[r].client /\ pc'[r].brain = pc[r].brain
      BY <1>0, <3>1, ArraysGo
    <3> QED BY <1>0, <3>1, <3>2, SilentStays
  <2>5. CASE Receive(p)
    <3>1. receive_plein'[p] > 0
      <4>1. receive_plein \in [Procs -> 0 .. 1] /\ receive_plein' = Post(receive_plein, p, 1)
        BY <1>0, <2>5 DEF Receive, Give, ArrayTypes
      <4>2. receive_plein[p] \in 0 .. 1
              /\ receive_plein'[p] = IF receive_plein[p] + 1 > SemMax THEN SemMax ELSE receive_plein[p] + 1
        BY ONLY <4>1, p \in Procs DEF Post
      <4> QED BY ONLY <4>2, SemMaxAssumption
    <3> QED BY <3>1 DEF Silent, AtWork
  <2>6. CASE Greet(p)
    <3>1. Goto(p, "brain", "greet", "take")
      BY <2>6 DEF Greet
    <3>0. /\ pc[p].brain = "greet" /\ pc'[p].brain = "take" /\ pc'[p].client = pc[p].client
          /\ \A r \in Procs : r # p => pc'[r] = pc[r]
      BY <1>0, <3>1, ArraysGo
    <3>2. /\ pc[p].brain = "greet" /\ pc'[p].brain = "take"
          /\ \A r \in Procs : pc'[r].client = pc[r].client
          /\ \A r \in Procs : r # p => pc'[r].brain = pc[r].brain
      BY <3>0
    <3>3. CASE p = 0
      <4>1. sending_plein'[p] > 0
        BY <1>0, <2>6, <3>3 DEF Greet, Give, Post, ArrayTypes
      <4> QED BY <4>1 DEF Silent
    <3>4. CASE p # 0
      <4>1. UNCHANGED <<sending_plein, receive_plein, backlog>>
        BY <2>6, <3>4 DEF Greet
      <4> QED BY <1>0, <3>2, <3>4, <4>1, SilentStays
    <3> QED BY <3>3, <3>4
  <2>7. CASE BrainTake(p)
    <3>1. pc'[p].brain = "client"
      BY <1>0, <2>7, ArraysGo DEF BrainTake
    <3> QED BY <3>1 DEF Silent, AtWork
  <2>8. CASE BrainRewrite(p, "client", "tracker", 2)
    <3>1. pc'[p].brain = "tracker"
      BY <1>0, <2>8, ArraysGo DEF BrainRewrite
    <3> QED BY <3>1 DEF Silent, AtWork
  <2>9. CASE BrainRewrite(p, "tracker", "take", 1)
    <3>1. sending_plein'[p] > 0
      BY <1>0, <2>9 DEF BrainRewrite, Post, ArrayTypes
    <3> QED BY <3>1 DEF Silent, AtWork
  <2> QED BY <1>1, <2>1, <2>2, <2>3, <2>4, <2>5, <2>6, <2>7, <2>8, <2>9
          DEF create_threads, Client, Server, Brain
<1>2. ASSUME NEW x \in Procs, Leaves(x)
      PROVE  FALSE
  <2>1. state'[x] = "ended"
    BY <1>0, <1>2 DEF Leaves, ArrayTypes
  <2> QED BY <2>1 DEF AllUp, Up
<1>3. ASSUME UNCHANGED <<pc, semaphores, backlog>>
      PROVE  FALSE
  BY <1>3, SilentStays DEF semaphores
<1>4. ASSUME Leaves(Main)
      PROVE  FALSE
  <2>1. \A p \in Procs : p # Main
    BY DEF Procs, Main
  <2>2. \A p \in Procs : /\ pc'[p] = pc[p] /\ sending_plein'[p] = sending_plein[p]
                         /\ receive_plein'[p] = receive_plein[p]
                         /\ DOMAIN backlog'[p] = DOMAIN backlog[p]
    BY <1>4, <2>1 DEF Leaves
  <2>3. \A p \in Procs : backlog'[p] = <<>> => backlog[p] = <<>>
    <3>1. ASSUME NEW p \in Procs, backlog'[p] = <<>>
          PROVE  backlog[p] = <<>>
      <4>1. backlog[p] \in Seq(Procs \X Contents) /\ DOMAIN backlog[p] = DOMAIN << >>
        BY <1>0, <2>2, <3>1
      <4>2. 1 \notin DOMAIN backlog[p]
        BY ONLY <4>1
      <4>3. Len(backlog[p]) \in Nat /\ DOMAIN backlog[p] = 1 .. Len(backlog[p])
        BY ONLY <4>1, LenProperties
      <4>4. Len(backlog[p]) = 0
        BY ONLY <4>2, <4>3
      <4> QED BY ONLY <4>1, <4>4, EmptySeq
    <3> QED BY <3>1
  <2> QED BY <1>0, <2>2, <2>3 DEF Silent, AtWork
<1>5. CASE main \/ cleanup
  <2>1. CASE Ends(Main)
    BY <1>4, <2>1 DEF Ends
  <2>2. CASE (Fork \/ Record) /\ ~Ends(Main)
    BY <1>3, <2>2 DEF Fork, Record
  <2> QED BY <1>5, <2>1, <2>2 DEF main, cleanup
<1>6. ASSUME NEW x \in Procs \cup {Main}, signal_handler(x)
      PROVE  FALSE
  <2>1. CASE x = Main
    BY <1>3, <1>6, <2>1 DEF signal_handler
  <2>2. CASE x # Main
    BY <1>2, <1>6, <2>2 DEF signal_handler
  <2> QED BY <2>1, <2>2
<1>7. ASSUME NEW p \in Procs, bindFails(p) \/ Killed(p)
      PROVE  FALSE
  BY <1>2, <1>7 DEF bindFails, Killed, Ends
<1> QED BY <1>1, <1>5, <1>6, <1>7 DEF Next

(* gVersion2.c: while all processes live, only a tracker that takes the    *)
(* last text, or a connect that comes before the server it is to, brings   *)
(* the system to rest; and with texts left they stand still only in a ring *)
(* of connects to full queues; for any number of processes, limit of the   *)
(* semaphores and length of the queues.                                    *)
THEOREM SilenceCorrect == Safe => RelayStops
<1> DEFINE I == program = "gVersion2" => ArraysInv /\ Unsent /\ YetToSend
<1>1. Starts => I
  <2>1. Init => Unsent /\ YetToSend
    BY DEF Init, Unsent, YetToSend, Pc0
  <2> QED BY <2>1, ArraysInit DEF Starts
<1>2. I /\ [Run]_everything => I'
  <2> SUFFICES ASSUME I, [Run]_everything, program' = "gVersion2"
               PROVE  ArraysInv' /\ Unsent' /\ YetToSend'
    OBVIOUS
  <2>1. CASE UNCHANGED everything
    <3>1. ArraysInv /\ Unsent /\ YetToSend
      BY <2>1 DEF everything
    <3>2. ArraysInv'
      BY <2>1, <3>1, OnlyLife DEF everything, vars, life, ArraysInv, ArrayTypes
    <3>3. Unsent' /\ YetToSend'
      BY <2>1, <3>1, UnsentStays, YetStays DEF everything, vars, life
    <3> QED BY <3>2, <3>3
  <2>2. CASE Run
    BY <2>2, ArraysNext, UnsentNext, YetNext DEF Run
  <2> QED BY <2>1, <2>2
<1>3. I /\ [Run]_everything
        => (program = "gVersion2" /\ AllUp /\ AllUp' /\ ~Silent /\ Silent'
              => \E p \in Procs : Tracker(p) \/ ConnectFails(p))
  <2> SUFFICES ASSUME program = "gVersion2", ArraysInv, Unsent, [Run]_everything,
                      AllUp, AllUp', ~Silent, Silent'
               PROVE  \E p \in Procs : Tracker(p) \/ ConnectFails(p)
    OBVIOUS
  <2>1. CASE UNCHANGED everything
    BY <2>1, SilentStays DEF everything, vars, semaphores
  <2>2. CASE Run
    BY <2>2, SilencedBy DEF Run
  <2> QED BY <2>1, <2>2
<1>4. I => StandsInRing
  BY StandsStill DEF StandsInRing
<1> QED BY <1>1, <1>2, <1>3, <1>4, PTL DEF Safe, RelayStops, OnlyTheseSilence
=============================================================================
