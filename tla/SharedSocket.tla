---------------------------- MODULE SharedSocket -----------------------------
(***************************************************************************)
(* multi.c: client and server thread of a process keep their sockets in    *)
(* one variable, sockfd, so that each call may meet the other's socket;    *)
(* and two of the three processes serve the same port.  Here are fork, the *)
(* two threads call by call, and what the kernel does with a socket in a   *)
(* state its caller did not expect.  A text is a unit; brain, semaphores   *)
(* and slot are one counter, of the sends that are due, because they are   *)
(* those of StreamRelay; tracker, pipe and signals are left out.           *)
(***************************************************************************)
EXTENDS Naturals, FiniteSets

CONSTANTS Due,      \* more sends than this are not counted
          Stream    \* the texts a connection takes before send blocks

Procs == 0 .. 2     \* NB_PROCESS
Starter == 1
None == 3

Serves(p) == IF p = Starter THEN "PORT1" ELSE "PORT2"
Seeks(p) == IF p = Starter THEN "PORT2" ELSE "PORT1"

VARIABLES
  state,    \* per process, "none" before its fork, "runs", "ended"; main's is state[None]
  sockfd,   \* per process, the thread whose socket the variable holds, or "none"
  sock,     \* per process and thread, what became of the socket it made
  pc,       \* per process and thread, the call it is before
  to,       \* per process, the one its connection goes to, or None
  newsockfd,\* per process, the one whose connection it has accepted, or None
  due,      \* per process, the sends its client owes
  wire,     \* per process, the texts on its connection
  broken,   \* per process, whether a text was sent to a peer that had ended
  ready     \* per process, whether its server had called accept when its client made its socket

flow == <<due, wire, broken>>
vars == <<state, sockfd, sock, pc, to, newsockfd, flow, ready>>

Threads == {"client", "server"}
SocketStates == {"none", "fresh", "bound", "listens", "elsewhere", "connected"}

Init ==
  /\ state = [x \in Procs \cup {None} |-> IF x = None THEN "runs" ELSE "none"]
  /\ sockfd = [p \in Procs |-> "none"]
  /\ sock = [p \in Procs |-> [t \in Threads |-> "none"]]
  /\ pc = [p \in Procs |-> [t \in Threads |-> "socket"]]
  /\ to = [p \in Procs |-> None] /\ newsockfd = [p \in Procs |-> None]
  /\ due = [p \in Procs |-> IF p = Starter THEN 1 ELSE 0]
  /\ wire = [p \in Procs |-> 0] /\ broken = [p \in Procs |-> FALSE]
  /\ ready = [p \in Procs |-> FALSE]

(* Fork, of 0, 1 and 2 in turn; when it fails only main ends.              *)
main ==
  /\ state[None] = "runs"
  /\ \E p \in Procs :
       /\ state[p] = "none" /\ \A q \in Procs : q < p => state[q] # "none"
       /\ \/ state' = [state EXCEPT ![p] = "runs"]
          \/ state' = [state EXCEPT ![None] = "ended"]
  /\ UNCHANGED <<sockfd, sock, pc, to, newsockfd, flow, ready>>

Up(p) == p \in Procs /\ state[p] = "runs"
At(p, t, call) == Up(p) /\ pc[p][t] = call
Goto(p, t, from, next) == At(p, t, from) /\ pc' = [pc EXCEPT ![p][t] = next]

(* Mutant: each thread has a variable of its own.                          *)
FdOwn(p, t) == t

(* The socket a call of thread t gets, its state, and a call changing that *)
Fd(p, t) == sockfd[p]
Meets(p, t) == sock[p][Fd(p, t)]
Becomes(p, t, s) == sock' = [sock EXCEPT ![p][Fd(p, t)] = s]

Ends(p) ==
  /\ state' = [state EXCEPT ![p] = "ended"]
  /\ sock' = [sock EXCEPT ![p] = [t \in Threads |-> "none"]]
  /\ wire' = [q \in Procs |-> IF to[q] = p THEN 0 ELSE wire[q]]
  /\ UNCHANGED <<sockfd, pc, to, newsockfd, due, broken, ready>>

socket(p, t) ==
  /\ Goto(p, t, "socket", IF t = "client" THEN "connect" ELSE "bind")
  /\ sockfd' = [sockfd EXCEPT ![p] = t]
  /\ sock' = [sock EXCEPT ![p][t] = "fresh"]
  /\ ready' = IF t = "client" THEN [ready EXCEPT ![p] = pc[p].server \in {"waits", "recv"}] ELSE ready
  /\ UNCHANGED <<state, to, newsockfd, flow>>

-----------------------------------------------------------------------------
(* thread_client *)

(* A socket that listens, or finds nobody listening, cannot connect: that  *)
(* is tried again and changes nothing.                                     *)
Connect(p) ==
  /\ Goto(p, "client", "connect", "send")
  /\ Meets(p, "client") \in {"fresh", "bound"}
  /\ \E q \in Procs : /\ \E t \in Threads : sock[q][t] = "listens"
                      /\ Serves(q) = Seeks(p)
                      /\ to' = [to EXCEPT ![p] = q]
  /\ Becomes(p, "client", "connected")
  /\ UNCHANGED <<state, sockfd, newsockfd, flow, ready>>

Send(p) ==
  /\ At(p, "client", "send") /\ due[p] > 0 /\ Meets(p, "client") = "connected"
  /\ due' = [due EXCEPT ![p] = @ - 1]
  /\ \/ Up(to[p]) /\ wire[p] < Stream /\ wire' = [wire EXCEPT ![p] = @ + 1] /\ UNCHANGED broken
     \/ ~Up(to[p]) /\ ~broken[p] /\ broken' = [broken EXCEPT ![p] = TRUE] /\ UNCHANGED wire
  /\ UNCHANGED <<state, sockfd, sock, pc, to, newsockfd, ready>>

(* SIGPIPE: on a socket that is not connected, or no longer.               *)
SendFails(p) ==
  /\ At(p, "client", "send") /\ due[p] > 0 /\ (Meets(p, "client") # "connected" \/ broken[p])
  /\ Ends(p)

-----------------------------------------------------------------------------
(* thread_server: what fails in bind and accept ends the process.          *)

Holders(p) == {q \in Procs \ {p} : Up(q) /\ Serves(q) = Serves(p)}
Taken(p, s) == \E q \in Holders(p), t \in Threads : sock[q][t] = s

(* With SO_REUSEADDR, unless that was set on the other socket, two may be  *)
(* bound to a port at which nobody listens yet.                            *)
Bind(p) ==
  \/ /\ Goto(p, "server", "bind", "listen") /\ Meets(p, "server") = "fresh" /\ ~Taken(p, "listens")
     /\ Becomes(p, "server", "bound")
     /\ UNCHANGED <<state, sockfd, to, newsockfd, flow, ready>>
  \/ /\ At(p, "server", "bind")
     /\ Meets(p, "server") # "fresh" \/ Taken(p, "listens") \/ Taken(p, "bound")
     /\ Ends(p)

(* Nobody looks whether listen fails.  An unbound socket listens at a port *)
(* nobody knows.                                                           *)
Listen(p) ==
  /\ Goto(p, "server", "listen", "accept")
  /\ IF Meets(p, "server") = "fresh" THEN Becomes(p, "server", "elsewhere")
     ELSE IF Meets(p, "server") = "bound" /\ ~Taken(p, "listens") THEN Becomes(p, "server", "listens")
     ELSE UNCHANGED sock
  /\ UNCHANGED <<state, sockfd, to, newsockfd, flow, ready>>

(* accept fails at once, or waits on the socket it was given, whatever     *)
(* becomes of sockfd afterwards.                                           *)
Accept(p) ==
  \/ /\ Goto(p, "server", "accept", "waits") /\ Meets(p, "server") \in {"listens", "elsewhere"}
     /\ UNCHANGED <<state, sockfd, sock, to, newsockfd, flow, ready>>
  \/ /\ At(p, "server", "accept") /\ Meets(p, "server") \notin {"listens", "elsewhere"}
     /\ Ends(p)
  \/ /\ Goto(p, "server", "waits", "recv")
     /\ sock[p][IF ready[p] THEN "server" ELSE Fd(p, "server")] = "listens"
     /\ \E q \in Procs : to[q] = p /\ newsockfd' = [newsockfd EXCEPT ![p] = q]
     /\ UNCHANGED <<state, sockfd, sock, to, flow, ready>>

(* A text, or the end of the stream taken for one, makes two sends due.    *)
Receive(p) ==
  /\ At(p, "server", "recv")
  /\ LET q == newsockfd[p] IN
       \/ wire[q] > 0 /\ wire' = [wire EXCEPT ![q] = @ - 1]
       \/ wire[q] = 0 /\ ~Up(q) /\ UNCHANGED wire
  /\ due' = [due EXCEPT ![p] = IF @ + 2 > Due THEN Due ELSE @ + 2]
  /\ UNCHANGED <<state, sockfd, sock, pc, to, newsockfd, broken, ready>>

-----------------------------------------------------------------------------
Client(p) == socket(p, "client") \/ Connect(p) \/ Send(p) \/ SendFails(p)
Server(p) == socket(p, "server") \/ Bind(p) \/ Listen(p) \/ Accept(p) \/ Receive(p)
create_threads(p) == Client(p) \/ Server(p)

Next == main \/ \E p \in Procs : create_threads(p)
Spec == Init /\ [][Next]_vars

-----------------------------------------------------------------------------
(* Properties *)

(* The values of every variable.                                           *)
TypeOK ==
  /\ state \in [Procs \cup {None} -> {"none", "runs", "ended"}]
  /\ sockfd \in [Procs -> Threads \cup {"none"}]
  /\ sock \in [Procs -> [Threads -> SocketStates]]
  /\ \A p \in Procs : /\ pc[p].client \in {"socket", "connect", "send"}
                      /\ pc[p].server \in {"socket", "bind", "listen", "accept", "waits", "recv"}
  /\ to \in [Procs -> Procs \cup {None}] /\ newsockfd \in [Procs -> Procs \cup {None}]
  /\ due \in [Procs -> 0 .. Due] /\ wire \in [Procs -> 0 .. Stream]
  /\ broken \in [Procs -> BOOLEAN] /\ ready \in [Procs -> BOOLEAN]

(* A process that can both receive and send is one whose server thread     *)
(* had called accept before its client made its socket.                    *)
Sends(p) == At(p, "client", "send") /\ Meets(p, "client") = "connected"
DuplexOnlyServerFirst == \A p \in Procs : Sends(p) /\ At(p, "server", "recv") => ready[p]
=============================================================================
