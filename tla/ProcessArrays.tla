---------------------------- MODULE ProcessArrays ----------------------------
(***************************************************************************)
(* gVersion2.c: processes 0 .. N-1, each with client, server, brain and    *)
(* tracker.  A client picks a process at random, itself not excepted, and  *)
(* makes a connection for every text it sends; the tracker waits on the    *)
(* client's own semaphores.  Of a text the model keeps whether it begins   *)
(* with the greeting "bonjour" of process 0.                               *)
(***************************************************************************)
EXTENDS Naturals, Sequences, FiniteSets

CONSTANTS N,        \* num_processes
          SemMax,   \* SEM_VALUE_MAX: sem_post fails there, which nobody looks at
          Backlog   \* the connections that wait for accept before connect blocks

ASSUME NAssumption == N \in Nat /\ N >= 2
ASSUME SemMaxAssumption == SemMax \in Nat \ {0}
ASSUME BacklogAssumption == Backlog \in Nat \ {0}

Procs == 0 .. N - 1
Main == N

VARIABLES
  state,    \* per process and Main, "none", "runs", "handler" or "ended"; Main is
            \* "forked" until a pid is stored, and then "unsure" when interrupted
  killed,   \* the processes with a SIGUSR1 to come
  pc,       \* per process and thread, the call it is before
  sending_plein, sending_mutex, receive_plein, receive_vide, receive_mutex,
  bufferServBrain,    \* per process, whether the text there is the greeting
  bufferBrainClient,  \* the same
  target_pid,         \* per process, the one its client connects to (itself while to none)
  backlog,  \* per process, the connections to it: what was sent, or "yet" or "end"
  late      \* no variable of the program: per process, the greeting among the texts that
            \* came while its brain was at work: "no", not yet; "bonjour", the last of
            \* them; "other", an earlier one

semaphores == <<sending_plein, sending_mutex, receive_plein, receive_vide, receive_mutex>>
buffers == <<bufferServBrain, bufferBrainClient>>
life == <<state, killed>>
vars == <<life, pc, semaphores, buffers, target_pid, backlog, late>>

Pc0 == [client |-> "take", server |-> "bind", brain |-> "greet"]

(* Process 0 begins with a greeting of its own.                            *)
Own(p) == IF p = 0 THEN "bonjour" ELSE "no"

Init ==
  /\ state = [x \in Procs \cup {Main} |-> IF x = Main THEN "runs" ELSE "none"] /\ killed = {}
  /\ pc = [p \in Procs |-> Pc0]
  /\ sending_plein = [p \in Procs |-> 0] /\ receive_plein = [p \in Procs |-> 0]
  /\ sending_mutex = [p \in Procs |-> 1] /\ receive_mutex = [p \in Procs |-> 1]
  /\ receive_vide = [p \in Procs |-> 1]
  /\ bufferServBrain = [p \in Procs |-> FALSE] /\ bufferBrainClient = [p \in Procs |-> FALSE]
  /\ target_pid = [p \in Procs |-> p]
  /\ backlog = [p \in Procs |-> <<>>] /\ late = [p \in Procs |-> Own(p)]

Up(x) == state[x] \notin {"none", "ended"}
Goto(p, t, from, next) == Up(p) /\ pc[p][t] = from /\ pc' = [pc EXCEPT ![p][t] = next]
Post(s, p, k) == [s EXCEPT ![p] = IF @ + k > SemMax THEN SemMax ELSE @ + k]
Take(s, p) == s[p] > 0 /\ s' = [s EXCEPT ![p] = @ - 1]
Give(s, p) == s' = Post(s, p, 1)

(* Only the last connection of a client can be without its text.           *)
Pending(p, q) == {i \in DOMAIN backlog[q] : backlog[q][i] = <<p, "yet">>}
Sent(p, text) ==
  backlog' = [q \in Procs |-> [i \in DOMAIN backlog[q] |->
                IF i \in Pending(p, q) THEN <<p, text>> ELSE backlog[q][i]]]

-----------------------------------------------------------------------------
(* thread_client *)

ClientTake(p) ==
  /\ Goto(p, "client", "take", "connect")
  /\ Take(sending_plein, p) /\ Take(sending_mutex, p)
  /\ \E q \in Procs : target_pid' = [target_pid EXCEPT ![p] = q]
  /\ UNCHANGED <<life, receive_plein, receive_vide, receive_mutex, buffers, backlog, late>>

(* The connections to q that its server has not accepted.                  *)
Queued(q) == Len(backlog[q]) - (IF pc[q].server \in {"wait", "recv"} THEN 1 ELSE 0)

Listening(q) == Up(q) /\ pc[q].server # "bind"

Connect(p) ==
  LET q == target_pid[p] IN
  /\ Goto(p, "client", "connect", "send")
  /\ Listening(q) /\ Queued(q) < Backlog
  /\ backlog' = [backlog EXCEPT ![q] = Append(@, <<p, "yet">>)]
  /\ UNCHANGED <<life, semaphores, buffers, target_pid, late>>

(* continue: what is retried is the wait for a text.                       *)
ConnectFails(p) ==
  /\ Goto(p, "client", "connect", "take")
  /\ ~Listening(target_pid[p])
  /\ Give(sending_mutex, p) /\ target_pid' = [target_pid EXCEPT ![p] = p]
  /\ UNCHANGED <<life, sending_plein, receive_plein, receive_vide, receive_mutex, buffers,
                 backlog, late>>

(* send and close; to a process that has ended it is lost.                 *)
Send(p) ==
  /\ Goto(p, "client", "send", "take")
  /\ target_pid' = [target_pid EXCEPT ![p] = p]
  /\ Sent(p, IF bufferBrainClient[p] THEN "bonjour" ELSE "other")
  /\ Give(sending_mutex, p)
  /\ UNCHANGED <<life, sending_plein, receive_plein, receive_vide, receive_mutex, buffers,
                 late>>

Client(p) == ClientTake(p) \/ Connect(p) \/ ConnectFails(p) \/ Send(p)

(* thread_tracker: it prints the text that was the client's to send.       *)
Tracker(p) ==
  /\ Up(p) /\ sending_mutex[p] > 0 /\ Take(sending_plein, p)
  /\ UNCHANGED <<life, pc, sending_mutex, receive_plein, receive_vide, receive_mutex, buffers,
                 target_pid, backlog, late>>

-----------------------------------------------------------------------------
(* thread_server *)

Bind(p) ==
  /\ Goto(p, "server", "bind", "accept")
  /\ UNCHANGED <<life, semaphores, buffers, target_pid, backlog, late>>

Accept(p) ==
  /\ Goto(p, "server", "accept", "wait")
  /\ backlog[p] # <<>>
  /\ UNCHANGED <<life, semaphores, buffers, target_pid, backlog, late>>

ServerTake(p) ==
  /\ Goto(p, "server", "wait", "recv")
  /\ Take(receive_vide, p) /\ Take(receive_mutex, p)
  /\ UNCHANGED <<life, sending_plein, sending_mutex, receive_plein, buffers,
                 target_pid, backlog, late>>

(* Mutant: the wrong semaphore is posted, the text is received over.       *)
ReceiveOver(p) ==
  /\ Goto(p, "server", "recv", "accept")
  /\ Head(backlog[p])[2] # "yet" /\ backlog' = [backlog EXCEPT ![p] = Tail(@)]
  /\ Give(receive_mutex, p) /\ Give(receive_vide, p)
  /\ UNCHANGED <<life, sending_plein, sending_mutex, receive_plein, buffers, target_pid, late>>

(* A brain between a text (or an end) that it has taken and its last copy. *)
AtWork == {"client", "tracker"}

(* recv waits for the text, or for the end of a connection without one.    *)
Receive(p) ==
  /\ Goto(p, "server", "recv", "accept")
  /\ LET text == Head(backlog[p])[2] IN
       /\ text # "yet"
       /\ bufferServBrain' = IF text = "end" THEN bufferServBrain
                             ELSE [bufferServBrain EXCEPT ![p] = text = "bonjour"]
       /\ late' = IF pc[p].brain \notin AtWork \/ text = "end" THEN late
                  ELSE [late EXCEPT ![p] = IF text = "other" /\ @ = "no" THEN @ ELSE text]
  /\ backlog' = [backlog EXCEPT ![p] = Tail(@)]
  /\ Give(receive_mutex, p) /\ Give(receive_plein, p)
  /\ UNCHANGED <<life, sending_plein, sending_mutex, receive_vide, bufferBrainClient, target_pid>>

Server(p) == Bind(p) \/ Accept(p) \/ ServerTake(p) \/ Receive(p)

-----------------------------------------------------------------------------
(* thread_brain *)

Greet(p) ==
  /\ Goto(p, "brain", "greet", "take")
  /\ IF p = 0 THEN /\ bufferBrainClient' = [bufferBrainClient EXCEPT ![p] = TRUE]
                   /\ Give(sending_plein, p)
              ELSE UNCHANGED <<bufferBrainClient, sending_plein>>
  /\ UNCHANGED <<life, sending_mutex, receive_plein, receive_vide, receive_mutex,
                 bufferServBrain, target_pid, backlog, late>>

(* Mutant: the copy goes the way it goes in gVersion.c.                    *)
BrainTakeReceived(p) ==
  /\ Goto(p, "brain", "take", "client")
  /\ receive_mutex[p] > 0 /\ Take(receive_plein, p)
  /\ bufferBrainClient' = [bufferBrainClient EXCEPT ![p] = bufferServBrain[p]]
  /\ Give(receive_vide, p) /\ Give(sending_plein, p)
  /\ UNCHANGED <<life, sending_mutex, receive_mutex, bufferServBrain, target_pid, backlog, late>>

(* The brain copies its own last text over the one received, gives the     *)
(* slot back ...                                                           *)
BrainTake(p) ==
  /\ Goto(p, "brain", "take", "client")
  /\ receive_mutex[p] > 0 /\ Take(receive_plein, p)
  /\ bufferServBrain' = [bufferServBrain EXCEPT ![p] = bufferBrainClient[p]]
  /\ Give(receive_vide, p) /\ Give(sending_plein, p)
  /\ UNCHANGED <<life, sending_mutex, receive_mutex, bufferBrainClient, target_pid, backlog, late>>

(* ... and copies what is in it now, for the client and for the tracker.   *)
BrainRewrite(p, from, next, announced) ==
  /\ Goto(p, "brain", from, next)
  /\ sending_mutex[p] > 0
  /\ bufferBrainClient' = [bufferBrainClient EXCEPT ![p] = bufferServBrain[p]]
  /\ sending_plein' = Post(sending_plein, p, announced)
  /\ UNCHANGED <<life, sending_mutex, receive_plein, receive_vide, receive_mutex,
                 bufferServBrain, target_pid, backlog, late>>

Brain(p) == \/ Greet(p) \/ BrainTake(p)
            \/ BrainRewrite(p, "client", "tracker", 2) \/ BrainRewrite(p, "tracker", "take", 1)

create_threads(p) == Client(p) \/ Server(p) \/ Brain(p) \/ Tracker(p)

-----------------------------------------------------------------------------
(* main, signal_handler and error *)

(* A process that ends leaves its connections without a text, and nobody   *)
(* to take those that were made to it.  Its memory is gone.                *)
Leaves(x) ==
  LET Gone(v, value) == [p \in Procs |-> IF p = x THEN value ELSE v[p]] IN
  /\ backlog' = [q \in Procs |-> IF q = x THEN <<>> ELSE [i \in DOMAIN backlog[q] |->
                   IF i \in Pending(x, q) THEN <<x, "end">> ELSE backlog[q][i]]]
  /\ state' = [state EXCEPT ![x] = "ended"] /\ pc' = Gone(pc, Pc0)
  /\ sending_plein' = Gone(sending_plein, 0) /\ sending_mutex' = Gone(sending_mutex, 1)
  /\ receive_plein' = Gone(receive_plein, 0) /\ receive_mutex' = Gone(receive_mutex, 1)
  /\ receive_vide' = Gone(receive_vide, 1)
  /\ bufferServBrain' = Gone(bufferServBrain, FALSE)
  /\ bufferBrainClient' = Gone(bufferBrainClient, FALSE)
  /\ target_pid' = Gone(target_pid, x) /\ late' = Gone(late, Own(x))

Ends(x) == Leaves(x) /\ killed' = killed \ {x}

Forked == {p \in Procs : state[p] # "none"}

Fork ==
  /\ state[Main] = "runs"
  /\ \E p \in Procs :
       /\ state[p] = "none" /\ \A q \in Procs : q < p => state[q] # "none"
       /\ \/ /\ state' = [state EXCEPT ![p] = "runs", ![Main] = "forked"]
             /\ UNCHANGED <<killed, pc, semaphores, buffers, target_pid, backlog, late>>
          \/ Ends(Main)

(* The assignment of the pid that fork returns.                            *)
Record ==
  /\ state[Main] = "forked" /\ state' = [state EXCEPT ![Main] = "runs"]
  /\ UNCHANGED <<killed, pc, semaphores, buffers, target_pid, backlog, late>>

(* Those whose pid is stored: main may lack the last.                      *)
Known(x) == {p \in Forked : /\ p < x
                             /\ x = Main /\ state[x] = "forked" => \E q \in Forked : p < q}

main ==
  \/ Fork \/ Record
  \/ state[Main] = "runs" /\ (\A p \in Procs : state[p] = "ended") /\ Ends(Main)

(* error() ends the process.                                               *)
bindFails(p) == Up(p) /\ pc[p].server = "bind" /\ Ends(p)

(* Who has no children only passes SIGUSR1 on to those forked before it;   *)
(* main waits for its own.                                                 *)
signal_handler(x) ==
  /\ state[x] \in {"runs", "forked"}
  /\ killed' = (killed \cup {p \in Known(x) : Up(p)}) \ {x}
  /\ IF x = Main THEN /\ state' = [state EXCEPT ![x] = IF @ = "forked" THEN "unsure" ELSE "handler"]
                      /\ UNCHANGED <<pc, semaphores, buffers, target_pid, backlog, late>>
                 ELSE Leaves(x)

cleanup == state[Main] \in {"handler", "unsure"} /\ (\A p \in Forked : state[p] = "ended") /\ Ends(Main)

Killed(p) == p \in killed /\ Up(p) /\ Ends(p)

Next == \/ main \/ cleanup
        \/ \E p \in Procs : create_threads(p) \/ bindFails(p) \/ Killed(p)
        \/ \E x \in Procs \cup {Main} : signal_handler(x)

Spec == Init /\ [][Next]_vars

-----------------------------------------------------------------------------
(* Properties *)

(* The values of every variable.                                           *)
TypeOK ==
  /\ state \in [Procs \cup {Main} -> {"none", "runs", "forked", "handler", "unsure", "ended"}]
  /\ killed \subseteq Procs
  /\ \A p \in Procs : /\ pc[p].client \in {"take", "connect", "send"}
                      /\ pc[p].server \in {"bind", "accept", "wait", "recv"}
                      /\ pc[p].brain \in {"greet", "take", "client", "tracker"}
  /\ sending_plein \in [Procs -> 0 .. SemMax]
  /\ \A s \in {sending_mutex, receive_plein, receive_vide, receive_mutex} : s \in [Procs -> 0 .. 1]
  /\ bufferServBrain \in [Procs -> BOOLEAN] /\ bufferBrainClient \in [Procs -> BOOLEAN]
  /\ target_pid \in [Procs -> Procs] /\ late \in [Procs -> {"no", "bonjour", "other"}]
  /\ \A p \in Procs : Queued(p) <= Backlog

Flag(b) == IF b THEN 1 ELSE 0

(* The slot between server and brain is free, announced, or in the hands   *)
(* of the server; who blocks with a mutex is the server in recv, and the   *)
(* client from before its connect to after its send.                       *)
Slot ==
  \A p \in Procs :
    /\ receive_vide[p] + receive_plein[p] + Flag(pc[p].server = "recv") = 1
    /\ receive_mutex[p] + Flag(pc[p].server = "recv") = 1
    /\ sending_mutex[p] + Flag(pc[p].client \in {"connect", "send"}) = 1

(* No thread of the process can do its next call.                          *)
Blocked(p) ==
  /\ sending_plein[p] = 0 \/ sending_mutex[p] = 0
  /\ \/ pc[p].client = "take"
     \/ pc[p].client = "connect" /\ Listening(target_pid[p]) /\ Queued(target_pid[p]) >= Backlog
  /\ \/ pc[p].server = "accept" /\ backlog[p] = <<>>
     \/ pc[p].server = "wait" /\ (receive_vide[p] = 0 \/ receive_mutex[p] = 0)
     \/ pc[p].server = "recv" /\ Head(backlog[p])[2] = "yet"
  /\ \/ pc[p].brain = "take" /\ (receive_plein[p] = 0 \/ receive_mutex[p] = 0)
     \/ pc[p].brain \in AtWork /\ sending_mutex[p] = 0

AllUp == \A p \in Procs : Up(p)
Silent == /\ pc[0].brain # "greet"
          /\ \A p \in Procs : /\ sending_plein[p] = 0 /\ receive_plein[p] = 0
                              /\ pc[p].client = "take" /\ backlog[p] = <<>>
                              /\ pc[p].brain \notin AtWork
=============================================================================
