---------------------------- MODULE ProjetWBrain ----------------------------
(***************************************************************************)
(* projet_w_brain.c: no brain.  The server receives under the mutex of the *)
(* other process, and passes the text on under its own, while it holds both; *)
(* recv_buffer is only on the way.                                         *)
(***************************************************************************)
EXTENDS UnixRelay

client_thread(p) == \/ ClientTop(p) \/ Connect(p) \/ ConnectFails(p) \/ ClientStops(p)
                    \/ ClientWaits(p, send_buffer[p]) \/ ClientSends(p) \/ SendFails(p)

(* What is received goes to the client; the end of a connection does not.  *)
Passes(p) ==
  /\ At(p, "server", "recv") /\ Received(p)
  /\ LET text == Head(conns[p]) = "text" IN
       /\ send_buffer' = [send_buffer EXCEPT ![p] = @ \/ text]
       /\ Goto(p, "server", Top(p), IF text THEN {"client"} ELSE {})
  /\ conns' = [conns EXCEPT ![p] = Tail(@)]
  /\ UNCHANGED <<life, recv_buffer>>

server_thread(p) == \/ Bind(p) \/ BindFails(p) \/ Accept(p, "recv") \/ Passes(p)
                    \/ ServerStops(p)

create_threads(p) == client_thread(p) \/ server_thread(p)

Next == \/ main
        \/ \E p \in Procs : create_threads(p) \/ Seed(p, {"client"}) \/ Killed(p) \/ Joined(p, {"client", "server"})
        \/ \E x \in Procs \cup {Main} : handle_signal(x)

Spec == Init /\ [][Next]_vars
=============================================================================
