------------------------------- MODULE Projet --------------------------------
(***************************************************************************)
(* projet.c: the brain takes the text from the receive buffer to the send  *)
(* buffer.  What the client signals after a send is a condition variable   *)
(* for which only the brain of the other process waits, that is, nobody.   *)
(***************************************************************************)
EXTENDS UnixRelay

client_thread(p) == \/ ClientTop(p) \/ Connect(p) \/ ConnectFails(p) \/ ClientStops(p) \/ ClientWaits(p, send_buffer[p])
                    \/ ClientSends(p) \/ SendFails(p)

(* Mutant: the server thread returns.                                      *)
ServerReturns(p) == ServerStops(p)

(* After its loop the server binds the socket it has closed: exit(1).      *)
ServerExits(p) == At(p, "server", "out") /\ Ends(p)

server_thread(p) == \/ Bind(p) \/ BindFails(p) \/ Accept(p, "recv") \/ Receive(p, {"brain"}, FALSE)
                    \/ ServerExits(p)

(* Mutant: the brain signals the condition variable of the other process.  *)
SignalsNobody(p) ==
  /\ pc[p].server # "recv"
  /\ BrainWaits(p, recv_buffer[p]) \/ BrainStops(p) \/ BrainCopies(p, {})

(* It needs the mutex that the server holds in recv.                       *)
BrainLocks(p) ==
  /\ pc[p].server # "recv"
  /\ BrainWaits(p, recv_buffer[p]) \/ BrainStops(p) \/ BrainCopies(p, {"client"})

(* At the top of its loop it looks at stop without.                        *)
brain_thread(p) == BrainLocks(p) \/ BrainStops(p)

create_threads(p) == client_thread(p) \/ server_thread(p) \/ brain_thread(p)

Next == \/ main \/ \E p \in Procs : create_threads(p) \/ Seed(p, {"client"}) \/ Killed(p)
        \/ \E x \in Procs \cup {Main} : handle_signal(x)

Spec == Init /\ [][Next]_vars
=============================================================================
