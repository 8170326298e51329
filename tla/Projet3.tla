------------------------------- MODULE Projet3 -------------------------------
(***************************************************************************)
(* projet3.c: the server of each process fills the brain_buffer of the     *)
(* other (here its recv_buffer); the brain waits for its own, which nobody *)
(* fills, and so no brain ever copies a text.                              *)
(***************************************************************************)
EXTENDS UnixRelay

client_thread(p) == \/ ClientTop(p) \/ Connect(p) \/ ConnectFails(p) \/ ClientStops(p)
                    \/ ClientWaits(p, send_buffer[p]) \/ ClientSends(p) \/ SendFails(p)

server_thread(p) == \/ Bind(p) \/ BindFails(p) \/ Accept(p, "recv")
                    \/ Receive(p, {}, recv_buffer[p]) \/ ServerStops(p)

brain_thread(p) == BrainWaits(p, FALSE) \/ BrainStops(p)

create_threads(p) == client_thread(p) \/ server_thread(p) \/ brain_thread(p)

Next == \/ main
        \/ \E p \in Procs : \/ create_threads(p) \/ Seed(p, {"client"}) \/ Killed(p)
                            \/ Joined(p, {"client", "server", "brain"})
        \/ \E x \in Procs \cup {Main} : handle_signal(x)

Spec == Init /\ [][Next]_vars
=============================================================================
