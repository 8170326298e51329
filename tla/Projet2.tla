------------------------------- MODULE Projet2 ------------------------------
(***************************************************************************)
(* projet2.c: as projet_w_brain.c, but what the server receives is for a brain *)
(* that is not started.  main joins it all the same, with a thread identifier *)
(* that was never written: the process may end then, or not.               *)
(***************************************************************************)
EXTENDS UnixRelay

client_thread(p) == \/ ClientTop(p) \/ Connect(p) \/ ConnectFails(p) \/ ClientStops(p)
                    \/ ClientWaits(p, send_buffer[p]) \/ ClientSends(p) \/ SendFails(p)

server_thread(p) == \/ Bind(p) \/ BindFails(p) \/ Accept(p, "recv") \/ Receive(p, {}, FALSE)
                    \/ ServerStops(p)

create_threads(p) == client_thread(p) \/ server_thread(p)

Next == \/ main
        \/ \E p \in Procs : create_threads(p) \/ Seed(p, {"client"}) \/ Killed(p) \/ Joined(p, {"client", "server"})
        \/ \E x \in Procs \cup {Main} : handle_signal(x)

Spec == Init /\ [][Next]_vars
=============================================================================
