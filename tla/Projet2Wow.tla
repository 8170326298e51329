----------------------------- MODULE Projet2Wow ------------------------------
(***************************************************************************)
(* projet2_wow.c: the client of either process waits for the send buffer   *)
(* of process 1, on the condition variable of the brain of process 1.  The *)
(* server receives nothing: it waits for a text in recv_buffer, which only *)
(* grows from itself, so what server and brain do with one is left out.    *)
(***************************************************************************)
EXTENDS UnixRelay

client_thread(p) == \/ ClientTop(p) \/ Connect(p) \/ ConnectFails(p) \/ ClientStops(p)
                    \/ ClientWaits(p, send_buffer[p]) \/ ClientSends(p) \/ SendFails(p)

(* Mutant: the server takes the text of the connection.                    *)
ServerReceives(p) == Receive(p, {"server", "brain"}, FALSE)

(* recv_buffer is empty: the server waits, unless it sees stop ...         *)
ServerWaits(p) ==
  /\ At(p, "server", "recv")
  /\ Goto(p, "server", IF stop[p] THEN "leave" ELSE "wait", {})
  /\ UNCHANGED <<life, buffers, conns>>

(* ... and leaves the connection it has accepted open.                     *)
ServerLeaves(p) ==
  /\ At(p, "server", "leave")
  /\ Goto(p, "server", "done", {})
  /\ conns' = [conns EXCEPT ![p] = <<Head(@)>>]
  /\ UNCHANGED <<life, buffers>>

server_thread(p) == \/ Bind(p) \/ BindFails(p) \/ Accept(p, "recv") \/ ServerWaits(p)
                    \/ ServerLeaves(p) \/ ServerStops(p)

brain_thread(p) == BrainWaits(p, FALSE) \/ BrainStops(p)

create_threads(p) == client_thread(p) \/ server_thread(p) \/ brain_thread(p)

(* main's one signal is on cond1, for which client and brain may both wait.*)
SeedEither(p) == Seed(p, {"client", "brain"})

Next == \/ main
        \/ \E p \in Procs : \/ create_threads(p) \/ SeedEither(p) \/ Killed(p)
                            \/ Joined(p, {"client", "server", "brain"})
        \/ \E x \in Procs \cup {Main} : handle_signal(x)

Spec == Init /\ [][Next]_vars
=============================================================================
