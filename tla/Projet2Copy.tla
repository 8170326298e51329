----------------------------- MODULE Projet2Copy -----------------------------
(***************************************************************************)
(* "projet2 copy.c": the client hands mutex, buffer, stop and condition    *)
(* variable to func_client_thread by value.  It then waits on variables    *)
(* that no other thread can see, and empties a buffer of its own.          *)
(***************************************************************************)
EXTENDS UnixRelay

(* The copy of the mutex is locked if the brain had the original, with the *)
(* text half way to the send buffer.                                       *)
CopiesLocked(p) ==
  /\ At(p, "client", "lock") /\ At(p, "brain", "lock")
  /\ recv_buffer[p] /\ ~stop[p] /\ pc[p].server # "recv"
  /\ Goto(p, "client", "wait", {}) /\ UNCHANGED <<life, buffers, conns>>

(* Mutant: the buffer is emptied for the next call too.                    *)
SendsCopyOnce(p) == ClientSends(p)

SendsCopy(p) ==
  /\ At(p, "client", "lock") /\ ~stop[p] /\ send_buffer[p] /\ Open(p)
  /\ conns' = [conns EXCEPT ![Peer(p)] = Last(@, "text")]
  /\ Goto(p, "client", "top", {}) /\ UNCHANGED <<life, buffers>>

func_client_thread(p) == \/ ClientStops(p) \/ ClientWaits(p, send_buffer[p])
                         \/ CopiesLocked(p) \/ SendsCopy(p) \/ SendFails(p)

client_thread(p) == ClientTop(p) \/ Connect(p) \/ ConnectFails(p) \/ func_client_thread(p)

server_thread(p) == \/ Bind(p) \/ BindFails(p) \/ Accept(p, "recv") \/ Receive(p, {"brain"}, FALSE)
                    \/ ServerStops(p)

(* It needs the mutex that the server holds in recv.                       *)
BrainLocks(p) ==
  /\ pc[p].server # "recv"
  /\ BrainWaits(p, recv_buffer[p]) \/ BrainStops(p) \/ BrainCopies(p, {})

(* At the top of its loop it looks at stop without.                        *)
brain_thread(p) == BrainLocks(p) \/ BrainStops(p)

create_threads(p) == client_thread(p) \/ server_thread(p) \/ brain_thread(p)

Next == \/ main
        \/ \E p \in Procs : \/ create_threads(p) \/ Seed(p, {}) \/ Killed(p)
                            \/ Joined(p, {"client", "server", "brain"})
        \/ \E x \in Procs \cup {Main} : handle_signal(x)

Spec == Init /\ [][Next]_vars
=============================================================================
