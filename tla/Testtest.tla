------------------------------ MODULE Testtest -------------------------------
(***************************************************************************)
(* testtest.c: the relay over two lasting connections, whose clients       *)
(* connect once: a peer that does not listen yet ends the process.  There  *)
(* is no signal handler.                                                   *)
(***************************************************************************)
EXTENDS StreamRelay

(* Mutant: a refused connect is tried again, as in working.c.              *)
ConnectRetried(p) ==
  /\ Up(p) /\ pc[p].client = "connect" /\ ~Listening(To[p])
  /\ UNCHANGED relay

(* error() in the client, which ends all its process.                      *)
ConnectFails(p) ==
  /\ Up(p) /\ pc[p].client = "connect" /\ ~Listening(To[p])
  /\ Ends(p) /\ UNCHANGED killed

Client(p) == \/ Connect(p) \/ ConnectFails(p)
             \/ ClientTake(p) \/ Send(p) \/ SendFails(p)
Server(p) == Bind(p) \/ BindFails(p) \/ Accept(p, "take") \/ ServerTake(p) \/ Receive(p)
Brain(p) == Greet(p) \/ BrainTake(p) \/ BrainRewrite(p, "take", {})
create_threads(p) == Client(p) \/ Server(p) \/ Brain(p)

main == ForkFails \/ Record \/ MainReturns \/ \E p \in Procs : Fork(p)

Init == RelayInit
Next == main \/ \E p \in Procs : create_threads(p)

Spec == Init /\ [][Next]_relay
=============================================================================
