------------------------------- MODULE Working -------------------------------
(***************************************************************************)
(* working.c: the relay over two lasting connections, without tracker, in  *)
(* which an interrupted process just exits, main as well: it waits for     *)
(* nobody and tells nobody.                                                *)
(***************************************************************************)
EXTENDS StreamRelay

Client(p) == Connect(p) \/ ClientTake(p) \/ Send(p) \/ SendFails(p)
Server(p) == Bind(p) \/ BindFails(p) \/ Accept(p, "take") \/ ServerTake(p) \/ Receive(p)
Brain(p) == Greet(p) \/ BrainTake(p) \/ BrainRewrite(p, "take", {})
create_threads(p) == Client(p) \/ Server(p) \/ Brain(p)

main == ForkFails \/ Record \/ MainReturns \/ \E p \in Procs : Fork(p)
cleanup(x) == Up(x) /\ Ends(x) /\ UNCHANGED killed

Init == RelayInit
Next == \/ main
        \/ \E p \in Procs : create_threads(p)
        \/ \E x \in Procs \cup {Main} : cleanup(x)

Spec == Init /\ [][Next]_relay
=============================================================================
