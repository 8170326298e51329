----------------------------- MODULE Abracadabra -----------------------------
(***************************************************************************)
(* abracadabra.c: the relay over two lasting connections, without tracker. *)
(* An interrupt to main is passed on to both children as SIGUSR1; process  *)
(* 2, which has inherited pid1, passes it on to process 1.                 *)
(***************************************************************************)
EXTENDS StreamRelay

Client(p) == Connect(p) \/ ClientTake(p) \/ Send(p) \/ SendFails(p)
Server(p) == Bind(p) \/ BindFails(p) \/ Accept(p, "take") \/ ServerTake(p) \/ Receive(p)
Brain(p) == Greet(p) \/ BrainTake(p) \/ BrainRewrite(p, "take", {})
create_threads(p) == Client(p) \/ Server(p) \/ Brain(p)

main == ForkFails \/ Record \/ MainReturns \/ \E p \in Procs : Fork(p)

(* Mutant: the signal handler of main leaves out the first child.          *)
signal_handlerLast(x) == Interrupted(x, IF x = Main THEN Known \ {1}
                                        ELSE {q \in Procs : q < x})

signal_handler(x) == Interrupted(x, IF x = Main THEN Known ELSE {q \in Procs : q < x})
cleanup == HandlerExits(Forked)

Init == RelayInit
Next == \/ main \/ cleanup
        \/ \E p \in Procs : create_threads(p) \/ Killed(p)
        \/ \E x \in Procs \cup {Main} : signal_handler(x)

Spec == Init /\ [][Next]_relay
=============================================================================
