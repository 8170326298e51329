------------------------------- MODULE Brique --------------------------------
(***************************************************************************)
(* brique.c: the relay over two lasting connections, with a tracker that   *)
(* prints what it is told and then tells itself again: it posts            *)
(* tracker_plein, on which it waits.  Its main and its signals are those   *)
(* of abracadabra.c.                                                       *)
(***************************************************************************)
EXTENDS StreamRelay

Client(p) == Connect(p) \/ ClientTake(p) \/ Send(p) \/ SendFails(p)
Server(p) == Bind(p) \/ BindFails(p) \/ Accept(p, "take") \/ ServerTake(p) \/ Receive(p)
Brain(p) == \/ Greet(p) \/ BrainTake(p)
            \/ BrainRewrite(p, "track", {"tracker_plein"}) \/ BrainTrack(p)

Tracker(p) == TrackerTake(p) \/ TrackerDone(p, {"tracker_plein"})
create_threads(p) == Client(p) \/ Server(p) \/ Brain(p) \/ Tracker(p)

main == ForkFails \/ Record \/ MainReturns \/ \E p \in Procs : Fork(p)
signal_handler(x) == Interrupted(x, IF x = Main THEN Known ELSE {q \in Procs : q < x})
cleanup == HandlerExits(Forked)

Init == RelayInit
Next == \/ main \/ cleanup
        \/ \E p \in Procs : create_threads(p) \/ Killed(p)
        \/ \E x \in Procs \cup {Main} : signal_handler(x)

Spec == Init /\ [][Next]_relay
=============================================================================
