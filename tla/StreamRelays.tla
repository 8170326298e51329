---------------------------- MODULE StreamRelays -----------------------------
(***************************************************************************)
(* The relays over two lasting connections that have no observer, side by  *)
(* side: abracadabra.c, brique.c, working.c and testtest.c.  One of them   *)
(* is run.                                                                 *)
(***************************************************************************)
EXTENDS StreamRelay

ASSUME TwoProcesses == Procs = {1, 2} /\ To = Others

VARIABLE program   \* the one that is run

vars == <<relay, program>>

A == INSTANCE Abracadabra
B == INSTANCE Brique
W == INSTANCE Working
T == INSTANCE Testtest

Client(p) == \/ program = "abracadabra" /\ A!Client(p)
             \/ program = "brique" /\ B!Client(p)
             \/ program = "working" /\ W!Client(p)
             \/ program = "testtest" /\ T!Client(p)
Server(p) == \/ program = "abracadabra" /\ A!Server(p)
             \/ program = "brique" /\ B!Server(p)
             \/ program = "working" /\ W!Server(p)
             \/ program = "testtest" /\ T!Server(p)
Brain(p) == \/ program = "abracadabra" /\ A!Brain(p)
            \/ program = "brique" /\ B!Brain(p)
            \/ program = "working" /\ W!Brain(p)
            \/ program = "testtest" /\ T!Brain(p)
Tracker(p) == program = "brique" /\ B!Tracker(p)
create_threads(p) == Client(p) \/ Server(p) \/ Brain(p) \/ Tracker(p)

main == \/ program = "abracadabra" /\ A!main
        \/ program = "brique" /\ B!main
        \/ program = "working" /\ W!main
        \/ program = "testtest" /\ T!main

Init == RelayInit /\ program \in {"abracadabra", "brique", "working", "testtest"}

Next == /\ \/ program = "abracadabra" /\ A!Next
           \/ program = "brique" /\ B!Next
           \/ program = "working" /\ W!Next
           \/ program = "testtest" /\ T!Next
        /\ UNCHANGED program

(* Every thread that can go on does, and a signal sent arrives; nobody has *)
(* to interrupt, and no fork to fail.                                      *)
Fairness == /\ WF_relay(main) /\ WF_relay(HandlerExits(Forked))
            /\ \A p \in Procs : /\ WF_relay(Client(p)) /\ WF_relay(Server(p))
                                /\ WF_relay(Brain(p)) /\ WF_relay(Tracker(p))
                                /\ WF_relay(Killed(p))

Spec == Init /\ [][Next]_vars /\ Fairness

(* Bound of the run: in brique.c main is not interrupted after a tracker   *)
(* was told a text.                                                        *)
Quiet == program = "brique" /\ state[Main] \in {"handler", "unsure"}
           => \A p \in Procs : sem[p].tracker_plein = 0

-----------------------------------------------------------------------------
Running == ENABLED (\E p \in Procs : create_threads(p))

(* An interrupted main does not stay in its handler, where it waits for    *)
(* its children to end, unless the interrupt came between a fork and the   *)
(* assignment of the pid: that child it would wait for, untold.            *)
InterruptEnds == []<>(state[Main] # "handler")

(* As long as nobody ends, texts are relayed for ever, by both processes   *)
(* in turn, unless both streams fill up.  (In brique.c the tracker that    *)
(* never rests may keep the brain from its mutex.)                         *)
GoesOn ==
  \A p \in Procs : <>[](Connected /\ program # "brique")
                    => []<><<BrainTake(p)>>_relay \/ <>[]BothFull

(* A process of working.c that was connected both ways does not survive    *)
(* its peer: the stale text it goes on announcing runs into SIGPIPE.       *)
Orphan(p) == /\ program = "working" /\ Up(p)
             /\ state[To[p]] = "ended" /\ link[p] # "none" /\ link[To[p]] # "none"
PeerDeathEnds == \A p \in Procs : []<>~Orphan(p)

(* In testtest.c either both processes are up and connected in the end, or *)
(* what is left of them comes to rest: a failed start leaves no process    *)
(* relaying alone.                                                         *)
StartsOrStops == <>[](Connected \/ program # "testtest") \/ <>[]~Running
=============================================================================
