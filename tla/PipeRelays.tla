----------------------------- MODULE PipeRelays ------------------------------
(***************************************************************************)
(* The relays over lasting connections that have an observer, side by      *)
(* side: pipeProjet.c, PIPEETTHREADS.c and fifotube.c.  One of them is     *)
(* run.                                                                    *)
(***************************************************************************)
EXTENDS PipeObserver

CONSTANT Chain   \* the processes of PIPEETTHREADS.c

ASSUME TwoProcesses == Procs = {1, 2} /\ To = Others
ASSUME ChainAssumption ==
  /\ Cardinality(Chain) \in Nat \ {0} /\ Chain = 1 .. Cardinality(Chain)
  /\ Main \notin Chain

VARIABLES program,             \* the one that is run
          name, tube, struck   \* those of fifotube.c

entry == <<name, tube, struck>>
state_of_all == <<vars, entry>>
everything == <<state_of_all, program>>

PP == INSTANCE PipeProjet
PT == INSTANCE PipeThreads WITH Procs <- Chain, To <- [p \in Chain |-> p - 1]
FT == INSTANCE FifoTube

Pipe == program = "pipeProjet"
Threaded == program = "PIPEETTHREADS"
Tube == program = "fifotube"

Client(p) == \/ Pipe /\ p \in Procs /\ PP!Client(p) /\ UNCHANGED entry
             \/ Threaded /\ p \in Chain /\ PT!Client(p) /\ UNCHANGED entry
             \/ Tube /\ p \in Procs /\ FT!Client(p)
Server(p) == \/ Pipe /\ p \in Procs /\ PP!Server(p) /\ UNCHANGED entry
             \/ Threaded /\ p \in Chain /\ PT!Server(p) /\ UNCHANGED entry
             \/ Tube /\ p \in Procs /\ FT!Server(p)
Brain(p) == \/ Pipe /\ p \in Procs /\ PP!Brain(p) /\ UNCHANGED entry
            \/ Threaded /\ p \in Chain /\ PT!Brain(p) /\ UNCHANGED entry
            \/ Tube /\ p \in Procs /\ FT!Brain(p)
Trackers(p) == \/ Pipe /\ p \in Procs /\ PP!Tracker(p) /\ UNCHANGED entry
               \/ Threaded /\ p \in Chain /\ PT!Tracker(p) /\ UNCHANGED entry
               \/ Tube /\ p \in Procs /\ FT!Tracker(p)
Mains == \/ Pipe /\ (PP!main \/ PP!cleanup) /\ UNCHANGED entry
         \/ Threaded /\ (PT!main \/ PT!cleanup) /\ UNCHANGED entry
         \/ Tube /\ (FT!main \/ FT!cleanup)
Observer == \/ Pipe /\ PP!create_observer_process /\ UNCHANGED entry
            \/ Threaded /\ PT!create_observer_process /\ UNCHANGED entry
            \/ Tube /\ (FT!observer_process \/ FT!ObserverKilled)
Kill(p) == /\ p \in (IF Threaded THEN Chain ELSE Procs) /\ UNCHANGED <<own, entry>>
           /\ IF Threaded THEN PT!Killed(p) ELSE Killed(p)

Starts == /\ program \in {"pipeProjet", "PIPEETTHREADS", "fifotube"}
          /\ \/ Pipe /\ PP!Init /\ name = FALSE /\ struck = FALSE /\ tube = <<>>
             \/ Threaded /\ PT!Init /\ name = FALSE /\ struck = FALSE /\ tube = <<>>
             \/ Tube /\ FT!Init
Run == /\ \/ Pipe /\ PP!Next /\ UNCHANGED entry
          \/ Threaded /\ PT!Next /\ UNCHANGED entry
          \/ Tube /\ FT!Next
       /\ UNCHANGED program

Safe == Starts /\ [][Run]_everything

(* Every thread that can go on does, so does the observer, and a signal    *)
(* sent arrives; nobody has to interrupt.                                  *)
Live == /\ Safe
        /\ WF_state_of_all(Mains) /\ WF_state_of_all(Observer)
        /\ \A p \in Procs \cup Chain :
             /\ WF_state_of_all(Client(p)) /\ WF_state_of_all(Server(p))
             /\ WF_state_of_all(Brain(p)) /\ WF_state_of_all(Trackers(p))
             /\ WF_state_of_all(Kill(p))

-----------------------------------------------------------------------------
(* Bounds of the runs. *)

Interrupting == state[Main] \in {"handler", "unsure"}
NobodyEnds == killed = {} /\ ~Interrupting /\ \A x \in Procs \cup {Main} : state[x] # "ended"

(* pipe_flow: nobody ends in pipeProjet.c, main is not interrupted in      *)
(* PIPEETTHREADS.c, nobody is in fifotube.c.                               *)
Flowing ==
  /\ Pipe => NobodyEnds
  /\ Threaded => ~Interrupting
  /\ Tube => killed = {} /\ ~Interrupting /\ ~struck

(* pipe_live: in pipeProjet.c no text was sent, or there is no observer    *)
(* and nobody ends; in PIPEETTHREADS.c main is not interrupted; in         *)
(* fifotube.c nobody has connected.                                        *)
Quieter ==
  /\ Pipe => \/ \A p \in Procs : wire[p] + sem[p].receive_plein = 0 /\ pc[p].brain # "rewrite"
             \/ observer = "ended" /\ NobodyEnds
  /\ Threaded => ~Interrupting
  /\ Tube => \A p \in Procs : link[p] = "none"

-----------------------------------------------------------------------------
(* Properties *)

(* In each program the slot between server and brain has one owner: it is  *)
(* free, announced, or held through a call by the server or, in            *)
(* fifotube.c, by the tracker.                                             *)
SlotOwned == /\ Pipe => PP!PipeOK /\ PP!ReceiveSlot
             /\ Threaded => PT!PipeOK /\ PT!HandOverSlot
             /\ Tube => FT!TubeOK /\ FT!TubeSlot

(* And in pipeProjet.c two connected processes stop only when both streams *)
(* or the pipe are full: no thread is locked out by one that waits for it. *)
StuckOnlyWhenFull == SlotOwned /\ (Pipe => PP!StuckOnlyWhenFull)

(* In PIPEETTHREADS.c no text is sent, received or logged unless a process *)
(* above has ended.                                                        *)
NothingWithoutDeath == Threaded => PT!NothingWithoutDeath

(* In fifotube.c it is a tracker that ends the relay, and for good.        *)
SilencedByTracker == [][Tube => FT!SilencedByTracker]_everything

(* In pipeProjet.c, without observer, the relay stops for good, although   *)
(* every process lives: the log is no mere witness.  And what Blocked says *)
(* that the threads wait for is all that can keep them.                    *)
Running == ENABLED (\E p \in Procs : PP!create_threads(p))
NoObserverStops ==
  /\ [](Pipe => (Running <=> \E p \in Procs : Up(p) /\ ~PP!Blocked(p)))
  /\ <>[](Pipe /\ Connected /\ observer = "ended") => <>[]~Running

(* In pipeProjet.c and fifotube.c an interrupted main does not stay in its *)
(* handler, where it waits for its children to end, unless the interrupt   *)
(* came between a fork and the assignment of the pid; and the observer of  *)
(* pipeProjet.c does not outlive everyone else.                            *)
InterruptEnds ==
  []<>~(\/ ~Threaded /\ state[Main] = "handler"
        \/ Pipe /\ observer \in {"opens", "reads"} /\ \A x \in Procs \cup {Main} : ~Up(x))

(* In PIPEETTHREADS.c the end of a stream is relayed again and again, for  *)
(* whoever is below: a process whose upper neighbour has ended keeps its   *)
(* brain busy.                                                             *)
EndIsRelayed ==
  \A p, q \in Chain :
    p + 1 = q => (<>[](/\ Threaded /\ Up(p) /\ observer = "reads"
                       /\ link[q] = "accepted" /\ state[q] = "ended")
                  => []<><<PT!BrainTake(p)>>_state_of_all)

(* In fifotube.c an open that waits has its partner, or none is to come: a *)
(* process whose tracker has called open ends, or gets its pipe, or the    *)
(* observer ended or the entry was removed under it.                       *)
TubeOpens ==
  \A p \in Procs : []<>~(Tube /\ tube[p] = "waits" /\ Up(p) /\ ~FT!ObserverOver)
=============================================================================
