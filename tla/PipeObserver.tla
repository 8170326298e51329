---------------------------- MODULE PipeObserver -----------------------------
(***************************************************************************)
(* What pipeProjet.c and PIPEETTHREADS.c share beside the relay: trackers  *)
(* that write what they are told on a pipe, which an observer process      *)
(* copies to log.txt.  Main and the relaying processes keep the read end   *)
(* of the pipe open too: without an observer, write does not fail, it      *)
(* blocks when the pipe is full, with tracker_mutex in the tracker's hands.*)
(***************************************************************************)
EXTENDS StreamRelay

CONSTANTS PipeMax   \* the texts the pipe takes before write blocks

ASSUME PipeMaxAssumption == PipeMax \in Nat \ {0}

VARIABLES pipe,      \* the texts on the pipe
          observer   \* "none" before its fork, "opens" and then "reads" its files, "ended"

own == <<pipe, observer>>
vars == <<relay, own>>

Init == RelayInit /\ pipe = 0 /\ observer = "none"

TrackerWrite(p) ==
  /\ TrackerDone(p, {})
  /\ pipe < PipeMax /\ pipe' = pipe + 1
  /\ UNCHANGED observer

Tracker(p) == (TrackerTake(p) /\ UNCHANGED own) \/ TrackerWrite(p)

(* create_observer_process in main; a fork that fails is only reported.    *)
ForkObserver ==
  /\ state[Main] = "runs" /\ Forked = Procs /\ observer = "none"
  /\ observer' \in {"opens", "ended"}
  /\ UNCHANGED <<relay, pipe>>

main == \/ (ForkFails \/ Record \/ \E p \in Procs : Fork(p)) /\ UNCHANGED own
        \/ ForkObserver
        \/ observer # "none" /\ MainReturns /\ UNCHANGED own

(* Mutant: the observer keeps its own write end of the pipe.               *)
WritersObserver == {x \in Procs \cup {Main} : Up(x) \/ observer # "ended"}

Writers == {x \in Procs \cup {Main} : Up(x)}

(* The observer proper: log.txt is opened, or not; what is on the pipe is  *)
(* read, until nobody is left to write.                                    *)
create_observer_process ==
  /\ \/ observer = "opens" /\ observer' \in {"reads", "ended"} /\ UNCHANGED pipe
     \/ /\ observer = "reads" /\ UNCHANGED observer
        /\ \E k \in 1 .. pipe : pipe' = pipe - k
     \/ /\ observer = "reads" /\ pipe = 0 /\ Writers = {}
        /\ observer' = "ended" /\ UNCHANGED pipe
  /\ UNCHANGED relay

(* signal_handler: the observer too has inherited it, with both pids.      *)
signal_handler ==
  \/ /\ \E x \in Procs \cup {Main} :
          Interrupted(x, IF x = Main THEN Known ELSE {q \in Procs : q < x})
     /\ UNCHANGED own
  \/ /\ observer \in {"opens", "reads"} /\ observer' = "ended"
     /\ killed' = killed \cup {p \in Procs : Up(p)}
     /\ UNCHANGED <<sem, pc, net, state, pipe>>

cleanup == HandlerExits(Forked) /\ UNCHANGED own

Steps == main \/ cleanup \/ create_observer_process \/ signal_handler

-----------------------------------------------------------------------------
(* The values of the variables that only these programs have.              *)
PipeOK == TypeOK /\ pipe \in 0 .. PipeMax /\ observer \in {"none", "opens", "reads", "ended"}
=============================================================================
