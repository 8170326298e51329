------------------------------ MODULE FifoTube -------------------------------
(***************************************************************************)
(* fifotube.c: the relay over two lasting connections, whose trackers take *)
(* texts from the slot between server and brain, each in the brain's       *)
(* place, and write them on a named pipe that an observer process reads.   *)
(***************************************************************************)
EXTENDS StreamRelay

CONSTANTS PipeMax   \* the texts the pipe takes before write blocks

VARIABLES
  name,      \* whether the directory has an entry comm_fifo
  tube,      \* per process, what its tracker has of it: "shut", "waits" or "lost" in open, "open"
  pipe,      \* the texts on it
  observer,  \* the call the observer is before, "waits" in its open, "none" or "ended"
  struck     \* whether the observer has a SIGUSR1 to come

own == <<name, tube, pipe, observer, struck>>
vars == <<relay, own>>

(* An earlier run may have left the entry behind.                          *)
Init == /\ RelayInit /\ name \in BOOLEAN /\ tube = [p \in Procs |-> "shut"]
        /\ pipe = 0 /\ observer = "none" /\ struck = FALSE

Client(p) == (Connect(p) \/ ClientTake(p) \/ Send(p) \/ SendFails(p)) /\ UNCHANGED own
Server(p) == /\ Bind(p) \/ BindFails(p) \/ Accept(p, "take") \/ ServerTake(p) \/ Receive(p)
             /\ UNCHANGED own
Brain(p) == (Greet(p) \/ BrainTake(p) \/ BrainRewrite(p, "take", {})) /\ UNCHANGED own

Reader == observer \in {"fopen", "read"}

(* Mutant: the tracker opens the pipe for reading too.                     *)
TrackerOpenReads(p) ==
  /\ Up(p) /\ tube[p] = "shut"
  /\ IF name THEN /\ tube' = [tube EXCEPT ![p] = "waits"]
                  /\ UNCHANGED <<relay, name, pipe, observer, struck>>
             ELSE Ends(p) /\ killed' = killed \ {p} /\ UNCHANGED own

(* open blocks until the other side opens the same pipe.                   *)
TrackerOpen(p) ==
  /\ Up(p) /\ tube[p] = "shut"
  /\ IF name THEN /\ tube' = [tube EXCEPT ![p] =
                        IF Reader \/ observer = "waits" THEN "open" ELSE "waits"]
                  /\ observer' = IF observer = "waits" THEN "fopen" ELSE observer
                  /\ UNCHANGED <<relay, name, pipe, struck>>
             ELSE Ends(p) /\ killed' = killed \ {p} /\ UNCHANGED own

TrackerTakesSlot(p) ==
  /\ tube[p] = "open" /\ Goto(p, "tracker", "take", "write")
  /\ SemWait(p, {"receive_plein", "receive_mutex"})
  /\ UNCHANGED <<net, life, own>>

(* write holds receive_mutex, also while the pipe is full.  A text is      *)
(* empty, and nothing written, if the stream ended before it began.        *)
TrackerWrite(p) ==
  /\ Goto(p, "tracker", "write", "take")
  /\ \/ Reader /\ pipe < PipeMax /\ pipe' = pipe + 1
     \/ (\E q \in Into(p) : ~Up(q)) /\ UNCHANGED pipe
  /\ SemPost(p, {"receive_mutex", "receive_vide"})
  /\ UNCHANGED <<net, life, name, tube, observer, struck>>

(* Without a reader, SIGPIPE.                                              *)
TrackerFails(p) ==
  /\ Up(p) /\ pc[p].tracker = "write" /\ ~Reader
  /\ Ends(p) /\ killed' = killed \ {p} /\ UNCHANGED own

Tracker(p) == TrackerOpen(p) \/ TrackerTakesSlot(p) \/ TrackerWrite(p) \/ TrackerFails(p)

create_threads(p) == Client(p) \/ Server(p) \/ Brain(p) \/ Tracker(p)

-----------------------------------------------------------------------------
ObserverEnds == observer' = "ended" /\ struck' = FALSE

ForkObserver ==
  /\ state[Main] = "runs" /\ observer = "none"
  /\ \/ /\ observer' = "mkfifo" /\ state' = [state EXCEPT ![Main] = "forked"]
        /\ UNCHANGED <<sem, pc, net, killed>>
     \/ Ends(Main) /\ UNCHANGED <<killed, observer>>
  /\ UNCHANGED <<name, tube, pipe, struck>>

ObserverOver == observer = "ended"

main == \/ ForkObserver
        \/ observer # "none" /\ (ForkFails \/ Record \/ \E p \in Procs : Fork(p)) /\ UNCHANGED own
        \/ ObserverOver /\ MainReturns /\ UNCHANGED own

Waiting == {p \in Procs : Up(p) /\ tube[p] = "waits"}

(* It reads for ever, also when nobody is left to write.                   *)
observer_process ==
  /\ \/ /\ observer = "mkfifo" /\ observer' = "open" /\ name' = TRUE
        /\ UNCHANGED <<tube, pipe, struck>>
     \/ /\ observer = "open" /\ name
        /\ observer' = IF Waiting = {} THEN "waits" ELSE "fopen"
        /\ tube' = [p \in Procs |-> IF p \in Waiting THEN "open" ELSE tube[p]]
        /\ UNCHANGED <<name, pipe, struck>>
     \/ /\ observer = "open" /\ ~name
        /\ ObserverEnds /\ UNCHANGED <<name, tube, pipe>>
     \/ /\ observer = "fopen"
        /\ \/ observer' = "read" /\ UNCHANGED struck
           \/ ObserverEnds
        /\ UNCHANGED <<name, tube, pipe>>
     \/ /\ observer = "read" /\ \E k \in 1 .. pipe : pipe' = pipe - k
        /\ UNCHANGED <<name, tube, observer, struck>>
  /\ UNCHANGED relay

(* unlink: who waits in an open before the observer's will not meet it on  *)
(* the pipe that mkfifo makes afterwards.                                  *)
Unlink == /\ name' = FALSE
          /\ tube' = [p \in Procs |-> IF tube[p] = "waits" THEN "lost" ELSE tube[p]]

ObserverLives == observer \notin {"none", "ended"}

(* The observer was forked first and knows no pid.                         *)
signal_handler ==
  \/ /\ \E x \in Procs \cup {Main} :
          /\ Interrupted(x, IF x = Main THEN Known ELSE {q \in Procs : q < x})
          /\ IF x = Main THEN UNCHANGED <<name, tube>> ELSE Unlink
     /\ struck' = (ObserverLives /\ (state[Main] = "forked" => Forked # {}))
     /\ UNCHANGED <<pipe, observer>>
  \/ ObserverLives /\ ObserverEnds /\ Unlink /\ UNCHANGED <<relay, pipe>>

(* What main waits for in the handler, beside the observer: in place of a  *)
(* 2 that it does not know, waitpid(0) may return the observer.            *)
Waited == IF state[Main] = "unsure" THEN Forked \ {2} ELSE Forked

(* Main's; the children's is in the handler above.                         *)
cleanup == /\ observer \in {"none", "ended"} /\ HandlerExits(Waited) /\ Unlink
           /\ UNCHANGED <<pipe, observer, struck>>

ObserverKilled == struck /\ ObserverEnds /\ UNCHANGED <<relay, name, tube, pipe>>

Next == \/ main \/ cleanup \/ observer_process \/ signal_handler \/ ObserverKilled
        \/ \E p \in Procs : create_threads(p) \/ (Killed(p) /\ UNCHANGED own)

Spec == Init /\ [][Next]_vars

-----------------------------------------------------------------------------
(* Properties *)

(* The values of the variables that only this program has.                 *)
TubeOK == /\ TypeOK /\ name \in BOOLEAN /\ struck \in BOOLEAN /\ pipe \in 0 .. PipeMax
          /\ tube \in [Procs -> {"shut", "waits", "lost", "open"}]
          /\ observer \in {"none", "mkfifo", "open", "waits", "fopen", "read", "ended"}

(* The slot goes to the brain or to the tracker, who holds it and its      *)
(* mutex while the pipe is full: then the server does not receive either.  *)
TubeSlot ==
  \A p \in Procs :
    /\ sem[p].receive_vide + sem[p].receive_plein
       + Flag(pc[p].server = "recv") + Flag(pc[p].tracker = "write") = 1
    /\ sem[p].receive_mutex + Flag(pc[p].server = "recv") + Flag(pc[p].tracker = "write") = 1

Greeted == pc[Starter].brain # "greet"
Silent == \A p \in Procs : Due(p) + wire[p] = 0
Relaying == Greeted /\ Connected /\ Connected'

(* Between connected processes the last text is lost to a tracker, and to  *)
(* nobody else; and once it is lost nothing is ever relayed again.         *)
OnlyTrackerSilences ==
  Relaying /\ ~Silent /\ Silent' => \E p \in Procs : TrackerTakesSlot(p)
SilenceStays == Relaying /\ Silent => Silent'
SilencedByTracker == OnlyTrackerSilences /\ SilenceStays
=============================================================================
