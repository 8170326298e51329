----------------------------- MODULE PipeThreads -----------------------------
(***************************************************************************)
(* PIPEETTHREADS.c: any number of processes with trackers, a pipe and an   *)
(* observer.  The server of process p listens where the client of p + 1    *)
(* connects, and nobody listens where the client of 1 does; yet 1 is the   *)
(* one that begins.  So texts run down to 1, whose own greeting, and all   *)
(* that it is sent, goes nowhere.                                          *)
(*                                                                         *)
(* The pids of children not forked yet are read from memory that malloc    *)
(* has not cleared; fresh from the system it is zero.                      *)
(***************************************************************************)
EXTENDS PipeObserver

Client(p) == (Connect(p) \/ ClientTake(p) \/ Send(p) \/ SendFails(p)) /\ UNCHANGED own

(* Mutant: recv does not wait (MSG_DONTWAIT).                              *)
RecvNothing(p) ==
  /\ Goto(p, "server", "recv", "take")
  /\ Recv(p) \/ UNCHANGED wire
  /\ UNCHANGED <<sem, link, broken, life>>

(* Mutant: the server stops at the end of the stream.                      *)
RecvText(p) ==
  /\ Goto(p, "server", "recv", "take")
  /\ Recv(p) /\ wire' # wire
  /\ UNCHANGED <<sem, link, broken, life>>

(* recv, into a cleared buffer: at the end of the stream the text is empty *)
RecvClear(p) ==
  /\ Goto(p, "server", "recv", "take")
  /\ Recv(p)
  /\ UNCHANGED <<sem, link, broken, life>>

(* The text is copied to the brain's slot, with nothing to block it there. *)
HandOver(p) ==
  /\ Goto(p, "server", "take", "recv")
  /\ sem[p].receive_vide > 0 /\ sem[p].receive_mutex > 0
  /\ sem' = [sem EXCEPT ![p].receive_vide = @ - 1, ![p].receive_plein = Post(@)]
  /\ UNCHANGED <<net, life>>

Server(p) == /\ Bind(p) \/ BindFails(p) \/ Accept(p, "recv") \/ RecvClear(p) \/ HandOver(p)
             /\ UNCHANGED own
Brain(p) == /\ \/ Greet(p) \/ BrainTake(p)
               \/ BrainRewrite(p, "track", {"tracker_plein"}) \/ BrainTrack(p)
            /\ UNCHANGED own

create_threads(p) == Client(p) \/ Server(p) \/ Brain(p) \/ Tracker(p)

Next == Steps \/ \E p \in Procs : create_threads(p) \/ (Killed(p) /\ UNCHANGED own)

Spec == Init /\ [][Next]_vars

-----------------------------------------------------------------------------
(* The brain's slot is free or announced, and nobody keeps a mutex but the *)
(* client and the tracker in their calls.                                  *)
HandOverSlot ==
  \A p \in Procs :
    /\ sem[p].receive_vide + sem[p].receive_plein = 1 /\ sem[p].receive_mutex = 1
    /\ sem[p].sending_mutex + Flag(pc[p].client = "send") = 1
    /\ sem[p].tracker_mutex + Flag(pc[p].tracker = "write") = 1

(* In PIPEETTHREADS.c the greeting goes nowhere: no text is sent, received *)
(* or logged unless a process above has ended; then the end of its stream  *)
(* is taken for a text.                                                    *)
NothingWithoutDeath ==
  /\ \A p \in Procs : wire[p] > 0 \/ pc[p].brain = "rewrite"
                        => \E q \in Procs : q > p /\ state[q] = "ended"
  /\ pipe > 0 => \E q \in Procs : state[q] = "ended"
=============================================================================
