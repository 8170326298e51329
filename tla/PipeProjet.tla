----------------------------- MODULE PipeProjet ------------------------------
(***************************************************************************)
(* pipeProjet.c: the relay over two lasting connections, with trackers, a  *)
(* pipe and an observer.                                                   *)
(***************************************************************************)
EXTENDS PipeObserver

Client(p) == (Connect(p) \/ ClientTake(p) \/ Send(p) \/ SendFails(p)) /\ UNCHANGED own
Server(p) == /\ Bind(p) \/ BindFails(p) \/ Accept(p, "take") \/ ServerTake(p) \/ Receive(p)
             /\ UNCHANGED own
Brain(p) == /\ \/ Greet(p) \/ BrainTake(p)
               \/ BrainRewrite(p, "track", {"tracker_plein"}) \/ BrainTrack(p)
            /\ UNCHANGED own

create_threads(p) == Client(p) \/ Server(p) \/ Brain(p) \/ Tracker(p)

Next == Steps \/ \E p \in Procs : create_threads(p) \/ (Killed(p) /\ UNCHANGED own)

Spec == Init /\ [][Next]_vars

-----------------------------------------------------------------------------
(* Properties *)

(* No thread of process p can go on: what each of them waits for.          *)
Blocked(p) ==
  /\ \/ pc[p].client = "connect" /\ ~Listening(To[p])
     \/ pc[p].client = "take" /\ (sem[p].sending_plein = 0 \/ sem[p].sending_mutex = 0)
     \/ pc[p].client = "send" /\ Up(To[p]) /\ wire[p] = Stream /\ ~broken[p]
  /\ \/ pc[p].server = "accept" /\ \A q \in Into(p) : link[q] # "queued"
     \/ pc[p].server = "take" /\ (sem[p].receive_vide = 0 \/ sem[p].receive_mutex = 0)
     \/ pc[p].server = "recv" /\ \A q \in Into(p) : wire[q] = 0 /\ Up(q)
  /\ \/ pc[p].brain = "take" /\ (sem[p].receive_plein = 0 \/ sem[p].receive_mutex = 0)
     \/ pc[p].brain = "rewrite" /\ sem[p].sending_mutex = 0
     \/ pc[p].brain = "track" /\ sem[p].tracker_mutex = 0
  /\ \/ pc[p].tracker = "take" /\ (sem[p].tracker_plein = 0 \/ sem[p].tracker_mutex = 0)
     \/ pc[p].tracker = "write" /\ pipe = PipeMax

(* Two connected processes stop only when both streams or the pipe are     *)
(* full: no thread is locked out by one that waits for it.                 *)
StuckOnlyWhenFull ==
  Connected /\ (\A p \in Procs : Blocked(p)) => BothFull \/ pipe = PipeMax
=============================================================================
