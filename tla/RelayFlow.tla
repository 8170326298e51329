------------------------------ MODULE RelayFlow ------------------------------
(***************************************************************************)
(* What two processes joined by two streams promise, whatever their        *)
(* threads do: a process that has received, be it one text or several that *)
(* have run together in the stream, owes its peer two texts; a text owed   *)
(* is sent, and nothing sent is lost as long as both live.                 *)
(***************************************************************************)
EXTENDS Naturals

VARIABLES up,    \* the processes that live
          due,   \* per process, the texts it has still to send
          wire,  \* per process, the texts it has sent and nobody received
          greeted \* process 1 has begun

Ends == {1, 2}
Peer(p) == 3 - p

Init == /\ up = Ends
        /\ due = [p \in Ends |-> 0] /\ wire = [p \in Ends |-> 0]
        /\ greeted = FALSE

(* Process 1 begins.                                                       *)
Greet ==
  /\ ~greeted /\ greeted' = TRUE
  /\ due' = [due EXCEPT ![1] = @ + 1]
  /\ UNCHANGED <<up, wire>>

Send(p) ==
  /\ p \in up /\ due[p] > 0
  /\ due' = [due EXCEPT ![p] = @ - 1]
  /\ wire' = IF Peer(p) \in up THEN [wire EXCEPT ![p] = @ + 1] ELSE wire
  /\ UNCHANGED <<up, greeted>>

(* From a peer that has ended, the text received before is received again. *)
Receive(p) ==
  /\ p \in up
  /\ \/ \E k \in 1 .. wire[Peer(p)] : wire' = [wire EXCEPT ![Peer(p)] = @ - k]
     \/ wire[Peer(p)] = 0 /\ Peer(p) \notin up /\ UNCHANGED wire
  /\ due' = [due EXCEPT ![p] = @ + 2]
  /\ UNCHANGED <<up, greeted>>

(* With a process end the texts on their way to it and those it would send.*)
End(p) ==
  /\ up' = up \ {p}
  /\ wire' = [wire EXCEPT ![Peer(p)] = 0]
  /\ due' = [due EXCEPT ![p] = 0]
  /\ greeted' = (greeted \/ p = 1)

Next == Greet \/ \E p \in Ends : Send(p) \/ Receive(p) \/ End(p)

vars == <<up, due, wire, greeted>>

Spec == Init /\ [][Next]_vars
=============================================================================
