--------------------------- MODULE BoundedChannel ---------------------------
(***************************************************************************)
(* What a bounded buffer promises to its two ends: the characters of a     *)
(* message come out in the order they went in, none lost, none twice, with *)
(* never more than N of them on the way.                                   *)
(***************************************************************************)
EXTENDS Naturals, Sequences

CONSTANTS N,       \* places of the buffer
          Message  \* the characters to send

VARIABLES queue,    \* the characters on the way, the oldest first
          received  \* the characters that have arrived

Init == queue = <<>> /\ received = <<>>

Sent == Len(received) + Len(queue)

Put == /\ Sent < Len(Message)
       /\ Len(queue) < N
       /\ queue' = Append(queue, Message[Sent + 1])
       /\ UNCHANGED received

Get == /\ queue # <<>>
       /\ queue' = Tail(queue)
       /\ received' = Append(received, Head(queue))

Next == Put \/ Get

Spec == Init /\ [][Next]_<<queue, received>>
=============================================================================
