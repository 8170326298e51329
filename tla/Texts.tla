-------------------------------- MODULE Texts --------------------------------
(***************************************************************************)
(* The texts the relaying programs pass around: "bonjour" followed by the  *)
(* numbers of the processes that appended theirs.  Of the characters only  *)
(* what the properties tell apart is kept: whether the greeting is whole,  *)
(* and the numbers that follow it.                                         *)
(***************************************************************************)
EXTENDS Integers, Sequences

CONSTANT NB_PROCESS  \* number of relaying processes

ASSUME NbProcessAssumption == NB_PROCESS \in Nat /\ NB_PROCESS >= 2

Procs == 0 .. NB_PROCESS - 1

(* The process that says "bonjour" first: pid == NB_PROCESS-1 *)
Starter == NB_PROCESS - 1

Text == [head: {"", "bonj", "bonjour"}, hops: Seq(Procs)]
Empty == [head |-> "", hops |-> <<>>]
Torn == [head |-> "bonj", hops |-> <<>>]
Greeting == [head |-> "bonjour", hops |-> <<>>]

(* sprintf("%s%d") of a text and a process number *)
Stamp(m, p) == [m EXCEPT !.hops = Append(@, p)]

(* What a C string may read as once memset and sprintf went over the same  *)
(* bytes at the same time: the text, cut at any byte.                      *)
Cuts(m) == {Empty, Torn}
             \cup {[m EXCEPT !.hops = SubSeq(@, 1, k)] : k \in 0 .. Len(m.hops)}
==============================================================================
