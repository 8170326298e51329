------------------------------ MODULE HopTrace ------------------------------
(***************************************************************************)
(* What a relay of multi2.c promises, whatever its threads, semaphores and *)
(* connections do: a process stamps at most one text, one that another     *)
(* process offers, and its stamped text reaches the observer at most       *)
(* twice.  Only the starter may offer a damaged text.                      *)
(***************************************************************************)
EXTENDS Texts, FiniteSets

VARIABLES text,  \* per process, the text it has stamped, Empty before
          trace  \* the texts handed to the observer, in order

Init == text = [p \in Procs |-> Empty] /\ trace = <<>>

(* The texts another process may get from q.                               *)
Offers(q) ==
  (IF q = Starter THEN {Greeting} ELSE {})
    \cup (IF text[q] = Empty THEN {}
          ELSE IF q = Starter THEN Cuts(text[q]) \ {Empty} ELSE {text[q]})

Relay(p) == /\ text[p] = Empty
            /\ \E q \in Procs \ {p} : \E m \in Offers(q) :
                 text' = [text EXCEPT ![p] = Stamp(m, p)]
            /\ UNCHANGED trace

Report(p) == /\ text[p] # Empty
             /\ Cardinality({i \in DOMAIN trace : trace[i] = text[p]}) < 2
             /\ trace' = Append(trace, text[p])
             /\ UNCHANGED text

Next == \E p \in Procs : Relay(p) \/ Report(p)

Spec == Init /\ [][Next]_<<text, trace>>

(* A process number occurs at most once in a text: no process gets back a  *)
(* text it has stamped and stamps it again.                                *)
VisitsOnce ==
  \A p \in Procs : \A i, j \in DOMAIN text[p].hops :
    text[p].hops[i] = text[p].hops[j] => i = j

(* The stamp of the starter and a damaged greeting exclude each other: the *)
(* damage is done after the starter has stamped, and cuts its stamp off.   *)
DamageHidesStarter ==
  \A p \in Procs : text[p].head = "bonj" =>
    /\ text[Starter] # Empty
    /\ \A i \in DOMAIN text[p].hops : text[p].hops[i] # Starter
==============================================================================
