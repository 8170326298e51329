------------------------------ MODULE MCMulti2 ------------------------------
(* Instances of Multi2 for TLC.                                            *)
EXTENDS Multi2, FiniteSetsExt

(* Bound of the runs with three processes: at most three connections, as   *)
(* many as a text needs to pass through all of them, or to come back to    *)
(* the starter, be damaged there and go on to the third process.           *)
MaxConns == 3
FewConnections == MapThenSumSet(LAMBDA p : Len(conns[p]), Procs) <= MaxConns

(* The processes other than the starter can be exchanged for one another:  *)
(* it is enough to look at the runs whose first connection goes to 0.      *)
ZeroFirst == \A p \in Procs \ {0, Starter} : conns[p] # <<>> => conns[0] # <<>>

(* They begin when every server already listens: the refusals before that  *)
(* are in the runs with two processes.                                     *)
ListeningSpec == InitAt("accept") /\ [][Next]_vars
ListeningFairSpec == ListeningSpec /\ Fairness
=============================================================================
