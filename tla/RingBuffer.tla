----------------------------- MODULE RingBuffer ------------------------------
(***************************************************************************)
(* TP2.c: one thread puts the characters of a message into a ring of       *)
(* taille cells, another takes them out.  Each counts its own turns, and   *)
(* only after it has posted its semaphores.                                *)
(*                                                                         *)
(* chaineRecue is malloced with taille + 1 bytes and gets a byte per turn; *)
(* here it has as many as are written.                                     *)
(***************************************************************************)
EXTENDS Naturals, Sequences

CONSTANTS taille,  \* cells of the ring
          nbTour   \* characters of the message, named by their position

chaineAEnvoyer == [i \in 1 .. nbTour |-> i]
Free == 0

VARIABLES plein, vide, mutex, bufferCommun, tourProd, tourCons, chaineRecue,
          producteur, consomateur  \* before "P", before "V", before "++", or "joined"

sems == <<plein, vide, mutex>>
prod == <<tourProd, producteur>>
cons == <<tourCons, chaineRecue, consomateur>>
vars == <<sems, bufferCommun, prod, cons>>

Init == /\ plein = 0 /\ vide = taille /\ mutex = 1
        /\ bufferCommun = [i \in 0 .. taille - 1 |-> Free]
        /\ tourProd = 0 /\ tourCons = 0
        /\ chaineRecue = [i \in 1 .. nbTour |-> Free]
        /\ producteur = "P" /\ consomateur = "P"

-----------------------------------------------------------------------------
(* Mutant: the producer does not wait for a free cell.                     *)
placerToujours ==
  /\ producteur = "P" /\ tourProd < nbTour /\ mutex > 0
  /\ mutex' = mutex - 1 /\ UNCHANGED <<plein, vide>>
  /\ bufferCommun' = [bufferCommun EXCEPT ![tourProd % taille] = chaineAEnvoyer[tourProd + 1]]
  /\ producteur' = "V" /\ UNCHANGED <<tourProd, cons>>

placer ==
  /\ producteur = "P" /\ tourProd < nbTour /\ vide > 0 /\ mutex > 0
  /\ vide' = vide - 1 /\ mutex' = mutex - 1 /\ UNCHANGED plein
  /\ bufferCommun' = [bufferCommun EXCEPT ![tourProd % taille] = chaineAEnvoyer[tourProd + 1]]
  /\ producteur' = "V" /\ UNCHANGED <<tourProd, cons>>

ProducteurV ==
  /\ producteur = "V" /\ producteur' = "++"
  /\ mutex' = mutex + 1 /\ plein' = plein + 1
  /\ UNCHANGED <<vide, bufferCommun, tourProd, cons>>

ProducteurTour ==
  /\ producteur = "++" /\ producteur' = "P"
  /\ tourProd' = tourProd + 1
  /\ UNCHANGED <<sems, bufferCommun, cons>>

prendre ==
  /\ consomateur = "P" /\ tourCons < nbTour /\ plein > 0 /\ mutex > 0
  /\ plein' = plein - 1 /\ mutex' = mutex - 1 /\ UNCHANGED vide
  /\ chaineRecue' = [chaineRecue EXCEPT ![tourCons + 1] = bufferCommun[tourCons % taille]]
  /\ consomateur' = "V" /\ UNCHANGED <<bufferCommun, tourCons, prod>>

ConsomateurV ==
  /\ consomateur = "V" /\ consomateur' = "++"
  /\ mutex' = mutex + 1 /\ vide' = vide + 1
  /\ UNCHANGED <<plein, bufferCommun, tourCons, chaineRecue, prod>>

ConsomateurTour ==
  /\ consomateur = "++" /\ consomateur' = "P"
  /\ tourCons' = tourCons + 1
  /\ UNCHANGED <<sems, bufferCommun, chaineRecue, prod>>

(* pthread_join of the one, then of the other, and the end.                *)
main ==
  /\ \/ producteur = "P" /\ tourProd = nbTour
        /\ producteur' = "joined" /\ UNCHANGED consomateur
     \/ producteur = "joined" /\ consomateur = "P" /\ tourCons = nbTour
        /\ consomateur' = "joined" /\ UNCHANGED producteur
  /\ UNCHANGED <<sems, bufferCommun, tourProd, tourCons, chaineRecue>>

Producteur == placer \/ ProducteurV \/ ProducteurTour
Consomateur == prendre \/ ConsomateurV \/ ConsomateurTour

Next == Producteur \/ Consomateur \/ main

Spec == Init /\ [][Next]_vars

-----------------------------------------------------------------------------
(* Properties *)

(* The values of every variable.                                           *)
TypeOK ==
  /\ plein \in 0 .. taille /\ vide \in 0 .. taille /\ mutex \in 0 .. 1
  /\ bufferCommun \in [0 .. taille - 1 -> 0 .. nbTour]
  /\ tourProd \in 0 .. nbTour /\ tourCons \in 0 .. nbTour
  /\ chaineRecue \in [1 .. nbTour -> 0 .. nbTour]
  /\ producteur \in {"P", "V", "++", "joined"} /\ consomateur \in {"P", "V", "++", "joined"}

Flag(b) == IF b THEN 1 ELSE 0
Placed == tourProd + Flag(producteur \in {"V", "++"})
Taken == tourCons + Flag(consomateur \in {"V", "++"})

(* The semaphores are exact although both counters lag behind them: plein  *)
(* is what is placed and not taken, but for the one that is announced.     *)
Counts ==
  /\ plein = Placed - Taken - Flag(producteur = "V")
  /\ vide = taille - (Placed - Taken) - Flag(consomateur = "V")
  /\ mutex = 1 - Flag(producteur = "V") - Flag(consomateur = "V")

(* The ring is a bounded first-in first-out channel, from the character    *)
(* not taken yet to the last one placed.                                   *)
Queue == [i \in 1 .. Placed - Taken |-> bufferCommun[(Taken + i - 1) % taille]]
Received == SubSeq(chaineRecue, 1, Taken)
Channel == INSTANCE BoundedChannel WITH
  N <- taille, Message <- chaineAEnvoyer, queue <- Queue, received <- Received
IsChannel == Channel!Spec
=============================================================================
