------------------------------ MODULE ProdCons ------------------------------
(***************************************************************************)
(* prodcons.c: the main thread produces the characters of a message into a *)
(* buffer of N cells, a second thread consumes them; the semaphores plein, *)
(* vide and mutex keep them in step.  The buffer is a shift register: the  *)
(* producer fills the free cell with the highest number, the consumer      *)
(* takes cell N and moves the others up by one, a cell at a time.          *)
(*                                                                         *)
(* The two writes of addElement and the loop of getElement are separate    *)
(* steps, so that a missing or misplaced semaphore shows.                  *)
(***************************************************************************)
EXTENDS Integers, Sequences

CONSTANTS N,       \* cells of the buffer (prodcons.c:18)
          Message, \* chaineAEnvoyer, as strlen sees it
          Blank    \* what a cell or a place of chaineRecue holds at first

ASSUME SizeAssumption == N \in 1 .. 127  \* the count is kept in a signed char
ASSUME MessageAssumption == Message \in Seq(STRING) /\ Blank \in STRING

nombreDeTours == Len(Message)

VARIABLES plein, vide, mutex,
          cells,           \* bufferCommun[1..N]
          nbElem,          \* bufferCommun[0]
          tourProducteur, tourConsommateur,
          chaineRecue,
          producteur, consommateur,  \* where the two threads are
          caractere, index,          \* locals of getElement
          libere           \* main has destroyed the semaphores and freed the buffer

producteurVars == <<tourProducteur, producteur>>
consommateurVars == <<tourConsommateur, chaineRecue, consommateur, caractere, index>>
vars == <<plein, vide, mutex, cells, nbElem, producteurVars, consommateurVars, libere>>

(* main tests pthread_create for -1, which it never returns: when there is *)
(* no second thread the program goes on without.                           *)
Init ==
  /\ plein = 0 /\ vide = N /\ mutex = 1
  /\ cells = [i \in 1 .. N |-> Blank] /\ nbElem = 0
  /\ tourProducteur = 0 /\ tourConsommateur = 0
  /\ chaineRecue = [i \in 1 .. nombreDeTours |-> Blank]
  /\ producteur = "P" /\ consommateur \in {"P", "absent"}
  /\ caractere = Blank /\ index = N
  /\ libere = FALSE

-----------------------------------------------------------------------------
(* Mutant: the mutex is forgotten.                                         *)
ProducteurPlaceSansMutex ==
  /\ producteur = "P" /\ tourProducteur < nombreDeTours
  /\ vide > 0
  /\ vide' = vide - 1 /\ UNCHANGED mutex
  /\ cells' = [cells EXCEPT ![N - nbElem] = Message[tourProducteur + 1]]
  /\ producteur' = "compte"
  /\ UNCHANGED <<plein, nbElem, tourProducteur, consommateurVars, libere>>

(* P(vide), P(mutex) and the first write of addElement                     *)
ProducteurPlace ==
  /\ producteur = "P" /\ tourProducteur < nombreDeTours
  /\ vide > 0 /\ mutex > 0
  /\ vide' = vide - 1 /\ mutex' = mutex - 1
  /\ cells' = [cells EXCEPT ![N - nbElem] = Message[tourProducteur + 1]]
  /\ producteur' = "compte"
  /\ UNCHANGED <<plein, nbElem, tourProducteur, consommateurVars, libere>>

(* The count of addElement, V(mutex), V(plein)                             *)
ProducteurCompte ==
  /\ producteur = "compte"
  /\ nbElem' = nbElem + 1
  /\ mutex' = mutex + 1 /\ plein' = plein + 1
  /\ tourProducteur' = tourProducteur + 1
  /\ producteur' = "P"
  /\ UNCHANGED <<vide, cells, consommateurVars, libere>>

(* P(plein), P(mutex) and the character getElement will return             *)
ConsommateurPrend ==
  /\ consommateur = "P" /\ tourConsommateur < nombreDeTours
  /\ plein > 0 /\ mutex > 0
  /\ plein' = plein - 1 /\ mutex' = mutex - 1
  /\ caractere' = cells[N] /\ index' = N
  /\ consommateur' = "decale"
  /\ UNCHANGED <<vide, cells, nbElem, tourConsommateur, chaineRecue, producteurVars, libere>>

(* One turn of the loop of getElement                                      *)
ConsommateurDecale ==
  /\ consommateur = "decale" /\ index > 1
  /\ cells' = [cells EXCEPT ![index] = cells[index - 1]]
  /\ index' = index - 1
  /\ UNCHANGED <<plein, vide, mutex, nbElem, tourConsommateur, chaineRecue, consommateur,
                 caractere, producteurVars, libere>>

(* The count of getElement, the place in chaineRecue, V(mutex), V(vide)    *)
ConsommateurRange ==
  /\ consommateur = "decale" /\ index = 1
  /\ nbElem' = nbElem - 1
  /\ chaineRecue' = [chaineRecue EXCEPT ![tourConsommateur + 1] = caractere]
  /\ mutex' = mutex + 1 /\ vide' = vide + 1
  /\ tourConsommateur' = tourConsommateur + 1
  /\ consommateur' = "P"
  /\ UNCHANGED <<plein, cells, caractere, index, producteurVars, libere>>

ConsommateurFini == consommateur = "P" /\ tourConsommateur = nombreDeTours

(* Mutant: main does not wait for the consumer.                            *)
MainLibereSansJoin ==
  /\ producteur = "P" /\ tourProducteur = nombreDeTours
  /\ ~libere /\ libere' = TRUE
  /\ UNCHANGED <<plein, vide, mutex, cells, nbElem, producteurVars, consommateurVars>>

(* pthread_join, then the destruction of all that was shared; without a    *)
(* second thread there is no join that returns.                            *)
MainLibere ==
  /\ producteur = "P" /\ tourProducteur = nombreDeTours
  /\ ConsommateurFini
  /\ ~libere /\ libere' = TRUE
  /\ UNCHANGED <<plein, vide, mutex, cells, nbElem, producteurVars, consommateurVars>>

Producteur == ProducteurPlace \/ ProducteurCompte \/ MainLibere
Consommateur == ConsommateurPrend \/ ConsommateurDecale \/ ConsommateurRange

Next == Producteur \/ Consommateur

Spec == Init /\ [][Next]_vars

-----------------------------------------------------------------------------
(* The values of every variable, and the bounds of the cells used.         *)
TypeOK ==
  /\ plein \in 0 .. N /\ vide \in 0 .. N /\ mutex \in 0 .. 1
  /\ cells \in [1 .. N -> STRING]
  /\ nbElem \in 0 .. N
  /\ tourProducteur \in 0 .. nombreDeTours - (IF producteur = "compte" THEN 1 ELSE 0)
  /\ tourConsommateur \in 0 .. nombreDeTours
  /\ chaineRecue \in [1 .. nombreDeTours -> STRING]
  /\ producteur \in {"P", "compte"}
  /\ consommateur \in {"P", "decale", "absent"}
  /\ caractere \in STRING /\ index \in 1 .. N
  /\ libere \in BOOLEAN

Placing == IF producteur = "compte" THEN 1 ELSE 0
Taking == IF consommateur = "decale" THEN 1 ELSE 0

(* The semaphores count the cells: plein the characters nobody is taking,  *)
(* vide the cells nobody is filling, mutex the threads outside the buffer. *)
Counts ==
  /\ mutex + Placing + Taking = 1
  /\ nbElem = plein + Taking
  /\ plein + vide + Placing + Taking = N
  /\ nbElem = tourProducteur - tourConsommateur

(* addElement writes to a cell of the buffer, never over the count before  *)
(* it: the producer is at the buffer only while a cell is free.            *)
RoomToPlace == producteur = "compte" => nbElem < N

(* The buffer and the semaphores are destroyed only after the last         *)
(* character has been received, and nobody is using them then.             *)
FreedWhenDelivered ==
  libere => chaineRecue = Message /\ plein = 0 /\ vide = N /\ mutex = 1

(* The buffer is a bounded first-in first-out channel.  The i-th character *)
(* on the way is in cell N+1-i, or still one below while getElement has to *)
(* move it: its loop has done the cells above index.                       *)
Place(i) == IF consommateur = "decale" /\ N + 1 - i <= index THEN N - i ELSE N + 1 - i
Queue == [i \in 1 .. nbElem - Taking |-> cells[Place(i)]]
Received == SubSeq(chaineRecue, 1, tourConsommateur)
              \o (IF Taking = 1 THEN <<caractere>> ELSE <<>>)

Channel == INSTANCE BoundedChannel WITH queue <- Queue, received <- Received
IsChannel == Channel!Spec

(* If the consumer exists, the whole message arrives and the program ends. *)
Delivers == []<>(consommateur = "absent" \/ libere)
=============================================================================
