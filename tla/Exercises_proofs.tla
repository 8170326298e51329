-------------------------- MODULE Exercises_proofs --------------------------
(***************************************************************************)
(* Theorems about the smaller programs.  The three buffers, those of       *)
(* prodcons.c, TP2.c and TP1.c, keep every character in its place and are  *)
(* bounded first-in first-out channels, for any size of the buffer and any *)
(* length of the message; tp_project.c, TP3.c and TP6_server.c have the    *)
(* safety properties of Exercises, for any size, text and clients.         *)
(***************************************************************************)
EXTENDS Exercises, SequenceTheorems, TLAPS

-----------------------------------------------------------------------------
(* Parts of a message *)

(* The k characters of the message M that follow the first a               *)
Part(M, a, k) == [x \in 1 .. k |-> M[a + x]]

(* It is a sequence of that length.                                        *)
LEMMA PartIsSequence ==
  ASSUME NEW S, NEW M \in Seq(S), NEW a \in Nat, NEW k \in Nat, a + k <= Len(M)
  PROVE  Part(M, a, k) \in Seq(S) /\ Len(Part(M, a, k)) = k
<1>1. Len(M) \in Nat
  BY LenProperties
<1>2. \A x \in 1 .. k : M[a + x] \in S
  BY <1>1, ElementOfSeq
<1>3. Part(M, a, k) \in [1 .. k -> S]
  BY <1>2 DEF Part
<1> QED BY <1>3, SeqDef, LenProperties

(* One character more at the end, as Put does                              *)
LEMMA PartGrows ==
  ASSUME NEW S, NEW M \in Seq(S), NEW a \in Nat, NEW k \in Nat, a + k < Len(M)
  PROVE  Part(M, a, k + 1) = Append(Part(M, a, k), M[a + k + 1])
<1>1. Len(M) \in Nat
  BY LenProperties
<1>2. /\ Part(M, a, k) \in Seq(S) /\ Len(Part(M, a, k)) = k
      /\ Part(M, a, k + 1) \in Seq(S) /\ Len(Part(M, a, k + 1)) = k + 1
  BY <1>1, PartIsSequence
<1> QED BY <1>2 DEF Part

(* One character less at the front, as Get does                            *)
LEMMA PartShrinks ==
  ASSUME NEW S, NEW M \in Seq(S), NEW a \in Nat, NEW k \in Nat \ {0}, a + k <= Len(M)
  PROVE  /\ Part(M, a, k) # <<>>
         /\ Head(Part(M, a, k)) = M[a + 1]
         /\ Tail(Part(M, a, k)) = Part(M, a + 1, k - 1)
<1>1. Part(M, a, k) \in Seq(S) /\ Len(Part(M, a, k)) = k
  BY PartIsSequence
<1>2. Part(M, a + 1, k - 1) \in Seq(S) /\ Len(Part(M, a + 1, k - 1)) = k - 1
  <2>1. a + 1 \in Nat /\ k - 1 \in Nat /\ (a + 1) + (k - 1) <= Len(M)
    BY LenProperties
  <2> QED BY <2>1, PartIsSequence
<1>3. Part(M, a, k) # <<>>
  BY <1>1
<1>4. \A x \in 1 .. k - 1 : Tail(Part(M, a, k))[x] = Part(M, a + 1, k - 1)[x]
  BY <1>1 DEF Part
<1>5. Tail(Part(M, a, k)) \in Seq(S) /\ Len(Tail(Part(M, a, k))) = k - 1
  BY <1>1, <1>3, HeadTailProperties
<1>6. Tail(Part(M, a, k)) = Part(M, a + 1, k - 1)
  BY <1>2, <1>4, <1>5, SeqEqual
<1>7. Head(Part(M, a, k)) = M[a + 1]
  BY <1>1 DEF Part
<1> QED BY <1>3, <1>6, <1>7

(* What Put and Get of the channel do to the part k that is on its way     *)
(* after the a characters that have arrived                                *)
LEMMA PutPart ==
  ASSUME NEW S, NEW M \in Seq(S), NEW a \in Nat, NEW k \in Nat, a + k < Len(M)
  PROVE  /\ Len(Part(M, 0, a)) = a /\ Len(Part(M, a, k)) = k
         /\ Part(M, a, k + 1)
              = Append(Part(M, a, k), M[Len(Part(M, 0, a)) + Len(Part(M, a, k)) + 1])
<1>1. Len(Part(M, a, k)) = k
  <2>1. a + k <= Len(M)
    BY LenProperties
  <2> QED BY <2>1, PartIsSequence
<1>2. Len(Part(M, 0, a)) = a
  <2>1. 0 \in Nat /\ 0 + a <= Len(M)
    BY LenProperties
  <2> QED BY <2>1, PartIsSequence
<1>3. Part(M, a, k + 1) = Append(Part(M, a, k), M[a + k + 1])
  BY PartGrows
<1> QED BY <1>1, <1>2, <1>3

(* To read the first message of a part leaves the rest of it, and          *)
(* lengthens what was read before by that message.                         *)
LEMMA GetPart ==
  ASSUME NEW S, NEW M \in Seq(S), NEW a \in Nat, NEW k \in Nat \ {0}, a + k <= Len(M)
  PROVE  /\ Part(M, a, k) # <<>>
         /\ Part(M, a + 1, k - 1) = Tail(Part(M, a, k))
         /\ Part(M, 0, a + 1) = Append(Part(M, 0, a), Head(Part(M, a, k)))
<1>1. Part(M, 0, a + 1) = Append(Part(M, 0, a), M[a + 1])
  <2>1. 0 \in Nat /\ 0 + a < Len(M)
    BY LenProperties
  <2>2. Part(M, 0, a + 1) = Append(Part(M, 0, a), M[0 + a + 1])
    BY <2>1, PartGrows
  <2> QED BY <2>2
<1>2. /\ Part(M, a, k) # <<>> /\ Head(Part(M, a, k)) = M[a + 1]
      /\ Tail(Part(M, a, k)) = Part(M, a + 1, k - 1)
  BY PartShrinks
<1> QED BY <1>1, <1>2

-----------------------------------------------------------------------------
(* prodcons.c *)

(* The message has a length.                                               *)
LEMMA MessageLength == nombreDeTours \in Nat
BY MessageAssumption, LenProperties DEF nombreDeTours

(* The variables have their types and the semaphores count the cells; the  *)
(* two are proved together, each keeps the other within its bounds.        *)
THEOREM TypeAndCounts == Spec => [](TypeOK /\ Counts)
<1> USE SizeAssumption, MessageLength DEF Placing, Taking, producteurVars, consommateurVars
<1>1. Init => TypeOK /\ Counts
  <2> SUFFICES ASSUME Init PROVE TypeOK /\ Counts
    OBVIOUS
  <2>1. TypeOK
    <3>1. plein \in 0 .. N /\ vide \in 0 .. N /\ mutex \in 0 .. 1 /\ nbElem \in 0 .. N
      BY DEF Init
    <3>2. cells \in [1 .. N -> STRING] /\ chaineRecue \in [1 .. nombreDeTours -> STRING]
      BY MessageAssumption DEF Init
    <3>3. /\ tourProducteur \in 0 .. nombreDeTours - (IF producteur = "compte" THEN 1 ELSE 0)
          /\ tourConsommateur \in 0 .. nombreDeTours
      BY DEF Init
    <3>4. /\ producteur \in {"P", "compte"} /\ consommateur \in {"P", "decale", "absent"}
          /\ caractere \in STRING /\ index \in 1 .. N
      BY MessageAssumption DEF Init
    <3>5. libere \in BOOLEAN
      BY DEF Init
    <3> QED BY <3>1, <3>2, <3>3, <3>4, <3>5 DEF TypeOK
  <2>2. Counts
    BY DEF Init, Counts
  <2> QED BY <2>1, <2>2
<1>2. TypeOK /\ Counts /\ [Next]_vars => (TypeOK /\ Counts)'
  <2> SUFFICES ASSUME TypeOK, Counts, [Next]_vars PROVE (TypeOK /\ Counts)'
    OBVIOUS
  <2> USE DEF TypeOK, Counts
  <2>1. CASE UNCHANGED vars
    BY <2>1 DEF vars
  <2>2. CASE ProducteurPlace
    <3>1. Message[tourProducteur + 1] \in STRING
      BY <2>2, MessageAssumption, ElementOfSeq DEF ProducteurPlace, nombreDeTours
    <3> QED BY <2>2, <3>1 DEF ProducteurPlace
  <2>3. CASE ProducteurCompte
    BY <2>3 DEF ProducteurCompte
  <2>4. CASE MainLibere
    BY <2>4 DEF MainLibere
  <2>5. CASE ConsommateurPrend
    BY <2>5 DEF ConsommateurPrend
  <2>6. CASE ConsommateurDecale
    BY <2>6 DEF ConsommateurDecale
  <2>7. CASE ConsommateurRange
    BY <2>7 DEF ConsommateurRange
  <2> QED BY <2>1, <2>2, <2>3, <2>4, <2>5, <2>6, <2>7 DEF Next, Producteur, Consommateur
<1> QED BY <1>1, <1>2, PTL DEF Spec

(* The producer only places a character while a cell is free.              *)
THEOREM PlacesInBounds == Spec => []RoomToPlace
<1>1. TypeOK /\ Counts => RoomToPlace
  BY SizeAssumption DEF TypeOK, Counts, RoomToPlace, Placing, Taking
<1> QED BY <1>1, TypeAndCounts, PTL

-----------------------------------------------------------------------------
(* Delivery *)

(* Every character is where its order in the message says: received, in    *)
(* the hands of the consumer, in its cell, or just placed.                 *)
InOrder ==
  /\ \A x \in 1 .. tourConsommateur : chaineRecue[x] = Message[x]
  /\ consommateur = "decale" => caractere = Message[tourConsommateur + 1]
  /\ \A x \in 1 .. nbElem - Taking : cells[Place(x)] = Message[tourConsommateur + Taking + x]
  /\ producteur = "compte" => cells[N - nbElem] = Message[tourProducteur + 1]

(* Main frees only when both threads have done all their turns.            *)
FreedAtEnd ==
  libere => producteur = "P" /\ tourProducteur = nombreDeTours /\ ConsommateurFini

(* No character is lost, changed, doubled or overtaken between the message *)
(* and what is received.                                                   *)
THEOREM StaysInOrder == Spec => []InOrder
<1> USE SizeAssumption, MessageLength DEF Taking
<1>1. Init => InOrder
  BY DEF Init, InOrder
<1>2. TypeOK /\ Counts /\ InOrder /\ [Next]_vars => InOrder'
  <2> SUFFICES ASSUME TypeOK, Counts, InOrder, [Next]_vars PROVE InOrder'
    OBVIOUS
  <2> USE DEF TypeOK, Counts, InOrder, Place, Placing, producteurVars, consommateurVars
  <2>1. CASE UNCHANGED vars
    BY <2>1 DEF vars
  <2>2. CASE ProducteurPlace
    BY <2>2 DEF ProducteurPlace
  <2>3. CASE ProducteurCompte
    BY <2>3 DEF ProducteurCompte
  <2>4. CASE MainLibere
    BY <2>4 DEF MainLibere
  <2>5. CASE ConsommateurPrend
    <3>1. \A x \in 1 .. nbElem : cells[N + 1 - x] = Message[tourConsommateur + x]
      BY <2>5 DEF ConsommateurPrend
    <3>2. \A x \in 1 .. nbElem - 1 : cells[N - x] = Message[tourConsommateur + 1 + x]
      <4>1. ASSUME NEW x \in 1 .. nbElem - 1 PROVE cells[N - x] = Message[tourConsommateur + 1 + x]
        <5>1. x + 1 \in 1 .. nbElem /\ N + 1 - (x + 1) = N - x
          OBVIOUS
        <5>2. cells[N + 1 - (x + 1)] = Message[tourConsommateur + (x + 1)]
          BY <3>1, <5>1
        <5> QED BY <5>1, <5>2
      <4> QED BY <4>1
    <3>3. caractere' = Message[tourConsommateur + 1]
      BY <2>5, <3>1 DEF ConsommateurPrend
    <3>4. producteur # "compte" /\ nbElem >= 1
      BY <2>5 DEF ConsommateurPrend
    <3> QED BY <2>5, <3>2, <3>3, <3>4 DEF ConsommateurPrend
  <2>6. CASE ConsommateurDecale
    BY <2>6 DEF ConsommateurDecale
  <2>7. CASE ConsommateurRange
    BY <2>7 DEF ConsommateurRange
  <2> QED BY <2>1, <2>2, <2>3, <2>4, <2>5, <2>6, <2>7 DEF Next, Producteur, Consommateur
<1> QED BY <1>1, <1>2, TypeAndCounts, PTL DEF Spec

(* What is freed is not in use, and by then the whole message has arrived. *)
THEOREM DeliveredBeforeFreed == Spec => []FreedWhenDelivered
<1> USE SizeAssumption, MessageLength
<1>1. Init => FreedAtEnd
  BY DEF Init, FreedAtEnd
<1>2. TypeOK /\ FreedAtEnd /\ [Next]_vars => FreedAtEnd'
  <2> SUFFICES ASSUME TypeOK, FreedAtEnd, [Next]_vars PROVE FreedAtEnd'
    OBVIOUS
  <2> USE DEF FreedAtEnd, ConsommateurFini, producteurVars, consommateurVars
  <2>1. CASE UNCHANGED vars
    BY <2>1 DEF vars
  <2>2. CASE MainLibere
    BY <2>2 DEF MainLibere
  <2>3. CASE Producteur /\ ~MainLibere
    <3>1. libere' = libere
      BY <2>3 DEF Producteur, ProducteurPlace, ProducteurCompte
    <3>2. ~libere
      BY <2>3 DEF Producteur, ProducteurPlace, ProducteurCompte
    <3> QED BY <3>1, <3>2
  <2>4. CASE Consommateur
    <3>1. libere' = libere
      BY <2>4 DEF Consommateur, ConsommateurPrend, ConsommateurDecale, ConsommateurRange
    <3>2. ~libere
      BY <2>4 DEF Consommateur, ConsommateurPrend, ConsommateurDecale, ConsommateurRange
    <3> QED BY <3>1, <3>2
  <2> QED BY <2>1, <2>2, <2>3, <2>4 DEF Next
<1>3. TypeOK /\ Counts /\ InOrder /\ FreedAtEnd => FreedWhenDelivered
  <2> SUFFICES ASSUME TypeOK, Counts, InOrder, FreedAtEnd, libere PROVE FreedWhenDelivered
    BY DEF FreedWhenDelivered
  <2>1. /\ producteur = "P" /\ tourProducteur = nombreDeTours
        /\ consommateur = "P" /\ tourConsommateur = nombreDeTours
    BY DEF FreedAtEnd, ConsommateurFini
  <2>2. plein = 0 /\ vide = N /\ mutex = 1
    BY <2>1 DEF TypeOK, Counts, Placing, Taking
  <2>3. chaineRecue = Message
    <3>1. \A x \in 1 .. nombreDeTours : chaineRecue[x] = Message[x]
      BY <2>1 DEF InOrder
    <3>2. Message = [x \in 1 .. nombreDeTours |-> Message[x]]
      BY MessageAssumption DEF nombreDeTours
    <3> QED BY <3>1, <3>2 DEF TypeOK
  <2> QED BY <2>2, <2>3 DEF FreedWhenDelivered
<1> QED BY <1>1, <1>2, <1>3, TypeAndCounts, StaysInOrder, PTL DEF Spec

Arrived == tourConsommateur + Taking

(* What is on the way and what has arrived are parts of the message.       *)
Parts ==
  /\ Queue = Part(Message, Arrived, plein) /\ Received = Part(Message, 0, Arrived)
  /\ Arrived \in Nat /\ plein \in Nat /\ Arrived + plein <= nombreDeTours

(* That is what the order of the characters in the cells comes to.         *)
LEMMA ChannelHolds ==
  ASSUME TypeOK, Counts, InOrder
  PROVE  Parts
<1> USE SizeAssumption, MessageLength
<1>1. /\ Arrived \in Nat /\ plein \in Nat /\ Arrived + plein = tourProducteur
      /\ tourProducteur <= nombreDeTours /\ nbElem - Taking = plein
  BY DEF TypeOK, Counts, Arrived, Placing, Taking
<1>2. Queue = Part(Message, Arrived, plein)
  BY <1>1 DEF InOrder, Queue, Part, Arrived
<1>3. Received = Part(Message, 0, Arrived)
  <2> DEFINE got == SubSeq(chaineRecue, 1, tourConsommateur)
  <2>1. got = Part(Message, 0, tourConsommateur)
    <3>1. got = [x \in 1 .. tourConsommateur |-> chaineRecue[x]]
      BY DEF TypeOK
    <3> QED BY <3>1 DEF InOrder, Part, TypeOK
  <2>2. got \in Seq(STRING) /\ Len(got) = tourConsommateur
    <3>1. tourConsommateur \in Nat /\ 0 + tourConsommateur <= nombreDeTours
      BY DEF TypeOK
    <3> HIDE DEF got
    <3> QED BY <2>1, <3>1, PartIsSequence, MessageAssumption DEF nombreDeTours
  <2>3. CASE Taking = 1
    <3>0. consommateur = "decale"
      BY <2>3 DEF Taking
    <3>1. Received = got \o <<caractere>> /\ caractere = Message[tourConsommateur + 1]
      BY <2>3, <3>0 DEF Received, InOrder
    <3>2. Received = Append(got, Message[tourConsommateur + 1])
      BY <3>1, <2>2 DEF TypeOK
    <3>3. /\ 0 + tourConsommateur < nombreDeTours /\ tourConsommateur \in Nat
          /\ Arrived = tourConsommateur + 1
      BY <1>1, <2>3 DEF Arrived, TypeOK
    <3>4. Part(Message, 0, tourConsommateur + 1)
            = Append(Part(Message, 0, tourConsommateur), Message[0 + tourConsommateur + 1])
      BY <3>3, PartGrows, MessageAssumption DEF nombreDeTours
    <3>5. 0 + tourConsommateur + 1 = tourConsommateur + 1
      BY <3>3
    <3>6. Received = Append(Part(Message, 0, tourConsommateur), Message[tourConsommateur + 1])
      BY <2>1, <3>2
    <3> HIDE DEF got
    <3> QED BY <3>3, <3>4, <3>5, <3>6
  <2>4. CASE Taking = 0
    <3>1. Received = got
      BY <2>2, <2>4 DEF Received
    <3> QED BY <2>1, <2>4, <3>1 DEF Arrived, TypeOK
  <2> QED BY <2>3, <2>4 DEF Taking
<1> QED BY <1>1, <1>2, <1>3 DEF Parts

(* prodcons.c is a bounded first-in first-out channel: addElement puts     *)
(* when it counts, getElement gets when it reads cell N, and moving the    *)
(* cells, ending and freeing change nothing that can be seen of it.        *)
THEOREM ImplementsChannel == Spec => IsChannel
<1> USE SizeAssumption, MessageLength
<1>1. Init => Channel!Init
  <2> SUFFICES ASSUME Init PROVE Queue = <<>> /\ Received = <<>>
    BY DEF Channel!Init
  <2>1. consommateur # "decale" /\ nbElem = 0 /\ tourConsommateur = 0
    BY DEF Init
  <2>2. Taking = 0
    BY <2>1 DEF Taking
  <2>3. Queue = <<>>
    BY <2>1, <2>2 DEF Queue
  <2>4. SubSeq(chaineRecue, 1, tourConsommateur) = <<>>
    BY <2>1 DEF Init
  <2>5. Received = <<>>
    BY <2>2, <2>4 DEF Received
  <2> QED BY <2>3, <2>5
<1>2. TypeOK /\ Counts /\ InOrder => Parts
  BY ChannelHolds
<1>3. TypeOK /\ Counts /\ Parts /\ Parts' /\ [Next]_vars
        => [Channel!Next]_<<Queue, Received>>
  <2> SUFFICES ASSUME TypeOK, Counts, Parts, Parts', [Next]_vars
               PROVE  [Channel!Next]_<<Queue, Received>>
    OBVIOUS
  <2>1. /\ Queue = Part(Message, Arrived, plein) /\ Received = Part(Message, 0, Arrived)
        /\ Arrived \in Nat /\ plein \in Nat /\ Arrived + plein <= nombreDeTours
    BY DEF Parts
  <2>2. /\ Queue' = Part(Message, Arrived', plein') /\ Received' = Part(Message, 0, Arrived')
        /\ Arrived' \in Nat /\ plein' \in Nat /\ Arrived' + plein' <= nombreDeTours
    BY DEF Parts, Part
  <2>3. Message \in Seq(STRING) /\ Len(Message) = nombreDeTours
    BY MessageAssumption DEF nombreDeTours
  <2>4. CASE Arrived' = Arrived /\ plein' = plein
    BY <2>1, <2>2, <2>4
  <2>5. CASE ProducteurCompte
    <3>1. Arrived' = Arrived /\ plein' = plein + 1
      BY <2>5 DEF ProducteurCompte, consommateurVars, Arrived, Taking, TypeOK
    <3>2. plein < N
      BY <2>5 DEF ProducteurCompte, TypeOK, Counts, Placing, Taking
    <3>3. Arrived + plein < Len(Message)
      BY <2>1, <2>2, <2>3, <3>1
    <3>4. /\ Len(Received) = Arrived /\ Len(Queue) = plein
          /\ Queue' = Append(Queue, Message[Len(Received) + Len(Queue) + 1])
      <4>1. /\ Message \in Seq(STRING) /\ Arrived \in Nat /\ plein \in Nat
            /\ Arrived + plein < Len(Message)
        BY <2>1, <2>3, <3>3
      <4>2. /\ Len(Part(Message, 0, Arrived)) = Arrived
            /\ Len(Part(Message, Arrived, plein)) = plein
            /\ Part(Message, Arrived, plein + 1)
                 = Append(Part(Message, Arrived, plein),
                          Message[Len(Part(Message, 0, Arrived))
                                    + Len(Part(Message, Arrived, plein)) + 1])
        BY ONLY <4>1, PutPart
      <4> QED BY ONLY <2>1, <2>2, <3>1, <4>2
    <3>5. Received' = Received
      BY <2>1, <2>2, <3>1
    <3>6. Channel!Put
      BY <3>2, <3>3, <3>4, <3>5 DEF Channel!Put, Channel!Sent
    <3> QED BY <3>6 DEF Channel!Next
  <2>6. CASE ConsommateurPrend
    <3>1. Arrived' = Arrived + 1 /\ plein' = plein - 1 /\ plein # 0
      BY <2>6 DEF ConsommateurPrend, Arrived, Taking, TypeOK
    <3>2. Arrived + plein <= Len(Message) /\ plein \in Nat \ {0}
      BY <2>1, <2>3, <3>1
    <3>3. /\ Queue # <<>> /\ Queue' = Tail(Queue)
          /\ Received' = Append(Received, Head(Queue))
      BY <2>1, <2>2, <2>3, <3>1, <3>2, GetPart
    <3> QED BY <3>3 DEF Channel!Next, Channel!Get
  <2> USE DEF producteurVars, consommateurVars, Arrived, Taking
  <2>7. CASE UNCHANGED vars
    BY <2>4, <2>7 DEF vars
  <2>8. CASE ProducteurPlace \/ MainLibere
    BY <2>4, <2>8 DEF ProducteurPlace, MainLibere
  <2>9. CASE ConsommateurDecale
    BY <2>4, <2>9 DEF ConsommateurDecale
  <2>10. CASE ConsommateurRange
    <3>1. Arrived' = Arrived /\ plein' = plein
      BY <2>10 DEF ConsommateurRange, TypeOK
    <3> QED BY <2>4, <3>1
  <2> QED BY <2>5, <2>6, <2>7, <2>8, <2>9, <2>10 DEF Next, Producteur, Consommateur
<1> QED BY <1>1, <1>2, <1>3, TypeAndCounts, StaysInOrder, PTL DEF Spec, IsChannel, Channel!Spec

-----------------------------------------------------------------------------
(* TP2.c *)

(* Two numbers less than n apart are in different cells of a ring of n.    *)
LEMMA Apart ==
  ASSUME NEW n \in Nat \ {0}, NEW x \in Nat, NEW y \in Nat, x < y, y < x + n
  PROVE  x % n # y % n
<1> DEFINE a == x \div n
           b == y \div n
<1>1. /\ a \in Int /\ x = (a * n) + (x % n) /\ x % n \in 0 .. n - 1
      /\ b \in Int /\ y = (b * n) + (y % n) /\ y % n \in 0 .. n - 1
  OBVIOUS
<1> HIDE DEF a, b
<1> SUFFICES ASSUME x % n = y % n PROVE FALSE
  OBVIOUS
<1>2. (b * n) - (a * n) = y - x
  BY <1>1
<1>3. (b - a) * n = (b * n) - (a * n)
  BY <1>1
<1>4. b - a \in Int /\ 0 < (b - a) * n /\ (b - a) * n < n
  BY <1>1, <1>2, <1>3
<1>5. CASE b - a >= 1
  BY <1>4, <1>5
<1>6. CASE b - a <= 0
  BY <1>4, <1>6
<1> QED BY <1>4, <1>5, <1>6

(* Every character of the ring is in the cell its number says, and every   *)
(* one taken is in its place of chaineRecue; a thread between its access   *)
(* and its count has one turn more to count.                               *)
InRing ==
  /\ prod2 \in {"V", "++"} => tourProd < nbTour
  /\ cons2 \in {"V", "++"} => tourCons < nbTour
  /\ \A x \in TP2!Taken + 1 .. TP2!Placed : bufferCommun[(x - 1) % taille] = x
  /\ \A x \in 1 .. TP2!Taken : chaine2[x] = x

(* What the counts say: no more is on its way than the ring has cells.     *)
LEMMA RingBounds ==
  ASSUME TP2!TypeOK, TP2!Counts, InRing
  PROVE  /\ TP2!Placed \in 0 .. nbTour /\ TP2!Taken \in 0 .. nbTour
         /\ TP2!Taken <= TP2!Placed /\ TP2!Placed <= TP2!Taken + taille
         /\ plein2 > 0 => TP2!Taken < TP2!Placed
         /\ vide2 > 0 => TP2!Placed < TP2!Taken + taille
BY TailleAssumption, TextAssumption
   DEF TP2!TypeOK, TP2!Counts, InRing, TP2!Placed, TP2!Taken, TP2!Flag

(* TP2.c: the variables keep their types, the semaphores are exact         *)
(* although both turns are counted after they are posted (TP2.c:70), and   *)
(* no character is overwritten before it is taken.                         *)
THEOREM RingCorrect == TP2!Spec => [](TP2!TypeOK /\ TP2!Counts /\ InRing)
<1> USE TailleAssumption, TextAssumption
<1>1. TP2!Init => TP2!TypeOK /\ TP2!Counts /\ InRing
  <2> SUFFICES ASSUME TP2!Init PROVE TP2!TypeOK /\ TP2!Counts /\ InRing
    OBVIOUS
  <2> USE DEF TP2!Init, TP2!Free
  <2>1. TP2!TypeOK
    BY DEF TP2!TypeOK
  <2>2. TP2!Taken = 0 /\ TP2!Placed = 0
    BY DEF TP2!Taken, TP2!Placed, TP2!Flag
  <2>3. TP2!Counts
    BY <2>2 DEF TP2!Counts, TP2!Flag
  <2>4. InRing
    BY <2>2 DEF InRing
  <2> QED BY <2>1, <2>3, <2>4
<1>2. TP2!TypeOK /\ TP2!Counts /\ InRing /\ [TP2!Next]_(TP2!vars)
        => (TP2!TypeOK /\ TP2!Counts /\ InRing)'
  <2> SUFFICES ASSUME TP2!TypeOK, TP2!Counts, InRing, [TP2!Next]_(TP2!vars)
               PROVE  (TP2!TypeOK /\ TP2!Counts /\ InRing)'
    OBVIOUS
  <2> USE DEF TP2!TypeOK, TP2!Counts, TP2!Flag, TP2!sems, TP2!prod, TP2!cons
  <2>0. /\ TP2!Placed \in 0 .. nbTour /\ TP2!Taken \in 0 .. nbTour
        /\ TP2!Taken <= TP2!Placed /\ TP2!Placed <= TP2!Taken + taille
        /\ plein2 > 0 => TP2!Taken < TP2!Placed
        /\ vide2 > 0 => TP2!Placed < TP2!Taken + taille
    BY RingBounds
  <2>1. CASE UNCHANGED TP2!vars
    BY <2>1 DEF TP2!vars, InRing, TP2!Placed, TP2!Taken
  <2>2. CASE TP2!placer
    <3> USE <2>2 DEF TP2!placer
    <3>1. /\ TP2!Placed = tourProd /\ TP2!Placed' = TP2!Placed + 1 /\ TP2!Taken' = TP2!Taken
          /\ TP2!Placed < TP2!Taken + taille /\ chaine2' = chaine2
      BY <2>0 DEF TP2!Placed, TP2!Taken
    <3>2. /\ tourProd % taille \in 0 .. taille - 1
          /\ bufferCommun' = [bufferCommun EXCEPT ![tourProd % taille] = tourProd + 1]
      <4>1. taille \in Nat \ {0} /\ tourProd \in Nat /\ tourProd < nbTour
        OBVIOUS
      <4>2. tourProd % taille \in 0 .. taille - 1
        BY ONLY <4>1
      <4>3. TP2!chaineAEnvoyer[tourProd + 1] = tourProd + 1
        BY ONLY <4>1, TextAssumption DEF TP2!chaineAEnvoyer
      <4> QED BY <4>2, <4>3
    <3>3. (TP2!TypeOK /\ TP2!Counts)'
      <4>1. bufferCommun' \in [0 .. taille - 1 -> 0 .. nbTour]
        <5>1. bufferCommun \in [0 .. taille - 1 -> 0 .. nbTour] /\ tourProd + 1 \in 0 .. nbTour
          BY ONLY <2>2, TP2!TypeOK, TextAssumption DEF TP2!TypeOK, TP2!placer
        <5> QED BY ONLY <3>2, <5>1
      <4>2. cons2 \notin {"V"} /\ prod2' = "V" /\ cons2' = cons2
        OBVIOUS
      <4>3. TP2!TypeOK'
        <5>1. /\ plein2' \in 0 .. taille /\ vide2' \in 0 .. taille /\ mutex2' \in 0 .. 1
          <6>1. /\ vide2 \in 0 .. taille /\ plein2 \in 0 .. taille /\ mutex2 \in 0 .. 1
                /\ vide2 > 0 /\ mutex2 > 0 /\ vide2' = vide2 - 1 /\ mutex2' = mutex2 - 1
                /\ plein2' = plein2
            BY ONLY <2>2, TP2!TypeOK DEF TP2!TypeOK, TP2!placer
          <6> QED BY ONLY <6>1, TailleAssumption
        <5>2. /\ tourProd' \in 0 .. nbTour /\ tourCons' \in 0 .. nbTour
              /\ prod2' \in {"P", "V", "++", "joined"}
              /\ cons2' \in {"P", "V", "++", "joined"}
          OBVIOUS
        <5>3. /\ bufferCommun' \in [0 .. taille - 1 -> 0 .. nbTour]
              /\ chaine2' \in [1 .. nbTour -> 0 .. nbTour]
          BY <4>1
        <5> QED BY ONLY <5>1, <5>2, <5>3 DEF TP2!TypeOK
      <4>4. TP2!Counts'
        BY <2>0, <4>2, <3>1
      <4> QED BY <4>3, <4>4
    <3>4. ASSUME NEW x \in TP2!Taken + 1 .. TP2!Placed
          PROVE  bufferCommun'[(x - 1) % taille] = x
      <4>1. bufferCommun[(x - 1) % taille] = x
        BY DEF InRing
      <4>2. /\ taille \in Nat \ {0} /\ x - 1 \in Nat /\ TP2!Placed \in Nat
            /\ x - 1 < TP2!Placed /\ TP2!Placed < (x - 1) + taille
        BY <2>0, <3>1
      <4>3. (x - 1) % taille # TP2!Placed % taille
        BY ONLY <4>2, Apart
      <4>4. (x - 1) % taille \in 0 .. taille - 1
        BY ONLY <4>2
      <4> QED BY <3>1, <3>2, <4>1, <4>3, <4>4
    <3>5. bufferCommun'[TP2!Placed % taille] = TP2!Placed + 1
      BY <3>1, <3>2
    <3>6. \A x \in TP2!Taken' + 1 .. TP2!Placed' : bufferCommun'[(x - 1) % taille] = x
      <4>1. (TP2!Placed + 1) - 1 = TP2!Placed
        BY <2>0
      <4>2. ASSUME NEW x \in TP2!Taken + 1 .. TP2!Placed + 1
            PROVE  bufferCommun'[(x - 1) % taille] = x
        <5>1. x \in TP2!Taken + 1 .. TP2!Placed \/ x = TP2!Placed + 1
          BY ONLY <2>0, TextAssumption
        <5> QED BY ONLY <3>4, <3>5, <4>1, <5>1
      <4> QED BY ONLY <3>1, <4>2
    <3>7. InRing'
      BY <3>1, <3>6 DEF InRing
    <3> QED BY <3>3, <3>7
  <2>3. CASE TP2!prendre
    <3> USE <2>3 DEF TP2!prendre
    <3>1. /\ TP2!Taken = tourCons /\ TP2!Taken' = TP2!Taken + 1 /\ TP2!Placed' = TP2!Placed
          /\ TP2!Taken < TP2!Placed /\ bufferCommun' = bufferCommun
      BY <2>0 DEF TP2!Placed, TP2!Taken
    <3>2. bufferCommun[((TP2!Taken + 1) - 1) % taille] = TP2!Taken + 1
      BY <2>0, <3>1 DEF InRing
    <3>3. chaine2' = [chaine2 EXCEPT ![tourCons + 1] = tourCons + 1]
      <4>1. (tourCons + 1) - 1 = tourCons
        OBVIOUS
      <4> QED BY <3>1, <3>2, <4>1
    <3>4. (TP2!TypeOK /\ TP2!Counts)'
      <4>1. chaine2' \in [1 .. nbTour -> 0 .. nbTour]
        <5>1. /\ chaine2 \in [1 .. nbTour -> 0 .. nbTour]
              /\ tourCons + 1 \in 1 .. nbTour /\ tourCons + 1 \in 0 .. nbTour
          BY ONLY <2>3, TP2!TypeOK, TextAssumption DEF TP2!TypeOK, TP2!prendre
        <5> QED BY ONLY <3>3, <5>1
      <4>2. prod2 \notin {"V"} /\ cons2' = "V" /\ prod2' = prod2
        OBVIOUS
      <4>3. TP2!TypeOK'
        <5>1. /\ plein2' \in 0 .. taille /\ vide2' \in 0 .. taille /\ mutex2' \in 0 .. 1
          <6>1. /\ plein2 \in 0 .. taille /\ vide2 \in 0 .. taille /\ mutex2 \in 0 .. 1
                /\ plein2 > 0 /\ mutex2 > 0 /\ plein2' = plein2 - 1 /\ mutex2' = mutex2 - 1
                /\ vide2' = vide2
            BY ONLY <2>3, TP2!TypeOK DEF TP2!TypeOK, TP2!prendre
          <6> QED BY ONLY <6>1, TailleAssumption
        <5>2. /\ tourProd' \in 0 .. nbTour /\ tourCons' \in 0 .. nbTour
              /\ prod2' \in {"P", "V", "++", "joined"}
              /\ cons2' \in {"P", "V", "++", "joined"}
          OBVIOUS
        <5>3. /\ bufferCommun' \in [0 .. taille - 1 -> 0 .. nbTour]
              /\ chaine2' \in [1 .. nbTour -> 0 .. nbTour]
          BY <4>1
        <5> QED BY ONLY <5>1, <5>2, <5>3 DEF TP2!TypeOK
      <4>4. TP2!Counts'
        BY <2>0, <4>2, <3>1
      <4> QED BY <4>3, <4>4
    <3>5. \A x \in 1 .. TP2!Taken' : chaine2'[x] = x
      BY <2>0, <3>1, <3>3 DEF InRing
    <3>6. \A x \in TP2!Taken' + 1 .. TP2!Placed' : bufferCommun'[(x - 1) % taille] = x
      BY <2>0, <3>1 DEF InRing
    <3>7. InRing'
      BY <3>5, <3>6 DEF InRing
    <3> QED BY <3>4, <3>7
  <2>4. ASSUME TP2!Taken' = TP2!Taken, TP2!Placed' = TP2!Placed,
               UNCHANGED <<bufferCommun, chaine2>>, (TP2!TypeOK /\ TP2!Counts)',
               prod2' \in {"V", "++"} => tourProd' < nbTour,
               cons2' \in {"V", "++"} => tourCons' < nbTour
        PROVE  (TP2!TypeOK /\ TP2!Counts /\ InRing)'
    BY <2>4 DEF InRing
  <2> USE DEF InRing, TP2!Placed, TP2!Taken
  <2>5. CASE TP2!ProducteurV
    BY <2>4, <2>5 DEF TP2!ProducteurV
  <2>6. CASE TP2!ProducteurTour
    BY <2>4, <2>6 DEF TP2!ProducteurTour
  <2>7. CASE TP2!ConsomateurV
    BY <2>4, <2>7 DEF TP2!ConsomateurV
  <2>8. CASE TP2!ConsomateurTour
    BY <2>4, <2>8 DEF TP2!ConsomateurTour
  <2>9. CASE TP2!main
    BY <2>4, <2>9 DEF TP2!main
  <2> QED BY <2>1, <2>2, <2>3, <2>5, <2>6, <2>7, <2>8, <2>9
          DEF TP2!Next, TP2!Producteur, TP2!Consomateur
<1> QED BY <1>1, <1>2, PTL DEF TP2!Spec

(* The message of TP2.c is one of numbers.                                 *)
LEMMA RingMessage == /\ TP2!chaineAEnvoyer \in Seq(Nat) /\ Len(TP2!chaineAEnvoyer) = nbTour
                     /\ \A x \in 1 .. nbTour : TP2!chaineAEnvoyer[x] = x
<1>1. TP2!chaineAEnvoyer \in [1 .. nbTour -> Nat]
  BY TextAssumption DEF TP2!chaineAEnvoyer
<1> QED BY <1>1, TextAssumption, SeqDef, LenProperties DEF TP2!chaineAEnvoyer

(* The characters that are on their way                                    *)
RingWay == TP2!Placed - TP2!Taken

(* These, and those that have arrived, are parts of the message.           *)
RingParts ==
  /\ TP2!Queue = Part(TP2!chaineAEnvoyer, TP2!Taken, RingWay)
  /\ TP2!Received = Part(TP2!chaineAEnvoyer, 0, TP2!Taken)
  /\ TP2!Taken \in Nat /\ RingWay \in Nat /\ TP2!Taken + RingWay <= nbTour /\ RingWay <= taille

(* TP2.c: the ring, as the invariant describes it, is made of the parts of *)
(* what was written.                                                       *)
LEMMA RingHolds ==
  ASSUME TP2!TypeOK, TP2!Counts, InRing
  PROVE  RingParts
<1>1. /\ TP2!Placed \in 0 .. nbTour /\ TP2!Taken \in 0 .. nbTour
      /\ TP2!Taken <= TP2!Placed /\ TP2!Placed <= TP2!Taken + taille
  BY RingBounds
<1>2. /\ TP2!Taken \in Nat /\ RingWay \in Nat /\ TP2!Taken + RingWay <= nbTour /\ RingWay <= taille
      /\ TP2!Placed = TP2!Taken + RingWay
  BY <1>1, TailleAssumption, TextAssumption DEF RingWay
<1>3. ASSUME NEW x \in 1 .. RingWay
      PROVE  bufferCommun[(TP2!Taken + x - 1) % taille] = TP2!chaineAEnvoyer[TP2!Taken + x]
  <2>1. TP2!Taken + x \in TP2!Taken + 1 .. TP2!Placed /\ TP2!Taken + x \in 1 .. nbTour
    BY <1>1, <1>2, TextAssumption
  <2>2. bufferCommun[((TP2!Taken + x) - 1) % taille] = TP2!Taken + x
    BY <2>1 DEF InRing
  <2>3. TP2!chaineAEnvoyer[TP2!Taken + x] = TP2!Taken + x
    BY <2>1, RingMessage
  <2>4. (TP2!Taken + x) - 1 = TP2!Taken + x - 1
    BY <1>1
  <2> QED BY <2>2, <2>3, <2>4
<1>4. TP2!Queue = Part(TP2!chaineAEnvoyer, TP2!Taken, RingWay)
  BY <1>3 DEF TP2!Queue, Part, RingWay
<1>5. TP2!Received = Part(TP2!chaineAEnvoyer, 0, TP2!Taken)
  <2>1. chaine2 \in [1 .. nbTour -> 0 .. nbTour]
    BY DEF TP2!TypeOK
  <2>2. SubSeq(chaine2, 1, TP2!Taken) = [x \in 1 .. TP2!Taken |-> chaine2[x]]
    BY <1>1, <2>1, TextAssumption
  <2>3. \A x \in 1 .. TP2!Taken : chaine2[x] = TP2!chaineAEnvoyer[0 + x]
    BY <1>1, RingMessage, TextAssumption DEF InRing
  <2> QED BY <2>2, <2>3 DEF TP2!Received, Part
<1> QED BY <1>2, <1>4, <1>5 DEF RingParts

(* TP2.c is a bounded first-in first-out channel, for any size of the ring *)
(* and any number of turns: it puts when the producer writes its cell, and *)
(* gets when the consumer reads one.                                       *)
THEOREM RingImplementsChannel == TP2!Spec => TP2!IsChannel
<1>1. TP2!Init => TP2!Channel!Init
  <2> SUFFICES ASSUME TP2!Init PROVE TP2!Queue = <<>> /\ TP2!Received = <<>>
    BY DEF TP2!Channel!Init
  <2>1. TP2!Taken = 0 /\ TP2!Placed = 0
    BY DEF TP2!Init, TP2!Taken, TP2!Placed, TP2!Flag
  <2> QED BY <2>1 DEF TP2!Queue, TP2!Received
<1>2. TP2!TypeOK /\ TP2!Counts /\ InRing => RingParts
  BY RingHolds
<1>3. TP2!TypeOK /\ TP2!Counts /\ InRing /\ RingParts /\ RingParts' /\ [TP2!Next]_(TP2!vars)
        => [TP2!Channel!Next]_<<TP2!Queue, TP2!Received>>
  <2> SUFFICES ASSUME TP2!TypeOK, TP2!Counts, InRing, RingParts, RingParts',
                      [TP2!Next]_(TP2!vars)
               PROVE  [TP2!Channel!Next]_<<TP2!Queue, TP2!Received>>
    OBVIOUS
  <2> DEFINE M == TP2!chaineAEnvoyer
  <2>1. /\ TP2!Queue = Part(M, TP2!Taken, RingWay) /\ TP2!Received = Part(M, 0, TP2!Taken)
        /\ TP2!Taken \in Nat /\ RingWay \in Nat /\ TP2!Taken + RingWay <= nbTour
    BY DEF RingParts
  <2>2. /\ TP2!Queue' = Part(M, TP2!Taken', RingWay') /\ TP2!Received' = Part(M, 0, TP2!Taken')
        /\ TP2!Taken' \in Nat /\ RingWay' \in Nat /\ TP2!Taken' + RingWay' <= nbTour
        /\ RingWay' <= taille
    BY DEF RingParts, Part, TP2!chaineAEnvoyer
  <2>3. M \in Seq(Nat) /\ Len(M) = nbTour
    BY RingMessage
  <2> HIDE DEF M
  <2>4. CASE TP2!Taken' = TP2!Taken /\ TP2!Placed' = TP2!Placed
    BY <2>1, <2>2, <2>4 DEF RingWay
  <2>5. CASE TP2!placer
    <3>1. TP2!Taken' = TP2!Taken /\ TP2!Placed' = TP2!Placed + 1
      BY <2>5 DEF TP2!placer, TP2!cons, TP2!Taken, TP2!Placed, TP2!Flag, TP2!TypeOK
    <3>2. RingWay' = RingWay + 1
      <4>1. TP2!Placed \in 0 .. nbTour /\ TP2!Taken \in 0 .. nbTour
        BY RingBounds
      <4> QED BY <3>1, <4>1, TextAssumption DEF RingWay
    <3>3. TP2!Taken + RingWay < Len(M) /\ RingWay < taille
      BY <2>1, <2>2, <2>3, <3>1, <3>2, TailleAssumption
    <3>4. /\ Len(TP2!Received) = TP2!Taken /\ Len(TP2!Queue) = RingWay
          /\ TP2!Queue' = Append(TP2!Queue, M[Len(TP2!Received) + Len(TP2!Queue) + 1])
      <4>1. /\ Len(Part(M, 0, TP2!Taken)) = TP2!Taken /\ Len(Part(M, TP2!Taken, RingWay)) = RingWay
            /\ Part(M, TP2!Taken, RingWay + 1)
                 = Append(Part(M, TP2!Taken, RingWay),
                          M[Len(Part(M, 0, TP2!Taken)) + Len(Part(M, TP2!Taken, RingWay)) + 1])
        <5>1. /\ M \in Seq(Nat) /\ TP2!Taken \in Nat /\ RingWay \in Nat
              /\ TP2!Taken + RingWay < Len(M)
          BY <2>1, <2>3, <3>3
        <5> QED BY ONLY <5>1, PutPart
      <4> QED BY <2>1, <2>2, <3>1, <3>2, <4>1
    <3>5. TP2!Received' = TP2!Received
      BY <2>1, <2>2, <3>1
    <3>6. TP2!Channel!Put
      BY <3>3, <3>4, <3>5
         DEF TP2!Channel!Put, TP2!Channel!Sent, M
    <3> QED BY <3>6 DEF TP2!Channel!Next
  <2>6. CASE TP2!prendre
    <3>1. TP2!Taken' = TP2!Taken + 1 /\ TP2!Placed' = TP2!Placed
      BY <2>6 DEF TP2!prendre, TP2!prod, TP2!Taken, TP2!Placed, TP2!Flag, TP2!TypeOK
    <3>2. RingWay' = RingWay - 1 /\ RingWay \in Nat \ {0} /\ TP2!Taken + RingWay <= Len(M)
      <4>1. TP2!Placed \in 0 .. nbTour /\ TP2!Taken \in 0 .. nbTour
        BY RingBounds
      <4> QED BY <2>1, <2>2, <2>3, <3>1, <4>1, TextAssumption DEF RingWay
    <3>3. /\ TP2!Queue # <<>> /\ TP2!Queue' = Tail(TP2!Queue)
          /\ TP2!Received' = Append(TP2!Received, Head(TP2!Queue))
      BY <2>1, <2>2, <2>3, <3>1, <3>2, GetPart
    <3>4. TP2!Channel!Get
      BY <3>3 DEF TP2!Channel!Get
    <3> QED BY <3>4 DEF TP2!Channel!Next
  <2> USE DEF TP2!prod, TP2!cons, TP2!Taken, TP2!Placed, TP2!Flag, TP2!TypeOK
  <2>7. CASE UNCHANGED TP2!vars
    BY <2>4, <2>7 DEF TP2!vars
  <2>8. CASE TP2!ProducteurV
    BY <2>4, <2>8 DEF TP2!ProducteurV
  <2>9. CASE TP2!ProducteurTour
    BY <2>4, <2>9 DEF TP2!ProducteurTour
  <2>10. CASE TP2!ConsomateurV
    BY <2>4, <2>10 DEF TP2!ConsomateurV
  <2>11. CASE TP2!ConsomateurTour
    BY <2>4, <2>11 DEF TP2!ConsomateurTour
  <2>12. CASE TP2!main
    BY <2>4, <2>12 DEF TP2!main
  <2> QED BY <2>5, <2>6, <2>7, <2>8, <2>9, <2>10, <2>11, <2>12
          DEF TP2!Next, TP2!Producteur, TP2!Consomateur
<1> QED BY <1>1, <1>2, <1>3, RingCorrect, PTL DEF TP2!Spec, TP2!IsChannel, TP2!Channel!Spec

-----------------------------------------------------------------------------
(* TP1.c *)

(* A cell that the child has taken and not announced, and a character that *)
(* it has counted and not announced: a killed child leaves them so.        *)
Held == taille - (plein1 + vide1 + TP1!Taking)
Counted == count - (plein1 + TP1!Taking)

(* The characters the parent has received                                  *)
Got == num_char - 1 - (plein1 + TP1!Taking)

(* The semaphores count the cells, whoever was killed, and nobody comes to *)
(* the register where a child was killed that had its mutex.               *)
ShmCounts ==
  /\ parent = "fork" => child = "none"
  /\ parent = "shift" => mutex1 = 0 /\ child \notin {"count", "V"}
  /\ child \in {"count", "V"} => mutex1 = 0
  /\ mutex1 = 0 /\ parent # "shift" => child \in {"count", "V", "killed"}
  /\ child \in {"none", "P", "ended"} => Held = 0 /\ Counted = 0
  /\ child \in {"mutex", "count"} => Held = 1 /\ Counted = 0
  /\ child \in {"V", "plein"} => Held = 1 /\ Counted = 1
  /\ Held \in 0 .. 1 /\ Counted \in 0 .. Held
  /\ Got >= 0 /\ (child # "ended" => num_char <= nbTour + 1)

(* The message of TP1.c is one of numbers, and ends with its only 0.       *)
LEMMA ShmMessage ==
  /\ TP1!message_to_send \in Seq(Nat) /\ Len(TP1!message_to_send) = nbTour + 1
  /\ \A x \in 1 .. nbTour : TP1!message_to_send[x] = x
  /\ TP1!message_to_send[nbTour + 1] = TP1!NUL
<1> DEFINE s == [x \in 1 .. nbTour |-> x]
<1>1. s \in [1 .. nbTour -> Nat]
  BY TextAssumption
<1>2. s \in Seq(Nat) /\ Len(s) = nbTour /\ \A x \in 1 .. nbTour : s[x] = x
  BY <1>1, TextAssumption, SeqDef, LenProperties
<1>3. TP1!message_to_send = s \o <<TP1!NUL>> /\ TP1!NUL \in Nat
  BY DEF TP1!message_to_send, TP1!NUL
<1> HIDE DEF s
<1>4. TP1!message_to_send = Append(s, TP1!NUL)
  BY <1>2, <1>3
<1> QED BY <1>2, <1>3, <1>4, AppendProperties, TextAssumption

(* So its characters are those of the type, and only the last one is 0.    *)
LEMMA ShmCharacter ==
  ASSUME NEW x \in 1 .. nbTour + 1
  PROVE  /\ TP1!message_to_send[x] \in 0 .. nbTour
         /\ TP1!message_to_send[x] = TP1!NUL <=> x = nbTour + 1
<1>1. CASE x = nbTour + 1
  BY <1>1, ShmMessage, TextAssumption DEF TP1!NUL
<1>2. CASE x \in 1 .. nbTour
  BY <1>2, ShmMessage, TextAssumption DEF TP1!NUL
<1> QED BY <1>1, <1>2, TextAssumption

(* TP1.c: the variables keep their types and the semaphores count the      *)
(* cells.                                                                  *)
THEOREM ShmTypeAndCounts == TP1!Spec => [](TP1!TypeOK /\ ShmCounts)
<1> USE TailleAssumption, TextAssumption DEF TP1!Taking
<1>1. TP1!Init => TP1!TypeOK /\ ShmCounts
  BY DEF TP1!Init, TP1!TypeOK, ShmCounts, Held, Counted, Got, TP1!NUL
<1>2. TP1!TypeOK /\ ShmCounts /\ [TP1!Next]_(TP1!vars) => (TP1!TypeOK /\ ShmCounts)'
  <2> SUFFICES ASSUME TP1!TypeOK, ShmCounts, [TP1!Next]_(TP1!vars)
               PROVE  (TP1!TypeOK /\ ShmCounts)'
    OBVIOUS
  <2> USE DEF TP1!TypeOK, ShmCounts, Held, Counted, Got, TP1!sems, TP1!shm, TP1!ofChild, TP1!ofParent
  <2>1. CASE UNCHANGED TP1!vars
    BY <2>1 DEF TP1!vars
  <2>2. CASE TP1!Fork
    BY <2>2 DEF TP1!Fork
  <2>3. CASE TP1!placer
    <3>1. TP1!message_to_send[num_char] \in 0 .. nbTour
      BY <2>3, ShmCharacter DEF TP1!placer
    <3> QED BY <2>3, <3>1 DEF TP1!placer
  <2>4. CASE TP1!VPlein
    <3>1. TP1!message_to_send[num_char] = TP1!NUL <=> num_char = nbTour + 1
      BY <2>4, ShmCharacter DEF TP1!VPlein
    <3> QED BY <2>4, <3>1 DEF TP1!VPlein
  <2>10. CASE TP1!PVide
    BY <2>10 DEF TP1!PVide
  <2>11. CASE TP1!PlacerCount
    BY <2>11 DEF TP1!PlacerCount
  <2>12. CASE TP1!VMutex
    BY <2>12 DEF TP1!VMutex
  <2>5. CASE TP1!Killed
    BY <2>5 DEF TP1!Killed
  <2>6. CASE TP1!PrendreLettre
    BY <2>6 DEF TP1!PrendreLettre
  <2>7. CASE TP1!PrendreShift
    BY <2>7 DEF TP1!PrendreShift
  <2>8. CASE TP1!PrendreCount
    BY <2>8 DEF TP1!PrendreCount
  <2>9. CASE TP1!superFree
    BY <2>9 DEF TP1!superFree
  <2> QED BY <2>1, <2>2, <2>3, <2>4, <2>5, <2>6, <2>7, <2>8, <2>9, <2>10, <2>11, <2>12
          DEF TP1!Next, TP1!producteur, TP1!consomateur
<1> QED BY <1>1, <1>2, PTL DEF TP1!Spec

(* Every character is where its order in the message says, and memory is   *)
(* removed when the last one has arrived.                                  *)
InRegister ==
  /\ message_to_receive = Part(TP1!message_to_send, 0, Got)
  /\ parent = "shift" => lettre = TP1!message_to_send[Got + 1]
  /\ \A x \in 1 .. count - TP1!Taking :
       cells1[TP1!Place(x)] = TP1!message_to_send[Got + TP1!Taking + x]
  /\ child = "count" => cells1[taille - count] = TP1!message_to_send[num_char]
  /\ parent = "wait" => Got = nbTour + 1
  /\ ~ipc => parent = "ended" /\ child \in {"ended", "killed"} /\ Got = nbTour + 1

(* TP1.c: no character is lost, changed, doubled or overtaken, whoever is  *)
(* killed.                                                                 *)
THEOREM ShmCorrect == TP1!Spec => []InRegister
<1> USE TailleAssumption, TextAssumption DEF TP1!Taking
<1>1. TP1!Init => InRegister
  <2> SUFFICES ASSUME TP1!Init PROVE InRegister
    OBVIOUS
  <2>1. Got = 0 /\ message_to_receive = <<>>
    BY DEF TP1!Init, Got
  <2>2. Part(TP1!message_to_send, 0, 0) = <<>>
    BY DEF Part
  <2> QED BY <2>1, <2>2 DEF TP1!Init, InRegister
<1>2. TP1!TypeOK /\ ShmCounts /\ TP1!TypeOK' /\ InRegister /\ [TP1!Next]_(TP1!vars) => InRegister'
  <2> SUFFICES ASSUME TP1!TypeOK, ShmCounts, InRegister, TP1!TypeOK', [TP1!Next]_(TP1!vars)
               PROVE  InRegister'
    OBVIOUS
  <2>0. /\ Got \in 0 .. nbTour + 1 /\ Got = num_char - 1 - (plein1 + TP1!Taking)
        /\ count = plein1 + TP1!Taking + Counted /\ Counted \in 0 .. 1
        /\ child \in {"P", "mutex", "count"} => Counted = 0
        /\ child \in {"V", "plein"} => Counted = 1
    BY DEF TP1!TypeOK, ShmCounts, Got, Counted, Held
  <2> USE DEF TP1!TypeOK, ShmCounts, TP1!sems, TP1!shm, TP1!ofChild, TP1!ofParent
  <2>1. CASE UNCHANGED TP1!vars
    BY <2>1 DEF TP1!vars, InRegister, Got, TP1!Place, Part
  <2>2. CASE TP1!Fork
    BY <2>2 DEF TP1!Fork, InRegister, Got, TP1!Place, Part
  <2>3. CASE TP1!Killed
    BY <2>3 DEF TP1!Killed, InRegister, Got, TP1!Place, Part
  <2>4. CASE TP1!placer
    <3>1. Got' = Got /\ TP1!Taking' = 0 /\ TP1!Taking = 0
      BY <2>4 DEF TP1!placer, Got
    <3>2. Part(TP1!message_to_send, 0, Got)' = Part(TP1!message_to_send, 0, Got)
      BY <3>1 DEF Part
    <3> QED BY <2>4, <3>1, <3>2 DEF TP1!placer, InRegister, TP1!Place
  <2>5. CASE TP1!PlacerCount
    <3>1. Got' = Got
      BY <2>5 DEF TP1!PlacerCount, Got
    <3>2. Part(TP1!message_to_send, 0, Got)' = Part(TP1!message_to_send, 0, Got)
      BY <3>1 DEF Part
    <3>3. num_char = Got + (count + 1)
      BY <2>0, <2>5 DEF TP1!PlacerCount
    <3>4. /\ parent # "shift" /\ parent' = parent /\ count' = count + 1 /\ cells1' = cells1
          /\ child' # "count" /\ child = "count" /\ UNCHANGED <<ipc, message_to_receive, lettre>>
      BY <2>5 DEF TP1!PlacerCount
    <3>5. \A x \in 1 .. count : cells1[taille + 1 - x] = TP1!message_to_send[Got + x]
      BY <2>0, <3>4 DEF InRegister, TP1!Place
    <3>6. cells1[taille + 1 - (count + 1)] = TP1!message_to_send[Got + (count + 1)]
      <4>1. taille + 1 - (count + 1) = taille - count
        OBVIOUS
      <4> QED BY <3>3, <3>4, <4>1 DEF InRegister
    <3>7. \A x \in 1 .. count + 1 : cells1[taille + 1 - x] = TP1!message_to_send[Got + x]
      <4>1. ASSUME NEW x \in 1 .. count + 1
            PROVE  cells1[taille + 1 - x] = TP1!message_to_send[Got + x]
        <5>1. x \in 1 .. count \/ x = count + 1
          OBVIOUS
        <5> QED BY ONLY <5>1, <3>5, <3>6
      <4> QED BY <4>1
    <3>8. \A x \in 1 .. (count - TP1!Taking)' :
            cells1'[TP1!Place(x)'] = TP1!message_to_send[(Got + TP1!Taking)' + x]
      BY <2>0, <3>1, <3>4, <3>7 DEF TP1!Place
    <3>9. ipc /\ parent' # "shift" /\ (parent' = "wait" => Got' = nbTour + 1)
      BY <3>1, <3>4 DEF InRegister
    <3>10. message_to_receive' = Part(TP1!message_to_send, 0, Got)'
      BY <3>2, <3>4 DEF InRegister
    <3> QED BY ONLY <3>4, <3>8, <3>9, <3>10 DEF InRegister
  <2>6. CASE TP1!PrendreLettre
    <3>1. Got' = Got
      BY <2>6 DEF TP1!PrendreLettre, Got
    <3>2. Part(TP1!message_to_send, 0, Got)' = Part(TP1!message_to_send, 0, Got)
      BY <3>1 DEF Part
    <3>3. \A x \in 1 .. count : cells1[taille + 1 - x] = TP1!message_to_send[Got + x]
      BY <2>0, <2>6 DEF TP1!PrendreLettre, InRegister, TP1!Place
    <3>4. ASSUME NEW x \in 1 .. count - 1
          PROVE  cells1[taille - x] = TP1!message_to_send[Got + 1 + x]
      <4>1. x + 1 \in 1 .. count /\ taille + 1 - (x + 1) = taille - x
            /\ Got + (x + 1) = Got + 1 + x
        BY <2>0
      <4>2. cells1[taille + 1 - (x + 1)] = TP1!message_to_send[Got + (x + 1)]
        BY <3>3, <4>1
      <4> QED BY <4>1, <4>2
    <3>5. lettre' = TP1!message_to_send[Got + 1] /\ count >= 1
      <4>1. plein1 > 0 /\ parent # "shift" /\ lettre' = cells1[taille]
        BY <2>6 DEF TP1!PrendreLettre
      <4>2. count >= 1 /\ 1 \in 1 .. count /\ taille + 1 - 1 = taille
        BY <2>0, <4>1
      <4> QED BY ONLY <3>3, <4>1, <4>2
    <3>6. child \notin {"count", "V"} /\ child' = child
      BY <2>6 DEF TP1!PrendreLettre
    <3> QED BY <2>0, <2>6, <3>1, <3>2, <3>4, <3>5, <3>6
            DEF TP1!PrendreLettre, InRegister, TP1!Place
  <2>7. CASE TP1!PrendreShift
    <3>1. Got' = Got
      BY <2>7 DEF TP1!PrendreShift, Got
    <3>2. Part(TP1!message_to_send, 0, Got)' = Part(TP1!message_to_send, 0, Got)
      BY <3>1 DEF Part
    <3>3. /\ parent = "shift" /\ i \in 1 .. taille /\ i > 1 /\ i' = i - 1
          /\ cells1 \in [1 .. taille -> 0 .. nbTour]
          /\ cells1' = [cells1 EXCEPT ![i] = cells1[i - 1]]
          /\ child # "count" /\ ipc
          /\ UNCHANGED <<count, child, parent, ipc, message_to_receive, lettre>>
      BY <2>7 DEF TP1!PrendreShift, InRegister
    <3>4. ASSUME NEW x \in 1 .. count - 1
          PROVE  cells1'[TP1!Place(x)'] = cells1[TP1!Place(x)]
      <4>1. taille \in Nat /\ x \in 1 .. taille - 1
        OBVIOUS
      <4> QED BY ONLY <3>3, <4>1 DEF TP1!Place
    <3>5. \A x \in 1 .. (count - TP1!Taking)' :
            cells1'[TP1!Place(x)'] = TP1!message_to_send[(Got + TP1!Taking)' + x]
      BY <3>1, <3>3, <3>4 DEF InRegister
    <3> QED BY <3>1, <3>2, <3>3, <3>5 DEF InRegister
  <2>8. CASE TP1!PrendreCount
    <3>1. Got' = Got + 1 /\ Got + 1 \in 1 .. nbTour + 1
      BY <2>0, <2>8 DEF TP1!PrendreCount, Got
    <3>2. message_to_receive' = Part(TP1!message_to_send, 0, Got)'
      <4>1. message_to_receive' = Append(Part(TP1!message_to_send, 0, Got),
                                         TP1!message_to_send[Got + 1])
        BY <2>8 DEF TP1!PrendreCount, InRegister
      <4>2. /\ Got \in Nat /\ 0 \in Nat /\ 0 + Got < Len(TP1!message_to_send)
            /\ TP1!message_to_send \in Seq(Nat) /\ 0 + Got + 1 = Got + 1
        BY <2>0, <3>1, ShmMessage
      <4>3. Part(TP1!message_to_send, 0, Got + 1)
              = Append(Part(TP1!message_to_send, 0, Got), TP1!message_to_send[0 + Got + 1])
        BY ONLY <4>2, PartGrows
      <4>4. Part(TP1!message_to_send, 0, Got)' = Part(TP1!message_to_send, 0, Got + 1)
        BY <3>1 DEF Part
      <4> QED BY <4>1, <4>2, <4>3, <4>4
    <3>3. lettre = TP1!NUL <=> Got + 1 = nbTour + 1
      BY <2>8, <3>1, ShmCharacter DEF TP1!PrendreCount, InRegister
    <3>4. /\ parent = "shift" /\ parent' # "shift" /\ count' = count - 1 /\ cells1' = cells1
          /\ child # "count" /\ child' = child /\ ipc' = ipc
          /\ parent' = "wait" => Got' = nbTour + 1
      BY <2>8, <3>1, <3>3 DEF TP1!PrendreCount
    <3>5. \A x \in 1 .. count' : cells1'[taille + 1 - x] = TP1!message_to_send[Got' + x]
      BY <2>0, <2>8, <3>1, <3>4 DEF TP1!PrendreCount, InRegister, TP1!Place
    <3>6. \A x \in 1 .. (count - TP1!Taking)' :
            cells1'[TP1!Place(x)'] = TP1!message_to_send[(Got + TP1!Taking)' + x]
      BY <2>0, <3>1, <3>4, <3>5 DEF TP1!Place
    <3>7. ~ipc => FALSE
      BY <3>4 DEF InRegister
    <3> QED BY ONLY <3>2, <3>4, <3>6, <3>7 DEF InRegister
  <2>9. CASE TP1!superFree
    BY <2>9 DEF TP1!superFree, InRegister, Got, TP1!Place, Part
  <2>10. CASE TP1!PVide \/ TP1!VMutex
    BY <2>10 DEF TP1!PVide, TP1!VMutex, InRegister, Got, TP1!Place, Part
  <2>11. CASE TP1!VPlein
    <3>1. Got' = Got
      BY <2>11 DEF TP1!VPlein, Got
    <3>2. Part(TP1!message_to_send, 0, Got)' = Part(TP1!message_to_send, 0, Got)
      BY <3>1 DEF Part
    <3> QED BY <2>11, <3>1, <3>2 DEF TP1!VPlein, InRegister, TP1!Place
  <2> QED BY <2>1, <2>2, <2>3, <2>4, <2>5, <2>6, <2>7, <2>8, <2>9, <2>10, <2>11
          DEF TP1!Next, TP1!producteur, TP1!consomateur
<1> QED BY <1>1, <1>2, ShmTypeAndCounts, PTL DEF TP1!Spec

(* What is on its way, and what has arrived with what the parent holds,    *)
(* are parts of the message.                                               *)
ShmArrived == Got + TP1!Taking
ShmWaiting == count - TP1!Taking
ShmParts ==
  /\ TP1!Queue = Part(TP1!message_to_send, ShmArrived, ShmWaiting)
  /\ TP1!Received = Part(TP1!message_to_send, 0, ShmArrived)
  /\ ShmArrived \in Nat /\ ShmWaiting \in Nat /\ ShmArrived + ShmWaiting <= nbTour + 1

(* TP1.c: the same for the shift register.                                 *)
LEMMA ShmHolds ==
  ASSUME TP1!TypeOK, ShmCounts, InRegister
  PROVE  ShmParts
<1> USE TailleAssumption, TextAssumption
<1> DEFINE M == TP1!message_to_send
<1>1. /\ Got \in Nat /\ ShmArrived \in Nat /\ ShmWaiting \in Nat
      /\ ShmArrived + ShmWaiting <= nbTour + 1
  BY DEF TP1!TypeOK, ShmCounts, Held, Counted, Got, ShmArrived, ShmWaiting, TP1!Taking
<1>2. M \in Seq(Nat) /\ Len(M) = nbTour + 1
  BY ShmMessage
<1>3. \A x \in 1 .. ShmWaiting : cells1[TP1!Place(x)] = M[ShmArrived + x]
  BY <1>1 DEF InRegister, ShmArrived, ShmWaiting
<1>4. TP1!Queue = Part(M, ShmArrived, ShmWaiting)
  BY <1>1, <1>3 DEF TP1!Queue, ShmWaiting, Part
<1> HIDE DEF M
<1>5. message_to_receive = Part(M, 0, Got)
  BY DEF InRegister, M
<1>6. CASE parent = "shift"
  <2>1. TP1!Received = message_to_receive \o <<lettre>> /\ lettre = M[Got + 1]
    BY <1>6 DEF TP1!Received, InRegister, M
  <2>2. ShmArrived = Got + 1 /\ Got + 1 <= nbTour + 1
    BY <1>1, <1>6 DEF ShmArrived, TP1!Taking
  <2>3. 0 + Got < Len(M) /\ 0 + Got <= Len(M) /\ 0 \in Nat /\ 0 + Got + 1 = Got + 1
    BY <1>1, <1>2, <2>2
  <2>4. Part(M, 0, Got) \in Seq(Nat)
    BY ONLY <1>1, <1>2, <2>3, PartIsSequence
  <2>5. Part(M, 0, Got + 1) = Append(Part(M, 0, Got), M[0 + Got + 1])
    BY ONLY <1>1, <1>2, <2>3, PartGrows
  <2>6. lettre \in Nat
    BY DEF TP1!TypeOK
  <2>7. message_to_receive \o <<lettre>> = Append(message_to_receive, lettre)
    BY <1>5, <2>4, <2>6
  <2>8. TP1!Received = Part(M, 0, ShmArrived)
    BY <1>5, <2>1, <2>2, <2>3, <2>5, <2>7
  <2> QED BY <1>1, <1>4, <2>8 DEF ShmParts, M
<1>7. CASE parent # "shift"
  <2>1. TP1!Received = message_to_receive \o <<>> /\ ShmArrived = Got
    BY <1>1, <1>7 DEF TP1!Received, ShmArrived, TP1!Taking
  <2>2. 0 + Got <= Len(M) /\ 0 \in Nat
    BY <1>1, <1>2, <2>1
  <2>3. Part(M, 0, Got) \in Seq(Nat)
    BY ONLY <1>1, <1>2, <2>2, PartIsSequence
  <2>4. TP1!Received = Part(M, 0, ShmArrived)
    BY <1>5, <2>1, <2>3
  <2> QED BY <1>1, <1>4, <2>4 DEF ShmParts, M
<1> QED BY <1>6, <1>7

(* TP1.c is a bounded first-in first-out channel, for any size of the      *)
(* register and any message, whoever is killed: it puts when a character   *)
(* is counted, and gets when the parent reads the last cell.               *)
THEOREM ShmImplementsChannel == TP1!Spec => TP1!IsChannel
<1> USE TailleAssumption, TextAssumption
<1>1. TP1!Init => TP1!Channel!Init
  <2> SUFFICES ASSUME TP1!Init PROVE TP1!Queue = <<>> /\ TP1!Received = <<>>
    BY DEF TP1!Channel!Init
  <2> QED BY DEF TP1!Init, TP1!Queue, TP1!Received, TP1!Taking
<1>2. TP1!TypeOK /\ ShmCounts /\ InRegister => ShmParts
  BY ShmHolds
<1>3. TP1!TypeOK /\ ShmCounts /\ ShmParts /\ ShmParts' /\ [TP1!Next]_(TP1!vars)
        => [TP1!Channel!Next]_<<TP1!Queue, TP1!Received>>
  <2> SUFFICES ASSUME TP1!TypeOK, ShmCounts, ShmParts, ShmParts', [TP1!Next]_(TP1!vars)
               PROVE  [TP1!Channel!Next]_<<TP1!Queue, TP1!Received>>
    OBVIOUS
  <2> DEFINE M == TP1!message_to_send
  <2>1. /\ TP1!Queue = Part(M, ShmArrived, ShmWaiting) /\ TP1!Received = Part(M, 0, ShmArrived)
        /\ ShmArrived \in Nat /\ ShmWaiting \in Nat /\ ShmArrived + ShmWaiting <= nbTour + 1
    BY DEF ShmParts
  <2>2. /\ TP1!Queue' = Part(M, ShmArrived', ShmWaiting') /\ TP1!Received' = Part(M, 0, ShmArrived')
        /\ ShmArrived' \in Nat /\ ShmWaiting' \in Nat /\ ShmArrived' + ShmWaiting' <= nbTour + 1
    BY DEF ShmParts, Part, TP1!message_to_send
  <2>3. M \in Seq(Nat) /\ Len(M) = nbTour + 1
    BY ShmMessage
  <2> HIDE DEF M
  <2>4. CASE ShmArrived' = ShmArrived /\ ShmWaiting' = ShmWaiting
    BY <2>1, <2>2, <2>4
  <2>5. CASE TP1!PlacerCount
    <3>1. ShmArrived' = ShmArrived /\ ShmWaiting' = ShmWaiting + 1
      BY <2>5 DEF TP1!PlacerCount, TP1!sems, TP1!ofParent, ShmArrived, ShmWaiting, Got, TP1!Taking,
         TP1!TypeOK, ShmCounts
    <3>2. ShmWaiting < taille
      BY <2>5 DEF TP1!PlacerCount, TP1!TypeOK, ShmCounts, TP1!Taking, Held, Counted, ShmWaiting
    <3>3. ShmArrived + ShmWaiting < Len(M)
      BY <2>1, <2>2, <2>3, <3>1
    <3>4. /\ Len(TP1!Received) = ShmArrived /\ Len(TP1!Queue) = ShmWaiting
          /\ TP1!Queue' = Append(TP1!Queue, M[Len(TP1!Received) + Len(TP1!Queue) + 1])
      <4>1. /\ Len(Part(M, 0, ShmArrived)) = ShmArrived /\ Len(Part(M, ShmArrived, ShmWaiting)) = ShmWaiting
            /\ Part(M, ShmArrived, ShmWaiting + 1)
                 = Append(Part(M, ShmArrived, ShmWaiting),
                          M[Len(Part(M, 0, ShmArrived)) + Len(Part(M, ShmArrived, ShmWaiting)) + 1])
        <5>1. /\ M \in Seq(Nat) /\ ShmArrived \in Nat /\ ShmWaiting \in Nat
              /\ ShmArrived + ShmWaiting < Len(M)
          BY <2>1, <2>3, <3>3
        <5> QED BY ONLY <5>1, PutPart
      <4> QED BY ONLY <2>1, <2>2, <3>1, <4>1
    <3>5. TP1!Received' = TP1!Received
      BY <2>1, <2>2, <3>1
    <3>6. TP1!Channel!Put
      BY <3>2, <3>3, <3>4, <3>5 DEF TP1!Channel!Put, TP1!Channel!Sent, M
    <3> QED BY <3>6 DEF TP1!Channel!Next
  <2>6. CASE TP1!PrendreLettre
    <3>1. ShmArrived' = ShmArrived + 1 /\ ShmWaiting' = ShmWaiting - 1 /\ ShmWaiting # 0
      BY <2>6 DEF TP1!PrendreLettre, TP1!shm, TP1!ofChild, ShmArrived, ShmWaiting, Got, TP1!Taking,
         TP1!TypeOK, ShmCounts, Held, Counted
    <3>2. ShmArrived + ShmWaiting <= Len(M) /\ ShmWaiting \in Nat \ {0}
      BY <2>1, <2>3, <3>1
    <3>3. /\ TP1!Queue # <<>> /\ TP1!Queue' = Tail(TP1!Queue)
          /\ TP1!Received' = Append(TP1!Received, Head(TP1!Queue))
      BY ONLY <2>1, <2>2, <2>3, <3>1, <3>2, GetPart
    <3>4. TP1!Channel!Get
      BY <3>3 DEF TP1!Channel!Get
    <3> QED BY <3>4 DEF TP1!Channel!Next
  <2> USE DEF TP1!sems, TP1!shm, TP1!ofChild, TP1!ofParent, ShmArrived, ShmWaiting, Got, TP1!Taking
  <2>7. CASE UNCHANGED TP1!vars
    BY <2>4, <2>7 DEF TP1!vars
  <2>8. CASE TP1!Fork
    BY <2>4, <2>8 DEF TP1!Fork
  <2>9. CASE TP1!placer
    BY <2>4, <2>9 DEF TP1!placer
  <2>10. CASE TP1!Killed
    BY <2>4, <2>10 DEF TP1!Killed
  <2>11. CASE TP1!PrendreShift
    BY <2>4, <2>11 DEF TP1!PrendreShift
  <2>12. CASE TP1!PrendreCount
    <3>1. ShmArrived' = ShmArrived /\ ShmWaiting' = ShmWaiting
      BY <2>12 DEF TP1!PrendreCount, TP1!TypeOK
    <3> QED BY <2>4, <3>1
  <2>13. CASE TP1!superFree
    BY <2>4, <2>13 DEF TP1!superFree
  <2>14. CASE TP1!PVide \/ TP1!VMutex
    BY <2>4, <2>14 DEF TP1!PVide, TP1!VMutex
  <2>15. CASE TP1!VPlein
    <3>1. ShmArrived' = ShmArrived /\ ShmWaiting' = ShmWaiting
      BY <2>15 DEF TP1!VPlein, TP1!TypeOK
    <3> QED BY <2>4, <3>1
  <2> QED BY <2>5, <2>6, <2>7, <2>8, <2>9, <2>10, <2>11, <2>12, <2>13, <2>14, <2>15
          DEF TP1!Next, TP1!producteur, TP1!consomateur
<1> QED BY <1>1, <1>2, <1>3, ShmTypeAndCounts, ShmCorrect, PTL
        DEF TP1!Spec, TP1!IsChannel, TP1!Channel!Spec

(* Nobody touches the memory of TP1.c after it has been removed, and it is *)
(* removed only when the whole message has arrived.                        *)
THEOREM ShmRemovedLast == TP1!Spec => []TP1!RemovedLast
<1>1. TP1!TypeOK /\ InRegister => TP1!RemovedLast
  <2> SUFFICES ASSUME InRegister, ~ipc
               PROVE  child \in {"ended", "killed"} /\ message_to_receive = TP1!message_to_send
    BY DEF TP1!RemovedLast
  <2>1. /\ child \in {"ended", "killed"}
        /\ message_to_receive = Part(TP1!message_to_send, 0, nbTour + 1)
    BY DEF InRegister
  <2>2. /\ TP1!message_to_send \in Seq(Nat) /\ Len(TP1!message_to_send) = nbTour + 1
        /\ nbTour + 1 \in Nat
    BY ShmMessage, TextAssumption
  <2>3. /\ Part(TP1!message_to_send, 0, nbTour + 1) \in Seq(Nat)
        /\ Len(Part(TP1!message_to_send, 0, nbTour + 1)) = nbTour + 1
    BY <2>2, PartIsSequence
  <2>4. \A x \in 1 .. nbTour + 1 :
          Part(TP1!message_to_send, 0, nbTour + 1)[x] = TP1!message_to_send[x]
    BY <2>2 DEF Part
  <2> QED BY <2>1, <2>2, <2>3, <2>4, SeqEqual
<1> QED BY <1>1, ShmTypeAndCounts, ShmCorrect, PTL

-----------------------------------------------------------------------------
(* tp_project.c *)

(* Whether a thread is in a critical section, is between its access and    *)
(* the end of its count, or has passed its test and not yet read what it   *)
(* counts                                                                  *)
AtV(t) == IF pc[t] = "V" THEN 1 ELSE 0
Uncounted(t) == IF pc[t] \in {"V", "load", "store"} THEN 1 ELSE 0
Passed(t) == IF pc[t] \in {"P", "V", "load"} THEN 1 ELSE 0
Idle(t) == pc[t] \in {"test", "out"}

(* The variables are functions of ring and thread; a cell of a ring is     *)
(* free, full or in the hands of a thread, which then has the mutex.       *)
Holders(r) == (IF TPP!Ring("server") = r THEN AtV("server") ELSE 0)
              + (IF TPP!Ring("brain") = r THEN AtV("brain") ELSE 0)
              + (IF TPP!Ring("client") = r THEN AtV("client") ELSE 0)
SemsExact ==
  /\ pleins \in [TPP!Rings -> Nat] /\ vides \in [TPP!Rings -> Nat] /\ mutexes \in [TPP!Rings -> Nat]
  /\ \A r \in TPP!Rings : /\ pleins[r] + vides[r] + Holders(r) = turns
                          /\ mutexes[r] + Holders(r) = 1

(* The brain counts tourProd with the server in its second half.  Each of  *)
(* them may add one after it has found it below its end, and the last one  *)
(* to do so finds the other idle.                                          *)
BrainPassed == IF half = 2 THEN Passed("brain") ELSE 0
BrainStores == half = 2 /\ pc["brain"] = "store"
ProdWithin ==
  /\ tourProds \in Nat /\ tourProds + Passed("server") + BrainPassed <= text + 1
  /\ pc["server"] = "store" => loaded["server"] + BrainPassed <= text
  /\ BrainStores => loaded["brain"] + Passed("server") <= text
  /\ half = 2 /\ text <= tourProds 
       => (Passed("server") = 0 \/ Idle("brain")) /\ (Passed("brain") = 0 \/ Idle("server"))
  /\ pc["server"] = "store" /\ loaded["server"] = text
       => half = 2 /\ tourProds = text /\ Idle("brain")
  /\ BrainStores /\ loaded["brain"] = text => tourProds = text /\ Idle("server")
  /\ half = 1 => tourProds <= text /\ (Passed("server") = 0 \/ tourProds < text)

(* tourCons has one thread at a time that counts it: while the brain does, *)
(* the client finds nothing to take.                                       *)
Consumer == IF half = 1 THEN "brain" ELSE "client"
ConsWithin ==
  /\ tourConss \in 0 .. text
  /\ pc[Consumer] \in {"P", "V", "load", "store"} => tourConss < text
  /\ pc[Consumer] = "store" => loaded[Consumer] = tourConss
  /\ half = 1 => pc["client"] \in {"test", "P", "out"} /\ pleins["sending"] = 0

Typed ==
  /\ pc \in [TPP!Threads -> {"test", "P", "V", "load", "store", "out"}]
  /\ half \in {1, 2} /\ loaded \in [TPP!Threads -> 0 .. text] /\ raced \in BOOLEAN
  /\ buffer \in [TPP!Rings -> [0 .. turns - 1 -> 0 .. text]]
  /\ chaineRecue3 \in [0 .. text -> 0 .. text]

TurnsInv == Typed /\ SemsExact /\ ProdWithin /\ ConsWithin

(* These ranges are those of the type invariant.                           *)
LEMMA TurnsTyped == TurnsInv => TPP!TypeOK
<1> SUFFICES ASSUME TurnsInv PROVE TPP!TypeOK
  OBVIOUS
<1> USE TailleAssumption, TextAssumption DEF TPP!Rings
<1>0. Typed /\ SemsExact /\ ProdWithin /\ ConsWithin
  BY DEF TurnsInv
<1>1. \A r \in TPP!Rings : Holders(r) \in Nat
  BY DEF Holders, AtV
<1>2. /\ pleins \in [TPP!Rings -> 0 .. turns] /\ vides \in [TPP!Rings -> 0 .. turns]
      /\ mutexes \in [TPP!Rings -> 0 .. 1]
  BY <1>0, <1>1 DEF SemsExact
<1>3. tourProds \in 0 .. text + 1 /\ tourConss \in 0 .. text
  BY <1>0 DEF ProdWithin, ConsWithin, Passed, BrainPassed
<1>4. \A r \in TPP!Rings : buffer[r] \in [0 .. turns - 1 -> 0 .. text]
  BY <1>0 DEF Typed
<1> QED BY <1>0, <1>2, <1>3, <1>4 DEF Typed, TPP!TypeOK

(* All of this holds at the start, and every step keeps it.                *)
LEMMA TurnsInit == TPP!Init => TurnsInv
<1> SUFFICES ASSUME TPP!Init PROVE TurnsInv
  OBVIOUS
<1> USE TailleAssumption, TextAssumption DEF TPP!Init
<1>1. Typed
  <2>1. buffer \in [TPP!Rings -> [0 .. turns - 1 -> 0 .. text]]
    OBVIOUS
  <2>2. chaineRecue3 \in [0 .. text -> 0 .. text] /\ loaded \in [TPP!Threads -> 0 .. text]
    OBVIOUS
  <2> QED BY <2>1, <2>2 DEF Typed
<1>2. \A t \in TPP!Threads : pc[t] = "test"
  BY DEF TPP!Threads
<1>3. SemsExact
  <2>1. \A r \in TPP!Rings : Holders(r) = 0
    BY <1>2 DEF Holders, AtV, TPP!Threads
  <2> QED BY <2>1 DEF SemsExact, TPP!Rings
<1>4. ProdWithin
  BY <1>2 DEF ProdWithin, Passed, BrainPassed, BrainStores, Idle, TPP!Threads
<1>5. ConsWithin
  BY <1>2 DEF ConsWithin, Consumer, TPP!Threads, TPP!Rings
<1> QED BY <1>1, <1>3, <1>4, <1>5 DEF TurnsInv

(* A step takes one thread on.                                             *)
Calls == {"test", "P", "V", "load", "store", "out"}
(* A call of the programs with shared turns moves one thread, the others   *)
(* stay where they are.                                                    *)
LEMMA TurnGoes ==
  ASSUME Typed, NEW t \in TPP!Threads, NEW from, NEW to \in Calls, TPP!Goto(t, from, to)
  PROVE  /\ pc' \in [TPP!Threads -> Calls] /\ pc[t] = from /\ pc'[t] = to
         /\ \A u \in TPP!Threads : u # t => pc'[u] = pc[u]
BY DEF Typed, TPP!Goto, Calls

(* The sums remain when a semaphore of ring r and its mutex change by d.   *)
LEMMA SemsSum ==
  ASSUME SemsExact, NEW r \in TPP!Rings, NEW d \in {-1, 1},
         \A x \in TPP!Rings : /\ Holders(x)' = Holders(x) - (IF x = r THEN d ELSE 0)
                              /\ Holders(x) \in Nat /\ Holders(x)' \in Nat,
         mutexes[r] + d \in Nat /\ mutexes' = [mutexes EXCEPT ![r] = mutexes[r] + d],
         \/ /\ vides[r] + d \in Nat /\ vides' = [vides EXCEPT ![r] = vides[r] + d]
            /\ pleins' = pleins
         \/ /\ pleins[r] + d \in Nat /\ pleins' = [pleins EXCEPT ![r] = pleins[r] + d]
            /\ vides' = vides
  PROVE  SemsExact'
<1>1. /\ pleins \in [TPP!Rings -> Nat] /\ vides \in [TPP!Rings -> Nat]
      /\ mutexes \in [TPP!Rings -> Nat]
  BY DEF SemsExact
<1>2. /\ pleins' \in [TPP!Rings -> Nat] /\ vides' \in [TPP!Rings -> Nat]
      /\ mutexes' \in [TPP!Rings -> Nat]
  BY <1>1
<1>3. ASSUME NEW x \in TPP!Rings
      PROVE  /\ pleins'[x] + vides'[x] = pleins[x] + vides[x] + (IF x = r THEN d ELSE 0)
             /\ mutexes'[x] = mutexes[x] + (IF x = r THEN d ELSE 0)
  BY <1>1
<1>4. ASSUME NEW x \in TPP!Rings
      PROVE  /\ pleins'[x] + vides'[x] + Holders(x)' = turns
             /\ mutexes'[x] + Holders(x)' = 1
  <2>1. /\ pleins[x] + vides[x] + Holders(x) = turns /\ mutexes[x] + Holders(x) = 1
        /\ pleins[x] + vides[x] \in Nat /\ mutexes[x] \in Nat
    BY <1>1 DEF SemsExact
  <2> QED BY <1>3, <2>1, TailleAssumption
<1> QED BY <1>2, <1>4 DEF SemsExact

(* A semaphore taken or given back by the one thread that holds its ring.  *)
LEMMA SemsNext ==
  ASSUME TurnsInv, NEW t \in TPP!Threads, TPP!placer(t) \/ TPP!prendre(t) \/ TPP!V(t)
  PROVE  SemsExact'
<1> USE TailleAssumption DEF TPP!Threads, TPP!Rings
<1>0. Typed /\ SemsExact
  BY DEF TurnsInv
<1>1. PICK r \in TPP!Rings : r = TPP!Ring(t)
  BY DEF TPP!Ring
<1>2. half' = half
  BY DEF TPP!placer, TPP!prendre, TPP!V
<1>3. PICK d \in {-1, 1} : d = IF TPP!V(t) THEN 1 ELSE -1
  OBVIOUS
<1>4. CASE TPP!placer(t) \/ TPP!prendre(t)
  <2>1. pc[t] = "P" /\ pc'[t] = "V" /\ \A u \in TPP!Threads : u # t => pc'[u] = pc[u]
    BY <1>0, <1>4, TurnGoes DEF TPP!placer, TPP!prendre, Calls
  <2>2. d = -1
    BY <1>3, <2>1 DEF TPP!V, TPP!Goto
  <2>3. \A x \in TPP!Rings : /\ Holders(x)' = Holders(x) - (IF x = r THEN d ELSE 0)
                             /\ Holders(x) \in Nat /\ Holders(x)' \in Nat
    BY <1>1, <1>2, <2>1, <2>2 DEF Holders, AtV, TPP!Ring
  <2>4. mutexes[r] + d \in Nat /\ mutexes' = [mutexes EXCEPT ![r] = mutexes[r] + d]
    BY <1>0, <1>1, <1>4, <2>2 DEF TPP!placer, TPP!prendre, SemsExact
  <2>5. \/ /\ vides[r] + d \in Nat /\ vides' = [vides EXCEPT ![r] = vides[r] + d]
           /\ pleins' = pleins
        \/ /\ pleins[r] + d \in Nat /\ pleins' = [pleins EXCEPT ![r] = pleins[r] + d]
           /\ vides' = vides
    BY <1>0, <1>1, <1>4, <2>2 DEF TPP!placer, TPP!prendre, SemsExact
  <2> QED BY ONLY <1>0, <2>3, <2>4, <2>5, SemsSum
<1>5. CASE TPP!V(t)
  <2>1. pc[t] = "V" /\ pc'[t] = "load" /\ \A u \in TPP!Threads : u # t => pc'[u] = pc[u]
    BY <1>0, <1>5, TurnGoes DEF TPP!V, Calls
  <2>2. d = 1
    BY <1>3, <1>5
  <2>3. \A x \in TPP!Rings : /\ Holders(x)' = Holders(x) - (IF x = r THEN d ELSE 0)
                             /\ Holders(x) \in Nat /\ Holders(x)' \in Nat
    BY <1>1, <1>2, <2>1, <2>2 DEF Holders, AtV, TPP!Ring
  <2>4. mutexes[r] + d \in Nat /\ mutexes' = [mutexes EXCEPT ![r] = mutexes[r] + d]
    BY <1>0, <1>1, <1>5, <2>2 DEF TPP!V, SemsExact
  <2>5. \/ /\ vides[r] + d \in Nat /\ vides' = [vides EXCEPT ![r] = vides[r] + d]
           /\ pleins' = pleins
        \/ /\ pleins[r] + d \in Nat /\ pleins' = [pleins EXCEPT ![r] = pleins[r] + d]
           /\ vides' = vides
    BY <1>0, <1>1, <1>5, <2>2 DEF TPP!V, SemsExact
  <2> QED BY ONLY <1>0, <2>3, <2>4, <2>5, SemsSum
<1> QED BY <1>4, <1>5

(* A step that leaves semaphores alone does not begin or end in a critical *)
(* section.                                                                *)
LEMMA SemsStay ==
  ASSUME TurnsInv, NEW t \in TPP!Threads, TPP!Test(t) \/ TPP!Load(t) \/ TPP!Store(t)
  PROVE  SemsExact'
<1> USE DEF TPP!Threads, TPP!Rings
<1>0. Typed /\ SemsExact
  BY DEF TurnsInv
<1>1. /\ pc[t] # "V" /\ pc'[t] # "V" /\ \A u \in TPP!Threads : u # t => pc'[u] = pc[u]
      /\ half' = half \/ (t = "brain" /\ pc[t] = "test")
  <2>1. PICK from \in {"test", "load", "store"}, to \in {"test", "out", "P", "store"} :
          TPP!Goto(t, from, to)
    BY DEF TPP!Test, TPP!Load, TPP!Store
  <2>2. half' = half \/ (t = "brain" /\ pc[t] = "test")
    BY DEF TPP!Test, TPP!Load, TPP!Store, TPP!Goto
  <2> QED BY <1>0, <2>1, <2>2, TurnGoes DEF Calls
<1>2. \A x \in TPP!Rings : Holders(x)' = Holders(x)
  BY <1>1 DEF Holders, AtV, TPP!Ring
<1>3. pleins' = pleins /\ vides' = vides /\ mutexes' = mutexes
  BY DEF TPP!Test, TPP!Load, TPP!Store, TPP!sems
<1> QED BY <1>0, <1>2, <1>3 DEF SemsExact

(* What counts tourProd: a thread that neither tests, reads nor stores     *)
(* changes nothing of it.                                                  *)
LEMMA ProdNext ==
  ASSUME TurnsInv, NEW t \in TPP!Threads, TPP!Thread(t)
  PROVE  ProdWithin'
<1> USE TextAssumption DEF TPP!Threads, Calls
<1>0. Typed /\ ProdWithin
  BY DEF TurnsInv
<1>00. /\ pc["server"] \in Calls /\ pc["brain"] \in Calls /\ pc["client"] \in Calls
       /\ half \in {1, 2} /\ loaded["server"] \in 0 .. text /\ loaded["brain"] \in 0 .. text
  BY <1>0 DEF Typed
<1> USE DEF Passed, BrainPassed, BrainStores, Idle
<1>1. CASE TPP!placer(t) \/ TPP!prendre(t) \/ TPP!V(t)
  <2>1. /\ pc[t] \in {"P", "V"} /\ pc'[t] \in {"V", "load"}
        /\ \A u \in TPP!Threads : u # t => pc'[u] = pc[u]
    BY <1>0, <1>1, TurnGoes DEF TPP!placer, TPP!prendre, TPP!V
  <2>2. UNCHANGED <<half, loaded, tourProds>>
    BY <1>1 DEF TPP!placer, TPP!prendre, TPP!V, TPP!counters
  <2>3. Passed("server")' = Passed("server") /\ BrainPassed' = BrainPassed
    BY <2>1, <2>2
  <2>4. /\ (pc'["server"] = "store") = (pc["server"] = "store")
        /\ (pc'["brain"] = "store") = (pc["brain"] = "store")
        /\ Idle("server")' = Idle("server") /\ Idle("brain")' = Idle("brain")
    BY <2>1
  <2> QED BY <1>0, <2>2, <2>3, <2>4 DEF ProdWithin
<1>2. CASE TPP!Load(t)
  <2>1. /\ pc[t] = "load" /\ pc'[t] = "store"
        /\ \A u \in TPP!Threads : u # t => pc'[u] = pc[u]
    BY <1>0, <1>2, TurnGoes DEF TPP!Load
  <2>2. UNCHANGED <<half, tourProds>> /\ \A u \in TPP!Threads : u # t => loaded'[u] = loaded[u]
    BY <1>0, <1>2 DEF TPP!Load, TPP!counters, Typed
  <2>3. TPP!Produces(t) => loaded'[t] = tourProds
    BY <1>0, <1>2 DEF TPP!Load, TPP!Turn, Typed
  <2>4. CASE t = "server"
    BY <1>0, <1>00, <2>1, <2>2, <2>3, <2>4 DEF ProdWithin, TPP!Produces
  <2>5. CASE t = "brain"
    BY <1>0, <1>00, <2>1, <2>2, <2>3, <2>5 DEF ProdWithin, TPP!Produces
  <2>6. CASE t = "client"
    BY <1>0, <2>1, <2>2, <2>6 DEF ProdWithin
  <2> QED BY <2>4, <2>5, <2>6
<1>3. CASE TPP!Store(t)
  <2>1. /\ pc[t] = "store" /\ pc'[t] = "test"
        /\ \A u \in TPP!Threads : u # t => pc'[u] = pc[u]
    BY <1>0, <1>3, TurnGoes DEF TPP!Store
  <2>2. UNCHANGED <<half, loaded>>
    BY <1>3 DEF TPP!Store
  <2>3. /\ TPP!Produces(t) => tourProds' = loaded[t] + 1 /\ loaded[t] \in 0 .. text
        /\ ~TPP!Produces(t) => tourProds' = tourProds
    BY <1>0, <1>3 DEF TPP!Store, Typed
  <2>4. CASE t = "server"
    BY <1>0, <1>00, <2>1, <2>2, <2>3, <2>4 DEF ProdWithin, TPP!Produces
  <2>5. CASE t = "brain"
    BY <1>0, <1>00, <2>1, <2>2, <2>3, <2>5 DEF ProdWithin, TPP!Produces
  <2>6. CASE t = "client"
    BY <1>0, <2>1, <2>2, <2>3, <2>6 DEF ProdWithin, TPP!Produces
  <2> QED BY <2>4, <2>5, <2>6
<1>4. CASE TPP!Test(t)
  <2>1. /\ pc[t] = "test" /\ pc'[t] \in {"test", "out", "P"}
        /\ \A u \in TPP!Threads : u # t => pc'[u] = pc[u]
    <3>1. PICK to \in {"test", "out", "P"} : TPP!Goto(t, "test", to)
      BY <1>4 DEF TPP!Test
    <3> QED BY <1>0, <3>1, TurnGoes
  <2>2. loaded' = loaded
    BY <1>4 DEF TPP!Test
  <2>3. CASE half' = half
    <3>1. tourProds' = tourProds \/ (tourProds' = 0 /\ t = "brain" /\ half = 1 /\ half' = 2)
      BY <1>4 DEF TPP!Test, TPP!counters
    <3>2. tourProds' = tourProds
      BY <1>0, <2>3, <3>1 DEF Typed
    <3>3. pc'[t] = "P" /\ TPP!Produces(t) => tourProds < text
      BY <1>0, <1>4, <2>1 DEF TPP!Test, TPP!Turn, TPP!Goto, Typed, ProdWithin
    <3>4. CASE t = "server"
      BY <1>0, <1>00, <2>1, <2>2, <2>3, <3>2, <3>3, <3>4 DEF ProdWithin, TPP!Produces
    <3>5. CASE t = "brain"
      BY <1>0, <1>00, <2>1, <2>2, <2>3, <3>2, <3>3, <3>5 DEF ProdWithin, TPP!Produces
    <3>6. CASE t = "client"
      BY <1>0, <2>1, <2>2, <2>3, <3>2, <3>6 DEF ProdWithin
    <3> QED BY <3>4, <3>5, <3>6
  <2>4. CASE half' # half
    <3>1. /\ t = "brain" /\ half = 1 /\ half' = 2 /\ tourProds' = 0 /\ pc'[t] = "test"
      BY <1>0, <1>4, <2>1, <2>4 DEF TPP!Test, TPP!counters, TPP!Goto, Typed
    <3>2. loaded["server"] \in 0 .. text
      BY <1>0 DEF Typed
    <3> QED BY <1>0, <2>1, <2>2, <3>1, <3>2 DEF ProdWithin
  <2> QED BY <2>3, <2>4
<1> QED BY <1>1, <1>2, <1>3, <1>4 DEF TPP!Thread

(* What counts tourCons: one thread at a time                              *)
LEMMA ConsNext ==
  ASSUME TurnsInv, NEW t \in TPP!Threads, TPP!Thread(t)
  PROVE  ConsWithin'
<1> USE TextAssumption DEF TPP!Threads, Calls
<1>0. Typed /\ ConsWithin /\ SemsExact
  BY DEF TurnsInv
<1>00. /\ pc["server"] \in Calls /\ pc["brain"] \in Calls /\ pc["client"] \in Calls
       /\ half \in {1, 2} /\ loaded["client"] \in 0 .. text /\ loaded["brain"] \in 0 .. text
  BY <1>0 DEF Typed
<1>1. t = "client" /\ half = 1
        => ~(TPP!placer(t) \/ TPP!prendre(t) \/ TPP!V(t) \/ TPP!Load(t) \/ TPP!Store(t))
  BY <1>0 DEF ConsWithin, TPP!placer, TPP!prendre, TPP!V, TPP!Load, TPP!Store, TPP!Goto,
     TPP!Produces, TPP!Ring
<1>2. half = 1 /\ t # "client" => pleins'["sending"] = pleins["sending"]
  <2> SUFFICES ASSUME half = 1, t # "client" PROVE pleins'["sending"] = pleins["sending"]
    OBVIOUS
  <2>1. TPP!Ring(t) = "receive"
    BY DEF TPP!Ring
  <2>2. pleins' = pleins \/ \E n : pleins' = [pleins EXCEPT ![TPP!Ring(t)] = n]
    BY DEF TPP!Thread, TPP!Test, TPP!placer, TPP!prendre, TPP!V, TPP!Load, TPP!Store, TPP!sems
  <2> QED BY <1>0, <2>1, <2>2 DEF SemsExact, TPP!Rings
<1>3. CASE TPP!placer(t) \/ TPP!prendre(t) \/ TPP!V(t) \/ TPP!Load(t) \/ TPP!Store(t)
  <2>1. /\ pc[t] \in {"P", "V", "load", "store"}
        /\ \A u \in TPP!Threads : u # t => pc'[u] = pc[u]
        /\ TPP!placer(t) \/ TPP!prendre(t) => pc[t] = "P" /\ pc'[t] = "V"
        /\ TPP!V(t) => pc[t] = "V" /\ pc'[t] = "load"
        /\ TPP!Load(t) => pc[t] = "load" /\ pc'[t] = "store"
        /\ TPP!Store(t) => pc[t] = "store" /\ pc'[t] = "test"
    BY <1>0, <1>3, TurnGoes DEF TPP!placer, TPP!prendre, TPP!V, TPP!Load, TPP!Store
  <2>2. /\ half' = half /\ \A u \in TPP!Threads : u # t => loaded'[u] = loaded[u]
        /\ ~TPP!Load(t) => loaded'[t] = loaded[t]
    BY <1>0, <1>3 DEF TPP!placer, TPP!prendre, TPP!V, TPP!Load, TPP!Store, TPP!counters, Typed
  <2>3. /\ TPP!Load(t) /\ ~TPP!Produces(t) => loaded'[t] = tourConss
        /\ TPP!Store(t) /\ ~TPP!Produces(t) => tourConss' = loaded[t] + 1
        /\ TPP!Produces(t) \/ ~TPP!Store(t) => tourConss' = tourConss
    BY <1>0, <1>3 DEF TPP!placer, TPP!prendre, TPP!V, TPP!Load, TPP!Store, TPP!counters,
       TPP!Turn, Typed
  <2>4. CASE half = 1
    <3>1. t # "client" /\ Consumer = "brain" /\ Consumer' = "brain"
      BY <1>1, <1>3, <2>2, <2>4 DEF Consumer
    <3>2. CASE t = "server"
      BY <1>0, <1>00, <1>2, <2>1, <2>2, <2>3, <2>4, <3>1, <3>2 DEF ConsWithin, TPP!Produces
    <3>3. CASE t = "brain"
      BY <1>0, <1>00, <1>2, <1>3, <2>1, <2>2, <2>3, <2>4, <3>1, <3>3 DEF ConsWithin,
         TPP!Produces
    <3> QED BY <3>1, <3>2, <3>3
  <2>5. CASE half = 2
    <3>1. Consumer = "client" /\ Consumer' = "client"
      BY <2>2, <2>5 DEF Consumer
    <3>2. CASE t = "client"
      BY <1>0, <1>00, <1>3, <2>1, <2>2, <2>3, <2>5, <3>1, <3>2 DEF ConsWithin, TPP!Produces
    <3>3. CASE t \in {"server", "brain"}
      BY <1>0, <1>00, <2>1, <2>2, <2>3, <2>5, <3>1, <3>3 DEF ConsWithin, TPP!Produces
    <3> QED BY <3>2, <3>3
  <2> QED BY <1>00, <2>4, <2>5
<1>4. CASE TPP!Test(t)
  <2>1. /\ pc[t] = "test" /\ pc'[t] \in {"test", "out", "P"}
        /\ \A u \in TPP!Threads : u # t => pc'[u] = pc[u]
    <3>1. PICK to \in {"test", "out", "P"} : TPP!Goto(t, "test", to)
      BY <1>4 DEF TPP!Test
    <3> QED BY <1>0, <3>1, TurnGoes
  <2>2. loaded' = loaded /\ pleins' = pleins
    BY <1>4 DEF TPP!Test, TPP!sems
  <2>3. CASE half' = half
    <3>1. tourConss' = tourConss
      BY <1>0, <1>4, <2>3 DEF TPP!Test, TPP!counters, Typed
    <3>2. pc'[t] = "P" /\ ~TPP!Produces(t) => tourConss < text
      BY <1>0, <1>4, <2>1 DEF TPP!Test, TPP!Turn, TPP!Goto, Typed, ConsWithin
    <3>3. Consumer' = Consumer /\ Consumer \in {"brain", "client"}
      BY <2>3 DEF Consumer
    <3>4. half = 1 => pc'["client"] \in {"test", "P", "out"} /\ pleins'["sending"] = 0
      BY <1>0, <2>1, <2>2 DEF ConsWithin
    <3>5. CASE t = Consumer
      <4>1. ~TPP!Produces(t)
        BY <1>00, <3>5 DEF TPP!Produces, Consumer
      <4> QED BY <1>0, <2>1, <2>2, <2>3, <3>1, <3>2, <3>3, <3>4, <3>5, <4>1 DEF ConsWithin
    <3>6. CASE t # Consumer
      BY <1>0, <2>1, <2>2, <2>3, <3>1, <3>3, <3>4, <3>6 DEF ConsWithin
    <3> QED BY <3>5, <3>6
  <2>4. CASE half' # half
    <3>1. /\ t = "brain" /\ half = 1 /\ half' = 2 /\ tourConss' = 0 /\ pc'[t] = "test"
      BY <1>0, <1>4, <2>1, <2>4 DEF TPP!Test, TPP!counters, TPP!Goto, Typed
    <3>2. Consumer' = "client" /\ pc'["client"] \in {"test", "P", "out"}
      BY <1>0, <2>1, <3>1 DEF ConsWithin, Consumer
    <3> QED BY <2>2, <3>1, <3>2 DEF ConsWithin
  <2> QED BY <2>3, <2>4
<1> QED BY <1>3, <1>4 DEF TPP!Thread

(* The types of the rest: a ring holds what was counted below the end of   *)
(* the text.                                                               *)
LEMMA TypedNext ==
  ASSUME TurnsInv, NEW t \in TPP!Threads, TPP!Thread(t)
  PROVE  Typed'
<1> USE TextAssumption, TailleAssumption DEF TPP!Threads
<1>0. Typed /\ ProdWithin /\ ConsWithin
  BY DEF TurnsInv
<1>1. /\ pc["server"] \in Calls /\ pc["brain"] \in Calls /\ pc["client"] \in Calls
      /\ half \in {1, 2} /\ tourProds \in Nat /\ tourConss \in 0 .. text
  BY <1>0 DEF Typed, Calls, ProdWithin, ConsWithin
<1>2. pc' \in [TPP!Threads -> {"test", "P", "V", "load", "store", "out"}]
  <2>1. PICK from \in Calls, to \in Calls : TPP!Goto(t, from, to)
    BY DEF TPP!Thread, TPP!Test, TPP!placer, TPP!prendre, TPP!V, TPP!Load, TPP!Store, Calls
  <2> QED BY <1>0, <2>1, TurnGoes DEF Calls
<1>3. half' \in {1, 2} /\ raced' \in BOOLEAN
  BY <1>0, <1>1 DEF Typed, TPP!Thread, TPP!Test, TPP!placer, TPP!prendre, TPP!V, TPP!Load,
     TPP!Store
<1>4. Passed("server") \in {0, 1} /\ BrainPassed \in {0, 1}
  BY DEF Passed, BrainPassed
<1>5. loaded' \in [TPP!Threads -> 0 .. text]
  <2>1. CASE TPP!Load(t)
    <3>1. TPP!Turn(t) \in 0 .. text
      <4>1. pc[t] = "load"
        BY <2>1 DEF TPP!Load, TPP!Goto
      <4>2. TPP!Produces(t) => tourProds <= text
        BY <1>0, <1>1, <1>4, <4>1 DEF ProdWithin, TPP!Produces, Passed, BrainPassed
      <4> QED BY <1>1, <4>2 DEF TPP!Turn
    <3> QED BY <1>0, <2>1, <3>1 DEF Typed, TPP!Load
  <2> QED BY <1>0, <2>1 DEF Typed, TPP!Thread, TPP!Test, TPP!placer, TPP!prendre, TPP!V,
        TPP!Store
<1>6. buffer' \in [TPP!Rings -> [0 .. turns - 1 -> 0 .. text]]
  <2>1. CASE TPP!placer(t)
    <3>1. pc[t] = "P" /\ TPP!Produces(t)
      BY <2>1 DEF TPP!placer, TPP!Goto
    <3>2. tourProds \in 0 .. text
      BY <1>0, <1>1, <1>4, <3>1 DEF ProdWithin, TPP!Produces, Passed, BrainPassed
    <3>3. PICK r \in TPP!Rings : buffer' = [buffer EXCEPT ![r][tourProds % turns] = tourProds]
      BY <2>1 DEF TPP!placer, TPP!Ring, TPP!Rings
    <3> QED BY <1>0, <3>2, <3>3 DEF Typed
  <2> QED BY <1>0, <2>1 DEF Typed, TPP!Thread, TPP!Test, TPP!prendre, TPP!V, TPP!Load, TPP!Store
<1>7. chaineRecue3' \in [0 .. text -> 0 .. text]
  <2>1. CASE TPP!prendre(t)
    <3>1. PICK r \in TPP!Rings : chaineRecue3' = [chaineRecue3 EXCEPT ![tourConss] = buffer[r][tourConss % turns]]
      BY <2>1 DEF TPP!prendre, TPP!Ring, TPP!Rings
    <3>2. tourConss % turns \in 0 .. turns - 1
      BY <1>1
    <3>3. buffer[r][tourConss % turns] \in 0 .. text
      BY <1>0, <3>2 DEF Typed
    <3> QED BY <1>0, <3>1, <3>3 DEF Typed
  <2> QED BY <1>0, <2>1 DEF Typed, TPP!Thread, TPP!Test, TPP!placer, TPP!V, TPP!Load, TPP!Store
<1> QED BY <1>2, <1>3, <1>5, <1>6, <1>7 DEF Typed

(* The parts together                                                      *)
LEMMA TurnsNext ==
  TurnsInv /\ [TPP!Next]_(TPP!vars) => TurnsInv'
<1> SUFFICES ASSUME TurnsInv, [TPP!Next]_(TPP!vars) PROVE TurnsInv'
  OBVIOUS
<1>1. CASE UNCHANGED TPP!vars
  BY <1>1 DEF TurnsInv, TPP!vars, TPP!sems, TPP!counters, Typed, SemsExact, Holders, AtV,
     TPP!Ring,
     ProdWithin, Passed, BrainPassed, BrainStores, Idle, ConsWithin, Consumer
<1>2. ASSUME NEW t \in TPP!Threads, TPP!Thread(t)
      PROVE  TurnsInv'
  <2>1. SemsExact'
    BY <1>2, SemsNext, SemsStay DEF TPP!Thread
  <2> QED BY <1>2, <2>1, ProdNext, ConsNext, TypedNext DEF TurnsInv
<1> QED BY <1>1, <1>2 DEF TPP!Next

(* Between a producer and a consumer that alone use ring r and its         *)
(* counts: what is on its way is counted by the semaphores and is in the   *)
(* cell its number says, and what was taken is in its place.               *)
RingCarries(r, p, c) ==
  LET placed == tourProds + Uncounted(p)
      taken == tourConss + Uncounted(c)
  IN  /\ pleins[r] + AtV(p) + taken = placed /\ vides[r] + AtV(c) + placed = taken + turns
      /\ tourProds <= text /\ tourConss <= text
      /\ pc[p] \notin {"test", "out"} => tourProds < text
      /\ pc[c] \notin {"test", "out"} => tourConss < text
      /\ pc[p] = "store" => loaded[p] = tourProds
      /\ pc[c] = "store" => loaded[c] = tourConss
      /\ \A k \in taken .. placed - 1 : buffer[r][k % turns] = k
      /\ \A k \in 0 .. taken - 1 : chaineRecue3[k] = k

(* In each half there are two such threads, in the second only if nobody   *)
(* was about when the turns were set to 0.                                 *)
Rounds ==
  /\ half = 1 => /\ ~raced /\ RingCarries("receive", "server", "brain")
                 /\ pleins["sending"] = 0 /\ vides["sending"] = turns
                 /\ pc["client"] \in {"test", "P", "out"} /\ pc["brain"] # "out"
  /\ half = 2 /\ ~raced => /\ RingCarries("sending", "brain", "client") /\ pc["server"] = "out"
                           /\ (pc["client"] # "out" \/ tourConss = text)

(* At the start nothing is on its way.                                     *)
LEMMA RoundsInit == TPP!Init => Rounds
<1> SUFFICES ASSUME TPP!Init PROVE Rounds
  OBVIOUS
<1>1. /\ \A t \in TPP!Threads : pc[t] = "test" /\ AtV(t) = 0 /\ Uncounted(t) = 0
      /\ \A r \in TPP!Rings : pleins[r] = 0 /\ vides[r] = turns
      /\ tourProds = 0 /\ tourConss = 0
  BY DEF TPP!Init, AtV, Uncounted
<1>2. RingCarries("receive", "server", "brain")
  BY <1>1, TextAssumption, TailleAssumption DEF RingCarries, TPP!Threads, TPP!Rings
<1> QED BY <1>1, <1>2 DEF Rounds, TPP!Init, TPP!Threads, TPP!Rings

(* The character that is placed does not overwrite one on its way.         *)
LEMMA RingPlaces ==
  ASSUME TurnsInv, NEW r \in TPP!Rings, NEW p \in TPP!Threads, NEW c \in TPP!Threads, p # c,
         TPP!Ring(p) = r, RingCarries(r, p, c), TPP!placer(p)
  PROVE  RingCarries(r, p, c)'
<1> USE TextAssumption, TailleAssumption
<1>0. Typed /\ SemsExact /\ ProdWithin /\ ConsWithin
  BY DEF TurnsInv
<1>1. /\ pc[p] = "P" /\ pc'[p] = "V" /\ pc'[c] = pc[c]
      /\ UNCHANGED <<pleins, tourProds, tourConss, loaded, chaineRecue3>>
      /\ vides[r] > 0 /\ vides'[r] = vides[r] - 1
      /\ buffer' = [buffer EXCEPT ![r][tourProds % turns] = tourProds]
  <2>1. "V" \in Calls
    BY DEF Calls
  <2>2. pc[p] = "P" /\ pc'[p] = "V" /\ pc'[c] = pc[c]
    BY <1>0, <2>1, TurnGoes DEF TPP!placer
  <2> QED BY <1>0, <2>2 DEF TPP!placer, TPP!counters, SemsExact
<1>2. /\ tourProds \in Nat /\ tourConss \in Nat /\ pleins[r] \in Nat /\ vides[r] \in Nat
      /\ AtV(c) \in {0, 1} /\ Uncounted(c) \in {0, 1}
      /\ AtV(p) = 0 /\ Uncounted(p) = 0 /\ AtV(p)' = 1 /\ Uncounted(p)' = 1
      /\ AtV(c)' = AtV(c) /\ Uncounted(c)' = Uncounted(c)
  BY <1>0, <1>1 DEF ProdWithin, ConsWithin, SemsExact, AtV, Uncounted
<1> DEFINE taken == tourConss + Uncounted(c)
<1>3. taken \in Nat /\ taken <= tourProds /\ tourProds < taken + turns /\ tourProds < text
  BY <1>1, <1>2 DEF RingCarries
<1>4. \A k \in taken .. tourProds : buffer'[r][k % turns] = k
  <2> SUFFICES ASSUME NEW k \in taken .. tourProds PROVE buffer'[r][k % turns] = k
    OBVIOUS
  <2>1. k \in Nat /\ tourProds % turns \in 0 .. turns - 1 /\ k % turns \in 0 .. turns - 1
    BY <1>2, <1>3
  <2>2. buffer[r] \in [0 .. turns - 1 -> 0 .. text]
    BY <1>0 DEF Typed
  <2>3. CASE k = tourProds
    BY <1>0, <1>1, <2>1, <2>2, <2>3 DEF Typed
  <2>4. CASE k < tourProds
    <3>1. k % turns # tourProds % turns
      BY <1>2, <1>3, <2>1, <2>4, Apart
    <3>2. buffer[r][k % turns] = k
      BY <1>2, <1>3, <2>1, <2>4 DEF RingCarries
    <3> QED BY <1>0, <1>1, <2>1, <2>2, <3>1, <3>2 DEF Typed
  <2> QED BY <1>2, <1>3, <2>1, <2>3, <2>4
<1>5. \A k \in 0 .. taken - 1 : chaineRecue3'[k] = k
  BY <1>1 DEF RingCarries
<1>6. taken' = taken /\ (tourProds + Uncounted(p))' - 1 = tourProds
  BY <1>1, <1>2
<1> HIDE DEF taken
<1>7. /\ \A k \in taken' .. (tourProds + Uncounted(p))' - 1 : buffer'[r][k % turns] = k
      /\ \A k \in 0 .. taken' - 1 : chaineRecue3'[k] = k
  BY <1>4, <1>5, <1>6
<1>8. /\ pleins'[r] + AtV(p)' + taken' = (tourProds + Uncounted(p))'
      /\ vides'[r] + AtV(c)' + (tourProds + Uncounted(p))' = taken' + turns
  BY <1>1, <1>2, <1>3, <1>6 DEF RingCarries, taken
<1>9. /\ tourProds' <= text /\ tourConss' <= text
      /\ pc'[p] \notin {"test", "out"} => tourProds' < text
      /\ pc'[c] \notin {"test", "out"} => tourConss' < text
      /\ pc'[p] = "store" => loaded'[p] = tourProds'
      /\ pc'[c] = "store" => loaded'[c] = tourConss'
  BY <1>1, <1>3 DEF RingCarries
<1> QED BY <1>7, <1>8, <1>9 DEF RingCarries, taken

(* The character that is taken is the next one.                            *)
LEMMA RingTakes ==
  ASSUME TurnsInv, NEW r \in TPP!Rings, NEW p \in TPP!Threads, NEW c \in TPP!Threads, p # c,
         TPP!Ring(c) = r, RingCarries(r, p, c), TPP!prendre(c)
  PROVE  RingCarries(r, p, c)'
<1> USE TextAssumption, TailleAssumption
<1>0. Typed /\ SemsExact /\ ProdWithin /\ ConsWithin
  BY DEF TurnsInv
<1>1. /\ pc[c] = "P" /\ pc'[c] = "V" /\ pc'[p] = pc[p]
      /\ UNCHANGED <<vides, tourProds, tourConss, loaded, buffer>>
      /\ pleins[r] > 0 /\ pleins'[r] = pleins[r] - 1
      /\ chaineRecue3' = [chaineRecue3 EXCEPT ![tourConss] = buffer[r][tourConss % turns]]
  <2>1. "V" \in Calls
    BY DEF Calls
  <2>2. pc[c] = "P" /\ pc'[c] = "V" /\ pc'[p] = pc[p]
    BY <1>0, <2>1, TurnGoes DEF TPP!prendre
  <2> QED BY <1>0, <2>2 DEF TPP!prendre, TPP!counters, SemsExact
<1>2. /\ tourProds \in Nat /\ tourConss \in Nat /\ pleins[r] \in Nat /\ vides[r] \in Nat
      /\ AtV(p) \in {0, 1} /\ Uncounted(p) \in {0, 1}
      /\ AtV(c) = 0 /\ Uncounted(c) = 0 /\ AtV(c)' = 1 /\ Uncounted(c)' = 1
      /\ AtV(p)' = AtV(p) /\ Uncounted(p)' = Uncounted(p)
  BY <1>0, <1>1 DEF ProdWithin, ConsWithin, SemsExact, AtV, Uncounted
<1> DEFINE placed == tourProds + Uncounted(p)
<1>3. placed \in Nat /\ tourConss < placed /\ tourConss < text
  BY <1>1, <1>2 DEF RingCarries
<1>4. buffer[r][tourConss % turns] = tourConss
  BY <1>2, <1>3 DEF RingCarries
<1>5. \A k \in 0 .. tourConss : chaineRecue3'[k] = k
  <2> SUFFICES ASSUME NEW k \in 0 .. tourConss PROVE chaineRecue3'[k] = k
    OBVIOUS
  <2>1. chaineRecue3 \in [0 .. text -> 0 .. text] /\ k \in 0 .. text /\ tourConss \in 0 .. text
    <3>1. chaineRecue3 \in [0 .. text -> 0 .. text]
      BY <1>0 DEF Typed
    <3>2. tourConss \in Nat /\ tourConss < text
      BY <1>2, <1>3
    <3> QED BY <3>1, <3>2
  <2>2. k # tourConss => chaineRecue3[k] = k
    BY <1>2 DEF RingCarries
  <2> QED BY <1>1, <1>4, <2>1, <2>2
<1>6. \A k \in tourConss + 1 .. placed - 1 : buffer'[r][k % turns] = k
  BY <1>1, <1>2, <1>3 DEF RingCarries
<1>7. placed' = placed /\ (tourConss + Uncounted(c))' = tourConss + 1
  BY <1>1, <1>2
<1> HIDE DEF placed
<1>8. /\ \A k \in (tourConss + Uncounted(c))' .. placed' - 1 : buffer'[r][k % turns] = k
      /\ \A k \in 0 .. (tourConss + Uncounted(c))' - 1 : chaineRecue3'[k] = k
  BY <1>2, <1>3, <1>5, <1>6, <1>7
<1>9. /\ pleins'[r] + AtV(p)' + (tourConss + Uncounted(c))' = placed'
      /\ vides'[r] + AtV(c)' + placed' = (tourConss + Uncounted(c))' + turns
  <2>1. pleins[r] + AtV(p) + tourConss = placed /\ vides[r] + placed = tourConss + turns
    BY <1>2, <1>3 DEF RingCarries, placed
  <2>2. /\ pleins'[r] = pleins[r] - 1 /\ vides'[r] = vides[r]
    BY <1>1
  <2> QED BY <1>2, <1>3, <1>7, <2>1, <2>2
<1>10. /\ tourProds' <= text /\ tourConss' <= text
       /\ pc'[p] \notin {"test", "out"} => tourProds' < text
       /\ pc'[c] \notin {"test", "out"} => tourConss' < text
       /\ pc'[p] = "store" => loaded'[p] = tourProds'
       /\ pc'[c] = "store" => loaded'[c] = tourConss'
  BY <1>1, <1>3 DEF RingCarries
<1> QED BY <1>8, <1>9, <1>10 DEF RingCarries, placed

(* The other steps move none.                                              *)
LEMMA RingCounts ==
  ASSUME TurnsInv, NEW r \in TPP!Rings, NEW p \in TPP!Threads, NEW c \in TPP!Threads, p # c,
         TPP!Ring(p) = r, TPP!Ring(c) = r, TPP!Produces(p), ~TPP!Produces(c), RingCarries(r, p, c),
         NEW t \in TPP!Threads, t \in {p, c} \/ TPP!Test(t), half' = half,
         TPP!V(t) \/ TPP!Load(t) \/ TPP!Store(t) \/ TPP!Test(t)
  PROVE  RingCarries(r, p, c)'
<1> USE TextAssumption, TailleAssumption
<1>0. Typed /\ SemsExact /\ ProdWithin /\ ConsWithin
  BY DEF TurnsInv
<1>1. UNCHANGED <<buffer, chaineRecue3>>
  BY DEF TPP!V, TPP!Load, TPP!Store, TPP!Test
<1>2. PICK from \in {"V", "load", "store", "test"}, to \in {"load", "store", "test", "P", "out"} :
        /\ TPP!Goto(t, from, to)
        /\ TPP!V(t) => from = "V" /\ to = "load"
        /\ TPP!Load(t) => from = "load" /\ to = "store"
        /\ TPP!Store(t) => from = "store" /\ to = "test"
        /\ TPP!Test(t) => from = "test" /\ to \in {"test", "P", "out"}
  BY DEF TPP!V, TPP!Load, TPP!Store, TPP!Test, TPP!Goto
<1>3. pc[t] = from /\ pc'[t] = to /\ \A u \in TPP!Threads : u # t => pc'[u] = pc[u]
  <2>1. to \in Calls /\ Typed /\ TPP!Goto(t, from, to)
    BY <1>0, <1>2 DEF Calls
  <2> QED BY ONLY <2>1, t \in TPP!Threads, TurnGoes
<1>4. /\ tourProds \in Nat /\ tourConss \in Nat /\ pleins[r] \in Nat /\ vides[r] \in Nat
      /\ pc[p] \in Calls /\ pc[c] \in Calls
  <2>1. pc[p] \in Calls /\ pc[c] \in Calls
    BY <1>0 DEF Typed, Calls
  <2> QED BY <1>0, <2>1 DEF ProdWithin, ConsWithin, SemsExact
<1>5. /\ TPP!V(t) => /\ pleins'[r] + AtV(p)' = pleins[r] + AtV(p)
                     /\ vides'[r] + AtV(c)' = vides[r] + AtV(c)
      /\ ~TPP!V(t) => pleins'[r] = pleins[r] /\ vides'[r] = vides[r]
  <2>1. CASE TPP!V(t)
    <3>1. t \in {p, c} /\ pc[t] = "V" /\ pc'[t] = "load"
      BY <1>2, <1>3, <2>1
    <3>2. /\ t = p => pleins'[r] = pleins[r] + 1 /\ vides'[r] = vides[r]
          /\ t = c => vides'[r] = vides[r] + 1 /\ pleins'[r] = pleins[r]
      BY <1>0, <2>1, <3>1 DEF TPP!V, SemsExact
    <3>3. /\ t = p => AtV(p) = 1 /\ AtV(p)' = 0 /\ AtV(c)' = AtV(c)
          /\ t = c => AtV(c) = 1 /\ AtV(c)' = 0 /\ AtV(p)' = AtV(p)
      BY <1>3, <3>1 DEF AtV
    <3>4. AtV(p) \in Nat /\ AtV(c) \in Nat
      BY DEF AtV
    <3> QED BY <1>4, <2>1, <3>1, <3>2, <3>3, <3>4
  <2>2. CASE ~TPP!V(t)
    BY <2>2 DEF TPP!Load, TPP!Store, TPP!Test, TPP!sems
  <2> QED BY <2>1, <2>2
<1>6. /\ (tourProds + Uncounted(p))' = tourProds + Uncounted(p)
      /\ (tourConss + Uncounted(c))' = tourConss + Uncounted(c)
      /\ (~TPP!Store(t) \/ t # p) => tourProds' = tourProds
      /\ (~TPP!Store(t) \/ t # c) => tourConss' = tourConss
      /\ TPP!Store(t) /\ t = p => tourProds' = tourProds + 1
      /\ TPP!Store(t) /\ t = c => tourConss' = tourConss + 1
  <2>1. CASE TPP!Store(t)
    <3>1. t \in {p, c} /\ pc[t] = "store" /\ pc'[t] = "test"
      BY <1>2, <1>3, <2>1
    <3>2. /\ t = p => tourProds' = tourProds + 1 /\ tourConss' = tourConss
          /\ t = c => tourConss' = tourConss + 1 /\ tourProds' = tourProds
      BY <2>1, <3>1 DEF RingCarries, TPP!Store
    <3> QED BY <1>3, <1>4, <2>1, <3>1, <3>2 DEF Uncounted
  <2>2. CASE ~TPP!Store(t)
    <3>1. tourProds' = tourProds /\ tourConss' = tourConss
      <4>1. CASE TPP!Test(t)
        <5>1. \/ tourProds' = tourProds /\ tourConss' = tourConss
              \/ half = 1 /\ half' = 2
          BY <4>1 DEF TPP!Test, TPP!counters
        <5> QED BY <5>1
      <4> QED BY <2>2, <4>1 DEF TPP!V, TPP!Load, TPP!counters
    <3>2. Uncounted(p)' = Uncounted(p) /\ Uncounted(c)' = Uncounted(c)
      <4>1. (from \in {"V", "load", "store"}) = (to \in {"V", "load", "store"})
        BY <1>2, <2>2
      <4>2. \A u \in TPP!Threads : Uncounted(u)' = Uncounted(u)
        BY <1>3, <4>1 DEF Uncounted
      <4> QED BY <4>2
    <3> QED BY <2>2, <3>1, <3>2
  <2> QED BY <2>1, <2>2
<1>7. /\ pc'[p] \notin {"test", "out"} => tourProds' < text
      /\ pc'[c] \notin {"test", "out"} => tourConss' < text
  <2>1. TPP!Test(t) /\ to = "P" => TPP!Turn(t) < text
    BY <1>3, <1>4 DEF TPP!Test, TPP!Goto, TPP!Turn, Typed
  <2>2. t = p => TPP!Turn(t) = tourProds
    BY DEF TPP!Turn
  <2>3. t = c => TPP!Turn(t) = tourConss
    BY DEF TPP!Turn
  <2>4. ASSUME NEW u \in {p, c}, pc'[u] \notin {"test", "out"}
        PROVE  TPP!Turn(u) < text /\ ~(TPP!Store(t) /\ t = u)
    <3>1. TPP!Turn(p) = tourProds /\ TPP!Turn(c) = tourConss
      BY DEF TPP!Turn
    <3>2. CASE u = t /\ pc[t] = "test"
      BY <1>2, <1>3, <2>1, <2>4, <3>2
    <3>3. CASE u # t \/ pc[t] # "test"
      <4>1. pc[u] \notin {"test", "out"}
        BY <1>2, <1>3, <2>4, <3>3
      <4> QED BY <1>2, <1>3, <2>4, <3>1, <4>1 DEF RingCarries
    <3> QED BY <3>2, <3>3
  <2> QED BY <1>6, <2>4 DEF TPP!Turn
<1>8. /\ pc'[p] = "store" => loaded'[p] = tourProds'
      /\ pc'[c] = "store" => loaded'[c] = tourConss'
  <2>1. CASE TPP!Load(t)
    <3>1. /\ t = p => loaded'[p] = tourProds
          /\ t = c => loaded'[c] = tourConss
          /\ \A u \in TPP!Threads : u # t => loaded'[u] = loaded[u]
      BY <1>0, <2>1 DEF TPP!Load, TPP!Turn, Typed
    <3>2. tourProds' = tourProds /\ tourConss' = tourConss
      BY <2>1 DEF TPP!Load, TPP!counters
    <3> QED BY <1>3, <3>1, <3>2 DEF RingCarries
  <2>2. CASE ~TPP!Load(t)
    <3>1. loaded' = loaded
      BY <2>2 DEF TPP!V, TPP!Store, TPP!Test
    <3>2. ASSUME NEW u \in {p, c}, pc'[u] = "store"
          PROVE  pc[u] = "store" /\ t # u
      BY <1>2, <1>3, <2>2, <3>2
    <3> QED BY <1>6, <3>1, <3>2 DEF RingCarries
  <2> QED BY <2>1, <2>2
<1>9. tourProds' <= text /\ tourConss' <= text
  BY <1>2, <1>3, <1>4, <1>6 DEF RingCarries
<1>10. /\ pleins'[r] + AtV(p)' = pleins[r] + AtV(p)
       /\ vides'[r] + AtV(c)' = vides[r] + AtV(c)
  <2>1. ~TPP!V(t) => AtV(p)' = AtV(p) /\ AtV(c)' = AtV(c)
    BY <1>2, <1>3 DEF AtV
  <2> QED BY <1>5, <2>1
<1>11. AtV(p) \in Nat /\ AtV(c) \in Nat /\ AtV(p)' \in Nat /\ AtV(c)' \in Nat
  BY DEF AtV
<1>12. /\ (pleins[r] + AtV(p) + (tourConss + Uncounted(c)) = tourProds + Uncounted(p))'
       /\ (vides[r] + AtV(c) + (tourProds + Uncounted(p)) = (tourConss + Uncounted(c)) + turns)'
  BY <1>6, <1>10 DEF RingCarries
<1>13. /\ \A k \in (tourConss + Uncounted(c))' .. (tourProds + Uncounted(p))' - 1 :
             buffer'[r][k % turns] = k
       /\ \A k \in 0 .. (tourConss + Uncounted(c))' - 1 : chaineRecue3'[k] = k
  BY <1>1, <1>6 DEF RingCarries
<1> QED BY <1>7, <1>8, <1>9, <1>12, <1>13 DEF RingCarries

(* Within a half, the two threads at the ring; when the brain finds the    *)
(* end of the first, nothing is on its way.                                *)
LEMMA RoundsNext == TurnsInv /\ Rounds /\ [TPP!Next]_(TPP!vars) => Rounds'
<1> SUFFICES ASSUME TurnsInv, Rounds, [TPP!Next]_(TPP!vars) PROVE Rounds'
  OBVIOUS
<1> USE TextAssumption, TailleAssumption DEF TPP!Threads, TPP!Rings
<1>0. Typed /\ SemsExact /\ ProdWithin /\ ConsWithin
  BY DEF TurnsInv
<1>1. CASE UNCHANGED TPP!vars
  BY <1>1 DEF Rounds, RingCarries, AtV, Uncounted, TPP!vars, TPP!sems, TPP!counters
<1> SUFFICES ASSUME NEW t \in TPP!Threads, TPP!Thread(t) PROVE Rounds'
  BY <1>1 DEF TPP!Next
<1>2. ASSUME NEW r \in TPP!Rings, NEW p \in TPP!Threads, NEW c \in TPP!Threads, p # c,
             TPP!Ring(p) = r, TPP!Ring(c) = r, TPP!Produces(p), ~TPP!Produces(c),
             RingCarries(r, p, c), t \in {p, c} \/ TPP!Test(t), half' = half
      PROVE  RingCarries(r, p, c)'
  <2>1. CASE TPP!placer(t)
    <3>1. t = p
      BY <1>2, <2>1 DEF TPP!placer, TPP!Test, TPP!Goto
    <3> QED BY <1>2, <2>1, <3>1, RingPlaces
  <2>2. CASE TPP!prendre(t)
    <3>1. t = c
      BY <1>2, <2>2 DEF TPP!prendre, TPP!Test, TPP!Goto
    <3> QED BY <1>2, <2>2, <3>1, RingTakes
  <2>3. CASE TPP!V(t) \/ TPP!Load(t) \/ TPP!Store(t) \/ TPP!Test(t)
    BY <1>2, <2>3, RingCounts
  <2> QED BY <2>1, <2>2, <2>3 DEF TPP!Thread
<1>3. PICK from \in Calls, to \in Calls :
        /\ TPP!Goto(t, from, to)
        /\ from # "out"
        /\ from = "test" => to \in {"test", "P", "out"}
        /\ TPP!Test(t) = (from = "test")
  BY DEF TPP!Thread, TPP!V, TPP!Load, TPP!Store, TPP!Test, TPP!placer, TPP!prendre, TPP!Goto,
     Calls
<1>4. pc[t] = from /\ pc'[t] = to /\ \A u \in TPP!Threads : u # t => pc'[u] = pc[u]
  <2> QED BY ONLY <1>0, <1>3, t \in TPP!Threads, TurnGoes
<1>5. CASE half = 1 /\ half' = half
  <2>1. /\ ~raced /\ RingCarries("receive", "server", "brain")
        /\ pleins["sending"] = 0 /\ vides["sending"] = turns
        /\ pc["client"] \in {"test", "P", "out"} /\ pc["brain"] # "out"
    BY <1>5 DEF Rounds
  <2>2. /\ TPP!Ring("server") = "receive" /\ TPP!Ring("brain") = "receive"
        /\ TPP!Produces("server") /\ ~TPP!Produces("brain")
        /\ TPP!Ring("client") = "sending" /\ ~TPP!Produces("client")
    BY <1>5 DEF TPP!Ring, TPP!Produces
  <2>3. t = "client" => TPP!Test(t)
    BY <2>1, <2>2 DEF TPP!Thread, TPP!placer, TPP!prendre, TPP!V, TPP!Load, TPP!Store, TPP!Goto
  <2>4. RingCarries("receive", "server", "brain")'
    BY <1>2, <1>5, <2>1, <2>2, <2>3
  <2>5. ~raced' /\ ~(t = "brain" /\ to = "out")
    BY <1>3, <1>4, <1>5, <2>1 DEF TPP!Thread, TPP!Test, TPP!placer, TPP!prendre, TPP!V,
       TPP!Load, TPP!Store, TPP!Goto
  <2>6. pleins'["sending"] = 0 /\ vides'["sending"] = turns
    <3>1. /\ pleins' = pleins \/ \E n : pleins' = [pleins EXCEPT !["receive"] = n]
          /\ vides' = vides \/ \E n : vides' = [vides EXCEPT !["receive"] = n]
      <4>1. t # "client" => TPP!Ring(t) = "receive"
        BY <2>2
      <4>2. /\ pleins' = pleins \/ \E n : pleins' = [pleins EXCEPT ![TPP!Ring(t)] = n]
            /\ vides' = vides \/ \E n : vides' = [vides EXCEPT ![TPP!Ring(t)] = n]
        BY DEF TPP!Thread, TPP!Test, TPP!placer, TPP!prendre, TPP!V, TPP!Load, TPP!Store,
           TPP!sems
      <4>3. TPP!Test(t) => pleins' = pleins /\ vides' = vides
        BY DEF TPP!Test, TPP!sems
      <4> QED BY <2>3, <4>1, <4>2, <4>3
    <3> QED BY <1>0, <2>1, <3>1 DEF SemsExact
  <2>7. pc'["client"] \in {"test", "P", "out"} /\ pc'["brain"] # "out"
    BY <1>3, <1>4, <2>1, <2>3, <2>5
  <2> QED BY <1>5, <2>4, <2>5, <2>6, <2>7 DEF Rounds
<1>6. CASE half = 2
  <2>1. half' = 2 /\ raced' = raced
    BY <1>6 DEF TPP!Thread, TPP!Test, TPP!placer, TPP!prendre, TPP!V, TPP!Load, TPP!Store
  <2>2. CASE raced
    BY <2>1, <2>2 DEF Rounds
  <2>3. CASE ~raced
    <3>1. /\ RingCarries("sending", "brain", "client") /\ pc["server"] = "out"
          /\ (pc["client"] # "out" \/ tourConss = text)
      BY <1>6, <2>3 DEF Rounds
    <3>2. t \in {"brain", "client"}
      BY <1>3, <1>4, <3>1
    <3>3. /\ TPP!Ring("brain") = "sending" /\ TPP!Ring("client") = "sending"
          /\ TPP!Produces("brain") /\ ~TPP!Produces("client")
      BY <1>6 DEF TPP!Ring, TPP!Produces
    <3>4. RingCarries("sending", "brain", "client")'
      BY <1>2, <1>6, <2>1, <3>1, <3>2, <3>3
    <3>5. pc'["server"] = "out"
      BY <1>4, <3>1, <3>2
    <3>6. pc'["client"] # "out" \/ tourConss' = text
      <4>1. tourConss' = tourConss \/ (t = "client" /\ from = "store" /\ to = "test")
        <5>1. CASE TPP!Store(t)
          <6>1. pc[t] = "store" /\ pc'[t] = "test"
            BY <1>0, <5>1 DEF TPP!Store, TPP!Goto, Typed
          <6>2. t = "brain" => tourConss' = tourConss
            BY <3>3, <5>1 DEF TPP!Store
          <6> QED BY <1>4, <3>2, <6>1, <6>2
        <5> QED BY <1>6, <5>1 DEF TPP!Thread, TPP!Test, TPP!placer, TPP!prendre, TPP!V,
              TPP!Load, TPP!counters
      <4>2. t = "client" /\ to = "out" => tourConss' = text
        <5> SUFFICES ASSUME t = "client", to = "out" PROVE tourConss' = text
          OBVIOUS
        <5>1. TPP!Test(t) /\ tourConss >= text
          BY <1>3, <1>4, <3>3 DEF TPP!Thread, TPP!Test, TPP!placer, TPP!prendre, TPP!V,
             TPP!Load, TPP!Store,
             TPP!Goto, TPP!Turn
        <5>2. tourConss \in 0 .. text
          BY <1>0 DEF ConsWithin
        <5> QED BY <1>6, <5>1, <5>2 DEF TPP!Test, TPP!counters
      <4> QED BY <1>3, <1>4, <3>1, <4>1, <4>2
    <3> QED BY <2>1, <3>4, <3>5, <3>6 DEF Rounds
  <2> QED BY <2>2, <2>3
<1>7. CASE half = 1 /\ half' # half
  <2>1. /\ t = "brain" /\ pc[t] = "test" /\ pc'[t] = "test" /\ half' = 2
        /\ tourProds' = 0 /\ tourConss' = 0 /\ text <= tourConss
        /\ raced' = (pc["server"] # "out" \/ pc["client"] = "out")
        /\ UNCHANGED <<pleins, vides>>
    <3>1. TPP!Test(t)
      BY <1>7 DEF TPP!Thread, TPP!placer, TPP!prendre, TPP!V, TPP!Load, TPP!Store
    <3>2. TPP!Test(t) /\ t = "brain" /\ TPP!Turn(t) >= text
      BY <1>7, <3>1 DEF TPP!Test
    <3>3. from = "test" /\ TPP!Turn(t) = tourConss /\ tourConss \in 0 .. text
      <4>1. tourConss \in 0 .. text
        BY <1>0 DEF ConsWithin
      <4>2. from = "test"
        BY <1>4, <3>1 DEF TPP!Test, TPP!Goto
      <4>3. TPP!Turn(t) = tourConss
        BY <1>7, <3>2 DEF TPP!Turn, TPP!Produces
      <4> QED BY <4>1, <4>2, <4>3
    <3> QED BY <1>3, <1>4, <1>7, <3>2, <3>3 DEF TPP!Test, TPP!sems, TPP!Goto
  <2>2. CASE raced'
    BY <2>1, <2>2 DEF Rounds
  <2>3. CASE ~raced'
    <3>1. /\ pc["server"] = "out" /\ pc["client"] # "out" /\ pc["client"] \in {"test", "P", "out"}
          /\ pleins["sending"] = 0 /\ vides["sending"] = turns
      BY <1>7, <2>1, <2>3 DEF Rounds
    <3>2. /\ pc'["server"] = "out" /\ pc'["client"] \in {"test", "P"} /\ pc'["brain"] = "test"
      BY <1>4, <2>1, <3>1
    <3>3. /\ AtV("brain")' = 0 /\ AtV("client")' = 0
          /\ Uncounted("brain")' = 0 /\ Uncounted("client")' = 0
      BY <3>2 DEF AtV, Uncounted
    <3>4. RingCarries("sending", "brain", "client")'
      BY <2>1, <3>1, <3>2, <3>3 DEF RingCarries
    <3> QED BY <2>1, <3>2, <3>4 DEF Rounds
  <2> QED BY <2>2, <2>3
<1> QED BY <1>0, <1>5, <1>6, <1>7 DEF Typed

(* tp_project.c: the variables keep their types, although two threads      *)
(* count the same turn; until the turns are set to 0 the brain receives    *)
(* the text as it was sent, and the text is received twice unless a thread *)
(* was about then.                                                         *)
THEOREM TurnsCorrect == TPP!Spec => [](TPP!TypeOK /\ TPP!FirstHalf /\ TPP!TextUnlessRaced)
<1>1. TurnsInv /\ Rounds => TPP!FirstHalf
  <2> SUFFICES ASSUME TurnsInv, Rounds, half = 1, NEW k \in 0 .. TPP!Taken - 1
               PROVE  chaineRecue3[k] = k
    BY DEF TPP!FirstHalf
  <2>1. TPP!Taken = tourConss + Uncounted("brain")
    BY DEF TPP!Taken, Uncounted
  <2> QED BY <2>1 DEF Rounds, RingCarries
<1>2. TurnsInv /\ Rounds => TPP!TextUnlessRaced
  <2> SUFFICES ASSUME TurnsInv, Rounds, TPP!Ended, ~raced, NEW k \in 0 .. text - 1
               PROVE  chaineRecue3[k] = k
    BY DEF TPP!TextUnlessRaced
  <2>1. /\ pc["server"] = "out" /\ pc["brain"] = "out" /\ pc["client"] = "out"
        /\ half \in {1, 2}
    BY DEF TPP!Ended, TPP!Threads, TurnsInv, Typed
  <2>2. tourConss = text /\ Uncounted("client") = 0 /\ RingCarries("sending", "brain", "client")
    BY <2>1 DEF Rounds, Uncounted
  <2>3. text \in Nat
    BY TextAssumption
  <2> QED BY <2>2, <2>3 DEF RingCarries
<1>3. TurnsInv /\ Rounds /\ [TPP!Next]_(TPP!vars) => (TurnsInv /\ Rounds)'
  BY TurnsNext, RoundsNext
<1> QED BY TurnsInit, RoundsInit, TurnsTyped, <1>1, <1>2, <1>3, PTL DEF TPP!Spec

-----------------------------------------------------------------------------
(* TP6_server.c and TP6_client.c *)

Places == {"idle", "connect", "write", "read", "killed", "exit 1", "answered", "empty"}

(* The socket has a name as soon as a server listens, so that none is held *)
(* before; and whoever is served has connected and holds a name, and is    *)
(* past its request once the server has read that.                         *)
Service ==
  /\ queue \in Seq(Clients) /\ client \in [Clients -> Places] /\ request \subseteq Clients
  /\ newsockfd \in Clients \/ server \notin {"read", "write", "close"}
  /\ ~file => server \in {"down", "socket"}
  /\ ~file \/ server = "listen" => \A c \in Clients : ~TP6!Holds(c)
  /\ \A c \in request : client[c] \notin {"idle", "connect", "write"}
  /\ \A k \in DOMAIN queue : client[queue[k]] \notin {"idle", "connect"}
  /\ server \in {"read", "write", "close"} => client[newsockfd] \notin {"idle", "connect"}
  /\ server \in {"write", "close"} => client[newsockfd] # "write"

(* Whoever holds a connection to a server that is up waits in its queue,   *)
(* is being served or has its answer.                                      *)
Waits(c) == \E k \in DOMAIN queue : queue[k] = c
Attended ==
  TP6!Up => \A c \in Clients : TP6!Holds(c) =>
    \/ Waits(c)
    \/ server \in {"read", "write", "close"} /\ newsockfd = c
    \/ client[c] = "read" /\ c \in reply

(* In particular the client whose connection is about to be closed         *)
AnsweredAtClose ==
  server = "close" /\ TP6!Holds(newsockfd) => newsockfd \in reply

ServiceInv == Service /\ Attended /\ AnsweredAtClose

(* Nobody is connected before a server listens.                            *)
LEMMA ServiceInit == TP6!Init => ServiceInv
<1> SUFFICES ASSUME TP6!Init PROVE ServiceInv
  OBVIOUS
<1>1. /\ queue \in Seq(Clients) /\ \A k : k \notin DOMAIN queue
  BY DEF TP6!Init
<1>2. Service
  <2>1. client \in [Clients -> Places] /\ \A c \in Clients : client[c] = "idle"
    BY DEF TP6!Init, Places
  <2> QED BY <1>1, <2>1 DEF TP6!Init, Service, TP6!Holds
<1> QED BY <1>2 DEF TP6!Init, ServiceInv, Attended, AnsweredAtClose, TP6!Up

(* Who is appended to a queue is at its end.                               *)
LEMMA QueueGrows ==
  ASSUME NEW S, NEW q \in Seq(S), NEW e \in S, NEW r, r = Append(q, e)
  PROVE  /\ r \in Seq(S) /\ \A k \in DOMAIN r : r[k] \in S
         /\ \A k \in DOMAIN q : k \in DOMAIN r /\ r[k] = q[k]
         /\ \E k \in DOMAIN r : r[k] = e
         /\ \A k \in DOMAIN r : k \in DOMAIN q \/ r[k] = e
<1>1. /\ r \in Seq(S) /\ Len(r) = Len(q) + 1 /\ Len(q) \in Nat
      /\ r[Len(q) + 1] = e /\ \A k \in 1 .. Len(q) : r[k] = q[k]
  BY AppendProperties, LenProperties
<1>2. DOMAIN q = 1 .. Len(q) /\ DOMAIN r = 1 .. Len(q) + 1
  BY <1>1, LenProperties
<1>3. \A k \in DOMAIN r : r[k] \in S
  BY <1>1, ElementOfSeq
<1>4. Len(q) + 1 \in DOMAIN r
  BY <1>1, <1>2
<1> QED BY <1>1, <1>2, <1>3, <1>4

(* So is the client that connects to the server.                           *)
LEMMA QueueJoined ==
  ASSUME queue \in Seq(Clients), NEW c \in Clients, queue' = Append(queue, c)
  PROVE  /\ queue' \in Seq(Clients) /\ \A k \in DOMAIN queue' : queue'[k] \in Clients
         /\ \A k \in DOMAIN queue : k \in DOMAIN queue' /\ queue'[k] = queue[k]
         /\ \E k \in DOMAIN queue' : queue'[k] = c
         /\ \A k \in DOMAIN queue' : k \in DOMAIN queue \/ queue'[k] = c
<1>1. \E k \in DOMAIN queue' : queue'[k] = c
  BY QueueGrows
<1>2. \A k \in DOMAIN queue' : k \in DOMAIN queue \/ queue'[k] = c
  BY QueueGrows
<1> QED BY QueueGrows, <1>1, <1>2

(* What a client does changes its own place only.                          *)
LEMMA ClientGoes ==
  ASSUME Service, NEW c \in Clients, NEW to \in Places, TP6!Goes(c, to)
  PROVE  /\ client' \in [Clients -> Places] /\ client'[c] = to
         /\ \A d \in Clients : d # c => client'[d] = client[d]
         /\ UNCHANGED <<server, file, newsockfd>>
BY DEF Service, TP6!Goes

(* A step of the server, of a client or of a user keeps this.              *)
LEMMA ServiceNext == ServiceInv /\ [TP6!Next]_(TP6!vars) => ServiceInv'
<1> SUFFICES ASSUME ServiceInv, [TP6!Next]_(TP6!vars) PROVE ServiceInv'
  OBVIOUS
<1>0. Service /\ Attended /\ AnsweredAtClose
  BY DEF ServiceInv
<1>1. CASE UNCHANGED TP6!vars
  BY <1>0, <1>1 DEF TP6!vars, ServiceInv, Service, Attended, AnsweredAtClose, TP6!Holds,
     Waits, TP6!Up
<1> USE DEF TP6!Holds, Waits, TP6!Up
<1>2. ASSUME TP6!Dies
      PROVE  ServiceInv'
  <2>1. queue' \in Seq(Clients) /\ \A k : k \notin DOMAIN queue'
    BY <1>2 DEF TP6!Dies
  <2> QED BY <1>0, <1>2, <2>1 DEF TP6!Dies, ServiceInv, Service, Attended, AnsweredAtClose
<1>3. CASE TP6!Accept
  <2>1. /\ queue # <<>> /\ queue \in Seq(Clients)
        /\ newsockfd' = queue[1] /\ newsockfd' \in Clients /\ 1 \in DOMAIN queue
        /\ queue' \in Seq(Clients)
        /\ \A k \in DOMAIN queue' : k + 1 \in DOMAIN queue /\ queue'[k] = queue[k + 1]
        /\ \A k \in DOMAIN queue : k = 1 \/ (k - 1 \in DOMAIN queue' /\ queue'[k - 1] = queue[k])
    BY <1>0, <1>3, HeadTailProperties DEF Service, TP6!Accept
  <2>2. Service'
    BY <1>0, <1>3, <2>1 DEF Service, TP6!Accept, TP6!Holds
  <2>3. Attended'
    <3> SUFFICES ASSUME NEW c \in Clients, TP6!Holds(c), ~(client[c] = "read" /\ c \in reply)
                 PROVE  newsockfd' = c \/ \E k \in DOMAIN queue' : queue'[k] = c
      BY <1>3 DEF Attended, TP6!Accept
    <3>1. \E k \in DOMAIN queue : queue[k] = c
      BY <1>0, <1>3 DEF Attended, TP6!Accept
    <3> QED BY <2>1, <3>1
  <2> QED BY <1>3, <2>2, <2>3 DEF ServiceInv, AnsweredAtClose, TP6!Accept
<1>4. CASE TP6!Start
  BY <1>0, <1>4 DEF TP6!Start, ServiceInv, Service, Attended, AnsweredAtClose
<1>5. CASE TP6!Bind /\ ~file
  BY <1>0, <1>5, <1>2 DEF TP6!Bind, ServiceInv, Service, Attended, AnsweredAtClose
<1>6. CASE TP6!Listen
  BY <1>0, <1>6 DEF TP6!Listen, ServiceInv, Service, Attended, AnsweredAtClose
<1>7. CASE TP6!Close
  BY <1>0, <1>7 DEF TP6!Close, ServiceInv, Service, Attended, AnsweredAtClose
<1>8. CASE TP6!Read
  BY <1>0, <1>8 DEF TP6!Read, ServiceInv, Service, Attended, AnsweredAtClose
<1>9. CASE TP6!Write
  BY <1>0, <1>9, <1>2 DEF TP6!Write, ServiceInv, Service, Attended, AnsweredAtClose
<1> SUFFICES ASSUME NEW c \in Clients,
                    TP6!main_client(c) \/ TP6!StartClient(c) \/ TP6!KillClient(c)
             PROVE  ServiceInv'
  BY <1>1, <1>2, <1>3, <1>4, <1>5, <1>6, <1>7, <1>8, <1>9
     DEF TP6!Next, TP6!main, TP6!KillServer, TP6!Bind
<1>10. ASSUME NEW to \in Places, TP6!Goes(c, to)
       PROVE  /\ client' \in [Clients -> Places] /\ client'[c] = to
              /\ \A d \in Clients : d # c => client'[d] = client[d]
              /\ UNCHANGED <<server, file, newsockfd>>
  BY <1>0, <1>10, ClientGoes
<1>11. \A k \in DOMAIN queue : queue[k] \in Clients
  BY <1>0 DEF Service
<1>13. CASE TP6!StartClient(c)
  <2>1. TP6!Goes(c, "connect") /\ "connect" \in Places /\ client[c] = "idle" /\ UNCHANGED <<queue, request, reply>>
    BY <1>13 DEF TP6!StartClient, Places
  <2>2. /\ client' \in [Clients -> Places] /\ client'[c] = "connect"
        /\ \A d \in Clients : d # c => client'[d] = client[d]
        /\ UNCHANGED <<server, file, newsockfd>>
    BY <1>10, <2>1
  <2>3. Service'
    BY <1>0, <1>11, <2>1, <2>2 DEF Service
  <2>4. Attended'
    BY <1>0, <2>1, <2>2 DEF Attended
  <2>5. AnsweredAtClose'
    BY <1>0, <2>1, <2>2 DEF AnsweredAtClose, Service
  <2> QED BY <2>3, <2>4, <2>5 DEF ServiceInv
<1>14. CASE TP6!KillClient(c)
  <2>1. /\ TP6!Goes(c, "killed") /\ "killed" \in Places
        /\ reply' = reply \ {c} /\ UNCHANGED <<queue, request>>
    BY <1>14 DEF TP6!KillClient, Places
  <2>2. /\ client' \in [Clients -> Places] /\ client'[c] = "killed"
        /\ \A d \in Clients : d # c => client'[d] = client[d]
        /\ UNCHANGED <<server, file, newsockfd>>
    BY <1>10, <2>1
  <2>3. Service'
    BY <1>0, <1>11, <2>1, <2>2 DEF Service
  <2>4. Attended'
    BY <1>0, <2>1, <2>2 DEF Attended
  <2>5. AnsweredAtClose'
    BY <1>0, <2>1, <2>2 DEF AnsweredAtClose, Service
  <2> QED BY <2>3, <2>4, <2>5 DEF ServiceInv
<1>15. CASE TP6!WriteRequest(c)
  <2>1. PICK to \in {"read", "killed"} : TP6!Goes(c, to)
    BY <1>15 DEF TP6!WriteRequest
  <2>2. /\ client' \in [Clients -> Places] /\ client'[c] \in {"read", "killed"}
        /\ \A d \in Clients : d # c => client'[d] = client[d]
        /\ UNCHANGED <<server, file, newsockfd>>
    BY <1>10, <2>1 DEF Places
  <2>3. /\ client[c] = "write" /\ UNCHANGED <<queue, reply>>
        /\ request' \subseteq request \cup {c}
    BY <1>15 DEF TP6!WriteRequest
  <2>4. Service'
    BY <1>0, <1>11, <2>2, <2>3 DEF Service
  <2>5. Attended'
    BY <1>0, <2>2, <2>3 DEF Attended
  <2>6. AnsweredAtClose'
    BY <1>0, <2>2, <2>3 DEF AnsweredAtClose, Service
  <2> QED BY <2>4, <2>5, <2>6 DEF ServiceInv
<1>16. CASE TP6!ReadReply(c)
  <2>1. PICK to \in {"answered", "empty"} : TP6!Goes(c, to)
    BY <1>16 DEF TP6!ReadReply
  <2>2. /\ client' \in [Clients -> Places] /\ client'[c] \in {"answered", "empty"}
        /\ \A d \in Clients : d # c => client'[d] = client[d]
        /\ UNCHANGED <<server, file, newsockfd>>
    BY <1>10, <2>1 DEF Places
  <2>3. /\ client[c] = "read" /\ UNCHANGED <<queue, request>>
        /\ reply' \in {reply, reply \ {c}}
    BY <1>16 DEF TP6!ReadReply
  <2>4. Service'
    BY <1>0, <1>11, <2>2, <2>3 DEF Service
  <2>5. Attended'
    BY <1>0, <2>2, <2>3 DEF Attended
  <2>6. AnsweredAtClose'
    BY <1>0, <2>2, <2>3 DEF AnsweredAtClose, Service
  <2> QED BY <2>4, <2>5, <2>6 DEF ServiceInv
<1>17. CASE TP6!Connect(c)
  <2>1. PICK to \in {"exit 1", "write"} : TP6!Goes(c, to)
    BY <1>17 DEF TP6!Connect
  <2>2. /\ client' \in [Clients -> Places] /\ client'[c] = to
        /\ \A d \in Clients : d # c => client'[d] = client[d]
        /\ UNCHANGED <<server, file, newsockfd>>
    BY <1>10, <2>1 DEF Places
  <2>3. client[c] = "connect" /\ UNCHANGED <<request, reply>>
    BY <1>17 DEF TP6!Connect
  <2>4. CASE to = "exit 1"
    <3>1. UNCHANGED queue
      BY <1>17, <2>2, <2>4 DEF TP6!Connect, TP6!Goes, Service
    <3>2. Service'
      BY <1>0, <1>11, <2>2, <2>3, <2>4, <3>1 DEF Service
    <3>3. Attended'
      BY <1>0, <2>2, <2>3, <2>4, <3>1 DEF Attended
    <3>4. AnsweredAtClose'
      BY <1>0, <2>2, <2>3, <2>4, <3>1 DEF AnsweredAtClose, Service
    <3> QED BY <3>2, <3>3, <3>4 DEF ServiceInv
  <2>5. CASE to = "write"
    <3>1. /\ file /\ server \in TP6!Server \ {"socket", "listen"}
          /\ queue' = Append(queue, c)
      BY <1>0, <1>17, <2>2, <2>5 DEF TP6!Connect, TP6!Goes, Service
    <3>2. /\ queue' \in Seq(Clients) /\ \A k \in DOMAIN queue' : queue'[k] \in Clients
          /\ \A k \in DOMAIN queue : k \in DOMAIN queue' /\ queue'[k] = queue[k]
          /\ \E k \in DOMAIN queue' : queue'[k] = c
          /\ \A k \in DOMAIN queue' : k \in DOMAIN queue \/ queue'[k] = c
      <4>1. queue \in Seq(Clients)
        BY <1>0 DEF Service
      <4> QED BY ONLY <3>1, <4>1, c \in Clients, QueueJoined
    <3>3. Service'
      BY <1>0, <1>11, <2>2, <2>3, <2>5, <3>1, <3>2 DEF Service
    <3>4. Attended'
      BY <1>0, <2>2, <2>3, <2>5, <3>1, <3>2 DEF Attended
    <3>5. AnsweredAtClose'
      BY <1>0, <2>2, <2>3, <2>5, <3>1 DEF AnsweredAtClose, Service
    <3> QED BY <3>3, <3>4, <3>5 DEF ServiceInv
  <2> QED BY <2>4, <2>5
<1> QED BY <1>13, <1>14, <1>15, <1>16, <1>17 DEF TP6!main_client

(* The server of TP6_server.c answers whom it has accepted before it hangs *)
(* up: who is connected and finds no answer finds the server gone.         *)
THEOREM ServiceCorrect == TP6!Spec => []ServiceInv /\ AnsweredUnlessDown
<1>1. TP6!Spec => []ServiceInv
  BY ServiceInit, ServiceNext, PTL DEF TP6!Spec
<1>2. ServiceInv /\ [TP6!Next]_(TP6!vars)
        => [\A c \in Clients : client[c] = "read" /\ client'[c] = "empty" => ~TP6!Up]_ofTP6
  <2> SUFFICES ASSUME ServiceInv, [TP6!Next]_(TP6!vars), UNCHANGED ofTP6 => FALSE,
                      NEW c \in Clients, client[c] = "read", client'[c] = "empty"
               PROVE  ~TP6!Up
    OBVIOUS
  <2>1. Service /\ Attended
    BY DEF ServiceInv
  <2>2. client' # client
    OBVIOUS
  <2>3. PICK d \in Clients : \/ TP6!main_client(d) \/ TP6!StartClient(d) \/ TP6!KillClient(d)
    BY <2>2 DEF TP6!vars, TP6!Next, TP6!main, TP6!Start, TP6!KillServer, TP6!Dies, TP6!Bind,
       TP6!Listen, TP6!Accept, TP6!Read, TP6!Write, TP6!Close
  <2>4. \A to \in Places : TP6!Goes(d, to) => client'[d] = to /\ (d # c => client'[c] = client[c])
    BY <2>1, ClientGoes
  <2>5. d = c /\ TP6!ReadReply(c) /\ c \notin reply /\ ~TP6!Serves(c)
    BY <2>3, <2>4 DEF TP6!main_client, TP6!StartClient, TP6!KillClient, TP6!Connect,
       TP6!WriteRequest, TP6!ReadReply, Places
  <2> QED BY <2>1, <2>5 DEF Attended, Waits, TP6!Serves, TP6!Holds
<1> QED BY <1>1, <1>2, PTL DEF TP6!Spec, AnsweredUnlessDown

(* Nothing removes the socket's name, and a server that finds it ends: who *)
(* starts one again after the first has died gets no service.              *)
THEOREM OnceServed == TP6!Spec => NeverServesAgain
<1> DEFINE Gone == file /\ server \in {"down", "socket"}
<1>1. file /\ server = "down" => Gone
  OBVIOUS
<1>2. Gone /\ [TP6!Next]_(TP6!vars) => Gone'
  BY DEF TP6!vars, TP6!Next, TP6!main, TP6!Start, TP6!KillServer, TP6!Dies, TP6!Bind,
     TP6!Listen,
     TP6!Accept, TP6!Read, TP6!Write, TP6!Close, TP6!main_client, TP6!StartClient,
     TP6!KillClient, TP6!Connect, TP6!WriteRequest, TP6!ReadReply, TP6!Goes
<1>3. Gone => ~TP6!Up
  BY DEF TP6!Up
<1> QED BY <1>1, <1>2, <1>3, PTL DEF TP6!Spec, NeverServesAgain

-----------------------------------------------------------------------------
(* TP3.c *)

(* A son who has got as far as his last case, or has ended by it, on a     *)
(* signal that was not the shell's, has sent the father SIGTERM, whom that *)
(* will kill, unless he is dead already or in his own handler, from which  *)
(* he does not return either.                                              *)
Answered ==
  /\ pending \in [TP3!Procs -> [TP3!Signals -> {"pere", "fils", "shell", TP3!None}]]
  /\ handles \in [TP3!Procs -> SUBSET TP3!Signals] /\ "SIGTERM" \notin handles["pere"]
  /\ DOMAIN at = TP3!Procs /\ DOMAIN fct = TP3!Procs /\ DOMAIN si_pid = TP3!Procs
  /\ \A s \in TP3!Signals : pending["fils"][s] # "fils"
  /\ fct["fils"] # TP3!None => si_pid["fils"] \in {"pere", "shell"}
  /\ at["pere"] \in {"sigaction", "kill", "wait"} => at["fils"] # TP3!None
  /\ fct["pere"] # TP3!None \/ ~TP3!Alive("pere") \/ pending["fils"]["SIGTERM"] # "pere"
  /\ \/ fct["pere"] # TP3!None \/ ~TP3!Alive("pere")
     \/ fct["fils"] # "SIGTERM" /\ at["fils"] # "exited"
     \/ si_pid["fils"] = "shell" \/ pending["pere"]["SIGTERM"] # TP3!None

(* Who has sent a signal is never the one that gets it.                    *)
LEMMA SentSignals ==
  ASSUME Answered, NEW from, NEW to, NEW s \in TP3!Signals,
         from \in {"pere", "fils", "shell"}
  PROVE  /\ TP3!Sent(from, to, s) \in
              [TP3!Procs -> [TP3!Signals -> {"pere", "fils", "shell", TP3!None}]]
         /\ \A x \in TP3!Procs : \A t \in TP3!Signals :
              \/ TP3!Sent(from, to, s)[x][t] = pending[x][t]
              \/ /\ x = to /\ t = s /\ pending[x][t] = TP3!None
                 /\ TP3!Sent(from, to, s)[x][t] = from
         /\ to \in TP3!Procs /\ TP3!Alive(to) => TP3!Sent(from, to, s)[to][s] # TP3!None
BY DEF TP3!Sent, Answered, TP3!Procs, TP3!Signals, TP3!None

(* At the start the son has not been forked.                               *)
LEMMA AnsweredInit == TP3!Init => Answered
BY DEF TP3!Init, Answered, TP3!Procs, TP3!Signals, TP3!None, TP3!Alive

(* Who dies sends nothing, but for the son who ends by his last case.      *)
LEMMA AnsweredDies ==
  ASSUME Answered, NEW x \in TP3!Procs, NEW how \in {"killed", "exited"}, TP3!Dies(x, how),
         x = "fils" /\ how = "exited" => fct["fils"] = "SIGTERM"
  PROVE  Answered'
BY DEF Answered, TP3!Dies, TP3!Procs, TP3!Signals, TP3!None, TP3!Alive

(* A step of either process or of the shell keeps this.                    *)
LEMMA AnsweredNext == Answered /\ [TP3!Next]_(TP3!vars) => Answered'
<1> SUFFICES ASSUME Answered, [TP3!Next]_(TP3!vars) PROVE Answered'
  OBVIOUS
<1> USE DEF TP3!Procs, TP3!Signals, TP3!None
<1>1. CASE UNCHANGED TP3!vars
  BY <1>1 DEF TP3!vars, Answered, TP3!Alive
<1>2. CASE TP3!Shell
  <2>1. PICK s \in {"SIGUSR1", "SIGTERM"} : pending' = TP3!Sent("shell", "fils", s)
    BY <1>2 DEF TP3!Shell
  <2> QED BY <1>2, <2>1, SentSignals DEF TP3!Shell, Answered, TP3!Alive
<1> SUFFICES ASSUME NEW x \in TP3!Procs, TP3!main(x) \/ TP3!handler(x)
             PROVE  Answered'
  BY <1>1, <1>2 DEF TP3!Next
<1>3. CASE x = "pere" /\ TP3!Fork
  BY <1>3 DEF TP3!Fork, Answered, TP3!Alive
<1>4. CASE TP3!Sigaction(x)
  BY <1>4 DEF TP3!Sigaction, TP3!Main, Answered, TP3!Alive
<1>5. CASE x = "pere" /\ TP3!Kill
  <2>1. pending' = TP3!Sent("pere", "fils", "SIGUSR1")
    BY <1>5 DEF TP3!Kill
  <2> QED BY <1>5, <2>1, SentSignals DEF TP3!Kill, TP3!Main, Answered, TP3!Alive
<1>6. CASE x = "pere" /\ TP3!Wait
  BY <1>6 DEF TP3!Wait, TP3!Main, Answered, TP3!Alive
<1>7. ASSUME NEW s \in TP3!Signals, TP3!Deliver(x, s)
      PROVE  Answered'
  <2>1. CASE s \in handles[x]
    BY <1>7, <2>1 DEF TP3!Deliver, Answered, TP3!Alive
  <2>2. CASE s \notin handles[x]
    BY <1>7, <2>2, AnsweredDies DEF TP3!Deliver
  <2> QED BY <2>1, <2>2
<1>8. CASE TP3!Case(x)
  <2>1. CASE fct[x] = "SIGUSR1"
    <3>1. /\ pending' = TP3!Sent(x, si_pid[x], "SIGUSR2") /\ TP3!Alive(x)
          /\ fct' = [fct EXCEPT ![x] = "SIGUSR2"] /\ UNCHANGED <<at, handles, si_pid, begun>>
      BY <1>8, <2>1 DEF TP3!Case
    <3> QED BY <2>1, <3>1, SentSignals DEF Answered, TP3!Alive
  <2>2. CASE fct[x] = "SIGUSR2"
    <3>1. /\ pending' = TP3!Sent(x, si_pid[x], "SIGTERM") /\ TP3!Alive(x)
          /\ fct' = [fct EXCEPT ![x] = "SIGTERM"] /\ UNCHANGED <<at, handles, si_pid, begun>>
      BY <1>8, <2>2 DEF TP3!Case
    <3> QED BY <2>2, <3>1, SentSignals DEF Answered, TP3!Alive
  <2>3. CASE fct[x] = "SIGTERM"
    BY <1>8, <2>3, AnsweredDies DEF TP3!Case
  <2> QED BY <1>8, <2>1, <2>2, <2>3 DEF TP3!Case
<1> QED BY <1>3, <1>4, <1>5, <1>6, <1>7, <1>8 DEF TP3!main, TP3!handler

(* TP3.c: the father never sees the end of a son who has answered him.     *)
THEOREM AnswerKills == TP3!Spec => AnswerKillsFather
<1>1. Answered /\ [TP3!Next]_(TP3!vars)
        => [(at["pere"] = "wait" /\ at'["pere"] = "exited" /\ fct["pere"] = TP3!None)
              => at["fils"] = "killed" \/ si_pid["fils"] = "shell"]_ofTP3
  <2> SUFFICES ASSUME Answered, [TP3!Next]_(TP3!vars), UNCHANGED ofTP3 => FALSE,
                      at["pere"] = "wait", at'["pere"] = "exited", fct["pere"] = TP3!None
               PROVE  at["fils"] = "killed" \/ si_pid["fils"] = "shell"
    OBVIOUS
  <2>1. TP3!Wait
    BY DEF TP3!vars, TP3!Next, TP3!Shell, TP3!main, TP3!handler, TP3!Fork, TP3!Sigaction,
       TP3!Kill, TP3!Main, TP3!Deliver, TP3!Case, TP3!Dies, Answered, TP3!Procs, TP3!None
  <2> QED BY <2>1 DEF TP3!Wait, TP3!Main, TP3!Alive, Answered, TP3!Signals, TP3!None
<1> QED BY AnsweredInit, AnsweredNext, <1>1, PTL DEF TP3!Spec, AnswerKillsFather

-----------------------------------------------------------------------------
(* The programs side by side *)

(* What is run of the composition is one of them.                          *)
LEMMA OnlyOne ==
  /\ Starts => Init /\ TP2!Init /\ TP1!Init /\ TPP!Init /\ TP3!Init /\ TP6!Init
  /\ [Run]_everything => [Next]_vars /\ [TP2!Next]_(TP2!vars) /\ [TP1!Next]_(TP1!vars)
  /\ [Run]_everything => [TPP!Next]_(TPP!vars) /\ [TP3!Next]_(TP3!vars) /\ [TP6!Next]_(TP6!vars)
<1>1. Starts => Init /\ TP2!Init /\ TP1!Init /\ TPP!Init /\ TP3!Init /\ TP6!Init
  BY DEF Starts
<1>2. UNCHANGED ofTP2 => UNCHANGED TP2!vars
  BY DEF ofTP2, TP2!vars, TP2!sems, TP2!prod, TP2!cons
<1>3. UNCHANGED ofTP1 => UNCHANGED TP1!vars
  BY DEF ofTP1, TP1!vars, TP1!sems, TP1!shm, TP1!ofChild, TP1!ofParent
<1>4. UNCHANGED ofTPP => UNCHANGED TPP!vars
  BY DEF ofTPP, TPP!vars, TPP!sems, TPP!counters
<1>5. UNCHANGED ofTP3 => UNCHANGED TP3!vars
  BY DEF ofTP3, TP3!vars
<1>6. UNCHANGED ofTP6 => UNCHANGED TP6!vars
  BY DEF ofTP6, TP6!vars
<1>7. [Run]_everything => [Next]_vars
  BY DEF Run, Only, everything
<1>8. [Run]_everything => [TP2!Next]_(TP2!vars)
  BY <1>2 DEF Run, Only, everything
<1>9. [Run]_everything => [TP1!Next]_(TP1!vars)
  BY <1>3 DEF Run, Only, everything
<1>10. [Run]_everything => [TPP!Next]_(TPP!vars)
  BY <1>4 DEF Run, Only, everything
<1>11. [Run]_everything => [TP3!Next]_(TP3!vars)
  BY <1>5 DEF Run, Only, everything
<1>12. [Run]_everything => [TP6!Next]_(TP6!vars)
  BY <1>6 DEF Run, Only, everything
<1> QED BY <1>1, <1>7, <1>8, <1>9, <1>10, <1>11, <1>12

(* So the three buffers are what the run checks of them: bounded first-in  *)
(* first-out channels with exact semaphores, for any size of the buffers   *)
(* and any messages.                                                       *)
THEOREM ChannelsCorrect == Starts /\ [][Run]_everything => AreChannels
<1>1. Starts /\ [][Run]_everything => Spec /\ TP2!Spec /\ TP1!Spec
  BY OnlyOne, PTL DEF Spec, TP2!Spec, TP1!Spec
<1> QED BY <1>1, TypeAndCounts, ImplementsChannel, RingCorrect, RingImplementsChannel,
           ShmTypeAndCounts, ShmImplementsChannel, PTL DEF AreChannels

(* And what of the properties of the other three does not need fairness    *)
(* holds of the composition.                                               *)
THEOREM OthersCorrect ==
  Starts /\ [][Run]_everything
    => /\ [](TPP!TypeOK /\ TPP!FirstHalf /\ TPP!TextUnlessRaced)
       /\ AnswerKillsFather
       /\ NeverServesAgain /\ AnsweredUnlessDown
<1>1. Starts /\ [][Run]_everything => TPP!Spec /\ TP3!Spec /\ TP6!Spec
  BY OnlyOne, PTL DEF TPP!Spec, TP3!Spec, TP6!Spec
<1> QED BY <1>1, TurnsCorrect, AnswerKills, ServiceCorrect, OnceServed, PTL
=============================================================================
