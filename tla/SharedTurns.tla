---------------------------- MODULE SharedTurns ------------------------------
(***************************************************************************)
(* tp_project.c, and test_tp.c without its signals: in one process, the    *)
(* server passes a text to the brain, then the brain passes it on to the   *)
(* client, through two rings of taille cells.  Server and brain share      *)
(* tourProd, brain and client tourCons; between its two halves the brain   *)
(* sets both to 0, whatever the others are doing.                          *)
(*                                                                         *)
(* A character is named by its position in chaineAEnvoyer, whose NUL is    *)
(* the last.  chaineRecue has as many places as the program writes.        *)
(***************************************************************************)
EXTENDS Naturals

CONSTANTS taille,  \* cells of either ring
          nbTour   \* characters of the text

Rings == {"receive", "sending"}
Threads == {"client", "server", "brain"}

VARIABLES plein, vide, mutex,   \* per ring, its semaphores
          buffer,               \* bufferServBrain and bufferBrainClient
          tourProd, tourCons, chaineRecue,
          pc,                   \* per thread: at its "test", "P", "V", "load", "store", or "out"
          half,                 \* of the brain, 1 or 2
          loaded,               \* per thread, what its ++ has read
          raced                 \* whether a thread was about when the brain set the turns to 0

sems == <<plein, vide, mutex>>
counters == <<tourProd, tourCons>>
vars == <<sems, buffer, counters, chaineRecue, pc, half, loaded, raced>>

Init ==
  /\ plein = [r \in Rings |-> 0] /\ vide = [r \in Rings |-> taille]
  /\ mutex = [r \in Rings |-> 1]
  /\ buffer = [r \in Rings |-> [k \in 0 .. taille - 1 |-> nbTour]]
  /\ tourProd = 0 /\ tourCons = 0 /\ chaineRecue = [k \in 0 .. nbTour |-> nbTour]
  /\ pc = [t \in Threads |-> "test"] /\ half = 1 /\ loaded = [t \in Threads |-> 0]
  /\ raced = FALSE

Ring(t) == IF t = "client" \/ (t = "brain" /\ half = 2) THEN "sending" ELSE "receive"
Produces(t) == t = "server" \/ (t = "brain" /\ half = 2)
Turn(t) == IF Produces(t) THEN tourProd ELSE tourCons

Goto(t, from, to) == pc[t] = from /\ pc' = [pc EXCEPT ![t] = to]

-----------------------------------------------------------------------------
(* thread_client, thread_server and each half of thread_brain              *)

Test(t) ==
  LET over == Turn(t) >= nbTour
      reset == over /\ t = "brain" /\ half = 1
  IN  /\ Goto(t, "test", IF reset THEN "test" ELSE IF over THEN "out" ELSE "P")
      /\ IF reset THEN /\ tourProd' = 0 /\ tourCons' = 0 /\ half' = 2
                       /\ raced' = (pc["server"] # "out" \/ pc["client"] = "out")
                  ELSE UNCHANGED <<counters, half, raced>>
      /\ UNCHANGED <<sems, buffer, chaineRecue, loaded>>

(* Both semaphores, and the character placed or taken at the turn.         *)
placer(t) ==
  LET r == Ring(t) IN
    /\ Produces(t) /\ Goto(t, "P", "V") /\ vide[r] > 0 /\ mutex[r] > 0
    /\ vide' = [vide EXCEPT ![r] = @ - 1] /\ mutex' = [mutex EXCEPT ![r] = @ - 1]
    /\ buffer' = [buffer EXCEPT ![r][tourProd % taille] = tourProd]
    /\ UNCHANGED <<plein, counters, chaineRecue, half, loaded, raced>>

prendre(t) ==
  LET r == Ring(t) IN
    /\ ~Produces(t) /\ Goto(t, "P", "V") /\ plein[r] > 0 /\ mutex[r] > 0
    /\ plein' = [plein EXCEPT ![r] = @ - 1] /\ mutex' = [mutex EXCEPT ![r] = @ - 1]
    /\ chaineRecue' = [chaineRecue EXCEPT ![tourCons] = buffer[r][tourCons % taille]]
    /\ UNCHANGED <<vide, buffer, counters, half, loaded, raced>>

(* Mutant: a cell that was emptied is not given back.                      *)
VProducer(t) ==
  LET r == Ring(t) IN
    /\ Goto(t, "V", "load")
    /\ mutex' = [mutex EXCEPT ![r] = @ + 1]
    /\ plein' = [plein EXCEPT ![r] = IF Produces(t) THEN @ + 1 ELSE @]
    /\ UNCHANGED <<vide, buffer, counters, chaineRecue, half, loaded, raced>>

V(t) ==
  LET r == Ring(t) IN
    /\ Goto(t, "V", "load")
    /\ mutex' = [mutex EXCEPT ![r] = @ + 1]
    /\ IF Produces(t) THEN plein' = [plein EXCEPT ![r] = @ + 1] /\ UNCHANGED vide
                      ELSE vide' = [vide EXCEPT ![r] = @ + 1] /\ UNCHANGED plein
    /\ UNCHANGED <<buffer, counters, chaineRecue, half, loaded, raced>>

(* tourProd++ or tourCons++, after the semaphores: a load and a store.     *)
Load(t) ==
  /\ Goto(t, "load", "store") /\ loaded' = [loaded EXCEPT ![t] = Turn(t)]
  /\ UNCHANGED <<sems, buffer, counters, chaineRecue, half, raced>>

Store(t) ==
  /\ Goto(t, "store", "test")
  /\ IF Produces(t) THEN tourProd' = loaded[t] + 1 /\ UNCHANGED tourCons
                    ELSE tourCons' = loaded[t] + 1 /\ UNCHANGED tourProd
  /\ UNCHANGED <<sems, buffer, chaineRecue, half, loaded, raced>>

Thread(t) == Test(t) \/ placer(t) \/ prendre(t) \/ V(t) \/ Load(t) \/ Store(t)

Next == \E t \in Threads : Thread(t)

Spec == Init /\ [][Next]_vars

-----------------------------------------------------------------------------
(* Properties *)

(* The values of every variable; both threads that count tourProd may find *)
(* it below its end and count once more each.                              *)
TypeOK ==
  /\ plein \in [Rings -> 0 .. taille] /\ vide \in [Rings -> 0 .. taille]
  /\ mutex \in [Rings -> 0 .. 1]
  /\ \A r \in Rings : buffer[r] \in [0 .. taille - 1 -> 0 .. nbTour]
  /\ tourProd \in 0 .. nbTour + 1 /\ tourCons \in 0 .. nbTour
  /\ chaineRecue \in [0 .. nbTour -> 0 .. nbTour]
  /\ pc \in [Threads -> {"test", "P", "V", "load", "store", "out"}]
  /\ half \in {1, 2} /\ loaded \in [Threads -> 0 .. nbTour] /\ raced \in BOOLEAN

Taken == tourCons + (IF pc["brain"] \in {"V", "load", "store"} THEN 1 ELSE 0)

(* Until the turns are reset the brain receives the text as it was sent,   *)
(* although the client counts with the same variable.                      *)
FirstHalf == half = 1 => \A k \in 0 .. Taken - 1 : chaineRecue[k] = k

(* All threads end, and main prints the text.                              *)
Ended == \A t \in Threads : pc[t] = "out"
(* Then the text was received twice, unless the server had not seen its    *)
(* own end when the brain set the turns to 0, or the client had seen the   *)
(* brain's.                                                                *)
TextUnlessRaced == Ended /\ ~raced => \A k \in 0 .. nbTour - 1 : chaineRecue[k] = k
=============================================================================
