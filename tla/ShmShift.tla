------------------------------ MODULE ShmShift -------------------------------
(***************************************************************************)
(* TP1.c: a child process puts the characters of a message, and the NUL    *)
(* at its end, into a shift register in shared memory; its parent takes    *)
(* them out.  Shared memory and semaphores are the system's: they outlive  *)
(* the processes, until the parent removes them.  Somebody may kill the    *)
(* child.                                                                  *)
(***************************************************************************)
EXTENDS Naturals, Sequences

CONSTANTS taille,   \* cells of the register, less than 128: the count is a signed char
          Length    \* characters of the message, named by their position

NUL == 0
message_to_send == [i \in 1 .. Length |-> i] \o <<NUL>>

VARIABLES plein, vide, mutex,
          cells, count,        \* adresse[1..taille] and adresse[0]
          num_char,            \* of the child
          message_to_receive,  \* of the parent, what it has taken so far
          lettre, i,           \* of the parent, in prendre
          child, parent,       \* where they are
          ipc                  \* whether memory and semaphores exist

sems == <<plein, vide, mutex>>
shm == <<cells, count>>
ofChild == <<num_char, child>>
ofParent == <<message_to_receive, lettre, i, parent>>
vars == <<sems, shm, ofChild, ofParent, ipc>>

(* superMalloc and creerSemaphore                                          *)
Init == /\ plein = 0 /\ vide = taille /\ mutex = 1 /\ ipc = TRUE
        /\ cells = [k \in 1 .. taille |-> NUL] /\ count = 0
        /\ num_char = 1 /\ message_to_receive = <<>> /\ lettre = NUL /\ i = taille
        /\ child = "none" /\ parent = "fork"

(* If fork fails the parent ends, and leaves memory and semaphores behind. *)
Fork ==
  /\ parent = "fork"
  /\ \/ parent' = "P" /\ child' = "P"
     \/ parent' = "ended" /\ UNCHANGED child
  /\ UNCHANGED <<sems, shm, num_char, message_to_receive, lettre, i, ipc>>

-----------------------------------------------------------------------------
(* producteur *)

PVide ==
  /\ child = "P" /\ vide > 0 /\ vide' = vide - 1
  /\ child' = "mutex" /\ UNCHANGED <<plein, mutex, shm, num_char, ofParent, ipc>>

placer ==
  /\ child = "mutex" /\ mutex > 0 /\ mutex' = mutex - 1
  /\ cells' = [cells EXCEPT ![taille - count] = message_to_send[num_char]]
  /\ child' = "count" /\ UNCHANGED <<plein, vide, count, num_char, ofParent, ipc>>

PlacerCount ==
  /\ child = "count" /\ count' = count + 1
  /\ child' = "V" /\ UNCHANGED <<sems, cells, num_char, ofParent, ipc>>

VMutex ==
  /\ child = "V" /\ mutex' = mutex + 1
  /\ child' = "plein" /\ UNCHANGED <<plein, vide, shm, num_char, ofParent, ipc>>

VPlein ==
  /\ child = "plein" /\ plein' = plein + 1 /\ num_char' = num_char + 1
  /\ child' = IF message_to_send[num_char] = NUL THEN "ended" ELSE "P"
  /\ UNCHANGED <<vide, mutex, shm, ofParent, ipc>>

(* After any of its steps.  What the child holds it takes with it: no      *)
(* semop says SEM_UNDO.                                                    *)
Killed ==
  /\ child \notin {"none", "ended", "killed"} /\ child' = "killed"
  /\ UNCHANGED <<sems, shm, num_char, ofParent, ipc>>

-----------------------------------------------------------------------------
(* consomateur, and the rest of main *)

PrendreLettre ==
  /\ parent = "P" /\ plein > 0 /\ mutex > 0
  /\ plein' = plein - 1 /\ mutex' = mutex - 1 /\ UNCHANGED vide
  /\ lettre' = cells[taille] /\ i' = taille
  /\ parent' = "shift" /\ UNCHANGED <<shm, ofChild, message_to_receive, ipc>>

PrendreShift ==
  /\ parent = "shift" /\ i > 1
  /\ cells' = [cells EXCEPT ![i] = cells[i - 1]] /\ i' = i - 1
  /\ UNCHANGED <<sems, count, ofChild, message_to_receive, lettre, parent, ipc>>

(* Mutant: the free cell is not announced.                                 *)
PrendreCountTait ==
  /\ parent = "shift" /\ i = 1
  /\ count' = count - 1 /\ mutex' = mutex + 1
  /\ message_to_receive' = Append(message_to_receive, lettre)
  /\ parent' = IF lettre = NUL THEN "wait" ELSE "P"
  /\ UNCHANGED <<plein, vide, cells, ofChild, lettre, i, ipc>>

PrendreCount ==
  /\ parent = "shift" /\ i = 1
  /\ count' = count - 1
  /\ mutex' = mutex + 1 /\ vide' = vide + 1 /\ UNCHANGED plein
  /\ message_to_receive' = Append(message_to_receive, lettre)
  /\ parent' = IF lettre = NUL THEN "wait" ELSE "P"
  /\ UNCHANGED <<cells, ofChild, lettre, i, ipc>>

(* wait, and then memory and semaphores are removed.                       *)
superFree ==
  /\ parent = "wait" /\ child \in {"ended", "killed"}
  /\ parent' = "ended" /\ ipc' = FALSE
  /\ UNCHANGED <<sems, shm, ofChild, message_to_receive, lettre, i>>

producteur == PVide \/ placer \/ PlacerCount \/ VMutex \/ VPlein
consomateur == PrendreLettre \/ PrendreShift \/ PrendreCount

Next == Fork \/ producteur \/ Killed \/ consomateur \/ superFree

Spec == Init /\ [][Next]_vars

-----------------------------------------------------------------------------
(* Properties *)

(* The values of every variable.                                           *)
TypeOK ==
  /\ plein \in 0 .. taille /\ vide \in 0 .. taille /\ mutex \in 0 .. 1
  /\ cells \in [1 .. taille -> 0 .. Length] /\ count \in 0 .. taille
  /\ num_char \in 1 .. Length + 2 /\ lettre \in 0 .. Length /\ i \in 1 .. taille
  /\ child \in {"none", "P", "mutex", "count", "V", "plein", "ended", "killed"}
  /\ parent \in {"fork", "P", "shift", "wait", "ended"} /\ ipc \in BOOLEAN

(* The register is a bounded first-in first-out channel, whoever dies.  A  *)
(* character is on its way when it is counted; one that the parent has     *)
(* still to move is one cell below.                                        *)
Taking == IF parent = "shift" THEN 1 ELSE 0
Place(k) == IF parent = "shift" /\ taille + 1 - k <= i THEN taille - k ELSE taille + 1 - k
Queue == [k \in 1 .. count - Taking |-> cells[Place(k)]]
Received == message_to_receive \o (IF parent = "shift" THEN <<lettre>> ELSE <<>>)
Channel == INSTANCE BoundedChannel WITH
  N <- taille, Message <- message_to_send, queue <- Queue, received <- Received
IsChannel == Channel!Spec

(* Nobody touches the memory after it has been removed, and it is removed  *)
(* when the message has arrived.                                           *)
RemovedLast == ~ipc => child \in {"ended", "killed"} /\ message_to_receive = message_to_send
=============================================================================
