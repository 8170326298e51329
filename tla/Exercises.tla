------------------------------ MODULE Exercises ------------------------------
(***************************************************************************)
(* The smaller programs side by side: prodcons.c, TP2.c, TP1.c,            *)
(* tp_project.c, TP3.c, and TP6_server.c with TP6_client.c.  One of them   *)
(* is run, the others stay at their beginning.                             *)
(***************************************************************************)
EXTENDS ProdCons

CONSTANTS taille, nbTour,    \* of the ring of TP2.c; the register of TP1.c is as long
          turns, text,       \* the same of tp_project.c
          Clients, Backlog   \* of TP6_server.c

ASSUME TailleAssumption == taille \in 1 .. 127 /\ turns \in Nat \ {0}
ASSUME TextAssumption == nbTour \in Nat /\ text \in Nat \ {0}
ASSUME BacklogAssumption == Backlog \in Nat

VARIABLES
  program,   \* the one that is run
  plein2, vide2, mutex2, bufferCommun, tourProd, tourCons, chaine2, prod2, cons2,
  plein1, vide1, mutex1, cells1, count, num_char, message_to_receive, lettre, i, child, parent, ipc,
  pleins, vides, mutexes, buffer, tourProds, tourConss, chaineRecue3, pc, half, loaded, raced,
  at, handles, pending, fct, si_pid, begun,
  server, file, queue, newsockfd, client, request, reply

TP2 == INSTANCE RingBuffer WITH
  plein <- plein2, vide <- vide2, mutex <- mutex2, chaineRecue <- chaine2,
  producteur <- prod2, consomateur <- cons2
TP1 == INSTANCE ShmShift WITH
  Length <- nbTour, plein <- plein1, vide <- vide1, mutex <- mutex1, cells <- cells1
TPP == INSTANCE SharedTurns WITH
  taille <- turns, nbTour <- text, plein <- pleins, vide <- vides, mutex <- mutexes,
  tourProd <- tourProds, tourCons <- tourConss, chaineRecue <- chaineRecue3
TP3 == INSTANCE SignalHandshake
TP6 == INSTANCE EchoSocket

(* The variables of each of them                                           *)
ofTP2 == <<plein2, vide2, mutex2, bufferCommun, tourProd, tourCons, chaine2, prod2, cons2>>
ofTP1 == <<plein1, vide1, mutex1, cells1, count, num_char, message_to_receive, lettre, i,
           child, parent, ipc>>
ofTPP == <<pleins, vides, mutexes, buffer, tourProds, tourConss, chaineRecue3, pc, half,
           loaded, raced>>
ofTP3 == <<at, handles, pending, fct, si_pid, begun>>
ofTP6 == <<server, file, queue, newsockfd, client, request, reply>>
everything == <<program, vars, ofTP2, ofTP1, ofTPP, ofTP3, ofTP6>>

Starts ==
  /\ program \in {"prodcons", "TP2", "TP1", "tp_project", "TP3", "TP6"}
  /\ Init /\ TP2!Init /\ TP1!Init /\ TPP!Init /\ TP3!Init /\ TP6!Init
  /\ program # "prodcons" => consommateur = "absent"
  /\ program # "TP6" => ~file

(* The steps of one program, the others at rest.                           *)
Only(p) ==
  /\ program = p /\ UNCHANGED program
  /\ p = "prodcons" \/ (p # "prodcons" /\ UNCHANGED vars)
  /\ p = "TP2" \/ (p # "TP2" /\ UNCHANGED ofTP2)
  /\ p = "TP1" \/ (p # "TP1" /\ UNCHANGED ofTP1)
  /\ p = "tp_project" \/ (p # "tp_project" /\ UNCHANGED ofTPP)
  /\ p = "TP3" \/ (p # "TP3" /\ UNCHANGED ofTP3)
  /\ p = "TP6" \/ (p # "TP6" /\ UNCHANGED ofTP6)

Run == \/ Only("prodcons") /\ Next
       \/ Only("TP2") /\ TP2!Next
       \/ Only("TP1") /\ TP1!Next
       \/ Only("tp_project") /\ TPP!Next
       \/ Only("TP3") /\ TP3!Next
       \/ Only("TP6") /\ TP6!Next

(* The threads or processes of each program, in an order.  The user who    *)
(* starts, kills and signals is none of them.                              *)
Thread(k) ==
  \/ k = 1 /\ Only("prodcons") /\ Producteur
  \/ k = 2 /\ Only("prodcons") /\ Consommateur
  \/ k = 1 /\ Only("TP2") /\ TP2!Producteur
  \/ k = 2 /\ Only("TP2") /\ TP2!Consomateur
  \/ k = 3 /\ Only("TP2") /\ TP2!main
  \/ k = 1 /\ Only("TP1") /\ TP1!producteur
  \/ k = 2 /\ Only("TP1") /\ TP1!consomateur
  \/ k = 3 /\ Only("TP1") /\ (TP1!Fork \/ TP1!superFree)
  \/ k <= 3 /\ Only("tp_project") /\ TPP!Thread(<<"server", "brain", "client">>[k])
  \/ k <= 2 /\ Only("TP3") /\ TP3!main(<<"pere", "fils">>[k])
  \/ k > 2 /\ Only("TP3") /\ TP3!handler(<<"pere", "fils">>[k - 2])
  \/ k = 4 /\ Only("TP6") /\ TP6!main

Fair == /\ Starts /\ [][Run]_everything
        /\ \A k \in 1 .. 4 : WF_everything(Thread(k))
        /\ \A c \in Clients : WF_everything(Only("TP6") /\ TP6!main_client(c))

-----------------------------------------------------------------------------
(* Properties: those of ProdCons, and *)

(* Each of the three buffers of prodcons.c, TP2.c and TP1.c is a bounded   *)
(* first-in first-out channel, whoever dies; and the semaphores of TP2.c   *)
(* are exact although both counters lag behind them.                       *)
AreChannels ==
  /\ [](TypeOK /\ TP2!TypeOK /\ TP2!Counts /\ TP1!TypeOK)
  /\ IsChannel /\ TP2!IsChannel /\ TP1!IsChannel

(* TP2.c: the whole message arrives.                                       *)
RingDelivers ==
  []<>(program = "TP2" => cons2 = "joined" /\ chaine2 = TP2!chaineAEnvoyer)

(* TP1.c: memory and semaphores are removed, unless fork fails or the      *)
(* child is killed before its last character is announced: then they stay, *)
(* and in the second case the parent too, in semop, for ever.              *)
RemovedOrKilled ==
  []<>(program = "TP1" => \/ parent = "ended" /\ (~ipc \/ child = "none")
                          \/ child = "killed" /\ parent = "P" /\ (plein1 = 0 \/ mutex1 = 0))

(* Through each of the three buffers the whole message arrives, but for    *)
(* that child, and a second thread that does not exist; and nobody touches *)
(* the memory of TP1.c after it has been removed.                          *)
MessagesArrive == Delivers /\ RingDelivers /\ RemovedOrKilled /\ []TP1!RemovedLast

(* tp_project.c: the process ends, unless the server had not seen its own  *)
(* end when the brain set the turns to 0, or the client had seen the       *)
(* brain's: then somebody may wait for ever.                               *)
EndsUnlessRaced == []<>(program = "tp_project" => raced \/ TPP!Ended)

(* tp_project.c: until the turns are reset the brain receives the text as  *)
(* it was sent, although the client counts with the same variable; with    *)
(* the same exception the process ends, having received it twice.          *)
ArrivesUnlessRaced == [](TPP!TypeOK /\ TPP!FirstHalf /\ TPP!TextUnlessRaced) /\ EndsUnlessRaced

(* TP3.c: both processes end, whatever the order of the signals and        *)
(* however many the shell sends: for lack of a break the son's own first   *)
(* answer is the end of both.                                              *)
BothEnd == []<>(program = "TP3" => \A x \in TP3!Procs : ~TP3!Alive(x))

(* TP3.c: the father never sees the end of a son who has answered him:     *)
(* what the son's handler sends takes the father along.  What TP3.c:60     *)
(* prints is for a son killed before he was ready, or ended by the shell.  *)
AnswerKillsFather ==
  [][(at["pere"] = "wait" /\ at'["pere"] = "exited" /\ fct["pere"] = TP3!None)
       => at["fils"] = "killed" \/ si_pid["fils"] = "shell"]_ofTP3

(* TP3.c: so the handshake ends, but not in the order its messages tell.   *)
HandshakeEnds == BothEnd /\ AnswerKillsFather

(* TP6_server.c: there is one service in the life of the file: a server    *)
(* that has died, killed or by SIGPIPE, leaves a name behind on which no   *)
(* later one can bind (TP6_server.c:26).                                   *)
NeverServesAgain == [](file /\ server = "down" => []~TP6!Up)

(* TP6_server.c: one client that is killed with its request open ends that *)
(* service for everybody: the server answers it, and SIGPIPE ends the      *)
(* server (TP6_server.c:44).                                               *)
KilledClientEndsService ==
  \A c \in Clients :
    client[c] = "killed" /\ TP6!Unanswered(c) ~> [](server \in {"down", "socket"})

(* TP6_client.c: only the death of the server robs a connected client of   *)
(* its answer.                                                             *)
AnsweredUnlessDown ==
  [][\A c \in Clients : client[c] = "read" /\ client'[c] = "empty" => ~TP6!Up]_ofTP6

(* TP6_client.c: every client ends, whoever is killed and however full the *)
(* queue.                                                                  *)
EveryClientEnds == \A c \in Clients : []<>(client[c] \notin {"connect", "write", "read"})

(* The service of TP6_server.c lasts until its server or one client dies,  *)
(* and no client is left waiting by its end.                               *)
OneService ==
  NeverServesAgain /\ KilledClientEndsService /\ AnsweredUnlessDown /\ EveryClientEnds
=============================================================================
