---------------------------- MODULE SocketRelays -----------------------------
(***************************************************************************)
(* The relays of more than two processes beside that of multi2.c:          *)
(* gVersion2.c and multi.c.  One of them is run; it has the variables that *)
(* its module declares, the others are empty.                              *)
(***************************************************************************)
EXTENDS ProcessArrays

CONSTANTS Due, Stream   \* those of SharedSocket

ASSUME DueAssumption == Due \in Nat \ {0, 1}
ASSUME StreamAssumption == Stream \in Nat \ {0}

VARIABLES program,   \* the one that is run
          sockfd, sock, to, newsockfd, due, wire, broken, ready   \* those of multi.c

MU == INSTANCE SharedSocket

arrays == <<killed, semaphores, buffers, target_pid, backlog, late>>
everything == <<vars, sockfd, sock, to, newsockfd, due, wire, broken, ready, program>>

Starts ==
  \/ /\ program = "gVersion2" /\ Init
     /\ sockfd = <<>> /\ sock = <<>> /\ to = <<>> /\ newsockfd = <<>> /\ due = <<>>
     /\ wire = <<>> /\ broken = <<>> /\ ready = <<>>
  \/ /\ program = "multi" /\ MU!Init
     /\ killed = {} /\ sending_plein = <<>> /\ sending_mutex = <<>> /\ receive_plein = <<>>
     /\ receive_vide = <<>> /\ receive_mutex = <<>> /\ bufferServBrain = <<>>
     /\ bufferBrainClient = <<>> /\ target_pid = <<>> /\ backlog = <<>> /\ late = <<>>

Run ==
  \/ /\ program = "gVersion2" /\ Next
     /\ UNCHANGED <<sockfd, sock, to, newsockfd, due, wire, broken, ready, program>>
  \/ program = "multi" /\ MU!Next /\ UNCHANGED <<arrays, program>>

Safe == Starts /\ [][Run]_everything

(* Bounds of the run: in gVersion2.c two connections at a time, one after  *)
(* a greeting has come late; and when a process has ended or is to end, or *)
(* main has a pid to store, the behaviour is followed until one does.      *)
Disturbed == killed # {} \/ \E x \in Procs \cup {Main} : state[x] \notin {"none", "runs"}
NoneLate == \A p \in Procs : late[p] = Own(p)
Bounded ==
  program = "gVersion2" =>
    /\ Cardinality({c \in Procs \X (1 .. Backlog + 1) : c[2] <= Len(backlog[c[1]])})
         <= IF NoneLate THEN 2 ELSE 1
    /\ Disturbed => NoneLate

-----------------------------------------------------------------------------
(* Properties *)

(* gVersion2.c: the slot between server and brain is free, announced, or   *)
(* in the hands of the server; who blocks with a mutex is the server in    *)
(* recv, and the client from before its connect to after its send.         *)
SlotOwned == program = "gVersion2" => TypeOK /\ Slot

(* gVersion2.c: and yet what comes while the brain is idle is written over *)
(* by the text it sent last; it sends on what comes while it is at work on *)
(* an earlier text, or on the end of a connection, which is handed over    *)
(* like one.  So from a process other than 0 the greeting goes on only if  *)
(* it once came at such a time; and a brain that has done its work leaves  *)
(* it to be sent just when it was the last text to come so.                *)
RelayNeedsTwo ==
  /\ SlotOwned
  /\ program = "gVersion2" =>
       \A p \in Procs :
         /\ bufferBrainClient[p] => late[p] # "no"
         /\ pc[p].brain = "take" => (bufferBrainClient[p] <=> late[p] = "bonjour")

(* gVersion2.c: between living processes the last text is lost to a        *)
(* tracker, or to a connect that comes before the server: in a system that *)
(* has come to silence no text is left to wait for.                        *)
OnlyTheseSilence ==
  [][program = "gVersion2" /\ AllUp /\ AllUp' /\ ~Silent /\ Silent'
       => \E p \in Procs : Tracker(p) \/ ConnectFails(p)]_everything

(* gVersion2.c: and if living processes stand still without that silence,  *)
(* it is in a ring of connects: every client that is in one waits for a    *)
(* full queue whose server waits for its brain, and that brain for a       *)
(* client that is in a connect too, perhaps the first itself.              *)
StandsInRing ==
  program = "gVersion2" /\ AllUp /\ (\A p \in Procs : Blocked(p)) /\ ~Silent =>
    LET Connecting == {p \in Procs : pc[p].client = "connect"} IN
    /\ Connecting # {}
    /\ \A p \in Connecting : /\ target_pid[p] \in Connecting
                              /\ receive_plein[target_pid[p]] = 1
                              /\ pc[target_pid[p]].brain \in AtWork

(* gVersion2.c: the two together are all that stops the relay of living    *)
(* processes: the last text lost to a tracker or to a connect that comes   *)
(* before the server, or texts left and a ring of connects to full queues. *)
RelayStops == OnlyTheseSilence /\ []StandsInRing

(* multi.c: a process that can both receive and send is one whose server   *)
(* thread had called accept before its client made its socket.             *)
DuplexOnlyServerFirst == program = "multi" => MU!TypeOK /\ MU!DuplexOnlyServerFirst
=============================================================================
