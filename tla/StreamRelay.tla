----------------------------- MODULE StreamRelay -----------------------------
(***************************************************************************)
(* The steps of the threads of pipeProjet.c, brique.c, abracadabra.c,      *)
(* working.c, testtest.c, fifotube.c and PIPEETTHREADS.c: processes, each  *)
(* of which sends on one connection and receives on another, for ever.     *)
(* The programs differ in which of these steps they take, in their main    *)
(* and in their signals: each has a module that puts its own together from *)
(* the steps here.                                                         *)
(*                                                                         *)
(* A text is a unit: what the texts say is left out, and so are            *)
(* sending_vide and tracker_vide, which nobody waits for.                  *)
(***************************************************************************)
EXTENDS Naturals, FiniteSets

CONSTANTS Procs,    \* the processes that relay, by the pid given to their threads
          To,       \* per process, the one whose server its client connects to
          SemMax,   \* SEM_VALUE_MAX: sem_post fails there, which nobody looks at
          Stream,   \* the texts a connection takes before send blocks
          Main      \* the process that forks

ASSUME SemMaxAssumption == SemMax \in Nat \ {0}
ASSUME StreamAssumption == Stream \in Nat \ {0}

ASSUME ProcsAssumption == Procs \subseteq Nat /\ 1 \in Procs
ASSUME ToAssumption == /\ DOMAIN To = Procs
                       /\ \A p, q \in Procs : To[p] = To[q] => p = q
ASSUME MainAssumption == Main \notin Procs

Starter == 1
(* The streams to process p: one, or none                                  *)
Into(p) == {q \in Procs : To[q] = p}
Others == <<2, 1>>  \* To, where there are two processes

Semaphores == {"receive_plein", "receive_vide", "receive_mutex", "sending_plein",
               "sending_mutex", "tracker_plein", "tracker_mutex"}

VARIABLES
  sem,      \* per process, its semaphores
  pc,       \* per process and thread, the call it is before
  link,     \* per process, its client's connection: "none", "queued" or "accepted"
  wire,     \* per process, the texts sent on it that nobody has received
  broken,   \* per process, whether a text was sent to a peer that had ended
  state,    \* per process, "none" before it is forked; main is "forked" until a pid is stored
  killed    \* the processes with a SIGUSR1 to come

net == <<link, wire, broken>>
life == <<state, killed>>
relay == <<sem, pc, net, life>>

Up(x) == state[x] \notin {"none", "ended"}

Sem0 == [s \in Semaphores |->
           IF s \in {"receive_plein", "sending_plein", "tracker_plein"} THEN 0 ELSE 1]
Pc0 == [client |-> "connect", server |-> "bind", brain |-> "greet", tracker |-> "take"]

RelayInit ==
  /\ sem = [p \in Procs |-> Sem0] /\ pc = [p \in Procs |-> Pc0]
  /\ link = [p \in Procs |-> "none"] /\ wire = [p \in Procs |-> 0]
  /\ broken = [p \in Procs |-> FALSE]
  /\ state = [p \in Procs \cup {Main} |-> IF p = Main THEN "runs" ELSE "none"]
  /\ killed = {}

Goto(p, t, from, to) == /\ Up(p) /\ pc[p][t] = from
                        /\ pc' = [pc EXCEPT ![p][t] = to]

Post(value) == IF value = SemMax THEN value ELSE value + 1

(* sem_wait on the semaphores S and sem_post on those of T, by one thread  *)
SemWait(p, S) == /\ \A s \in S : sem[p][s] > 0
                 /\ sem' = [sem EXCEPT ![p] = [s \in Semaphores |->
                              IF s \in S THEN @[s] - 1 ELSE @[s]]]
SemPost(p, T) == sem' = [sem EXCEPT ![p] = [s \in Semaphores |->
                              IF s \in T THEN Post(@[s]) ELSE @[s]]]

(* A process ends: its memory and what was on its way to it are gone, what *)
(* it has sent is still there for its peer.                                *)
Ends(x) ==
  /\ state' = [state EXCEPT ![x] = "ended"]
  /\ sem' = [p \in Procs |-> IF p = x THEN Sem0 ELSE sem[p]]
  /\ pc' = [p \in Procs |-> IF p = x THEN Pc0 ELSE pc[p]]
  /\ wire' = [p \in Procs |-> IF To[p] = x THEN 0 ELSE wire[p]]
  /\ broken' = [p \in Procs |-> p # x /\ broken[p]]
  /\ UNCHANGED link

-----------------------------------------------------------------------------
(* thread_client *)

Listening(p) == p \in Procs /\ Up(p) /\ pc[p].server # "bind"

(* A refused connect is tried again and changes nothing.                   *)
Connect(p) ==
  /\ Goto(p, "client", "connect", "take")
  /\ Listening(To[p])
  /\ link' = [link EXCEPT ![p] = "queued"]
  /\ UNCHANGED <<sem, wire, broken, life>>

ClientTake(p) ==
  /\ Goto(p, "client", "take", "send")
  /\ SemWait(p, {"sending_plein", "sending_mutex"})
  /\ UNCHANGED <<net, life>>

(* Mutant: the mutex is not given back.                                    *)
SendKeepsMutex(p) ==
  /\ Goto(p, "client", "send", "take")
  /\ Up(To[p]) /\ wire[p] < Stream
  /\ wire' = [wire EXCEPT ![p] = @ + 1]
  /\ UNCHANGED <<sem, link, broken, life>>

(* send holds sending_mutex, also while the stream is full.  The first     *)
(* text sent to a peer that has ended is lost.                             *)
Send(p) ==
  /\ Goto(p, "client", "send", "take")
  /\ \/ /\ Up(To[p]) /\ wire[p] < Stream
        /\ wire' = [wire EXCEPT ![p] = @ + 1]
        /\ UNCHANGED broken
     \/ /\ ~Up(To[p]) /\ ~broken[p]
        /\ broken' = [broken EXCEPT ![p] = TRUE]
        /\ UNCHANGED wire
  /\ SemPost(p, {"sending_mutex"})
  /\ UNCHANGED <<link, life>>

(* Mutant: SIGPIPE is ignored.                                             *)
SendIgnored(p) ==
  /\ Goto(p, "client", "send", "take")
  /\ broken[p]
  /\ SemPost(p, {"sending_mutex"})
  /\ UNCHANGED <<net, life>>

(* The next send raises SIGPIPE, which nobody handles.                     *)
SendFails(p) ==
  /\ Up(p) /\ pc[p].client = "send" /\ broken[p]
  /\ Ends(p) /\ killed' = killed \ {p}

-----------------------------------------------------------------------------
(* thread_server *)

Bind(p) ==
  /\ Goto(p, "server", "bind", "accept")
  /\ UNCHANGED <<sem, net, life>>

(* error() ends the process.                                               *)
BindFails(p) ==
  /\ Up(p) /\ pc[p].server = "bind"
  /\ Ends(p) /\ killed' = killed \ {p}

(* One connection is accepted and kept, whether its client lives or not.   *)
Accept(p, next) ==
  /\ Goto(p, "server", "accept", next)
  /\ \E q \in Into(p) : /\ link[q] = "queued"
                         /\ link' = [link EXCEPT ![q] = "accepted"]
  /\ UNCHANGED <<sem, wire, broken, life>>

(* Mutant: the server does not wait for receive_vide.                      *)
ServerTakeAnyway(p) ==
  /\ Goto(p, "server", "take", "recv")
  /\ SemWait(p, {"receive_mutex"})
  /\ UNCHANGED <<net, life>>

ServerTake(p) ==
  /\ Goto(p, "server", "take", "recv")
  /\ SemWait(p, {"receive_vide", "receive_mutex"})
  /\ UNCHANGED <<net, life>>

(* recv takes what is there, at least one text; at the end of the stream   *)
(* it takes nothing, which nobody looks at.                                *)
Recv(p) ==
  \E q \in Into(p) :
    \/ \E k \in 1 .. wire[q] : wire' = [wire EXCEPT ![q] = @ - k]
    \/ wire[q] = 0 /\ ~Up(q) /\ UNCHANGED wire

(* Mutant: the wrong semaphore is posted, the text is received over.       *)
ReceiveOver(p) ==
  /\ Goto(p, "server", "recv", "take")
  /\ Recv(p)
  /\ SemPost(p, {"receive_mutex", "receive_vide"})
  /\ UNCHANGED <<link, broken, life>>

(* In the latter case the text in the buffer is announced once more.       *)
Receive(p) ==
  /\ Goto(p, "server", "recv", "take")
  /\ Recv(p)
  /\ SemPost(p, {"receive_mutex", "receive_plein"})
  /\ UNCHANGED <<link, broken, life>>

-----------------------------------------------------------------------------
(* thread_brain *)

Greet(p) ==
  /\ Goto(p, "brain", "greet", "take")
  /\ SemPost(p, IF p = Starter THEN {"sending_plein"} ELSE {})
  /\ UNCHANGED <<net, life>>

(* The brain copies the text out of the slot (with the mutex in its hands  *)
(* nothing can block it), and announces it before it is rewritten ...      *)
BrainTake(p) ==
  /\ Goto(p, "brain", "take", "rewrite")
  /\ sem[p].receive_plein > 0 /\ sem[p].receive_mutex > 0
  /\ sem' = [sem EXCEPT ![p].receive_plein = @ - 1, ![p].receive_vide = Post(@),
                        ![p].sending_plein = Post(@)]
  /\ UNCHANGED <<net, life>>

(* Mutant: the text is announced once.                                     *)
BrainRewriteOnce(p, next, also) ==
  /\ Goto(p, "brain", "rewrite", next)
  /\ sem[p].sending_mutex > 0
  /\ SemPost(p, also)
  /\ UNCHANGED <<net, life>>

(* ... and once more after.                                                *)
BrainRewrite(p, next, also) ==
  /\ Goto(p, "brain", "rewrite", next)
  /\ sem[p].sending_mutex > 0
  /\ SemPost(p, {"sending_plein"} \cup also)
  /\ UNCHANGED <<net, life>>

(* Mutant: the text for the tracker is rewritten without its mutex.        *)
BrainTrackUnlocked(p) ==
  /\ Goto(p, "brain", "track", "take")
  /\ SemPost(p, {"tracker_plein"})
  /\ UNCHANGED <<net, life>>

(* For the tracker the same again: announced, rewritten, announced.        *)
BrainTrack(p) ==
  /\ Goto(p, "brain", "track", "take")
  /\ sem[p].tracker_mutex > 0
  /\ SemPost(p, {"tracker_plein"})
  /\ UNCHANGED <<net, life>>

-----------------------------------------------------------------------------
(* thread_tracker *)

TrackerTake(p) ==
  /\ Goto(p, "tracker", "take", "write")
  /\ SemWait(p, {"tracker_plein", "tracker_mutex"})
  /\ UNCHANGED <<net, life>>

TrackerDone(p, also) ==
  /\ Goto(p, "tracker", "write", "take")
  /\ SemPost(p, {"tracker_mutex"} \cup also)
  /\ UNCHANGED <<net, life>>

-----------------------------------------------------------------------------
(* main, and the signals of the programs that have a handler *)

(* fork, of 1 and then 2 ...                                               *)
Fork(p) ==
  /\ state[Main] = "runs" /\ state[p] = "none"
  /\ \A q \in Procs : q < p => state[q] # "none"
  /\ state' = [state EXCEPT ![p] = "runs", ![Main] = "forked"]
  /\ UNCHANGED <<sem, pc, net, killed>>

(* ... and the assignment of the pid that it returns.                      *)
Record ==
  /\ state[Main] = "forked"
  /\ state' = [state EXCEPT ![Main] = "runs"]
  /\ UNCHANGED <<sem, pc, net, killed>>

(* error("fork") ends main only.                                           *)
ForkFails ==
  /\ state[Main] = "runs" /\ \E p \in Procs : state[p] = "none"
  /\ Ends(Main) /\ UNCHANGED killed

Forked == {p \in Procs : state[p] # "none"}

(* Those whose pid main has stored: it may lack the last.                  *)
Known == {p \in Forked : state[Main] = "forked" => \E q \in Forked : p < q}

(* The two waitpids, and the end.                                          *)
MainReturns ==
  /\ state[Main] = "runs" /\ \A p \in Procs : state[p] = "ended"
  /\ Ends(Main) /\ UNCHANGED killed

(* signal_handler in process x, whose pid1 and pid2 hold known: it sends   *)
(* them SIGUSR1; who has children waits for them before it exits, also for *)
(* one that it does not know, as waitpid(0) waits for any.                 *)
Interrupted(x, known) ==
  /\ state[x] \in {"runs", "forked"}
  /\ killed' = (killed \cup {p \in known : Up(p)}) \ {x}
  /\ IF x = Main THEN /\ state' = [state EXCEPT ![x] = IF @ = "forked" THEN "unsure" ELSE "handler"]
                      /\ UNCHANGED <<sem, pc, net>>
                 ELSE Ends(x)

HandlerExits(waited) ==
  /\ state[Main] \in {"handler", "unsure"} /\ \A p \in waited : state[p] = "ended"
  /\ Ends(Main) /\ UNCHANGED killed

(* SIGUSR1 has no handler.                                                 *)
Killed(p) ==
  /\ p \in killed /\ Up(p)
  /\ Ends(p) /\ killed' = killed \ {p}

-----------------------------------------------------------------------------
(* Properties *)

Flag(b) == IF b THEN 1 ELSE 0

(* What a process still has to send, of what it has received or begun with *)
Due(p) == sem[p].sending_plein + Flag(pc[p].client = "send")
          + 2 * sem[p].receive_plein + Flag(pc[p].brain = "rewrite")

(* The values of every variable.                                           *)
TypeOK ==
  /\ sem \in [Procs -> [Semaphores -> 0 .. SemMax]]
  /\ pc \in [Procs -> [client : {"connect", "take", "send"},
                      server : {"bind", "accept", "take", "recv"},
                      brain : {"greet", "take", "rewrite", "track"},
                      tracker : {"take", "write"}]]
  /\ link \in [Procs -> {"none", "queued", "accepted"}]
  /\ wire \in [Procs -> 0 .. Stream] /\ broken \in [Procs -> BOOLEAN]
  /\ state \in [Procs \cup {Main} -> {"none", "runs", "forked", "handler", "unsure", "ended"}]
  /\ killed \subseteq Procs

(* The slot between server and brain is free, announced, or in the hands   *)
(* of the server, who keeps it through recv; the mutexes are held by those *)
(* who may block with them, and by nobody else.                            *)
ReceiveSlot ==
  \A p \in Procs :
    /\ sem[p].receive_vide + sem[p].receive_plein + Flag(pc[p].server = "recv") = 1
    /\ sem[p].receive_mutex + Flag(pc[p].server = "recv") = 1
    /\ sem[p].sending_mutex + Flag(pc[p].client = "send") = 1
    /\ sem[p].tracker_mutex + Flag(pc[p].tracker = "write") = 1

(* The same, with no semaphore beyond what it can count to.                *)
RelayOK == TypeOK /\ ReceiveSlot

Connected == \A p \in Procs : Up(p) /\ link[p] = "accepted"
BothFull == \A p \in Procs : wire[p] = Stream

Flow == INSTANCE RelayFlow WITH
          up <- {p \in Procs : state[p] # "ended"}, due <- [p \in Procs |-> Due(p)],
          greeted <- pc[Starter].brain # "greet" \/ state[Starter] = "ended"

(* The threads of two processes, their semaphores and their streams are a  *)
(* flow of texts in which every reception, of one text or of several that  *)
(* ran together, owes two sends and nothing is lost between living ends,   *)
(* as long as no semaphore is at its limit, where a post is lost.          *)
Saturated == \E p \in Procs : sem[p].sending_plein = SemMax
IsRelayFlow == Flow!Init /\ [][Flow!Next \/ Saturated]_(Flow!vars)
=============================================================================
