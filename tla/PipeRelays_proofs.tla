-------------------------- MODULE PipeRelays_proofs ---------------------------
(***************************************************************************)
(* The programs that PipeRelays runs side by side: the owners of slot and  *)
(* mutexes in each of them; that nobody has a text in PIPEETTHREADS.c,     *)
(* where the client of each process connects to the one below, unless a    *)
(* process above it has ended; that only a tracker ends the relay of       *)
(* fifotube.c; where the two processes of pipeProjet.c can stop; and that  *)
(* all this holds of the programs as they are run together.                *)
(*                                                                         *)
(* pipeProjet.c and fifotube.c have the processes of StreamRelay, whose    *)
(* steps theirs are first shown to be.  PIPEETTHREADS.c has processes of   *)
(* its own, a chain, and what is said of its steps is said from the start. *)
(***************************************************************************)
EXTENDS PipeRelays, StreamRelay_proofs

USE SemMaxAssumption, StreamAssumption, MainAssumption, ProcsAssumption, PipeMaxAssumption

-----------------------------------------------------------------------------
(* What the chain's semaphores and calls can be, and what becomes of them. *)

(* Its processes are numbered from 1 on, and main is none of them.         *)
LEMMA ChainNumbers == Chain \subseteq Nat /\ 1 \in Chain /\ 0 \notin Chain /\ Main \notin Chain
BY ChainAssumption

USE ChainNumbers

ChainCounts == [PT!Semaphores -> 0 .. SemMax]
ChainNet == /\ link \in [Chain -> {"none", "queued", "accepted"}]
            /\ wire \in [Chain -> 0 .. Stream] /\ broken \in [Chain -> BOOLEAN]
ChainLife ==
  /\ state \in [Chain \cup {Main} -> {"none", "runs", "forked", "handler", "unsure", "ended"}]
  /\ killed \subseteq Chain

(* What the types say of one process of the chain.                         *)
LEMMA ChainTypes ==
  ASSUME PT!TypeOK, NEW p \in Chain
  PROVE  sem[p] \in ChainCounts /\ pc[p] \in Calls
BY DEF PT!TypeOK, ChainCounts, Calls

(* sem_post never makes a count that is no count.                          *)
LEMMA ChainPosts ==
  ASSUME NEW v \in 0 .. SemMax
  PROVE  PT!Post(v) \in 0 .. SemMax /\ (v = 0 => PT!Post(v) = 1)
BY DEF PT!Post

(* Semaphores that are waited for were not at 0, and go down by one.       *)
LEMMA ChainWaits ==
  ASSUME PT!TypeOK, NEW p \in Chain, NEW S \in SUBSET PT!Semaphores, PT!SemWait(p, S)
  PROVE  \E s \in ChainCounts :
           /\ sem' = [sem EXCEPT ![p] = s]
           /\ \A x \in S : sem[p][x] > 0 /\ s[x] = sem[p][x] - 1
           /\ \A x \in PT!Semaphores \ S : s[x] = sem[p][x]
<1> DEFINE s == [x \in PT!Semaphores |-> IF x \in S THEN sem[p][x] - 1 ELSE sem[p][x]]
<1>1. s \in ChainCounts
  BY ChainTypes DEF ChainCounts, PT!SemWait
<1> QED BY <1>1 DEF PT!SemWait

(* Semaphores that are posted go up by one, unless at their limit.         *)
LEMMA ChainGives ==
  ASSUME PT!TypeOK, NEW p \in Chain, NEW S \in SUBSET PT!Semaphores, PT!SemPost(p, S)
  PROVE  \E s \in ChainCounts :
           /\ sem' = [sem EXCEPT ![p] = s]
           /\ \A x \in S : sem[p][x] = 0 => s[x] = 1
           /\ \A x \in PT!Semaphores \ S : s[x] = sem[p][x]
<1> DEFINE s == [x \in PT!Semaphores |-> IF x \in S THEN PT!Post(sem[p][x]) ELSE sem[p][x]]
<1>1. \A x \in PT!Semaphores : sem[p][x] \in 0 .. SemMax
  BY ChainTypes DEF ChainCounts
<1>2. s \in ChainCounts
  BY <1>1, ChainPosts DEF ChainCounts
<1>3. \A x \in S : sem[p][x] = 0 => s[x] = 1
  BY <1>1, ChainPosts
<1> HIDE DEF s
<1>4. sem' = [sem EXCEPT ![p] = s] /\ \A x \in PT!Semaphores \ S : s[x] = sem[p][x]
  BY DEF PT!SemPost, s
<1> QED BY <1>2, <1>3, <1>4

(* A call of one thread moves no other thread: the client's,               *)
LEMMA ChainClientGoes ==
  ASSUME PT!TypeOK, NEW p \in Chain, NEW from, NEW to \in {"connect", "take", "send"},
         PT!Goto(p, "client", from, to)
  PROVE  \E c \in Calls :
           /\ pc' = [pc EXCEPT ![p] = c] /\ pc[p].client = from /\ c.client = to
           /\ c.server = pc[p].server /\ c.brain = pc[p].brain /\ c.tracker = pc[p].tracker
<1> DEFINE c == [pc[p] EXCEPT !.client = to]
<1>1. c \in Calls
  BY ChainTypes DEF Calls
<1> QED BY <1>1, ChainTypes DEF PT!Goto, Calls

(* the server's,                                                           *)
LEMMA ChainServerGoes ==
  ASSUME PT!TypeOK, NEW p \in Chain, NEW from, NEW to \in {"bind", "accept", "take", "recv"},
         PT!Goto(p, "server", from, to)
  PROVE  \E c \in Calls :
           /\ pc' = [pc EXCEPT ![p] = c] /\ pc[p].server = from /\ c.server = to
           /\ c.client = pc[p].client /\ c.brain = pc[p].brain /\ c.tracker = pc[p].tracker
<1> DEFINE c == [pc[p] EXCEPT !.server = to]
<1>1. c \in Calls
  BY ChainTypes DEF Calls
<1> QED BY <1>1, ChainTypes DEF PT!Goto, Calls

(* the brain's                                                             *)
LEMMA ChainBrainGoes ==
  ASSUME PT!TypeOK, NEW p \in Chain, NEW from, NEW to \in {"greet", "take", "rewrite", "track"},
         PT!Goto(p, "brain", from, to)
  PROVE  \E c \in Calls :
           /\ pc' = [pc EXCEPT ![p] = c] /\ pc[p].brain = from /\ c.brain = to
           /\ c.client = pc[p].client /\ c.server = pc[p].server /\ c.tracker = pc[p].tracker
<1> DEFINE c == [pc[p] EXCEPT !.brain = to]
<1>1. c \in Calls
  BY ChainTypes DEF Calls
<1> QED BY <1>1, ChainTypes DEF PT!Goto, Calls

(* and the tracker's.                                                      *)
LEMMA ChainTrackerGoes ==
  ASSUME PT!TypeOK, NEW p \in Chain, NEW from, NEW to \in {"take", "write"},
         PT!Goto(p, "tracker", from, to)
  PROVE  \E c \in Calls :
           /\ pc' = [pc EXCEPT ![p] = c] /\ pc[p].tracker = from /\ c.tracker = to
           /\ c.client = pc[p].client /\ c.server = pc[p].server /\ c.brain = pc[p].brain
<1> DEFINE c == [pc[p] EXCEPT !.tracker = to]
<1>1. c \in Calls
  BY ChainTypes DEF Calls
<1> QED BY <1>1, ChainTypes DEF PT!Goto, Calls

-----------------------------------------------------------------------------
(* PIPEETTHREADS.c: slot and mutexes. *)

(* HandOverSlot, of a process whose semaphores are s and calls c           *)
HandSlot(s, c) ==
  /\ s["receive_vide"] + s["receive_plein"] = 1 /\ s["receive_mutex"] = 1
  /\ s["sending_mutex"] + PT!Flag(c.client = "send") = 1
  /\ s["tracker_mutex"] + PT!Flag(c.tracker = "write") = 1

HandOverOK == PT!TypeOK /\ PT!HandOverSlot

(* What the invariant says of one process of the chain.                    *)
LEMMA HandOfEach ==
  ASSUME HandOverOK, NEW p \in Chain
  PROVE  /\ HandSlot(sem[p], pc[p]) /\ sem[p] \in ChainCounts /\ pc[p] \in Calls
         /\ \A x \in PT!Semaphores : sem[p][x] \in 0 .. SemMax
BY ChainTypes DEF HandOverOK, PT!HandOverSlot, HandSlot, ChainCounts

(* A step of process p: only its own slot has to be looked at.             *)
LEMMA HandStep ==
  ASSUME HandOverOK, NEW p \in Chain, NEW s \in ChainCounts, NEW c \in Calls, HandSlot(s, c),
         sem' = [sem EXCEPT ![p] = s], pc' = [pc EXCEPT ![p] = c], ChainNet', ChainLife'
  PROVE  HandOverOK'
<1>1. PT!TypeOK'
  BY DEF HandOverOK, PT!TypeOK, ChainNet, ChainLife, ChainCounts, Calls
<1>2. ASSUME NEW q \in Chain PROVE HandSlot(sem'[q], pc'[q])
  <2>1. CASE q = p
    BY <2>1 DEF HandOverOK, PT!TypeOK
  <2>2. CASE q # p
    BY <2>2, HandOfEach DEF HandOverOK, PT!TypeOK
  <2> QED BY <2>1, <2>2
<1>3. PT!HandOverSlot'
  BY <1>2 DEF PT!HandOverSlot, HandSlot
<1> QED BY <1>1, <1>3 DEF HandOverOK

(* Calls that touch no semaphore.                                          *)
LEMMA NoSemaphore ==
  ASSUME HandOverOK, NEW p \in Chain, PT!Connect(p) \/ PT!Bind(p) \/ PT!Accept(p, "recv") \/ PT!RecvClear(p)
  PROVE  HandOverOK'
<1>1. PICK c \in Calls : /\ pc' = [pc EXCEPT ![p] = c] /\ c.tracker = pc[p].tracker
                         /\ \/ c.client # "send" /\ pc[p].client # "send"
                            \/ c.client = pc[p].client
  BY ChainClientGoes, ChainServerGoes DEF HandOverOK, PT!Connect, PT!Bind, PT!Accept, PT!RecvClear
<1>2. HandSlot(sem[p], c)
  BY HandOfEach, <1>1 DEF HandSlot, PT!Flag
<1>3. ChainLife' /\ UNCHANGED sem
  BY DEF PT!Connect, PT!Bind, PT!Accept, PT!RecvClear, PT!net, PT!life, HandOverOK, PT!TypeOK, ChainLife
<1>4. link' \in [Chain -> {"none", "queued", "accepted"}] /\ broken' \in [Chain -> BOOLEAN]
  BY DEF PT!Connect, PT!Bind, PT!Accept, PT!RecvClear, PT!net, PT!life, HandOverOK, PT!TypeOK
<1>5. wire' \in [Chain -> 0 .. Stream]
  <2>1. wire \in [Chain -> 0 .. Stream]
    BY DEF HandOverOK, PT!TypeOK
  <2>2. \A q \in Chain : \A k \in 1 .. wire[q] : wire[q] - k \in 0 .. Stream
    BY <2>1
  <2>3. CASE PT!Connect(p) \/ PT!Bind(p) \/ PT!Accept(p, "recv")
    BY <2>1, <2>3 DEF PT!Connect, PT!Bind, PT!Accept, PT!net
  <2>4. CASE PT!RecvClear(p)
    <3>1. PICK q \in Chain : \/ \E k \in 1 .. wire[q] : wire' = [wire EXCEPT ![q] = @ - k]
                            \/ UNCHANGED wire
      BY <2>4 DEF PT!RecvClear, PT!Recv, PT!Into
    <3> QED BY <2>1, <2>2, <3>1
  <2> QED BY <2>3, <2>4
<1>6. sem' = [sem EXCEPT ![p] = sem[p]]
  BY <1>3 DEF HandOverOK, PT!TypeOK
<1> QED BY <1>1, <1>2, <1>3, <1>4, <1>5, <1>6, HandOfEach, HandStep DEF ChainNet

(* The client takes and gives sending_mutex.                               *)
LEMMA ClientHands ==
  ASSUME HandOverOK, NEW p \in Chain, PT!ClientTake(p) \/ PT!Send(p)
  PROVE  HandOverOK'
<1>1. CASE PT!ClientTake(p)
  <2>1. PICK c \in Calls : /\ pc' = [pc EXCEPT ![p] = c] /\ c.client = "send" /\ pc[p].client = "take"
                           /\ c.tracker = pc[p].tracker
    BY <1>1, ChainClientGoes DEF HandOverOK, PT!ClientTake
  <2>2. PICK s \in ChainCounts :
          /\ sem' = [sem EXCEPT ![p] = s]
          /\ \A x \in {"sending_plein", "sending_mutex"} : sem[p][x] > 0 /\ s[x] = sem[p][x] - 1
          /\ \A x \in PT!Semaphores \ {"sending_plein", "sending_mutex"} : s[x] = sem[p][x]
    BY <1>1, ChainWaits DEF HandOverOK, PT!ClientTake, PT!Semaphores
  <2>3. HandSlot(s, c)
    BY <2>1, <2>2, HandOfEach, SMTT(30) DEF HandSlot, PT!Flag, PT!Semaphores
  <2>4. ChainNet' /\ ChainLife'
    BY <1>1 DEF PT!ClientTake, PT!net, PT!life, HandOverOK, PT!TypeOK, ChainNet, ChainLife
  <2> QED BY <2>1, <2>2, <2>3, <2>4, HandStep
<1>2. CASE PT!Send(p)
  <2>1. PICK c \in Calls : /\ pc' = [pc EXCEPT ![p] = c] /\ c.client = "take" /\ pc[p].client = "send"
                           /\ c.tracker = pc[p].tracker
    BY <1>2, ChainClientGoes DEF HandOverOK, PT!Send
  <2>2. PICK s \in ChainCounts :
          /\ sem' = [sem EXCEPT ![p] = s]
          /\ \A x \in {"sending_mutex"} : sem[p][x] = 0 => s[x] = 1
          /\ \A x \in PT!Semaphores \ {"sending_mutex"} : s[x] = sem[p][x]
    BY <1>2, ChainGives DEF HandOverOK, PT!Send, PT!Semaphores
  <2>3. HandSlot(s, c)
    BY <2>1, <2>2, HandOfEach, SMTT(30) DEF HandSlot, PT!Flag, PT!Semaphores
  <2>4. wire \in [Chain -> 0 .. Stream] /\ broken \in [Chain -> BOOLEAN]
        /\ (wire[p] < Stream => wire[p] + 1 \in 0 .. Stream)
    BY DEF HandOverOK, PT!TypeOK
  <2>5. wire' \in [Chain -> 0 .. Stream] /\ broken' \in [Chain -> BOOLEAN]
    BY <1>2, <2>4 DEF PT!Send
  <2>6. ChainNet' /\ ChainLife'
    BY <1>2, <2>5 DEF PT!Send, PT!life, HandOverOK, PT!TypeOK, ChainNet, ChainLife
  <2> QED BY <2>1, <2>2, <2>3, <2>6, HandStep
<1> QED BY <1>1, <1>2

(* A text that is announced twice, in brain and tracker.                   *)
LEMMA BrainHands ==
  ASSUME HandOverOK, NEW p \in Chain,
         PT!Greet(p) \/ PT!BrainRewrite(p, "track", {"tracker_plein"}) \/ PT!BrainTrack(p)
  PROVE  HandOverOK'
<1>1. PICK c \in Calls : /\ pc' = [pc EXCEPT ![p] = c] /\ c.client = pc[p].client
                         /\ c.tracker = pc[p].tracker
  <2>1. PICK from, to \in {"greet", "take", "rewrite", "track"} : PT!Goto(p, "brain", from, to)
    BY DEF PT!Greet, PT!BrainRewrite, PT!BrainTrack
  <2>2. PT!TypeOK /\ to \in {"greet", "take", "rewrite", "track"}
    BY DEF HandOverOK
  <2> QED BY <2>1, <2>2, ChainBrainGoes
<1>2. PICK S \in SUBSET {"sending_plein", "tracker_plein"} : PT!SemPost(p, S)
  BY DEF PT!Greet, PT!BrainRewrite, PT!BrainTrack
<1>3. PICK s \in ChainCounts : /\ sem' = [sem EXCEPT ![p] = s]
                               /\ \A x \in PT!Semaphores \ S : s[x] = sem[p][x]
  BY <1>2, ChainGives DEF HandOverOK, PT!Semaphores
<1>4. HandSlot(s, c)
  BY <1>1, <1>3, HandOfEach DEF HandSlot, PT!Semaphores
<1>5. ChainNet' /\ ChainLife'
  BY DEF PT!Greet, PT!BrainRewrite, PT!BrainTrack, PT!net, PT!life, HandOverOK, PT!TypeOK, ChainNet, ChainLife
<1> QED BY <1>1, <1>3, <1>4, <1>5, HandStep

(* The slot goes to the brain, and back to the server.                     *)
LEMMA SlotHands ==
  ASSUME HandOverOK, NEW p \in Chain, PT!HandOver(p) \/ PT!BrainTake(p)
  PROVE  HandOverOK'
<1>1. PICK c \in Calls : /\ pc' = [pc EXCEPT ![p] = c] /\ c.client = pc[p].client
                         /\ c.tracker = pc[p].tracker
  BY ChainServerGoes, ChainBrainGoes DEF HandOverOK, PT!HandOver, PT!BrainTake
<1>2. \A x \in PT!Semaphores : sem[p][x] \in 0 .. SemMax /\ PT!Post(sem[p][x]) \in 0 .. SemMax
                            /\ (sem[p][x] = 0 => PT!Post(sem[p][x]) = 1)
  BY HandOfEach, ChainPosts
<1>3. PICK s \in ChainCounts :
        /\ sem' = [sem EXCEPT ![p] = s]
        /\ \A x \in {"receive_mutex", "sending_mutex", "tracker_mutex"} : s[x] = sem[p][x]
        /\ \/ /\ sem[p]["receive_vide"] > 0 /\ s["receive_vide"] = sem[p]["receive_vide"] - 1
              /\ s["receive_plein"] = PT!Post(sem[p]["receive_plein"])
           \/ /\ sem[p]["receive_plein"] > 0 /\ s["receive_plein"] = sem[p]["receive_plein"] - 1
              /\ s["receive_vide"] = PT!Post(sem[p]["receive_vide"])
  <2>1. CASE PT!HandOver(p)
    <3> DEFINE s == [sem[p] EXCEPT !["receive_vide"] = @ - 1, !["receive_plein"] = PT!Post(@)]
    <3>1. s \in ChainCounts /\ sem[p] \in ChainCounts
      BY <1>2, <2>1, HandOfEach DEF PT!HandOver, ChainCounts, PT!Semaphores
    <3>2. sem' = [sem EXCEPT ![p] = s]
      BY <2>1 DEF PT!HandOver
    <3> QED BY <2>1, <3>1, <3>2 DEF PT!HandOver, ChainCounts, PT!Semaphores
  <2>2. CASE PT!BrainTake(p)
    <3> DEFINE s == [sem[p] EXCEPT !["receive_plein"] = @ - 1, !["receive_vide"] = PT!Post(@),
                                   !["sending_plein"] = PT!Post(@)]
    <3>1. s \in ChainCounts /\ sem[p] \in ChainCounts
      BY <1>2, <2>2, HandOfEach DEF PT!BrainTake, ChainCounts, PT!Semaphores
    <3>2. sem' = [sem EXCEPT ![p] = s]
      BY <2>2 DEF PT!BrainTake
    <3> QED BY <2>2, <3>1, <3>2 DEF PT!BrainTake, ChainCounts, PT!Semaphores
  <2> QED BY <2>1, <2>2
<1>4. HandSlot(s, c)
  <2>1. sem[p]["receive_vide"] + sem[p]["receive_plein"] = 1
    BY HandOfEach DEF HandSlot
  <2>2. s["receive_vide"] + s["receive_plein"] = 1
    BY <2>1, <1>2, <1>3 DEF PT!Semaphores
  <2> QED BY <1>1, <1>3, <2>2, HandOfEach DEF HandSlot
<1>5. ChainNet' /\ ChainLife'
  BY DEF PT!HandOver, PT!BrainTake, PT!net, PT!life, HandOverOK, PT!TypeOK, ChainNet, ChainLife
<1> QED BY <1>1, <1>3, <1>4, <1>5, HandStep

(* The tracker takes and gives tracker_mutex.                              *)
LEMMA TrackerHands ==
  ASSUME HandOverOK, NEW p \in Chain, PT!TrackerTake(p) \/ PT!TrackerDone(p, {})
  PROVE  HandOverOK'
<1>1. CASE PT!TrackerTake(p)
  <2>1. PICK c \in Calls : /\ pc' = [pc EXCEPT ![p] = c] /\ c.tracker = "write"
                           /\ pc[p].tracker = "take" /\ c.client = pc[p].client
    BY <1>1, ChainTrackerGoes DEF HandOverOK, PT!TrackerTake
  <2>2. PICK s \in ChainCounts :
          /\ sem' = [sem EXCEPT ![p] = s]
          /\ \A x \in {"tracker_plein", "tracker_mutex"} : sem[p][x] > 0 /\ s[x] = sem[p][x] - 1
          /\ \A x \in PT!Semaphores \ {"tracker_plein", "tracker_mutex"} : s[x] = sem[p][x]
    BY <1>1, ChainWaits DEF HandOverOK, PT!TrackerTake, PT!Semaphores
  <2>3. HandSlot(s, c)
    BY <2>1, <2>2, HandOfEach, SMTT(30) DEF HandSlot, PT!Flag, PT!Semaphores
  <2> QED BY <1>1, <2>1, <2>2, <2>3, HandStep
          DEF PT!TrackerTake, PT!net, PT!life, HandOverOK, PT!TypeOK, ChainNet, ChainLife
<1>2. CASE PT!TrackerDone(p, {})
  <2>1. PICK c \in Calls : /\ pc' = [pc EXCEPT ![p] = c] /\ c.tracker = "take"
                           /\ pc[p].tracker = "write" /\ c.client = pc[p].client
    BY <1>2, ChainTrackerGoes DEF HandOverOK, PT!TrackerDone
  <2>2. PICK s \in ChainCounts :
          /\ sem' = [sem EXCEPT ![p] = s]
          /\ sem[p]["tracker_mutex"] = 0 => s["tracker_mutex"] = 1
          /\ \A x \in PT!Semaphores \ {"tracker_mutex"} : s[x] = sem[p][x]
    BY <1>2, ChainGives DEF HandOverOK, PT!TrackerDone, PT!Semaphores
  <2>3. HandSlot(s, c)
    BY <2>1, <2>2, HandOfEach, SMTT(30) DEF HandSlot, PT!Flag, PT!Semaphores
  <2> QED BY <1>2, <2>1, <2>2, <2>3, HandStep
          DEF PT!TrackerDone, PT!net, PT!life, HandOverOK, PT!TypeOK, ChainNet, ChainLife
<1> QED BY <1>1, <1>2

(* Who ends leaves a process as it was at its beginning.                   *)
LEMMA EndsHands ==
  ASSUME HandOverOK, NEW x \in Chain \cup {Main}, PT!Ends(x), killed' \subseteq Chain
  PROVE  HandOverOK'
<1>1. PT!Sem0 \in ChainCounts /\ PT!Pc0 \in Calls /\ HandSlot(PT!Sem0, PT!Pc0)
  BY DEF PT!Sem0, PT!Pc0, ChainCounts, Calls, HandSlot, PT!Semaphores, PT!Flag
<1>2. sem' \in [Chain -> ChainCounts] /\ pc' \in [Chain -> Calls]
  BY <1>1, HandOfEach DEF PT!Ends
<1>3. ChainNet' /\ ChainLife'
  BY DEF PT!Ends, HandOverOK, PT!TypeOK, ChainNet, ChainLife
<1>4. PT!TypeOK'
  BY <1>2, <1>3 DEF PT!TypeOK, ChainNet, ChainLife, ChainCounts, Calls
<1>5. ASSUME NEW q \in Chain PROVE HandSlot(sem'[q], pc'[q])
  BY <1>1, HandOfEach DEF PT!Ends
<1>6. PT!HandOverSlot'
  BY <1>5 DEF PT!HandOverSlot, HandSlot
<1> QED BY <1>4, <1>6 DEF HandOverOK

(* What changes states and signals only.                                   *)
LEMMA LifeHands ==
  ASSUME HandOverOK, UNCHANGED <<sem, pc, PT!net>>, ChainLife'
  PROVE  HandOverOK'
  BY DEF HandOverOK, PT!TypeOK, PT!HandOverSlot, ChainLife, PT!net

(* A process of the chain that is interrupted ends; main waits in its      *)
(* handler.                                                                *)
LEMMA InterruptHands ==
  ASSUME HandOverOK, NEW x \in Chain \cup {Main}, NEW known \in SUBSET Chain, PT!Interrupted(x, known)
  PROVE  HandOverOK'
<1>1. killed' \subseteq Chain
  BY DEF PT!Interrupted, HandOverOK, PT!TypeOK
<1>2. CASE x = Main
  BY <1>1, <1>2, LifeHands DEF PT!Interrupted, ChainLife, HandOverOK, PT!TypeOK
<1>3. CASE x # Main
  BY <1>1, <1>3, EndsHands DEF PT!Interrupted
<1> QED BY <1>2, <1>3

(* main, observer and signals leave the slot of every living process       *)
(* alone.                                                                  *)
LEMMA StepsHands ==
  ASSUME HandOverOK, PT!Steps
  PROVE  HandOverOK'
<1>1. CASE \/ PT!ForkFails \/ PT!MainReturns \/ PT!HandlerExits(PT!Forked)
  BY <1>1, EndsHands DEF PT!ForkFails, PT!MainReturns, PT!HandlerExits, HandOverOK, PT!TypeOK
<1>2. CASE PT!Record \/ \E p \in Chain : PT!Fork(p)
  <2>1. state' \in [Chain \cup {Main} -> {"none", "runs", "forked", "handler", "unsure", "ended"}]
    BY <1>2 DEF PT!Record, PT!Fork, HandOverOK, PT!TypeOK
  <2> QED BY <1>2, <2>1, LifeHands DEF PT!Record, PT!Fork, ChainLife, HandOverOK, PT!TypeOK
<1>3. CASE UNCHANGED PT!relay
  BY <1>3, LifeHands DEF PT!relay, PT!life, ChainLife, HandOverOK, PT!TypeOK
<1>4. ASSUME NEW x \in Chain \cup {Main},
             PT!Interrupted(x, IF x = Main THEN PT!Known ELSE {q \in Chain : q < x})
      PROVE  HandOverOK'
  <2>1. (IF x = Main THEN PT!Known ELSE {q \in Chain : q < x}) \in SUBSET Chain
    BY DEF PT!Known, PT!Forked
  <2> QED BY <1>4, <2>1, InterruptHands
<1>5. CASE /\ killed' = killed \cup {p \in Chain : PT!Up(p)}
           /\ UNCHANGED <<sem, pc, PT!net, state>>
  BY <1>5, LifeHands DEF ChainLife, HandOverOK, PT!TypeOK
<1> QED
  BY <1>1, <1>2, <1>3, <1>4, <1>5
  DEF PT!Steps, PT!main, PT!ForkObserver, PT!cleanup, PT!create_observer_process, PT!signal_handler

(* All that the threads of a process do.                                   *)
LEMMA ThreadHands ==
  ASSUME HandOverOK, NEW p \in Chain, PT!create_threads(p) \/ PT!Killed(p)
  PROVE  HandOverOK'
<1>1. CASE PT!SendFails(p) \/ PT!BindFails(p) \/ PT!Killed(p)
  BY <1>1, EndsHands DEF PT!SendFails, PT!BindFails, PT!Killed, HandOverOK, PT!TypeOK
<1>2. CASE PT!Client(p)
  BY <1>1, <1>2, NoSemaphore, ClientHands DEF PT!Client
<1>3. CASE PT!Server(p)
  BY <1>1, <1>3, NoSemaphore, SlotHands DEF PT!Server
<1>4. CASE PT!Brain(p)
  BY <1>4, BrainHands, SlotHands DEF PT!Brain
<1>5. CASE PT!Tracker(p)
  BY <1>5, TrackerHands DEF PT!Tracker, PT!TrackerWrite
<1> QED BY <1>1, <1>2, <1>3, <1>4, <1>5 DEF PT!create_threads

(* And so every step of PIPEETTHREADS.c.                                   *)
LEMMA HandNext ==
  ASSUME HandOverOK, [PT!Next]_(PT!vars)
  PROVE  HandOverOK'
<1>1. CASE UNCHANGED PT!vars
  BY <1>1, LifeHands DEF PT!vars, PT!relay, PT!life, ChainLife, HandOverOK, PT!TypeOK
<1> QED BY <1>1, StepsHands, ThreadHands DEF PT!Next

(* What is on the pipe, and the observer's states.                         *)
PipeTypes == pipe \in 0 .. PipeMax /\ observer \in {"none", "opens", "reads", "ended"}

(* No tracker writes on a pipe that is full.                               *)
LEMMA ChainPipe ==
  ASSUME PipeTypes, [PT!Next]_(PT!vars)
  PROVE  PipeTypes'
<1>1. CASE UNCHANGED PT!own
  BY <1>1 DEF PipeTypes, PT!own
<1>2. CASE \E p \in Chain : PT!TrackerWrite(p)
  BY <1>2 DEF PipeTypes, PT!TrackerWrite
<1>3. CASE PT!ForkObserver \/ PT!create_observer_process
  BY <1>3 DEF PipeTypes, PT!ForkObserver, PT!create_observer_process
<1>4. CASE PT!signal_handler
  BY <1>4 DEF PipeTypes, PT!signal_handler, PT!own
<1> QED
  BY <1>1, <1>2, <1>3, <1>4
  DEF PT!Next, PT!Steps, PT!main, PT!cleanup, PT!create_threads, PT!Client, PT!Server, PT!Brain, PT!Tracker, PT!vars

(* Every slot of the chain is free at the beginning.                       *)
LEMMA HandInit == PT!Init => HandOverOK /\ PipeTypes
BY DEF PT!Init, PT!RelayInit, HandOverOK, PT!TypeOK, PT!HandOverSlot, PT!Sem0, PT!Pc0, PT!Semaphores, PT!Flag, PipeTypes

(* In PIPEETTHREADS.c the brain's slot is free or announced, and nobody    *)
(* keeps a mutex but the client and the tracker in their calls; the pipe   *)
(* never holds more than it takes.  This for any number of processes,      *)
(* whoever they are connected to, and whoever ends.                        *)
THEOREM HandOverCorrect == PT!Spec => [](PT!PipeOK /\ PT!HandOverSlot)
<1>1. PT!Init => HandOverOK /\ PipeTypes
  BY HandInit
<1>2. HandOverOK /\ PipeTypes /\ [PT!Next]_(PT!vars) => (HandOverOK /\ PipeTypes)'
  BY HandNext, ChainPipe
<1>3. HandOverOK /\ PipeTypes => PT!PipeOK /\ PT!HandOverSlot
  BY DEF HandOverOK, PipeTypes, PT!PipeOK
<1> QED BY <1>1, <1>2, <1>3, PTL DEF PT!Spec

-----------------------------------------------------------------------------
(* Nobody has a text unless a process above has ended. *)

(* A process above p has ended.                                            *)
Above(p) == \E q \in Chain : q > p /\ state[q] = "ended"

(* Process p has no text, and the starter's greeting does not leave it.    *)
NoText(p) ==
  /\ wire[p] = 0 /\ pc[p].client # "send" /\ (p # PT!Starter => sem[p].sending_plein = 0)
  /\ sem[p].receive_plein = 0 /\ pc[p].server # "take"
  /\ pc[p].brain \notin {"rewrite", "track"}
  /\ sem[p].tracker_plein = 0 /\ pc[p].tracker # "write"

(* A server that has accepted a connection has one of a process that was   *)
(* forked; nobody listens to the starter; and what there is on the pipe    *)
(* comes from a process that had a text.                                   *)
Linked ==
  \A p \in Chain : /\ link[p] # "none" => state[p] # "none"
                   /\ pc[p].server \in {"recv", "take"} => \E q \in PT!Into(p) : link[q] # "none"

TextsFromAbove ==
  /\ Linked /\ pc[PT!Starter].client = "connect"
  /\ \A p \in Chain : Above(p) \/ NoText(p)
  /\ pipe > 0 => \E q \in Chain : state[q] = "ended"

-----------------------------------------------------------------------------
(* What the kinds of steps do to states and connections. *)

(* A thread of the chain takes a step.                                     *)
Moving == \E p \in Chain : PT!Client(p) \/ PT!Server(p) \/ PT!Brain(p) \/ PT!Tracker(p)

(* Somebody ends, or is forked or interrupted.                             *)
ChainEnding == \E x \in Chain \cup {Main} : PT!Ends(x)
ChainLiving == /\ UNCHANGED <<sem, pc, PT!net>>
               /\ \A q \in Chain : /\ Lives(q)' <=> Lives(q)
                                   /\ state[q] # "none" => state'[q] # "none"

(* What main does to who lives,                                            *)
LEMMA ChainMain ==
  ASSUME PT!TypeOK, PT!ForkFails \/ PT!Record \/ PT!MainReturns \/ \E p \in Chain : PT!Fork(p)
  PROVE  ChainEnding \/ ChainLiving
<1>1. PT!ForkFails \/ PT!MainReturns => ChainEnding
  BY DEF PT!ForkFails, PT!MainReturns, ChainEnding
<1>2. PT!Record \/ (\E p \in Chain : PT!Fork(p)) => ChainLiving
  BY DEF PT!Record, PT!Fork, ChainLiving, Lives, PT!TypeOK
<1> QED BY <1>1, <1>2

(* what signals do,                                                        *)
LEMMA ChainSignals ==
  ASSUME PT!TypeOK,
         \/ PT!HandlerExits(PT!Forked) \/ \E p \in Chain : PT!Killed(p)
         \/ \E x \in Chain \cup {Main} :
              PT!Interrupted(x, IF x = Main THEN PT!Known ELSE {q \in Chain : q < x})
  PROVE  ChainEnding \/ ChainLiving
<1>1. PT!HandlerExits(PT!Forked) \/ (\E p \in Chain : PT!Killed(p)) => ChainEnding
  BY DEF PT!HandlerExits, PT!Killed, ChainEnding
<1>2. ASSUME NEW x \in Chain \cup {Main}, NEW known, PT!Interrupted(x, known)
      PROVE  ChainEnding \/ ChainLiving
  <2>1. CASE x = Main
    BY <1>2, <2>1 DEF PT!Interrupted, ChainLiving, Lives, PT!TypeOK
  <2>2. CASE x # Main
    BY <1>2, <2>2 DEF PT!Interrupted, ChainEnding
  <2> QED BY <2>1, <2>2
<1> QED BY <1>1, <1>2

(* and what leaves the processes alone.                                    *)
LEMMA ChainRest == UNCHANGED PT!relay => ChainLiving
BY DEF PT!relay, PT!life, ChainLiving, Lives

(* Put together: main, observer and signals end somebody or nobody.        *)
LEMMA ChainSteps ==
  ASSUME PT!TypeOK, PT!Steps
  PROVE  ChainEnding \/ ChainLiving
<1>1. UNCHANGED <<sem, pc, PT!net, state>> => ChainLiving
  BY DEF ChainLiving, Lives
<1> QED
  BY <1>1, ChainMain, ChainSignals, ChainRest
  DEF PT!Steps, PT!main, PT!ForkObserver, PT!cleanup, PT!create_observer_process, PT!signal_handler

(* A step of PIPEETTHREADS.c ends somebody, or changes who is forked, or   *)
(* is one of a thread.                                                     *)
LEMMA ChainKinds ==
  ASSUME HandOverOK, PT!Next
  PROVE  ChainEnding \/ ChainLiving \/ (Moving /\ UNCHANGED PT!life)
<1>6. PT!Steps => ChainEnding \/ ChainLiving
  BY ChainSteps DEF HandOverOK
<1>7. ASSUME NEW p \in Chain, PT!Killed(p) \/ PT!SendFails(p) \/ PT!BindFails(p)
      PROVE  ChainEnding
  BY <1>7 DEF ChainEnding, PT!Killed, PT!SendFails, PT!BindFails
<1>8. ASSUME NEW p \in Chain, PT!create_threads(p), ~PT!SendFails(p), ~PT!BindFails(p)
      PROVE  Moving /\ UNCHANGED PT!life
  <2>1. UNCHANGED PT!life
    BY <1>8 DEF PT!create_threads, PT!Client, PT!Server, PT!Brain, PT!Tracker, PT!TrackerWrite, PT!Connect,
       PT!ClientTake, PT!Send,
         PT!Bind, PT!Accept, PT!RecvClear, PT!HandOver, PT!Greet, PT!BrainTake, PT!BrainRewrite, PT!BrainTrack,
         PT!TrackerTake, PT!TrackerDone
  <2> QED BY <1>8, <2>1 DEF Moving, PT!create_threads
<1> QED BY <1>6, <1>7, <1>8 DEF PT!Next

(* Only trackers put something on the pipe.                                *)
LEMMA PipeFills ==
  ASSUME PipeTypes, PT!Next, pipe' > 0, ~(pipe > 0)
  PROVE  \E p \in Chain : PT!TrackerWrite(p)
<1>1. pipe' # pipe /\ pipe = 0
  BY DEF PipeTypes
<1>2. ~PT!create_observer_process
  BY <1>1 DEF PT!create_observer_process
<1>3. ~PT!Steps
  BY <1>1, <1>2 DEF PT!Steps, PT!main, PT!ForkObserver, PT!cleanup, PT!signal_handler, PT!own
<1> QED BY <1>1, <1>3 DEF PT!Next, PT!create_threads, PT!Client, PT!Server, PT!Brain, PT!Tracker, PT!own

(* Nobody comes back: not a process that ended, nor one not yet forked,    *)
(* nor a connection.                                                       *)
LEMMA EndedStays ==
  ASSUME HandOverOK, PT!Next, NEW q \in Chain
  PROVE  /\ state[q] = "ended" => state'[q] = "ended"
         /\ state[q] # "none" => state'[q] # "none"
         /\ link[q] # "none" => link'[q] # "none"
<1>0. /\ state \in [Chain \cup {Main} -> {"none", "runs", "forked", "handler", "unsure", "ended"}]
      /\ link \in [Chain -> {"none", "queued", "accepted"}]
  BY DEF HandOverOK, PT!TypeOK
<1>1. CASE ChainEnding
  BY <1>0, <1>1 DEF ChainEnding, PT!Ends
<1>2. CASE ChainLiving
  BY <1>2 DEF ChainLiving, Lives, PT!net
<1>3. CASE Moving /\ UNCHANGED PT!life
  <2>1. UNCHANGED state
    BY <1>3 DEF PT!life
  <2>2. UNCHANGED link \/ \E p \in Chain : \E v \in {"queued", "accepted"} : link' = [link EXCEPT ![p] = v]
    BY <1>3 DEF Moving, PT!Client, PT!Server, PT!Brain, PT!Tracker, PT!TrackerWrite, PT!Connect, PT!ClientTake,
       PT!Send, PT!SendFails,
         PT!Bind, PT!BindFails, PT!Accept, PT!Into, PT!RecvClear, PT!HandOver, PT!Greet, PT!BrainTake, PT!BrainRewrite, PT!BrainTrack,
         PT!TrackerTake, PT!TrackerDone, PT!Ends, PT!net
  <2> QED BY <1>0, <2>1, <2>2
<1> QED BY <1>1, <1>2, <1>3, ChainKinds

(* Once a process above has ended, it stays so.                            *)
LEMMA AboveStays ==
  ASSUME HandOverOK, PT!Next, NEW p \in Chain, Above(p)
  PROVE  Above(p)'
  BY EndedStays DEF Above

(* The process that an action of a thread belongs to, and the others.      *)
LEMMA OthersRest ==
  ASSUME HandOverOK, NEW p \in Chain, NEW r \in Chain, r # p, UNCHANGED PT!life,
         PT!Client(p) \/ PT!Server(p) \/ PT!Brain(p) \/ PT!Tracker(p)
  PROVE  /\ sem'[r] = sem[r] /\ pc'[r] = pc[r]
         /\ wire[r] = 0 => wire'[r] = 0
<1>0. /\ sem \in [Chain -> ChainCounts] /\ pc \in [Chain -> Calls] /\ wire \in [Chain -> 0 .. Stream]
      /\ state \in [Chain \cup {Main} -> {"none", "runs", "forked", "handler", "unsure", "ended"}]
  BY DEF HandOverOK, PT!TypeOK, ChainCounts, Calls
<1>1. ~PT!Ends(p) \/ ~PT!Up(p)
  BY <1>0 DEF PT!Ends, PT!life, PT!Up
<1>2. ~PT!SendFails(p) /\ ~PT!BindFails(p)
  BY <1>1 DEF PT!SendFails, PT!BindFails
<1>3. CASE PT!Client(p)
  BY <1>0, <1>2, <1>3 DEF PT!Client, PT!Connect, PT!ClientTake, PT!Send, PT!Goto, PT!SemWait, PT!SemPost, PT!net
<1>4. CASE PT!Server(p)
  <2>1. CASE PT!RecvClear(p)
    BY <1>0, <2>1 DEF PT!RecvClear, PT!Recv, PT!Into, PT!Goto
  <2> QED BY <1>0, <1>2, <1>4, <2>1 DEF PT!Server, PT!Bind, PT!Accept, PT!HandOver, PT!Goto, PT!net
<1>5. CASE PT!Brain(p)
  BY <1>0, <1>5 DEF PT!Brain, PT!Greet, PT!BrainTake, PT!BrainRewrite, PT!BrainTrack, PT!Goto, PT!SemPost, PT!net
<1>6. CASE PT!Tracker(p)
  BY <1>0, <1>6 DEF PT!Tracker, PT!TrackerWrite, PT!TrackerTake, PT!TrackerDone, PT!Goto, PT!SemWait, PT!SemPost, PT!net
<1> QED BY <1>3, <1>4, <1>5, <1>6

(* The end of a connection means that the process above has ended.         *)
LEMMA NothingToReceive ==
  ASSUME HandOverOK, Linked, NEW p \in Chain, ~Above(p),
         \A q \in Chain : Above(q) \/ NoText(q)
  PROVE  ~PT!RecvClear(p)
<1> SUFFICES ASSUME PT!RecvClear(p) PROVE FALSE
  OBVIOUS
<1>0. /\ wire \in [Chain -> 0 .. Stream] /\ pc \in [Chain -> Calls]
      /\ state \in [Chain \cup {Main} -> {"none", "runs", "forked", "handler", "unsure", "ended"}]
  BY DEF HandOverOK, PT!TypeOK, Calls
<1>1. PICK q \in PT!Into(p) : wire[q] > 0 \/ ~PT!Up(q)
  <2>1. PICK q \in PT!Into(p) : \/ \E k \in 1 .. wire[q] : wire' = [wire EXCEPT ![q] = @ - k]
                                \/ wire[q] = 0 /\ ~PT!Up(q)
    BY DEF PT!RecvClear, PT!Recv
  <2> QED BY <1>0, <2>1 DEF PT!Into
<1>2. q \in Chain /\ q = p + 1 /\ q > p /\ \A r \in PT!Into(p) : r = q
  BY DEF PT!Into
<1>3. ~Above(q)
  <2>1. \A r \in Chain : r > q => r > p
    BY <1>2
  <2> QED BY <2>1 DEF Above
<1>4. wire[q] = 0
  BY <1>2, <1>3 DEF NoText
<1>5. state[q] # "none"
  BY <1>0, <1>2 DEF PT!RecvClear, PT!Goto, Linked
<1>6. state[q] = "ended"
  BY <1>0, <1>1, <1>2, <1>4, <1>5 DEF PT!Up
<1> QED BY <1>2, <1>6 DEF Above

(* With nothing above, a process without a text does not come to one; that *)
(* of the starter stays in sending_plein, as its client never connects.    *)
LEMMA OwnStep ==
  ASSUME HandOverOK, Linked, pc[PT!Starter].client = "connect", NEW p \in Chain, ~Above(p),
         \A q \in Chain : Above(q) \/ NoText(q), UNCHANGED PT!life,
         PT!Client(p) \/ PT!Server(p) \/ PT!Brain(p) \/ PT!Tracker(p)
  PROVE  NoText(p)' /\ (p = PT!Starter => pc'[p].client = "connect")
<1>0. /\ sem[p] \in ChainCounts /\ pc[p] \in Calls /\ HandOverOK /\ NoText(p)
      /\ \A x \in PT!Semaphores : sem[p][x] \in 0 .. SemMax
      /\ sem \in [Chain -> ChainCounts] /\ pc \in [Chain -> Calls] /\ wire \in [Chain -> 0 .. Stream]
      /\ state \in [Chain \cup {Main} -> {"none", "runs", "forked", "handler", "unsure", "ended"}]
  BY HandOfEach DEF HandOverOK, PT!TypeOK, ChainCounts, Calls
<1>1. ~PT!SendFails(p) /\ ~PT!BindFails(p)
  BY <1>0 DEF PT!Ends, PT!life, PT!Up, PT!SendFails, PT!BindFails
<1>2. ~PT!ClientTake(p) /\ ~PT!Send(p) /\ ~PT!RecvClear(p) /\ ~PT!HandOver(p)
  <2>1. ~PT!ClientTake(p)
    BY <1>0 DEF NoText, PT!ClientTake, PT!SemWait, PT!Goto, PT!Semaphores
  <2>2. ~PT!Send(p) /\ ~PT!HandOver(p)
    BY <1>0 DEF NoText, PT!Send, PT!HandOver, PT!Goto
  <2> QED BY <2>1, <2>2, NothingToReceive
<1>3. ~PT!BrainTake(p) /\ ~PT!BrainRewrite(p, "track", {"tracker_plein"}) /\ ~PT!BrainTrack(p)
      /\ ~PT!TrackerTake(p) /\ ~PT!TrackerDone(p, {})
  <2>1. ~PT!TrackerTake(p)
    BY <1>0 DEF NoText, PT!TrackerTake, PT!SemWait, PT!Goto, PT!Semaphores
  <2> QED BY <2>1, <1>0 DEF NoText, PT!BrainTake, PT!BrainRewrite, PT!BrainTrack, PT!TrackerDone, PT!Goto,
        PT!Semaphores
<1>4. ~PT!Connect(p) \/ p # PT!Starter
  BY DEF PT!Connect, PT!Listening, PT!Starter
<1>5. CASE PT!Connect(p)
  BY <1>0, <1>4, <1>5 DEF PT!Connect, PT!Goto, NoText, Calls
<1>6. CASE PT!Bind(p) \/ PT!Accept(p, "recv")
  BY <1>0, <1>6 DEF PT!Bind, PT!Accept, PT!Goto, NoText, Calls, PT!net
<1>7. CASE PT!Greet(p)
  <2>1. pc'[p].brain = "take" /\ \A x \in {"client", "server", "tracker"} : pc'[p][x] = pc[p][x]
    BY <1>0, <1>7 DEF PT!Greet, PT!Goto, Calls
  <2>2. \A x \in PT!Semaphores \ {"sending_plein"} : sem'[p][x] = sem[p][x]
    BY <1>0, <1>7 DEF PT!Greet, PT!SemPost, ChainCounts
  <2>3. p # PT!Starter => sem'[p]["sending_plein"] = sem[p]["sending_plein"]
    BY <1>0, <1>7 DEF PT!Greet, PT!SemPost, ChainCounts, PT!Semaphores
  <2> QED BY <1>0, <1>7, <2>1, <2>2, <2>3 DEF PT!Greet, PT!net, NoText, PT!Semaphores
<1> QED BY <1>1, <1>2, <1>3, <1>5, <1>6, <1>7 DEF PT!Client, PT!Server, PT!Brain, PT!Tracker, PT!TrackerWrite

(* Nobody listens where the client of the starter connects.                *)
LEMMA StarterWaits ==
  ASSUME HandOverOK, pc[PT!Starter].client = "connect", NEW p \in Chain, p = PT!Starter,
         UNCHANGED PT!life, PT!Client(p) \/ PT!Server(p) \/ PT!Brain(p) \/ PT!Tracker(p)
  PROVE  pc'[p].client = "connect"
<1>0. /\ pc \in [Chain -> Calls]
      /\ state \in [Chain \cup {Main} -> {"none", "runs", "forked", "handler", "unsure", "ended"}]
  BY DEF HandOverOK, PT!TypeOK, Calls
<1>1. ~PT!SendFails(p) /\ ~PT!BindFails(p)
  BY <1>0 DEF PT!Ends, PT!life, PT!Up, PT!SendFails, PT!BindFails
<1>2. ~PT!Client(p)
  <2>1. ~PT!Connect(p)
    BY DEF PT!Connect, PT!Listening, PT!Starter
  <2> QED BY <1>1, <2>1 DEF PT!Client, PT!ClientTake, PT!Send, PT!Goto
<1>3. CASE PT!Server(p)
  BY <1>0, <1>1, <1>3 DEF PT!Server, PT!Bind, PT!Accept, PT!RecvClear, PT!HandOver, PT!Goto, Calls
<1>4. CASE PT!Brain(p)
  BY <1>0, <1>4 DEF PT!Brain, PT!Greet, PT!BrainTake, PT!BrainRewrite, PT!BrainTrack, PT!Goto, Calls
<1>5. CASE PT!Tracker(p)
  BY <1>0, <1>5 DEF PT!Tracker, PT!TrackerWrite, PT!TrackerTake, PT!TrackerDone, PT!Goto, Calls
<1> QED BY <1>2, <1>3, <1>4, <1>5

(* A server that has accepted has a connection, and stays with it.         *)
LEMMA LinkedNext ==
  ASSUME HandOverOK, Linked, PT!Next
  PROVE  Linked'
<1>0. /\ link \in [Chain -> {"none", "queued", "accepted"}] /\ pc \in [Chain -> Calls]
      /\ state \in [Chain \cup {Main} -> {"none", "runs", "forked", "handler", "unsure", "ended"}]
  BY DEF HandOverOK, PT!TypeOK, Calls
<1>1. ASSUME NEW p \in Chain, link[p] = "none", link'[p] # "none"
      PROVE  state[p] # "none"
  <2>1. ~ChainLiving
    BY <1>1 DEF ChainLiving, PT!net
  <2>2. ~ChainEnding
    BY <1>1 DEF ChainEnding, PT!Ends
  <2>3. PICK q \in Chain : PT!Client(q) \/ PT!Server(q) \/ PT!Brain(q) \/ PT!Tracker(q)
    BY <2>1, <2>2, ChainKinds DEF Moving
  <2>4. link' # link
    BY <1>1
  <2>5. PT!Connect(q) \/ PT!Accept(q, "recv")
    BY <2>2, <2>3, <2>4 DEF PT!Client, PT!Server, PT!Brain, PT!Tracker, PT!TrackerWrite, PT!ClientTake, PT!Send,
       PT!SendFails,
       PT!Bind, PT!BindFails, PT!RecvClear, PT!HandOver, PT!Greet, PT!BrainTake, PT!BrainRewrite, PT!BrainTrack,
       PT!TrackerTake, PT!TrackerDone, PT!Ends, PT!net
  <2>6. CASE PT!Connect(q)
    BY <1>0, <1>1, <2>6 DEF PT!Connect, PT!Goto, PT!Up
  <2>7. CASE PT!Accept(q, "recv")
    BY <1>0, <1>1, <2>7 DEF PT!Accept, PT!Into
  <2> QED BY <2>5, <2>6, <2>7
<1>2. ASSUME NEW p \in Chain, pc'[p].server \in {"recv", "take"}
      PROVE  \E q \in PT!Into(p) : link'[q] # "none"
  <2>1. CASE pc[p].server \in {"recv", "take"}
    <3>1. PICK q \in PT!Into(p) : link[q] # "none"
      BY <2>1 DEF Linked
    <3> QED BY <3>1, EndedStays DEF PT!Into
  <2>2. CASE pc[p].server \notin {"recv", "take"}
    <3>1. ~ChainLiving
      BY <1>2, <2>2 DEF ChainLiving
    <3>2. ~ChainEnding
      BY <1>0, <1>2, <2>2 DEF ChainEnding, PT!Ends, PT!Pc0
    <3>3. PICK q \in Chain : PT!Client(q) \/ PT!Server(q) \/ PT!Brain(q) \/ PT!Tracker(q)
      BY <3>1, <3>2, ChainKinds DEF Moving
    <3>4. UNCHANGED PT!life
      BY <3>1, <3>2, ChainKinds
    <3>5. q = p
      BY <1>2, <2>2, <3>3, <3>4, OthersRest
    <3>6. PT!Server(p)
      BY <1>0, <1>2, <2>2, <3>2, <3>3, <3>5 DEF PT!Client, PT!Brain, PT!Tracker, PT!TrackerWrite, PT!Connect,
         PT!ClientTake,
         PT!Send, PT!SendFails, PT!Greet, PT!BrainTake, PT!BrainRewrite, PT!BrainTrack, PT!TrackerTake, PT!TrackerDone, PT!Goto,
         Calls, ChainEnding
    <3>7. PT!Accept(p, "recv")
      BY <1>0, <1>2, <2>2, <3>2, <3>6 DEF PT!Server, PT!Bind, PT!BindFails, PT!RecvClear, PT!HandOver, PT!Goto,
         Calls, ChainEnding
    <3> QED BY <1>0, <3>7 DEF PT!Accept, PT!Into
  <2> QED BY <2>1, <2>2
<1> QED BY <1>1, <1>2, EndedStays DEF Linked

(* No step brings a text to a process that nothing above has ended of.     *)
LEMMA TextsNext ==
  ASSUME HandOverOK, PipeTypes, TextsFromAbove, PT!Next
  PROVE  TextsFromAbove'
<1>0. /\ sem \in [Chain -> ChainCounts] /\ pc \in [Chain -> Calls] /\ wire \in [Chain -> 0 .. Stream]
      /\ PT!Starter \in Chain
  BY DEF HandOverOK, PT!TypeOK, ChainCounts, Calls, PT!Starter
<1>1. Linked'
  BY LinkedNext DEF TextsFromAbove
<1>2. ASSUME NEW p \in Chain, ~Above(p)'
      PROVE  NoText(p)' /\ (p = PT!Starter => pc'[p].client = "connect")
  <2>1. ~Above(p) /\ NoText(p)
    BY <1>2, AboveStays DEF TextsFromAbove
  <2>2. CASE ChainEnding
    BY <1>0, <2>1, <2>2 DEF ChainEnding, PT!Ends, NoText, PT!Sem0, PT!Pc0, PT!Semaphores, TextsFromAbove
  <2>3. CASE ChainLiving
    BY <2>1, <2>3 DEF ChainLiving, PT!net, NoText, TextsFromAbove
  <2>4. ASSUME UNCHANGED PT!life, NEW q \in Chain, PT!Client(q) \/ PT!Server(q) \/ PT!Brain(q) \/ PT!Tracker(q)
        PROVE  NoText(p)' /\ (p = PT!Starter => pc'[p].client = "connect")
    <3>1. CASE q = p
      BY <2>1, <2>4, <3>1, OwnStep DEF TextsFromAbove
    <3>2. CASE q # p
      BY <2>1, <2>4, <3>2, OthersRest DEF NoText, TextsFromAbove
    <3> QED BY <3>1, <3>2
  <2> QED BY <2>2, <2>3, <2>4, ChainKinds DEF Moving
<1>3. pc'[PT!Starter].client = "connect"
  <2>1. CASE ChainEnding
    BY <1>0, <2>1 DEF ChainEnding, PT!Ends, PT!Pc0, TextsFromAbove
  <2>2. CASE ChainLiving
    BY <2>2 DEF ChainLiving, TextsFromAbove
  <2>3. ASSUME UNCHANGED PT!life, NEW q \in Chain, PT!Client(q) \/ PT!Server(q) \/ PT!Brain(q) \/ PT!Tracker(q)
        PROVE  pc'[PT!Starter].client = "connect"
    <3>1. CASE q = PT!Starter
      BY <1>0, <2>3, <3>1, StarterWaits DEF TextsFromAbove
    <3>2. CASE q # PT!Starter
      BY <1>0, <2>3, <3>2, OthersRest DEF TextsFromAbove
    <3> QED BY <3>1, <3>2
  <2> QED BY <2>1, <2>2, <2>3, ChainKinds DEF Moving
<1>4. ASSUME pipe' > 0
      PROVE  \E q \in Chain : state'[q] = "ended"
  <2>1. CASE pipe > 0
    BY <2>1, EndedStays DEF TextsFromAbove
  <2>2. CASE ~(pipe > 0)
    <3>1. PICK p \in Chain : PT!TrackerWrite(p)
      BY <1>4, <2>2, PipeFills
    <3>2. Above(p)
      BY <3>1 DEF PT!TrackerWrite, PT!TrackerDone, PT!Goto, NoText, TextsFromAbove
    <3> QED BY <3>2, EndedStays DEF Above
  <2> QED BY <2>1, <2>2
<1> QED BY <1>1, <1>2, <1>3, <1>4 DEF TextsFromAbove

(* The inductive invariant of PIPEETTHREADS.c: owners, values, and where   *)
(* texts can come from.                                                    *)
ChainOK == HandOverOK /\ PipeTypes /\ TextsFromAbove

(* The inductive invariant of PIPEETTHREADS.c at the beginning,            *)
LEMMA ChainBegins == PT!Init => ChainOK
<1> SUFFICES ASSUME PT!Init PROVE ChainOK
  OBVIOUS
<1>1. HandOverOK /\ PipeTypes
  BY HandInit
<1>2. TextsFromAbove
  BY DEF PT!Init, PT!RelayInit, TextsFromAbove, Linked, NoText, PT!Sem0, PT!Pc0,
     PT!Semaphores, PT!Starter
<1> QED BY <1>1, <1>2 DEF ChainOK

(* after every step,                                                       *)
LEMMA ChainGoesOn == ChainOK /\ [PT!Next]_(PT!vars) => ChainOK'
<1> SUFFICES ASSUME ChainOK, [PT!Next]_(PT!vars) PROVE ChainOK'
  OBVIOUS
<1> USE DEF ChainOK
<1>1. CASE PT!Next
  BY <1>1, HandNext, ChainPipe, TextsNext
<1>2. CASE UNCHANGED PT!vars
  <2>1. TextsFromAbove'
    BY <1>2 DEF PT!vars, PT!relay, PT!net, PT!life, PT!own, TextsFromAbove, Linked, NoText, Above
  <2> QED BY <1>2, <2>1, HandNext, ChainPipe
<1> QED BY <1>1, <1>2

(* and what it says: who owns the slot, and that no text moves in a chain  *)
(* nobody of which has ended.                                              *)
LEMMA ChainSays == ChainOK => PT!PipeOK /\ PT!HandOverSlot /\ PT!NothingWithoutDeath
<1>1. ChainOK => PT!PipeOK /\ PT!HandOverSlot
  BY DEF ChainOK, HandOverOK, PipeTypes, PT!PipeOK
<1>2. ASSUME ChainOK, NEW p \in Chain, wire[p] > 0 \/ pc[p].brain = "rewrite"
      PROVE  Above(p)
  BY <1>2 DEF ChainOK, TextsFromAbove, NoText
<1> QED BY <1>1, <1>2 DEF ChainOK, TextsFromAbove, Above, PT!NothingWithoutDeath

(* In the chain of PIPEETTHREADS.c, however long: no text is sent, received *)
(* or logged unless a process above has ended.                             *)
THEOREM NothingCorrect == PT!Spec => []PT!NothingWithoutDeath
BY ChainBegins, ChainGoesOn, ChainSays, PTL DEF PT!Spec

HIDE ChainNumbers

-----------------------------------------------------------------------------
(* pipeProjet.c. *)

(* What main, signals and observer do to the pipe.                         *)
LEMMA PipeSteps ==
  ASSUME PipeTypes, Steps
  PROVE  PipeTypes'
<1>1. CASE UNCHANGED own
  BY <1>1 DEF PipeTypes, own
<1>2. CASE ForkObserver \/ create_observer_process
  BY <1>2 DEF PipeTypes, ForkObserver, create_observer_process
<1>3. CASE signal_handler
  BY <1>3 DEF PipeTypes, signal_handler, own
<1> QED BY <1>1, <1>2, <1>3 DEF Steps, main, cleanup

(* And to states and connections.                                          *)
LEMMA KindsOfSteps ==
  ASSUME TypeOK, Steps
  PROVE  Ending \/ Living
<1>1. UNCHANGED <<sem, pc, net, state>> => Living
  BY DEF Living, Lives
<1> QED
  BY <1>1, KindsOfMain, KindsOfSignals, KindsOfRest
  DEF Steps, main, ForkObserver, cleanup, create_observer_process, signal_handler

(* The steps that the instance has in common with the other programs.      *)
LEMMA SamePipes ==
  ASSUME NEW p
  PROVE  /\ PP!Connect(p) <=> Connect(p)
         /\ PP!ClientTake(p) <=> ClientTake(p)
         /\ PP!Send(p) <=> Send(p)
         /\ PP!SendFails(p) <=> SendFails(p)
         /\ PP!Bind(p) <=> Bind(p)
         /\ PP!BindFails(p) <=> BindFails(p)
         /\ PP!Accept(p, "take") <=> Accept(p, "take")
         /\ PP!ServerTake(p) <=> ServerTake(p)
         /\ PP!Receive(p) <=> Receive(p)
         /\ PP!Greet(p) <=> Greet(p)
         /\ PP!BrainTake(p) <=> BrainTake(p)
         /\ PP!BrainRewrite(p, "track", {"tracker_plein"}) <=> BrainRewrite(p, "track", {"tracker_plein"})
         /\ PP!BrainTrack(p) <=> BrainTrack(p)
         /\ PP!TrackerTake(p) <=> TrackerTake(p)
         /\ PP!TrackerDone(p, {}) <=> TrackerDone(p, {})
         /\ PP!Killed(p) <=> Killed(p)
<1> USE DEF PP!Up, Up, PP!Goto, Goto, PP!SemWait, SemWait, PP!SemPost, SemPost, PP!Post, Post,
      PP!Semaphores, Semaphores, PP!net, net, PP!life, life, PP!Ends, Ends, PP!Sem0, Sem0,
         PP!Pc0, Pc0
<1>1. PP!Connect(p) <=> Connect(p)
  BY DEF PP!Connect, Connect, PP!Listening, Listening
<1>2. PP!ClientTake(p) <=> ClientTake(p)
  BY DEF PP!ClientTake, ClientTake
<1>3. PP!Send(p) <=> Send(p)
  BY DEF PP!Send, Send
<1>4. PP!SendFails(p) <=> SendFails(p)
  BY DEF PP!SendFails, SendFails
<1>5. PP!Bind(p) <=> Bind(p)
  BY DEF PP!Bind, Bind
<1>6. PP!BindFails(p) <=> BindFails(p)
  BY DEF PP!BindFails, BindFails
<1>7. PP!Accept(p, "take") <=> Accept(p, "take")
  BY DEF PP!Accept, Accept, PP!Into, Into
<1>8. PP!ServerTake(p) <=> ServerTake(p)
  BY DEF PP!ServerTake, ServerTake
<1>9. PP!Receive(p) <=> Receive(p)
  BY DEF PP!Receive, Receive, PP!Recv, Recv, PP!Into, Into
<1>10. PP!Greet(p) <=> Greet(p)
  BY DEF PP!Greet, Greet, PP!Starter, Starter
<1>11. PP!BrainTake(p) <=> BrainTake(p)
  BY DEF PP!BrainTake, BrainTake
<1>12. PP!BrainRewrite(p, "track", {"tracker_plein"}) <=> BrainRewrite(p, "track", {"tracker_plein"})
  BY DEF PP!BrainRewrite, BrainRewrite
<1>13. PP!BrainTrack(p) <=> BrainTrack(p)
  BY DEF PP!BrainTrack, BrainTrack
<1>14. PP!TrackerTake(p) <=> TrackerTake(p)
  BY DEF PP!TrackerTake, TrackerTake
<1>15. PP!TrackerDone(p, {}) <=> TrackerDone(p, {})
  BY DEF PP!TrackerDone, TrackerDone
<1>16. PP!Killed(p) <=> Killed(p)
  BY DEF PP!Killed, Killed
<1> QED
  BY ONLY <1>1, <1>2, <1>3, <1>4, <1>5, <1>6, <1>7, <1>8, <1>9, <1>10, <1>11, <1>12, <1>13,
     <1>14, <1>15, <1>16

(* And the steps of main, observer and signals.                            *)
LEMMA SamePipeSteps ==
  /\ PP!Steps <=> Steps
  /\ UNCHANGED PP!own <=> UNCHANGED own
  /\ UNCHANGED PP!vars <=> UNCHANGED vars
<1> USE DEF PP!Up, Up, PP!net, net, PP!life, life, PP!Ends, Ends, PP!Sem0, Sem0, PP!Pc0, Pc0,
       PP!own, own, PP!relay, relay, PP!Semaphores, Semaphores, PP!Forked, Forked
<1>1. PP!main <=> main
  BY DEF PP!main, main, PP!ForkFails, ForkFails, PP!Record, Record, PP!Fork, Fork,
         PP!ForkObserver, ForkObserver, PP!MainReturns, MainReturns
<1>2. PP!cleanup <=> cleanup
  BY DEF PP!cleanup, cleanup, PP!HandlerExits, HandlerExits
<1>3. PP!create_observer_process <=> create_observer_process
  BY DEF PP!create_observer_process, create_observer_process, PP!Writers, Writers
<1>4. PP!signal_handler <=> signal_handler
  BY DEF PP!signal_handler, signal_handler, PP!Interrupted, Interrupted, PP!Known, Known
<1>5. UNCHANGED PP!own <=> UNCHANGED own
  OBVIOUS
<1>6. UNCHANGED PP!vars <=> UNCHANGED vars
  BY DEF PP!vars, vars
<1>7. PP!Steps <=> Steps
  BY ONLY <1>1, <1>2, <1>3, <1>4 DEF PP!Steps, Steps
<1> QED BY ONLY <1>5, <1>6, <1>7

(* It begins like the others.                                              *)
LEMMA SamePipeInit == PP!Init <=> Init
BY DEF PP!Init, Init, PP!RelayInit, RelayInit, PP!Sem0, Sem0, PP!Pc0, Pc0, PP!Semaphores,
   Semaphores

(* Of main, observer and signals, only an end touches semaphores.          *)
LEMMA PipeStepsOK ==
  ASSUME RelayOK, LifeOK, Steps
  PROVE  RelayOK'
<1>1. CASE main
  BY <1>1, MainOK, RestOK DEF main, ForkObserver
<1>2. CASE cleanup
  BY <1>2, SignalsOK DEF cleanup
<1>3. CASE create_observer_process
  BY <1>3, RestOK DEF create_observer_process
<1>4. CASE signal_handler
  <2>1. CASE \E x \in Procs \cup {Main} :
               Interrupted(x, IF x = Main THEN Known ELSE {q \in Procs : q < x})
    BY <2>1, SignalsOK
  <2>2. CASE /\ killed' = killed \cup {p \in Procs : Up(p)}
             /\ UNCHANGED <<sem, pc, net, state>>
    BY <2>2, StepOfMain DEF LifeOK
  <2> QED BY <1>4, <2>1, <2>2 DEF signal_handler
<1> QED BY <1>1, <1>2, <1>3, <1>4 DEF Steps

(* What a step of pipeProjet.c does to the pipe.                           *)
LEMMA PipeTypesOK ==
  ASSUME PipeTypes, PP!Next
  PROVE  PipeTypes'
<1>1. CASE UNCHANGED own \/ \E p \in Procs : TrackerWrite(p)
  BY <1>1 DEF PipeTypes, own, TrackerWrite
<1>2. CASE Steps
  BY <1>2, PipeSteps
<1>3. ASSUME NEW p \in Procs, PP!create_threads(p) \/ (PP!Killed(p) /\ UNCHANGED PP!own)
      PROVE  UNCHANGED own \/ PP!TrackerWrite(p)
  BY <1>3, SamePipeSteps DEF PP!create_threads, PP!Client, PP!Server, PP!Brain, PP!Tracker
<1>4. \A p \in Procs : PP!TrackerWrite(p) => PipeTypes'
  BY DEF PP!TrackerWrite, PipeTypes
<1> QED BY <1>1, <1>2, <1>3, <1>4, SamePipeSteps DEF PP!Next

(* And to slot and mutexes.                                                *)
LEMMA PipeRelayNext ==
  RelayOK /\ PipeTypes /\ [PP!Next]_(PP!vars) => (RelayOK /\ PipeTypes)'
<1> SUFFICES ASSUME RelayOK, PipeTypes, [PP!Next]_(PP!vars) PROVE RelayOK' /\ PipeTypes'
  OBVIOUS
<1>1. CASE UNCHANGED vars
  BY <1>1, RestOK DEF vars, own, PipeTypes
<1>2. CASE PP!Next
  <2>1. Steps => RelayOK'
    BY PipeStepsOK DEF RelayOK, TypeOK, LifeOK
  <2>2. ASSUME NEW p \in Procs, PP!create_threads(p) \/ PP!Killed(p)
        PROVE  RelayOK'
    BY <2>2, SamePipes, ThreadsOK, SignalsOK
    DEF PP!create_threads, PP!Client, PP!Server, PP!Brain, PP!Tracker, PP!TrackerWrite
  <2> QED BY <1>2, <2>1, <2>2, PipeTypesOK, SamePipeSteps DEF PP!Next
<1> QED BY <1>1, <1>2, SamePipeSteps

(* In pipeProjet.c, whoever is interrupted, killed or dies, observer       *)
(* included, and however full streams, pipe and semaphores are, two        *)
(* threads never use the slot at once, a mutex is held by the thread in    *)
(* the call it belongs to, or free, and the pipe holds no more than it     *)
(* takes.                                                                  *)
THEOREM RelayCorrect == PP!Spec => [](RelayOK /\ PipeOK)
<1>1. PP!Init => RelayOK /\ PipeTypes
  BY SamePipeInit, InitOK DEF Init, PipeTypes
<1>2. RelayOK /\ PipeTypes => RelayOK /\ PipeOK
  BY DEF RelayOK, PipeTypes, PipeOK
<1> QED BY <1>1, <1>2, PipeRelayNext, PTL DEF PP!Spec

-----------------------------------------------------------------------------
(* fifotube.c, whose trackers take texts in the brain's place. *)

(* TubeSlot, of a process whose semaphores are s and calls c               *)
SharedSlot(s, c) ==
  /\ s["receive_vide"] + s["receive_plein"]
     + Flag(c.server = "recv") + Flag(c.tracker = "write") = 1
  /\ s["receive_mutex"] + Flag(c.server = "recv") + Flag(c.tracker = "write") = 1

SharedOK == TypeOK /\ \A p \in Procs : SharedSlot(sem[p], pc[p])

(* What the programs' semaphores can be, and what becomes of one posted.   *)
LEMMA SharedOfEach ==
  ASSUME SharedOK, NEW p \in Procs
  PROVE  /\ SharedSlot(sem[p], pc[p]) /\ sem[p] \in Counts /\ pc[p] \in Calls
         /\ \A x \in Semaphores : sem[p][x] \in 0 .. SemMax
BY TypeOfEach DEF SharedOK, Counts

(* A step of process p: only its own slot has to be looked at.             *)
LEMMA SharedStep ==
  ASSUME SharedOK, NEW p \in Procs, NEW s \in Counts, NEW c \in Calls, SharedSlot(s, c),
         sem' = [sem EXCEPT ![p] = s], pc' = [pc EXCEPT ![p] = c], NetOK', LifeOK'
  PROVE  SharedOK'
<1>1. TypeOK'
  BY DEF SharedOK, TypeOK, NetOK, LifeOK, Counts, Calls
<1>2. ASSUME NEW q \in Procs PROVE SharedSlot(sem'[q], pc'[q])
  <2>1. CASE q = p
    BY <2>1 DEF SharedOK, TypeOK
  <2>2. CASE q # p
    BY <2>2, SharedOfEach DEF SharedOK, TypeOK
  <2> QED BY <2>1, <2>2
<1> QED BY <1>1, <1>2 DEF SharedOK

(* Steps that have nothing to do with the slot.                            *)
LEMMA AsideShared ==
  ASSUME SharedOK, NEW p \in Procs,
         \/ Connect(p) \/ ClientTake(p) \/ Send(p) \/ Bind(p) \/ Accept(p, "take")
         \/ Greet(p) \/ BrainRewrite(p, "take", {})
  PROVE  SharedOK'
<1>1. PICK c \in Calls : /\ pc' = [pc EXCEPT ![p] = c] /\ c.tracker = pc[p].tracker
                         /\ c.server = pc[p].server \/ (c.server # "recv" /\ pc[p].server # "recv")
  <2>1. CASE Connect(p) \/ ClientTake(p) \/ Send(p)
    <3>1. PICK c \in Calls : /\ pc' = [pc EXCEPT ![p] = c] /\ c.tracker = pc[p].tracker
                             /\ c.server = pc[p].server
      BY <2>1, ClientGoes DEF SharedOK, Connect, ClientTake, Send
    <3> QED BY <3>1
  <2>2. CASE Bind(p) \/ Accept(p, "take")
    BY <2>2, ServerGoes DEF SharedOK, Bind, Accept
  <2>3. CASE Greet(p) \/ BrainRewrite(p, "take", {})
    <3>1. PICK c \in Calls : /\ pc' = [pc EXCEPT ![p] = c] /\ c.tracker = pc[p].tracker
                             /\ c.server = pc[p].server
      BY <2>3, BrainGoes DEF SharedOK, Greet, BrainRewrite
    <3> QED BY <3>1
  <2> QED BY <2>1, <2>2, <2>3
<1>2. PICK s \in Counts :
        /\ sem' = [sem EXCEPT ![p] = s]
        /\ \A x \in {"receive_vide", "receive_plein", "receive_mutex"} : s[x] = sem[p][x]
  <2>1. CASE Connect(p) \/ Bind(p) \/ Accept(p, "take")
    <3>1. sem' = [sem EXCEPT ![p] = sem[p]]
      BY <2>1 DEF Connect, Bind, Accept, net, life, SharedOK, TypeOK
    <3> QED BY <3>1, SharedOfEach
  <2>2. CASE ClientTake(p)
    BY <2>2, WaitTakes DEF SharedOK, ClientTake, Semaphores
  <2>3. CASE Send(p) \/ Greet(p) \/ BrainRewrite(p, "take", {})
    <3>1. PICK S \in SUBSET {"sending_mutex", "sending_plein"} : SemPost(p, S)
      BY <2>3 DEF Send, Greet, BrainRewrite
    <3> QED BY <3>1, PostGives DEF SharedOK, Semaphores
  <2> QED BY <2>1, <2>2, <2>3
<1>3. SharedSlot(s, c)
  BY <1>1, <1>2, SharedOfEach DEF SharedSlot, Flag
<1>4. NetOK' /\ LifeOK'
  <2>1. wire \in [Procs -> 0 .. Stream] /\ broken \in [Procs -> BOOLEAN]
        /\ link \in [Procs -> {"none", "queued", "accepted"}] /\ LifeOK
    BY DEF SharedOK, TypeOK, LifeOK
  <2>2. CASE Send(p)
    <3>1. wire[p] < Stream => wire[p] + 1 \in 0 .. Stream
      BY <2>1
    <3>2. wire' \in [Procs -> 0 .. Stream] /\ broken' \in [Procs -> BOOLEAN]
      BY <2>1, <2>2, <3>1 DEF Send
    <3> QED BY <2>1, <2>2, <3>2 DEF Send, life, NetOK, LifeOK
  <2>3. CASE Connect(p) \/ Accept(p, "take")
    BY <2>1, <2>3 DEF Connect, Accept, Into, life, NetOK, LifeOK
  <2>4. CASE ClientTake(p) \/ Bind(p) \/ Greet(p) \/ BrainRewrite(p, "take", {})
    BY <2>1, <2>4 DEF ClientTake, Bind, Greet, BrainRewrite, net, life, NetOK, LifeOK
  <2> QED BY <2>2, <2>3, <2>4
<1> QED BY <1>1, <1>2, <1>3, <1>4, SharedStep

(* Server or tracker take the slot, with its mutex.                        *)
LEMMA SharedTaken ==
  ASSUME SharedOK, NEW p \in Procs,
         ServerTake(p) \/ /\ Goto(p, "tracker", "take", "write")
                          /\ SemWait(p, {"receive_plein", "receive_mutex"})
                          /\ UNCHANGED <<net, life>>
  PROVE  SharedOK'
<1>1. PICK c \in Calls :
        /\ pc' = [pc EXCEPT ![p] = c]
        /\ \/ /\ pc[p].server # "recv" /\ c.server = "recv" /\ c.tracker = pc[p].tracker
           \/ /\ pc[p].tracker # "write" /\ c.tracker = "write" /\ c.server = pc[p].server
  BY ServerGoes, TrackerGoes DEF SharedOK, ServerTake
<1>2. PICK x \in {"receive_vide", "receive_plein"} : SemWait(p, {x, "receive_mutex"})
  BY DEF ServerTake
<1>3. PICK s \in Counts :
        /\ sem' = [sem EXCEPT ![p] = s]
        /\ \A y \in {x, "receive_mutex"} : sem[p][y] > 0 /\ s[y] = sem[p][y] - 1
        /\ \A y \in Semaphores \ {x, "receive_mutex"} : s[y] = sem[p][y]
  BY <1>2, WaitTakes DEF SharedOK, Semaphores
<1>4. SharedSlot(s, c)
  <2>1. /\ \A y \in {"receive_vide", "receive_plein", "receive_mutex"} : sem[p][y] \in Nat
        /\ s["receive_vide"] + s["receive_plein"] = sem[p]["receive_vide"] + sem[p]["receive_plein"] - 1
        /\ s["receive_mutex"] = sem[p]["receive_mutex"] - 1
    BY <1>3, SharedOfEach DEF Semaphores
  <2>2. /\ sem[p]["receive_vide"] + sem[p]["receive_plein"] > 0 /\ sem[p]["receive_mutex"] > 0
        /\ \A y \in {"receive_vide", "receive_plein", "receive_mutex"} : s[y] \in Nat
    BY <1>3, SharedOfEach DEF Semaphores, Counts
  <2>3. SharedSlot(sem[p], pc[p])
    BY SharedOfEach
  <2>4. CASE pc[p].server # "recv" /\ c.server = "recv" /\ c.tracker = pc[p].tracker
    BY <2>1, <2>2, <2>3, <2>4 DEF SharedSlot, Flag
  <2>5. CASE pc[p].tracker # "write" /\ c.tracker = "write" /\ c.server = pc[p].server
    <3>1. CASE pc[p].server = "recv"
      BY <2>1, <2>2, <2>3, <2>5, <3>1 DEF SharedSlot, Flag
    <3>2. CASE pc[p].server # "recv"
      <4>1. sem[p]["receive_vide"] + sem[p]["receive_plein"] = 1 /\ sem[p]["receive_mutex"] = 1
        BY <2>1, <2>3, <2>5, <3>2 DEF SharedSlot, Flag
      <4>2. s["receive_vide"] + s["receive_plein"] = 0 /\ s["receive_mutex"] = 0
        BY <2>1, <2>2, <4>1
      <4> QED BY <2>5, <3>2, <2>2, <4>2 DEF SharedSlot, Flag
    <3> QED BY <3>1, <3>2
  <2> QED BY <1>1, <2>4, <2>5
<1>5. NetOK' /\ LifeOK'
  BY DEF ServerTake, net, life, SharedOK, TypeOK, NetOK, LifeOK
<1> QED BY <1>1, <1>3, <1>4, <1>5, SharedStep

(* Who is in a call with the slot has taken it, with its mutex.            *)
LEMMA SharedGiven ==
  ASSUME SharedOK, NEW p \in Procs,
         Receive(p) \/ /\ Goto(p, "tracker", "write", "take")
                       /\ SemPost(p, {"receive_mutex", "receive_vide"})
                       /\ UNCHANGED <<net, life>>
  PROVE  SharedOK'
<1>1. PICK c \in Calls :
        /\ pc' = [pc EXCEPT ![p] = c]
        /\ \/ /\ pc[p].server = "recv" /\ c.server # "recv" /\ c.tracker = pc[p].tracker
           \/ /\ pc[p].tracker = "write" /\ c.tracker # "write" /\ c.server = pc[p].server
  BY ServerGoes, TrackerGoes DEF SharedOK, Receive
<1>2. PICK x \in {"receive_vide", "receive_plein"} : SemPost(p, {"receive_mutex", x})
  BY DEF Receive
<1>3. PICK s \in Counts :
        /\ sem' = [sem EXCEPT ![p] = s]
        /\ \A y \in {"receive_mutex", x} : sem[p][y] = 0 => s[y] = 1
        /\ \A y \in Semaphores \ {"receive_mutex", x} : s[y] = sem[p][y]
  BY <1>2, PostGives DEF SharedOK, Semaphores
<1>4. SharedSlot(s, c)
  <2>1. /\ sem[p]["receive_mutex"] = 0 /\ sem[p]["receive_vide"] = 0
        /\ sem[p]["receive_plein"] = 0 /\ ~(c.server = "recv") /\ ~(c.tracker = "write")
    <3>1. PICK m \in Nat, v \in Nat, f \in Nat :
            m = sem[p]["receive_mutex"] /\ v = sem[p]["receive_vide"] /\ f = sem[p]["receive_plein"]
      BY SharedOfEach DEF Semaphores
    <3>2. PICK i \in {0, 1}, j \in {0, 1} :
            /\ i = Flag(pc[p].server = "recv") /\ (i = 1 <=> pc[p].server = "recv")
            /\ j = Flag(pc[p].tracker = "write") /\ (j = 1 <=> pc[p].tracker = "write")
      BY DEF Flag
    <3>3. v + f + i + j = 1 /\ m + i + j = 1
      BY <3>1, <3>2, SharedOfEach DEF SharedSlot
    <3>4. i = 1 \/ j = 1
      BY <1>1, <3>2
    <3>5. m = 0 /\ v = 0 /\ f = 0 /\ ~(i = 1 /\ j = 1)
      BY <3>3, <3>4
    <3> QED BY <1>1, <3>1, <3>2, <3>5
  <2> QED BY <1>3, <2>1 DEF SharedSlot, Flag, Semaphores
<1>5. NetOK' /\ LifeOK'
  <2>1. wire \in [Procs -> 0 .. Stream]
    BY DEF SharedOK, TypeOK
  <2>2. \A q \in Procs : \A k \in 1 .. wire[q] : wire[q] - k \in 0 .. Stream
    BY <2>1
  <2>3. wire' \in [Procs -> 0 .. Stream]
    BY <2>1, <2>2 DEF Receive, Recv, Into, net
  <2> QED BY <2>3 DEF Receive, net, life, SharedOK, TypeOK, NetOK, LifeOK
<1> QED BY <1>1, <1>3, <1>4, <1>5, SharedStep

(* The brain gives it back to the server.                                  *)
LEMMA SharedBack == ASSUME SharedOK, NEW p \in Procs, BrainTake(p) PROVE SharedOK'
<1> DEFINE s == [sem[p] EXCEPT !["receive_plein"] = @ - 1, !["receive_vide"] = Post(@),
                               !["sending_plein"] = Post(@)]
<1>1. PICK c \in Calls : /\ pc' = [pc EXCEPT ![p] = c]
                         /\ c.server = pc[p].server /\ c.tracker = pc[p].tracker
  BY BrainGoes DEF SharedOK, BrainTake
<1>2. \A x \in Semaphores : sem[p][x] \in 0 .. SemMax /\ Post(sem[p][x]) \in 0 .. SemMax
                            /\ (sem[p][x] = 0 => Post(sem[p][x]) = 1)
  BY SharedOfEach, PostCounts
<1>3. /\ sem[p]["receive_plein"] > 0 /\ s \in Counts /\ sem' = [sem EXCEPT ![p] = s]
  <2>1. sem[p]["receive_plein"] > 0 /\ sem' = [sem EXCEPT ![p] = s]
    BY DEF BrainTake
  <2> QED BY <1>2, <2>1, SharedOfEach DEF Counts, Semaphores
<1>4. /\ s["receive_plein"] = sem[p]["receive_plein"] - 1
      /\ s["receive_vide"] = Post(sem[p]["receive_vide"])
      /\ s["receive_mutex"] = sem[p]["receive_mutex"]
  BY SharedOfEach DEF Counts, Semaphores
<1> HIDE DEF s
<1>5. SharedSlot(s, c)
  <2>1. /\ \A y \in {"receive_vide", "receive_plein", "receive_mutex"} : sem[p][y] \in Nat
        /\ Flag(pc[p].server = "recv") \in {0, 1} /\ Flag(pc[p].tracker = "write") \in {0, 1}
    BY <1>2 DEF Semaphores, Flag
  <2>2. /\ sem[p]["receive_plein"] = 1 /\ sem[p]["receive_vide"] = 0
        /\ Flag(pc[p].server = "recv") = 0 /\ Flag(pc[p].tracker = "write") = 0
    BY <1>3, <2>1, SharedOfEach DEF SharedSlot
  <2>3. s["receive_plein"] = 0 /\ s["receive_vide"] = 1
    BY <1>2, <1>4, <2>2 DEF Semaphores
  <2>4. SharedSlot(sem[p], c)
    BY <1>1, SharedOfEach DEF SharedSlot
  <2>5. /\ s["receive_vide"] + s["receive_plein"] = sem[p]["receive_vide"] + sem[p]["receive_plein"]
        /\ s["receive_mutex"] = sem[p]["receive_mutex"]
    BY <1>4, <2>2, <2>3
  <2> QED BY <2>4, <2>5, ZenonT(30) DEF SharedSlot
<1>6. NetOK' /\ LifeOK'
  BY DEF BrainTake, net, life, SharedOK, TypeOK, NetOK, LifeOK
<1> QED BY <1>1, <1>3, <1>5, <1>6, SharedStep

(* Who ends leaves a process as it was at its beginning.                   *)
LEMMA SharedEnds ==
  ASSUME SharedOK, NEW x \in Procs \cup {Main}, Ends(x), killed' \subseteq Procs
  PROVE  SharedOK'
<1>1. Sem0 \in Counts /\ Pc0 \in Calls /\ SharedSlot(Sem0, Pc0)
  BY DEF Sem0, Pc0, Counts, Calls, SharedSlot, Semaphores, Flag
<1>2. sem' \in [Procs -> Counts] /\ pc' \in [Procs -> Calls]
  BY <1>1, SharedOfEach DEF Ends
<1>3. NetOK' /\ LifeOK'
  BY DEF Ends, SharedOK, TypeOK, NetOK, LifeOK
<1>4. TypeOK'
  BY <1>2, <1>3 DEF TypeOK, NetOK, LifeOK, Counts, Calls
<1>5. ASSUME NEW q \in Procs PROVE SharedSlot(sem'[q], pc'[q])
  BY <1>1, SharedOfEach DEF Ends
<1> QED BY <1>4, <1>5 DEF SharedOK

(* What changes states and signals only.                                   *)
LEMMA SharedLife ==
  ASSUME SharedOK, UNCHANGED <<sem, pc, net>>, LifeOK'
  PROVE  SharedOK'
  BY DEF SharedOK, TypeOK, LifeOK, net

(* A step of something else.                                               *)
LEMMA SharedRest == ASSUME SharedOK, UNCHANGED relay PROVE SharedOK'
<1>1. UNCHANGED <<sem, pc, net, state, killed>>
  BY DEF relay, life
<1> QED BY <1>1, SharedLife DEF LifeOK, SharedOK, TypeOK

(* A process interrupted ends; main sends signals and waits.               *)
LEMMA SharedInterrupt ==
  ASSUME SharedOK, NEW x \in Procs \cup {Main}, NEW known \in SUBSET Procs, Interrupted(x, known)
  PROVE  SharedOK'
<1>1. killed' \subseteq Procs
  BY DEF Interrupted, SharedOK, TypeOK
<1>2. CASE x = Main
  BY <1>1, <1>2, SharedLife DEF Interrupted, LifeOK, SharedOK, TypeOK
<1>3. CASE x # Main
  BY <1>1, <1>3, SharedEnds DEF Interrupted
<1> QED BY <1>2, <1>3

(* The steps that the instance has in common with the other programs.      *)
LEMMA SameTubes ==
  ASSUME NEW p, NEW t, NEW from, NEW to, NEW S
  PROVE  /\ FT!Connect(p) <=> Connect(p)
         /\ FT!ClientTake(p) <=> ClientTake(p)
         /\ FT!Send(p) <=> Send(p)
         /\ FT!SendFails(p) <=> SendFails(p)
         /\ FT!Bind(p) <=> Bind(p)
         /\ FT!BindFails(p) <=> BindFails(p)
         /\ FT!Accept(p, "take") <=> Accept(p, "take")
         /\ FT!ServerTake(p) <=> ServerTake(p)
         /\ FT!Receive(p) <=> Receive(p)
         /\ FT!Greet(p) <=> Greet(p)
         /\ FT!BrainTake(p) <=> BrainTake(p)
         /\ FT!BrainRewrite(p, "take", {}) <=> BrainRewrite(p, "take", {})
         /\ FT!Goto(p, t, from, to) <=> Goto(p, t, from, to)
         /\ FT!SemWait(p, S) <=> SemWait(p, S)
         /\ FT!SemPost(p, S) <=> SemPost(p, S)
         /\ FT!Ends(p) <=> Ends(p)
         /\ FT!Killed(p) <=> Killed(p)
         /\ FT!Fork(p) <=> Fork(p)
         /\ FT!Interrupted(p, S) <=> Interrupted(p, S)
         /\ FT!ForkFails <=> ForkFails
         /\ FT!Record <=> Record
         /\ FT!MainReturns <=> MainReturns
         /\ FT!HandlerExits(S) <=> HandlerExits(S)
<1> USE DEF FT!Up, Up, FT!Goto, Goto, FT!SemWait, SemWait, FT!SemPost, SemPost, FT!Post, Post,
      FT!Semaphores, Semaphores, FT!net, net, FT!life, life, FT!Ends, Ends, FT!Sem0, Sem0,
         FT!Pc0, Pc0
<1>1. FT!Connect(p) <=> Connect(p)
  BY DEF FT!Connect, Connect, FT!Listening, Listening
<1>2. FT!ClientTake(p) <=> ClientTake(p)
  BY DEF FT!ClientTake, ClientTake
<1>3. FT!Send(p) <=> Send(p)
  BY DEF FT!Send, Send
<1>4. FT!SendFails(p) <=> SendFails(p)
  BY DEF FT!SendFails, SendFails
<1>5. FT!Bind(p) <=> Bind(p)
  BY DEF FT!Bind, Bind
<1>6. FT!BindFails(p) <=> BindFails(p)
  BY DEF FT!BindFails, BindFails
<1>7. FT!Accept(p, "take") <=> Accept(p, "take")
  BY DEF FT!Accept, Accept, FT!Into, Into
<1>8. FT!ServerTake(p) <=> ServerTake(p)
  BY DEF FT!ServerTake, ServerTake
<1>9. FT!Receive(p) <=> Receive(p)
  BY DEF FT!Receive, Receive, FT!Recv, Recv, FT!Into, Into
<1>10. FT!Greet(p) <=> Greet(p)
  BY DEF FT!Greet, Greet, FT!Starter, Starter
<1>11. FT!BrainTake(p) <=> BrainTake(p)
  BY DEF FT!BrainTake, BrainTake
<1>12. FT!BrainRewrite(p, "take", {}) <=> BrainRewrite(p, "take", {})
  BY DEF FT!BrainRewrite, BrainRewrite
<1>13. FT!Goto(p, t, from, to) <=> Goto(p, t, from, to)
  BY DEF FT!Goto, Goto
<1>14. FT!SemWait(p, S) <=> SemWait(p, S)
  BY DEF FT!SemWait, SemWait
<1>15. FT!SemPost(p, S) <=> SemPost(p, S)
  BY DEF FT!SemPost, SemPost
<1>16. FT!Ends(p) <=> Ends(p)
  BY DEF FT!Ends, Ends
<1>17. FT!Killed(p) <=> Killed(p)
  BY DEF FT!Killed, Killed
<1>18. FT!Fork(p) <=> Fork(p)
  BY DEF FT!Fork, Fork
<1>19. FT!Interrupted(p, S) <=> Interrupted(p, S)
  BY DEF FT!Interrupted, Interrupted
<1>20. FT!ForkFails <=> ForkFails
  BY DEF FT!ForkFails, ForkFails
<1>21. FT!Record <=> Record
  BY DEF FT!Record, Record
<1>22. FT!MainReturns <=> MainReturns
  BY DEF FT!MainReturns, MainReturns
<1>23. FT!HandlerExits(S) <=> HandlerExits(S)
  BY DEF FT!HandlerExits, HandlerExits
<1> QED
  BY ONLY <1>1, <1>2, <1>3, <1>4, <1>5, <1>6, <1>7, <1>8, <1>9, <1>10, <1>11, <1>12, <1>13,
     <1>14, <1>15, <1>16, <1>17, <1>18, <1>19, <1>20, <1>21, <1>22, <1>23

(* The variables that fifotube.c has in common with the others.            *)
LEMMA SameTubeVars ==
  /\ UNCHANGED FT!relay <=> UNCHANGED relay
  /\ UNCHANGED <<FT!net, FT!life>> <=> UNCHANGED <<net, life>>
  /\ UNCHANGED FT!net <=> UNCHANGED net
  /\ FT!Forked = Forked /\ FT!Known = Known
  /\ FT!TypeOK <=> TypeOK
  /\ FT!RelayInit <=> RelayInit
<1>1. /\ UNCHANGED FT!relay <=> UNCHANGED relay
      /\ UNCHANGED <<FT!net, FT!life>> <=> UNCHANGED <<net, life>>
      /\ UNCHANGED FT!net <=> UNCHANGED net
  BY DEF FT!relay, relay, FT!net, net, FT!life, life
<1>2. FT!Forked = Forked /\ FT!Known = Known
  BY DEF FT!Forked, Forked, FT!Known, Known
<1>3. FT!TypeOK <=> TypeOK
  BY DEF FT!TypeOK, TypeOK, FT!Semaphores, Semaphores
<1>4. FT!RelayInit <=> RelayInit
  BY DEF FT!RelayInit, RelayInit, FT!Sem0, Sem0, FT!Pc0, Pc0, FT!Semaphores, Semaphores
<1> QED BY <1>1, <1>2, <1>3, <1>4

(* The values of the variables that fifotube.c has beside the relay's.     *)
TubeTypes ==
  /\ name \in BOOLEAN /\ struck \in BOOLEAN /\ pipe \in 0 .. PipeMax
  /\ tube \in [Procs -> {"shut", "waits", "lost", "open"}]
  /\ observer \in {"none", "mkfifo", "open", "waits", "fopen", "read", "ended"}

(* The entry, the pipes and the observer keep their types.                 *)
LEMMA TubeTypesNext ==
  ASSUME TubeTypes, FT!Next
  PROVE  TubeTypes'
<1> USE DEF TubeTypes
<1>1. CASE FT!main
  BY <1>1 DEF FT!main, FT!ForkObserver, FT!own
<1>2. CASE FT!cleanup
  BY <1>2 DEF FT!cleanup, FT!Unlink
<1>3. CASE FT!observer_process \/ FT!ObserverKilled
  <2>1. \A k \in 1 .. pipe : pipe - k \in 0 .. PipeMax
    OBVIOUS
  <2> QED BY <1>3, <2>1 DEF FT!observer_process, FT!ObserverKilled, FT!ObserverEnds, FT!relay
<1>4. CASE FT!signal_handler
  BY <1>4 DEF FT!signal_handler, FT!ObserverEnds, FT!Unlink, FT!ObserverLives
<1>5. ASSUME NEW p \in Procs, FT!Client(p) \/ FT!Server(p) \/ FT!Brain(p) \/ (FT!Killed(p) /\ UNCHANGED FT!own)
      PROVE  TubeTypes'
  BY <1>5 DEF FT!Client, FT!Server, FT!Brain, FT!own
<1>6. ASSUME NEW p \in Procs, FT!Tracker(p)
      PROVE  TubeTypes'
  BY <1>6 DEF FT!Tracker, FT!TrackerOpen, FT!TrackerTakesSlot, FT!TrackerWrite,
     FT!TrackerFails, FT!own
<1> QED BY <1>1, <1>2, <1>3, <1>4, <1>5, <1>6 DEF FT!Next, FT!create_threads

(* All that the threads of fifotube.c do keeps the slot with one owner,    *)
LEMMA SharedThreads ==
  ASSUME SharedOK, NEW p \in Procs, FT!create_threads(p) \/ FT!Killed(p)
  PROVE  SharedOK'
<1>1. CASE SendFails(p) \/ BindFails(p) \/ Killed(p) \/ (Ends(p) /\ killed' = killed \ {p})
  BY <1>1, SharedEnds DEF SendFails, BindFails, Killed, SharedOK, TypeOK
<1>2. CASE FT!Client(p) \/ FT!Server(p) \/ FT!Brain(p) \/ FT!Killed(p)
  BY <1>1, <1>2, SameTubes, AsideShared, SharedTaken, SharedGiven, SharedBack
  DEF FT!Client, FT!Server, FT!Brain
<1>3. CASE FT!Tracker(p)
  <2>1. CASE FT!TrackerOpen(p) \/ FT!TrackerFails(p)
    <3>1. UNCHANGED relay \/ (Ends(p) /\ killed' = killed \ {p})
      BY <2>1, SameTubes, SameTubeVars DEF FT!TrackerOpen, FT!TrackerFails
    <3>2. CASE UNCHANGED relay
      BY <3>2, SharedRest
    <3> QED BY <1>1, <3>1, <3>2
  <2>2. CASE FT!TrackerTakesSlot(p)
    BY <2>2, SameTubes, SameTubeVars, SharedTaken DEF FT!TrackerTakesSlot
  <2>3. CASE FT!TrackerWrite(p)
    BY <2>3, SameTubes, SameTubeVars, SharedGiven DEF FT!TrackerWrite
  <2> QED BY <1>3, <2>1, <2>2, <2>3 DEF FT!Tracker
<1> QED BY <1>2, <1>3 DEF FT!create_threads

(* so does what main, its handler and its signals do.                      *)
LEMMA SharedMains ==
  ASSUME SharedOK, FT!main \/ FT!cleanup \/ FT!signal_handler
  PROVE  SharedOK'
<1>0. state \in [Procs \cup {Main} -> {"none", "runs", "forked", "handler", "unsure", "ended"}]
      /\ killed \subseteq Procs
  BY DEF SharedOK, TypeOK
<1>1. CASE ForkFails \/ MainReturns \/ HandlerExits(FT!Waited) \/ (Ends(Main) /\ UNCHANGED killed)
  BY <1>0, <1>1, SharedEnds DEF ForkFails, MainReturns, HandlerExits
<1>2. CASE Record \/ \E p \in Procs : Fork(p)
  BY <1>0, <1>2, SharedLife DEF Record, Fork, LifeOK
<1>3. CASE UNCHANGED relay
  BY <1>3, SharedRest
<1>4. CASE FT!main
  <2>1. CASE FT!ForkObserver
    <3>1. CASE state' = [state EXCEPT ![Main] = "forked"] /\ UNCHANGED <<sem, pc, net, killed>>
      BY <1>0, <3>1, SharedLife DEF LifeOK
    <3> QED BY <1>1, <2>1, <3>1, SameTubes, SameTubeVars DEF FT!ForkObserver
  <2> QED BY <1>1, <1>2, <1>4, <2>1, SameTubes DEF FT!main
<1>5. CASE FT!cleanup
  BY <1>1, <1>5, SameTubes DEF FT!cleanup
<1>6. ASSUME NEW x \in Procs \cup {Main},
             Interrupted(x, IF x = Main THEN Known ELSE {q \in Procs : q < x})
      PROVE  SharedOK'
  <2>1. (IF x = Main THEN Known ELSE {q \in Procs : q < x}) \in SUBSET Procs
    BY DEF Known, Forked
  <2> QED BY <1>6, <2>1, SharedInterrupt
<1>7. CASE FT!signal_handler
  BY <1>3, <1>6, <1>7, SameTubes, SameTubeVars DEF FT!signal_handler
<1> QED BY <1>4, <1>5, <1>7

(* The slot is free at the beginning.                                      *)
LEMMA SharedInit == FT!Init => SharedOK /\ TubeTypes
<1>1. RelayInit => SharedOK
  BY DEF RelayInit, SharedOK, TypeOK, SharedSlot, Sem0, Pc0, Semaphores, Flag
<1>2. FT!Init => TubeTypes /\ FT!RelayInit
  <2>1. FALSE \in BOOLEAN /\ 0 \in 0 .. PipeMax
    OBVIOUS
  <2> QED BY <2>1 DEF FT!Init, TubeTypes
<1> QED BY <1>1, <1>2, SameTubeVars

(* And so every step of fifotube.c.                                        *)
LEMMA SharedNext ==
  ASSUME SharedOK, TubeTypes, [FT!Next]_(FT!vars)
  PROVE  SharedOK' /\ TubeTypes'
<1>1. UNCHANGED relay => SharedOK'
  BY SharedRest
<1>2. CASE UNCHANGED FT!vars
  BY <1>1, <1>2, SameTubeVars DEF FT!vars, FT!own, TubeTypes
<1>3. CASE FT!Next
  <2>1. FT!observer_process \/ FT!ObserverKilled => UNCHANGED relay
    BY SameTubeVars DEF FT!observer_process, FT!ObserverKilled
  <2>2. SharedOK'
    BY <1>1, <1>3, <2>1, SharedThreads, SharedMains DEF FT!Next
  <2> QED BY <1>3, <2>2, TubeTypesNext
<1> QED BY <1>2, <1>3

(* What the inductive invariant of fifotube.c says of its slot.            *)
LEMMA TubeSays == SharedOK /\ TubeTypes => FT!TubeOK /\ FT!TubeSlot
BY SameTubeVars DEF SharedOK, TubeTypes, FT!TubeOK, FT!TubeSlot, SharedSlot, FT!Flag, Flag

(* fifotube.c, whoever is interrupted, killed or dies: the slot between    *)
(* server and brain, for which brain and tracker compete, is free,         *)
(* announced, or with exactly one of the three threads.                    *)
THEOREM SharedCorrect == FT!Spec => [](SharedOK /\ TubeTypes)
<1>1. SharedOK /\ TubeTypes /\ [FT!Next]_(FT!vars) => (SharedOK /\ TubeTypes)'
  BY SharedNext
<1> QED BY <1>1, SharedInit, PTL DEF FT!Spec

(* In fifotube.c, whoever is interrupted, killed or dies, and however full *)
(* streams and pipe are: server, brain and tracker never use the slot at   *)
(* once, and the text in it is announced to one of the two that want it.   *)
THEOREM TubeSlotCorrect == FT!Spec => [](FT!TubeOK /\ FT!TubeSlot)
BY TubeSays, SharedCorrect, PTL

-----------------------------------------------------------------------------
(* Who can end the relay of fifotube.c. *)

(* Process p has no text and none is on its way from it.                   *)
Quiet(p) ==
  /\ wire[p] = 0 /\ sem[p].sending_plein = 0 /\ sem[p].receive_plein = 0
  /\ pc[p].client # "send" /\ pc[p].brain # "rewrite"

(* A sum of counts is zero where all of them are.                          *)
LEMMA NoSum ==
  ASSUME NEW a \in Nat, NEW b \in Nat, NEW w \in Nat, NEW f \in {0, 1}, NEW g \in {0, 1}
  PROVE  a + f + 2 * b + g + w = 0 <=> (w = 0 /\ a = 0 /\ b = 0 /\ f = 0 /\ g = 0)
OBVIOUS

(* The relay is silent where every process is: nothing due, nothing on the *)
(* way.                                                                    *)
LEMMA SilentIsQuiet ==
  ASSUME SharedOK, SharedOK'
  PROVE  /\ FT!Silent <=> \A p \in Procs : Quiet(p)
         /\ FT!Silent' <=> \A p \in Procs : Quiet(p)'
<1>0. \A b \in BOOLEAN : FT!Flag(b) \in {0, 1} /\ (FT!Flag(b) = 0 <=> ~b)
  BY DEF FT!Flag
<1>1. ASSUME NEW p \in Procs
      PROVE  FT!Due(p) + wire[p] = 0 <=> Quiet(p)
  <2>1. PICK w \in Nat, a \in Nat, b \in Nat :
          w = wire[p] /\ a = sem[p].sending_plein /\ b = sem[p].receive_plein
    BY SharedOfEach DEF SharedOK, TypeOK, Semaphores
  <2>2. PICK f \in {0, 1} : FT!Flag(pc[p].client = "send") = f /\ (f = 0 <=> pc[p].client # "send")
    BY <1>0
  <2>3. PICK g \in {0, 1} : FT!Flag(pc[p].brain = "rewrite") = g /\ (g = 0 <=> pc[p].brain # "rewrite")
    BY <1>0
  <2>4. FT!Due(p) + wire[p] = sem[p].sending_plein + f + 2 * sem[p].receive_plein + g + wire[p]
    BY <2>2, <2>3 DEF FT!Due
  <2>5. a + f + 2 * b + g + w = 0 <=> (w = 0 /\ a = 0 /\ b = 0 /\ f = 0 /\ g = 0)
    BY NoSum
  <2> QED BY <2>1, <2>2, <2>3, <2>4, <2>5 DEF Quiet
<1>2. ASSUME NEW p \in Procs
      PROVE  (FT!Due(p) + wire[p])' = 0 <=> Quiet(p)'
  <2>1. PICK w \in Nat, a \in Nat, b \in Nat :
          w = wire'[p] /\ a = sem'[p].sending_plein /\ b = sem'[p].receive_plein
    BY DEF SharedOK, TypeOK, Semaphores
  <2>2. PICK f \in {0, 1} : FT!Flag(pc'[p].client = "send") = f /\ (f = 0 <=> pc'[p].client # "send")
    BY <1>0
  <2>3. PICK g \in {0, 1} : FT!Flag(pc'[p].brain = "rewrite") = g /\ (g = 0 <=> pc'[p].brain # "rewrite")
    BY <1>0
  <2>4. (FT!Due(p) + wire[p])' = sem'[p].sending_plein + f + 2 * sem'[p].receive_plein + g + wire'[p]
    BY <2>2, <2>3 DEF FT!Due
  <2>5. a + f + 2 * b + g + w = 0 <=> (w = 0 /\ a = 0 /\ b = 0 /\ f = 0 /\ g = 0)
    BY NoSum
  <2> QED BY <2>1, <2>2, <2>3, <2>4, <2>5 DEF Quiet
<1> QED BY <1>1, <1>2 DEF FT!Silent

(* A step of a thread between connected processes leaves every text where  *)
(* it is, or moves one: then there was one, and there is one.              *)
TextsMoved ==
  \/ \A r \in Procs : Quiet(r) <=> Quiet(r)'
  \/ (\E r \in Procs : ~Quiet(r)) /\ (\E r \in Procs : ~Quiet(r)')

(* A semaphore that was posted is not zero, the others are as they were.   *)
LEMMA PostedIsThere ==
  ASSUME TypeOK, NEW p \in Procs, NEW S \in SUBSET Semaphores, SemPost(p, S)
  PROVE  /\ \A x \in S : sem'[p][x] # 0
         /\ \A x \in Semaphores \ S : sem'[p][x] = sem[p][x]
         /\ \A r \in Procs \ {p} : sem'[r] = sem[r]
<1>1. \A x \in Semaphores : sem[p][x] \in 0 .. SemMax
  BY TypeOfEach DEF Counts
<1>2. \A v \in 0 .. SemMax : Post(v) # 0
  BY DEF Post
<1>3. sem \in [Procs -> Counts]
  BY DEF TypeOK, Counts
<1> QED BY <1>1, <1>2, <1>3 DEF SemPost

(* Whoever but the tracker takes a text leaves one behind it: on the       *)
(* stream, in the slot or announced.                                       *)
LEMMA TextsMoveOn ==
  ASSUME SharedOK, To \in [Procs -> Procs], NEW p \in Procs, FT!Relaying,
         \/ Connect(p) \/ ClientTake(p) \/ Send(p)
         \/ Bind(p) \/ Accept(p, "take") \/ ServerTake(p) \/ Receive(p)
         \/ Greet(p) \/ BrainTake(p) \/ BrainRewrite(p, "take", {})
         \/ FT!TrackerWrite(p)
  PROVE  TextsMoved
<1>t. TypeOK
  BY DEF SharedOK
<1>0. /\ sem \in [Procs -> Counts] /\ pc \in [Procs -> Calls] /\ wire \in [Procs -> 0 .. Stream]
      /\ \A q \in Procs : Up(q)
  BY DEF SharedOK, TypeOK, Counts, Calls, FT!Relaying, FT!Connected, FT!Up, Up
<1>1. CASE Connect(p) \/ Bind(p) \/ Accept(p, "take")
  BY <1>0, <1>1 DEF Connect, Bind, Accept, Goto, net, Quiet, TextsMoved, Calls
<1>2. CASE ClientTake(p)
  <2>1. sem[p].sending_plein # 0 /\ pc'[p].client = "send"
    <3>1. sem[p]["sending_plein"] > 0
      BY <1>2 DEF ClientTake, SemWait
    <3>2. pc'[p].client = "send"
      BY <1>0, <1>2 DEF ClientTake, Goto, Calls
    <3> QED BY <3>1, <3>2
  <2> QED BY <2>1 DEF Quiet, TextsMoved
<1>3. CASE Send(p)
  <2>1. To[p] \in Procs
    OBVIOUS
  <2>2. pc[p].client = "send" /\ wire' = [wire EXCEPT ![p] = wire[p] + 1]
    BY <1>0, <1>3, <2>1 DEF Send, Goto
  <2>3. wire'[p] # 0
    BY <1>0, <2>2
  <2> QED BY <2>2, <2>3 DEF Quiet, TextsMoved
<1>4. CASE ServerTake(p)
  <2>1. /\ \A x \in {"sending_plein", "receive_plein"} : sem'[p][x] = sem[p][x]
        /\ \A r \in Procs \ {p} : sem'[r] = sem[r]
    BY <1>0, <1>4 DEF ServerTake, SemWait, Semaphores, Counts
  <2>2. /\ \A x \in {"client", "brain"} : pc'[p][x] = pc[p][x]
        /\ \A r \in Procs \ {p} : pc'[r] = pc[r]
    BY <1>0, <1>4 DEF ServerTake, Goto, Calls
  <2> QED BY <1>4, <2>1, <2>2 DEF ServerTake, net, Quiet, TextsMoved
<1>5. CASE Receive(p)
  <2>1. PICK q \in Into(p) : wire[q] # 0
    <3>1. \A q \in Into(p) : Up(q) /\ wire[q] \in Nat
      BY <1>0 DEF Into
    <3> QED BY <1>5, <3>1 DEF Receive, Recv
  <2>2. sem'[p]["receive_plein"] # 0
    BY <1>5, <1>t, PostedIsThere DEF Receive, Semaphores
  <2> QED BY <2>1, <2>2 DEF Quiet, TextsMoved, Into
<1>6. CASE Greet(p)
  <2>1. p # Starter
    BY <1>6 DEF Greet, Goto, FT!Relaying, FT!Greeted, FT!Starter, Starter
  <2>2. /\ \A x \in Semaphores : sem'[p][x] = sem[p][x]
        /\ \A r \in Procs \ {p} : sem'[r] = sem[r]
    <3>1. SemPost(p, {})
      BY <1>6, <2>1 DEF Greet
    <3>2. {} \in SUBSET Semaphores
      OBVIOUS
    <3> QED BY <3>1, <3>2, <1>t, PostedIsThere
  <2>3. /\ pc'[p].client = pc[p].client /\ pc'[p].brain = "take" /\ pc[p].brain = "greet"
        /\ \A r \in Procs \ {p} : pc'[r] = pc[r]
    BY <1>0, <1>6 DEF Greet, Goto, Calls
  <2> QED BY <1>6, <2>2, <2>3 DEF Greet, net, Quiet, TextsMoved, Semaphores
<1>7. CASE BrainTake(p)
  BY <1>0, <1>7 DEF BrainTake, Goto, Quiet, TextsMoved, Calls, Semaphores
<1>8. CASE BrainRewrite(p, "take", {})
  <2>1. sem'[p]["sending_plein"] # 0
    BY <1>8, <1>t, PostedIsThere DEF BrainRewrite, Semaphores
  <2> QED BY <1>8, <2>1 DEF BrainRewrite, Goto, Quiet, TextsMoved
<1>9. CASE FT!TrackerWrite(p)
  <2>1. /\ Goto(p, "tracker", "write", "take") /\ SemPost(p, {"receive_mutex", "receive_vide"})
        /\ UNCHANGED net
    BY <1>9, SameTubes, SameTubeVars DEF FT!TrackerWrite
  <2>2. /\ \A x \in {"sending_plein", "receive_plein"} : sem'[p][x] = sem[p][x]
        /\ \A r \in Procs \ {p} : sem'[r] = sem[r]
    BY <2>1, <1>t, PostedIsThere DEF Semaphores
  <2>3. /\ \A x \in {"client", "brain"} : pc'[p][x] = pc[p][x]
        /\ \A r \in Procs \ {p} : pc'[r] = pc[r]
    BY <1>0, <2>1 DEF Goto, Calls
  <2> QED BY <2>1, <2>2, <2>3 DEF net, Quiet, TextsMoved
<1> QED BY <1>1, <1>2, <1>3, <1>4, <1>5, <1>6, <1>7, <1>8, <1>9

(* Steps of main, of signals and of the observer, as long as nobody ends.  *)
LEMMA NobodyMoves ==
  ASSUME SharedOK, To \in [Procs -> Procs], FT!Connected',
         \/ UNCHANGED <<sem, pc, net>>
         \/ \E x \in Procs \cup {Main} : Ends(x)
  PROVE  TextsMoved
<1>1. CASE UNCHANGED <<sem, pc, net>>
  BY <1>1 DEF net, TextsMoved, Quiet
<1>2. ASSUME NEW x \in Procs \cup {Main}, Ends(x)
      PROVE  TextsMoved
  <2>1. state'[x] = "ended"
    BY <1>2 DEF SharedOK, TypeOK, Ends
  <2>2. x = Main
    BY <2>1 DEF FT!Connected, FT!Up
  <2>3. \A r \in Procs : sem'[r] = sem[r] /\ pc'[r] = pc[r] /\ wire'[r] = wire[r]
    BY <1>2, <2>2 DEF Ends
  <2> QED BY <2>3 DEF TextsMoved, Quiet
<1> QED BY <1>1, <1>2

(* A step of fifotube.c that silences the relay is a tracker's, and a      *)
(* silent relay stays so.                                                  *)
LEMMA SilencedStep ==
  ASSUME SharedOK, SharedOK', To \in [Procs -> Procs], FT!Next
  PROVE  FT!SilencedByTracker
<1> SUFFICES ASSUME FT!Relaying
             PROVE  TextsMoved \/ \E p \in Procs : FT!TrackerTakesSlot(p)
  <2>1. ASSUME NEW p \in Procs, FT!TrackerTakesSlot(p)
        PROVE  ~Quiet(p)
    <3>1. sem[p]["receive_plein"] > 0
      BY <2>1, SameTubes DEF FT!TrackerTakesSlot, SemWait
    <3> QED BY <3>1 DEF Quiet
  <2>2. TextsMoved \/ (\E p \in Procs : FT!TrackerTakesSlot(p)) => FT!SilencedByTracker
    BY <2>1, SilentIsQuiet DEF TextsMoved, FT!SilencedByTracker, FT!OnlyTrackerSilences,
       FT!SilenceStays
  <2> QED BY <2>2 DEF FT!SilencedByTracker, FT!OnlyTrackerSilences, FT!SilenceStays
<1> DEFINE Aside == UNCHANGED <<sem, pc, net>> \/ \E x \in Procs \cup {Main} : Ends(x)
<1>1. Aside => TextsMoved
  BY NobodyMoves DEF FT!Relaying
<1>2. FT!main \/ FT!cleanup => Aside
  BY SameTubes, SameTubeVars
  DEF FT!main, FT!cleanup, FT!ForkObserver, ForkFails, Record, Fork, MainReturns, HandlerExits
<1>3. FT!observer_process \/ FT!ObserverKilled => Aside
  BY SameTubeVars DEF FT!observer_process, FT!ObserverKilled, relay
<1>4. FT!signal_handler => Aside
  BY SameTubes, SameTubeVars DEF FT!signal_handler, Interrupted, relay
<1>5. ASSUME NEW p \in Procs, FT!create_threads(p) \/ FT!Killed(p)
      PROVE  TextsMoved \/ FT!TrackerTakesSlot(p)
  <2>1. CASE FT!Client(p) \/ FT!Server(p) \/ FT!Brain(p) \/ FT!Killed(p)
    <3>1. CASE SendFails(p) \/ BindFails(p) \/ Killed(p)
      BY <1>1, <3>1 DEF SendFails, BindFails, Killed
    <3> QED BY <2>1, <3>1, SameTubes, TextsMoveOn DEF FT!Client, FT!Server, FT!Brain
  <2>2. CASE FT!Tracker(p)
    <3>1. FT!TrackerOpen(p) \/ FT!TrackerFails(p) => Aside
      BY SameTubes, SameTubeVars DEF FT!TrackerOpen, FT!TrackerFails, relay
    <3> QED BY <1>1, <2>2, <3>1, TextsMoveOn DEF FT!Tracker
  <2> QED BY <1>5, <2>1, <2>2 DEF FT!create_threads
<1> QED BY <1>1, <1>2, <1>3, <1>4, <1>5 DEF FT!Next

(* In fifotube.c, where the client of every process connects to one of the *)
(* processes: between connected processes the last text is lost to a       *)
(* tracker and to nobody else, and then nothing is ever relayed again.     *)
THEOREM SilencedCorrect ==
  ASSUME To \in [Procs -> Procs]
  PROVE  FT!Spec => [][FT!SilencedByTracker]_(FT!vars)
<1>1. SharedOK /\ SharedOK' /\ [FT!Next]_(FT!vars) => [FT!SilencedByTracker]_(FT!vars)
  BY SilencedStep
<1> QED BY <1>1, SharedCorrect, PTL DEF FT!Spec

-----------------------------------------------------------------------------
(* Where pipeProjet.c can stop. *)

(* Once greeted, there is a text somewhere as long as nobody ends.         *)
TextThere ==
  (\A p \in Procs : Lives(p)) /\ pc[Starter].brain # "greet" => \E p \in Procs : ~Quiet(p)

(* A step of pipeProjet.c ends somebody, or changes who is forked, or is   *)
(* one of a thread.                                                        *)
LEMMA KindsOfPipe ==
  ASSUME TypeOK, PP!Next
  PROVE  Ending \/ Living \/ \E p \in Procs : Moves(p) /\ UNCHANGED life
<1>1. Steps => Ending \/ Living
  BY KindsOfSteps
<1>2. ASSUME NEW p \in Procs, PP!create_threads(p) \/ PP!Killed(p)
      PROVE  Moves(p) \/ SendFails(p) \/ BindFails(p) \/ Killed(p)
  BY <1>2, SamePipes
  DEF PP!create_threads, PP!Client, PP!Server, PP!Brain, PP!Tracker, PP!TrackerWrite, Moves
<1>3. ASSUME NEW p \in Procs, SendFails(p) \/ BindFails(p) \/ Killed(p)
      PROVE  Ending
  BY <1>3 DEF SendFails, BindFails, Killed, Ending
<1> QED BY <1>1, <1>2, <1>3, MovesLive, SamePipeSteps DEF PP!Next

(* After an end or a fork there still is a text where one is claimed.      *)
LEMMA EndingTexts ==
  ASSUME TypeOK, To \in [Procs -> Procs], Ending \/ Living, TextThere
  PROVE  TextThere'
<1> SUFFICES ASSUME \A p \in Procs : Lives(p)', pc'[Starter].brain # "greet"
             PROVE  \E p \in Procs : ~Quiet(p)'
  BY DEF TextThere
<1>1. \A p \in Procs : pc'[p] = pc[p] /\ sem'[p] = sem[p] /\ wire'[p] = wire[p]
  <2>1. ASSUME NEW x \in Procs \cup {Main}, Ends(x)
        PROVE  \A p \in Procs : pc'[p] = pc[p] /\ sem'[p] = sem[p] /\ wire'[p] = wire[p]
    <3>1. state'[x] = "ended"
      BY <2>1 DEF Ends, TypeOK
    <3>2. x = Main /\ \A p \in Procs : To[p] # x /\ p # x
      BY <3>1 DEF Lives
    <3> QED BY <2>1, <3>2 DEF Ends
  <2> QED BY <2>1 DEF Ending, Living, net
<1>2. \A p \in Procs : Lives(p)
  BY EndedStay DEF Lives
<1>3. \E p \in Procs : ~Quiet(p)
  BY <1>1, <1>2, ProcsAssumption DEF TextThere, Starter
<1> QED BY <1>1, <1>3 DEF Quiet

(* A step leaves the texts where they are, or there is one after it.       *)
LEMMA MoveTexts ==
  ASSUME TypeOK, To \in [Procs -> Procs], NEW p \in Procs, Moves(p), UNCHANGED life,
         Linking, TextThere
  PROVE  TextThere'
<1>0. /\ sem \in [Procs -> Counts] /\ pc \in [Procs -> Calls] /\ wire \in [Procs -> 0 .. Stream]
      /\ \A q \in Procs : Lives(q)' <=> Lives(q)
  BY DEF TypeOK, Counts, Calls, life, Lives
<1> SUFFICES ASSUME \A q \in Procs : Lives(q), pc'[Starter].brain # "greet"
             PROVE  \E q \in Procs : ~Quiet(q)'
  BY <1>0 DEF TextThere
<1> DEFINE Same == /\ pc'[Starter].brain # "greet" => pc[Starter].brain # "greet"
                   /\ \A q \in Procs : Quiet(q)' <=> Quiet(q)
<1>s. Same => \E q \in Procs : ~Quiet(q)'
  BY DEF TextThere
<1>k. \A S \in SUBSET Semaphores :
        SemPost(p, S) =>
          /\ \A x \in S : sem'[p][x] # 0
          /\ \A x \in Semaphores \ S : sem'[p][x] = sem[p][x]
          /\ \A r \in Procs \ {p} : sem'[r] = sem[r]
  BY PostedIsThere
<1>1. CASE Connect(p) \/ Bind(p) \/ Accept(p, "take")
  <2>1. \A q \in Procs : pc'[q].brain = pc[q].brain /\ (pc'[q].client = "send" <=> pc[q].client = "send")
    <3>1. CASE Connect(p)
      BY <1>0, <3>1 DEF Connect, Goto, Calls
    <3>2. CASE Bind(p) \/ Accept(p, "take")
      <4>1. PICK from, to : Goto(p, "server", from, to)
        BY <3>2 DEF Bind, Accept
      <4> QED BY <1>0, <4>1 DEF Goto, Calls
    <3> QED BY <1>1, <3>1, <3>2
  <2>2. UNCHANGED <<sem, wire>>
    BY <1>1 DEF Connect, Bind, Accept, net
  <2>3. Same
    BY <2>1, <2>2, ProcsAssumption DEF Quiet, Starter
  <2> QED BY <1>s, <2>3
<1>2. CASE ClientTake(p)
  <2>1. pc'[p].client = "send"
    BY <1>0, <1>2 DEF ClientTake, Goto, Calls
  <2> QED BY <2>1 DEF Quiet
<1>3. CASE Send(p)
  <2>1. pc[p].client = "send"
    BY <1>3 DEF Send, Goto
  <2>2. Up(To[p])
    <3>1. link[p] # "none"
      BY <2>1 DEF Linking
    <3> QED BY <3>1 DEF Linking, Up, Lives
  <2>3. wire' = [wire EXCEPT ![p] = wire[p] + 1]
    BY <1>3, <2>2 DEF Send
  <2>4. wire'[p] # 0
    BY <1>0, <2>3
  <2> QED BY <2>4 DEF Quiet
<1>4. CASE ServerTake(p) \/ TrackerTake(p)
  <2>1. /\ \A x \in {"sending_plein", "receive_plein"} : sem'[p][x] = sem[p][x]
        /\ \A r \in Procs \ {p} : sem'[r] = sem[r]
    <3>1. PICK S \in SUBSET (Semaphores \ {"sending_plein", "receive_plein"}) : SemWait(p, S)
      BY <1>4 DEF ServerTake, TrackerTake, Semaphores
    <3> QED BY <1>0, <3>1 DEF SemWait, Semaphores, Counts
  <2>2. /\ \A x \in {"client", "brain"} : pc'[p][x] = pc[p][x]
        /\ \A r \in Procs \ {p} : pc'[r] = pc[r]
    <3>1. \E t \in {"server", "tracker"} : \E from, to : Goto(p, t, from, to)
      BY <1>4 DEF ServerTake, TrackerTake
    <3> QED BY <1>0, <3>1 DEF Goto, Calls
  <2>3. Same
    BY <1>4, <2>1, <2>2, ProcsAssumption DEF ServerTake, TrackerTake, net, Quiet, Starter
  <2> QED BY <1>s, <2>3
<1>5. CASE Receive(p)
  <2>1. sem'[p]["receive_plein"] # 0
    BY <1>5, <1>k DEF Receive, Semaphores
  <2> QED BY <2>1 DEF Quiet
<1>6. CASE Greet(p)
  <2>1. CASE p = Starter
    <3>1. sem'[p]["sending_plein"] # 0
      BY <1>6, <1>k, <2>1 DEF Greet, Semaphores
    <3> QED BY <3>1 DEF Quiet
  <2>2. CASE p # Starter
    <3>1. /\ \A x \in Semaphores : sem'[p][x] = sem[p][x]
          /\ \A r \in Procs \ {p} : sem'[r] = sem[r]
      BY <1>6, <1>k, <2>2 DEF Greet
    <3>2. /\ pc'[p].client = pc[p].client /\ pc'[p].brain = "take" /\ pc[p].brain = "greet"
          /\ \A r \in Procs \ {p} : pc'[r] = pc[r]
      BY <1>0, <1>6 DEF Greet, Goto, Calls
    <3>3. Same
      BY <1>6, <2>2, <3>1, <3>2, ProcsAssumption DEF Greet, net, Quiet, Semaphores, Starter
    <3> QED BY <1>s, <3>3
  <2> QED BY <2>1, <2>2
<1>7. CASE BrainTake(p)
  <2>1. pc'[p].brain = "rewrite"
    BY <1>0, <1>7 DEF BrainTake, Goto, Calls
  <2> QED BY <2>1 DEF Quiet
<1>8. CASE BrainRewrite(p, "take", {}) \/ BrainRewrite(p, "track", {"tracker_plein"})
  <2>1. PICK S \in SUBSET Semaphores : SemPost(p, S) /\ "sending_plein" \in S
    BY <1>8 DEF BrainRewrite, Semaphores
  <2>2. sem'[p]["sending_plein"] # 0
    BY <1>k, <2>1
  <2> QED BY <2>2 DEF Quiet
<1>9. CASE BrainTrack(p) \/ TrackerDone(p, {}) \/ TrackerDone(p, {"tracker_plein"})
  <2>1. /\ \A x \in {"sending_plein", "receive_plein"} : sem'[p][x] = sem[p][x]
        /\ \A r \in Procs \ {p} : sem'[r] = sem[r]
    <3>1. PICK S \in SUBSET (Semaphores \ {"sending_plein", "receive_plein"}) : SemPost(p, S)
      BY <1>9 DEF BrainTrack, TrackerDone, Semaphores
    <3> QED BY <1>k, <3>1 DEF Semaphores
  <2>2. /\ pc'[p].client = pc[p].client /\ \A r \in Procs \ {p} : pc'[r] = pc[r]
        /\ pc'[p].brain = "rewrite" <=> pc[p].brain = "rewrite"
        /\ pc[p].brain = "greet" => pc'[p].brain = "greet"
    BY <1>0, <1>9 DEF BrainTrack, TrackerDone, Goto, Calls
  <2>3. Same
    BY <1>9, <2>1, <2>2, ProcsAssumption DEF BrainTrack, TrackerDone, net, Quiet, Starter
  <2> QED BY <1>s, <2>3
<1> QED BY <1>1, <1>2, <1>3, <1>4, <1>5, <1>6, <1>7, <1>8, <1>9 DEF Moves

(* The definitions that StuckOnlyWhenFull is made of.                      *)
LEMMA SameBlocks ==
  /\ \A p \in Procs : PP!Up(p) <=> Up(p)
  /\ \A p \in Procs : PP!Into(p) = Into(p)
  /\ PP!Connected <=> Connected
  /\ PP!BothFull <=> BothFull
BY DEF PP!Up, Up, PP!Into, Into, PP!Connected, Connected, PP!BothFull, BothFull

(* Where a blocked process waits, when it is connected and the pipe has    *)
(* room: its threads wait in a row for its client, which waits for the     *)
(* stream to take a text; or all of them wait for its server, which waits  *)
(* for one to come.                                                        *)
Sending(p) == wire[p] = Stream
Waiting(p) ==
  /\ sem[p].receive_plein = 0 /\ pc[p].brain # "rewrite" /\ pc[p].brain # "greet"
  /\ \A q \in Into(p) : wire[q] = 0
  /\ Sending(p) \/ (pc[p].client = "take" /\ sem[p].sending_plein = 0)

(* A connected process that is blocked while the pipe has room has filled  *)
(* its stream, or waits for a text.                                        *)
LEMMA WhereBlocked ==
  ASSUME RelayOK, Linking, Connected, pipe # PipeMax, NEW p \in Procs, PP!Blocked(p),
         Into(p) # {}
  PROVE  Sending(p) \/ Waiting(p)
<1>1. /\ Slot(sem[p], pc[p]) /\ sem[p] \in Counts /\ pc[p] \in Calls
      /\ \A x \in Semaphores : sem[p][x] \in Nat
  <2>1. Slot(sem[p], pc[p]) /\ sem[p] \in Counts /\ pc[p] \in Calls
    BY SlotOfEach
  <2>2. \A x \in Semaphores : sem[p][x] \in 0 .. SemMax
    BY <2>1 DEF Counts
  <2> QED BY <2>1, <2>2
<1>2. PICK rv \in Nat, rp \in Nat, rm \in Nat, sm \in Nat, tm \in Nat :
        /\ sem[p].receive_vide = rv /\ sem[p].receive_plein = rp /\ sem[p].receive_mutex = rm
        /\ sem[p].sending_mutex = sm /\ sem[p].tracker_mutex = tm
  BY <1>1 DEF Semaphores
<1>3. /\ pc[p].server = "recv" => rv = 0 /\ rp = 0 /\ rm = 0
      /\ pc[p].server # "recv" => rv + rp = 1 /\ rm = 1
      /\ pc[p].client # "send" => sm = 1
      /\ pc[p].tracker # "write" => tm = 1
  <2>1. /\ rv + rp + Flag(pc[p].server = "recv") = 1 /\ rm + Flag(pc[p].server = "recv") = 1
        /\ sm + Flag(pc[p].client = "send") = 1 /\ tm + Flag(pc[p].tracker = "write") = 1
    BY <1>1, <1>2 DEF Slot
  <2>2. \A b \in BOOLEAN : Flag(b) \in {0, 1} /\ (Flag(b) = 1 <=> b)
    BY DEF Flag
  <2>3. PICK f \in {0, 1}, g \in {0, 1}, h \in {0, 1} :
          /\ Flag(pc[p].server = "recv") = f /\ (f = 1 <=> pc[p].server = "recv")
          /\ Flag(pc[p].client = "send") = g /\ (g = 1 <=> pc[p].client = "send")
          /\ Flag(pc[p].tracker = "write") = h /\ (h = 1 <=> pc[p].tracker = "write")
    BY <2>2
  <2>4. rv + rp + f = 1 /\ rm + f = 1 /\ sm + g = 1 /\ tm + h = 1
    BY <2>1, <2>3
  <2>5. /\ f = 1 => rv = 0 /\ rp = 0 /\ rm = 0
        /\ f = 0 => rv + rp = 1 /\ rm = 1
        /\ g = 0 => sm = 1
        /\ h = 0 => tm = 1
    BY <2>4
  <2> QED BY <2>3, <2>5
<1>4. Up(p) /\ Lives(p) /\ link[p] = "accepted" /\ \A q \in Into(p) : link[q] = "accepted"
  BY DEF Connected, Up, Lives, Into
<1>5. pc[p].client # "connect" /\ pc[p].server \in {"take", "recv"}
  BY <1>4 DEF Linking
<1>6. pc[p].tracker # "write"
  BY DEF PP!Blocked
<1>7. pc[p].brain \in {"take", "rewrite"} /\ (pc[p].brain = "rewrite" => pc[p].client = "send")
      /\ (pc[p].brain = "take" => rp = 0 \/ rm = 0)
  BY <1>2, <1>3, <1>6 DEF PP!Blocked
<1>8. pc[p].client = "send" => Sending(p)
  BY DEF PP!Blocked, Sending
<1>9. pc[p].client # "send" => pc[p].client = "take" /\ sem[p].sending_plein = 0
  BY <1>2, <1>3, <1>5 DEF PP!Blocked
<1>10. CASE pc[p].server = "take"
  <2>1. rp = 1 /\ rm = 1
    <3>1. rv = 0 \/ rm = 0
      BY <1>2, <1>10 DEF PP!Blocked
    <3> QED BY <1>3, <1>10, <3>1
  <2> QED BY <1>7, <1>8, <2>1
<1>11. CASE pc[p].server = "recv"
  <2>1. \A q \in Into(p) : wire[q] = 0
    BY <1>11, SameBlocks DEF PP!Blocked
  <2> QED BY <1>2, <1>3, <1>7, <1>8, <1>9, <1>11, <2>1 DEF Waiting
<1> QED BY <1>5, <1>10, <1>11

(* Two processes that wait for one another have both streams full: else    *)
(* one of them waits for a text, then the other has not sent one and waits *)
(* for one too, and there is none, although there always is one.           *)
LEMMA StuckIsFull ==
  ASSUME RelayOK, Linking, TextThere, Procs = {1, 2}, To = Others
  PROVE  PP!StuckOnlyWhenFull
<1> SUFFICES ASSUME Connected, \A p \in Procs : PP!Blocked(p), pipe # PipeMax
             PROVE  \A p \in Procs : wire[p] = Stream
  BY SameBlocks DEF PP!StuckOnlyWhenFull, BothFull
<1>1. To[1] = 2 /\ To[2] = 1 /\ Into(1) = {2} /\ Into(2) = {1}
  <2>1. To[1] = 2 /\ To[2] = 1
    BY DEF Others
  <2> QED BY <2>1 DEF Into
<1>2. \A p \in Procs : Sending(p) \/ Waiting(p)
  <2>1. \A p \in Procs : Into(p) # {}
    BY <1>1
  <2> QED BY <2>1, WhereBlocked
<1>3. \A p \in Procs : \A q \in Into(p) : Waiting(p) => wire[q] = 0
  BY DEF Waiting
<1>4. \A p \in Procs : wire[p] = Stream => wire[p] # 0
  BY StreamAssumption
<1>5. CASE Sending(1) /\ Sending(2)
  BY <1>5 DEF Sending
<1>6. CASE Waiting(1) \/ Waiting(2)
  <2>1. Waiting(1) /\ Waiting(2)
    BY <1>1, <1>2, <1>3, <1>4, <1>6 DEF Sending
  <2>2. wire[1] = 0 /\ wire[2] = 0
    BY <1>1, <1>3, <2>1
  <2>3. \A p \in Procs : Quiet(p)
    BY <1>4, <2>1, <2>2 DEF Waiting, Sending, Quiet
  <2>4. \A p \in Procs : Lives(p)
    BY DEF Connected, Up, Lives
  <2>5. pc[Starter].brain # "greet"
    BY <2>1 DEF Waiting, Starter
  <2> QED BY <2>3, <2>4, <2>5 DEF TextThere
<1> QED BY <1>2, <1>5, <1>6

(* The inductive invariant of pipeProjet.c.                                *)
PipesOK == RelayOK /\ PipeTypes /\ Linking /\ TextThere

(* Each of the two processes is the client of the other.                   *)
LEMMA Opposite == To \in [Procs -> Procs]
<1>1. Others = [p \in {1, 2} |-> IF p = 1 THEN 2 ELSE 1]
  BY DEF Others
<1> QED BY <1>1, TwoProcesses

(* It holds at the beginning,                                              *)
LEMMA PipesBegin == PP!Init => PipesOK
<1>1. Init => Linking /\ TextThere /\ PipeTypes
  BY DEF Init, RelayInit, Linking, TextThere, Pc0, Starter, Into, PipeTypes
<1> QED BY <1>1, SamePipeInit, InitOK DEF Init, PipesOK

(* after every step,                                                       *)
LEMMA PipesGoOn == PipesOK /\ [PP!Next]_(PP!vars) => PipesOK'
<1> SUFFICES ASSUME RelayOK, PipeTypes, Linking, TextThere, [PP!Next]_(PP!vars)
             PROVE  RelayOK' /\ PipeTypes' /\ Linking' /\ TextThere'
  BY DEF PipesOK
<1>1. TypeOK
  BY DEF RelayOK
<1>2. CASE PP!Next
  BY <1>1, <1>2, Opposite, KindsOfPipe, EndingLinks, EndingTexts, MoveLinks, MoveTexts,
     PipeRelayNext
<1>3. CASE UNCHANGED vars
  <2>1. Living
    BY <1>3, KindsOfRest DEF vars
  <2> QED BY <1>1, <2>1, Opposite, EndingLinks, EndingTexts, PipeRelayNext
<1> QED BY <1>2, <1>3, SamePipeSteps

(* and says who owns the slot, and when two connected processes stop.      *)
LEMMA PipesSay == PipesOK => PP!PipeOK /\ PP!ReceiveSlot /\ PP!StuckOnlyWhenFull
<1>1. PipesOK => PP!StuckOnlyWhenFull
  BY StuckIsFull, TwoProcesses DEF PipesOK
<1>2. PipesOK => PP!PipeOK /\ PP!ReceiveSlot
  BY DEF PipesOK, RelayOK, PipeTypes, PP!PipeOK, PP!TypeOK, TypeOK, PP!Semaphores, Semaphores,
     PP!ReceiveSlot, ReceiveSlot, PP!Flag, Flag
<1> QED BY <1>1, <1>2

(* pipeProjet.c, which forks two processes, each the client of the other:  *)
(* as long as they are connected, they stop only when both streams or the  *)
(* pipe are full.  No limit of the semaphores, no length of streams and    *)
(* pipe, and no order in which the threads take their turns, makes them    *)
(* wait for one another's mutexes or for an announcement that was lost.    *)
THEOREM StuckCorrect == PP!Spec => []PP!StuckOnlyWhenFull
BY PipesBegin, PipesGoOn, PipesSay, PTL DEF PP!Spec

(* What is received is owed twice and sent, and between living ends        *)
(* nothing is lost, until a semaphore is at its limit: with its trackers,  *)
(* its pipe and its observer pipeProjet.c is the flow of texts that the    *)
(* programs without them are.  Nothing that happens on the pipe, full or   *)
(* without a reader, makes a text of the relay disappear or come twice.    *)
THEOREM PipeFlowCorrect == PP!Spec => IsRelayFlow
<1>1. PP!Init => Flow!Init
  BY FlowInit, TwoProcesses, SamePipeInit DEF Pair, Init
<1>2. PipesOK /\ [PP!Next]_(PP!vars) => [Flow!Next \/ Saturated]_(Flow!vars)
  <2> SUFFICES ASSUME RelayOK, Linking, [PP!Next]_(PP!vars)
               PROVE  [Flow!Next \/ Saturated]_(Flow!vars)
    BY DEF PipesOK
  <2>1. TypeOK
    BY DEF RelayOK
  <2>2. Ending \/ Living \/ \E p \in Procs : Moves(p)
    BY <2>1, KindsOfPipe, KindsOfRest, SamePipeSteps DEF vars
  <2> QED BY <2>2, StepFlows, TwoProcesses DEF Pair
<1> QED BY <1>1, <1>2, PipesBegin, PipesGoOn, PTL DEF PP!Spec, IsRelayFlow

(* What Blocked says that the four threads of a process wait for does keep *)
(* each of them from every step it has.                                    *)
LEMMA BlockedThreads ==
  ASSUME NEW p \in Procs, PP!Blocked(p)
  PROVE  ~PP!create_threads(p)
<1>1. ~PP!Client(p)
  <2>1. \/ pc[p].client = "connect" /\ ~Listening(To[p])
        \/ pc[p].client = "take" /\ (sem[p].sending_plein = 0 \/ sem[p].sending_mutex = 0)
        \/ pc[p].client = "send" /\ Up(To[p]) /\ wire[p] = Stream /\ ~broken[p]
    BY DEF PP!Blocked, PP!Listening, Listening, PP!Up, Up
  <2> QED
    BY <2>1, SamePipes
    DEF PP!Client, Connect, ClientTake, Send, SendFails, Goto, SemWait
<1>2. ~PP!Server(p)
  <2>1. \/ pc[p].server = "accept" /\ \A q \in Into(p) : link[q] # "queued"
        \/ pc[p].server = "take" /\ (sem[p].receive_vide = 0 \/ sem[p].receive_mutex = 0)
        \/ pc[p].server = "recv" /\ \A q \in Into(p) : wire[q] = 0 /\ Up(q)
    BY DEF PP!Blocked, PP!Into, Into, PP!Up, Up
  <2> QED
    BY <2>1, SamePipes
    DEF PP!Server, Bind, BindFails, Accept, ServerTake, Receive, Recv, Goto, SemWait
<1>3. ~PP!Brain(p)
  <2>1. \/ pc[p].brain = "take" /\ (sem[p].receive_plein = 0 \/ sem[p].receive_mutex = 0)
        \/ pc[p].brain = "rewrite" /\ sem[p].sending_mutex = 0
        \/ pc[p].brain = "track" /\ sem[p].tracker_mutex = 0
    BY DEF PP!Blocked
  <2>2. ~Greet(p) /\ ~BrainTrack(p) /\ ~BrainRewrite(p, "track", {"tracker_plein"})
    BY <2>1 DEF Greet, BrainTrack, BrainRewrite, Goto
  <2>3. BrainTake(p) =>
          pc[p].brain = "take" /\ sem[p].receive_plein > 0 /\ sem[p].receive_mutex > 0
    BY Zenon DEF BrainTake, Goto
  <2>4. ~BrainTake(p)
    BY <2>1, <2>3
  <2> QED BY <2>2, <2>4, SamePipes DEF PP!Brain
<1>4. ~PP!Tracker(p)
  <2>1. \/ pc[p].tracker = "take" /\ (sem[p].tracker_plein = 0 \/ sem[p].tracker_mutex = 0)
        \/ pc[p].tracker = "write" /\ pipe = PipeMax
    BY DEF PP!Blocked
  <2>2. ~TrackerTake(p)
    BY <2>1 DEF TrackerTake, Goto, SemWait
  <2>3. ~PP!TrackerWrite(p)
    BY <2>1, SamePipes, PipeMaxAssumption DEF PP!TrackerWrite, TrackerDone, Goto
  <2> QED BY <2>2, <2>3, SamePipes DEF PP!Tracker
<1> QED BY <1>1, <1>2, <1>3, <1>4 DEF PP!create_threads

(* In pipeProjet.c a process of which Blocked holds stays where it is,     *)
(* until another process, an end or the observer moves: so the stop of     *)
(* StuckCorrect is one, and no thread is counted as waiting that could go. *)
THEOREM BlockedRests ==
  PP!Spec => [][\A p \in Procs : PP!Blocked(p) => ~PP!create_threads(p)]_(PP!vars)
<1>1. [PP!Next]_(PP!vars)
        => [\A p \in Procs : PP!Blocked(p) => ~PP!create_threads(p)]_(PP!vars)
  BY BlockedThreads
<1> QED BY <1>1, PTL DEF PP!Spec

-----------------------------------------------------------------------------
(* The three of them, one of which is run. *)

(* Each has its own invariant; the variables of fifotube.c rest where they *)
(* are not its own.                                                        *)
AllOK == /\ program \in {"pipeProjet", "PIPEETTHREADS", "fifotube"}
         /\ Pipe => PipesOK
         /\ Threaded => ChainOK
         /\ Tube => SharedOK /\ TubeTypes

(* Whichever program is run begins with its own invariant,                 *)
LEMMA AllBegin == Starts => AllOK
BY PipesBegin, ChainBegins, SharedInit DEF Starts, AllOK, Pipe, Threaded, Tube

(* A step of the program that is run is one of that program, and which is  *)
(* run does not change.                                                    *)
LEMMA RunOfOne ==
  ASSUME AllOK, [Run]_everything
  PROVE  /\ UNCHANGED program
         /\ Pipe => [PP!Next]_(PP!vars)
         /\ Threaded => [PT!Next]_(PT!vars)
         /\ Tube => [FT!Next]_(FT!vars)
<1>1. CASE Run
  BY <1>1 DEF Run, Pipe, Threaded, Tube
<1>2. CASE UNCHANGED everything
  <2>1. UNCHANGED <<vars, name, tube, struck, program>>
    BY <1>2 DEF everything, state_of_all, entry
  <2>2. UNCHANGED <<sem, pc, link, wire, broken, state, killed, pipe, observer>>
    BY <2>1 DEF vars, relay, own, net, life
  <2>3. UNCHANGED PP!vars /\ UNCHANGED PT!vars
    BY <2>2 DEF PP!vars, PP!relay, PP!own, PP!net, PP!life, PT!vars, PT!relay, PT!own, PT!net,
         PT!life
  <2>4. UNCHANGED FT!vars
    BY <2>1, <2>2 DEF FT!vars, FT!relay, FT!own, FT!net, FT!life
  <2> QED BY <2>1, <2>3, <2>4
<1> QED BY <1>1, <1>2

(* and keeps it.                                                           *)
LEMMA AllGoOn == AllOK /\ [Run]_everything => AllOK'
<1> SUFFICES ASSUME AllOK, [Run]_everything PROVE AllOK'
  OBVIOUS
<1>1. UNCHANGED program
  BY RunOfOne
<1>2. Pipe => PipesOK'
  BY RunOfOne, PipesGoOn DEF AllOK
<1>3. Threaded => ChainOK'
  BY RunOfOne, ChainGoesOn DEF AllOK
<1>4. Tube => SharedOK' /\ TubeTypes'
  BY RunOfOne, SharedNext DEF AllOK
<1> QED BY <1>1, <1>2, <1>3, <1>4 DEF AllOK, Pipe, Threaded, Tube

(* Whichever of the three is run: the slot between server and brain has    *)
(* one owner in every process; and in pipeProjet.c the two connected       *)
(* processes stop only when both streams or the pipe are full.  For any    *)
(* limit of the semaphores, any length of streams and pipe, any length of  *)
(* the chain.                                                              *)
THEOREM StuckTogether == Safe => []StuckOnlyWhenFull
<1>1. Tube /\ SharedOK /\ TubeTypes => FT!TubeOK /\ FT!TubeSlot
  BY TubeSays
<1>2. AllOK => StuckOnlyWhenFull
  BY <1>1, PipesSay, ChainSays DEF AllOK, StuckOnlyWhenFull, SlotOwned
<1> QED BY <1>2, AllBegin, AllGoOn, PTL DEF Safe

(* In PIPEETTHREADS.c no text is sent, received or logged unless a process *)
(* above has ended.                                                        *)
THEOREM NothingTogether == Safe => []NothingWithoutDeath
<1>1. AllOK => NothingWithoutDeath
  BY ChainSays DEF AllOK, NothingWithoutDeath
<1> QED BY <1>1, AllBegin, AllGoOn, PTL DEF Safe

(* And in fifotube.c the last text between connected processes is lost to  *)
(* a tracker, to nobody else, and for good.                                *)
THEOREM SilencedTogether == Safe => SilencedByTracker
<1>1. AllOK /\ AllOK' /\ [Run]_everything => [Tube => FT!SilencedByTracker]_everything
  <2> SUFFICES ASSUME AllOK, AllOK', Run, Tube PROVE FT!SilencedByTracker
    OBVIOUS
  <2>1. FT!Next /\ UNCHANGED program
    BY DEF Run, Pipe, Threaded, Tube
  <2>2. SharedOK /\ SharedOK'
    BY <2>1 DEF AllOK, Tube
  <2> QED BY <2>1, <2>2, Opposite, SilencedStep
<1> QED BY <1>1, AllBegin, AllGoOn, PTL DEF Safe, SilencedByTracker
===============================================================================
