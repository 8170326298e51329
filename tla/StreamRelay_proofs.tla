------------------------- MODULE StreamRelay_proofs --------------------------
(***************************************************************************)
(* Every step of StreamRelay, in whatever program it is taken, leaves the  *)
(* slot between server and brain and every mutex with the one owner that   *)
(* RelayOK names; for any number of processes, any limit of the            *)
(* semaphores and any length of the streams.                               *)
(*                                                                         *)
(* A step of a thread changes semaphores and calls of its own process, to  *)
(* s and c below: then Slot(s, c) is what remains to be shown (LocalStep). *)
(***************************************************************************)
EXTENDS StreamRelay, TLAPS

USE SemMaxAssumption, StreamAssumption, MainAssumption

Counts == [Semaphores -> 0 .. SemMax]
Calls == [client : {"connect", "take", "send"},
          server : {"bind", "accept", "take", "recv"},
          brain : {"greet", "take", "rewrite", "track"},
          tracker : {"take", "write"}]

(* ReceiveSlot, of a process whose semaphores are s and calls c            *)
Slot(s, c) ==
  /\ s["receive_vide"] + s["receive_plein"] + Flag(c.server = "recv") = 1
  /\ s["receive_mutex"] + Flag(c.server = "recv") = 1
  /\ s["sending_mutex"] + Flag(c.client = "send") = 1
  /\ s["tracker_mutex"] + Flag(c.tracker = "write") = 1

NetOK == /\ link \in [Procs -> {"none", "queued", "accepted"}]
         /\ wire \in [Procs -> 0 .. Stream] /\ broken \in [Procs -> BOOLEAN]
LifeOK ==
  /\ state \in [Procs \cup {Main} -> {"none", "runs", "forked", "handler", "unsure", "ended"}]
  /\ killed \subseteq Procs

(* What TypeOK says of one process.                                        *)
LEMMA TypeOfEach ==
  ASSUME TypeOK, NEW p \in Procs
  PROVE  sem[p] \in Counts /\ pc[p] \in Calls
BY DEF TypeOK, Counts, Calls

(* RelayOK speaks of one process at a time.                                *)
LEMMA SlotOfEach ==
  ASSUME RelayOK, NEW p \in Procs
  PROVE  Slot(sem[p], pc[p]) /\ sem[p] \in Counts /\ pc[p] \in Calls
BY DEF RelayOK, TypeOK, ReceiveSlot, Slot, Counts, Calls

(* The semaphores that are counted as owners are numbers.                  *)
LEMMA CountsAreNumbers ==
  ASSUME RelayOK, NEW p \in Procs
  PROVE  \A x \in {"receive_vide", "receive_plein", "receive_mutex", "sending_mutex",
                  "tracker_mutex"} : x \in Semaphores /\ sem[p][x] \in Nat
BY SlotOfEach DEF Counts, Semaphores

(* A step of process p: only its own slot has to be looked at.             *)
LEMMA LocalStep ==
  ASSUME RelayOK, NEW p \in Procs, NEW s \in Counts, NEW c \in Calls, Slot(s, c),
         sem' = [sem EXCEPT ![p] = s], pc' = [pc EXCEPT ![p] = c], NetOK', LifeOK'
  PROVE  RelayOK'
<1>1. TypeOK'
  BY DEF RelayOK, TypeOK, NetOK, LifeOK, Counts, Calls
<1>2. ASSUME NEW q \in Procs PROVE Slot(sem'[q], pc'[q])
  <2>1. CASE q = p
    BY <2>1 DEF RelayOK, TypeOK
  <2>2. CASE q # p
    BY <2>2, SlotOfEach DEF RelayOK, TypeOK
  <2> QED BY <2>1, <2>2
<1>3. ReceiveSlot'
  BY <1>2 DEF ReceiveSlot, Slot
<1> QED BY <1>1, <1>3 DEF RelayOK

(* A step of main changes no semaphore and no call.                        *)
LEMMA StepOfMain ==
  ASSUME RelayOK, UNCHANGED <<sem, pc, net>>, LifeOK'
  PROVE  RelayOK'
BY DEF RelayOK, TypeOK, ReceiveSlot, LifeOK, net

-----------------------------------------------------------------------------
(* What the operators that the steps are made of do to s and c. *)

(* sem_post never makes a count that is no count.                          *)
LEMMA PostCounts ==
  ASSUME NEW v \in 0 .. SemMax
  PROVE  Post(v) \in 0 .. SemMax /\ (v = 0 => Post(v) = 1)
BY DEF Post

(* Semaphores that are waited for were not at 0, and go down by one.       *)
LEMMA WaitTakes ==
  ASSUME TypeOK, NEW p \in Procs, NEW S \in SUBSET Semaphores, SemWait(p, S)
  PROVE  \E s \in Counts :
           /\ sem' = [sem EXCEPT ![p] = s]
           /\ \A x \in S : sem[p][x] > 0 /\ s[x] = sem[p][x] - 1
           /\ \A x \in Semaphores \ S : s[x] = sem[p][x]
<1> DEFINE s == [x \in Semaphores |-> IF x \in S THEN sem[p][x] - 1 ELSE sem[p][x]]
<1>1. s \in Counts
  BY TypeOfEach DEF Counts, SemWait
<1> QED BY <1>1 DEF SemWait

(* Semaphores that are posted go up by one, unless at their limit.         *)
LEMMA PostGives ==
  ASSUME TypeOK, NEW p \in Procs, NEW S \in SUBSET Semaphores, SemPost(p, S)
  PROVE  \E s \in Counts :
           /\ sem' = [sem EXCEPT ![p] = s]
           /\ \A x \in S : sem[p][x] = 0 => s[x] = 1
           /\ \A x \in Semaphores \ S : s[x] = sem[p][x]
<1> DEFINE s == [x \in Semaphores |-> IF x \in S THEN Post(sem[p][x]) ELSE sem[p][x]]
<1>1. \A x \in Semaphores : sem[p][x] \in 0 .. SemMax
  BY TypeOfEach DEF Counts
<1>2. s \in Counts
  BY <1>1, PostCounts DEF Counts
<1>3. \A x \in S : sem[p][x] = 0 => s[x] = 1
  BY <1>1, PostCounts
<1> HIDE DEF s
<1>4. sem' = [sem EXCEPT ![p] = s] /\ \A x \in Semaphores \ S : s[x] = sem[p][x]
  BY DEF SemPost, s
<1> QED BY <1>2, <1>3, <1>4

(* A call of the client changes no other thread's place.                   *)
LEMMA ClientGoes ==
  ASSUME TypeOK, NEW p \in Procs, NEW from, NEW to \in {"connect", "take", "send"},
         Goto(p, "client", from, to)
  PROVE  \E c \in Calls :
           /\ pc' = [pc EXCEPT ![p] = c] /\ pc[p].client = from /\ c.client = to
           /\ c.server = pc[p].server /\ c.brain = pc[p].brain /\ c.tracker = pc[p].tracker
<1> DEFINE c == [pc[p] EXCEPT !.client = to]
<1>1. c \in Calls
  BY TypeOfEach DEF Calls
<1> QED BY <1>1, TypeOfEach DEF Goto, Calls

(* Nor does one of the server,                                             *)
LEMMA ServerGoes ==
  ASSUME TypeOK, NEW p \in Procs, NEW from, NEW to \in {"bind", "accept", "take", "recv"},
         Goto(p, "server", from, to)
  PROVE  \E c \in Calls :
           /\ pc' = [pc EXCEPT ![p] = c] /\ pc[p].server = from /\ c.server = to
           /\ c.client = pc[p].client /\ c.brain = pc[p].brain /\ c.tracker = pc[p].tracker
<1> DEFINE c == [pc[p] EXCEPT !.server = to]
<1>1. c \in Calls
  BY TypeOfEach DEF Calls
<1> QED BY <1>1, TypeOfEach DEF Goto, Calls

(* one of the brain,                                                       *)
LEMMA BrainGoes ==
  ASSUME TypeOK, NEW p \in Procs, NEW from, NEW to \in {"greet", "take", "rewrite", "track"},
         Goto(p, "brain", from, to)
  PROVE  \E c \in Calls :
           /\ pc' = [pc EXCEPT ![p] = c] /\ pc[p].brain = from /\ c.brain = to
           /\ c.client = pc[p].client /\ c.server = pc[p].server /\ c.tracker = pc[p].tracker
<1> DEFINE c == [pc[p] EXCEPT !.brain = to]
<1>1. c \in Calls
  BY TypeOfEach DEF Calls
<1> QED BY <1>1, TypeOfEach DEF Goto, Calls

(* or one of the tracker.                                                  *)
LEMMA TrackerGoes ==
  ASSUME TypeOK, NEW p \in Procs, NEW from, NEW to \in {"take", "write"},
         Goto(p, "tracker", from, to)
  PROVE  \E c \in Calls :
           /\ pc' = [pc EXCEPT ![p] = c] /\ pc[p].tracker = from /\ c.tracker = to
           /\ c.client = pc[p].client /\ c.server = pc[p].server /\ c.brain = pc[p].brain
<1> DEFINE c == [pc[p] EXCEPT !.tracker = to]
<1>1. c \in Calls
  BY TypeOfEach DEF Calls
<1> QED BY <1>1, TypeOfEach DEF Goto, Calls

-----------------------------------------------------------------------------
(* The steps of the client. *)

(* connect touches no semaphore.                                           *)
LEMMA ConnectOK == ASSUME RelayOK, NEW p \in Procs, Connect(p) PROVE RelayOK'
<1>1. PICK c \in Calls : /\ pc' = [pc EXCEPT ![p] = c] /\ pc[p].client = "connect"
                         /\ c.client = "take" /\ c.server = pc[p].server
                         /\ c.tracker = pc[p].tracker
  BY ClientGoes DEF RelayOK, Connect
<1>2. Slot(sem[p], c)
  BY SlotOfEach, <1>1 DEF Slot, Flag
<1>3. sem' = [sem EXCEPT ![p] = sem[p]] /\ NetOK' /\ LifeOK'
  BY DEF Connect, life, RelayOK, TypeOK, NetOK, LifeOK
<1> QED BY <1>1, <1>2, <1>3, SlotOfEach, LocalStep

(* The client takes sending_mutex into its send.                           *)
LEMMA ClientTakeOK == ASSUME RelayOK, NEW p \in Procs, ClientTake(p) PROVE RelayOK'
<1>1. PICK c \in Calls : /\ pc' = [pc EXCEPT ![p] = c] /\ pc[p].client = "take"
                         /\ c.client = "send" /\ c.server = pc[p].server
                         /\ c.tracker = pc[p].tracker
  BY ClientGoes DEF RelayOK, ClientTake
<1>2. PICK s \in Counts :
        /\ sem' = [sem EXCEPT ![p] = s]
        /\ \A x \in {"sending_plein", "sending_mutex"} : sem[p][x] > 0 /\ s[x] = sem[p][x] - 1
        /\ \A x \in Semaphores \ {"sending_plein", "sending_mutex"} : s[x] = sem[p][x]
  BY WaitTakes DEF RelayOK, ClientTake, Semaphores
<1>3. Slot(s, c)
  <2>1. sem[p]["sending_mutex"] = 1
    BY SlotOfEach, CountsAreNumbers, <1>1 DEF Slot, Flag
  <2>2. /\ s["sending_mutex"] = 0 /\ s["tracker_mutex"] = sem[p]["tracker_mutex"]
        /\ s["receive_vide"] = sem[p]["receive_vide"]
        /\ s["receive_plein"] = sem[p]["receive_plein"]
        /\ s["receive_mutex"] = sem[p]["receive_mutex"]
    BY <1>2, <2>1, CountsAreNumbers
  <2> QED BY <2>2, <1>1, SlotOfEach DEF Slot, Flag
<1>4. NetOK' /\ LifeOK'
  BY DEF ClientTake, net, life, RelayOK, TypeOK, NetOK, LifeOK
<1> QED BY <1>1, <1>2, <1>3, <1>4, LocalStep

(* send gives it back; the stream takes no more than it holds.             *)
LEMMA SendOK == ASSUME RelayOK, NEW p \in Procs, Send(p) PROVE RelayOK'
<1>1. PICK c \in Calls : /\ pc' = [pc EXCEPT ![p] = c] /\ pc[p].client = "send"
                         /\ c.client = "take" /\ c.server = pc[p].server
                         /\ c.tracker = pc[p].tracker
  BY ClientGoes DEF RelayOK, Send
<1>2. PICK s \in Counts :
        /\ sem' = [sem EXCEPT ![p] = s]
        /\ \A x \in {"sending_mutex"} : sem[p][x] = 0 => s[x] = 1
        /\ \A x \in Semaphores \ {"sending_mutex"} : s[x] = sem[p][x]
  BY PostGives DEF RelayOK, Send, Semaphores
<1>3. Slot(s, c)
  <2>1. sem[p]["sending_mutex"] = 0
    BY SlotOfEach, CountsAreNumbers, <1>1 DEF Slot, Flag
  <2>2. /\ s["sending_mutex"] = 1 /\ s["tracker_mutex"] = sem[p]["tracker_mutex"]
        /\ s["receive_vide"] = sem[p]["receive_vide"]
        /\ s["receive_plein"] = sem[p]["receive_plein"]
        /\ s["receive_mutex"] = sem[p]["receive_mutex"]
    BY <1>2, <2>1, CountsAreNumbers
  <2> QED BY <2>2, <1>1, SlotOfEach DEF Slot, Flag
<1>4. NetOK' /\ LifeOK'
  <2>1. wire \in [Procs -> 0 .. Stream] /\ broken \in [Procs -> BOOLEAN]
    BY DEF RelayOK, TypeOK
  <2>2. wire[p] < Stream => wire[p] + 1 \in 0 .. Stream
    BY <2>1
  <2>3. wire' \in [Procs -> 0 .. Stream] /\ broken' \in [Procs -> BOOLEAN]
    BY <2>1, <2>2 DEF Send
  <2> QED BY <2>3 DEF Send, life, RelayOK, TypeOK, NetOK, LifeOK
<1> QED BY <1>1, <1>2, <1>3, <1>4, LocalStep

-----------------------------------------------------------------------------
(* The steps of the server. *)

(* bind and listen touch no semaphore.                                     *)
LEMMA BindOK == ASSUME RelayOK, NEW p \in Procs, Bind(p) PROVE RelayOK'
<1>1. PICK c \in Calls : /\ pc' = [pc EXCEPT ![p] = c] /\ pc[p].server = "bind"
                         /\ c.server = "accept" /\ c.client = pc[p].client
                         /\ c.tracker = pc[p].tracker
  BY ServerGoes DEF RelayOK, Bind
<1>2. Slot(sem[p], c)
  BY SlotOfEach, <1>1 DEF Slot, Flag
<1>3. sem' = [sem EXCEPT ![p] = sem[p]] /\ NetOK' /\ LifeOK'
  BY DEF Bind, net, life, RelayOK, TypeOK, NetOK, LifeOK
<1> QED BY <1>1, <1>2, <1>3, SlotOfEach, LocalStep

(* Nor does accept.                                                        *)
LEMMA AcceptOK == ASSUME RelayOK, NEW p \in Procs, Accept(p, "take") PROVE RelayOK'
<1>1. PICK c \in Calls : /\ pc' = [pc EXCEPT ![p] = c] /\ pc[p].server = "accept"
                         /\ c.server = "take" /\ c.client = pc[p].client
                         /\ c.tracker = pc[p].tracker
  BY ServerGoes DEF RelayOK, Accept
<1>2. Slot(sem[p], c)
  BY SlotOfEach, <1>1 DEF Slot, Flag
<1>3. sem' = [sem EXCEPT ![p] = sem[p]] /\ NetOK' /\ LifeOK'
  BY DEF Accept, Into, life, RelayOK, TypeOK, NetOK, LifeOK
<1> QED BY <1>1, <1>2, <1>3, SlotOfEach, LocalStep

(* The server takes the free slot and its mutex into recv.                 *)
LEMMA ServerTakeOK == ASSUME RelayOK, NEW p \in Procs, ServerTake(p) PROVE RelayOK'
<1>1. PICK c \in Calls : /\ pc' = [pc EXCEPT ![p] = c] /\ pc[p].server = "take"
                         /\ c.server = "recv" /\ c.client = pc[p].client
                         /\ c.tracker = pc[p].tracker
  BY ServerGoes DEF RelayOK, ServerTake
<1>2. PICK s \in Counts :
        /\ sem' = [sem EXCEPT ![p] = s]
        /\ \A x \in {"receive_vide", "receive_mutex"} : sem[p][x] > 0 /\ s[x] = sem[p][x] - 1
        /\ \A x \in Semaphores \ {"receive_vide", "receive_mutex"} : s[x] = sem[p][x]
  BY WaitTakes DEF RelayOK, ServerTake, Semaphores
<1>3. Slot(s, c)
  <2>1. /\ \A x \in {"receive_vide", "receive_mutex"} : s[x] = sem[p][x] - 1 /\ sem[p][x] > 0
        /\ \A x \in {"receive_plein", "sending_mutex", "tracker_mutex"} : s[x] = sem[p][x]
    BY <1>2, CountsAreNumbers
  <2> QED BY <2>1, <1>1, SlotOfEach, CountsAreNumbers DEF Slot, Flag
<1>4. NetOK' /\ LifeOK'
  BY DEF ServerTake, net, life, RelayOK, TypeOK, NetOK, LifeOK
<1> QED BY <1>1, <1>2, <1>3, <1>4, LocalStep

(* A reception takes the slot from the server to the brain.                *)
LEMMA ReceiveOK == ASSUME RelayOK, NEW p \in Procs, Receive(p) PROVE RelayOK'
<1>1. PICK c \in Calls : /\ pc' = [pc EXCEPT ![p] = c] /\ pc[p].server = "recv"
                         /\ c.server = "take" /\ c.client = pc[p].client
                         /\ c.tracker = pc[p].tracker
  BY ServerGoes DEF RelayOK, Receive
<1>2. PICK s \in Counts :
        /\ sem' = [sem EXCEPT ![p] = s]
        /\ \A x \in {"receive_mutex", "receive_plein"} : sem[p][x] = 0 => s[x] = 1
        /\ \A x \in Semaphores \ {"receive_mutex", "receive_plein"} : s[x] = sem[p][x]
  BY PostGives DEF RelayOK, Receive, Semaphores
<1>3. Slot(s, c)
  <2>1. /\ sem[p]["receive_mutex"] = 0 /\ sem[p]["receive_plein"] = 0
        /\ sem[p]["receive_vide"] = 0
    BY SlotOfEach, CountsAreNumbers, <1>1 DEF Slot, Flag
  <2>2. /\ s["receive_mutex"] = 1 /\ s["receive_plein"] = 1 /\ s["receive_vide"] = 0
        /\ s["sending_mutex"] = sem[p]["sending_mutex"]
        /\ s["tracker_mutex"] = sem[p]["tracker_mutex"]
    BY <1>2, <2>1, CountsAreNumbers
  <2> QED BY <2>2, <1>1, SlotOfEach DEF Slot, Flag
<1>4. NetOK' /\ LifeOK'
  <2>1. wire \in [Procs -> 0 .. Stream]
    BY DEF RelayOK, TypeOK
  <2>2. \A q \in Procs : \A k \in 1 .. wire[q] : wire[q] - k \in 0 .. Stream
    BY <2>1
  <2>3. wire' \in [Procs -> 0 .. Stream]
    BY <2>1, <2>2 DEF Receive, Recv, Into
  <2> QED BY <2>3 DEF Receive, life, RelayOK, TypeOK, NetOK, LifeOK
<1> QED BY <1>1, <1>2, <1>3, <1>4, LocalStep

-----------------------------------------------------------------------------
(* The steps of brain and tracker. *)

(* The brain of process 1 announces the greeting, that of another nothing. *)
LEMMA GreetOK == ASSUME RelayOK, NEW p \in Procs, Greet(p) PROVE RelayOK'
<1>1. PICK c \in Calls : /\ pc' = [pc EXCEPT ![p] = c] /\ c.client = pc[p].client
                         /\ c.server = pc[p].server /\ c.tracker = pc[p].tracker
  BY BrainGoes DEF RelayOK, Greet
<1>2. PICK s \in Counts : /\ sem' = [sem EXCEPT ![p] = s]
                          /\ \A x \in Semaphores \ {"sending_plein"} : s[x] = sem[p][x]
  BY PostGives DEF RelayOK, Greet, Semaphores
<1>3. Slot(s, c)
  <2>1. \A x \in {"receive_vide", "receive_plein", "receive_mutex", "sending_mutex", "tracker_mutex"} :
          s[x] = sem[p][x]
    BY <1>2, CountsAreNumbers
  <2> QED BY <2>1, <1>1, SlotOfEach, CountsAreNumbers DEF Slot, Flag
<1>4. NetOK' /\ LifeOK'
  BY DEF Greet, net, life, RelayOK, TypeOK, NetOK, LifeOK
<1> QED BY <1>1, <1>2, <1>3, <1>4, LocalStep

(* The brain gives the slot back to the server.                            *)
LEMMA BrainTakeOK == ASSUME RelayOK, NEW p \in Procs, BrainTake(p) PROVE RelayOK'
<1> DEFINE s == [sem[p] EXCEPT !["receive_plein"] = @ - 1, !["receive_vide"] = Post(@),
                               !["sending_plein"] = Post(@)]
<1>1. PICK c \in Calls : /\ pc' = [pc EXCEPT ![p] = c] /\ c.client = pc[p].client
                         /\ c.server = pc[p].server /\ c.tracker = pc[p].tracker
  BY BrainGoes DEF RelayOK, BrainTake
<1>2. \A x \in Semaphores : sem[p][x] \in 0 .. SemMax
  BY SlotOfEach DEF Counts
<1>3. sem' = [sem EXCEPT ![p] = s] /\ sem[p]["receive_plein"] > 0
  BY DEF BrainTake
<1>4. s \in Counts
  BY <1>2, <1>3, PostCounts, SlotOfEach DEF Counts, Semaphores
<1>5. /\ s["receive_plein"] = sem[p]["receive_plein"] - 1
      /\ s["receive_vide"] = Post(sem[p]["receive_vide"])
      /\ \A x \in {"receive_mutex", "sending_mutex", "tracker_mutex"} : s[x] = sem[p][x]
  BY SlotOfEach DEF Counts, Semaphores
<1>6. sem[p]["receive_vide"] = 0 => Post(sem[p]["receive_vide"]) = 1
  BY <1>2, PostCounts DEF Semaphores
<1>7. Slot(s, c)
  <2> HIDE DEF s
  <2>1. /\ s["receive_mutex"] = sem[p]["receive_mutex"]
        /\ s["sending_mutex"] = sem[p]["sending_mutex"]
        /\ s["tracker_mutex"] = sem[p]["tracker_mutex"]
    BY <1>5
  <2>2. sem[p]["receive_vide"] + sem[p]["receive_plein"] + Flag(pc[p].server = "recv") = 1
    BY SlotOfEach DEF Slot
  <2>3. s["receive_vide"] + s["receive_plein"] + Flag(c.server = "recv") = 1
    BY <2>2, <1>1, <1>3, <1>5, <1>6, CountsAreNumbers DEF Flag
  <2> QED BY SlotOfEach, <2>1, <2>3, <1>1 DEF Slot
<1>8. NetOK' /\ LifeOK'
  BY DEF BrainTake, net, life, RelayOK, TypeOK, NetOK, LifeOK
<1> QED BY <1>1, <1>3, <1>4, <1>7, <1>8, LocalStep

(* The brain announces the text again, to the client and, where there is   *)
(* one, to the tracker.                                                    *)
LEMMA BrainRewriteOK ==
  ASSUME RelayOK, NEW p \in Procs, NEW next \in {"take", "track"},
         NEW also \in SUBSET {"tracker_plein"}, BrainRewrite(p, next, also)
  PROVE  RelayOK'
<1>1. PICK c \in Calls : /\ pc' = [pc EXCEPT ![p] = c] /\ c.client = pc[p].client
                         /\ c.server = pc[p].server /\ c.tracker = pc[p].tracker
  BY BrainGoes DEF RelayOK, BrainRewrite
<1>2. PICK s \in Counts : /\ sem' = [sem EXCEPT ![p] = s]
                          /\ \A x \in Semaphores \ ({"sending_plein"} \cup also) : s[x] = sem[p][x]
  BY PostGives DEF RelayOK, BrainRewrite, Semaphores
<1>3. Slot(s, c)
  <2>1. \A x \in {"receive_vide", "receive_plein", "receive_mutex", "sending_mutex", "tracker_mutex"} :
          s[x] = sem[p][x]
    BY <1>2, CountsAreNumbers
  <2> QED BY <2>1, <1>1, SlotOfEach, CountsAreNumbers DEF Slot, Flag
<1>4. NetOK' /\ LifeOK'
  BY DEF BrainRewrite, net, life, RelayOK, TypeOK, NetOK, LifeOK
<1> QED BY <1>1, <1>2, <1>3, <1>4, LocalStep

(* And once more to the tracker.                                           *)
LEMMA BrainTrackOK == ASSUME RelayOK, NEW p \in Procs, BrainTrack(p) PROVE RelayOK'
<1>1. PICK c \in Calls : /\ pc' = [pc EXCEPT ![p] = c] /\ c.client = pc[p].client
                         /\ c.server = pc[p].server /\ c.tracker = pc[p].tracker
  BY BrainGoes DEF RelayOK, BrainTrack
<1>2. PICK s \in Counts : /\ sem' = [sem EXCEPT ![p] = s]
                          /\ \A x \in Semaphores \ {"tracker_plein"} : s[x] = sem[p][x]
  BY PostGives DEF RelayOK, BrainTrack, Semaphores
<1>3. Slot(s, c)
  <2>1. \A x \in {"receive_vide", "receive_plein", "receive_mutex", "sending_mutex", "tracker_mutex"} :
          s[x] = sem[p][x]
    BY <1>2, CountsAreNumbers
  <2> QED BY <2>1, <1>1, SlotOfEach, CountsAreNumbers DEF Slot, Flag
<1>4. NetOK' /\ LifeOK'
  BY DEF BrainTrack, net, life, RelayOK, TypeOK, NetOK, LifeOK
<1> QED BY <1>1, <1>2, <1>3, <1>4, LocalStep

(* The tracker takes tracker_mutex into its write.                         *)
LEMMA TrackerTakeOK == ASSUME RelayOK, NEW p \in Procs, TrackerTake(p) PROVE RelayOK'
<1>1. PICK c \in Calls : /\ pc' = [pc EXCEPT ![p] = c] /\ pc[p].tracker = "take"
                         /\ c.tracker = "write" /\ c.client = pc[p].client
                         /\ c.server = pc[p].server
  BY TrackerGoes DEF RelayOK, TrackerTake
<1>2. PICK s \in Counts :
        /\ sem' = [sem EXCEPT ![p] = s]
        /\ \A x \in {"tracker_plein", "tracker_mutex"} : sem[p][x] > 0 /\ s[x] = sem[p][x] - 1
        /\ \A x \in Semaphores \ {"tracker_plein", "tracker_mutex"} : s[x] = sem[p][x]
  BY WaitTakes DEF RelayOK, TrackerTake, Semaphores
<1>3. Slot(s, c)
  <2>1. sem[p]["tracker_mutex"] = 1
    BY SlotOfEach, CountsAreNumbers, <1>1 DEF Slot, Flag
  <2>2. /\ s["tracker_mutex"] = 0 /\ s["sending_mutex"] = sem[p]["sending_mutex"]
        /\ s["receive_vide"] = sem[p]["receive_vide"]
        /\ s["receive_plein"] = sem[p]["receive_plein"]
        /\ s["receive_mutex"] = sem[p]["receive_mutex"]
    BY <1>2, <2>1, CountsAreNumbers
  <2> QED BY <2>2, <1>1, SlotOfEach DEF Slot, Flag
<1>4. NetOK' /\ LifeOK'
  BY DEF TrackerTake, net, life, RelayOK, TypeOK, NetOK, LifeOK
<1> QED BY <1>1, <1>2, <1>3, <1>4, LocalStep

(* It gives tracker_mutex back; that of brique.c posts tracker_plein too.  *)
LEMMA TrackerDoneOK ==
  ASSUME RelayOK, NEW p \in Procs, NEW also \in SUBSET {"tracker_plein"}, TrackerDone(p, also)
  PROVE  RelayOK'
<1>1. PICK c \in Calls : /\ pc' = [pc EXCEPT ![p] = c] /\ pc[p].tracker = "write"
                         /\ c.tracker = "take" /\ c.client = pc[p].client
                         /\ c.server = pc[p].server
  BY TrackerGoes DEF RelayOK, TrackerDone
<1>2. PICK s \in Counts :
        /\ sem' = [sem EXCEPT ![p] = s]
        /\ \A x \in {"tracker_mutex"} \cup also : sem[p][x] = 0 => s[x] = 1
        /\ \A x \in Semaphores \ ({"tracker_mutex"} \cup also) : s[x] = sem[p][x]
  BY PostGives DEF RelayOK, TrackerDone, Semaphores
<1>3. Slot(s, c)
  <2>1. sem[p]["tracker_mutex"] = 0
    BY SlotOfEach, CountsAreNumbers, <1>1 DEF Slot, Flag
  <2>2. /\ s["tracker_mutex"] = 1 /\ s["sending_mutex"] = sem[p]["sending_mutex"]
        /\ s["receive_vide"] = sem[p]["receive_vide"]
        /\ s["receive_plein"] = sem[p]["receive_plein"]
        /\ s["receive_mutex"] = sem[p]["receive_mutex"]
    BY <1>2, <2>1, CountsAreNumbers
  <2> QED BY <2>2, <1>1, SlotOfEach DEF Slot, Flag
<1>4. NetOK' /\ LifeOK'
  BY DEF TrackerDone, net, life, RelayOK, TypeOK, NetOK, LifeOK
<1> QED BY <1>1, <1>2, <1>3, <1>4, LocalStep

-----------------------------------------------------------------------------
(* Beginning, end, and the steps of main. *)

(* Every slot is free and no mutex is held at the beginning.               *)
LEMMA InitOK == RelayInit => RelayOK
  BY DEF RelayInit, RelayOK, TypeOK, ReceiveSlot, Sem0, Pc0, Semaphores, Flag

(* Who ends leaves a process as it was at its beginning.                   *)
LEMMA EndsOK ==
  ASSUME RelayOK, NEW x \in Procs \cup {Main}, Ends(x), killed' \subseteq Procs
  PROVE  RelayOK'
<1>1. Sem0 \in Counts /\ Pc0 \in Calls /\ Slot(Sem0, Pc0)
  BY DEF Sem0, Pc0, Counts, Calls, Slot, Semaphores, Flag
<1>2. sem' \in [Procs -> Counts] /\ pc' \in [Procs -> Calls]
  BY <1>1, SlotOfEach DEF Ends
<1>3. wire' \in [Procs -> 0 .. Stream] /\ broken' \in [Procs -> BOOLEAN]
  BY DEF Ends, RelayOK, TypeOK
<1>4. link' \in [Procs -> {"none", "queued", "accepted"}]
  BY DEF Ends, RelayOK, TypeOK
<1>5. state' \in [Procs \cup {Main} -> {"none", "runs", "forked", "handler", "unsure", "ended"}]
  BY DEF Ends, RelayOK, TypeOK
<1>6. TypeOK'
  BY <1>2, <1>3, <1>4, <1>5 DEF TypeOK, Counts, Calls
<1>7. ASSUME NEW q \in Procs PROVE Slot(sem'[q], pc'[q])
  BY <1>1, SlotOfEach DEF Ends
<1>8. ReceiveSlot'
  BY <1>7 DEF ReceiveSlot, Slot
<1> QED BY <1>6, <1>8 DEF RelayOK

(* main forks, records a pid, fails or returns.                            *)
LEMMA MainOK ==
  ASSUME RelayOK, ForkFails \/ Record \/ MainReturns \/ \E p \in Procs : Fork(p)
  PROVE  RelayOK'
<1>1. CASE ForkFails \/ MainReturns
  BY <1>1, EndsOK DEF ForkFails, MainReturns, RelayOK, TypeOK
<1>2. CASE Record \/ \E p \in Procs : Fork(p)
  BY <1>2, StepOfMain DEF Record, Fork, LifeOK, RelayOK, TypeOK
<1> QED BY <1>1, <1>2

(* A process interrupted ends; main sends signals and waits.               *)
LEMMA InterruptedOK ==
  ASSUME RelayOK, NEW x \in Procs \cup {Main}, NEW known, Interrupted(x, known), known \subseteq Procs
  PROVE  RelayOK'
<1>1. killed' \subseteq Procs
  BY DEF Interrupted, RelayOK, TypeOK
<1>2. CASE x = Main
  BY <1>1, <1>2, StepOfMain DEF Interrupted, LifeOK, RelayOK, TypeOK
<1>3. CASE x # Main
  BY <1>1, <1>3, EndsOK DEF Interrupted
<1> QED BY <1>2, <1>3

-----------------------------------------------------------------------------
(* All of them together. *)

(* All that a thread may do, in any of the programs.                       *)
LEMMA ThreadsOK ==
  ASSUME RelayOK, NEW p \in Procs,
         \/ Connect(p) \/ ClientTake(p) \/ Send(p) \/ SendFails(p)
         \/ Bind(p) \/ BindFails(p) \/ Accept(p, "take") \/ ServerTake(p) \/ Receive(p)
         \/ Greet(p) \/ BrainTake(p) \/ BrainTrack(p)
         \/ BrainRewrite(p, "take", {}) \/ BrainRewrite(p, "track", {"tracker_plein"})
         \/ TrackerTake(p) \/ TrackerDone(p, {}) \/ TrackerDone(p, {"tracker_plein"})
  PROVE  RelayOK'
<1>1. CASE SendFails(p) \/ BindFails(p)
  BY <1>1, EndsOK DEF SendFails, BindFails, RelayOK, TypeOK
<1>2. CASE BrainRewrite(p, "take", {}) \/ BrainRewrite(p, "track", {"tracker_plein"})
  BY <1>2, BrainRewriteOK
<1>3. CASE TrackerDone(p, {}) \/ TrackerDone(p, {"tracker_plein"})
  BY <1>3, TrackerDoneOK
<1> QED
  BY <1>1, <1>2, <1>3, ConnectOK, ClientTakeOK, SendOK, BindOK, AcceptOK, ServerTakeOK,
     ReceiveOK, GreetOK, BrainTakeOK, BrainTrackOK, TrackerTakeOK

(* A signal that arrives, an interrupt, and the end of main's handler.     *)
LEMMA SignalsOK ==
  ASSUME RelayOK,
         \/ \E p \in Procs : Killed(p)
         \/ \E x \in Procs \cup {Main} :
              Interrupted(x, IF x = Main THEN Known ELSE {q \in Procs : q < x})
         \/ HandlerExits(Forked)
  PROVE  RelayOK'
<1>1. CASE \E p \in Procs : Killed(p)
  BY <1>1, EndsOK DEF Killed, RelayOK, TypeOK
<1>2. ASSUME NEW x \in Procs \cup {Main},
             Interrupted(x, IF x = Main THEN Known ELSE {q \in Procs : q < x})
      PROVE  RelayOK'
  <2>1. (IF x = Main THEN Known ELSE {q \in Procs : q < x}) \subseteq Procs
    BY DEF Known, Forked
  <2> QED BY <1>2, <2>1, InterruptedOK
<1>3. CASE HandlerExits(Forked)
  BY <1>3, EndsOK DEF HandlerExits, RelayOK, TypeOK
<1> QED BY <1>1, <1>2, <1>3

(* A step of something else.                                               *)
LEMMA RestOK == ASSUME RelayOK, UNCHANGED relay PROVE RelayOK'
BY DEF relay, net, life, RelayOK, TypeOK, ReceiveSlot

-----------------------------------------------------------------------------
(* What the kinds of steps do to processes and connections. *)

Lives(p) == state[p] # "ended"

(* Somebody ends, or is forked or interrupted, or somebody moves.          *)
Ending == \E x \in Procs \cup {Main} : Ends(x)
Living == /\ UNCHANGED <<sem, pc, net>>
          /\ \A q \in Procs : /\ Lives(q)' <=> Lives(q)
                              /\ state[q] # "none" => state'[q] # "none"
Moves(p) ==
  \/ Connect(p) \/ ClientTake(p) \/ Send(p)
  \/ Bind(p) \/ Accept(p, "take") \/ ServerTake(p) \/ Receive(p)
  \/ Greet(p) \/ BrainTake(p) \/ BrainTrack(p)
  \/ BrainRewrite(p, "take", {}) \/ BrainRewrite(p, "track", {"tracker_plein"})
  \/ TrackerTake(p) \/ TrackerDone(p, {}) \/ TrackerDone(p, {"tracker_plein"})

(* main ends, or changes who has been forked.                              *)
LEMMA KindsOfMain ==
  ASSUME TypeOK, ForkFails \/ Record \/ MainReturns \/ \E p \in Procs : Fork(p)
  PROVE  Ending \/ Living
<1>1. ForkFails \/ MainReturns => Ending
  BY DEF ForkFails, MainReturns, Ending
<1>2. Record \/ (\E p \in Procs : Fork(p)) => Living
  BY DEF Record, Fork, Living, Lives, TypeOK
<1> QED BY <1>1, <1>2

(* A signal ends somebody, or nobody yet.                                  *)
LEMMA KindsOfSignals ==
  ASSUME TypeOK,
         \/ HandlerExits(Forked) \/ \E p \in Procs : Killed(p)
         \/ \E x \in Procs \cup {Main} :
              Interrupted(x, IF x = Main THEN Known ELSE {q \in Procs : q < x})
  PROVE  Ending \/ Living
<1>1. HandlerExits(Forked) \/ (\E p \in Procs : Killed(p)) => Ending
  BY DEF HandlerExits, Killed, Ending
<1>2. ASSUME NEW x \in Procs \cup {Main}, NEW known, Interrupted(x, known)
      PROVE  Ending \/ Living
  <2>1. CASE x = Main
    BY <1>2, <2>1 DEF Interrupted, Living, Lives, TypeOK
  <2>2. CASE x # Main
    BY <1>2, <2>2 DEF Interrupted, Ending
  <2> QED BY <2>1, <2>2
<1> QED BY <1>1, <1>2

(* A step of something else ends nobody.                                   *)
LEMMA KindsOfRest == UNCHANGED relay => Living
BY DEF relay, life, Living, Lives

(* No call of a thread that succeeds changes who lives.                    *)
LEMMA MovesLive == ASSUME NEW p \in Procs, Moves(p) PROVE UNCHANGED life
BY DEF Moves, Connect, ClientTake, Send, Bind, Accept, ServerTake, Receive, Greet, BrainTake,
   BrainRewrite, BrainTrack, TrackerTake, TrackerDone

(* Who has ended does not come back, and who was forked was forked.        *)
LEMMA EndedStay ==
  ASSUME TypeOK, Ending \/ Living, NEW p \in Procs
  PROVE  /\ Lives(p)' => Lives(p)
         /\ state[p] # "none" => state'[p] # "none"
<1>1. CASE Ending
  BY <1>1 DEF Ending, Ends, Lives, TypeOK
<1>2. CASE Living
  BY <1>2 DEF Living
<1> QED BY <1>1, <1>2

(* Who lives has a connection when its client has left connect, and its    *)
(* server one when it has left accept; both ends of one have been forked.  *)
Linking ==
  /\ \A p \in Procs : /\ Lives(p) => (pc[p].client = "connect" <=> link[p] = "none")
                      /\ link[p] # "none" => state[p] # "none" /\ state[To[p]] # "none"
  /\ \A p \in Procs : \A q \in Into(p) :
       Lives(p) => (pc[p].server \in {"take", "recv"} <=> link[q] = "accepted")

(* Who ends is not among those who live; the others keep what they have.   *)
LEMMA EndingLinks ==
  ASSUME TypeOK, To \in [Procs -> Procs], Ending \/ Living, Linking
  PROVE  Linking'
<1>1. UNCHANGED link /\ \A p \in Procs : Lives(p)' => pc'[p] = pc[p]
  <2>1. ASSUME NEW x \in Procs \cup {Main}, Ends(x)
        PROVE  UNCHANGED link /\ \A p \in Procs : Lives(p)' => pc'[p] = pc[p]
    <3>1. state'[x] = "ended"
      BY <2>1 DEF Ends, TypeOK
    <3> QED BY <2>1, <3>1 DEF Ends, Lives
  <2> QED BY <2>1 DEF Ending, Living, net
<1>2. ASSUME NEW p \in Procs
      PROVE  /\ Lives(p)' => (pc'[p].client = "connect" <=> link'[p] = "none")
             /\ link'[p] # "none" => state'[p] # "none" /\ state'[To[p]] # "none"
  <2>1. To[p] \in Procs /\ (Lives(p)' => Lives(p))
    BY EndedStay
  <2>2. Lives(p)' => (pc'[p].client = "connect" <=> link'[p] = "none")
    BY <1>1, <2>1 DEF Linking
  <2>3. link[p] # "none" => state[p] # "none" /\ state[To[p]] # "none"
    BY DEF Linking
  <2> QED BY <1>1, <2>1, <2>2, <2>3, EndedStay
<1>3. ASSUME NEW p \in Procs, NEW q \in Into(p)
      PROVE  Lives(p)' => (pc'[p].server \in {"take", "recv"} <=> link'[q] = "accepted")
  BY <1>1, EndedStay DEF Linking
<1> QED BY <1>2, <1>3 DEF Linking, Into

(* Which calls a step leaves as they are.                                  *)
LEMMA MoveLinks ==
  ASSUME TypeOK, To \in [Procs -> Procs], NEW p \in Procs, Moves(p), UNCHANGED life, Linking
  PROVE  Linking'
<1>0. /\ pc \in [Procs -> Calls] /\ link \in [Procs -> {"none", "queued", "accepted"}]
      /\ UNCHANGED state /\ \A q \in Procs : Lives(q)' <=> Lives(q)
  BY DEF TypeOK, Calls, life, Lives
<1>1. CASE Connect(p)
  <2>1. /\ pc[p].client = "connect" /\ Up(p) /\ Up(To[p])
        /\ link' = [link EXCEPT ![p] = "queued"]
        /\ pc' = [pc EXCEPT ![p].client = "take"]
    BY <1>1 DEF Connect, Goto, Listening
  <2>2. /\ pc'[p].client = "take" /\ link'[p] = "queued" /\ link[p] = "none"
        /\ \A q \in Procs \ {p} : pc'[q].client = pc[q].client /\ link'[q] = link[q]
        /\ \A q \in Procs : pc'[q].server = pc[q].server
    BY <1>0, <2>1 DEF Linking, Calls, Up, Lives
  <2>3. \A q \in Procs : link'[q] = "accepted" <=> link[q] = "accepted"
    BY <2>2
  <2>4. state[p] # "none" /\ state[To[p]] # "none"
    BY <2>1 DEF Up
  <2> QED BY <1>0, <2>2, <2>3, <2>4 DEF Linking, Into
<1>2. CASE Accept(p, "take")
  <2>1. PICK q \in Into(p) : link[q] = "queued" /\ link' = [link EXCEPT ![q] = "accepted"]
    BY <1>2 DEF Accept
  <2>2. /\ pc[p].server = "accept" /\ pc' = [pc EXCEPT ![p].server = "take"]
    BY <1>2 DEF Accept, Goto
  <2>3. /\ pc'[p].server = "take" /\ \A r \in Procs : pc'[r].client = pc[r].client
        /\ \A r \in Procs \ {p} : pc'[r].server = pc[r].server
    BY <1>0, <2>2 DEF Calls
  <2>4. /\ q \in Procs /\ To[q] = p /\ link'[q] = "accepted"
        /\ \A r \in Procs \ {q} : link'[r] = link[r]
    BY <1>0, <2>1 DEF Into
  <2>5. \A r \in Procs : link'[r] = "none" <=> link[r] = "none"
    BY <2>1, <2>4
  <2>6. ASSUME NEW r \in Procs, NEW u \in Into(r), Lives(r)
        PROVE  pc'[r].server \in {"take", "recv"} <=> link'[u] = "accepted"
    <3>1. u \in Procs /\ To[u] = r
      BY DEF Into
    <3>2. CASE r = p
      <4>1. u = q
        BY <2>4, <3>1, <3>2, ToAssumption
      <4> QED BY <2>3, <2>4, <3>2, <4>1
    <3>3. CASE r # p
      <4>1. u # q
        BY <2>4, <3>1, <3>3
      <4>2. pc'[r].server = pc[r].server /\ link'[u] = link[u]
        BY <2>3, <2>4, <3>1, <3>3, <4>1
      <4> QED BY <4>2, <2>6 DEF Linking
    <3> QED BY <3>2, <3>3
  <2> QED BY <1>0, <2>3, <2>5, <2>6 DEF Linking
<1>3. CASE ~Connect(p) /\ ~Accept(p, "take")
  <2>1. UNCHANGED link
    BY <1>3 DEF Moves, ClientTake, Send, Bind, ServerTake, Receive, Greet, BrainTake,
         BrainRewrite, BrainTrack, TrackerTake, TrackerDone, net
  <2>2. /\ \A q \in Procs : pc'[q].client = "connect" <=> pc[q].client = "connect"
        /\ \A q \in Procs : pc'[q].server \in {"take", "recv"} <=> pc[q].server \in {"take", "recv"}
    <3>1. CASE ClientTake(p) \/ Send(p)
      <4>1. PICK from \in {"take", "send"}, to \in {"take", "send"} : Goto(p, "client", from, to)
        BY <3>1 DEF ClientTake, Send
      <4> QED BY <1>0, <4>1 DEF Goto, Calls
    <3>2. CASE Bind(p)
      BY <1>0, <3>2 DEF Bind, Goto, Calls
    <3>3. CASE ServerTake(p) \/ Receive(p)
      <4>1. PICK from \in {"take", "recv"}, to \in {"take", "recv"} : Goto(p, "server", from, to)
        BY <3>3 DEF ServerTake, Receive
      <4> QED BY <1>0, <4>1 DEF Goto, Calls
    <3>4. CASE ~(ClientTake(p) \/ Send(p)) /\ ~Bind(p) /\ ~(ServerTake(p) \/ Receive(p))
      <4>1. \E t \in {"brain", "tracker"} : \E from, to : Goto(p, t, from, to)
        BY <1>3, <3>4 DEF Moves, Greet, BrainTake, BrainRewrite, BrainTrack, TrackerTake,
             TrackerDone
      <4> QED BY <1>0, <4>1 DEF Goto, Calls
    <3> QED BY <3>1, <3>2, <3>3, <3>4
  <2>3. ASSUME NEW q \in Procs, NEW u \in Into(q), Lives(q)
        PROVE  pc'[q].server \in {"take", "recv"} <=> link'[u] = "accepted"
    BY <2>1, <2>2, <2>3 DEF Linking
  <2>4. ASSUME NEW q \in Procs
        PROVE  /\ Lives(q) => (pc'[q].client = "connect" <=> link'[q] = "none")
               /\ link'[q] # "none" => state[q] # "none" /\ state[To[q]] # "none"
    BY <2>1, <2>2 DEF Linking
  <2> QED BY <1>0, <2>3, <2>4 DEF Linking
<1> QED BY <1>1, <1>2, <1>3

-----------------------------------------------------------------------------
(* The flow of texts: the state of RelayFlow, and its steps. *)

(* Two processes, each the client of the other.                            *)
Pair == Procs = {1, 2} /\ To = Others

up == {p \in Procs : Lives(p)}
due == [p \in Procs |-> Due(p)]
greeted == pc[Starter].brain # "greet" \/ state[Starter] = "ended"

(* The steps of RelayFlow, in terms of the state that stands for its own.  *)
LEMMA FlowIs ==
  ASSUME NEW p
  PROVE  /\ UNCHANGED Flow!vars <=> UNCHANGED <<up, due, wire, greeted>>
         /\ Flow!Init <=> /\ up = {1, 2} /\ greeted = FALSE
                          /\ due = [q \in {1, 2} |-> 0] /\ wire = [q \in {1, 2} |-> 0]
         /\ Flow!Greet <=> /\ ~greeted /\ greeted' = TRUE /\ UNCHANGED <<up, wire>>
                           /\ due' = [due EXCEPT ![1] = due[1] + 1]
         /\ Flow!Send(p) <=> /\ p \in up /\ due[p] > 0 /\ UNCHANGED <<up, greeted>>
                             /\ due' = [due EXCEPT ![p] = due[p] - 1]
                             /\ wire' = IF 3 - p \in up THEN [wire EXCEPT ![p] = wire[p] + 1]
                                                        ELSE wire
         /\ Flow!Receive(p) <=>
              /\ p \in up /\ UNCHANGED <<up, greeted>>
              /\ \/ \E k \in 1 .. wire[3 - p] : wire' = [wire EXCEPT ![3 - p] = wire[3 - p] - k]
                 \/ wire[3 - p] = 0 /\ 3 - p \notin up /\ UNCHANGED wire
              /\ due' = [due EXCEPT ![p] = due[p] + 2]
         /\ Flow!End(p) <=> /\ up' = up \ {p} /\ greeted' = (greeted \/ p = 1)
                            /\ wire' = [wire EXCEPT ![3 - p] = 0]
                            /\ due' = [due EXCEPT ![p] = 0]
<1> USE DEF up, due, greeted, Lives
<1>1. UNCHANGED Flow!vars <=> UNCHANGED <<up, due, wire, greeted>>
  BY DEF Flow!vars
<1>2. Flow!Init <=> /\ up = {1, 2} /\ greeted = FALSE
                    /\ due = [q \in {1, 2} |-> 0] /\ wire = [q \in {1, 2} |-> 0]
  BY DEF Flow!Init, Flow!Ends
<1>3. Flow!Greet <=> /\ ~greeted /\ greeted' = TRUE /\ UNCHANGED <<up, wire>>
                     /\ due' = [due EXCEPT ![1] = due[1] + 1]
  BY DEF Flow!Greet
<1>4. Flow!Send(p) <=> /\ p \in up /\ due[p] > 0 /\ UNCHANGED <<up, greeted>>
                       /\ due' = [due EXCEPT ![p] = due[p] - 1]
                       /\ wire' = IF 3 - p \in up THEN [wire EXCEPT ![p] = wire[p] + 1]
                                                  ELSE wire
  BY DEF Flow!Send, Flow!Peer
<1>5. Flow!Receive(p) <=>
        /\ p \in up /\ UNCHANGED <<up, greeted>>
        /\ \/ \E k \in 1 .. wire[3 - p] : wire' = [wire EXCEPT ![3 - p] = wire[3 - p] - k]
           \/ wire[3 - p] = 0 /\ 3 - p \notin up /\ UNCHANGED wire
        /\ due' = [due EXCEPT ![p] = due[p] + 2]
  BY DEF Flow!Receive, Flow!Peer
<1>6. Flow!End(p) <=> /\ up' = up \ {p} /\ greeted' = (greeted \/ p = 1)
                      /\ wire' = [wire EXCEPT ![3 - p] = 0]
                      /\ due' = [due EXCEPT ![p] = 0]
  BY DEF Flow!End, Flow!Peer
<1> QED BY ONLY <1>1, <1>2, <1>3, <1>4, <1>5, <1>6

(* The other of two processes is the target of one's client and the only   *)
(* one that sends to one's server.                                         *)
LEMMA Peers ==
  ASSUME Pair
  PROVE
  /\ To \in [Procs -> Procs]
  /\ \A p \in Procs : /\ To[p] = 3 - p /\ To[p] \in Procs /\ Into(p) = {3 - p}
                      /\ \A q \in Procs : To[q] = p <=> q = 3 - p
<1>1. Procs = {1, 2} /\ To = <<2, 1>>
  BY DEF Others, Pair
<1>2. To[1] = 2 /\ To[2] = 1 /\ To \in [Procs -> Procs]
  <2>1. <<2, 1>> = [p \in {1, 2} |-> IF p = 1 THEN 2 ELSE 1]
    OBVIOUS
  <2> QED BY <1>1, <2>1
<1> QED BY <1>1, <1>2 DEF Into

-----------------------------------------------------------------------------
(* What a step does to due. *)

(* Due, of a process whose semaphores are s and calls c                    *)
DueOf(s, c) == s["sending_plein"] + Flag(c.client = "send")
               + 2 * s["receive_plein"] + Flag(c.brain = "rewrite")

(* What is due of a process depends on its own semaphores and calls.       *)
LEMMA DueIs ==
  ASSUME NEW p \in Procs
  PROVE  /\ due[p] = DueOf(sem[p], pc[p]) /\ due'[p] = DueOf(sem'[p], pc'[p])
         /\ due \in [Procs -> {due[q] : q \in Procs}]
         /\ DOMAIN due = Procs /\ DOMAIN due' = Procs
  BY DEF due, Due, DueOf

(* A step of process p, to semaphores s and calls c, by which nobody ends. *)
LEMMA FlowLocal ==
  ASSUME TypeOK, NEW p \in Procs, NEW s \in Counts, NEW c \in Calls,
         sem' = [sem EXCEPT ![p] = s], pc' = [pc EXCEPT ![p] = c], UNCHANGED life
  PROVE  /\ due' = [due EXCEPT ![p] = DueOf(s, c)] /\ due[p] = DueOf(sem[p], pc[p])
         /\ UNCHANGED up
         /\ (p = Starter => (c.brain = "greet" <=> pc[p].brain = "greet")) => UNCHANGED greeted
<1>1. \A q \in Procs : /\ sem'[q] = IF q = p THEN s ELSE sem[q]
                       /\ pc'[q] = IF q = p THEN c ELSE pc[q]
  BY DEF TypeOK
<1>2. \A q \in Procs : due'[q] = IF q = p THEN DueOf(s, c) ELSE due[q]
  BY <1>1, DueIs
<1>3. due' = [due EXCEPT ![p] = DueOf(s, c)]
  BY <1>2 DEF due
<1>4. UNCHANGED up
  BY DEF up, Lives, life
<1>5. ASSUME p = Starter => (c.brain = "greet" <=> pc[p].brain = "greet")
      PROVE  UNCHANGED greeted
  BY <1>1, <1>5 DEF greeted, life, Starter
<1> QED BY <1>3, <1>4, <1>5, DueIs

(* A flag is a number.                                                     *)
LEMMA FlagIs == \A b \in BOOLEAN : Flag(b) = IF b THEN 1 ELSE 0
BY DEF Flag

(* What sem_post leaves, in full.                                          *)
LEMMA PostIs ==
  ASSUME TypeOK, NEW p \in Procs, NEW S \in SUBSET Semaphores, SemPost(p, S)
  PROVE  \E s \in Counts :
           /\ sem' = [sem EXCEPT ![p] = s]
           /\ \A x \in S : s[x] = Post(sem[p][x])
           /\ \A x \in Semaphores \ S : s[x] = sem[p][x]
<1> DEFINE s == [x \in Semaphores |-> IF x \in S THEN Post(sem[p][x]) ELSE sem[p][x]]
<1>1. \A x \in Semaphores : sem[p][x] \in 0 .. SemMax
  BY TypeOfEach DEF Counts
<1>2. s \in Counts
  BY <1>1, PostCounts DEF Counts
<1>3. sem' = [sem EXCEPT ![p] = s] /\ \A x \in Semaphores \ S : s[x] = sem[p][x]
  BY DEF SemPost
<1>4. \A x \in S : s[x] = Post(sem[p][x])
  OBVIOUS
<1> QED BY <1>2, <1>3, <1>4

(* As long as it is below the limit, a semaphore counts each post.         *)
LEMMA PlusOne ==
  ASSUME NEW n \in 0 .. SemMax, n # SemMax
  PROVE  Post(n) = n + 1
BY DEF Post

-----------------------------------------------------------------------------
(* The steps of the threads, as long as no semaphore is at its limit. *)

FlowStep == Flow!Next \/ UNCHANGED Flow!vars

(* Steps that do not touch what is counted.                                *)
LEMMA NoFlow ==
  ASSUME TypeOK, NEW p \in Procs, UNCHANGED life, UNCHANGED wire,
         NEW s \in Counts, NEW c \in Calls,
         sem' = [sem EXCEPT ![p] = s], pc' = [pc EXCEPT ![p] = c],
         p = Starter => (c.brain = "greet" <=> pc[p].brain = "greet"),
         DueOf(s, c) = DueOf(sem[p], pc[p])
  PROVE  FlowStep
<1>1. /\ due' = [due EXCEPT ![p] = DueOf(s, c)] /\ due[p] = DueOf(sem[p], pc[p])
      /\ UNCHANGED <<up, greeted>>
  BY FlowLocal
<1>2. due' = due
  BY <1>1 DEF due
<1> QED BY <1>1, <1>2, FlowIs DEF FlowStep

(* Connections, the slot when it is taken, and everything about the        *)
(* tracker is no step of the flow.                                         *)
LEMMA AsideFlow ==
  ASSUME RelayOK, NEW p \in Procs, Moves(p),
         \/ Connect(p) \/ Bind(p) \/ Accept(p, "take") \/ ServerTake(p) \/ BrainTrack(p)
         \/ TrackerTake(p) \/ TrackerDone(p, {}) \/ TrackerDone(p, {"tracker_plein"})
  PROVE  FlowStep
<1>0. TypeOK /\ UNCHANGED life /\ sem[p] \in Counts
  BY MovesLive, SlotOfEach DEF RelayOK
<1>1. PICK c \in Calls : /\ pc' = [pc EXCEPT ![p] = c]
                         /\ c.client = "send" <=> pc[p].client = "send"
                         /\ c.brain = "rewrite" <=> pc[p].brain = "rewrite"
                         /\ c.brain = "greet" <=> pc[p].brain = "greet"
  <2>1. CASE Connect(p)
    BY <1>0, <2>1, ClientGoes DEF Connect
  <2>2. CASE Bind(p) \/ Accept(p, "take") \/ ServerTake(p)
    BY <1>0, <2>2, ServerGoes DEF Bind, Accept, ServerTake
  <2>3. CASE BrainTrack(p)
    BY <1>0, <2>3, BrainGoes DEF BrainTrack
  <2>4. CASE TrackerTake(p) \/ TrackerDone(p, {}) \/ TrackerDone(p, {"tracker_plein"})
    BY <1>0, <2>4, TrackerGoes DEF TrackerTake, TrackerDone
  <2> QED BY <2>1, <2>2, <2>3, <2>4
<1>2. PICK s \in Counts : /\ sem' = [sem EXCEPT ![p] = s]
                          /\ s["sending_plein"] = sem[p]["sending_plein"]
                          /\ s["receive_plein"] = sem[p]["receive_plein"]
  <2>1. CASE Connect(p) \/ Bind(p) \/ Accept(p, "take")
    <3>1. UNCHANGED sem
      BY <2>1 DEF Connect, Bind, Accept, net
    <3>2. sem' = [sem EXCEPT ![p] = sem[p]]
      BY <1>0, <3>1 DEF TypeOK
    <3> QED BY <1>0, <3>2
  <2>2. CASE ServerTake(p) \/ TrackerTake(p)
    <3>1. PICK S \in SUBSET (Semaphores \ {"sending_plein", "receive_plein"}) : SemWait(p, S)
      BY <2>2 DEF ServerTake, TrackerTake, Semaphores
    <3> QED BY <1>0, <3>1, WaitTakes DEF Semaphores
  <2>3. CASE BrainTrack(p) \/ TrackerDone(p, {}) \/ TrackerDone(p, {"tracker_plein"})
    <3>1. PICK S \in SUBSET (Semaphores \ {"sending_plein", "receive_plein"}) : SemPost(p, S)
      BY <2>3 DEF BrainTrack, TrackerDone, Semaphores
    <3>2. PICK s \in Counts : /\ sem' = [sem EXCEPT ![p] = s]
                              /\ \A x \in Semaphores \ S : s[x] = sem[p][x]
      BY <1>0, <3>1, PostIs
    <3> QED BY <3>1, <3>2 DEF Semaphores
  <2> QED BY <2>1, <2>2, <2>3
<1>3. DueOf(s, c) = DueOf(sem[p], pc[p])
  BY <1>1, <1>2 DEF DueOf
<1>4. UNCHANGED wire
  BY DEF Connect, Bind, Accept, ServerTake, BrainTrack, TrackerTake, TrackerDone, net
<1> QED BY <1>0, <1>1, <1>2, <1>3, <1>4, NoFlow

(* The counts of a process, as numbers.                                    *)
LEMMA CountsOf ==
  ASSUME TypeOK, NEW p \in Procs
  PROVE  \E a \in 0 .. SemMax, b \in 0 .. SemMax, f \in {0, 1}, g \in {0, 1} :
           /\ sem[p]["sending_plein"] = a /\ sem[p]["receive_plein"] = b
           /\ Flag(pc[p].client = "send") = f /\ Flag(pc[p].brain = "rewrite") = g
           /\ DueOf(sem[p], pc[p]) = a + f + 2 * b + g
<1>1. sem[p]["sending_plein"] \in 0 .. SemMax /\ sem[p]["receive_plein"] \in 0 .. SemMax
  BY TypeOfEach DEF Counts, Semaphores
<1>2. Flag(pc[p].client = "send") \in {0, 1} /\ Flag(pc[p].brain = "rewrite") \in {0, 1}
  BY DEF Flag
<1> QED BY <1>1, <1>2 DEF DueOf

(* A text that the client takes stays due until it is sent.                *)
LEMMA ClientTakeFlow ==
  ASSUME RelayOK, NEW p \in Procs, ClientTake(p)
  PROVE  FlowStep
<1>0. TypeOK /\ UNCHANGED <<life, wire>>
  BY DEF RelayOK, ClientTake, net
<1>1. PICK c \in Calls : /\ pc' = [pc EXCEPT ![p] = c] /\ pc[p].client = "take"
                         /\ c.client = "send" /\ c.brain = pc[p].brain
  BY <1>0, ClientGoes DEF ClientTake
<1>2. PICK s \in Counts : /\ sem' = [sem EXCEPT ![p] = s]
                          /\ s["sending_plein"] = sem[p]["sending_plein"] - 1
                          /\ s["receive_plein"] = sem[p]["receive_plein"]
  BY <1>0, WaitTakes DEF ClientTake, Semaphores
<1>3. DueOf(s, c) = DueOf(sem[p], pc[p])
  <2>1. PICK a \in 0 .. SemMax, b \in 0 .. SemMax, f \in {0, 1}, g \in {0, 1} :
           /\ sem[p]["sending_plein"] = a /\ sem[p]["receive_plein"] = b
           /\ Flag(pc[p].client = "send") = f /\ Flag(pc[p].brain = "rewrite") = g
           /\ DueOf(sem[p], pc[p]) = a + f + 2 * b + g
    BY <1>0, CountsOf
  <2>2. f = 0 /\ Flag(c.client = "send") = 1 /\ Flag(c.brain = "rewrite") = g
    BY <1>1, <2>1 DEF Flag
  <2>3. DueOf(s, c) = (a - 1) + 1 + 2 * b + g
    BY <1>2, <2>1, <2>2 DEF DueOf
  <2> QED BY <2>1, <2>2, <2>3
<1> QED BY <1>0, <1>1, <1>2, <1>3, NoFlow

(* The text the brain takes from the slot, which made two due, is          *)
(* announced: one of them is the client's now, the other is the brain's.   *)
LEMMA BrainTakeFlow ==
  ASSUME RelayOK, NEW p \in Procs, BrainTake(p), ~Saturated
  PROVE  FlowStep
<1>0. TypeOK /\ UNCHANGED <<life, wire>>
  BY DEF RelayOK, BrainTake, net
<1>1. PICK c \in Calls : /\ pc' = [pc EXCEPT ![p] = c] /\ pc[p].brain = "take"
                         /\ c.brain = "rewrite" /\ c.client = pc[p].client
  BY <1>0, BrainGoes DEF BrainTake
<1>2. PICK a \in 0 .. SemMax, b \in 0 .. SemMax, f \in {0, 1}, g \in {0, 1} :
         /\ sem[p]["sending_plein"] = a /\ sem[p]["receive_plein"] = b
         /\ Flag(pc[p].client = "send") = f /\ Flag(pc[p].brain = "rewrite") = g
         /\ DueOf(sem[p], pc[p]) = a + f + 2 * b + g
  BY <1>0, CountsOf
<1>3. a # SemMax /\ b > 0
  BY <1>2 DEF Saturated, BrainTake
<1>4. PICK s \in Counts : /\ sem' = [sem EXCEPT ![p] = s]
                          /\ s["sending_plein"] = a + 1 /\ s["receive_plein"] = b - 1
  <2> DEFINE s == [sem[p] EXCEPT !["receive_plein"] = @ - 1, !["receive_vide"] = Post(@),
                                 !["sending_plein"] = Post(@)]
  <2>1. \A x \in Semaphores : sem[p][x] \in 0 .. SemMax /\ Post(sem[p][x]) \in 0 .. SemMax
    BY <1>0, TypeOfEach, PostCounts DEF Counts
  <2>2. sem[p]["receive_plein"] - 1 \in 0 .. SemMax
    BY <1>2, <1>3
  <2>3. sem[p] \in Counts /\ s \in Counts
    BY <1>0, <2>1, <2>2, TypeOfEach DEF Counts, Semaphores
  <2>4. sem' = [sem EXCEPT ![p] = s]
    BY DEF BrainTake
  <2>5. s["sending_plein"] = Post(sem[p]["sending_plein"])
        /\ s["receive_plein"] = sem[p]["receive_plein"] - 1
    BY <2>3 DEF Counts, Semaphores
  <2> QED BY <1>2, <1>3, <2>3, <2>4, <2>5, PlusOne
<1>5. DueOf(s, c) = DueOf(sem[p], pc[p])
  <2>1. g = 0 /\ Flag(c.brain = "rewrite") = 1 /\ Flag(c.client = "send") = f
    BY <1>1, <1>2 DEF Flag
  <2>2. DueOf(s, c) = (a + 1) + f + 2 * (b - 1) + 1
    BY <1>4, <2>1 DEF DueOf
  <2> QED BY <1>2, <2>1, <2>2
<1> QED BY <1>0, <1>1, <1>4, <1>5, NoFlow

(* The brain's second announcement of a text, which is one more to send.   *)
LEMMA BrainRewriteFlow ==
  ASSUME RelayOK, NEW p \in Procs, ~Saturated,
         BrainRewrite(p, "take", {}) \/ BrainRewrite(p, "track", {"tracker_plein"})
  PROVE  FlowStep
<1>0. TypeOK /\ UNCHANGED <<life, wire>>
  BY DEF RelayOK, BrainRewrite, net
<1>1. PICK c \in Calls : /\ pc' = [pc EXCEPT ![p] = c] /\ pc[p].brain = "rewrite"
                         /\ c.brain \notin {"rewrite", "greet"} /\ c.client = pc[p].client
  <2>1. PICK to \in {"take", "track"} : Goto(p, "brain", "rewrite", to)
    BY DEF BrainRewrite
  <2>2. PICK c \in Calls : /\ pc' = [pc EXCEPT ![p] = c] /\ pc[p].brain = "rewrite"
                           /\ c.brain = to /\ c.client = pc[p].client
    BY <1>0, <2>1, BrainGoes
  <2> QED BY <2>2
<1>2. PICK a \in 0 .. SemMax, b \in 0 .. SemMax, f \in {0, 1}, g \in {0, 1} :
         /\ sem[p]["sending_plein"] = a /\ sem[p]["receive_plein"] = b
         /\ Flag(pc[p].client = "send") = f /\ Flag(pc[p].brain = "rewrite") = g
         /\ DueOf(sem[p], pc[p]) = a + f + 2 * b + g
  BY <1>0, CountsOf
<1>3. PICK s \in Counts : /\ sem' = [sem EXCEPT ![p] = s]
                          /\ s["sending_plein"] = a + 1 /\ s["receive_plein"] = b
  <2>1. PICK S \in SUBSET (Semaphores \ {"receive_plein"}) : SemPost(p, S) /\ "sending_plein" \in S
    BY DEF BrainRewrite, Semaphores
  <2>2. PICK s \in Counts : /\ sem' = [sem EXCEPT ![p] = s]
                            /\ s["sending_plein"] = Post(a) /\ s["receive_plein"] = b
    <3>1. PICK s \in Counts : /\ sem' = [sem EXCEPT ![p] = s]
                              /\ \A x \in S : s[x] = Post(sem[p][x])
                              /\ \A x \in Semaphores \ S : s[x] = sem[p][x]
      BY <1>0, <2>1, PostIs
    <3> QED BY <1>2, <2>1, <3>1 DEF Semaphores
  <2>3. a # SemMax
    BY <1>2 DEF Saturated
  <2> QED BY <2>2, <2>3, PlusOne
<1>4. DueOf(s, c) = DueOf(sem[p], pc[p])
  <2>1. g = 1 /\ Flag(c.brain = "rewrite") = 0 /\ Flag(c.client = "send") = f
    BY <1>1, <1>2 DEF Flag
  <2>2. DueOf(s, c) = (a + 1) + f + 2 * b + 0
    BY <1>3, <2>1 DEF DueOf
  <2> QED BY <1>2, <2>1, <2>2
<1> QED BY <1>0, <1>1, <1>3, <1>4, NoFlow

(* Process 1 begins, once; the brain of another begins without a text.     *)
LEMMA GreetFlow ==
  ASSUME RelayOK, NEW p \in Procs, Greet(p), ~Saturated
  PROVE  FlowStep
<1>0. TypeOK /\ UNCHANGED <<life, wire>> /\ Up(p)
  BY DEF RelayOK, Greet, Goto, net
<1>1. PICK c \in Calls : /\ pc' = [pc EXCEPT ![p] = c] /\ pc[p].brain = "greet"
                         /\ c.brain = "take" /\ c.client = pc[p].client
  BY <1>0, BrainGoes DEF Greet
<1>2. PICK a \in 0 .. SemMax, b \in 0 .. SemMax, f \in {0, 1}, g \in {0, 1} :
         /\ sem[p]["sending_plein"] = a /\ sem[p]["receive_plein"] = b
         /\ Flag(pc[p].client = "send") = f /\ Flag(pc[p].brain = "rewrite") = g
         /\ DueOf(sem[p], pc[p]) = a + f + 2 * b + g
  BY <1>0, CountsOf
<1>3. Flag(c.brain = "rewrite") = g /\ Flag(c.client = "send") = f
  BY <1>1, <1>2 DEF Flag
<1>4. CASE p # Starter
  <2>1. SemPost(p, {}) /\ {} \in SUBSET Semaphores
    BY <1>4 DEF Greet
  <2>2. PICK s \in Counts : /\ sem' = [sem EXCEPT ![p] = s]
                            /\ \A x \in Semaphores : s[x] = sem[p][x]
    BY <1>0, <2>1, PostIs
  <2>3. DueOf(s, c) = DueOf(sem[p], pc[p])
    BY <1>1, <1>2, <1>3, <2>2 DEF DueOf, Semaphores
  <2> QED BY <1>0, <1>1, <1>4, <2>2, <2>3, NoFlow
<1>5. CASE p = Starter
  <2>1. SemPost(p, {"sending_plein"}) /\ {"sending_plein"} \in SUBSET Semaphores
    BY <1>5 DEF Greet, Semaphores
  <2>2. PICK s \in Counts : /\ sem' = [sem EXCEPT ![p] = s] /\ s["sending_plein"] = Post(a)
                            /\ s["receive_plein"] = b
    BY <1>0, <1>2, <2>1, PostIs DEF Semaphores
  <2>3. a # SemMax
    BY <1>2 DEF Saturated
  <2>4. DueOf(s, c) = DueOf(sem[p], pc[p]) + 1
    <3>1. DueOf(s, c) = (a + 1) + f + 2 * b + g
      BY <1>3, <2>2, <2>3, PlusOne DEF DueOf
    <3> QED BY <1>2, <3>1
  <2>5. due' = [due EXCEPT ![1] = due[1] + 1] /\ UNCHANGED up
    <3>1. /\ due' = [due EXCEPT ![p] = DueOf(s, c)] /\ due[p] = DueOf(sem[p], pc[p])
          /\ UNCHANGED up
          /\ (p = Starter => (c.brain = "greet" <=> pc[p].brain = "greet")) => UNCHANGED greeted
      BY <1>0, <1>1, <2>2, FlowLocal
    <3> QED BY <1>5, <2>4, <3>1 DEF Starter
  <2>6. ~greeted /\ greeted' = TRUE
    <3>1. pc'[p].brain = "take"
      BY <1>0, <1>1 DEF TypeOK
    <3> QED BY <1>0, <1>1, <1>5, <3>1 DEF greeted, Up
  <2> QED BY <1>0, <2>5, <2>6, FlowIs DEF FlowStep, Flow!Next
<1> QED BY <1>4, <1>5

(* A peer that is not up has ended: who has a connection to it, or from    *)
(* it, has seen it forked.                                                 *)
LEMMA PeerUp ==
  ASSUME Pair, TypeOK, Linking, NEW p \in Procs, Up(p),
         \/ pc[p].client = "send"
         \/ pc[p].server = "recv"
  PROVE  Up(3 - p) <=> 3 - p \in up
<1>1. 3 - p \in Procs /\ To[p] = 3 - p /\ 3 - p \in Into(p) /\ To[3 - p] = p
  <2>1. Procs = {1, 2}
    BY DEF Pair
  <2> QED BY <2>1, Peers
<1>2. state[3 - p] # "none"
  <2>1. CASE pc[p].client = "send"
    <3>1. link[p] # "none"
      BY <2>1 DEF Linking, Up, Lives
    <3> QED BY <1>1, <3>1 DEF Linking
  <2>2. CASE pc[p].server = "recv"
    <3>1. link[3 - p] = "accepted"
      BY <1>1, <2>2 DEF Linking, Up, Lives
    <3> QED BY <1>1, <3>1 DEF Linking
  <2> QED BY <2>1, <2>2
<1> QED BY <1>1, <1>2 DEF up, Up, Lives

(* A send is the flow's send, to a peer that lives or one that has ended.  *)
LEMMA SendFlow ==
  ASSUME Pair, RelayOK, Linking, NEW p \in Procs, Send(p)
  PROVE  FlowStep
<1>0. TypeOK /\ UNCHANGED life /\ Up(p) /\ To[p] = 3 - p
  BY Peers DEF RelayOK, Send, Goto
<1>1. PICK c \in Calls : /\ pc' = [pc EXCEPT ![p] = c] /\ pc[p].client = "send"
                         /\ c.client = "take" /\ c.brain = pc[p].brain
  BY <1>0, ClientGoes DEF Send
<1>2. PICK a \in 0 .. SemMax, b \in 0 .. SemMax, f \in {0, 1}, g \in {0, 1} :
         /\ sem[p]["sending_plein"] = a /\ sem[p]["receive_plein"] = b
         /\ Flag(pc[p].client = "send") = f /\ Flag(pc[p].brain = "rewrite") = g
         /\ DueOf(sem[p], pc[p]) = a + f + 2 * b + g
  BY <1>0, CountsOf
<1>3. PICK s \in Counts : /\ sem' = [sem EXCEPT ![p] = s] /\ s["sending_plein"] = a
                          /\ s["receive_plein"] = b
  <2>1. SemPost(p, {"sending_mutex"}) /\ {"sending_mutex"} \in SUBSET Semaphores
    BY DEF Send, Semaphores
  <2> QED BY <1>0, <1>2, <2>1, PostIs DEF Semaphores
<1>4. DueOf(s, c) = DueOf(sem[p], pc[p]) - 1 /\ DueOf(sem[p], pc[p]) > 0
  <2>1. f = 1 /\ Flag(c.client = "send") = 0 /\ Flag(c.brain = "rewrite") = g
    BY <1>1, <1>2 DEF Flag
  <2>2. DueOf(s, c) = a + 0 + 2 * b + g
    BY <1>3, <2>1 DEF DueOf
  <2> QED BY <1>2, <2>1, <2>2
<1>5. due' = [due EXCEPT ![p] = due[p] - 1] /\ due[p] > 0 /\ UNCHANGED <<up, greeted>>
  <2>1. /\ due' = [due EXCEPT ![p] = DueOf(s, c)] /\ due[p] = DueOf(sem[p], pc[p])
        /\ UNCHANGED up
        /\ (p = Starter => (c.brain = "greet" <=> pc[p].brain = "greet")) => UNCHANGED greeted
    BY <1>0, <1>1, <1>3, FlowLocal
  <2> QED BY <1>1, <1>4, <2>1
<1>6. p \in up
  BY <1>0 DEF up, Up, Lives
<1>7. wire' = IF 3 - p \in up THEN [wire EXCEPT ![p] = wire[p] + 1] ELSE wire
  <2>1. Up(3 - p) <=> 3 - p \in up
    BY <1>0, <1>1, PeerUp
  <2>2. CASE Up(3 - p)
    BY <1>0, <2>1, <2>2 DEF Send
  <2>3. CASE ~Up(3 - p)
    BY <1>0, <2>1, <2>3 DEF Send
  <2> QED BY <2>2, <2>3
<1>8. p \in Flow!Ends
  BY DEF Flow!Ends, Pair
<1>9. Flow!Send(p)
  BY <1>5, <1>6, <1>7, FlowIs
<1> QED BY <1>8, <1>9 DEF FlowStep, Flow!Next

(* A recv, of one text or of several or of none at the end of the stream,  *)
(* is the flow's reception, and makes two texts due: the slot was empty.   *)
LEMMA ReceiveFlow ==
  ASSUME Pair, RelayOK, Linking, NEW p \in Procs, Receive(p)
  PROVE  FlowStep
<1>0. TypeOK /\ UNCHANGED life /\ Up(p) /\ Into(p) = {3 - p}
  BY Peers DEF RelayOK, Receive, Goto
<1>1. PICK c \in Calls : /\ pc' = [pc EXCEPT ![p] = c] /\ pc[p].server = "recv"
                         /\ c.client = pc[p].client /\ c.brain = pc[p].brain
  BY <1>0, ServerGoes DEF Receive
<1>2. PICK a \in 0 .. SemMax, b \in 0 .. SemMax, f \in {0, 1}, g \in {0, 1} :
         /\ sem[p]["sending_plein"] = a /\ sem[p]["receive_plein"] = b
         /\ Flag(pc[p].client = "send") = f /\ Flag(pc[p].brain = "rewrite") = g
         /\ DueOf(sem[p], pc[p]) = a + f + 2 * b + g
  BY <1>0, CountsOf
<1>3. b = 0
  <2>1. PICK v \in Nat : sem[p]["receive_vide"] = v
    BY CountsAreNumbers
  <2>2. v + b + 1 = 1
    BY <1>1, <1>2, <2>1, SlotOfEach DEF Slot, Flag
  <2> QED BY <2>2
<1>4. PICK s \in Counts : /\ sem' = [sem EXCEPT ![p] = s] /\ s["sending_plein"] = a
                          /\ s["receive_plein"] = 1
  <2>1. SemPost(p, {"receive_mutex", "receive_plein"})
        /\ {"receive_mutex", "receive_plein"} \in SUBSET Semaphores
    BY DEF Receive, Semaphores
  <2>2. PICK s \in Counts : /\ sem' = [sem EXCEPT ![p] = s] /\ s["sending_plein"] = a
                            /\ s["receive_plein"] = Post(b)
    BY <1>0, <1>2, <2>1, PostIs DEF Semaphores
  <2>3. Post(b) = 1
    BY <1>3 DEF Post
  <2> QED BY <2>2, <2>3
<1>5. DueOf(s, c) = DueOf(sem[p], pc[p]) + 2
  <2>1. Flag(c.client = "send") = f /\ Flag(c.brain = "rewrite") = g
    BY <1>1, <1>2 DEF Flag
  <2>2. DueOf(s, c) = a + f + 2 * 1 + g
    BY <1>4, <2>1 DEF DueOf
  <2> QED BY <1>2, <1>3, <2>2
<1>6. due' = [due EXCEPT ![p] = due[p] + 2] /\ UNCHANGED <<up, greeted>>
  <2>1. /\ due' = [due EXCEPT ![p] = DueOf(s, c)] /\ due[p] = DueOf(sem[p], pc[p])
        /\ UNCHANGED up
        /\ (p = Starter => (c.brain = "greet" <=> pc[p].brain = "greet")) => UNCHANGED greeted
    BY <1>0, <1>1, <1>4, FlowLocal
  <2> QED BY <1>1, <1>5, <2>1
<1>7. p \in up
  BY <1>0 DEF up, Up, Lives
<1>8. \/ \E k \in 1 .. wire[3 - p] : wire' = [wire EXCEPT ![3 - p] = wire[3 - p] - k]
      \/ wire[3 - p] = 0 /\ 3 - p \notin up /\ UNCHANGED wire
  <2>1. Up(3 - p) <=> 3 - p \in up
    BY <1>0, <1>1, PeerUp
  <2> QED BY <1>0, <2>1 DEF Receive, Recv
<1>9. p \in Flow!Ends
  BY DEF Flow!Ends, Pair
<1>10. Flow!Receive(p)
  BY <1>6, <1>7, <1>8, FlowIs
<1> QED BY <1>9, <1>10 DEF FlowStep, Flow!Next

(* Somebody ends, or nobody moves.                                         *)
LEMMA EndFlow ==
  ASSUME Pair, TypeOK, Ending \/ Living
  PROVE  FlowStep
<1>1. CASE Living
  <2>1. UNCHANGED <<sem, pc, wire>> /\ \A q \in Procs : Lives(q)' <=> Lives(q)
    BY <1>1 DEF Living, net
  <2>2. UNCHANGED <<up, due, greeted>>
    BY <2>1, ProcsAssumption DEF up, due, Due, greeted, Lives, Starter
  <2> QED BY <2>1, <2>2, FlowIs DEF FlowStep
<1>2. ASSUME NEW x \in Procs \cup {Main}, Ends(x)
      PROVE  FlowStep
  <2>1. /\ \A q \in Procs : /\ sem'[q] = IF q = x THEN Sem0 ELSE sem[q]
                            /\ pc'[q] = IF q = x THEN Pc0 ELSE pc[q]
                            /\ wire'[q] = IF To[q] = x THEN 0 ELSE wire[q]
        /\ \A q \in Procs \cup {Main} : state'[q] = IF q = x THEN "ended" ELSE state[q]
        /\ DOMAIN wire = Procs /\ wire' = [q \in Procs |-> wire'[q]] /\ wire \in [Procs -> 0 .. Stream]
    BY <1>2 DEF Ends, TypeOK
  <2>2. up' = up \ {x}
    BY <2>1 DEF up, Lives
  <2>3. DueOf(Sem0, Pc0) = 0
    BY DEF DueOf, Sem0, Pc0, Semaphores, Flag
  <2>4. \A q \in Procs : due'[q] = IF q = x THEN 0 ELSE due[q]
    BY <2>1, <2>3, DueIs
  <2>5. CASE x = Main
    <3>1. \A q \in Procs : q # x /\ To[q] # x
      BY <2>5, Peers
    <3>2. wire' = wire
      BY <2>1, <3>1
    <3>3. UNCHANGED <<up, due, greeted>>
      <4>1. up' = up
        BY <2>2, <3>1 DEF up
      <4>2. due' = due
        BY <2>4, <3>1 DEF due
      <4>3. greeted' = greeted
        BY <2>1, <3>1, ProcsAssumption DEF greeted, Starter
      <4> QED BY <4>1, <4>2, <4>3
    <3> QED BY <3>2, <3>3, FlowIs DEF FlowStep
  <2>6. CASE x # Main
    <3>1. x \in Procs /\ x \in Flow!Ends
      BY <2>6 DEF Flow!Ends, Pair
    <3>2. due' = [due EXCEPT ![x] = 0]
      BY <2>4 DEF due
    <3>3. wire' = [wire EXCEPT ![3 - x] = 0]
      <4>1. \A q \in Procs : wire'[q] = IF q = 3 - x THEN 0 ELSE wire[q]
        BY <2>1, <3>1, Peers
      <4> QED BY <2>1, <4>1
    <3>4. greeted' = (greeted \/ x = 1)
      BY <2>1, ProcsAssumption DEF greeted, Starter
    <3>5. Flow!End(x)
      BY <2>2, <3>2, <3>3, <3>4, FlowIs
    <3> QED BY <3>1, <3>5 DEF FlowStep, Flow!Next
  <2> QED BY <2>5, <2>6
<1> QED BY <1>1, <1>2 DEF Ending

(* Nobody has begun, nothing is due and nothing is on the way.             *)
LEMMA FlowInit == Pair /\ RelayInit => Flow!Init /\ Linking
<1> SUFFICES ASSUME Pair, RelayInit PROVE Flow!Init /\ Linking
  OBVIOUS
<1>1. Procs = {1, 2}
  BY DEF Pair
<1>2. RelayInit
  OBVIOUS
<1>3. Linking
  BY <1>2 DEF RelayInit, Linking, Pc0, Into
<1>4. \A q \in Procs : state[q] = "none"
  BY <1>2, MainAssumption DEF RelayInit
<1>5. up = {1, 2} /\ greeted = FALSE
  BY <1>1, <1>2, <1>4 DEF up, greeted, Lives, RelayInit, Pc0, Starter
<1>6. \A q \in Procs : Due(q) = 0
  BY <1>2 DEF RelayInit, Sem0, Pc0, Semaphores, Due, Flag
<1>7. due = [q \in {1, 2} |-> 0] /\ wire = [q \in {1, 2} |-> 0]
  BY <1>1, <1>2, <1>6 DEF due, RelayInit
<1> QED BY <1>3, <1>5, <1>7, FlowIs

(* Whatever a step is, it is one of the flow, or a semaphore is at its     *)
(* limit before it.                                                        *)
LEMMA StepFlows ==
  ASSUME Pair, RelayOK, Linking, Ending \/ Living \/ \E p \in Procs : Moves(p)
  PROVE  Linking' /\ [Flow!Next \/ Saturated]_(Flow!vars)
<1>1. TypeOK /\ To \in [Procs -> Procs]
  BY Peers DEF RelayOK
<1>2. Linking'
  BY <1>1, EndingLinks, MoveLinks, MovesLive
<1>3. ASSUME NEW p \in Procs, Moves(p), ~Saturated
      PROVE  FlowStep
  BY <1>3, AsideFlow, ClientTakeFlow, SendFlow, ReceiveFlow, GreetFlow, BrainTakeFlow,
     BrainRewriteFlow DEF Moves
<1>4. FlowStep \/ Saturated
  BY <1>1, <1>3, EndFlow
<1> QED BY <1>2, <1>4 DEF FlowStep
===============================================================================
