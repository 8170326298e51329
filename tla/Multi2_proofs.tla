---------------------------- MODULE Multi2_proofs ----------------------------
(***************************************************************************)
(* Theorems about the relay of multi2.c for any number of processes.       *)
(***************************************************************************)
EXTENDS Multi2, SequenceTheorems, FiniteSetTheorems, TLAPS

USE NbProcessAssumption

(* Nobody can put data on connection i of q any more.                      *)
Spent(q, i) ==
  /\ conns[q][i].data = Empty
  /\ \A p \in Procs : client[p] = "send" => ~(target[p] = q /\ sock[p] = i)

(* A client about to send has a connection of its own, nothing sent yet.   *)
FreshConnections ==
  \A p \in Procs : client[p] = "send" =>
    /\ conns[target[p]][sock[p]].data = Empty
    /\ \A r \in Procs : client[r] = "send" /\ target[r] = target[p] /\ sock[r] = sock[p]
                        => r = p

(* A text has come to the slot of p.                                       *)
Got(p) == receive_plein[p] > 0 \/ bufferClient[p] # Empty

(* Once it has, the connection it came on is spent, and the slot is lost   *)
(* before the server can be at another one; every hang-up loses the slot.  *)
OneText(p) ==
  /\ Got(p) /\ server[p] \in {"take", "recv"} => Jammed(p) \/ Spent(p, accepted[p])
  /\ Got(p) /\ server[p] \in {"start", "accept"} => Jammed(p)
  /\ receive_plein[p] > 0 => bufferClient[p] = Empty /\ bufferServBrain[p] # Empty
  /\ brain[p] = "compose" => bufferClient[p] # Empty
  /\ server[p] = "accept" /\ accepted[p] > 0 => Jammed(p)

Once == \A p \in Procs : OneText(p)

-----------------------------------------------------------------------------
(* Typing *)

(* Appending the number of a process gives a text.                         *)
LEMMA StampType ==
  ASSUME NEW m \in Text, NEW p \in Procs
  PROVE  Stamp(m, p) \in Text
<1>1. m.hops \in Seq(Procs)
  BY DEF Text
<1>2. Append(m.hops, p) \in Seq(Procs)
  BY <1>1, AppendProperties
<1> QED BY <1>2 DEF Text, Stamp

(* A text cut short is a text.                                             *)
LEMMA CutsType ==
  ASSUME NEW m \in Text
  PROVE  Cuts(m) \subseteq Text
<1>1. ASSUME NEW k \in 0 .. Len(m.hops)
      PROVE  [m EXCEPT !.hops = SubSeq(@, 1, k)] \in Text
  <2>1. m.hops \in Seq(Procs)
    BY DEF Text
  <2>2. SubSeq(m.hops, 1, k) \in Seq(Procs)
    BY <2>1, LenProperties, SubSeqProperties
  <2> QED BY <2>2 DEF Text
<1>2. Empty \in Text /\ Torn \in Text
  BY EmptySeq DEF Text, Empty, Torn
<1> QED BY <1>1, <1>2 DEF Cuts

(* The texts of the program are texts.                                     *)
LEMMA ConstantTexts == Empty \in Text /\ Torn \in Text /\ Greeting \in Text
BY EmptySeq DEF Text, Empty, Torn, Greeting

(* Changing one existing connection keeps the type and the length of every *)
(* sequence of connections, and every other connection.                    *)
LEMMA AmendConns ==
  ASSUME NEW f \in [Procs -> Seq(Connection)], NEW q \in Procs,
         NEW i \in 1 .. Len(f[q]), NEW c \in Connection
  PROVE  LET g == [f EXCEPT ![q] = [@ EXCEPT ![i] = c]]
         IN /\ g \in [Procs -> Seq(Connection)]
            /\ \A r \in Procs : Len(g[r]) = Len(f[r])
            /\ \A r \in Procs : \A k \in 1 .. Len(f[r]) :
                 g[r][k] = IF r = q /\ k = i THEN c ELSE f[r][k]
<1> DEFINE s == [f[q] EXCEPT ![i] = c]
<1>1. f[q] \in Seq(Connection)
  OBVIOUS
<1>2. /\ s \in Seq(Connection) /\ Len(s) = Len(f[q])
      /\ \A k \in 1 .. Len(f[q]) : s[k] = IF k = i THEN c ELSE f[q][k]
  BY <1>1, ExceptSeq
<1> QED BY <1>2

(* What a valid socket refers to is a connection.                          *)
LEMMA ConnType ==
  ASSUME SocketsOK, NEW q \in Procs, NEW i \in 1 .. Len(conns[q])
  PROVE  conns[q][i] \in Connection
<1>1. conns[q] \in Seq(Connection)
  BY DEF SocketsOK
<1> QED BY <1>1, ElementOfSeq

(* Every variable keeps its type: no client uses a socket it has not got,  *)
(* and no server reads from a connection that was not accepted.            *)
THEOREM TypeCorrect == Spec => []TypeOK
<1>1. Init => TypeOK
  <2> SUFFICES ASSUME Init PROVE TypeOK
    OBVIOUS
  <2>1. SemsOK
    BY DEF Init, InitAt, Everywhere, SemsOK
  <2>2. BuffersOK
    BY ConstantTexts, EmptySeq DEF Init, InitAt, Everywhere, BuffersOK
  <2>3. ThreadsOK
    BY DEF Init, InitAt, Everywhere, ThreadsOK
  <2>4. SocketsOK
    <3>1. <<>> \in Seq(Connection) /\ Len(<<>>) = 0
      BY EmptySeq
    <3> QED BY <3>1 DEF Init, InitAt, Everywhere, SocketsOK, Procs
  <2> QED BY <2>1, <2>2, <2>3, <2>4 DEF TypeOK
<1>2. TypeOK /\ [Next]_vars => TypeOK'
  <2> SUFFICES ASSUME TypeOK, [Next]_vars PROVE TypeOK'
    OBVIOUS
  <2> USE DEF TypeOK, sem_wait, sem_post, Goto,
              receiveSems, sendingSems, trackerSems, sems, buffers, threads, sockets
  <2> SUFFICES ASSUME NEW p \in Procs,
                      Brain(p) \/ Client(p) \/ Serve(p) \/ ServerFails(p) \/ Track(p)
               PROVE  TypeOK'
    BY DEF Next, Run, vars, SemsOK, BuffersOK, ThreadsOK, SocketsOK
  <2>1. CASE BrainSeed(p)
    <3>1. SemsOK' BY <2>1 DEF BrainSeed, SemsOK
    <3>2. BuffersOK' BY <2>1, ConstantTexts DEF BrainSeed, BuffersOK
    <3>3. ThreadsOK' BY <2>1 DEF BrainSeed, ThreadsOK
    <3>4. SocketsOK' BY <2>1 DEF BrainSeed, ThreadsOK, SocketsOK
    <3> QED BY <3>1, <3>2, <3>3, <3>4
  <2>2. CASE BrainTake(p)
    <3>1. SemsOK' BY <2>2 DEF BrainTake, SemsOK
    <3>2. BuffersOK' BY <2>2, ConstantTexts DEF BrainTake, BuffersOK
    <3>3. ThreadsOK' BY <2>2 DEF BrainTake, ThreadsOK
    <3>4. SocketsOK' BY <2>2 DEF BrainTake, ThreadsOK, SocketsOK
    <3> QED BY <3>1, <3>2, <3>3, <3>4
  <2>3. CASE BrainCompose(p)
    <3>1. SemsOK' BY <2>3 DEF BrainCompose, SemsOK, BrainFreeSlot
    <3>2. BuffersOK'
      <4>1. bufferClient[p] \in Text
        BY DEF BuffersOK
      <4>2. Stamp(bufferClient[p], p) \in Text
        BY <4>1, StampType
      <4>3. Cuts(Stamp(bufferClient[p], p)) \subseteq Text
        BY <4>2, CutsType
      <4>4. PICK m \in Text : bufferBrainClient' = [bufferBrainClient EXCEPT ![p] = m]
        BY <2>3, <4>2, <4>3 DEF BrainCompose
      <4> QED BY <2>3, <4>4 DEF BrainCompose, BuffersOK
    <3>3. ThreadsOK' BY <2>3 DEF BrainCompose, ThreadsOK
    <3>4. SocketsOK' BY <2>3 DEF BrainCompose, ThreadsOK, SocketsOK
    <3> QED BY <3>1, <3>2, <3>3, <3>4
  <2>4. CASE BrainRewrite(p)
    <3>1. SemsOK' BY <2>4 DEF BrainRewrite, SemsOK
    <3>2. BuffersOK' BY <2>4, StampType DEF BrainRewrite, BuffersOK
    <3>3. ThreadsOK' BY <2>4 DEF BrainRewrite, ThreadsOK
    <3>4. SocketsOK' BY <2>4 DEF BrainRewrite, ThreadsOK, SocketsOK
    <3> QED BY <3>1, <3>2, <3>3, <3>4
  <2>5. CASE BrainTrack(p)
    <3>1. SemsOK' BY <2>5 DEF BrainTrack, SemsOK
    <3>2. BuffersOK' BY <2>5, StampType DEF BrainTrack, BuffersOK
    <3>3. ThreadsOK' BY <2>5 DEF BrainTrack, ThreadsOK
    <3>4. SocketsOK' BY <2>5 DEF BrainTrack, ThreadsOK, SocketsOK
    <3> QED BY <3>1, <3>2, <3>3, <3>4
  <2>6. CASE ClientTake(p)
    <3>1. SemsOK' BY <2>6 DEF ClientTake, SemsOK, Draw
    <3>2. BuffersOK' BY <2>6 DEF ClientTake, BuffersOK
    <3>3. ThreadsOK' BY <2>6 DEF ClientTake, ThreadsOK
    <3>4. SocketsOK' BY <2>6 DEF ClientTake, ThreadsOK, SocketsOK, Draw
    <3> QED BY <3>1, <3>2, <3>3, <3>4
  <2>7. CASE ClientConnect(p)
    <3>1. SemsOK' BY <2>7 DEF ClientConnect, SemsOK
    <3>2. BuffersOK' BY <2>7 DEF ClientConnect, BuffersOK
    <3>3. ThreadsOK' BY <2>7 DEF ClientConnect, ThreadsOK
    <3>4. SocketsOK'
      <4> DEFINE q == target[p]
                 c == [data |-> Empty, open |-> TRUE]
      <4>1. q \in Procs /\ conns[q] \in Seq(Connection)
        BY DEF SocketsOK
      <4>2. c \in Connection
        BY ConstantTexts DEF Connection
      <4>3. /\ Append(conns[q], c) \in Seq(Connection)
            /\ Len(Append(conns[q], c)) = Len(conns[q]) + 1
        BY <4>1, <4>2, AppendProperties
      <4>4. conns' = [conns EXCEPT ![q] = Append(conns[q], c)]
        BY <2>7 DEF ClientConnect
      <4>5. /\ conns' \in [Procs -> Seq(Connection)]
            /\ \A r \in Procs : Len(conns[r]) \in Nat /\ Len(conns'[r]) >= Len(conns[r])
            /\ Len(conns'[q]) = Len(conns[q]) + 1
        BY <4>1, <4>3, <4>4, LenProperties DEF SocketsOK
      <4> HIDE DEF c
      <4> QED BY <2>7, <4>5 DEF ClientConnect, ThreadsOK, SocketsOK
    <3> QED BY <3>1, <3>2, <3>3, <3>4
  <2>8. CASE ClientRefused(p)
    <3>1. SemsOK' BY <2>8 DEF ClientRefused, SemsOK, ClientRelease
    <3>2. BuffersOK' BY <2>8 DEF ClientRefused, BuffersOK
    <3>3. ThreadsOK' BY <2>8 DEF ClientRefused, ThreadsOK
    <3>4. SocketsOK' BY <2>8 DEF ClientRefused, ThreadsOK, SocketsOK
    <3> QED BY <3>1, <3>2, <3>3, <3>4
  <2>9. CASE ClientSend(p)
    <3>1. SemsOK' BY <2>9 DEF ClientSend, SemsOK
    <3>2. BuffersOK' BY <2>9 DEF ClientSend, BuffersOK
    <3>3. ThreadsOK' BY <2>9 DEF ClientSend, ThreadsOK
    <3>4. SocketsOK'
      <4> DEFINE q == target[p]
                 i == sock[p]
                 c == [conns[q][i] EXCEPT !.data = bufferBrainClient[p]]
      <4>1. q \in Procs /\ i \in 1 .. Len(conns[q])
        BY <2>9 DEF ClientSend, ThreadsOK, SocketsOK
      <4>2. c \in Connection
        BY <2>9, <4>1, ConnType DEF Connection, BuffersOK
      <4>3. conns' = [conns EXCEPT ![q] = [@ EXCEPT ![i] = c]]
        BY <2>9 DEF ClientSend
      <4> HIDE DEF c
      <4>4. /\ conns' \in [Procs -> Seq(Connection)]
            /\ \A r \in Procs : Len(conns'[r]) = Len(conns[r])
        BY <4>1, <4>2, <4>3, AmendConns DEF SocketsOK
      <4> QED BY <2>9, <4>4 DEF ClientSend, ThreadsOK, SocketsOK
    <3> QED BY <3>1, <3>2, <3>3, <3>4
  <2>10. CASE ClientClear(p)
    <3>1. SemsOK' BY <2>10 DEF ClientClear, SemsOK
    <3>2. BuffersOK' BY <2>10, ConstantTexts DEF ClientClear, BuffersOK
    <3>3. ThreadsOK' BY <2>10 DEF ClientClear, ThreadsOK
    <3>4. SocketsOK' BY <2>10 DEF ClientClear, ThreadsOK, SocketsOK
    <3> QED BY <3>1, <3>2, <3>3, <3>4
  <2>11. CASE ClientClose(p)
    <3>1. SemsOK' BY <2>11 DEF ClientClose, SemsOK, ClientRelease
    <3>2. BuffersOK' BY <2>11 DEF ClientClose, BuffersOK
    <3>3. ThreadsOK' BY <2>11 DEF ClientClose, ThreadsOK
    <3>4. SocketsOK'
      <4> DEFINE q == target[p]
                 i == sock[p]
                 c == [conns[q][i] EXCEPT !.open = FALSE]
      <4>1. q \in Procs /\ i \in 1 .. Len(conns[q])
        BY <2>11 DEF ClientClose, ThreadsOK, SocketsOK
      <4>2. c \in Connection
        BY <2>11, <4>1, ConnType DEF Connection, BuffersOK
      <4>3. conns' = [conns EXCEPT ![q] = [@ EXCEPT ![i] = c]]
        BY <2>11 DEF ClientClose
      <4> HIDE DEF c
      <4>4. /\ conns' \in [Procs -> Seq(Connection)]
            /\ \A r \in Procs : Len(conns'[r]) = Len(conns[r])
        BY <4>1, <4>2, <4>3, AmendConns DEF SocketsOK
      <4> QED BY <2>11, <4>4 DEF ClientClose, ThreadsOK, SocketsOK
    <3> QED BY <3>1, <3>2, <3>3, <3>4
  <2>12. CASE ServerListen(p)
    <3>1. SemsOK' BY <2>12 DEF ServerListen, SemsOK
    <3>2. BuffersOK' BY <2>12 DEF ServerListen, BuffersOK
    <3>3. ThreadsOK' BY <2>12 DEF ServerListen, ThreadsOK
    <3>4. SocketsOK' BY <2>12 DEF ServerListen, ThreadsOK, SocketsOK
    <3> QED BY <3>1, <3>2, <3>3, <3>4
  <2>13. CASE ServerFails(p)
    <3>1. SemsOK' BY <2>13 DEF ServerFails, SemsOK
    <3>2. BuffersOK' BY <2>13 DEF ServerFails, BuffersOK
    <3>3. ThreadsOK' BY <2>13 DEF ServerFails, ThreadsOK
    <3>4. CASE client[p] \notin {"send", "clear", "close"}
      <4>1. SocketsOK' BY <2>13, <3>4 DEF ServerFails, ThreadsOK, SocketsOK
      <4> QED BY <3>1, <3>2, <3>3, <4>1
    <3>5. CASE client[p] \in {"send", "clear", "close"}
      <4> DEFINE q == target[p]
                 i == sock[p]
                 c == [conns[q][i] EXCEPT !.open = FALSE]
      <4>1. q \in Procs /\ i \in 1 .. Len(conns[q])
        BY <2>13, <3>5 DEF ServerFails, ThreadsOK, SocketsOK
      <4>2. c \in Connection
        BY <2>13, <4>1, ConnType DEF Connection, BuffersOK
      <4>3. conns' = [conns EXCEPT ![q] = [@ EXCEPT ![i] = c]]
        BY <2>13, <3>5 DEF ServerFails
      <4> HIDE DEF c
      <4>4. /\ conns' \in [Procs -> Seq(Connection)]
            /\ \A r \in Procs : Len(conns'[r]) = Len(conns[r])
        BY <4>1, <4>2, <4>3, AmendConns DEF SocketsOK
      <4>5. SocketsOK' BY <2>13, <4>4 DEF ServerFails, ThreadsOK, SocketsOK
      <4> QED BY <3>1, <3>2, <3>3, <4>5
    <3> QED BY <3>4, <3>5
  <2>14. CASE ServerAccept(p)
    <3>1. SemsOK' BY <2>14 DEF ServerAccept, SemsOK
    <3>2. BuffersOK' BY <2>14 DEF ServerAccept, BuffersOK
    <3>3. ThreadsOK' BY <2>14 DEF ServerAccept, ThreadsOK
    <3>4. SocketsOK' BY <2>14 DEF ServerAccept, ThreadsOK, SocketsOK
    <3> QED BY <3>1, <3>2, <3>3, <3>4
  <2>15. CASE ServerTake(p)
    <3>1. SemsOK' BY <2>15 DEF ServerTake, SemsOK
    <3>2. BuffersOK' BY <2>15, ConstantTexts DEF ServerTake, BuffersOK
    <3>3. ThreadsOK' BY <2>15 DEF ServerTake, ThreadsOK
    <3>4. SocketsOK' BY <2>15 DEF ServerTake, ThreadsOK, SocketsOK
    <3> QED BY <3>1, <3>2, <3>3, <3>4
  <2>16. CASE ServerReceive(p)
    <3>1. SemsOK' BY <2>16 DEF ServerReceive, SemsOK
    <3>2. BuffersOK'
      <4>1. accepted[p] \in 1 .. Len(conns[p])
        BY <2>16 DEF ServerReceive, SocketsOK
      <4>2. conns[p][accepted[p]].data \in Text
        BY <4>1, ConnType DEF Connection
      <4> QED BY <2>16, <4>2 DEF ServerReceive, BuffersOK
    <3>3. ThreadsOK' BY <2>16 DEF ServerReceive, ThreadsOK
    <3>4. SocketsOK'
      <4> DEFINE q == p
                 i == accepted[p]
                 c == [conns[q][i] EXCEPT !.data = Empty]
      <4>1. q \in Procs /\ i \in 1 .. Len(conns[q])
        BY <2>16 DEF ServerReceive, ThreadsOK, SocketsOK
      <4>2. c \in Connection
        BY <2>16, <4>1, ConnType, ConstantTexts DEF Connection, BuffersOK
      <4>3. conns' = [conns EXCEPT ![q] = [@ EXCEPT ![i] = c]]
        BY <2>16 DEF ServerReceive
      <4> HIDE DEF c
      <4>4. /\ conns' \in [Procs -> Seq(Connection)]
            /\ \A r \in Procs : Len(conns'[r]) = Len(conns[r])
        BY <4>1, <4>2, <4>3, AmendConns DEF SocketsOK
      <4> QED BY <2>16, <4>4 DEF ServerReceive, ThreadsOK, SocketsOK
    <3> QED BY <3>1, <3>2, <3>3, <3>4
  <2>17. CASE ServerHangup(p)
    <3>1. SemsOK' BY <2>17 DEF ServerHangup, SemsOK
    <3>2. BuffersOK' BY <2>17 DEF ServerHangup, BuffersOK
    <3>3. ThreadsOK' BY <2>17 DEF ServerHangup, ThreadsOK
    <3>4. SocketsOK' BY <2>17 DEF ServerHangup, ThreadsOK, SocketsOK
    <3> QED BY <3>1, <3>2, <3>3, <3>4
  <2>18. CASE TrackerWrite(p)
    <3>1. SemsOK' BY <2>18, SMTT(40) DEF TrackerWrite, SemsOK
    <3>2. BuffersOK' BY <2>18 DEF TrackerWrite, BuffersOK
    <3>3. ThreadsOK' BY <2>18 DEF TrackerWrite, ThreadsOK
    <3>4. SocketsOK' BY <2>18 DEF TrackerWrite, ThreadsOK, SocketsOK
    <3> QED BY <3>1, <3>2, <3>3, <3>4
  <2> QED
    BY <2>1, <2>2, <2>3, <2>4, <2>5, <2>6, <2>7, <2>8, <2>9, <2>10, <2>11, <2>12, <2>13, <2>14, <2>15, <2>16, <2>17, <2>18
       DEF Brain, Client, Serve, Track
<1> QED BY <1>1, <1>2, PTL DEF Spec
-----------------------------------------------------------------------------
(* The semaphores *)

(* The token of the receive slot is in one place at most, and the mutex is *)
(* free exactly while it is in receive_vide or receive_plein: server and   *)
(* brain never use bufferServBrain at the same time.                       *)
THEOREM SlotCorrect == Spec => []ReceiveSlot
<1>1. Init => ReceiveSlot
  BY DEF Init, InitAt, Everywhere, ReceiveSlot
<1>2. TypeOK /\ ReceiveSlot /\ [Next]_vars => ReceiveSlot'
  <2> SUFFICES ASSUME TypeOK, ReceiveSlot, [Next]_vars PROVE ReceiveSlot'
    OBVIOUS
  <2> USE DEF TypeOK, SemsOK, ThreadsOK, ReceiveSlot, sem_wait, sem_post, Goto,
              receiveSems, sendingSems, trackerSems, sems, threads
  <2> SUFFICES ASSUME NEW p \in Procs,
                      Brain(p) \/ Client(p) \/ Serve(p) \/ ServerFails(p) \/ Track(p)
               PROVE  ReceiveSlot'
    BY DEF Next, Run, vars
  <2>1. CASE BrainSeed(p)
    BY <2>1 DEF BrainSeed
  <2>2. CASE BrainTake(p)
    BY <2>2 DEF BrainTake
  <2>3. CASE BrainCompose(p)
    BY <2>3 DEF BrainCompose, BrainFreeSlot
  <2>4. CASE BrainRewrite(p)
    BY <2>4 DEF BrainRewrite
  <2>5. CASE BrainTrack(p)
    BY <2>5 DEF BrainTrack
  <2>6. CASE ClientTake(p)
    BY <2>6 DEF ClientTake
  <2>7. CASE ClientConnect(p)
    BY <2>7 DEF ClientConnect
  <2>8. CASE ClientRefused(p)
    BY <2>8 DEF ClientRefused, ClientRelease
  <2>9. CASE ClientSend(p)
    BY <2>9 DEF ClientSend
  <2>10. CASE ClientClear(p)
    BY <2>10 DEF ClientClear
  <2>11. CASE ClientClose(p)
    BY <2>11 DEF ClientClose, ClientRelease
  <2>12. CASE ServerListen(p)
    BY <2>12 DEF ServerListen
  <2>13. CASE ServerFails(p)
    BY <2>13 DEF ServerFails
  <2>14. CASE ServerAccept(p)
    BY <2>14 DEF ServerAccept
  <2>15. CASE ServerTake(p)
    BY <2>15 DEF ServerTake
  <2>16. CASE ServerReceive(p)
    BY <2>16 DEF ServerReceive
  <2>17. CASE ServerHangup(p)
    BY <2>17 DEF ServerHangup
  <2>18. CASE TrackerWrite(p)
    BY <2>18 DEF TrackerWrite
  <2> QED
    BY <2>1, <2>2, <2>3, <2>4, <2>5, <2>6, <2>7, <2>8, <2>9, <2>10, <2>11, <2>12, <2>13, <2>14, <2>15, <2>16, <2>17, <2>18
       DEF Brain, Client, Serve, Track
<1> QED BY <1>1, <1>2, TypeCorrect, PTL DEF Spec

(* The client gives sending_mutex back on every path, so that it is held   *)
(* only while a connection is being made or used.                          *)
THEOREM SendingMutexCorrect == Spec => []SendingMutex
<1>1. Init => SendingMutex
  BY DEF Init, InitAt, Everywhere, SendingMutex
<1>2. TypeOK /\ SendingMutex /\ [Next]_vars => SendingMutex'
  <2> SUFFICES ASSUME TypeOK, SendingMutex, [Next]_vars PROVE SendingMutex'
    OBVIOUS
  <2> USE DEF TypeOK, SemsOK, ThreadsOK, SendingMutex, sem_wait, sem_post, Goto,
              receiveSems, sendingSems, trackerSems, sems, threads
  <2> SUFFICES ASSUME NEW p \in Procs,
                      Brain(p) \/ Client(p) \/ Serve(p) \/ ServerFails(p) \/ Track(p)
               PROVE  SendingMutex'
    BY DEF Next, Run, vars
  <2>1. CASE BrainSeed(p)
    BY <2>1 DEF BrainSeed
  <2>2. CASE BrainTake(p)
    BY <2>2 DEF BrainTake
  <2>3. CASE BrainCompose(p)
    BY <2>3 DEF BrainCompose, BrainFreeSlot
  <2>4. CASE BrainRewrite(p)
    BY <2>4 DEF BrainRewrite
  <2>5. CASE BrainTrack(p)
    BY <2>5 DEF BrainTrack
  <2>6. CASE ClientTake(p)
    BY <2>6 DEF ClientTake
  <2>7. CASE ClientConnect(p)
    BY <2>7 DEF ClientConnect
  <2>8. CASE ClientRefused(p)
    BY <2>8 DEF ClientRefused, ClientRelease
  <2>9. CASE ClientSend(p)
    BY <2>9 DEF ClientSend
  <2>10. CASE ClientClear(p)
    BY <2>10 DEF ClientClear
  <2>11. CASE ClientClose(p)
    BY <2>11 DEF ClientClose, ClientRelease
  <2>12. CASE ServerListen(p)
    BY <2>12 DEF ServerListen
  <2>13. CASE ServerFails(p)
    BY <2>13 DEF ServerFails
  <2>14. CASE ServerAccept(p)
    BY <2>14 DEF ServerAccept
  <2>15. CASE ServerTake(p)
    BY <2>15 DEF ServerTake
  <2>16. CASE ServerReceive(p)
    BY <2>16 DEF ServerReceive
  <2>17. CASE ServerHangup(p)
    BY <2>17 DEF ServerHangup
  <2>18. CASE TrackerWrite(p)
    BY <2>18 DEF TrackerWrite
  <2> QED
    BY <2>1, <2>2, <2>3, <2>4, <2>5, <2>6, <2>7, <2>8, <2>9, <2>10, <2>11, <2>12, <2>13, <2>14, <2>15, <2>16, <2>17, <2>18
       DEF Brain, Client, Serve, Track
<1> QED BY <1>1, <1>2, TypeCorrect, PTL DEF Spec

-----------------------------------------------------------------------------
(* At most one text *)

(* What each step does to the data of the connections there are: it stays, *)
(* but for what send puts in and recv takes out.                           *)
SameData(q, i) == i \in 1 .. Len(conns'[q]) /\ conns'[q][i].data = conns[q][i].data

(* Closing a connection changes none of the data waiting in any of them.   *)
LEMMA CloseKeepsData ==
  ASSUME SocketsOK, NEW p \in Procs, sock[p] \in 1 .. Len(conns[target[p]]),
         conns' = [conns EXCEPT ![target[p]][sock[p]].open = FALSE]
  PROVE  \A q \in Procs : \A i \in 1 .. Len(conns[q]) : SameData(q, i)
<1> DEFINE q == target[p]
           i == sock[p]
           c == [conns[q][i] EXCEPT !.open = FALSE]
<1>1. q \in Procs /\ i \in 1 .. Len(conns[q])
  BY DEF SocketsOK
<1>2. c \in Connection /\ c.data = conns[q][i].data
  BY <1>1, ConnType DEF Connection
<1>3. conns' = [conns EXCEPT ![q] = [@ EXCEPT ![i] = c]]
  OBVIOUS
<1> HIDE DEF c
<1> QED BY <1>1, <1>2, <1>3, AmendConns DEF SocketsOK, SameData

(* A connect adds an empty connection at the end of the queue of its       *)
(* target and changes none of the others.                                  *)
LEMMA ConnectKeepsData ==
  ASSUME SocketsOK, NEW p \in Procs, ClientConnect(p)
  PROVE  /\ \A q \in Procs : \A i \in 1 .. Len(conns[q]) : SameData(q, i)
         /\ sock'[p] = Len(conns[target[p]]) + 1
         /\ conns'[target[p]][sock'[p]].data = Empty
<1> DEFINE q == target[p]
           c == [data |-> Empty, open |-> TRUE]
<1>1. q \in Procs /\ conns[q] \in Seq(Connection) /\ c \in Connection
  BY ConstantTexts DEF SocketsOK, Connection
<1>2. conns' = [conns EXCEPT ![q] = Append(conns[q], c)] /\ sock'[p] = Len(conns[q]) + 1
  BY DEF ClientConnect, SocketsOK
<1>3. /\ Len(Append(conns[q], c)) = Len(conns[q]) + 1
      /\ \A i \in 1 .. Len(conns[q]) : Append(conns[q], c)[i] = conns[q][i]
      /\ Append(conns[q], c)[Len(conns[q]) + 1] = c
      /\ c.data = Empty
  BY <1>1, AppendProperties
<1> HIDE DEF c
<1>4. \A r \in Procs : Len(conns[r]) \in Nat
  BY LenProperties DEF SocketsOK
<1>5. \A r \in Procs : \A i \in 1 .. Len(conns[r]) : SameData(r, i)
  BY <1>1, <1>2, <1>3, <1>4 DEF SocketsOK, SameData
<1>6. conns'[q][sock'[p]] = c
  BY <1>1, <1>2, <1>3 DEF SocketsOK
<1> QED BY <1>2, <1>3, <1>5, <1>6

(* A send changes the data of the one connection the client has opened.    *)
LEMMA SendPutsData ==
  ASSUME SocketsOK, BuffersOK, NEW p \in Procs, ClientSend(p)
  PROVE  \A q \in Procs : \A i \in 1 .. Len(conns[q]) :
           (q = target[p] /\ i = sock[p]) \/ SameData(q, i)
<1> DEFINE q == target[p]
           i == sock[p]
           c == [conns[q][i] EXCEPT !.data = bufferBrainClient[p]]
<1>1. q \in Procs /\ i \in 1 .. Len(conns[q])
  BY DEF SocketsOK, ClientSend, Goto
<1>2. c \in Connection
  BY <1>1, ConnType DEF Connection, BuffersOK
<1>3. conns' = [conns EXCEPT ![q] = [@ EXCEPT ![i] = c]]
  BY DEF ClientSend
<1> HIDE DEF c
<1> QED BY <1>1, <1>2, <1>3, AmendConns DEF SocketsOK, SameData

(* A recv empties the connection the server has accepted last and leaves   *)
(* the data of the others.                                                 *)
LEMMA ReceiveTakesData ==
  ASSUME SocketsOK, NEW p \in Procs, ServerReceive(p)
  PROVE  /\ \A q \in Procs : \A i \in 1 .. Len(conns[q]) :
              (q = p /\ i = accepted[p]) \/ SameData(q, i)
         /\ conns'[p][accepted[p]].data = Empty
         /\ conns[p][accepted[p]].data # Empty
<1> DEFINE i == accepted[p]
           c == [conns[p][i] EXCEPT !.data = Empty]
<1>1. i \in 1 .. Len(conns[p])
  BY DEF SocketsOK, ServerReceive, Goto
<1>2. c \in Connection /\ c.data = Empty
  BY <1>1, ConnType, ConstantTexts DEF Connection
<1>3. conns' = [conns EXCEPT ![p] = [@ EXCEPT ![i] = c]] /\ conns[p][i].data # Empty
  BY DEF ServerReceive
<1> HIDE DEF c
<1> QED BY <1>1, <1>2, <1>3, AmendConns DEF SocketsOK, SameData

(* Every process's steps, for the proofs below.                            *)
Step(p) == Brain(p) \/ Client(p) \/ Serve(p) \/ ServerFails(p) \/ Track(p)

(* A connection whose client has yet to send holds no text: connect makes  *)
(* a connection of its own for each attempt.                               *)
THEOREM FreshCorrect == Spec => []FreshConnections
<1>1. Init => FreshConnections
  BY DEF Init, InitAt, Everywhere, FreshConnections
<1>2. TypeOK /\ FreshConnections /\ [Next]_vars => FreshConnections'
  <2> SUFFICES ASSUME TypeOK, FreshConnections, [Next]_vars PROVE FreshConnections'
    OBVIOUS
  <2> USE DEF TypeOK, ThreadsOK, SocketsOK, FreshConnections, SameData, Goto, sockets, threads
  <2> SUFFICES ASSUME NEW p \in Procs, Step(p) PROVE FreshConnections'
    BY DEF Next, Run, Step, vars
  <2>1. CASE UNCHANGED <<client, sockets>>
    BY <2>1
  <2>2. CASE ClientTake(p)
    BY <2>2 DEF ClientTake
  <2>3. CASE ClientConnect(p)
    <3>1. /\ \A q \in Procs : \A i \in 1 .. Len(conns[q]) : SameData(q, i)
          /\ sock'[p] = Len(conns[target[p]]) + 1
          /\ conns'[target[p]][sock'[p]].data = Empty
      BY <2>3, ConnectKeepsData
    <3>2. /\ target' = target /\ client' = [client EXCEPT ![p] = "send"]
          /\ \A r \in Procs \ {p} : sock'[r] = sock[r] /\ client'[r] = client[r]
      BY <2>3 DEF ClientConnect
    <3>3. \A r \in Procs \ {p} : client[r] = "send" => SameData(target[r], sock[r])
      BY <3>1
    <3>4. \A r \in Procs \ {p} : client[r] = "send" /\ target[r] = target[p] => sock[r] # sock'[p]
      <4>1. \A q \in Procs : Len(conns[q]) \in Nat
        BY LenProperties
      <4> QED BY <3>1, <4>1
    <3>5. \A r \in Procs \ {p} : client[r] = "send" => conns'[target[r]][sock[r]].data = Empty
      BY <3>3
    <3>6. ASSUME NEW r \in Procs, client'[r] = "send"
          PROVE  conns'[target'[r]][sock'[r]].data = Empty
      BY <3>1, <3>2, <3>5, <3>6
    <3>7. ASSUME NEW r \in Procs, NEW u \in Procs, client'[r] = "send", client'[u] = "send",
                 target'[u] = target'[r], sock'[u] = sock'[r]
          PROVE  u = r
      BY <3>2, <3>4, <3>7
    <3> QED BY <3>6, <3>7
  <2>4. CASE ClientRefused(p) \/ ClientClear(p)
    BY <2>4, SMTT(40) DEF ClientRefused, ClientClear
  <2>5. CASE ClientSend(p)
    <3>1. \A q \in Procs : \A i \in 1 .. Len(conns[q]) :
            (q = target[p] /\ i = sock[p]) \/ SameData(q, i)
      BY <2>5, SendPutsData
    <3>2. UNCHANGED <<target, sock>> /\ client[p] = "send" /\ client' = [client EXCEPT ![p] = "clear"]
      BY <2>5 DEF ClientSend
    <3>3. \A r \in Procs \ {p} : client[r] = "send" => SameData(target[r], sock[r])
      BY <3>1, <3>2, SMTT(40)
    <3> QED BY <3>2, <3>3
  <2>6. CASE ClientClose(p)
    <3>1. \A q \in Procs : \A i \in 1 .. Len(conns[q]) : SameData(q, i)
      BY <2>6, CloseKeepsData DEF ClientClose
    <3>2. UNCHANGED <<target, sock>> /\ client' = [client EXCEPT ![p] = "take"]
      BY <2>6 DEF ClientClose
    <3> QED BY <3>1, <3>2
  <2>7. CASE ServerFails(p)
    <3>1. CASE client[p] \in {"send", "clear", "close"}
      BY <2>7, <3>1, CloseKeepsData, SMTT(40) DEF ServerFails
    <3>2. CASE client[p] \notin {"send", "clear", "close"}
      BY <2>7, <3>2 DEF ServerFails
    <3> QED BY <3>1, <3>2
  <2>8. CASE ServerReceive(p)
    BY <2>8, ReceiveTakesData, SMTT(40) DEF ServerReceive
  <2>9. CASE Brain(p) \/ Track(p)
    <3>1. UNCHANGED <<client, sockets>>
      BY <2>9 DEF Brain, BrainSeed, BrainTake, BrainCompose, BrainRewrite, BrainTrack,
                  Track, TrackerWrite
    <3> QED BY <2>1, <3>1
  <2>10. CASE ServerListen(p) \/ ServerAccept(p)
    BY <2>10 DEF ServerListen, ServerAccept
  <2>11. CASE ServerTake(p) \/ ServerHangup(p)
    BY <2>11 DEF ServerTake, ServerHangup
  <2> QED
    BY <2>2, <2>3, <2>4, <2>5, <2>6, <2>7, <2>8, <2>9, <2>10, <2>11 DEF Step, Client, Serve
<1> QED BY <1>1, <1>2, TypeCorrect, PTL DEF Spec

(* A spent connection stays spent, whatever any process does.              *)
LEMMA SpentStays ==
  ASSUME TypeOK, FreshConnections, NEW p \in Procs, Step(p),
         NEW q \in Procs, NEW i \in 1 .. Len(conns[q]), Spent(q, i)
  PROVE  /\ conns'[q][i].data = Empty
         /\ \A u \in Procs : client'[u] = "send" => ~(target'[u] = q /\ sock'[u] = i)
<1> USE DEF TypeOK, ThreadsOK, SocketsOK, Spent, SameData, Goto, sockets, threads
<1>1. CASE UNCHANGED <<client, sockets>>
  BY <1>1
<1>2. CASE UNCHANGED <<client, target, sock, conns>>
  BY <1>2
<1>3. CASE ClientTake(p)
  BY <1>3 DEF ClientTake
<1>4. CASE ClientConnect(p)
  <2>1. /\ SameData(q, i)
        /\ sock'[p] = Len(conns[target[p]]) + 1
    BY <1>4, ConnectKeepsData
  <2>2. /\ target' = target /\ client' = [client EXCEPT ![p] = "send"]
        /\ \A u \in Procs \ {p} : sock'[u] = sock[u] /\ client'[u] = client[u]
    BY <1>4 DEF ClientConnect
  <2>3. target[p] = q => sock'[p] # i
    BY <2>1
  <2> QED BY <2>1, <2>2, <2>3
<1>5. CASE ClientRefused(p) \/ ClientClear(p)
  BY <1>5 DEF ClientRefused, ClientClear
<1>6. CASE ClientSend(p)
  <2>1. UNCHANGED <<target, sock>> /\ client[p] = "send" /\ client' = [client EXCEPT ![p] = "clear"]
    BY <1>6 DEF ClientSend
  <2>2. SameData(q, i)
    BY <1>6, <2>1, SendPutsData
  <2> QED BY <2>1, <2>2
<1>7. CASE ClientClose(p)
  <2>1. SameData(q, i)
    BY <1>7, CloseKeepsData DEF ClientClose
  <2> QED BY <1>7, <2>1 DEF ClientClose
<1>8. CASE ServerFails(p)
  <2>1. SameData(q, i)
    BY <1>8, CloseKeepsData DEF ServerFails
  <2> QED BY <1>8, <2>1 DEF ServerFails
<1>9. CASE ServerReceive(p)
  <2>1. (q = p /\ i = accepted[p] /\ conns'[q][i].data = Empty) \/ SameData(q, i)
    BY <1>9, ReceiveTakesData
  <2> QED BY <1>9, <2>1 DEF ServerReceive
<1> QED
  BY <1>1, <1>2, <1>3, <1>4, <1>5, <1>6, <1>7, <1>8, <1>9
     DEF Step, Brain, BrainSeed, BrainTake, BrainCompose, BrainRewrite, BrainTrack,
         Client, Serve, ServerListen, ServerAccept, ServerTake, ServerHangup,
         Track, TrackerWrite

(* The inductive invariant behind OnceCorrect.                             *)
Inv == TypeOK /\ ReceiveSlot /\ FreshConnections /\ Once

(* What a step of p leaves alone of another process.                       *)
LEMMA OthersUntouched ==
  ASSUME TypeOK, NEW p \in Procs, Step(p), NEW r \in Procs \ {p}
  PROVE  /\ accepted'[r] = accepted[r] /\ server'[r] = server[r] /\ brain'[r] = brain[r]
         /\ receive_plein'[r] = receive_plein[r] /\ receive_mutex'[r] = receive_mutex[r]
         /\ bufferClient'[r] = bufferClient[r] /\ bufferServBrain'[r] = bufferServBrain[r]
<1> USE DEF TypeOK, SemsOK, BuffersOK, ThreadsOK, SocketsOK, Goto, sem_wait, sem_post,
            receiveSems, sems, buffers, threads, sockets
<1>1. CASE Brain(p)
  BY <1>1, ZenonT(60)
     DEF Brain, BrainSeed, BrainTake, BrainCompose, BrainFreeSlot, BrainRewrite, BrainTrack
<1>2. CASE Client(p)
  BY <1>2 DEF Client, ClientTake, ClientConnect, ClientRefused, ClientSend, ClientClear,
              ClientClose
<1>3. CASE Serve(p) \/ ServerFails(p)
  <2>1. CASE ServerReceive(p)
    BY <2>1 DEF ServerReceive
  <2>2. CASE ServerAccept(p)
    BY <2>2 DEF ServerAccept
  <2>3. CASE ServerTake(p)
    BY <2>3 DEF ServerTake
  <2>4. CASE ServerListen(p) \/ ServerFails(p) \/ ServerHangup(p)
    BY <2>4 DEF ServerListen, ServerFails, ServerHangup
  <2> QED BY <1>3, <2>1, <2>2, <2>3, <2>4 DEF Serve
<1>4. CASE Track(p)
  BY <1>4 DEF Track, TrackerWrite
<1> QED BY <1>1, <1>2, <1>3, <1>4 DEF Step

(* A process uses up the token of its receive slot with its first text:    *)
(* once the brain has a text, the server is never again at a connection    *)
(* with a place to receive in.                                             *)
THEOREM OnceCorrect == Spec => []Once
<1>1. Init => Once
  BY DEF Init, InitAt, Everywhere, Once, OneText, Got
<1>2. Inv /\ [Next]_vars => Once'
  <2> SUFFICES ASSUME Inv, [Next]_vars PROVE Once'
    OBVIOUS
  <2>1. CASE UNCHANGED vars
    BY <2>1 DEF Inv, Once, OneText, Got, Jammed, Spent,
                vars, sems, receiveSems, buffers, threads, sockets
  <2> SUFFICES ASSUME NEW p \in Procs, Step(p) PROVE Once'
    BY <2>1 DEF Next, Run, Step
  <2> USE DEF Inv, TypeOK
  (* A connection its server does not leave stays spent. *)
  <2>2. ASSUME NEW r \in Procs, server[r] \in {"take", "recv"}, Spent(r, accepted[r]),
               accepted'[r] = accepted[r]
        PROVE  Spent(r, accepted[r])'
    <3>1. accepted[r] \in 1 .. Len(conns[r])
      BY <2>2, LenProperties DEF SocketsOK
    <3>2. /\ conns'[r][accepted[r]].data = Empty
          /\ \A u \in Procs : client'[u] = "send" => ~(target'[u] = r /\ sock'[u] = accepted[r])
      BY <2>2, <3>1, SpentStays
    <3> QED BY <2>2, <3>2 DEF Spent
  <2>3. ASSUME NEW r \in Procs \ {p} PROVE OneText(r)'
    BY <2>2, OthersUntouched DEF Once, OneText, Got, Jammed, ThreadsOK
  <2>4. OneText(p)'
    <3> USE DEF SemsOK, ThreadsOK, ReceiveSlot, Once, OneText, Got, Jammed, Goto, sem_wait, sem_post,
                receiveSems, sendingSems, trackerSems, sems, buffers, threads, sockets
    <3>1. CASE BrainSeed(p)
      BY <2>2, <3>1 DEF BrainSeed, SocketsOK
    <3>2. CASE BrainTake(p)
      BY <2>2, <3>2, SMTT(40) DEF BrainTake, SocketsOK, BuffersOK
    <3>3. CASE BrainCompose(p)
      BY <2>2, <3>3 DEF BrainCompose, SocketsOK, BrainFreeSlot
    <3>4. CASE BrainRewrite(p)
      BY <2>2, <3>4 DEF BrainRewrite, SocketsOK
    <3>5. CASE BrainTrack(p)
      BY <2>2, <3>5 DEF BrainTrack, SocketsOK
    <3>6. CASE ClientTake(p)
      BY <2>2, <3>6 DEF ClientTake, SocketsOK
    <3>7. CASE ClientConnect(p)
      BY <2>2, <3>7 DEF ClientConnect, SocketsOK
    <3>8. CASE ClientRefused(p)
      BY <2>2, <3>8 DEF ClientRefused, SocketsOK
    <3>9. CASE ClientSend(p)
      BY <2>2, <3>9 DEF ClientSend, SocketsOK
    <3>10. CASE ClientClear(p)
      BY <2>2, <3>10 DEF ClientClear, SocketsOK
    <3>11. CASE ClientClose(p)
      BY <2>2, <3>11 DEF ClientClose, SocketsOK
    <3>12. CASE ServerListen(p)
      BY <2>2, <3>12 DEF ServerListen, SocketsOK
    <3>13. CASE ServerFails(p)
      BY <2>2, <3>13 DEF ServerFails, SocketsOK
    <3>14. CASE ServerAccept(p)
      BY <2>2, <3>14 DEF ServerAccept, SocketsOK
    <3>15. CASE ServerTake(p)
      BY <2>2, <3>15, SMTT(40) DEF ServerTake, SocketsOK, BuffersOK
    <3>16. CASE ServerReceive(p)
      <4>1. /\ conns'[p][accepted[p]].data = Empty
            /\ conns[p][accepted[p]].data # Empty
        BY <3>16, ReceiveTakesData
      <4>2. \A u \in Procs : client[u] = "send" => ~(target[u] = p /\ sock[u] = accepted[p])
        BY <4>1 DEF FreshConnections
      <4>3. UNCHANGED <<client, target, sock, accepted, bufferClient, brain>>
        BY <3>16 DEF ServerReceive
      <4>4. Spent(p, accepted[p])'
        BY <4>1, <4>2, <4>3 DEF Spent
      <4>5. ~Spent(p, accepted[p]) /\ ~Jammed(p)
        BY <3>16, <4>1 DEF Spent, ServerReceive
      <4>6. receive_plein[p] = 0 /\ bufferClient[p] = Empty /\ brain[p] # "compose"
        BY <3>16, <4>5 DEF ServerReceive
      <4>7. /\ server'[p] = "take" /\ receive_plein'[p] = 1
            /\ bufferServBrain'[p] = conns[p][accepted[p]].data
        BY <3>16, <4>6 DEF ServerReceive, BuffersOK
      <4> HIDE DEF Jammed
      <4> QED BY <4>1, <4>3, <4>4, <4>6, <4>7
    <3>17. CASE ServerHangup(p)
      BY <2>2, <3>17 DEF ServerHangup, SocketsOK
    <3>18. CASE TrackerWrite(p)
      BY <2>2, <3>18 DEF TrackerWrite, SocketsOK
    <3> QED
      BY <3>1, <3>2, <3>3, <3>4, <3>5, <3>6, <3>7, <3>8, <3>9,
         <3>10, <3>11, <3>12, <3>13, <3>14, <3>15, <3>16, <3>17, <3>18
         DEF Step, Brain, Client, Serve, Track
  <2> QED BY <2>3, <2>4 DEF Once
<1> QED BY <1>1, <1>2, TypeCorrect, SlotCorrect, FreshCorrect, PTL DEF Spec, Inv

(* No step makes a brain take a text in the place of one it has.           *)
LEMMA TextStays ==
  ASSUME Inv, NEW p \in Procs, Step(p), NEW q \in Procs, bufferClient[q] # Empty
  PROVE  bufferClient'[q] = bufferClient[q]
<1>1. CASE q # p
  BY <1>1, OthersUntouched DEF Inv
<1>2. CASE BrainTake(p)
  BY <1>1, <1>2 DEF Inv, Once, OneText, BrainTake, sem_wait, TypeOK, SemsOK
<1>3. CASE ~BrainTake(p)
  BY <1>3 DEF Step, Brain, BrainSeed, BrainCompose, BrainRewrite, BrainTrack, Client, ClientTake,
              ClientConnect, ClientRefused, ClientSend, ClientClear, ClientClose, Serve,
              ServerListen, ServerFails, ServerAccept, ServerTake, ServerReceive, ServerHangup,
              Track, TrackerWrite, buffers
<1> QED BY <1>1, <1>2, <1>3

(* A process relays at most one text: what its brain has taken, it keeps.  *)
THEOREM RelaysAtMostOnce == Spec => AtMostOneText
<1>1. Inv /\ [Next]_vars
        => [\A p \in Procs : bufferClient[p] # Empty => bufferClient'[p] = bufferClient[p]]_vars
  BY TextStays DEF Next, Run, Step
<1> QED BY <1>1, TypeCorrect, SlotCorrect, FreshCorrect, OnceCorrect, PTL DEF Spec, Inv, AtMostOneText

(* When a peer has hung up, the receive slot is lost.                      *)
THEOREM HangupLosesSlot == Spec => []HangupJams
<1>1. Once => HangupJams
  BY DEF Once, OneText, HangupJams
<1> QED BY <1>1, OnceCorrect, PTL

(* Both together: slot and connection have at most one owner on every path *)
(* through the threads, those of a hangup and of a refused connect too.    *)
THEOREM ExclusionCorrect == Spec => []Exclusion
<1>1. ReceiveSlot /\ SendingMutex => Exclusion
  BY DEF Exclusion
<1> QED BY <1>1, SlotCorrect, SendingMutexCorrect, PTL

-----------------------------------------------------------------------------
(* The relay is the hop trace it promises to be: where the texts come      *)
(* from, why only the starter can damage one, how often each reaches the   *)
(* observer.                                                               *)

(* What p has stamped, and what another process may get from p.            *)
Stamped(p) == Stamp(bufferClient[p], p)

Offers(p) ==
  (IF p = Starter THEN {Greeting} ELSE {})
    \cup (IF bufferClient[p] = Empty THEN {}
          ELSE IF p = Starter THEN Cuts(Stamped(p)) \ {Empty} ELSE {Stamped(p)})

Offered(p, m) == \E q \in Procs \ {p} : m \in Offers(q)

(* Nothing but empty strings is anywhere on its way to a brain.            *)
Silent ==
  \A q \in Procs : /\ bufferClient[q] = Empty /\ receive_plein[q] = 0
                    /\ \A i \in 1 .. Len(conns[q]) : conns[q][i].data = Empty

(* p has not announced a text it has received.                             *)
Unannounced(p) == bufferClient[p] = Empty \/ brain[p] = "compose"

(* The announcement of the greeting is the only one of the starter before  *)
(* it gets a text, and it gets none before it has sent the greeting.       *)
OneGreeting(p) ==
  /\ brain[p] = "seed" => Silent /\ sending_plein[p] = 0 /\ client[p] = "take"
  /\ Unannounced(p) =>
       \/ sending_plein[p] = 0 /\ client[p] \in {"take", "clear", "close"}
       \/ Silent /\ sending_plein[p] <= 1 /\ (sending_plein[p] = 1 => client[p] = "take")

(* The client of another process has nothing to do before its brain has    *)
(* composed a text.                                                        *)
ClientSleeps(p) ==
  /\ brain[p] # "seed"
  /\ Unannounced(p) => sending_plein[p] = 0 /\ client[p] = "take"

AnnouncedBy(p) ==
  /\ brain[p] \in {"compose", "rewrite", "track"} => bufferClient[p] # Empty
  /\ IF p = Starter THEN OneGreeting(p) ELSE ClientSleeps(p)

Announced == \A p \in Procs : AnnouncedBy(p)

-----------------------------------------------------------------------------
(* What the steps do to other processes and to the connections *)

(* Of another process, a step of p leaves client, announcements and        *)
(* buffers as they are.                                                    *)
LEMMA OthersKeep ==
  ASSUME TypeOK, NEW p \in Procs, Step(p), NEW r \in Procs \ {p}
  PROVE  /\ client'[r] = client[r] /\ target'[r] = target[r]
         /\ sending_plein'[r] = sending_plein[r] /\ tracker_plein'[r] = tracker_plein[r]
         /\ bufferBrainClient'[r] = bufferBrainClient[r]
         /\ bufferBrainTracker'[r] = bufferBrainTracker[r]
<1> USE DEF TypeOK, SemsOK, BuffersOK, ThreadsOK, SocketsOK, Goto, sem_wait, sem_post,
            receiveSems, sendingSems, trackerSems, sems, buffers, threads, sockets
<1>1. CASE BrainSeed(p)
  BY <1>1 DEF BrainSeed
<1>2. CASE BrainTake(p)
  BY <1>2 DEF BrainTake
<1>3. CASE BrainCompose(p)
  <2>1. PICK m : bufferBrainClient' = [bufferBrainClient EXCEPT ![p] = m]
    BY <1>3 DEF BrainCompose
  <2> QED BY <1>3, <2>1 DEF BrainCompose
<1>4. CASE BrainRewrite(p) \/ BrainTrack(p)
  <2>1. CASE BrainRewrite(p)
    BY <2>1, SMTT(30) DEF BrainRewrite
  <2>2. CASE BrainTrack(p)
    BY <2>2, SMTT(30) DEF BrainTrack
  <2> QED BY <1>4, <2>1, <2>2
<1>5. CASE ClientTake(p)
  BY <1>5 DEF ClientTake
<1>6. CASE ClientConnect(p)
  BY <1>6 DEF ClientConnect
<1>7. CASE ClientRefused(p) \/ ClientClose(p)
  <2>1. /\ UNCHANGED <<sending_plein, tracker_plein, buffers, target>>
        /\ client' = [client EXCEPT ![p] = "take"]
    BY <1>7 DEF ClientRefused, ClientClose
  <2> QED BY <2>1
<1>8. CASE ClientClear(p)
  BY <1>8 DEF ClientClear
<1>9. CASE Serve(p) \/ ServerFails(p)
  BY <1>9 DEF Serve, ServerListen, ServerAccept, ServerTake, ServerReceive, ServerHangup, ServerFails
<1>10. CASE ClientSend(p)
  <2>1. UNCHANGED <<sems, buffers, target>> /\ client' = [client EXCEPT ![p] = "clear"]
    BY <1>10 DEF ClientSend
  <2> QED BY <2>1
<1>11. CASE TrackerWrite(p)
  BY <1>11 DEF TrackerWrite
<1> QED
  BY <1>1, <1>2, <1>3, <1>4, <1>5, <1>6, <1>7, <1>8, <1>9, <1>10, <1>11 DEF Step, Brain, Client, Track

(* What connection i of q holds after a step of p it held before, unless   *)
(* it is nothing or p has just sent it.                                    *)
OldData(q, i) == i \in 1 .. Len(conns[q]) /\ conns'[q][i].data = conns[q][i].data
SentBy(p, q, i) ==
  ClientSend(p) /\ q = target[p] /\ conns'[q][i].data = bufferBrainClient[p]

(* Data gets on a connection by a send only.                               *)
LEMMA DataIsSent ==
  ASSUME TypeOK, NEW p \in Procs, Step(p), NEW q \in Procs, NEW i \in 1 .. Len(conns'[q])
  PROVE  conns'[q][i].data = Empty \/ OldData(q, i) \/ SentBy(p, q, i)
<1>1. /\ SocketsOK /\ BuffersOK /\ conns \in [Procs -> Seq(Connection)]
      /\ target[p] \in Procs
      /\ client[p] \in {"send", "clear", "close"} => sock[p] \in 1 .. Len(conns[target[p]])
      /\ server[p] \in {"take", "recv"} => accepted[p] \in 1 .. Len(conns[p])
  BY DEF TypeOK, SocketsOK
<1>2. CASE UNCHANGED conns
  BY <1>1, <1>2 DEF OldData
<1>3. CASE ClientConnect(p)
  <2> DEFINE t == target[p]
             c == [data |-> Empty, open |-> TRUE]
  <2>1. t \in Procs /\ conns[t] \in Seq(Connection) /\ c \in Connection
    BY <1>1, ConstantTexts DEF Connection
  <2>2. conns' = [conns EXCEPT ![t] = Append(conns[t], c)]
    BY <1>3 DEF ClientConnect
  <2>3. /\ Len(Append(conns[t], c)) = Len(conns[t]) + 1
        /\ \A k \in 1 .. Len(conns[t]) : Append(conns[t], c)[k] = conns[t][k]
        /\ Append(conns[t], c)[Len(conns[t]) + 1] = c
        /\ c.data = Empty
    BY <2>1, AppendProperties
  <2>4. Len(conns[t]) \in Nat
    BY <2>1, LenProperties
  <2> HIDE DEF c
  <2> QED BY <1>1, <2>1, <2>2, <2>3, <2>4 DEF OldData
<1>4. CASE ClientSend(p)
  <2> DEFINE c == [conns[target[p]][sock[p]] EXCEPT !.data = bufferBrainClient[p]]
  <2>1. sock[p] \in 1 .. Len(conns[target[p]])
    BY <1>1, <1>4 DEF ClientSend, Goto
  <2>2. c \in Connection /\ c.data = bufferBrainClient[p]
    <3>1. conns[target[p]][sock[p]] \in Connection /\ bufferBrainClient[p] \in Text
      BY <1>1, <2>1, ConnType DEF BuffersOK
    <3> QED BY <3>1 DEF Connection
  <2>3. conns' = [conns EXCEPT ![target[p]] = [@ EXCEPT ![sock[p]] = c]]
    BY <1>4 DEF ClientSend
  <2> HIDE DEF c
  <2>4. (q = target[p] /\ i = sock[p] /\ conns'[q][i] = c) \/ OldData(q, i)
    BY <2>1, <2>2, <2>3, AmendConns, <1>1 DEF OldData
  <2> QED BY <1>4, <2>2, <2>4 DEF SentBy
<1>5. CASE ClientClose(p) \/ (ServerFails(p) /\ client[p] \in {"send", "clear", "close"})
  <2> DEFINE c == [conns[target[p]][sock[p]] EXCEPT !.open = FALSE]
  <2>1. sock[p] \in 1 .. Len(conns[target[p]])
    <3>1. client[p] \in {"send", "clear", "close"}
      BY <1>5 DEF ClientClose, Goto
    <3> QED BY <1>1, <3>1
  <2>2. c \in Connection /\ c.data = conns[target[p]][sock[p]].data
    <3>1. conns[target[p]][sock[p]] \in Connection
      BY <1>1, <2>1, ConnType
    <3> QED BY <3>1 DEF Connection
  <2>3. conns' = [conns EXCEPT ![target[p]] = [@ EXCEPT ![sock[p]] = c]]
    BY <1>5 DEF ClientClose, ServerFails
  <2> HIDE DEF c
  <2> QED BY <2>1, <2>2, <2>3, AmendConns, <1>1 DEF OldData
<1>6. CASE ServerReceive(p)
  <2> DEFINE c == [conns[p][accepted[p]] EXCEPT !.data = Empty]
  <2>1. accepted[p] \in 1 .. Len(conns[p])
    BY <1>1, <1>6 DEF ServerReceive, Goto
  <2>2. c \in Connection /\ c.data = Empty
    BY <1>1, <2>1, ConnType, ConstantTexts DEF Connection
  <2>3. conns' = [conns EXCEPT ![p] = [@ EXCEPT ![accepted[p]] = c]]
    BY <1>6 DEF ServerReceive
  <2> HIDE DEF c
  <2> QED BY <2>1, <2>2, <2>3, AmendConns, <1>1 DEF OldData
<1>7. CASE Brain(p) \/ Track(p)
  BY <1>2, <1>7 DEF Brain, BrainSeed, BrainTake, BrainCompose, BrainRewrite, BrainTrack, Track, TrackerWrite,
                   sockets
<1>8. CASE ClientTake(p) \/ ClientRefused(p) \/ ClientClear(p)
  BY <1>2, <1>8 DEF ClientTake, ClientRefused, ClientClear, sockets
<1>9. CASE ServerFails(p) /\ ~(client[p] \in {"send", "clear", "close"})
  BY <1>2, <1>9 DEF ServerFails
<1>10. CASE ServerListen(p) \/ ServerAccept(p) \/ ServerTake(p) \/ ServerHangup(p)
  BY <1>2, <1>10 DEF sockets, ServerListen, ServerAccept, ServerTake, ServerHangup
<1> QED
  BY <1>3, <1>4, <1>5, <1>6, <1>7, <1>8, <1>9, <1>10 DEF Step, Client, Serve

(* While nothing is on its way to a brain, only a send changes that.       *)
LEMMA SilenceStays ==
  ASSUME TypeOK, Silent, NEW p \in Procs, Step(p), ~ClientSend(p)
  PROVE  Silent'
<1>1. ~BrainTake(p)
  BY DEF BrainTake, sem_wait, Silent
<1>2. ~ServerReceive(p)
  <2>1. server[p] = "recv" => accepted[p] \in 1 .. Len(conns[p])
    BY DEF TypeOK, SocketsOK
  <2> QED BY <2>1 DEF ServerReceive, Goto, Silent
<1>3. UNCHANGED <<bufferClient, receive_plein>>
  BY <1>1, <1>2
     DEF Step, Brain, BrainSeed, BrainCompose, BrainRewrite, BrainTrack, BrainFreeSlot,
         Client, ClientTake, ClientConnect, ClientRefused, ClientClear, ClientClose, ServerFails,
         Serve, ServerListen, ServerAccept, ServerTake, ServerHangup, Track, TrackerWrite,
         receiveSems, sems, buffers
<1>4. ASSUME NEW q \in Procs, NEW i \in 1 .. Len(conns'[q])
      PROVE  conns'[q][i].data = Empty
  BY <1>4, DataIsSent DEF Silent, OldData, SentBy
<1> QED BY <1>3, <1>4 DEF Silent

(* A process whose brain, client and announcements a step leaves alone is  *)
(* where it was, as long as silence stays.                                 *)
LEMMA UntouchedAnnounced ==
  ASSUME NEW r \in Procs, AnnouncedBy(r), Silent => Silent',
         brain'[r] = brain[r], client'[r] = client[r],
         bufferClient'[r] = bufferClient[r], sending_plein'[r] = sending_plein[r]
  PROVE  AnnouncedBy(r)'
BY DEF AnnouncedBy, OneGreeting, ClientSleeps, Unannounced

-----------------------------------------------------------------------------
(* Announcements *)

(* Before the brain of a process has announced the text it received, its   *)
(* client sleeps; that of the starter is at most still at the greeting.    *)
THEOREM AnnouncedCorrect == Spec => []Announced
<1>1. Init => Announced
  <2> SUFFICES ASSUME Init, NEW p \in Procs PROVE AnnouncedBy(p)
    BY DEF Announced
  <2>1. /\ bufferClient[p] = Empty /\ sending_plein[p] = 0 /\ client[p] = "take"
        /\ brain[p] = IF p = Starter THEN "seed" ELSE "take"
    BY DEF Init, InitAt, Everywhere
  <2>2. Silent
    <3>1. Len(<<>>) = 0
      BY EmptySeq
    <3> QED BY <3>1 DEF Init, InitAt, Everywhere, Silent
  <2> QED BY <2>1, <2>2 DEF AnnouncedBy, OneGreeting, ClientSleeps, Unannounced
<1>2. Inv /\ Announced /\ [Next]_vars => Announced'
  <2> SUFFICES ASSUME Inv, Announced, [Next]_vars PROVE Announced'
    OBVIOUS
  <2>1. CASE UNCHANGED vars
    BY <2>1 DEF Announced, AnnouncedBy, OneGreeting, ClientSleeps, Unannounced, Silent,
                vars, sems, receiveSems, sendingSems, buffers, threads, sockets
  <2> SUFFICES ASSUME NEW p \in Procs, Step(p) PROVE Announced'
    BY <2>1 DEF Next, Run, Step
  <2> USE DEF Inv
  <2>2. AnnouncedBy(p)
    BY DEF Announced
  <2>3. /\ brain[p] \in {"seed", "take", "compose", "rewrite", "track"}
        /\ brain \in [Procs -> {"seed", "take", "compose", "rewrite", "track"}]
        /\ client \in [Procs -> {"take", "connect", "send", "clear", "close"}]
        /\ sending_plein \in [Procs -> Nat] /\ bufferClient \in [Procs -> Text]
        /\ receive_plein \in [Procs -> Nat]
    BY DEF TypeOK, ThreadsOK, SemsOK, BuffersOK
  <2>4. Silent /\ ~ClientSend(p) => Silent'
    BY SilenceStays
  <2>5. Silent /\ p # Starter => Silent'
    BY <2>2, <2>4 DEF AnnouncedBy, ClientSleeps, Unannounced, Silent, ClientSend, Goto
  <2>6. ASSUME NEW r \in Procs \ {p} PROVE AnnouncedBy(r)'
    <3>1. CASE r = Starter
      BY <2>5, <3>1, OthersKeep, OthersUntouched, UntouchedAnnounced DEF Announced
    <3>2. CASE r # Starter
      BY <3>2, OthersKeep, OthersUntouched DEF Announced, AnnouncedBy, ClientSleeps, Unannounced
    <3> QED BY <3>1, <3>2
  <2>7. AnnouncedBy(p)'
    <3> USE DEF Goto, sem_wait, sem_post
    <3>1. CASE BrainSeed(p)
      <4>1. brain[p] = "seed" /\ brain'[p] = "take" /\ sending_plein'[p] = sending_plein[p] + 1
            /\ client' = client /\ bufferClient' = bufferClient
        BY <2>3, <3>1 DEF BrainSeed
      <4>2. ~ClientSend(p)
        BY <2>2, <4>1 DEF AnnouncedBy, OneGreeting, ClientSleeps, ClientSend
      <4> QED BY <2>2, <2>4, <4>1, <4>2 DEF AnnouncedBy, OneGreeting, ClientSleeps, Unannounced
    <3>2. CASE BrainTake(p)
      <4>1. /\ receive_plein[p] > 0 /\ brain'[p] = "compose"
            /\ bufferClient'[p] = bufferServBrain[p]
            /\ UNCHANGED <<client, sending_plein>>
        BY <2>3, <3>2 DEF BrainTake, sendingSems
      <4>2. bufferClient[p] = Empty /\ bufferServBrain[p] # Empty
        BY <4>1 DEF Once, OneText
      <4>3. ~Silent
        BY <2>3, <4>1 DEF Silent
      <4> QED BY <2>2, <4>1, <4>2, <4>3 DEF AnnouncedBy, OneGreeting, ClientSleeps, Unannounced
    <3>3. CASE BrainCompose(p) \/ BrainRewrite(p) \/ BrainTrack(p)
      <4>1. /\ brain[p] \in {"compose", "rewrite", "track"}
            /\ brain'[p] \in {"rewrite", "track", "take"}
            /\ bufferClient' = bufferClient
        BY <2>3, <3>3 DEF BrainCompose, BrainRewrite, BrainTrack
      <4>2. bufferClient[p] # Empty
        BY <2>2, <4>1 DEF AnnouncedBy
      <4> QED BY <4>1, <4>2 DEF AnnouncedBy, OneGreeting, ClientSleeps, Unannounced
    <3>4. CASE ClientTake(p)
      <4>1. /\ client[p] = "take" /\ client'[p] = "connect" /\ UNCHANGED <<brain, bufferClient>>
            /\ sending_plein[p] > 0 /\ sending_plein'[p] = sending_plein[p] - 1
        BY <2>3, <3>4 DEF ClientTake, buffers
      <4>2. Silent => Silent'
        BY <2>4, <4>1 DEF ClientSend
      <4> QED BY <2>2, <2>3, <4>1, <4>2 DEF AnnouncedBy, OneGreeting, ClientSleeps, Unannounced
    <3>5. CASE ClientConnect(p)
      <4>1. /\ client[p] = "connect" /\ client'[p] = "send"
            /\ UNCHANGED <<brain, bufferClient, sending_plein>>
        BY <2>3, <3>5 DEF ClientConnect, buffers, sems, sendingSems
      <4>2. Silent => Silent'
        BY <2>4, <4>1 DEF ClientSend
      <4> QED BY <2>2, <2>3, <4>1, <4>2 DEF AnnouncedBy, OneGreeting, ClientSleeps, Unannounced
    <3>6. CASE ClientRefused(p) \/ ClientSend(p) \/ ClientClear(p) \/ ClientClose(p)
      <4>1. /\ client[p] # "take" /\ client'[p] \in {"take", "clear", "close"}
            /\ UNCHANGED <<brain, bufferClient, sending_plein>>
        BY <2>3, <3>6
           DEF ClientRefused, ClientSend, ClientClear, ClientClose, buffers, sems, sendingSems
      <4> QED BY <2>2, <2>3, <4>1 DEF AnnouncedBy, OneGreeting, ClientSleeps, Unannounced
    <3>7. CASE Serve(p) \/ ServerFails(p) \/ Track(p)
      <4>1. UNCHANGED <<brain, client, bufferClient, sending_plein>>
        BY <3>7 DEF Serve, ServerListen, ServerAccept, ServerTake, ServerReceive, ServerHangup,
                    ServerFails, Track, TrackerWrite, buffers, sems, sendingSems, threads
      <4>2. CASE ClientSend(p)
        BY <2>3, <4>1, <4>2 DEF ClientSend
      <4> QED BY <2>2, <2>4, <4>1, <4>2, UntouchedAnnounced
    <3> QED
      BY <3>1, <3>2, <3>3, <3>4, <3>5, <3>6, <3>7 DEF Step, Brain, Client
  <2> QED BY <2>6, <2>7 DEF Announced
<1> QED BY <1>1, <1>2, TypeCorrect, SlotCorrect, FreshCorrect, OnceCorrect, PTL DEF Spec, Inv

(* Brain and client meet in bufferBrainClient only in the starter, between *)
(* the send of the greeting and the memset after it.                       *)
THEOREM RaceCorrect == Spec => []RaceOnlyAtStarter
<1>1. Inv /\ Announced => RaceOnlyAtStarter
  <2> SUFFICES ASSUME Inv, Announced, NEW p \in Procs,
                      brain[p] = "compose", client[p] \in {"connect", "send", "clear"}
               PROVE  p = Starter /\ client[p] = "clear"
    BY DEF RaceOnlyAtStarter
  <2>1. AnnouncedBy(p)
    BY DEF Announced
  <2>2. ~Silent
    BY <2>1 DEF AnnouncedBy, Silent
  <2> QED BY <2>1, <2>2 DEF AnnouncedBy, OneGreeting, ClientSleeps, Unannounced
<1> QED
  BY <1>1, TypeCorrect, SlotCorrect, FreshCorrect, OnceCorrect, AnnouncedCorrect, PTL DEF Inv

-----------------------------------------------------------------------------
(* Where the texts come from *)

(* What is on its way to p another process offers, and what p itself may   *)
(* send it offers, but while it composes a text.                           *)
Offering(p) ==
  /\ client[p] # "take" => target[p] # p
  /\ receive_plein[p] > 0 => Offered(p, bufferServBrain[p])
  /\ \A i \in 1 .. Len(conns[p]) : conns[p][i].data # Empty => Offered(p, conns[p][i].data)
  /\ IF p # Starter /\ brain[p] = "compose"
     THEN bufferBrainClient[p] = Torn
     ELSE bufferBrainClient[p] \in {Empty} \cup Offers(p)

OnlyOffers == \A p \in Procs : Offering(p)

(* A stamped text is neither empty nor cut before its first number, ends   *)
(* with the number of the process that stamped it, and is one of its cuts. *)
LEMMA StampProperties ==
  ASSUME NEW m \in Text, NEW p \in Procs
  PROVE  /\ Stamp(m, p) # Empty /\ Stamp(m, p) # Torn
         /\ Stamp(m, p).head = m.head
         /\ Len(Stamp(m, p).hops) = Len(m.hops) + 1
         /\ \A i \in 1 .. Len(m.hops) : Stamp(m, p).hops[i] = m.hops[i]
         /\ Stamp(m, p).hops[Len(m.hops) + 1] = p
         /\ Stamp(m, p) \in Cuts(Stamp(m, p))
<1>1. m.hops \in Seq(Procs) /\ Len(m.hops) \in Nat
  BY LenProperties DEF Text
<1>2. /\ Append(m.hops, p) \in Seq(Procs)
      /\ Append(m.hops, p) # <<>>
      /\ Len(Append(m.hops, p)) = Len(m.hops) + 1
      /\ \A i \in 1 .. Len(m.hops) : Append(m.hops, p)[i] = m.hops[i]
      /\ Append(m.hops, p)[Len(m.hops) + 1] = p
  BY <1>1, AppendProperties
<1>3. /\ Stamp(m, p) \in [head: {"", "bonj", "bonjour"}, hops: Seq(Procs)]
      /\ Stamp(m, p).head = m.head /\ Stamp(m, p).hops = Append(m.hops, p)
  BY <1>2 DEF Text, Stamp
<1>4. Stamp(m, p) \in Cuts(Stamp(m, p))
  <2> DEFINE h == Append(m.hops, p)
  <2>1. SubSeq(h, 1, Len(h)) = h /\ Len(h) \in 0 .. Len(h)
    BY <1>1, <1>2, SubSeqFull
  <2> HIDE DEF h
  <2>2. [Stamp(m, p) EXCEPT !.hops = SubSeq(@, 1, Len(h))] = Stamp(m, p)
    BY <1>3, <2>1 DEF h
  <2>3. Len(h) \in 0 .. Len(Stamp(m, p).hops)
    BY <1>3, <2>1 DEF h
  <2> QED BY <2>2, <2>3 DEF Cuts
<1>5. Stamp(m, p) # Empty /\ Stamp(m, p) # Torn
  <2>1. Empty.hops = <<>> /\ Torn.hops = <<>>
    BY DEF Empty, Torn
  <2> QED BY <1>2, <1>3, <2>1
<1> QED BY <1>2, <1>3, <1>4, <1>5

(* What a process has offered it goes on offering.                         *)
LEMMA OffersStay ==
  ASSUME Inv, NEW p \in Procs, Step(p), NEW q \in Procs
  PROVE  Offers(q) \subseteq Offers(q)'
BY TextStays DEF Offers, Stamped

(* Once it has announced its text, a process offers what it has stamped.   *)
LEMMA StampedOffered ==
  ASSUME TypeOK, NEW p \in Procs, bufferClient[p] # Empty
  PROVE  /\ Stamped(p) \in Offers(p)
         /\ p = Starter => Cuts(Stamped(p)) \subseteq {Empty} \cup Offers(p)
<1>1. bufferClient[p] \in Text
  BY DEF TypeOK, BuffersOK
<1> QED BY <1>1, StampProperties DEF Offers, Stamped

(* What comes to a brain has been offered by another process.              *)
THEOREM OffersCorrect == Spec => []OnlyOffers
<1>1. Init => OnlyOffers
  <2>1. Len(<<>>) = 0
    BY EmptySeq
  <2> QED BY <2>1 DEF Init, InitAt, Everywhere, OnlyOffers, Offering
<1>2. Inv /\ Announced /\ RaceOnlyAtStarter /\ SendingMutex /\ OnlyOffers /\ [Next]_vars => OnlyOffers'
  <2> SUFFICES ASSUME Inv, Announced, RaceOnlyAtStarter, SendingMutex, OnlyOffers, [Next]_vars
               PROVE  OnlyOffers'
    OBVIOUS
  <2>1. CASE UNCHANGED vars
    BY <2>1 DEF OnlyOffers, Offering, Offered, Offers, Stamped,
                vars, sems, receiveSems, buffers, threads, sockets
  <2> SUFFICES ASSUME NEW p \in Procs, Step(p) PROVE OnlyOffers'
    BY <2>1 DEF Next, Run, Step
  <2>2. TypeOK /\ Offering(p)
    BY DEF Inv, OnlyOffers
  <2>3. \A q \in Procs : Offers(q) \subseteq Offers(q)'
    BY OffersStay
  <2>4. ASSUME NEW r \in Procs, NEW m, Offered(r, m) PROVE Offered(r, m)'
    BY <2>3, <2>4 DEF Offered
  <2>5. ASSUME NEW r \in Procs, NEW i \in 1 .. Len(conns'[r]), conns'[r][i].data # Empty
        PROVE  Offered(r, conns[r][i].data)'
    <3>1. CASE OldData(r, i)
      BY <2>4, <2>5, <3>1 DEF OldData, OnlyOffers, Offering, Offered
    <3>2. CASE SentBy(p, r, i)
      <4>1. client[p] = "send"
        BY <3>2 DEF SentBy, ClientSend, Goto
      <4>2. brain[p] # "compose" /\ r # p
        BY <2>2, <3>2, <4>1 DEF RaceOnlyAtStarter, Offering, SentBy
      <4>3. bufferBrainClient[p] \in Offers(p)
        BY <2>2, <2>5, <3>2, <4>2 DEF Offering, SentBy
      <4> QED BY <2>3, <3>2, <4>2, <4>3 DEF SentBy, Offered
    <3> QED BY <2>2, <2>5, <3>1, <3>2, DataIsSent
  <2>6. ASSUME NEW r \in Procs \ {p} PROVE Offering(r)'
    <3>1. Offering(r)
      BY DEF OnlyOffers
    <3>2. /\ client'[r] = client[r] /\ target'[r] = target[r] /\ brain'[r] = brain[r]
          /\ receive_plein'[r] = receive_plein[r] /\ bufferServBrain'[r] = bufferServBrain[r]
          /\ bufferBrainClient'[r] = bufferBrainClient[r]
      BY <2>2, OthersKeep, OthersUntouched
    <3>3. receive_plein'[r] > 0 => Offered(r, bufferServBrain[r])'
      BY <2>4, <3>1, <3>2 DEF Offering, Offered
    <3> QED BY <2>3, <2>5, <3>1, <3>2, <3>3 DEF Offering
  <2>7. /\ brain \in [Procs -> {"seed", "take", "compose", "rewrite", "track"}]
        /\ client \in [Procs -> {"take", "connect", "send", "clear", "close"}]
        /\ target \in [Procs -> Procs]
        /\ receive_plein \in [Procs -> Nat] /\ receive_vide \in [Procs -> Nat]
        /\ bufferClient \in [Procs -> Text] /\ bufferServBrain \in [Procs -> Text]
        /\ bufferBrainClient \in [Procs -> Text]
    BY <2>2 DEF TypeOK, ThreadsOK, SemsOK, BuffersOK, SocketsOK
  <2> USE DEF Goto, sem_wait, sem_post
  <2>8. client'[p] # "take" => target'[p] # p
    <3>1. CASE ClientTake(p)
      BY <2>7, <3>1 DEF ClientTake, Draw
    <3>2. CASE Client(p) /\ ~ClientTake(p)
      BY <2>2, <2>7, <3>2
         DEF Offering, Client, ClientConnect, ClientRefused, ClientSend, ClientClear, ClientClose,
             sockets
    <3>3. CASE ~Client(p)
      BY <2>2, <3>3
         DEF Offering, Step, Brain, BrainSeed, BrainTake, BrainCompose, BrainRewrite, BrainTrack,
             Serve, ServerListen, ServerAccept, ServerTake, ServerReceive, ServerHangup, ServerFails,
             Track, TrackerWrite, threads, sockets
    <3> QED BY <3>1, <3>2, <3>3
  <2>9. receive_plein'[p] > 0 => Offered(p, bufferServBrain[p])'
    <3>1. CASE ServerReceive(p)
      <4>1. accepted[p] \in 1 .. Len(conns[p])
        BY <2>2, <3>1 DEF ServerReceive, TypeOK, SocketsOK
      <4>2. Offered(p, conns[p][accepted[p]].data)
        BY <2>2, <3>1, <4>1 DEF ServerReceive, Offering
      <4>3. bufferServBrain'[p] = conns[p][accepted[p]].data
        BY <2>7, <3>1 DEF ServerReceive
      <4> QED BY <2>4, <4>2, <4>3 DEF Offered
    <3>2. CASE ServerTake(p)
      <4>1. receive_plein'[p] = 0
        <5>1. receive_vide[p] > 0 /\ receive_plein'[p] = receive_plein[p]
          BY <3>2 DEF ServerTake
        <5>2. receive_vide[p] + receive_plein[p] <= 1
          BY DEF Inv, ReceiveSlot
        <5>3. receive_vide[p] \in Nat /\ receive_plein[p] \in Nat
          BY <2>7
        <5> QED BY <5>1, <5>2, <5>3
      <4> QED BY <4>1
    <3>3. CASE BrainTake(p)
      <4>1. receive_plein[p] > 0 /\ bufferServBrain' = bufferServBrain
        BY <2>7, <3>3 DEF BrainTake
      <4> QED BY <2>2, <2>4, <4>1 DEF Offering, Offered
    <3>4. CASE ~(ServerReceive(p) \/ ServerTake(p) \/ BrainTake(p))
      <4>1. UNCHANGED <<receive_plein, bufferServBrain>>
        BY <3>4
           DEF Step, Brain, BrainSeed, BrainCompose, BrainRewrite, BrainTrack, Client, ClientTake,
               ClientConnect, ClientRefused, ClientSend, ClientClear, ClientClose, Serve,
               ServerListen, ServerFails, ServerAccept, ServerHangup, Track, TrackerWrite,
               sems, receiveSems, buffers
      <4> QED BY <2>2, <2>4, <4>1 DEF Offering, Offered
    <3> QED BY <3>1, <3>2, <3>3, <3>4
  <2>10. IF p # Starter /\ brain'[p] = "compose"
         THEN bufferBrainClient'[p] = Torn
         ELSE bufferBrainClient'[p] \in {Empty} \cup Offers(p)'
    <3>1. CASE BrainSeed(p)
      <4>1. p = Starter
        BY <3>1 DEF BrainSeed, Announced, AnnouncedBy, ClientSleeps
      <4>2. bufferBrainClient'[p] = Greeting
        BY <2>7, <3>1 DEF BrainSeed
      <4> QED BY <4>1, <4>2 DEF Offers
    <3>2. CASE BrainTake(p)
      <4>1. /\ receive_plein[p] > 0 /\ brain'[p] = "compose"
            /\ bufferBrainClient'[p] = Torn /\ bufferClient'[p] = bufferServBrain[p]
        BY <2>7, <3>2 DEF BrainTake
      <4>2. bufferClient'[p] # Empty
        BY <4>1 DEF Inv, Once, OneText
      <4>3. Torn \in Cuts(Stamped(p)') /\ Torn # Empty
        BY DEF Cuts, Torn, Empty
      <4>4. p = Starter => Torn \in Offers(p)'
        BY <4>2, <4>3 DEF Offers, Cuts
      <4> QED BY <4>1, <4>4
    <3>3. CASE BrainCompose(p)
      <4>1. /\ brain[p] = "compose" /\ brain'[p] = "rewrite"
            /\ \E m \in IF bufferBrainClient[p] = Torn THEN {Stamped(p)} ELSE Cuts(Stamped(p)) :
                 bufferBrainClient'[p] = m
        BY <2>7, <3>3 DEF BrainCompose, Stamped
      <4>2. bufferClient[p] # Empty
        BY <4>1 DEF Announced, AnnouncedBy
      <4>3. /\ Stamped(p) \in Offers(p)
            /\ p = Starter => Cuts(Stamped(p)) \subseteq {Empty} \cup Offers(p)
        BY <2>2, <4>2, StampedOffered
      <4>4. p # Starter => bufferBrainClient[p] = Torn
        BY <2>2, <4>1 DEF Offering
      <4>5. bufferBrainClient'[p] \in {Empty} \cup Offers(p)
        BY <4>1, <4>3, <4>4
      <4> QED BY <2>3, <4>1, <4>5
    <3>4. CASE BrainRewrite(p)
      <4>1. /\ brain[p] = "rewrite" /\ brain'[p] = "track" /\ bufferBrainClient'[p] = Stamped(p)
        BY <2>7, <3>4 DEF BrainRewrite, Stamped
      <4>2. Stamped(p) \in Offers(p)
        BY <2>2, <4>1, StampedOffered DEF Announced, AnnouncedBy
      <4> QED BY <2>3, <4>1, <4>2
    <3>5. CASE BrainTrack(p)
      <4>1. brain[p] = "track" /\ brain'[p] = "take" /\ UNCHANGED bufferBrainClient
        BY <2>7, <3>5 DEF BrainTrack
      <4> QED BY <2>2, <2>3, <4>1 DEF Offering
    <3>6. CASE ClientClear(p)
      <4>1. client[p] = "clear" /\ bufferBrainClient'[p] = Empty /\ brain' = brain
        BY <2>7, <3>6 DEF ClientClear
      <4> QED BY <4>1 DEF RaceOnlyAtStarter
    <3>7. CASE ~Brain(p) /\ ~ClientClear(p)
      <4>1. UNCHANGED <<brain, bufferBrainClient>>
        BY <3>7
           DEF Step, Client, ClientTake, ClientConnect, ClientRefused, ClientSend, ClientClose, Serve,
               ServerListen, ServerFails, ServerAccept, ServerTake, ServerReceive, ServerHangup,
               Track, TrackerWrite, buffers, threads
      <4> QED BY <2>2, <2>3, <4>1 DEF Offering
    <3> QED BY <3>1, <3>2, <3>3, <3>4, <3>5, <3>6, <3>7 DEF Brain
  <2>11. Offering(p)'
    BY <2>5, <2>8, <2>9, <2>10 DEF Offering
  <2> QED BY <2>6, <2>11 DEF OnlyOffers
<1> QED
  BY <1>1, <1>2, TypeCorrect, SlotCorrect, FreshCorrect, OnceCorrect, AnnouncedCorrect, RaceCorrect,
     SendingMutexCorrect, PTL DEF Spec, Inv

-----------------------------------------------------------------------------
(* What the observer is told *)

Reported(p) == {i \in DOMAIN pipe : pipe[i] = Stamped(p)}

(* The tracker of p is told twice, the first time before there is anything *)
(* to write.                                                               *)
TellsTwice(p) ==
  /\ bufferClient[p] = Empty \/ brain[p] # "take" => bufferBrainTracker[p] = Empty
  /\ bufferClient[p] # Empty /\ brain[p] = "take" => bufferBrainTracker[p] = Stamped(p)
  /\ bufferClient[p] = Empty \/ brain[p] \in {"compose", "rewrite"} => tracker_plein[p] = 0
  /\ brain[p] = "track" => tracker_plein[p] <= 1
  /\ bufferClient[p] # Empty =>
       /\ brain[p] # "take" => Reported(p) = {}
       /\ Cardinality(Reported(p)) + tracker_plein[p] <= 2

(* Only stamped texts are on the pipe.                                     *)
Told ==
  /\ \A p \in Procs : TellsTwice(p)
  /\ \A i \in DOMAIN pipe : \E p \in Procs : bufferClient[p] # Empty /\ pipe[i] = Stamped(p)

(* What different processes stamp differs in the last number.              *)
LEMMA StampsDiffer ==
  ASSUME NEW m \in Text, NEW n \in Text, NEW p \in Procs, NEW q \in Procs,
         Stamp(m, p) = Stamp(n, q)
  PROVE  p = q
<1> DEFINE s == Stamp(m, p).hops
<1>1. Len(m.hops) \in Nat /\ Len(n.hops) \in Nat
  BY LenProperties DEF Text
<1>2. Len(s) = Len(m.hops) + 1 /\ s[Len(m.hops) + 1] = p
  BY StampProperties
<1>3. Len(s) = Len(n.hops) + 1 /\ s[Len(n.hops) + 1] = q
  BY StampProperties
<1> QED BY <1>1, <1>2, <1>3

(* What a process has written so far is finitely often.                    *)
LEMMA ReportedFinite ==
  ASSUME TypeOK, NEW p \in Procs
  PROVE  /\ pipe \in Seq(Text) /\ Len(pipe) \in Nat /\ DOMAIN pipe = 1 .. Len(pipe)
         /\ IsFiniteSet(Reported(p)) /\ Cardinality(Reported(p)) \in Nat
<1>1. pipe \in Seq(Text) /\ Len(pipe) \in Nat /\ DOMAIN pipe = 1 .. Len(pipe)
  BY LenProperties DEF TypeOK, BuffersOK
<1>2. IsFiniteSet(1 .. Len(pipe)) /\ Reported(p) \subseteq 1 .. Len(pipe)
  BY <1>1, FS_Interval DEF Reported
<1> QED BY <1>1, <1>2, FS_Subset, FS_CardinalityType

(* A write of the tracker is one more report of its process and none of    *)
(* another one.                                                            *)
LEMMA WriteReports ==
  ASSUME TypeOK, NEW p \in Procs, pipe' = Append(pipe, Stamped(p)),
         NEW r \in Procs, bufferClient' = bufferClient
  PROVE  /\ DOMAIN pipe' = 1 .. Len(pipe) + 1
         /\ \A i \in 1 .. Len(pipe) : pipe'[i] = pipe[i]
         /\ pipe'[Len(pipe) + 1] = Stamped(p)
         /\ r # p => Reported(r)' = Reported(r)
         /\ r = p => Cardinality(Reported(r)') = Cardinality(Reported(r)) + 1
<1>1. /\ pipe \in Seq(Text) /\ Len(pipe) \in Nat /\ DOMAIN pipe = 1 .. Len(pipe)
      /\ IsFiniteSet(Reported(r))
  BY ReportedFinite
<1>2. bufferClient[p] \in Text /\ bufferClient[r] \in Text /\ Stamped(p) \in Text
  BY StampType DEF TypeOK, BuffersOK, Stamped
<1>3. /\ pipe' \in Seq(Text) /\ Len(pipe') = Len(pipe) + 1
      /\ \A i \in 1 .. Len(pipe) : pipe'[i] = pipe[i]
      /\ pipe'[Len(pipe) + 1] = Stamped(p)
  BY <1>1, <1>2, AppendProperties
<1>4. DOMAIN pipe' = 1 .. Len(pipe) + 1
  BY <1>3, LenProperties
<1>5. Stamped(r)' = Stamped(r)
  BY DEF Stamped
<1>6. CASE r # p
  <2>1. Stamped(p) # Stamped(r)
    BY <1>2, <1>6, StampsDiffer DEF Stamped
  <2> QED BY <1>1, <1>3, <1>4, <1>5, <1>6, <2>1 DEF Reported
<1>7. CASE r = p
  <2>1. Reported(r)' = Reported(r) \cup {Len(pipe) + 1}
    BY <1>1, <1>3, <1>4, <1>5, <1>7 DEF Reported
  <2>2. Len(pipe) + 1 \notin Reported(r)
    BY <1>1 DEF Reported
  <2>3. Cardinality(Reported(r) \cup {Len(pipe) + 1}) = Cardinality(Reported(r)) + 1
    BY <1>1, <2>2, FS_AddElement
  <2> QED BY <1>3, <1>4, <1>7, <2>1, <2>3
<1> QED BY <1>6, <1>7

(* A text reaches the observer at most twice: the announcements left and   *)
(* the reports made are at most two.                                       *)
THEOREM ToldCorrect == Spec => []Told
<1>1. Init => Told
  <2>1. DOMAIN <<>> = {}
    OBVIOUS
  <2> QED BY <2>1 DEF Init, InitAt, Everywhere, Told, TellsTwice
<1>2. Inv /\ Announced /\ Told /\ [Next]_vars => Told'
  <2> SUFFICES ASSUME Inv, Announced, Told, [Next]_vars PROVE Told'
    OBVIOUS
  <2>1. CASE UNCHANGED vars
    BY <2>1 DEF Told, TellsTwice, Reported, Stamped, vars, sems, trackerSems, buffers, threads
  <2> SUFFICES ASSUME NEW p \in Procs, Step(p) PROVE Told'
    BY <2>1 DEF Next, Run, Step
  <2>2. TypeOK /\ TellsTwice(p)
    BY DEF Inv, Told
  <2>3. /\ brain \in [Procs -> {"seed", "take", "compose", "rewrite", "track"}]
        /\ tracker_plein \in [Procs -> Nat]
        /\ bufferClient \in [Procs -> Text] /\ bufferServBrain \in [Procs -> Text]
        /\ bufferBrainTracker \in [Procs -> Text]
    BY <2>2 DEF TypeOK, ThreadsOK, SemsOK, BuffersOK
  <2>4. \A q \in Procs : bufferClient[q] # Empty => bufferClient'[q] = bufferClient[q]
    BY TextStays
  <2> USE DEF Goto, sem_wait, sem_post
  <2>5. CASE TrackerWrite(p)
    <3>1. /\ tracker_plein[p] > 0 /\ tracker_plein'[p] = tracker_plein[p] - 1
          /\ \A r \in Procs \ {p} : tracker_plein'[r] = tracker_plein[r]
          /\ UNCHANGED <<bufferClient, brain, bufferBrainTracker>>
          /\ pipe' = IF bufferBrainTracker[p] = Empty THEN pipe
                     ELSE Append(pipe, bufferBrainTracker[p])
      BY <2>3, <2>5 DEF TrackerWrite, buffers, threads
    <3>2. CASE pipe' = pipe
      <4>1. \A r \in Procs : Reported(r)' = Reported(r) /\ Stamped(r)' = Stamped(r)
        BY <3>1, <3>2 DEF Reported, Stamped
      <4>2. Cardinality(Reported(p)) \in Nat /\ tracker_plein[p] \in Nat
        BY <2>2, <2>3, ReportedFinite
      <4>3. TellsTwice(p)'
        BY <2>2, <3>1, <4>1, <4>2 DEF TellsTwice
      <4>4. ASSUME NEW r \in Procs \ {p} PROVE TellsTwice(r)'
        BY <3>1, <4>1 DEF Told, TellsTwice
      <4>5. \A i \in DOMAIN pipe' : \E q \in Procs : bufferClient'[q] # Empty /\ pipe'[i] = Stamped(q)'
        BY <3>1, <3>2, <4>1 DEF Told
      <4> QED BY <4>3, <4>4, <4>5 DEF Told
    <3>3. CASE pipe' # pipe
      <4>1. pipe' = Append(pipe, Stamped(p)) /\ bufferClient[p] # Empty /\ brain[p] = "take"
        BY <2>2, <3>1, <3>3 DEF TellsTwice
      <4>2. ASSUME NEW r \in Procs PROVE TellsTwice(r)'
        <5>1. CASE r = p
          <6>1. Cardinality(Reported(p)') = Cardinality(Reported(p)) + 1 /\ Stamped(p)' = Stamped(p)
            BY <2>2, <3>1, <4>1, WriteReports DEF Stamped
          <6>2. Cardinality(Reported(p)) \in Nat /\ tracker_plein[p] \in Nat
            BY <2>2, <2>3, ReportedFinite
          <6> QED BY <2>2, <3>1, <4>1, <5>1, <6>1, <6>2 DEF TellsTwice
        <5>2. CASE r # p
          BY <2>2, <2>3, <3>1, <4>1, <5>2, WriteReports DEF Told, TellsTwice, Stamped
        <5> QED BY <5>1, <5>2
      <4>3. ASSUME NEW i \in DOMAIN pipe'
            PROVE  \E q \in Procs : bufferClient'[q] # Empty /\ pipe'[i] = Stamped(q)'
        <5>1. CASE i \in DOMAIN pipe
          <6>1. pipe'[i] = pipe[i]
            BY <2>2, <3>1, <4>1, <5>1, WriteReports, ReportedFinite
          <6> QED BY <3>1, <5>1, <6>1 DEF Told, Stamped
        <5>2. CASE i \notin DOMAIN pipe
          <6>1. i = Len(pipe) + 1 /\ pipe'[i] = Stamped(p)
            BY <2>2, <3>1, <4>1, <4>3, <5>2, WriteReports, ReportedFinite
          <6> QED BY <3>1, <4>1, <6>1 DEF Stamped
        <5> QED BY <5>1, <5>2
      <4> QED BY <4>2, <4>3 DEF Told
    <3> QED BY <3>2, <3>3
  <2>6. CASE ~TrackerWrite(p)
    <3>1. pipe' = pipe
      BY <2>6
         DEF Step, Brain, BrainSeed, BrainTake, BrainCompose, BrainRewrite, BrainTrack, Client,
             ClientTake, ClientConnect, ClientRefused, ClientSend, ClientClear, ClientClose, Serve,
             ServerListen, ServerFails, ServerAccept, ServerTake, ServerReceive, ServerHangup, Track
    <3>2. \A i \in DOMAIN pipe' : \E q \in Procs : bufferClient'[q] # Empty /\ pipe'[i] = Stamped(q)'
      BY <2>4, <3>1 DEF Told, Stamped
    <3>3. ASSUME NEW r \in Procs, bufferClient'[r] = bufferClient[r]
          PROVE  Reported(r)' = Reported(r) /\ Stamped(r)' = Stamped(r)
      BY <3>1, <3>3 DEF Reported, Stamped
    <3>4. ASSUME NEW r \in Procs \ {p} PROVE TellsTwice(r)'
      BY <2>2, <3>3, OthersKeep, OthersUntouched DEF Told, TellsTwice
    <3>5. TellsTwice(p)'
      <4>1. CASE BrainTake(p)
        <5>1. /\ receive_plein[p] > 0 /\ brain'[p] = "compose"
              /\ bufferClient'[p] = bufferServBrain[p]
              /\ UNCHANGED <<bufferBrainTracker, tracker_plein>>
          BY <2>3, <4>1 DEF BrainTake, trackerSems
        <5>2. bufferClient[p] = Empty
          BY <5>1 DEF Inv, Once, OneText
        <5>3. Reported(p)' = {}
          <6>1. ASSUME NEW i \in DOMAIN pipe, pipe[i] = Stamped(p)' PROVE FALSE
            <7>1. PICK q \in Procs : bufferClient[q] # Empty /\ pipe[i] = Stamped(q)
              BY DEF Told
            <7>2. q # p /\ bufferClient[q] \in Text /\ bufferClient'[p] \in Text
              BY <2>3, <5>1, <5>2, <7>1
            <7> QED BY <6>1, <7>1, <7>2, StampsDiffer DEF Stamped
          <6> QED BY <3>1, <6>1 DEF Reported
        <5> QED BY <2>2, <5>1, <5>2, <5>3, FS_EmptySet DEF TellsTwice
      <4>2. CASE BrainSeed(p)
        <5>1. bufferClient[p] = Empty
          BY <4>2 DEF BrainSeed, Announced, AnnouncedBy, OneGreeting, ClientSleeps, Silent
        <5>2. UNCHANGED <<bufferClient, bufferBrainTracker, tracker_plein>>
          BY <4>2 DEF BrainSeed, trackerSems
        <5> QED BY <2>2, <5>1, <5>2 DEF TellsTwice
      <4>3. CASE BrainCompose(p)
        <5>1. /\ brain[p] = "compose" /\ brain'[p] = "rewrite"
              /\ UNCHANGED <<bufferClient, bufferBrainTracker, tracker_plein>>
          BY <2>3, <4>3 DEF BrainCompose, trackerSems
        <5> QED BY <2>2, <3>3, <5>1 DEF TellsTwice
      <4>4. CASE BrainRewrite(p)
        <5>1. /\ brain[p] = "rewrite" /\ brain'[p] = "track"
              /\ tracker_plein'[p] = tracker_plein[p] + 1
              /\ UNCHANGED <<bufferClient, bufferBrainTracker>>
          BY <2>3, <4>4 DEF BrainRewrite
        <5>2. bufferClient[p] # Empty
          BY <5>1 DEF Announced, AnnouncedBy
        <5> QED BY <2>2, <3>3, <5>1, <5>2, FS_EmptySet DEF TellsTwice
      <4>5. CASE BrainTrack(p)
        <5>1. /\ brain[p] = "track" /\ brain'[p] = "take"
              /\ tracker_plein'[p] = tracker_plein[p] + 1
              /\ bufferBrainTracker'[p] = Stamped(p)
              /\ UNCHANGED bufferClient
          BY <2>3, <4>5 DEF BrainTrack, Stamped
        <5>2. bufferClient[p] # Empty
          BY <5>1 DEF Announced, AnnouncedBy
        <5>3. tracker_plein[p] \in Nat /\ Cardinality({}) = 0
          BY <2>3, FS_EmptySet
        <5> QED BY <2>2, <3>3, <5>1, <5>2, <5>3, SMTT(30) DEF TellsTwice
      <4>6. CASE ~Brain(p)
        <5>1. UNCHANGED <<bufferClient, bufferBrainTracker, brain, tracker_plein>>
          BY <2>6, <4>6
             DEF Step, Client, ClientTake, ClientConnect, ClientRefused, ClientSend, ClientClear,
                 ClientClose, Serve, ServerListen, ServerFails, ServerAccept, ServerTake,
                 ServerReceive, ServerHangup, Track, sems, trackerSems, buffers, threads
        <5> QED BY <2>2, <3>3, <5>1 DEF TellsTwice
      <4> QED BY <4>1, <4>2, <4>3, <4>4, <4>5, <4>6 DEF Brain
    <3> QED BY <3>2, <3>4, <3>5 DEF Told
  <2> QED BY <2>5, <2>6
<1> QED
  BY <1>1, <1>2, TypeCorrect, SlotCorrect, FreshCorrect, OnceCorrect, AnnouncedCorrect, PTL
     DEF Spec, Inv

-----------------------------------------------------------------------------
(* The relay is a hop trace *)

(* The hop trace speaks of the same texts.                                 *)
LEMMA SameTexts ==
  /\ Trace!Procs = Procs /\ Trace!Starter = Starter
  /\ Trace!Empty = Empty /\ Trace!Torn = Torn /\ Trace!Greeting = Greeting
  /\ \A m, p : Trace!Stamp(m, p) = Stamp(m, p)
  /\ \A m : Trace!Cuts(m) = Cuts(m)
  /\ \A S : Trace!Cardinality(S) = Cardinality(S)
<1>1. Trace!Procs = Procs /\ Trace!Starter = Starter
  BY DEF Trace!Procs, Procs, Trace!Starter, Starter
<1>2. Trace!Empty = Empty /\ Trace!Torn = Torn /\ Trace!Greeting = Greeting
  BY DEF Trace!Empty, Empty, Trace!Torn, Torn, Trace!Greeting, Greeting
<1>3. \A m, p : Trace!Stamp(m, p) = Stamp(m, p)
  BY DEF Trace!Stamp, Stamp
<1>4. \A m : Trace!Cuts(m) = Cuts(m)
  BY <1>2 DEF Trace!Cuts, Cuts
<1>5. \A S : Trace!Cardinality(S) = Cardinality(S)
  BY DEF Trace!Cardinality, Cardinality
<1> QED BY <1>1, <1>2, <1>3, <1>4, <1>5

(* The text of the hop trace *)
text == [p \in Procs |-> IF bufferClient[p] = Empty THEN Empty ELSE Stamp(bufferClient[p], p)]

(* In the hop trace a process offers what it offers here.                  *)
LEMMA SameOffers ==
  ASSUME TypeOK, NEW p \in Procs
  PROVE  /\ text[p] = Empty <=> bufferClient[p] = Empty
         /\ Trace!Offers(p) = Offers(p)
<1>1. bufferClient[p] \in Text
  BY DEF TypeOK, BuffersOK
<1>2. Stamp(bufferClient[p], p) # Empty
  BY <1>1, StampProperties
<1>3. text[p] = IF bufferClient[p] = Empty THEN Empty ELSE Stamped(p)
  BY DEF text, Stamped
<1>4. Trace!Offers(p) =
        (IF p = Starter THEN {Greeting} ELSE {})
          \cup (IF text[p] = Empty THEN {}
                ELSE IF p = Starter THEN Cuts(text[p]) \ {Empty} ELSE {text[p]})
  BY SameTexts DEF Trace!Offers, text
<1> QED BY <1>2, <1>3, <1>4 DEF Offers, Stamped

(* The relay does nothing a hop trace may not do: what a brain takes       *)
(* another process offers, and no text is reported three times.            *)
THEOREM ImplementsTrace == Spec => IsHopTrace
<1>1. Init => Trace!Init
  BY SameTexts DEF Init, InitAt, Everywhere, Trace!Init
<1>2. Inv /\ OnlyOffers /\ Told /\ [Next]_vars => [Trace!Next]_(<<text, pipe>>)
  <2> SUFFICES ASSUME Inv, OnlyOffers, Told, [Next]_vars
               PROVE  Trace!Next \/ (text' = text /\ pipe' = pipe)
    OBVIOUS
  <2>1. CASE UNCHANGED vars
    BY <2>1 DEF vars, buffers, text
  <2> SUFFICES ASSUME NEW p \in Procs, Step(p)
               PROVE  Trace!Next \/ (text' = text /\ pipe' = pipe)
    BY <2>1 DEF Next, Run, Step
  <2>2. TypeOK /\ p \in Trace!Procs
    BY SameTexts DEF Inv
  <2> USE DEF Goto, sem_wait, sem_post
  <2>3. CASE BrainTake(p)
    <3>1. /\ receive_plein[p] > 0 /\ UNCHANGED pipe
          /\ bufferClient' = [bufferClient EXCEPT ![p] = bufferServBrain[p]]
      BY <2>3 DEF BrainTake
    <3>2. bufferClient[p] = Empty /\ bufferServBrain[p] # Empty
      BY <3>1 DEF Inv, Once, OneText
    <3>3. PICK q \in Procs \ {p} : bufferServBrain[p] \in Offers(q)
      BY <3>1 DEF OnlyOffers, Offering, Offered
    <3>4. text' = [text EXCEPT ![p] = Stamp(bufferServBrain[p], p)]
      BY <2>2, <3>1, <3>2 DEF text, TypeOK, BuffersOK
    <3>5. bufferServBrain[p] \in Trace!Offers(q) /\ text[p] = Empty
      BY <2>2, <3>2, <3>3, SameOffers
    <3>6. Trace!Relay(p)
      BY <3>1, <3>3, <3>4, <3>5, SameTexts DEF Trace!Relay, text
    <3> QED BY <2>2, <3>6 DEF Trace!Next
  <2>4. CASE TrackerWrite(p) /\ bufferBrainTracker[p] # Empty
    <3>1. /\ tracker_plein[p] > 0 /\ UNCHANGED bufferClient
          /\ pipe' = Append(pipe, bufferBrainTracker[p])
      BY <2>4 DEF TrackerWrite, buffers
    <3>2. /\ bufferClient[p] # Empty /\ bufferBrainTracker[p] = Stamped(p)
          /\ Cardinality(Reported(p)) + tracker_plein[p] <= 2
      BY <2>2, <2>4 DEF Told, TellsTwice, TypeOK, ThreadsOK
    <3>3. Cardinality(Reported(p)) < 2
      <4>1. Cardinality(Reported(p)) \in Nat /\ tracker_plein[p] \in Nat
        BY <2>2, ReportedFinite DEF TypeOK, SemsOK
      <4> QED BY <3>1, <3>2, <4>1
    <3>4. text[p] = Stamped(p) /\ text[p] # Empty
      BY <2>2, <3>2, SameOffers DEF text, Stamped
    <3>5. Reported(p) = {i \in DOMAIN pipe : pipe[i] = text[p]}
      BY <3>4 DEF Reported
    <3>6. Trace!Report(p)
      BY <3>1, <3>2, <3>3, <3>4, <3>5, SameTexts DEF Trace!Report, text
    <3> QED BY <2>2, <3>6 DEF Trace!Next
  <2>5. CASE ~BrainTake(p) /\ ~(TrackerWrite(p) /\ bufferBrainTracker[p] # Empty)
    <3>1. UNCHANGED <<bufferClient, pipe>>
      BY <2>5
         DEF Step, Brain, BrainSeed, BrainCompose, BrainRewrite, BrainTrack, Client, ClientTake,
             ClientConnect, ClientRefused, ClientSend, ClientClear, ClientClose, Serve,
             ServerListen, ServerFails, ServerAccept, ServerTake, ServerReceive, ServerHangup,
             Track, TrackerWrite, buffers
    <3> QED BY <3>1 DEF text
  <2> QED BY <2>3, <2>4, <2>5
<1> QED
  BY <1>1, <1>2, TypeCorrect, SlotCorrect, FreshCorrect, OnceCorrect, OffersCorrect, ToldCorrect, PTL
     DEF Spec, Inv, IsHopTrace, Trace!Spec, text

-----------------------------------------------------------------------------
(* What a text tells of its way *)

(* The numbers in m are of processes that have stamped, each is there once, *)
(* and when the greeting is damaged the starter has stamped but its stamp  *)
(* is missing.                                                             *)
Tells(m) ==
  /\ m \in Text
  /\ \A i \in 1 .. Len(m.hops) : bufferClient[m.hops[i]] # Empty
  /\ \A i, j \in 1 .. Len(m.hops) : m.hops[i] = m.hops[j] => i = j
  /\ m.head = "bonj" => /\ bufferClient[Starter] # Empty
                        /\ \A i \in 1 .. Len(m.hops) : m.hops[i] # Starter

Ways == \A p \in Procs : bufferClient[p] # Empty => Tells(Stamped(p))

(* The stamp of a process is in what it has stamped.                       *)
LEMMA StampedLast ==
  ASSUME TypeOK, NEW p \in Procs
  PROVE  /\ bufferClient[p] \in Text /\ Stamped(p) \in Text
         /\ Len(Stamped(p).hops) \in Nat \ {0}
         /\ Stamped(p).hops[Len(Stamped(p).hops)] = p
<1>1. bufferClient[p] \in Text
  BY DEF TypeOK, BuffersOK
<1>2. Len(bufferClient[p].hops) \in Nat
  BY <1>1, LenProperties DEF Text
<1> QED BY <1>1, <1>2, StampProperties, StampType DEF Stamped

(* So does every text that is offered, the damaged ones included.          *)
LEMMA OffersTell ==
  ASSUME TypeOK, Ways, NEW q \in Procs, NEW m \in Offers(q)
  PROVE  Tells(m)
<1>1. Len(<<>>) = 0
  OBVIOUS
<1>2. CASE q = Starter /\ m = Greeting
  <2>1. m \in Text /\ Len(m.hops) = 0 /\ m.head # "bonj"
    BY <1>1, <1>2, ConstantTexts DEF Greeting
  <2> QED BY <2>1 DEF Tells
<1>3. CASE bufferClient[q] # Empty /\ m = Stamped(q)
  BY <1>3 DEF Ways
<1>4. CASE q = Starter /\ bufferClient[q] # Empty /\ m \in Cuts(Stamped(q)) \ {Empty}
  <2>1. Tells(Stamped(q)) /\ Starter \in Procs
    BY <1>4 DEF Ways
  <2>2. /\ Len(Stamped(q).hops) \in Nat \ {0}
        /\ Stamped(q).hops[Len(Stamped(q).hops)] = Starter
    BY <1>4, StampedLast
  <2>3. Stamped(q).head # "bonj"
    BY <2>1, <2>2 DEF Tells
  <2>4. CASE m = Torn
    <3>1. m \in Text /\ Len(m.hops) = 0
      BY <1>1, <2>4, ConstantTexts DEF Torn
    <3> QED BY <1>4, <3>1 DEF Tells
  <2>5. CASE m # Torn
    <3>1. PICK k \in 0 .. Len(Stamped(q).hops) : m = [Stamped(q) EXCEPT !.hops = SubSeq(@, 1, k)]
      BY <1>4, <2>5 DEF Cuts
    <3>2. /\ Stamped(q) \in Text /\ Stamped(q).hops \in Seq(Procs)
          /\ Len(Stamped(q).hops) \in Nat
      BY <2>1, LenProperties DEF Tells, Text
    <3>3. \A i \in 1 .. k : Stamped(q).hops[i] \in Procs
      BY <3>2, ElementOfSeq
    <3>4. /\ m.head = Stamped(q).head /\ m.hops = SubSeq(Stamped(q).hops, 1, k)
      BY <3>1, <3>2 DEF Text
    <3>5. /\ SubSeq(Stamped(q).hops, 1, k) \in Seq(Procs)
          /\ Len(SubSeq(Stamped(q).hops, 1, k)) = k
          /\ \A i \in 1 .. k : SubSeq(Stamped(q).hops, 1, k)[i] = Stamped(q).hops[i]
      <4>1. /\ SubSeq(Stamped(q).hops, 1, k) \in Seq(Procs)
            /\ Len(SubSeq(Stamped(q).hops, 1, k)) = IF 1 <= k THEN k - 1 + 1 ELSE 0
            /\ \A i \in 1 .. k - 1 + 1 : SubSeq(Stamped(q).hops, 1, k)[i] = Stamped(q).hops[1 + i - 1]
        BY <3>3, SubSeqProperties
      <4>2. k \in Nat
        BY <3>2
      <4> QED BY <4>1, <4>2
    <3>6. m \in Text
      BY <3>2, <3>1, <3>5 DEF Text
    <3> QED BY <2>1, <2>3, <3>2, <3>4, <3>5, <3>6 DEF Tells
  <2> QED BY <2>4, <2>5
<1> QED BY <1>2, <1>3, <1>4 DEF Offers

(* A process that stamps a text that tells of its way for the first time   *)
(* makes one.                                                              *)
LEMMA StampTells ==
  ASSUME TypeOK, NEW p \in Procs, NEW m, Tells(m), bufferClient[p] = Empty,
         bufferClient' = [bufferClient EXCEPT ![p] = m], m # Empty
  PROVE  Tells(Stamped(p))'
<1> DEFINE s == Stamp(m, p)
<1>1. /\ m \in Text /\ m.hops \in Seq(Procs) /\ Len(m.hops) \in Nat
      /\ \A i \in 1 .. Len(m.hops) : m.hops[i] \in Procs /\ m.hops[i] # p
  <2>1. m \in Text /\ m.hops \in Seq(Procs)
    BY DEF Tells, Text
  <2> QED BY <2>1, LenProperties, ElementOfSeq DEF Tells
<1>2. /\ s \in Text /\ s.head = m.head /\ Len(s.hops) = Len(m.hops) + 1
      /\ \A i \in 1 .. Len(m.hops) : s.hops[i] = m.hops[i]
      /\ s.hops[Len(m.hops) + 1] = p
  BY <1>1, StampProperties, StampType
<1> HIDE DEF s
<1>3. \A i \in 1 .. Len(s.hops) : i \in 1 .. Len(m.hops) \/ i = Len(m.hops) + 1
  BY <1>1, <1>2
<1>4. bufferClient'[p] # Empty /\ \A q \in Procs : bufferClient[q] # Empty => bufferClient'[q] # Empty
  BY DEF TypeOK, BuffersOK
<1>5. \A i \in 1 .. Len(s.hops) : bufferClient'[s.hops[i]] # Empty
  <2> SUFFICES ASSUME NEW i \in 1 .. Len(s.hops) PROVE bufferClient'[s.hops[i]] # Empty
    OBVIOUS
  <2>1. CASE i \in 1 .. Len(m.hops)
    <3>1. m.hops[i] \in Procs /\ bufferClient[m.hops[i]] # Empty /\ s.hops[i] = m.hops[i]
      BY <1>1, <1>2, <2>1 DEF Tells
    <3> QED BY <1>4, <3>1
  <2>2. CASE i = Len(m.hops) + 1
    BY <1>2, <1>4, <2>2
  <2> QED BY <1>3, <2>1, <2>2
<1>6. \A i, j \in 1 .. Len(s.hops) : s.hops[i] = s.hops[j] => i = j
  BY <1>1, <1>2, <1>3 DEF Tells
<1>7. s.head = "bonj" => /\ bufferClient'[Starter] # Empty
                          /\ \A i \in 1 .. Len(s.hops) : s.hops[i] # Starter
  <2>1. Starter \in Procs
    BY NbProcessAssumption DEF Starter, Procs
  <2> QED BY <1>2, <1>3, <1>4, <2>1 DEF Tells
<1>8. Stamped(p)' = s
  BY DEF TypeOK, BuffersOK, Stamped, s
<1> QED BY <1>2, <1>5, <1>6, <1>7, <1>8 DEF Tells

(* What the processes have stamped tells of the way it took.               *)
THEOREM WaysCorrect == Spec => []Ways
<1>1. Init => Ways
  BY DEF Init, InitAt, Everywhere, Ways
<1>2. Inv /\ OnlyOffers /\ Ways /\ [Next]_vars => Ways'
  <2> SUFFICES ASSUME Inv, OnlyOffers, Ways, [Next]_vars PROVE Ways'
    OBVIOUS
  <2>1. CASE UNCHANGED vars
    BY <2>1 DEF vars, buffers, Ways, Tells, Stamped
  <2> SUFFICES ASSUME NEW p \in Procs, Step(p) PROVE Ways'
    BY <2>1 DEF Next, Run, Step
  <2>2. CASE BrainTake(p)
    <3>1. /\ receive_plein[p] > 0
          /\ bufferClient' = [bufferClient EXCEPT ![p] = bufferServBrain[p]]
      BY <2>2 DEF BrainTake, sem_wait
    <3>2. /\ bufferClient[p] = Empty /\ bufferServBrain[p] # Empty
          /\ bufferClient \in [Procs -> Text]
      BY <3>1 DEF Inv, Once, OneText, TypeOK, BuffersOK
    <3>3. Tells(bufferServBrain[p])
      BY <3>1, OffersTell DEF Inv, OnlyOffers, Offering, Offered
    <3>4. Tells(Stamped(p))'
      BY <3>1, <3>2, <3>3, StampTells DEF Inv
    <3>5. ASSUME NEW r \in Procs \ {p}, bufferClient'[r] # Empty PROVE Tells(Stamped(r))'
      <4>1. bufferClient[r] # Empty /\ Stamped(r)' = Stamped(r)
        BY <3>1, <3>2, <3>5 DEF Stamped
      <4>2. \A q : bufferClient[q] # Empty /\ q \in Procs => bufferClient'[q] # Empty
        BY <3>1, <3>2
      <4>3. Tells(Stamped(r)) /\ Stamped(r).hops \in Seq(Procs)
        BY <4>1 DEF Ways, Tells, Text
      <4>4. \A i \in 1 .. Len(Stamped(r).hops) : Stamped(r).hops[i] \in Procs
        BY <4>3, ElementOfSeq
      <4>5. Starter \in Procs
        BY NbProcessAssumption DEF Starter, Procs
      <4> QED BY <4>1, <4>2, <4>3, <4>4, <4>5 DEF Tells
    <3> QED BY <3>4, <3>5 DEF Ways
  <2>3. CASE ~BrainTake(p)
    <3>1. UNCHANGED bufferClient
      BY <2>3
         DEF Step, Brain, BrainSeed, BrainCompose, BrainRewrite, BrainTrack, Client, ClientTake,
             ClientConnect, ClientRefused, ClientSend, ClientClear, ClientClose, Serve,
             ServerListen, ServerFails, ServerAccept, ServerTake, ServerReceive, ServerHangup,
             Track, TrackerWrite, buffers
    <3> QED BY <3>1 DEF Ways, Tells, Stamped
  <2> QED BY <2>2, <2>3
<1> QED
  BY <1>1, <1>2, TypeCorrect, SlotCorrect, FreshCorrect, OnceCorrect, OffersCorrect, PTL
     DEF Spec, Inv

(* No process is twice in a text, and one with a damaged greeting comes    *)
(* from a starter that has stamped and lacks its stamp.                    *)
THEOREM LogCorrect == Spec => []LogTells
<1>1. TypeOK /\ Ways => LogTells
  <2> SUFFICES ASSUME TypeOK, Ways PROVE LogTells
    OBVIOUS
  <2>1. ASSUME NEW p \in Procs
        PROVE  \/ text[p] = Empty /\ bufferClient[p] = Empty
               \/ /\ bufferClient[p] # Empty
                  /\ text[p] = Stamped(p) /\ DOMAIN text[p].hops = 1 .. Len(text[p].hops)
    <3>1. Stamped(p) \in Text
      BY StampedLast
    <3>2. DOMAIN Stamped(p).hops = 1 .. Len(Stamped(p).hops)
      BY <3>1, LenProperties DEF Text
    <3> QED BY <3>2 DEF text, Stamped
  <2>2. DOMAIN Empty.hops = {} /\ Empty.head # "bonj" /\ Starter \in Procs
    BY NbProcessAssumption DEF Empty, Starter, Procs
  <2>3. \A p \in Procs : \A i, j \in DOMAIN text[p].hops : text[p].hops[i] = text[p].hops[j] => i = j
    BY <2>1, <2>2 DEF Ways, Tells
  <2>4. \A p \in Procs : text[p].head = "bonj" =>
          /\ text[Starter] # Empty
          /\ \A i \in DOMAIN text[p].hops : text[p].hops[i] # Starter
    BY <2>1, <2>2, SameOffers DEF Ways, Tells
  <2> QED
    BY <2>3, <2>4, SameTexts
       DEF LogTells, VisitsOnce, DamageHidesStarter, Trace!VisitsOnce, Trace!DamageHidesStarter, text
<1> QED BY <1>1, TypeCorrect, WaysCorrect, PTL
=============================================================================
