------------------------- MODULE StreamRelays_proofs --------------------------
(***************************************************************************)
(* abracadabra.c, brique.c, working.c and testtest.c: the owners of slot   *)
(* and mutexes in each of them, and that their threads, semaphores and     *)
(* streams are the flow of texts of RelayFlow.                             *)
(*                                                                         *)
(* Each program is an instance, whose steps are first shown to be those of *)
(* StreamRelay; what remains is one proof for the four of them.            *)
(***************************************************************************)
EXTENDS StreamRelays, StreamRelay_proofs

USE SemMaxAssumption, StreamAssumption, MainAssumption, ProcsAssumption

-----------------------------------------------------------------------------
(* The steps that the programs have in common. *)

(* abracadabra.c: its steps are the ones of StreamRelay,                   *)
LEMMA SameAbracadabra ==
  ASSUME NEW p
  PROVE  /\ A!Connect(p) <=> Connect(p)
         /\ A!ClientTake(p) <=> ClientTake(p)
         /\ A!Send(p) <=> Send(p)
         /\ A!SendFails(p) <=> SendFails(p)
         /\ A!Bind(p) <=> Bind(p)
         /\ A!BindFails(p) <=> BindFails(p)
         /\ A!Accept(p, "take") <=> Accept(p, "take")
         /\ A!ServerTake(p) <=> ServerTake(p)
         /\ A!Receive(p) <=> Receive(p)
         /\ A!Greet(p) <=> Greet(p)
         /\ A!BrainTake(p) <=> BrainTake(p)
         /\ A!BrainRewrite(p, "take", {}) <=> BrainRewrite(p, "take", {})
         /\ A!Killed(p) <=> Killed(p)
         /\ A!ForkFails <=> ForkFails
         /\ A!Record <=> Record
         /\ A!MainReturns <=> MainReturns
         /\ A!Fork(p) <=> Fork(p)
         /\ A!Interrupted(p, IF p = Main THEN A!Known ELSE {q \in Procs : q < p}) <=> Interrupted(p, IF p = Main THEN Known ELSE {q \in Procs : q < p})
         /\ A!HandlerExits(A!Forked) <=> HandlerExits(Forked)
<1> USE DEF A!Up, Up, A!Goto, Goto, A!SemWait, SemWait, A!SemPost, SemPost, A!Post, Post,
      A!Semaphores, Semaphores, A!net, net, A!life, life, A!Ends, Ends, A!Sem0, Sem0, A!Pc0, Pc0
<1>1. A!Connect(p) <=> Connect(p)
  BY DEF A!Connect, Connect, A!Listening, Listening
<1>2. A!ClientTake(p) <=> ClientTake(p)
  BY DEF A!ClientTake, ClientTake
<1>3. A!Send(p) <=> Send(p)
  BY DEF A!Send, Send
<1>4. A!SendFails(p) <=> SendFails(p)
  BY DEF A!SendFails, SendFails
<1>5. A!Bind(p) <=> Bind(p)
  BY DEF A!Bind, Bind
<1>6. A!BindFails(p) <=> BindFails(p)
  BY DEF A!BindFails, BindFails
<1>7. A!Accept(p, "take") <=> Accept(p, "take")
  BY DEF A!Accept, Accept, A!Into, Into
<1>8. A!ServerTake(p) <=> ServerTake(p)
  BY DEF A!ServerTake, ServerTake
<1>9. A!Receive(p) <=> Receive(p)
  BY DEF A!Receive, Receive, A!Recv, Recv, A!Into, Into
<1>10. A!Greet(p) <=> Greet(p)
  BY DEF A!Greet, Greet, A!Starter, Starter
<1>11. A!BrainTake(p) <=> BrainTake(p)
  BY DEF A!BrainTake, BrainTake
<1>12. A!BrainRewrite(p, "take", {}) <=> BrainRewrite(p, "take", {})
  BY DEF A!BrainRewrite, BrainRewrite
<1>13. A!Killed(p) <=> Killed(p)
  BY DEF A!Killed, Killed
<1>14. A!ForkFails <=> ForkFails
  BY DEF A!ForkFails, ForkFails
<1>15. A!Record <=> Record
  BY DEF A!Record, Record
<1>16. A!MainReturns <=> MainReturns
  BY DEF A!MainReturns, MainReturns
<1>17. A!Fork(p) <=> Fork(p)
  BY DEF A!Fork, Fork
<1>18. A!Interrupted(p, IF p = Main THEN A!Known ELSE {q \in Procs : q < p}) <=> Interrupted(p, IF p = Main THEN Known ELSE {q \in Procs : q < p})
  BY DEF A!Interrupted, Interrupted, A!Known, Known, A!Forked, Forked
<1>19. A!HandlerExits(A!Forked) <=> HandlerExits(Forked)
  BY DEF A!HandlerExits, HandlerExits, A!Forked, Forked
<1> QED
  BY ONLY <1>1, <1>2, <1>3, <1>4, <1>5, <1>6, <1>7, <1>8, <1>9, <1>10, <1>11, <1>12, <1>13,
     <1>14, <1>15, <1>16, <1>17, <1>18, <1>19

(* so are those of brique.c,                                               *)
LEMMA SameBrique ==
  ASSUME NEW p
  PROVE  /\ B!Connect(p) <=> Connect(p)
         /\ B!ClientTake(p) <=> ClientTake(p)
         /\ B!Send(p) <=> Send(p)
         /\ B!SendFails(p) <=> SendFails(p)
         /\ B!Bind(p) <=> Bind(p)
         /\ B!BindFails(p) <=> BindFails(p)
         /\ B!Accept(p, "take") <=> Accept(p, "take")
         /\ B!ServerTake(p) <=> ServerTake(p)
         /\ B!Receive(p) <=> Receive(p)
         /\ B!Greet(p) <=> Greet(p)
         /\ B!BrainTake(p) <=> BrainTake(p)
         /\ B!BrainRewrite(p, "track", {"tracker_plein"}) <=> BrainRewrite(p, "track", {"tracker_plein"})
         /\ B!BrainTrack(p) <=> BrainTrack(p)
         /\ B!TrackerTake(p) <=> TrackerTake(p)
         /\ B!TrackerDone(p, {"tracker_plein"}) <=> TrackerDone(p, {"tracker_plein"})
         /\ B!Killed(p) <=> Killed(p)
         /\ B!ForkFails <=> ForkFails
         /\ B!Record <=> Record
         /\ B!MainReturns <=> MainReturns
         /\ B!Fork(p) <=> Fork(p)
         /\ B!Interrupted(p, IF p = Main THEN B!Known ELSE {q \in Procs : q < p}) <=> Interrupted(p, IF p = Main THEN Known ELSE {q \in Procs : q < p})
         /\ B!HandlerExits(B!Forked) <=> HandlerExits(Forked)
<1> USE DEF B!Up, Up, B!Goto, Goto, B!SemWait, SemWait, B!SemPost, SemPost, B!Post, Post,
      B!Semaphores, Semaphores, B!net, net, B!life, life, B!Ends, Ends, B!Sem0, Sem0, B!Pc0, Pc0
<1>1. B!Connect(p) <=> Connect(p)
  BY DEF B!Connect, Connect, B!Listening, Listening
<1>2. B!ClientTake(p) <=> ClientTake(p)
  BY DEF B!ClientTake, ClientTake
<1>3. B!Send(p) <=> Send(p)
  BY DEF B!Send, Send
<1>4. B!SendFails(p) <=> SendFails(p)
  BY DEF B!SendFails, SendFails
<1>5. B!Bind(p) <=> Bind(p)
  BY DEF B!Bind, Bind
<1>6. B!BindFails(p) <=> BindFails(p)
  BY DEF B!BindFails, BindFails
<1>7. B!Accept(p, "take") <=> Accept(p, "take")
  BY DEF B!Accept, Accept, B!Into, Into
<1>8. B!ServerTake(p) <=> ServerTake(p)
  BY DEF B!ServerTake, ServerTake
<1>9. B!Receive(p) <=> Receive(p)
  BY DEF B!Receive, Receive, B!Recv, Recv, B!Into, Into
<1>10. B!Greet(p) <=> Greet(p)
  BY DEF B!Greet, Greet, B!Starter, Starter
<1>11. B!BrainTake(p) <=> BrainTake(p)
  BY DEF B!BrainTake, BrainTake
<1>12. B!BrainRewrite(p, "track", {"tracker_plein"}) <=> BrainRewrite(p, "track", {"tracker_plein"})
  BY DEF B!BrainRewrite, BrainRewrite
<1>13. B!BrainTrack(p) <=> BrainTrack(p)
  BY DEF B!BrainTrack, BrainTrack
<1>14. B!TrackerTake(p) <=> TrackerTake(p)
  BY DEF B!TrackerTake, TrackerTake
<1>15. B!TrackerDone(p, {"tracker_plein"}) <=> TrackerDone(p, {"tracker_plein"})
  BY DEF B!TrackerDone, TrackerDone
<1>16. B!Killed(p) <=> Killed(p)
  BY DEF B!Killed, Killed
<1>17. B!ForkFails <=> ForkFails
  BY DEF B!ForkFails, ForkFails
<1>18. B!Record <=> Record
  BY DEF B!Record, Record
<1>19. B!MainReturns <=> MainReturns
  BY DEF B!MainReturns, MainReturns
<1>20. B!Fork(p) <=> Fork(p)
  BY DEF B!Fork, Fork
<1>21. B!Interrupted(p, IF p = Main THEN B!Known ELSE {q \in Procs : q < p}) <=> Interrupted(p, IF p = Main THEN Known ELSE {q \in Procs : q < p})
  BY DEF B!Interrupted, Interrupted, B!Known, Known, B!Forked, Forked
<1>22. B!HandlerExits(B!Forked) <=> HandlerExits(Forked)
  BY DEF B!HandlerExits, HandlerExits, B!Forked, Forked
<1> QED
  BY ONLY <1>1, <1>2, <1>3, <1>4, <1>5, <1>6, <1>7, <1>8, <1>9, <1>10, <1>11, <1>12, <1>13,
     <1>14, <1>15, <1>16, <1>17, <1>18, <1>19, <1>20, <1>21, <1>22

(* working.c                                                               *)
LEMMA SameWorking ==
  ASSUME NEW p
  PROVE  /\ W!Connect(p) <=> Connect(p)
         /\ W!ClientTake(p) <=> ClientTake(p)
         /\ W!Send(p) <=> Send(p)
         /\ W!SendFails(p) <=> SendFails(p)
         /\ W!Bind(p) <=> Bind(p)
         /\ W!BindFails(p) <=> BindFails(p)
         /\ W!Accept(p, "take") <=> Accept(p, "take")
         /\ W!ServerTake(p) <=> ServerTake(p)
         /\ W!Receive(p) <=> Receive(p)
         /\ W!Greet(p) <=> Greet(p)
         /\ W!BrainTake(p) <=> BrainTake(p)
         /\ W!BrainRewrite(p, "take", {}) <=> BrainRewrite(p, "take", {})
         /\ W!ForkFails <=> ForkFails
         /\ W!Record <=> Record
         /\ W!MainReturns <=> MainReturns
         /\ W!Fork(p) <=> Fork(p)
         /\ W!Ends(p) <=> Ends(p)
<1> USE DEF W!Up, Up, W!Goto, Goto, W!SemWait, SemWait, W!SemPost, SemPost, W!Post, Post,
      W!Semaphores, Semaphores, W!net, net, W!life, life, W!Ends, Ends, W!Sem0, Sem0, W!Pc0, Pc0
<1>1. W!Connect(p) <=> Connect(p)
  BY DEF W!Connect, Connect, W!Listening, Listening
<1>2. W!ClientTake(p) <=> ClientTake(p)
  BY DEF W!ClientTake, ClientTake
<1>3. W!Send(p) <=> Send(p)
  BY DEF W!Send, Send
<1>4. W!SendFails(p) <=> SendFails(p)
  BY DEF W!SendFails, SendFails
<1>5. W!Bind(p) <=> Bind(p)
  BY DEF W!Bind, Bind
<1>6. W!BindFails(p) <=> BindFails(p)
  BY DEF W!BindFails, BindFails
<1>7. W!Accept(p, "take") <=> Accept(p, "take")
  BY DEF W!Accept, Accept, W!Into, Into
<1>8. W!ServerTake(p) <=> ServerTake(p)
  BY DEF W!ServerTake, ServerTake
<1>9. W!Receive(p) <=> Receive(p)
  BY DEF W!Receive, Receive, W!Recv, Recv, W!Into, Into
<1>10. W!Greet(p) <=> Greet(p)
  BY DEF W!Greet, Greet, W!Starter, Starter
<1>11. W!BrainTake(p) <=> BrainTake(p)
  BY DEF W!BrainTake, BrainTake
<1>12. W!BrainRewrite(p, "take", {}) <=> BrainRewrite(p, "take", {})
  BY DEF W!BrainRewrite, BrainRewrite
<1>13. W!ForkFails <=> ForkFails
  BY DEF W!ForkFails, ForkFails
<1>14. W!Record <=> Record
  BY DEF W!Record, Record
<1>15. W!MainReturns <=> MainReturns
  BY DEF W!MainReturns, MainReturns
<1>16. W!Fork(p) <=> Fork(p)
  BY DEF W!Fork, Fork
<1>17. W!Ends(p) <=> Ends(p)
  BY DEF W!Ends, Ends
<1> QED
  BY ONLY <1>1, <1>2, <1>3, <1>4, <1>5, <1>6, <1>7, <1>8, <1>9, <1>10, <1>11, <1>12, <1>13,
     <1>14, <1>15, <1>16, <1>17

(* and testtest.c.                                                         *)
LEMMA SameTesttest ==
  ASSUME NEW p
  PROVE  /\ T!Connect(p) <=> Connect(p)
         /\ T!ClientTake(p) <=> ClientTake(p)
         /\ T!Send(p) <=> Send(p)
         /\ T!SendFails(p) <=> SendFails(p)
         /\ T!Bind(p) <=> Bind(p)
         /\ T!BindFails(p) <=> BindFails(p)
         /\ T!Accept(p, "take") <=> Accept(p, "take")
         /\ T!ServerTake(p) <=> ServerTake(p)
         /\ T!Receive(p) <=> Receive(p)
         /\ T!Greet(p) <=> Greet(p)
         /\ T!BrainTake(p) <=> BrainTake(p)
         /\ T!BrainRewrite(p, "take", {}) <=> BrainRewrite(p, "take", {})
         /\ T!ForkFails <=> ForkFails
         /\ T!Record <=> Record
         /\ T!MainReturns <=> MainReturns
         /\ T!Fork(p) <=> Fork(p)
         /\ T!Ends(p) <=> Ends(p)
<1> USE DEF T!Up, Up, T!Goto, Goto, T!SemWait, SemWait, T!SemPost, SemPost, T!Post, Post,
      T!Semaphores, Semaphores, T!net, net, T!life, life, T!Ends, Ends, T!Sem0, Sem0, T!Pc0, Pc0
<1>1. T!Connect(p) <=> Connect(p)
  BY DEF T!Connect, Connect, T!Listening, Listening
<1>2. T!ClientTake(p) <=> ClientTake(p)
  BY DEF T!ClientTake, ClientTake
<1>3. T!Send(p) <=> Send(p)
  BY DEF T!Send, Send
<1>4. T!SendFails(p) <=> SendFails(p)
  BY DEF T!SendFails, SendFails
<1>5. T!Bind(p) <=> Bind(p)
  BY DEF T!Bind, Bind
<1>6. T!BindFails(p) <=> BindFails(p)
  BY DEF T!BindFails, BindFails
<1>7. T!Accept(p, "take") <=> Accept(p, "take")
  BY DEF T!Accept, Accept, T!Into, Into
<1>8. T!ServerTake(p) <=> ServerTake(p)
  BY DEF T!ServerTake, ServerTake
<1>9. T!Receive(p) <=> Receive(p)
  BY DEF T!Receive, Receive, T!Recv, Recv, T!Into, Into
<1>10. T!Greet(p) <=> Greet(p)
  BY DEF T!Greet, Greet, T!Starter, Starter
<1>11. T!BrainTake(p) <=> BrainTake(p)
  BY DEF T!BrainTake, BrainTake
<1>12. T!BrainRewrite(p, "take", {}) <=> BrainRewrite(p, "take", {})
  BY DEF T!BrainRewrite, BrainRewrite
<1>13. T!ForkFails <=> ForkFails
  BY DEF T!ForkFails, ForkFails
<1>14. T!Record <=> Record
  BY DEF T!Record, Record
<1>15. T!MainReturns <=> MainReturns
  BY DEF T!MainReturns, MainReturns
<1>16. T!Fork(p) <=> Fork(p)
  BY DEF T!Fork, Fork
<1>17. T!Ends(p) <=> Ends(p)
  BY DEF T!Ends, Ends
<1> QED
  BY ONLY <1>1, <1>2, <1>3, <1>4, <1>5, <1>6, <1>7, <1>8, <1>9, <1>10, <1>11, <1>12, <1>13,
     <1>14, <1>15, <1>16, <1>17

(* The step of a program, whichever it is.                                 *)
Kind ==
  \/ (Ending \/ Living) /\ RelayOK'
  \/ \E p \in Procs : Moves(p)

(* What the threads of the four programs do is one of a few kinds of       *)
(* steps;                                                                  *)
LEMMA KindsOfThreads ==
  ASSUME RelayOK, NEW p \in Procs,
         SendFails(p) \/ BindFails(p) \/ Moves(p) \/ (Ends(p) /\ UNCHANGED killed)
  PROVE  Kind
<1>1. CASE SendFails(p) \/ BindFails(p)
  BY <1>1, ThreadsOK DEF Kind, Ending, SendFails, BindFails
<1>2. CASE Ends(p) /\ UNCHANGED killed
  BY <1>2, EndsOK DEF Kind, Ending, RelayOK, TypeOK
<1> QED BY <1>1, <1>2 DEF Kind

(* what their main and their signals do is too.                            *)
LEMMA KindsOfOthers ==
  ASSUME RelayOK,
         \/ ForkFails \/ Record \/ MainReturns \/ HandlerExits(Forked)
         \/ \E p \in Procs : Fork(p) \/ Killed(p)
         \/ \E x \in Procs \cup {Main} :
              \/ Interrupted(x, IF x = Main THEN Known ELSE {q \in Procs : q < x})
              \/ Ends(x) /\ UNCHANGED killed
  PROVE  Kind
<1>1. CASE \E x \in Procs \cup {Main} : Ends(x) /\ UNCHANGED killed
  BY <1>1, EndsOK DEF Kind, Ending, RelayOK, TypeOK
<1> QED
  BY <1>1, KindsOfMain, KindsOfSignals, MainOK, SignalsOK DEF Kind, RelayOK

(* So whichever program is run, a step is one of these kinds,              *)
LEMMA KindsOfPrograms ==
  ASSUME RelayOK, Next
  PROVE  Kind
<1>1. CASE A!Next
  <2>1. ASSUME NEW p \in Procs, A!create_threads(p)
        PROVE  SendFails(p) \/ BindFails(p) \/ Moves(p)
    BY <2>1, SameAbracadabra DEF A!create_threads, A!Client, A!Server, A!Brain, Moves
  <2>2. A!main \/ A!cleanup \/ (\E p \in Procs : A!Killed(p))
        \/ (\E x \in Procs \cup {Main} : A!signal_handler(x)) => Kind
    BY SameAbracadabra, KindsOfOthers DEF A!main, A!cleanup, A!signal_handler
  <2> QED BY <1>1, <2>1, <2>2, KindsOfThreads DEF A!Next
<1>2. CASE B!Next
  <2>1. ASSUME NEW p \in Procs, B!create_threads(p)
        PROVE  SendFails(p) \/ BindFails(p) \/ Moves(p)
    BY <2>1, SameBrique DEF B!create_threads, B!Client, B!Server, B!Brain, B!Tracker, Moves
  <2>2. B!main \/ B!cleanup \/ (\E p \in Procs : B!Killed(p))
        \/ (\E x \in Procs \cup {Main} : B!signal_handler(x)) => Kind
    BY SameBrique, KindsOfOthers DEF B!main, B!cleanup, B!signal_handler
  <2> QED BY <1>2, <2>1, <2>2, KindsOfThreads DEF B!Next
<1>3. CASE W!Next
  <2>1. ASSUME NEW p \in Procs, W!create_threads(p)
        PROVE  SendFails(p) \/ BindFails(p) \/ Moves(p)
    BY <2>1, SameWorking DEF W!create_threads, W!Client, W!Server, W!Brain, Moves
  <2>2. W!main \/ (\E x \in Procs \cup {Main} : W!cleanup(x)) => Kind
    BY SameWorking, KindsOfOthers DEF W!main, W!cleanup
  <2> QED BY <1>3, <2>1, <2>2, KindsOfThreads DEF W!Next
<1>4. CASE T!Next
  <2>1. ASSUME NEW p \in Procs, T!create_threads(p)
        PROVE  SendFails(p) \/ BindFails(p) \/ Moves(p) \/ (Ends(p) /\ UNCHANGED killed)
    BY <2>1, SameTesttest
    DEF T!create_threads, T!Client, T!Server, T!Brain, T!ConnectFails, Moves
  <2>2. T!main => Kind
    BY SameTesttest, KindsOfOthers DEF T!main
  <2> QED BY <1>4, <2>1, <2>2, KindsOfThreads DEF T!Next
<1> QED BY <1>1, <1>2, <1>3, <1>4 DEF Next

(* and every kind keeps slot and mutexes with their owners.                *)
LEMMA KindsOK ==
  ASSUME RelayOK, Kind \/ UNCHANGED relay
  PROVE  RelayOK'
BY ThreadsOK, RestOK DEF Kind, Moves

(* In the four programs, whoever is interrupted, killed or dies, and       *)
(* however full streams and semaphores are, two threads never use the slot *)
(* at once, and a mutex is held by the thread in the call it belongs to,   *)
(* or free.                                                                *)
THEOREM RelayCorrect == Spec => []RelayOK
<1>1. Init => RelayOK
  BY InitOK DEF Init
<1>2. RelayOK /\ [Next]_vars => RelayOK'
  BY KindsOfPrograms, KindsOK DEF vars
<1> QED BY <1>1, <1>2, PTL DEF Spec

-----------------------------------------------------------------------------
(* The flow of texts. *)

(* Two processes, their threads, their semaphores and their streams are a  *)
(* flow of texts, in the four programs: every reception owes two sends,    *)
(* and between living ends nothing is lost, until a semaphore is at its    *)
(* limit; for any limit of the semaphores and any length of the streams.   *)
THEOREM FlowCorrect == Spec => IsRelayFlow
<1>1. Init => Flow!Init /\ Linking
  BY FlowInit, TwoProcesses DEF Pair, Init
<1>2. RelayOK /\ Linking /\ [Next]_vars => Linking' /\ [Flow!Next \/ Saturated]_(Flow!vars)
  <2> SUFFICES ASSUME RelayOK, Linking, [Next]_vars
               PROVE  Linking' /\ [Flow!Next \/ Saturated]_(Flow!vars)
    OBVIOUS
  <2>1. Ending \/ Living \/ \E p \in Procs : Moves(p)
    BY KindsOfPrograms, KindsOfRest DEF vars, Kind
  <2> QED BY <2>1, StepFlows, TwoProcesses DEF Pair
<1> QED BY <1>1, <1>2, RelayCorrect, PTL DEF Spec, IsRelayFlow
===============================================================================
