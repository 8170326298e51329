--------------------------- MODULE Shutdown_proofs ---------------------------
(***************************************************************************)
(* Theorems about the beginning and the end of multi2.c, for any number of *)
(* relaying processes and of texts.                                        *)
(***************************************************************************)
EXTENDS Shutdown, TLAPS

USE NbProcessAssumption, OthersAssumption, MaxWritesAssumption

(* Where each kind of process can be; the observer comes last.             *)
States ==
  /\ state[Main] \in {"loop", "record", "wait", "signal", "collect", "ended"}
  /\ state[Observer] \in {"none", "starts", "reads", "writes", "signal", "collect", "ended",
                          "finished"}
  /\ \A i \in Procs : state[i] \in {"none", "runs", "signal", "collect", "ended"}
  /\ state[Main] \in {"loop", "record"} => state[Observer] = "none"
  /\ state[Main] = "record" => turn[Main] < NB_PROCESS

-----------------------------------------------------------------------------
(* The values of the loop variables.                                       *)
LEMMA Turns ==
  /\ 0 \in 0 .. NB_PROCESS
  /\ \A k \in 0 .. NB_PROCESS : k < NB_PROCESS => k \in Procs /\ k + 1 \in 0 .. NB_PROCESS
  /\ \A k \in 0 .. NB_PROCESS : k \in Int
  /\ \A k \in Procs : k \in Int /\ 0 <= k /\ k < NB_PROCESS
BY DEF Procs

(* The variables keep their types; of an array pids that is not fully      *)
(* stored no index is used out of bounds.                                  *)
THEOREM TypeCorrect == Spec => [](TypeOK /\ States)
<1>1. Init => TypeOK /\ States
  <2> SUFFICES ASSUME Init PROVE TypeOK /\ States
    OBVIOUS
  <2>1. TypeOK
    BY Turns DEF Init, TypeOK, Processes
  <2>2. States
    BY DEF Init, States, Processes
  <2> QED BY <2>1, <2>2
<1>2. TypeOK /\ States /\ [Next]_vars => TypeOK' /\ States'
  <2> SUFFICES ASSUME TypeOK, States, [Next]_vars
               PROVE  TypeOK' /\ States'
    OBVIOUS
  <2> USE DEF TypeOK, States, Processes
  <2>1. CASE Fork
    <3>1. turn[Main] \in Procs
      BY <2>1, Turns DEF Fork
    <3> QED BY <2>1, <3>1 DEF Fork, signals, log
  <2>2. CASE Record
    <3>1. turn[Main] \in Procs /\ turn[Main] + 1 \in 0 .. NB_PROCESS
      BY <2>2, Turns DEF Record
    <3> QED BY <2>2, <3>1 DEF Record, signals, log
  <2>3. CASE ForkFails
    BY <2>3 DEF ForkFails, signals, log
  <2>4. CASE ForkObserver
    BY <2>4, Turns DEF ForkObserver, signals, log
  <2>5. CASE MainWait
    BY <2>5 DEF MainWait, WaitPid, Unreaped, signals, log
  <2>6. CASE MainReturns
    BY <2>6 DEF MainReturns, signals, log
  <2>7. CASE ObserverStep
    BY <2>7 DEF ObserverStep, ObserverOpens, ObserverReads, ObserverWrites, ObserverFinishes,
                signals, log
  <2>8. CASE Interrupt
    BY <2>8 DEF Interrupt, log
  <2>9. CASE \E x \in Processes : Handler(x)
    <3> SUFFICES ASSUME NEW x \in Processes, Handler(x)
                 PROVE  TypeOK' /\ States'
      BY <2>9
    <3>1. CASE Interrupted(x)
      BY <3>1 DEF Interrupted, Alive, Gone, Handling, signals, log
    <3>2. CASE HandlerSignals(x)
      BY <3>2 DEF HandlerSignals, log
    <3>3. CASE HandlerWaits(x)
      BY <3>3 DEF HandlerWaits, WaitPid, Unreaped, signals, log
    <3>4. CASE Cleanup(x)
      BY <3>4 DEF Cleanup, signals, log
    <3>5. CASE Killed(x)
      BY <3>5 DEF Killed, Alive, Gone, signals, log
    <3> QED BY <3>1, <3>2, <3>3, <3>4, <3>5 DEF Handler
  <2>10. CASE \E i \in Procs : Write(i) \/ Exits(i)
    BY <2>10 DEF Write, Exits, Alive, Gone, signals, log
  <2>11. CASE UNCHANGED vars
    BY <2>11 DEF vars, signals, log
  <2> QED BY <2>1, <2>2, <2>3, <2>4, <2>5, <2>6, <2>7, <2>8, <2>9, <2>10, <2>11
          DEF Next, MainStep
<1> QED BY <1>1, <1>2, PTL DEF Spec

-----------------------------------------------------------------------------
(* Every text is on the pipe, read or logged; the observer has nothing     *)
(* unlogged when it reads; after the end of the pipe nobody is there.      *)
LogInv ==
  /\ written = logged + buffer + pipe
  /\ state[Observer] \in {"none", "starts", "reads"} => buffer = 0
  /\ LogComplete

(* What the observer has seen the end of is complete in log.txt.           *)
THEOREM LogCorrect == Spec => []LogComplete
<1>1. Init => LogInv
  BY DEF Init, LogInv, LogComplete, Processes
<1>2. TypeOK /\ States /\ LogInv /\ [Next]_vars => LogInv'
  <2> SUFFICES ASSUME TypeOK, States, LogInv, [Next]_vars
               PROVE  LogInv'
    OBVIOUS
  <2> USE DEF TypeOK, States, LogInv, LogComplete, Processes, Alive, Gone
  <2>1. CASE MainStep
    <3>1. CASE Fork
      <4>1. turn[Main] \in Procs
        BY <3>1, Turns DEF Fork
      <4> QED BY <3>1, <4>1 DEF Fork, signals, log
    <3>2. CASE Record \/ ForkFails
      BY <3>2 DEF Record, ForkFails, signals, log
    <3>3. CASE ForkObserver
      BY <3>3 DEF ForkObserver, signals, log
    <3>4. CASE MainWait \/ MainReturns
      BY <3>4 DEF MainWait, MainReturns, signals, log
    <3> QED BY <2>1, <3>1, <3>2, <3>3, <3>4 DEF MainStep
  <2>2. CASE ObserverStep
    <3>1. CASE ObserverOpens
      BY <3>1 DEF ObserverOpens, signals, log
    <3>2. CASE ObserverReads
      BY <3>2 DEF ObserverReads, signals, log
    <3>3. CASE ObserverWrites
      BY <3>3 DEF ObserverWrites, signals, log
    <3>4. CASE ObserverFinishes
      BY <3>4 DEF ObserverFinishes, Writers, signals, log
    <3> QED BY <2>2, <3>1, <3>2, <3>3, <3>4 DEF ObserverStep
  <2>3. CASE Interrupt
    BY <2>3 DEF Interrupt, log
  <2>4. CASE \E x \in Processes : Handler(x)
    BY <2>4 DEF Handler, Interrupted, HandlerSignals, HandlerWaits, Cleanup, Killed,
                signals, log
  <2>5. CASE \E i \in Procs : Write(i) \/ Exits(i)
    BY <2>5 DEF Write, Exits, signals, log
  <2>6. CASE UNCHANGED vars
    BY <2>6 DEF vars, signals, log
  <2> QED BY <2>1, <2>2, <2>3, <2>4, <2>5, <2>6 DEF Next
<1> QED BY <1>1, <1>2, TypeCorrect, PTL DEF Spec, LogInv

-----------------------------------------------------------------------------
(* Which children there are and which of them main knows: all but perhaps  *)
(* the last.                                                               *)
ForkInv ==
  /\ state[Main] \in {"loop", "record"} => \A i \in Procs : i \in pids[Main] <=> i < turn[Main]
  /\ state[Main] = "loop" => \A i \in Procs : state[i] # "none" <=> i < turn[Main]
  /\ state[Main] = "record" =>
       turn[Main] < NB_PROCESS /\ \A i \in Procs : state[i] # "none" <=> i <= turn[Main]
  /\ state[Main] = "wait" => pids[Main] = Procs
  /\ \A i \in pids[Main] : state[i] # "none"
  /\ \A i \in pids[Main], j \in Procs : j < i => j \in pids[Main]
  /\ \A i \in Procs \ pids[Main] : state[i] # "none" =>
       \A j \in Procs : j < i => j \in pids[Main]

(* The loops of waitpid have returned what they have passed.               *)
WaitInv ==
  /\ \A i \in reaped : Ended(i)
  /\ state[Main] = "wait" => \A i \in Procs : i < turn[Main] => i \in reaped
  /\ state[Main] = "signal" => turn[Main] = 0
  /\ state[Main] = "collect" =>
       \A i \in Procs : i < turn[Main] => i \in reaped \/ state[i] = "none"
  /\ NobodyLeft

(* Forking in order keeps main's picture of its children a prefix of them. *)
THEOREM ForkCorrect == Spec => []ForkInv
<1>1. Init => ForkInv
  <2> SUFFICES ASSUME Init PROVE ForkInv
    OBVIOUS
  <2>1. state[Main] = "loop" /\ turn[Main] = 0 /\ pids[Main] = {}
    BY DEF Init, Processes
  <2>2. \A i \in Procs : state[i] = "none" /\ ~(i < 0)
    BY Turns DEF Init, Processes
  <2> QED BY <2>1, <2>2 DEF ForkInv
<1>2. TypeOK /\ States /\ ForkInv /\ [Next]_vars => ForkInv'
  <2> SUFFICES ASSUME TypeOK, States, ForkInv, [Next]_vars
               PROVE  ForkInv'
    OBVIOUS
  <2> USE DEF TypeOK, States, ForkInv, Processes
  <2>1. CASE Fork
    <3> DEFINE k == turn[Main]
    <3>1. k \in Procs /\ k \in Int
      BY <2>1, Turns DEF Fork
    <3>2. /\ state'[Main] = "record" /\ state'[k] = "runs" /\ turn' = turn
          /\ \A i \in Procs \ {k} : state'[i] = state[i]
          /\ pids'[Main] = pids[Main]
      BY <2>1, <3>1 DEF Fork
    <3>3. \A i \in Procs : state'[i] # "none" <=> i <= k
      BY <2>1, <3>1, <3>2, Turns DEF Fork
    <3>4. k < NB_PROCESS
      BY <2>1 DEF Fork
    <3>5. \A i \in Procs : i \in pids[Main] <=> i < k
      BY <2>1 DEF Fork
    <3> HIDE DEF k
    <3> QED BY <3>1, <3>2, <3>3, <3>4, <3>5, Turns DEF k
  <2>2. CASE Record
    <3> DEFINE k == turn[Main]
    <3>1. k \in Procs /\ k \in Int /\ k + 1 \in 0 .. NB_PROCESS
      BY <2>2, Turns DEF Record
    <3>2. /\ state'[Main] = "loop" /\ turn'[Main] = k + 1
          /\ \A i \in Procs : state'[i] = state[i]
          /\ pids'[Main] = pids[Main] \cup {k}
      BY <2>2, <3>1 DEF Record
    <3>3. /\ \A i \in Procs : i \in pids[Main] <=> i < k
          /\ \A i \in Procs : state[i] # "none" <=> i <= k
      BY <2>2 DEF Record
    <3> HIDE DEF k
    <3>4. \A i \in Procs : i <= k <=> i < k + 1
      BY <3>1, Turns
    <3>5. \A i \in Procs : i \in pids'[Main] <=> i < k + 1
      BY <3>1, <3>2, <3>3, <3>4, Turns
    <3>6. \A i \in pids'[Main] : i \in Procs
      BY <3>1, <3>2
    <3>7. ASSUME NEW i \in pids'[Main], NEW j \in Procs, j < i
          PROVE  j \in pids'[Main]
      <4>1. i \in Int /\ j \in Int /\ i < k + 1
        BY <3>5, <3>6, Turns
      <4>2. j < k + 1
        BY <3>1, <3>7, <4>1
      <4> QED BY <3>5, <4>2
    <3> QED BY <3>2, <3>3, <3>4, <3>5, <3>6, <3>7
  <2>3. CASE ForkFails
    BY <2>3 DEF ForkFails, signals, log
  <2>4. CASE ForkObserver
    <3>1. /\ state'[Main] = "wait" /\ \A i \in Procs : state'[i] = state[i]
          /\ pids'[Main] = pids[Main]
      BY <2>4 DEF ForkObserver
    <3>2. \A i \in Procs : i < NB_PROCESS
      BY Turns
    <3>3. pids[Main] = Procs
      BY <2>4, <3>2 DEF ForkObserver
    <3> QED BY <3>1, <3>3
  <2>5. CASE MainWait \/ MainReturns
    BY <2>5 DEF MainWait, MainReturns, signals, log
  <2>6. CASE ObserverStep
    BY <2>6 DEF ObserverStep, ObserverOpens, ObserverReads, ObserverWrites, ObserverFinishes,
                signals, log
  <2>7. CASE Interrupt
    BY <2>7 DEF Interrupt, log
  <2>8. CASE \E x \in Processes : Handler(x)
    BY <2>8 DEF Handler, Interrupted, HandlerSignals, HandlerWaits, Cleanup, Killed,
                Alive, Gone, Handling, signals, log
  <2>9. CASE \E i \in Procs : Write(i) \/ Exits(i)
    BY <2>9 DEF Write, Exits, Alive, Gone, signals, log
  <2>10. CASE UNCHANGED vars
    BY <2>10 DEF vars, signals, log
  <2> QED BY <2>1, <2>2, <2>3, <2>4, <2>5, <2>6, <2>7, <2>8, <2>9, <2>10 DEF Next, MainStep
<1> QED BY <1>1, <1>2, TypeCorrect, PTL DEF Spec

(* waitpid(pids[i]), all before i being returned, leaves i returned or     *)
(* never forked, also when main does not know i.                           *)
LEMMA WaitPidReturns ==
  ASSUME TypeOK, States, ForkInv, NEW i \in Procs, WaitPid(i),
         \A j \in reaped : Ended(j),
         \A j \in Procs : j < i => j \in reaped \/ state[j] = "none"
  PROVE  /\ i \in reaped' \/ state[i] = "none"
         /\ i \in pids[Main] => i \in reaped'
         /\ reaped \subseteq reaped' /\ \A j \in reaped' : Ended(j)
<1>1. CASE i \in pids[Main]
  BY <1>1 DEF WaitPid
<1>2. CASE i \notin pids[Main] /\ Unreaped = {} /\ UNCHANGED reaped
  BY <1>2 DEF Unreaped
<1>3. ASSUME i \notin pids[Main],
             NEW j \in Unreaped, Ended(j), reaped' = reaped \cup {j}
      PROVE  i = j \/ state[i] = "none"
  <2>1. j \in Procs /\ state[j] # "none" /\ j \notin reaped
    BY <1>3 DEF Unreaped
  <2>2. ~(j < i)
    BY <2>1
  <2>3. CASE i < j
    BY <1>3, <2>1, <2>3 DEF ForkInv, TypeOK
  <2> QED BY <2>1, <2>2, <2>3 DEF Procs
<1> QED BY <1>1, <1>2, <1>3 DEF WaitPid

(* Main ends after its children, whatever interrupts it, unless it could   *)
(* not fork them.                                                          *)
THEOREM NobodyLeftCorrect == Spec => []NobodyLeft
<1>1. Init => WaitInv
  BY DEF Init, WaitInv, NobodyLeft, Processes
<1>2. TypeOK /\ States /\ ForkInv /\ WaitInv /\ [Next]_vars => WaitInv'
  <2> SUFFICES ASSUME TypeOK, States, ForkInv, WaitInv, [Next]_vars
               PROVE  WaitInv'
    OBVIOUS
  <2> USE DEF TypeOK, States, WaitInv, NobodyLeft, Processes, Ended, Gone, Alive
  <2>1. CASE Fork \/ Record \/ ForkFails
    <3>1. CASE Fork
      <4>1. turn[Main] \in Procs /\ ~(turn[Main] < turn[Main])
        BY <3>1, Turns DEF Fork
      <4>2. state[turn[Main]] = "none"
        BY <3>1, <4>1 DEF Fork, ForkInv
      <4> QED BY <3>1, <4>1, <4>2 DEF Fork, signals, log
    <3>2. CASE Record \/ ForkFails
      BY <3>2 DEF Record, ForkFails, signals, log
    <3> QED BY <2>1, <3>1, <3>2
  <2>2. CASE ForkObserver
    BY <2>2, Turns DEF ForkObserver, signals, log
  <2>3. CASE MainWait
    <3> DEFINE i == turn[Main]
    <3>1. i \in Procs /\ WaitPid(i) /\ i \in pids[Main]
      BY <2>3 DEF MainWait, Procs, ForkInv
    <3>2. i \in reaped' /\ reaped \subseteq reaped' /\ \A j \in reaped' : Ended(j)
      BY <2>3, <3>1, WaitPidReturns DEF MainWait
    <3> QED BY <2>3, <3>1, <3>2 DEF MainWait, signals, log, Procs
  <2>4. CASE MainReturns
    BY <2>4 DEF MainReturns, signals, log, Procs
  <2>5. CASE ObserverStep
    BY <2>5 DEF ObserverStep, ObserverOpens, ObserverReads, ObserverWrites, ObserverFinishes,
                signals, log
  <2>6. CASE Interrupt
    BY <2>6 DEF Interrupt, log
  <2>7. ASSUME NEW x \in Processes, Handler(x)
        PROVE  WaitInv'
    <3>1. CASE Interrupted(x) \/ HandlerSignals(x) \/ Killed(x)
      <4>1. CASE Interrupted(x)
        BY <4>1, Turns DEF Interrupted, signals, log
      <4>2. CASE HandlerSignals(x)
        BY <4>2, Turns DEF HandlerSignals, log
      <4>3. CASE Killed(x)
        BY <4>3 DEF Killed, signals, log
      <4> QED BY <3>1, <4>1, <4>2, <4>3
    <3>2. CASE HandlerWaits(x) /\ x = Main
      <4> DEFINE i == turn[Main]
      <4>1. i \in Procs /\ WaitPid(i)
        BY <3>2 DEF HandlerWaits, Procs
      <4>2. /\ i \in reaped' \/ state[i] = "none"
            /\ reaped \subseteq reaped' /\ \A j \in reaped' : Ended(j)
        BY <3>2, <4>1, WaitPidReturns DEF HandlerWaits
      <4> QED BY <3>2, <4>1, <4>2 DEF HandlerWaits, signals, log, Procs
    <3>3. CASE HandlerWaits(x) /\ x # Main
      BY <3>3 DEF HandlerWaits, signals, log
    <3>4. CASE Cleanup(x)
      BY <3>4 DEF Cleanup, signals, log, Procs
    <3> QED BY <2>7, <3>1, <3>2, <3>3, <3>4 DEF Handler
  <2>8. CASE \E i \in Procs : Write(i) \/ Exits(i)
    BY <2>8 DEF Write, Exits, signals, log
  <2>9. CASE UNCHANGED vars
    BY <2>9 DEF vars, signals, log
  <2> QED BY <2>1, <2>2, <2>3, <2>4, <2>5, <2>6, <2>7, <2>8, <2>9 DEF Next, MainStep
<1> QED BY <1>1, <1>2, TypeCorrect, ForkCorrect, PTL DEF Spec, WaitInv
=============================================================================
