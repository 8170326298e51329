------------------------------ MODULE Shutdown ------------------------------
(***************************************************************************)
(* How the processes of multi2.c begin and end: main forks the relaying    *)
(* processes one by one, then the observer, and waits for the former; an   *)
(* interrupt runs signal_handler in whoever gets it, since the children    *)
(* inherit it.  The observer copies what the relaying processes write on   *)
(* the pipe to log.txt, until nobody has the pipe open for writing.        *)
(*                                                                         *)
(* What the relaying processes do meanwhile is in Multi2; here they write  *)
(* on the pipe, or fail, whenever they like.                               *)
(***************************************************************************)
EXTENDS Texts

CONSTANTS Main, Observer,  \* the two other processes
          MaxWrites        \* bound on the texts written on the pipe

ASSUME OthersAssumption == Main \notin Procs /\ Observer \notin Procs /\ Main # Observer
ASSUME MaxWritesAssumption == MaxWrites \in Nat

Processes == Procs \cup {Main, Observer}

VARIABLES
  state,    \* where each process is, "none" before it is forked
  turn,     \* the i of the loop it is in
  pids,     \* per process, the children its copy of the array pids holds
  reaped,   \* the children waitpid has returned to main
  failed,   \* a fork has failed in main's loop
  sigint, sigusr1,        \* the processes with such a signal to come
  pipe, buffer,           \* how many texts are on the pipe, are read and not logged
  written, logged         \* how many have been written, are in log.txt

signals == <<sigint, sigusr1>>
log == <<pipe, buffer, written, logged>>
vars == <<state, turn, pids, reaped, failed, signals, log>>

Init ==
  /\ state = [x \in Processes |-> IF x = Main THEN "loop" ELSE "none"]
  /\ turn = [x \in Processes |-> 0]
  /\ pids = [x \in Processes |-> {}]
  /\ reaped = {} /\ failed = FALSE
  /\ sigint = {} /\ sigusr1 = {}
  /\ pipe = 0 /\ buffer = 0 /\ written = 0 /\ logged = 0

Gone == {"ended", "finished"}
Handling == {"signal", "collect"}
Alive(x) == state[x] \notin Gone \cup {"none"}
Ended(x) == state[x] \in Gone

-----------------------------------------------------------------------------
(* main *)

(* fork does not begin while a signal is to be handled.                    *)
Fork ==
  LET i == turn[Main]
  IN
  /\ state[Main] = "loop" /\ i < NB_PROCESS /\ Main \notin sigint
  /\ state' = [state EXCEPT ![Main] = "record", ![i] = "runs"]
  /\ pids' = [pids EXCEPT ![i] = pids[Main]]
  /\ UNCHANGED <<turn, reaped, failed, signals, log>>

(* The assignment to pids[i]: a step of its own, a signal may come before. *)
Record ==
  /\ state[Main] = "record"
  /\ pids' = [pids EXCEPT ![Main] = @ \cup {turn[Main]}]
  /\ state' = [state EXCEPT ![Main] = "loop"]
  /\ turn' = [turn EXCEPT ![Main] = @ + 1]
  /\ UNCHANGED <<reaped, failed, signals, log>>

(* error("fork") ends main, not the children there are.                    *)
ForkFails ==
  /\ state[Main] = "loop" /\ turn[Main] < NB_PROCESS
  /\ state' = [state EXCEPT ![Main] = "ended"]
  /\ failed' = TRUE
  /\ UNCHANGED <<turn, pids, reaped, signals, log>>

(* The observer is forked after all the others; if that fails main goes on *)
(* without.                                                                *)
ForkObserver ==
  /\ state[Main] = "loop" /\ turn[Main] = NB_PROCESS
  /\ \/ /\ Main \notin sigint
        /\ state' = [state EXCEPT ![Main] = "wait", ![Observer] = "starts"]
        /\ pids' = [pids EXCEPT ![Observer] = pids[Main]]
     \/ /\ state' = [state EXCEPT ![Main] = "wait"]
        /\ UNCHANGED pids
  /\ turn' = [turn EXCEPT ![Main] = 0]
  /\ UNCHANGED <<reaped, failed, signals, log>>

Unreaped == {i \in Procs : state[i] # "none"} \ reaped

(* Mutant: a pid not yet stored is passed over.                            *)
WaitPidKnown(i) ==
  \/ /\ i \in pids[Main] => i \in reaped
     /\ UNCHANGED reaped
  \/ /\ i \in Unreaped \cap pids[Main]
     /\ Ended(i)
     /\ reaped' = reaped \cup {i}

(* waitpid(pids[i]) of main: a child it knows it waits for, unless it has  *)
(* returned it before; a pid not yet stored is 0, which is any child.      *)
(* (The observer is no such child: it comes when all pids are stored.)     *)
WaitPid(i) ==
  \/ /\ IF i \in pids[Main] THEN i \in reaped ELSE Unreaped = {}
     /\ UNCHANGED reaped
  \/ \E j \in Unreaped : /\ i \in pids[Main] => j = i
                         /\ Ended(j)
                         /\ reaped' = reaped \cup {j}

MainWait ==
  /\ state[Main] = "wait" /\ turn[Main] < NB_PROCESS
  /\ WaitPid(turn[Main])
  /\ turn' = [turn EXCEPT ![Main] = @ + 1]
  /\ UNCHANGED <<state, pids, failed, signals, log>>

MainReturns ==
  /\ state[Main] = "wait" /\ turn[Main] = NB_PROCESS
  /\ state' = [state EXCEPT ![Main] = "ended"]
  /\ UNCHANGED <<turn, pids, reaped, failed, signals, log>>

-----------------------------------------------------------------------------
(* signal_handler and cleanup, in any of the processes *)

Interrupted(x) ==
  /\ x \in sigint /\ Alive(x) /\ state[x] \notin Handling
  /\ state' = [state EXCEPT ![x] = "signal"]
  /\ turn' = [turn EXCEPT ![x] = 0]
  /\ UNCHANGED <<pids, reaped, failed, signals, log>>

(* The loop of kill: SIGUSR1 to every process that pids holds; in a child  *)
(* these are the ones forked before it.                                    *)
HandlerSignals(x) ==
  /\ state[x] = "signal"
  /\ sigusr1' = sigusr1 \cup {i \in pids[x] : Alive(i)}
  /\ state' = [state EXCEPT ![x] = "collect"]
  /\ UNCHANGED <<turn, pids, reaped, failed, sigint, log>>

(* The loop of waitpid; it returns at once in a process without children.  *)
HandlerWaits(x) ==
  /\ state[x] = "collect" /\ turn[x] < NB_PROCESS
  /\ IF x = Main THEN WaitPid(turn[x]) ELSE UNCHANGED reaped
  /\ turn' = [turn EXCEPT ![x] = @ + 1]
  /\ UNCHANGED <<state, pids, failed, signals, log>>

(* cleanup closes the pipe and exits.                                      *)
Cleanup(x) ==
  /\ state[x] = "collect" /\ turn[x] = NB_PROCESS
  /\ state' = [state EXCEPT ![x] = "ended"]
  /\ UNCHANGED <<turn, pids, reaped, failed, signals, log>>

(* SIGUSR1 has no handler.                                                 *)
Killed(x) ==
  /\ x \in sigusr1 /\ Alive(x)
  /\ state' = [state EXCEPT ![x] = "ended"]
  /\ UNCHANGED <<turn, pids, reaped, failed, signals, log>>

-----------------------------------------------------------------------------
(* The relaying processes: their trackers write, also while another of     *)
(* their threads handles a signal, and an error ends them.                 *)
Write(i) ==
  /\ Alive(i) /\ written < MaxWrites
  /\ pipe' = pipe + 1 /\ written' = written + 1
  /\ UNCHANGED <<state, turn, pids, reaped, failed, signals, buffer, logged>>

Exits(i) ==
  /\ Alive(i)
  /\ state' = [state EXCEPT ![i] = "ended"]
  /\ UNCHANGED <<turn, pids, reaped, failed, signals, log>>

-----------------------------------------------------------------------------
(* create_observer_process *)

(* The write end is closed and log.txt opened, or not.                     *)
ObserverOpens ==
  /\ state[Observer] = "starts"
  /\ \E s \in {"reads", "ended"} : state' = [state EXCEPT ![Observer] = s]
  /\ UNCHANGED <<turn, pids, reaped, failed, signals, log>>

ObserverReads ==
  /\ state[Observer] = "reads"
  /\ \E k \in 1 .. pipe : pipe' = pipe - k /\ buffer' = k
  /\ state' = [state EXCEPT ![Observer] = "writes"]
  /\ UNCHANGED <<turn, pids, reaped, failed, signals, written, logged>>

(* Mutant: fwrite is given a size of one.                                  *)
ObserverWritesOne ==
  /\ state[Observer] = "writes"
  /\ logged' = logged + 1 /\ buffer' = 0
  /\ state' = [state EXCEPT ![Observer] = "reads"]
  /\ UNCHANGED <<turn, pids, reaped, failed, signals, pipe, written>>

ObserverWrites ==
  /\ state[Observer] = "writes"
  /\ logged' = logged + buffer /\ buffer' = 0
  /\ state' = [state EXCEPT ![Observer] = "reads"]
  /\ UNCHANGED <<turn, pids, reaped, failed, signals, pipe, written>>

(* Mutant: the observer keeps its own write end of the pipe.               *)
WritersWithObserver == {x \in Processes : Alive(x)}

(* Who has the pipe open for writing *)
Writers == {x \in Procs \cup {Main} : Alive(x)}
             \cup {x \in {Observer} : state[x] = "starts"}

(* read returns 0.                                                         *)
ObserverFinishes ==
  /\ state[Observer] = "reads" /\ pipe = 0 /\ Writers = {}
  /\ state' = [state EXCEPT ![Observer] = "finished"]
  /\ UNCHANGED <<turn, pids, reaped, failed, signals, log>>

-----------------------------------------------------------------------------
(* An interrupt to one process (kill -INT) or to all of them (Ctrl-C).     *)
Interrupt ==
  /\ \E s \in {{x} : x \in Processes} \cup {Processes} :
       sigint' = sigint \cup {x \in s : Alive(x)}
  /\ UNCHANGED <<state, turn, pids, reaped, failed, sigusr1, log>>

MainStep == \/ Fork \/ Record \/ ForkFails \/ ForkObserver \/ MainWait \/ MainReturns
ObserverStep == \/ ObserverOpens \/ ObserverReads \/ ObserverWrites \/ ObserverFinishes
Handler(x) == \/ Interrupted(x) \/ HandlerSignals(x) \/ HandlerWaits(x) \/ Cleanup(x)
              \/ Killed(x)

Next == \/ MainStep \/ ObserverStep \/ Interrupt
        \/ \E x \in Processes : Handler(x)
        \/ \E i \in Procs : Write(i) \/ Exits(i)

Spec == Init /\ [][Next]_vars

(* Main and the observer go on, signals are delivered; nobody has to write, *)
(* fail or be interrupted.                                                 *)
FairSpec == /\ Spec /\ WF_vars(MainStep) /\ WF_vars(ObserverStep)
            /\ \A x \in Processes : WF_vars(Handler(x))

-----------------------------------------------------------------------------
(* The values of every variable.                                           *)
TypeOK ==
  /\ state \in [Processes -> {"none", "loop", "record", "wait", "runs", "starts", "reads",
                              "writes", "signal", "collect", "ended", "finished"}]
  /\ turn \in [Processes -> 0 .. NB_PROCESS]
  /\ pids \in [Processes -> SUBSET Procs]
  /\ reaped \in SUBSET Procs /\ failed \in BOOLEAN
  /\ sigint \in SUBSET Processes /\ sigusr1 \in SUBSET Procs
  /\ pipe \in Nat /\ buffer \in Nat /\ written \in Nat /\ logged \in Nat

(* Main leaves no relaying process behind, however it ends, unless a fork  *)
(* has failed: also the child whose number it had no time to store, which  *)
(* it waits for with the 0 that is still in pids.                          *)
NobodyLeft ==
  state[Main] = "ended" /\ ~failed => \A i \in Procs : ~Alive(i)

(* When the observer has come to the end of the pipe, everything ever      *)
(* written is in log.txt, and nobody is left to write more.                *)
LogComplete ==
  state[Observer] = "finished" => logged = written /\ \A x \in Processes : ~Alive(x)

AllEnded == \A x \in Processes : ~Alive(x)

(* Interrupting main outside of the moment between a fork and the          *)
(* assignment of its result ends every process.                            *)
Stored == {i \in Procs : state[i] # "none"} \subseteq pids[Main]
InterruptEnds == (state[Main] = "signal" /\ Stored) ~> AllEnded

(* Ctrl-C ends every process, at any moment.                               *)
GroupInterruptEnds ==
  (Alive(Main) /\ \A x \in Processes : Alive(x) => x \in sigint) ~> AllEnded

(* When all the relaying processes have ended, so do main and the observer.*)
EndsWithChildren == (\A i \in Procs : Ended(i)) ~> AllEnded

(* Whichever way the end begins, nobody survives it: not main in a loop    *)
(* of waitpid, not the observer at a pipe that somebody keeps open.        *)
EndsEverywhere == InterruptEnds /\ GroupInterruptEnds /\ EndsWithChildren

(* multi2.c:455, "Attendre la terminaison des processus fils", and 464,    *)
(* "Nettoyage et sortie": main, interrupted, waits for its children and    *)
(* exits.                                                                  *)
HandlerExits == state[Main] = "signal" ~> Ended(Main)
=============================================================================
