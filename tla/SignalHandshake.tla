--------------------------- MODULE SignalHandshake ---------------------------
(***************************************************************************)
(* TP3.c: a father sends SIGUSR1 to his son, who is to answer SIGUSR2, for *)
(* which the father sends SIGTERM.  One handler serves all three signals,  *)
(* and none of its cases breaks.  Somebody at a shell may send the son a   *)
(* SIGTERM or a SIGUSR1 too.                                               *)
(*                                                                         *)
(* A signal waits while its own handler runs.  Whether another one does is *)
(* not known, sa_mask is not initialized: it may or may not interrupt.     *)
(***************************************************************************)
EXTENDS Naturals

Procs == {"pere", "fils"}
Signals == {"SIGUSR1", "SIGUSR2", "SIGTERM"}
None == "none"

VARIABLES
  at,        \* per process, the call of main it is before, "exited" or "killed"
  handles,   \* per process, the signals for which fct is installed
  pending,   \* per process and signal, who has sent it, or None
  fct,       \* per process, the call it is before in the handler, or None
  si_pid,    \* per process, who has sent the signal that it handles
  begun      \* per process, the signals whose handler has begun and not returned

vars == <<at, handles, pending, fct, si_pid, begun>>

Init ==
  /\ at = [x \in Procs |-> IF x = "pere" THEN "fork" ELSE None]
  /\ handles = [x \in Procs |-> {}]
  /\ pending = [x \in Procs |-> [s \in Signals |-> None]]
  /\ fct = [x \in Procs |-> None] /\ si_pid = [x \in Procs |-> None]
  /\ begun = [x \in Procs |-> {}]

Alive(x) == at[x] \notin {None, "exited", "killed"}

(* A signal that is on its way already is not sent twice, and one to who   *)
(* has ended is lost.                                                      *)
Sent(from, to, s) ==
  IF to \in Procs /\ Alive(to) /\ pending[to][s] = None
  THEN [pending EXCEPT ![to][s] = from] ELSE pending

Dies(x, how) ==
  /\ at' = [at EXCEPT ![x] = how] /\ fct' = [fct EXCEPT ![x] = None]
  /\ pending' = [pending EXCEPT ![x] = [s \in Signals |-> None]]
  /\ handles' = [handles EXCEPT ![x] = {}] /\ begun' = [begun EXCEPT ![x] = {}]
  /\ UNCHANGED si_pid

-----------------------------------------------------------------------------
(* main: what is pending is delivered before a call returns                *)
Main(x, from, to) ==
  /\ at[x] = from /\ fct[x] = None /\ \A s \in Signals : pending[x][s] = None
  /\ at' = [at EXCEPT ![x] = to]

Fork ==
  /\ at["pere"] = "fork"
  /\ \/ at' = [at EXCEPT !["pere"] = "sigaction", !["fils"] = "sigaction"]
     \/ at' = [at EXCEPT !["pere"] = "exited"]
  /\ UNCHANGED <<handles, pending, fct, si_pid, begun>>

(* The father's comes after his sleep, which the son may sleep through.    *)
Sigaction(x) ==
  /\ \/ x = "pere" /\ Main(x, "sigaction", "kill")
        /\ handles' = [handles EXCEPT ![x] = {"SIGUSR2"}]
     \/ x = "fils" /\ Main(x, "sigaction", "sigaction2")
        /\ handles' = [handles EXCEPT ![x] = {"SIGUSR1"}]
     \/ x = "fils" /\ Main(x, "sigaction2", "pause")
        /\ handles' = [handles EXCEPT ![x] = {"SIGUSR1", "SIGTERM"}]
  /\ UNCHANGED <<pending, fct, si_pid, begun>>

Kill ==
  /\ Main("pere", "kill", "wait") /\ pending' = Sent("pere", "fils", "SIGUSR1")
  /\ UNCHANGED <<handles, fct, si_pid, begun>>

Wait ==
  /\ ~Alive("fils") /\ Main("pere", "wait", "exited")
  /\ UNCHANGED <<handles, pending, fct, si_pid, begun>>

-----------------------------------------------------------------------------
(* The handler.  Another signal may interrupt it; who has begun it again   *)
(* never comes back to the first.                                          *)
Deliver(x, s) ==
  /\ Alive(x) /\ pending[x][s] # None /\ s \notin begun[x]
  /\ IF s \in handles[x]
     THEN /\ fct' = [fct EXCEPT ![x] = s] /\ si_pid' = [si_pid EXCEPT ![x] = pending[x][s]]
          /\ pending' = [pending EXCEPT ![x][s] = None]
          /\ begun' = [begun EXCEPT ![x] = @ \cup {s}] /\ UNCHANGED <<at, handles>>
     ELSE Dies(x, "killed")

(* Mutant: each case breaks.                                               *)
CaseBreaks(x) ==
  /\ Alive(x)
  /\ \/ /\ fct[x] \in {"SIGUSR1", "SIGUSR2"}
        /\ pending' = Sent(x, si_pid[x], IF fct[x] = "SIGUSR1" THEN "SIGUSR2" ELSE "SIGTERM")
        /\ fct' = [fct EXCEPT ![x] = None] /\ begun' = [begun EXCEPT ![x] = {}]
        /\ UNCHANGED <<at, handles, si_pid>>
     \/ fct[x] = "SIGTERM" /\ Dies(x, "exited")

(* The cases in turn, from the one of the signal to the end.               *)
Case(x) ==
  /\ Alive(x)
  /\ \/ /\ fct[x] = "SIGUSR1" /\ pending' = Sent(x, si_pid[x], "SIGUSR2")
        /\ fct' = [fct EXCEPT ![x] = "SIGUSR2"] /\ UNCHANGED <<at, handles, si_pid, begun>>
     \/ /\ fct[x] = "SIGUSR2" /\ pending' = Sent(x, si_pid[x], "SIGTERM")
        /\ fct' = [fct EXCEPT ![x] = "SIGTERM"] /\ UNCHANGED <<at, handles, si_pid, begun>>
     \/ fct[x] = "SIGTERM" /\ Dies(x, "exited")

Shell ==
  /\ Alive("fils")
  /\ \E s \in {"SIGUSR1", "SIGTERM"} : pending' = Sent("shell", "fils", s)
  /\ UNCHANGED <<at, handles, fct, si_pid, begun>>

main(x) == Sigaction(x) \/ (x = "pere" /\ (Fork \/ Kill \/ Wait))
handler(x) == Case(x) \/ \E s \in Signals : Deliver(x, s)

Next == Shell \/ \E x \in Procs : main(x) \/ handler(x)

Spec == Init /\ [][Next]_vars
=============================================================================
