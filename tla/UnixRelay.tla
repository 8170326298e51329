------------------------------ MODULE UnixRelay ------------------------------
(***************************************************************************)
(* The steps of the threads of projet.c, projet2.c, "projet2 copy.c",      *)
(* projet2_wow.c, projet3.c and projet_w_brain.c: two processes relay a    *)
(* text over Unix sockets, with mutexes and condition variables between    *)
(* their threads.  The client connects before it waits for a text; the     *)
(* server receives one text per connection, with a mutex in its hands.     *)
(* After fork each process has its own copy of every buffer, mutex and     *)
(* condition variable.  The programs differ in who waits for which of      *)
(* them; each has a module of its own.                                     *)
(*                                                                         *)
(* A buffer is full or not; what a text says is left out.  A mutex that is *)
(* never held across a call that blocks is left out: a critical section is *)
(* one step.                                                               *)
(***************************************************************************)
EXTENDS Naturals, Sequences

CONSTANTS Backlog,  \* the connections that wait for accept before connect blocks
          Main      \* the process that forks

ASSUME BacklogAssumption == Backlog \in Nat \ {0}
ASSUME MainAssumption == Main \notin {1, 2}

Procs == {1, 2}
Peer(p) == 3 - p

VARIABLES
  state,    \* per process, "none", "runs", "waits" (main for its children), "failed" or "ended"
  stop,     \* per process, the variable its signal handler sets
  killed,   \* the processes with a SIGUSR1 to come
  pc,       \* per process and thread, where it is
  send_buffer, recv_buffer,  \* per process, whether the size is not 0
  conns     \* per process, its accepted and its waiting connections: "yet", "text" or "end"

buffers == <<send_buffer, recv_buffer>>
life == <<state, stop, killed>>
vars == <<life, pc, buffers, conns>>

Pc0 == [p \in Procs |-> [client |-> "top", server |-> "bind", brain |-> "lock",
                         main |-> IF p = 1 THEN "seed" ELSE "join"]]

Init ==
  /\ state = [x \in Procs \cup {Main} |-> IF x = Main THEN "runs" ELSE "none"]
  /\ stop = [x \in Procs \cup {Main} |-> FALSE] /\ killed = {}
  /\ pc = Pc0
  /\ send_buffer = [p \in Procs |-> FALSE] /\ recv_buffer = [p \in Procs |-> FALSE]
  /\ conns = [p \in Procs |-> <<>>]

Up(p) == state[p] = "runs"
At(p, t, place) == Up(p) /\ pc[p][t] = place

(* Thread t goes on, and one of the threads of cond that wait, if any, is  *)
(* signalled.                                                              *)
Goto(p, t, to, cond) ==
  LET waiting == {u \in cond : pc[p][u] = "wait"}
  IN  \E woken \in IF waiting = {} THEN {t} ELSE waiting :
        pc' = [pc EXCEPT ![p][woken] = "lock", ![p][t] = to]

(* The connection of p's client is the last one made, and has no text yet. *)
Open(p) == LET c == conns[Peer(p)] IN c # <<>> /\ c[Len(c)] = "yet"
Last(c, s) == [c EXCEPT ![Len(c)] = s]

(* A process ends: its memory and the connections to it are gone, its own  *)
(* are at their end.                                                       *)
Ends(p) ==
  /\ state' = [state EXCEPT ![p] = "ended"] /\ stop' = [stop EXCEPT ![p] = FALSE]
  /\ killed' = killed \ {p}
  /\ pc' = [pc EXCEPT ![p] = Pc0[p]]
  /\ send_buffer' = [send_buffer EXCEPT ![p] = FALSE]
  /\ recv_buffer' = [recv_buffer EXCEPT ![p] = FALSE]
  /\ conns' = [q \in Procs |-> IF q = p THEN <<>>
                               ELSE IF Open(p) THEN Last(conns[q], "end") ELSE conns[q]]

-----------------------------------------------------------------------------
(* client_thread *)

(* The connections to p that its server has not accepted.                  *)
Queued(p) == Len(conns[p]) - (IF pc[p].server \in {"recv", "wait", "leave"} THEN 1 ELSE 0)

Listening(p) == Up(p) /\ pc[p].server \notin {"bind", "done"}

ClientTop(p) ==
  /\ At(p, "client", "top")
  /\ Goto(p, "client", IF stop[p] THEN "done" ELSE "connect", {})
  /\ UNCHANGED <<life, buffers, conns>>

Connect(p) ==
  /\ At(p, "client", "connect")
  /\ Listening(Peer(p)) /\ Queued(Peer(p)) < Backlog
  /\ conns' = [conns EXCEPT ![Peer(p)] = Append(@, "yet")]
  /\ Goto(p, "client", "lock", {}) /\ UNCHANGED <<life, buffers>>

ConnectFails(p) ==
  /\ At(p, "client", "connect") /\ ~Listening(Peer(p))
  /\ Goto(p, "client", "top", {}) /\ UNCHANGED <<life, buffers, conns>>

ClientStops(p) ==
  /\ At(p, "client", "lock") /\ stop[p]
  /\ Goto(p, "client", "done", {}) /\ UNCHANGED <<life, buffers, conns>>

(* A signal to a thread that has not begun to wait would be lost: with the *)
(* mutex in its hands from the look at size to the wait, none is.          *)
ClientWaits(p, full) ==
  /\ At(p, "client", "lock") /\ ~stop[p] /\ ~full
  /\ Goto(p, "client", "wait", {}) /\ UNCHANGED <<life, buffers, conns>>

(* Mutant: the buffer keeps its size.                                      *)
ClientSendsKeeps(p) ==
  /\ At(p, "client", "lock") /\ ~stop[p] /\ send_buffer[p] /\ Open(p)
  /\ conns' = [conns EXCEPT ![Peer(p)] = Last(@, "text")]
  /\ Goto(p, "client", "top", {}) /\ UNCHANGED <<life, buffers>>

ClientSends(p) ==
  /\ At(p, "client", "lock") /\ ~stop[p] /\ send_buffer[p] /\ Open(p)
  /\ send_buffer' = [send_buffer EXCEPT ![p] = FALSE]
  /\ conns' = [conns EXCEPT ![Peer(p)] = Last(@, "text")]
  /\ Goto(p, "client", "top", {}) /\ UNCHANGED <<life, recv_buffer>>

(* SIGPIPE: who was connected to has ended, or closed its listening socket.*)
SendFails(p) ==
  /\ At(p, "client", "lock") /\ ~stop[p] /\ send_buffer[p] /\ ~Open(p)
  /\ Ends(p)

-----------------------------------------------------------------------------
(* server_thread *)

(* Back at the top of its loop, the server looks at stop before accept.    *)
Top(p) == IF stop[p] THEN "out" ELSE "accept"

Bind(p) ==
  /\ At(p, "server", "bind")
  /\ Goto(p, "server", Top(p), {}) /\ UNCHANGED <<life, buffers, conns>>

BindFails(p) == At(p, "server", "bind") /\ Ends(p)

(* accept, and the mutex of the receive buffer, free but for the server.   *)
Accept(p, next) ==
  /\ At(p, "server", "accept") /\ conns[p] # <<>>
  /\ Goto(p, "server", next, {}) /\ UNCHANGED <<life, buffers, conns>>

Received(p) == conns[p] # <<>> /\ Head(conns[p]) # "yet"
Waits(p) == \/ pc[p].server = "accept" /\ conns[p] = <<>>
            \/ pc[p].server = "recv" /\ ~Received(p)

(* recv overwrites what is in the buffer, and its size, or that of another *)
(* buffer and the one in question is kept; who waits for a text is         *)
(* signalled if there is one.                                              *)
Receive(p, cond, kept) ==
  /\ At(p, "server", "recv") /\ Received(p)
  /\ recv_buffer' = [recv_buffer EXCEPT ![p] = kept \/ Head(conns[p]) = "text"]
  /\ conns' = [conns EXCEPT ![p] = Tail(@)]
  /\ Goto(p, "server", Top(p), IF Head(conns[p]) = "text" THEN cond ELSE {})
  /\ UNCHANGED <<life, send_buffer>>

(* The socket is closed, and who waits for accept is sent away.            *)
ServerStops(p) ==
  /\ At(p, "server", "out")
  /\ Goto(p, "server", "done", {})
  /\ conns' = [conns EXCEPT ![p] = <<>>]
  /\ UNCHANGED <<life, buffers>>

-----------------------------------------------------------------------------
(* brain_thread *)

BrainWaits(p, full) ==
  /\ At(p, "brain", "lock") /\ ~stop[p] /\ ~full
  /\ Goto(p, "brain", "wait", {}) /\ UNCHANGED <<life, buffers, conns>>

BrainStops(p) ==
  /\ At(p, "brain", "lock") /\ stop[p]
  /\ Goto(p, "brain", "done", {}) /\ UNCHANGED <<life, buffers, conns>>

(* Both mutexes, from the receive buffer to the send buffer.               *)
BrainCopies(p, cond) ==
  /\ At(p, "brain", "lock") /\ ~stop[p] /\ recv_buffer[p]
  /\ recv_buffer' = [recv_buffer EXCEPT ![p] = FALSE]
  /\ send_buffer' = [send_buffer EXCEPT ![p] = TRUE]
  /\ Goto(p, "brain", "lock", cond) /\ UNCHANGED <<life, conns>>

-----------------------------------------------------------------------------
(* main, in the children and in the parent *)

(* Process 1 begins with "Bonjour".                                        *)
Seed(p, cond) ==
  /\ At(p, "main", "seed")
  /\ send_buffer' = [send_buffer EXCEPT ![p] = TRUE]
  /\ Goto(p, "main", "join", cond) /\ UNCHANGED <<life, recv_buffer, conns>>

Joined(p, threads) ==
  /\ At(p, "main", "join") /\ \A t \in threads : pc[p][t] = "done"
  /\ Ends(p)

(* A fork that fails goes unnoticed.  A child inherits stop.               *)
Fork ==
  /\ state[Main] = "runs"
  /\ \E p \in Procs :
       /\ state[p] = "none" /\ (p = 2 => state[1] # "none")
       /\ \E s \in {"runs", "failed"} : state' = [state EXCEPT ![p] = s]
       /\ stop' = [stop EXCEPT ![p] = stop[Main]]
  /\ UNCHANGED <<killed, pc, buffers, conns>>

Kill ==
  /\ state[Main] = "runs" /\ stop[Main] /\ \A p \in Procs : state[p] # "none"
  /\ killed' = {p \in Procs : Up(p)}
  /\ state' = [state EXCEPT ![Main] = "waits"]
  /\ UNCHANGED <<stop, pc, buffers, conns>>

Wait ==
  /\ state[Main] = "waits" /\ \A p \in Procs : state[p] \in {"failed", "ended"}
  /\ state' = [state EXCEPT ![Main] = "ended"]
  /\ UNCHANGED <<stop, killed, pc, buffers, conns>>

main == Fork \/ Kill \/ Wait

(* accept, recv and pthread_cond_wait go on after the handler.             *)
handle_signal(x) ==
  /\ state[x] = "runs" /\ ~stop[x]
  /\ stop' = [stop EXCEPT ![x] = TRUE]
  /\ UNCHANGED <<state, killed, pc, buffers, conns>>

(* Mutant: SIGUSR1 is handled as SIGINT.                                   *)
KilledSoftly(p) ==
  /\ p \in killed /\ Up(p) /\ killed' = killed \ {p}
  /\ stop' = [stop EXCEPT ![p] = TRUE] /\ UNCHANGED <<state, pc, buffers, conns>>

(* SIGUSR1 has no handler.                                                 *)
Killed(p) == p \in killed /\ Up(p) /\ Ends(p)

-----------------------------------------------------------------------------
(* Properties *)

(* The values of every variable.                                           *)
TypeOK ==
  /\ state \in [Procs \cup {Main} -> {"none", "runs", "waits", "failed", "ended"}]
  /\ stop \in [Procs \cup {Main} -> BOOLEAN] /\ killed \subseteq Procs
  /\ \A p \in Procs : /\ pc[p].client \in {"top", "connect", "lock", "wait", "done"}
                      /\ pc[p].server \in {"bind", "accept", "recv", "wait", "leave", "out", "done"}
                      /\ pc[p].brain \in {"lock", "wait", "done"}
                      /\ pc[p].main \in {"seed", "join"}
  /\ send_buffer \in [Procs -> BOOLEAN] /\ recv_buffer \in [Procs -> BOOLEAN]
  /\ \A p \in Procs : /\ Queued(p) <= Backlog
                      /\ \A i \in DOMAIN conns[p] : conns[p][i] \in {"yet", "text", "end"}

Undisturbed == \A p \in Procs : Up(p) /\ ~stop[p]
Seeded == pc[1].main = "join"
Texts(p) == {i \in DOMAIN conns[p] : conns[p][i] = "text"}

(* The one text of the system is in one place, and in no other: neither    *)
(* lost nor doubled by the hand-overs, nor overwritten.                    *)
OneText ==
  Undisturbed /\ Seeded =>
    \/ \E p \in Procs : /\ send_buffer[p] /\ Texts(1) \cup Texts(2) = {}
                        /\ ~send_buffer[Peer(p)] /\ \A q \in Procs : ~recv_buffer[q]
    \/ \E p \in Procs : /\ recv_buffer[p] /\ Texts(1) \cup Texts(2) = {}
                        /\ ~recv_buffer[Peer(p)] /\ \A q \in Procs : ~send_buffer[q]
    \/ \E p \in Procs : /\ \E i \in DOMAIN conns[p] : Texts(p) = {i} /\ Texts(Peer(p)) = {}
                        /\ \A q \in Procs : ~send_buffer[q] /\ ~recv_buffer[q]
=============================================================================
