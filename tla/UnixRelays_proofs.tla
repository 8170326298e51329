-------------------------- MODULE UnixRelays_proofs --------------------------
(***************************************************************************)
(* In the five relays over Unix sockets that hand the buffer itself to     *)
(* their threads, the one text of the system is in one place as long as    *)
(* nobody ends: whatever the length of the queue of connections.  The six  *)
(* programs are made of the same steps; what they make of a text, with     *)
(* whose mutex, differs.                                                   *)
(***************************************************************************)
EXTENDS UnixRelays, SequenceTheorems, TLAPS

-----------------------------------------------------------------------------
(* The invariant *)

(* The places of the threads of a process.                                 *)
Calls == [client : {"top", "connect", "lock", "wait", "done"},
          server : {"bind", "accept", "recv", "wait", "leave", "out", "done"},
          brain : {"lock", "wait", "done"}, main : {"seed", "join"}]
Contents == {"yet", "text", "end"}

Typed ==
  /\ state \in [Procs \cup {Main} -> {"none", "runs", "waits", "failed", "ended"}]
  /\ stop \in [Procs \cup {Main} -> BOOLEAN] /\ killed \subseteq Procs
  /\ pc \in [Procs -> Calls]
  /\ send_buffer \in [Procs -> BOOLEAN] /\ recv_buffer \in [Procs -> BOOLEAN]
  /\ conns \in [Procs -> Seq(Contents)]

(* A server that uses a connection has one.                                *)
Using == {"recv", "wait", "leave"}
QueueOK(c, s) == Len(s) - (IF c.server \in Using THEN 1 ELSE 0) <= Backlog
                 /\ (c.server \in Using => s # <<>>)
Queues == \A p \in Procs : QueueOK(pc[p], conns[p])

(* Nobody has failed or ended or was told to stop; some may not be forked. *)
Calm == \A p \in Procs : state[p] = "none" \/ (Up(p) /\ ~stop[p])

(* Then every thread is in its loop, and no connection is at its end.      *)
Loops(c, s) == /\ c.client # "done" /\ c.brain # "done" /\ c.server \notin {"leave", "out", "done"}
               /\ \A i \in 1 .. Len(s) : s[i] # "end"

(* The text is in a buffer or on its way, and that nowhere else ...        *)
NoText(s) == \A i \in 1 .. Len(s) : s[i] # "text"
OneIn(s) == \E i \in 1 .. Len(s) : s[i] = "text" /\ \A j \in 1 .. Len(s) : s[j] = "text" => j = i
InSend(p) == /\ send_buffer[p] /\ ~send_buffer[Peer(p)] /\ \A q \in Procs : ~recv_buffer[q]
             /\ \A q \in Procs : NoText(conns[q])
InRecv(p) == /\ recv_buffer[p] /\ ~recv_buffer[Peer(p)] /\ \A q \in Procs : ~send_buffer[q]
             /\ \A q \in Procs : NoText(conns[q])
OnWay(p) == /\ OneIn(conns[p]) /\ NoText(conns[Peer(p)])
            /\ \A q \in Procs : ~send_buffer[q] /\ ~recv_buffer[q]
Somewhere == \E p \in Procs : InSend(p) \/ InRecv(p) \/ OnWay(p)

(* ... or there is none yet.                                               *)
Nowhere == \A q \in Procs : ~send_buffer[q] /\ ~recv_buffer[q] /\ NoText(conns[q])

TextOK == (Seeded => Somewhere) /\ (~Seeded => Nowhere)

Inv == /\ Typed /\ Queues /\ pc[2].main = "join"
       /\ Calm => \A p \in Procs : Loops(pc[p], conns[p])
       /\ Calm /\ program # "projet2 copy" => TextOK

USE BacklogAssumption, MainAssumption

(* Who the two processes are.                                              *)
LEMMA Two ==
  /\ 1 \in Procs /\ 2 \in Procs /\ Peer(1) = 2 /\ Peer(2) = 1
  /\ \A p \in Procs : Peer(p) \in Procs /\ Peer(p) # p /\ Peer(Peer(p)) = p
  /\ \A p, q \in Procs : q = p \/ q = Peer(p)
  /\ Main \notin Procs
BY DEF Procs, Peer

(* Typed speaks of one process at a time.                                  *)
LEMMA OfEach ==
  ASSUME Typed, NEW p \in Procs
  PROVE  /\ pc[p] \in Calls /\ conns[p] \in Seq(Contents) /\ Len(conns[p]) \in Nat
         /\ send_buffer[p] \in BOOLEAN /\ recv_buffer[p] \in BOOLEAN
         /\ \A i \in 1 .. Len(conns[p]) : conns[p][i] \in Contents
BY DEF Typed

(* The end of the last connection is of another kind.                      *)
LEMMA LastOf ==
  ASSUME NEW s \in Seq(Contents), s # <<>>, NEW x \in Contents
  PROVE  /\ Last(s, x) \in Seq(Contents) /\ Len(Last(s, x)) = Len(s)
         /\ \A i \in 1 .. Len(s) : Last(s, x)[i] = IF i = Len(s) THEN x ELSE s[i]
<1>1. Len(s) \in 1 .. Len(s)
  OBVIOUS
<1> QED BY <1>1, ExceptSeq DEF Last

(* Calls that a signal may have changed, thread t excepted.                *)
After(c, d, t) ==
  /\ \A u \in {"server", "main"} : u # t => d[u] = c[u]
  /\ \A u \in {"client", "brain"} : u # t => d[u] = c[u] \/ d[u] = "lock"

(* Thread t of process p can be at place to; it has gone there.            *)
CanBe(p, t, to) == [pc[p] EXCEPT ![t] = to] \in Calls
Gone(p, t, to) == \E c \in Calls : pc' = [pc EXCEPT ![p] = c] /\ c[t] = to /\ After(pc[p], c, t)

(* A thread goes on and may wake one that waits.                           *)
LEMMA GotoGoes ==
  ASSUME Typed, NEW p \in Procs, NEW t \in {"client", "server", "brain", "main"}, NEW to,
         NEW cond, cond \subseteq {"client", "brain"}, CanBe(p, t, to),
         Goto(p, t, to, cond)
  PROVE  Gone(p, t, to)
<1>1. PICK w \in {t} \cup cond : pc' = [pc EXCEPT ![p][w] = "lock", ![p][t] = to]
  BY DEF Goto
<1> DEFINE c == [[pc[p] EXCEPT ![w] = "lock"] EXCEPT ![t] = to]
<1>2. pc' = [pc EXCEPT ![p] = c]
  BY <1>1 DEF Typed
<1>3. pc[p] \in Calls
  BY OfEach
<1>4. c \in Calls /\ c[t] = to /\ After(pc[p], c, t)
  <2>1. CASE w = t
    BY <1>3, <2>1 DEF Calls, After, CanBe
  <2>2. CASE w = "client" /\ t # "client"
    BY <1>3, <2>2 DEF Calls, After, CanBe
  <2>3. CASE w = "brain" /\ t # "brain"
    BY <1>3, <2>3 DEF Calls, After, CanBe
  <2> QED BY <2>1, <2>2, <2>3
<1> QED BY <1>2, <1>4 DEF Gone

(* A step of process p that gives it the calls c; the rest of the state    *)
(* may change too.                                                         *)
LEMMA CallsStep ==
  ASSUME Inv, NEW p \in Procs, Up(p), NEW c \in Calls, pc' = [pc EXCEPT ![p] = c],
         UNCHANGED <<life, program>>,
         send_buffer' \in [Procs -> BOOLEAN], recv_buffer' \in [Procs -> BOOLEAN],
         conns' \in [Procs -> Seq(Contents)],
         QueueOK(c, conns'[p]), QueueOK(pc[Peer(p)], conns'[Peer(p)]),
         p = 2 => c.main = "join",
         Calm => Loops(c, conns'[p]) /\ Loops(pc[Peer(p)], conns'[Peer(p)]),
         Calm /\ program # "projet2 copy" => TextOK'
  PROVE  Inv'
<1>1. Typed'
  BY DEF Inv, Typed, life
<1>2. \A q \in Procs : \/ q = p /\ pc'[q] = c
                       \/ q = Peer(p) /\ pc'[q] = pc[q]
  <2>1. pc \in [Procs -> Calls]
    BY DEF Inv, Typed
  <2>2. \A q \in Procs : q = p \/ (q = Peer(p) /\ q # p)
    BY Two
  <2> QED BY <2>1, <2>2
<1>3. Queues'
  BY <1>2 DEF Queues
<1>4. pc'[2].main = "join"
  BY <1>2, Two DEF Inv
<1>5. Calm' <=> Calm
  BY DEF Calm, Up, life
<1>6. Calm' => \A q \in Procs : Loops(pc'[q], conns'[q])
  BY <1>2, <1>5
<1> QED BY <1>1, <1>3, <1>4, <1>5, <1>6 DEF Inv

(* The text stays where it is.                                             *)
LEMMA TextStays ==
  ASSUME TextOK, UNCHANGED buffers, Seeded' <=> Seeded,
         \A q \in Procs : (NoText(conns[q]) => NoText(conns'[q])) /\ (OneIn(conns[q]) => OneIn(conns'[q]))
  PROVE  TextOK'
<1>1. Somewhere => Somewhere'
  BY Two DEF Somewhere, InSend, InRecv, OnWay, buffers
<1>2. Nowhere => Nowhere'
  BY DEF Nowhere, buffers
<1> QED BY <1>1, <1>2 DEF TextOK

(* The main thread has not moved.                                          *)
LEMMA SeededStays ==
  ASSUME Typed, NEW p \in Procs, NEW c \in Calls, pc' = [pc EXCEPT ![p] = c], c.main = pc[p].main
  PROVE  Seeded' <=> Seeded
BY Two DEF Seeded, Typed

(* A thread that moves within its loop, or leaves it when told to stop.    *)
LEMMA Moves ==
  ASSUME Inv, NEW p \in Procs, Up(p), NEW t \in {"client", "server", "brain"}, NEW to,
         CanBe(p, t, to), Goto(p, t, to, {}),
         UNCHANGED <<life, buffers, conns, program>>,
         to \in {"done", "leave", "out"} => stop[p],
         t = "server" => (IF to \in Using THEN conns[p] # <<>> ELSE pc[p].server \notin Using)
  PROVE  Inv'
<1>1. PICK c \in Calls : pc' = [pc EXCEPT ![p] = c] /\ c[t] = to /\ After(pc[p], c, t)
  <2>1. Typed
    BY DEF Inv
  <2>2. t \in {"client", "server", "brain", "main"} /\ {} \subseteq {"client", "brain"}
    OBVIOUS
  <2>3. Gone(p, t, to)
    BY <2>1, <2>2, GotoGoes
  <2> QED BY <2>3 DEF Gone
<1>2. QueueOK(c, conns[p])
  <2>1. QueueOK(pc[p], conns[p]) /\ Len(conns[p]) \in Nat
    BY OfEach DEF Inv, Queues
  <2>2. CASE t # "server"
    BY <1>1, <2>1, <2>2 DEF After, QueueOK
  <2>3. CASE t = "server"
    BY <1>1, <2>1, <2>3 DEF QueueOK
  <2> QED BY <2>2, <2>3
<1>3. c.main = pc[p].main
  BY <1>1 DEF After
<1>4. Calm => Loops(c, conns[p])
  <2> SUFFICES ASSUME Calm PROVE Loops(c, conns[p])
    OBVIOUS
  <2>1. Loops(pc[p], conns[p]) /\ to \notin {"done", "leave", "out"}
    BY DEF Inv, Calm, Up
  <2> QED BY <1>1, <2>1 DEF Loops, After
<1>5. Calm => Loops(pc[Peer(p)], conns[Peer(p)])
  BY Two DEF Inv
<1>6. Calm /\ program # "projet2 copy" => TextOK'
  BY <1>1, <1>3, SeededStays, TextStays DEF Inv
<1>7. QueueOK(pc[Peer(p)], conns[Peer(p)])
  BY Two DEF Inv, Queues
<1>8. p = 2 => c.main = "join"
  BY <1>3 DEF Inv
<1>9. UNCHANGED <<life, program>> /\ conns' = conns /\ UNCHANGED <<send_buffer, recv_buffer>>
  BY DEF buffers
<1>10. Typed
  BY DEF Inv
<1>11. /\ send_buffer' \in [Procs -> BOOLEAN] /\ recv_buffer' \in [Procs -> BOOLEAN]
       /\ conns' \in [Procs -> Seq(Contents)]
  BY <1>9, <1>10 DEF Typed
<1> QED BY <1>1, <1>2, <1>4, <1>5, <1>6, <1>7, <1>8, <1>9, <1>11, CallsStep

(* client_thread                                                           *)
LEMMA ClientMoves ==
  ASSUME Inv, NEW p \in Procs, NEW full, UNCHANGED program,
         ClientTop(p) \/ ConnectFails(p) \/ ClientStops(p) \/ ClientWaits(p, full) \/ PC!CopiesLocked(p)
  PROVE  Inv'
<1>1. pc[p] \in Calls
  BY OfEach DEF Inv
<1>2. /\ Up(p) /\ UNCHANGED <<life, buffers, conns>>
      /\ \E to \in {"top", "connect", "lock", "wait", "done"} :
           Goto(p, "client", to, {}) /\ (to = "done" => stop[p])
  BY DEF ClientTop, ConnectFails, ClientStops, ClientWaits, PC!CopiesLocked, At, PC!At, PC!Up,
     Up,
         PC!Goto, Goto, PC!life, life, PC!buffers, buffers
<1>3. PICK to \in {"top", "connect", "lock", "wait", "done"} :
        Goto(p, "client", to, {}) /\ (to = "done" => stop[p])
  BY <1>2
<1>4. CanBe(p, "client", to)
  BY <1>1 DEF Calls, CanBe
<1> QED BY <1>2, <1>3, <1>4, Moves

(* server_thread and brain_thread                                          *)
LEMMA ServerMoves ==
  ASSUME Inv, NEW p \in Procs, UNCHANGED program,
         Bind(p) \/ Accept(p, "recv") \/ PW!ServerWaits(p)
  PROVE  Inv'
<1>1. pc[p] \in Calls
  BY OfEach DEF Inv
<1>2. QueueOK(pc[p], conns[p])
  BY DEF Inv, Queues
<1>3. /\ Up(p) /\ UNCHANGED <<life, buffers, conns>>
      /\ \E to \in {"accept", "recv", "wait", "leave", "out"} :
           /\ Goto(p, "server", to, {}) /\ (to \in {"leave", "out"} => stop[p])
           /\ IF to \in Using THEN conns[p] # <<>> ELSE pc[p].server \notin Using
  BY <1>2 DEF Bind, Top, Accept, PW!ServerWaits, At, PW!At, PW!Up, Up, QueueOK, Using,
         PW!Goto, Goto, PW!life, life, PW!buffers, buffers
<1>4. PICK to \in {"accept", "recv", "wait", "leave", "out"} :
        /\ Goto(p, "server", to, {}) /\ (to \in {"leave", "out"} => stop[p])
        /\ IF to \in Using THEN conns[p] # <<>> ELSE pc[p].server \notin Using
  BY <1>3
<1>5. CanBe(p, "server", to)
  BY <1>1 DEF Calls, CanBe
<1> QED BY <1>3, <1>4, <1>5, Moves

(* A brain that waits or stops changes no buffer.                          *)
LEMMA BrainMoves ==
  ASSUME Inv, NEW p \in Procs, NEW full, UNCHANGED program, BrainWaits(p, full) \/ BrainStops(p)
  PROVE  Inv'
<1>1. pc[p] \in Calls
  BY OfEach DEF Inv
<1>2. /\ Up(p) /\ UNCHANGED <<life, buffers, conns>>
      /\ \E to \in {"wait", "done"} : Goto(p, "brain", to, {}) /\ (to = "done" => stop[p])
  BY DEF BrainWaits, BrainStops, At
<1>3. PICK to \in {"wait", "done"} : Goto(p, "brain", to, {}) /\ (to = "done" => stop[p])
  BY <1>2
<1>4. CanBe(p, "brain", to)
  BY <1>1 DEF Calls, CanBe
<1> QED BY <1>2, <1>3, <1>4, Moves

(* A process ends: nobody is calm any more.                                *)
LEMMA EndsOK ==
  ASSUME Inv, NEW p \in Procs, UNCHANGED program, Ends(p)
  PROVE  Inv'
<1>1. Typed /\ Queues /\ pc[2].main = "join"
  BY DEF Inv
<1>2. Pc0 \in [Procs -> Calls] /\ Pc0[2].main = "join" /\ \A q \in Procs : Pc0[q].server = "bind"
  BY DEF Pc0, Procs, Calls
<1>3. /\ state' \in [Procs \cup {Main} -> {"none", "runs", "waits", "failed", "ended"}]
      /\ stop' \in [Procs \cup {Main} -> BOOLEAN] /\ killed' \subseteq Procs
      /\ pc' \in [Procs -> Calls] /\ pc'[2].main = "join"
      /\ send_buffer' \in [Procs -> BOOLEAN] /\ recv_buffer' \in [Procs -> BOOLEAN]
  BY <1>1, <1>2 DEF Ends, Typed
<1>4. /\ conns' \in [Procs -> Seq(Contents)]
      /\ \A q \in Procs : q # p => Len(conns'[q]) = Len(conns[q])
      /\ conns'[p] = <<>>
  <2>1. conns' = [q \in Procs |-> IF q = p THEN <<>>
                                  ELSE IF Open(p) THEN Last(conns[q], "end") ELSE conns[q]]
    BY DEF Ends
  <2>2. ASSUME NEW q \in Procs, q # p, Open(p)
        PROVE  /\ Last(conns[q], "end") \in Seq(Contents)
               /\ Len(Last(conns[q], "end")) = Len(conns[q])
    <3>1. q = Peer(p) /\ conns[q] # <<>>
      BY <2>2, Two DEF Open
    <3> QED BY <1>1, <3>1, OfEach, LastOf DEF Contents
  <2> QED BY <1>1, <2>1, <2>2 DEF Typed
<1>5. ASSUME NEW q \in Procs PROVE QueueOK(pc'[q], conns'[q])
  <2>1. CASE q = p
    BY <1>1, <1>2, <1>4, <2>1 DEF QueueOK, Using, Ends, Typed
  <2>2. CASE q # p
    <3>1. pc'[q] = pc[q] /\ QueueOK(pc[q], conns[q]) /\ Len(conns'[q]) = Len(conns[q])
      BY <1>1, <1>4, <2>2 DEF Ends, Typed, Queues
    <3>2. conns[q] \in Seq(Contents) /\ conns'[q] \in Seq(Contents)
      BY <1>1, <1>4 DEF Typed
    <3> QED BY <3>1, <3>2 DEF QueueOK
  <2> QED BY <2>1, <2>2
<1>6. ~Calm'
  <2>1. state'[p] = "ended"
    BY <1>1, Two DEF Ends, Typed
  <2> QED BY <2>1 DEF Calm, Up
<1> QED BY <1>3, <1>4, <1>5, <1>6 DEF Inv, Typed, Queues

(* main, and the handlers of signals                                       *)
LEMMA MainOK ==
  ASSUME Inv, UNCHANGED program, Fork \/ Kill \/ Wait \/ \E x \in Procs \cup {Main} : handle_signal(x)
  PROVE  Inv'
<1>1. Typed /\ UNCHANGED <<pc, buffers, conns>>
  BY DEF Inv, Fork, Kill, Wait, handle_signal
<1>2. Typed'
  <2>1. CASE Fork
    BY <1>1, <2>1 DEF Typed, Fork, buffers
  <2>2. CASE Kill
    BY <1>1, <2>2 DEF Typed, Kill, buffers
  <2>3. CASE Wait
    BY <1>1, <2>3 DEF Typed, Wait, buffers
  <2>4. CASE \E x \in Procs \cup {Main} : handle_signal(x)
    BY <1>1, <2>4 DEF Typed, handle_signal, buffers
  <2> QED BY <2>1, <2>2, <2>3, <2>4
<1>3. Calm' => Calm
  <2>1. CASE Fork
    BY <1>1, <2>1, Two DEF Typed, Fork, Calm, Up
  <2>2. CASE Kill
    BY <1>1, <2>2, Two DEF Typed, Kill, Calm, Up
  <2>4. CASE Wait
    BY <1>1, <2>4, Two DEF Typed, Wait, Calm, Up
  <2>3. CASE \E x \in Procs \cup {Main} : handle_signal(x)
    BY <1>1, <2>3 DEF Typed, handle_signal, Calm, Up
  <2> QED BY <2>1, <2>2, <2>3, <2>4
<1>4. TextOK' <=> TextOK
  BY <1>1 DEF TextOK, Seeded, Somewhere, Nowhere, InSend, InRecv, OnWay, buffers
<1> QED BY <1>1, <1>2, <1>3, <1>4 DEF Inv, Queues

(* A connection more.                                                      *)
LEMMA OneMore ==
  ASSUME NEW s \in Seq(Contents)
  PROVE  /\ Append(s, "yet") \in Seq(Contents) /\ Len(Append(s, "yet")) = Len(s) + 1
         /\ NoText(s) => NoText(Append(s, "yet"))
         /\ OneIn(s) => OneIn(Append(s, "yet"))
         /\ (\A i \in 1 .. Len(s) : s[i] # "end")
              => \A i \in 1 .. Len(s) + 1 : Append(s, "yet")[i] # "end"
<1>1. /\ Append(s, "yet") \in Seq(Contents) /\ Len(Append(s, "yet")) = Len(s) + 1
      /\ \A i \in 1 .. Len(s) : Append(s, "yet")[i] = s[i]
      /\ Append(s, "yet")[Len(s) + 1] = "yet"
  BY DEF Contents
<1>2. \A i \in 1 .. Len(s) + 1 : i \in 1 .. Len(s) \/ i = Len(s) + 1
  OBVIOUS
<1>3. \A i \in 1 .. Len(s) : i \in 1 .. Len(s) + 1
  OBVIOUS
<1> QED BY <1>1, <1>2, <1>3 DEF NoText, OneIn

(* The text is sent over the last one.                                     *)
LEMMA Sent ==
  ASSUME NEW s \in Seq(Contents), s # <<>>
  PROVE  /\ Last(s, "text") \in Seq(Contents) /\ Len(Last(s, "text")) = Len(s)
         /\ Last(s, "text") # <<>>
         /\ NoText(s) => OneIn(Last(s, "text"))
         /\ (\A i \in 1 .. Len(s) : s[i] # "end")
              => \A i \in 1 .. Len(s) : Last(s, "text")[i] # "end"
<1>1. "text" \in Contents /\ Len(s) \in 1 .. Len(s)
  BY DEF Contents
<1>2. /\ Last(s, "text") \in Seq(Contents) /\ Len(Last(s, "text")) = Len(s)
      /\ \A i \in 1 .. Len(s) : Last(s, "text")[i] = IF i = Len(s) THEN "text" ELSE s[i]
  BY <1>1, LastOf
<1>3. Last(s, "text") # <<>>
  BY <1>1, <1>2
<1> QED BY <1>1, <1>2, <1>3 DEF NoText, OneIn

(* The first one is done with.                                             *)
LEMMA Done ==
  ASSUME NEW s \in Seq(Contents), s # <<>>
  PROVE  /\ Tail(s) \in Seq(Contents) /\ Len(Tail(s)) = Len(s) - 1 /\ Head(s) \in Contents
         /\ Head(s) = "text" /\ OneIn(s) => NoText(Tail(s))
         /\ NoText(s) => NoText(Tail(s)) /\ Head(s) # "text"
         /\ (\A i \in 1 .. Len(s) : s[i] # "end")
              => Head(s) # "end" /\ \A i \in 1 .. Len(Tail(s)) : Tail(s)[i] # "end"
<1>1. /\ Tail(s) \in Seq(Contents) /\ Len(Tail(s)) = Len(s) - 1 /\ Head(s) = s[1]
      /\ 1 \in 1 .. Len(s)
      /\ \A i \in 1 .. Len(s) - 1 : Tail(s)[i] = s[i + 1] /\ i + 1 \in 1 .. Len(s) /\ i + 1 # 1
  OBVIOUS
<1> QED BY <1>1 DEF NoText, OneIn

(* Connect.                                                                *)
LEMMA ConnectOK ==
  ASSUME Inv, NEW p \in Procs, UNCHANGED program, Connect(p)
  PROVE  Inv'
<1> DEFINE r == Peer(p)
<1>1. r \in Procs /\ r # p /\ Typed /\ Queues
  BY Two DEF Inv
<1>2. /\ Up(p) /\ UNCHANGED <<life, program>> /\ UNCHANGED buffers
      /\ conns' = [conns EXCEPT ![r] = Append(@, "yet")] /\ Goto(p, "client", "lock", {})
  BY DEF Connect, At
<1>3. PICK c \in Calls : pc' = [pc EXCEPT ![p] = c] /\ After(pc[p], c, "client") /\ c.client = "lock"
  <2>1. CanBe(p, "client", "lock")
    BY <1>1, OfEach DEF CanBe, Calls
  <2> QED BY <1>1, <1>2, <2>1, GotoGoes DEF Gone
<1>4. c.main = pc[p].main /\ c.server = pc[p].server
  BY <1>3 DEF After
<1>5. conns[r] \in Seq(Contents) /\ Len(conns[r]) \in Nat /\ conns[p] \in Seq(Contents)
  BY <1>1, OfEach
<1>6. /\ conns' \in [Procs -> Seq(Contents)] /\ conns'[p] = conns[p]
      /\ conns'[r] = Append(conns[r], "yet")
  BY <1>1, <1>2, <1>5, OneMore DEF Typed
<1>7. QueueOK(c, conns'[p])
  BY <1>1, <1>4, <1>6 DEF Queues, QueueOK
<1>8. QueueOK(pc[r], conns'[r])
  <2>1. Len(conns[r]) - (IF pc[r].server \in Using THEN 1 ELSE 0) < Backlog
    BY <1>1 DEF Connect, Queued, Using
  <2>2. Append(conns[r], "yet") # <<>> /\ Len(Append(conns[r], "yet")) = Len(conns[r]) + 1
    BY <1>5
  <2>3. CASE pc[r].server \in Using
    BY <1>5, <1>6, <2>1, <2>2, <2>3 DEF QueueOK
  <2>4. CASE pc[r].server \notin Using
    BY <1>5, <1>6, <2>1, <2>2, <2>4 DEF QueueOK
  <2> QED BY <2>3, <2>4
<1>9. Calm => Loops(c, conns'[p]) /\ Loops(pc[r], conns'[r])
  <2> SUFFICES ASSUME Calm PROVE Loops(c, conns'[p]) /\ Loops(pc[r], conns'[r])
    OBVIOUS
  <2>1. Loops(pc[p], conns[p]) /\ Loops(pc[r], conns[r])
    BY <1>1 DEF Inv
  <2> QED BY <1>3, <1>4, <1>5, <1>6, <2>1, OneMore DEF Loops, After
<1>10. Calm /\ program # "projet2 copy" => TextOK'
  <2>1. \A q \in Procs : q = p \/ q = r
    BY Two
  <2>2. \A q \in Procs : (NoText(conns[q]) => NoText(conns'[q])) /\ (OneIn(conns[q]) => OneIn(conns'[q]))
    BY <1>5, <1>6, <2>1, OneMore
  <2>3. Seeded' <=> Seeded
    BY <1>1, <1>3, <1>4, SeededStays
  <2> QED BY <1>2, <2>2, <2>3, TextStays DEF Inv
<1>11. p = 2 => c.main = "join"
  BY <1>4 DEF Inv
<1>12. send_buffer' \in [Procs -> BOOLEAN] /\ recv_buffer' \in [Procs -> BOOLEAN]
  BY <1>1, <1>2 DEF Typed, buffers
<1> QED BY <1>2, <1>3, <1>6, <1>7, <1>8, <1>9, <1>10, <1>11, <1>12, CallsStep

(* Send.  Of a copy, the buffer stays full.                                *)
LEMMA SendsOK ==
  ASSUME Inv, NEW p \in Procs, UNCHANGED program,
         ClientSends(p) \/ (program = "projet2 copy" /\ PC!SendsCopy(p))
  PROVE  Inv'
<1> DEFINE r == Peer(p)
<1>1. r \in Procs /\ r # p /\ Typed /\ Queues /\ Peer(r) = p
  BY Two DEF Inv
<1>2. /\ Up(p) /\ UNCHANGED <<life, program>> /\ recv_buffer' = recv_buffer /\ send_buffer[p]
      /\ program # "projet2 copy" => send_buffer' = [send_buffer EXCEPT ![p] = FALSE]
      /\ send_buffer' = [send_buffer EXCEPT ![p] = FALSE] \/ send_buffer' = send_buffer
      /\ conns' = [conns EXCEPT ![r] = Last(@, "text")] /\ Goto(p, "client", "top", {})
      /\ conns[r] # <<>>
  BY DEF ClientSends, PC!SendsCopy, At, PC!At, PC!Up, Up, PC!Goto, Goto, PC!life, life,
     PC!buffers,
         buffers, PC!Open, Open, PC!Peer, Peer, PC!Last, Last
<1>3. PICK c \in Calls : pc' = [pc EXCEPT ![p] = c] /\ After(pc[p], c, "client") /\ c.client = "top"
  <2>1. CanBe(p, "client", "top")
    BY <1>1, OfEach DEF CanBe, Calls
  <2>2. Typed /\ Goto(p, "client", "top", {})
    BY <1>1, <1>2
  <2>3. Gone(p, "client", "top")
    BY <2>1, <2>2, GotoGoes
  <2> QED BY <2>3 DEF Gone
<1>4. c.main = pc[p].main /\ c.server = pc[p].server
  BY <1>3 DEF After
<1>5. conns[r] \in Seq(Contents) /\ conns[p] \in Seq(Contents)
  BY <1>1, OfEach
<1>6. /\ conns' \in [Procs -> Seq(Contents)] /\ conns'[p] = conns[p]
      /\ conns'[r] = Last(conns[r], "text")
  BY <1>1, <1>2, <1>5, Sent DEF Typed
<1>7. QueueOK(c, conns'[p]) /\ QueueOK(pc[r], conns'[r])
  <2>1. QueueOK(c, conns'[p])
    BY <1>1, <1>4, <1>6 DEF Queues, QueueOK
  <2>2. QueueOK(pc[r], conns[r]) /\ Len(conns'[r]) = Len(conns[r])
    BY <1>1, <1>2, <1>5, <1>6, Sent DEF Queues
  <2>3. conns'[r] # <<>>
    BY <1>2, <1>5, <1>6, Sent
  <2> QED BY <2>1, <2>2, <2>3 DEF QueueOK
<1>8. Calm => Loops(c, conns'[p]) /\ Loops(pc[r], conns'[r])
  <2> SUFFICES ASSUME Calm PROVE Loops(c, conns'[p]) /\ Loops(pc[r], conns'[r])
    OBVIOUS
  <2>1. Loops(pc[p], conns[p]) /\ Loops(pc[r], conns[r])
    BY <1>1 DEF Inv
  <2>2. Loops(c, conns'[p])
    BY <1>3, <1>4, <1>6, <2>1 DEF Loops, After
  <2>3. /\ Len(conns'[r]) = Len(conns[r])
        /\ \A i \in 1 .. Len(conns[r]) : conns'[r][i] # "end"
    BY <1>2, <1>5, <1>6, <2>1, Sent DEF Loops
  <2> QED BY <2>1, <2>2, <2>3 DEF Loops
<1>9. Calm /\ program # "projet2 copy" => TextOK'
  <2> SUFFICES ASSUME Calm, program # "projet2 copy" PROVE TextOK'
    OBVIOUS
  <2>1. \A q \in Procs : q = p \/ q = r
    BY Two
  <2>2. Seeded' <=> Seeded
    BY <1>1, <1>3, <1>4, SeededStays
  <2>3. Seeded /\ InSend(p)
    BY <1>1, <1>2, <2>1 DEF Inv, TextOK, Nowhere, Somewhere, InSend, InRecv, OnWay
  <2>4. OnWay(r)'
    <3>1. OneIn(conns'[r]) /\ NoText(conns'[p])
      BY <1>1, <1>2, <1>5, <1>6, <2>3, Sent DEF InSend
    <3>2. \A q \in Procs : ~send_buffer'[q] /\ ~recv_buffer'[q]
      BY <1>1, <1>2, <2>1, <2>3 DEF InSend, Typed
    <3> QED BY <1>1, <3>1, <3>2 DEF OnWay, Peer
  <2> QED BY <1>1, <2>2, <2>3, <2>4 DEF TextOK, Somewhere
<1>10. p = 2 => c.main = "join"
  BY <1>4 DEF Inv
<1>11. send_buffer' \in [Procs -> BOOLEAN] /\ recv_buffer' \in [Procs -> BOOLEAN]
  BY <1>1, <1>2 DEF Typed
<1> QED BY <1>2, <1>3, <1>6, <1>7, <1>8, <1>9, <1>10, <1>11, CallsStep

(* Receive: to the brain, or for ever.                                     *)
LEMMA ReceiveOK ==
  ASSUME Inv, NEW p \in Procs, UNCHANGED program, NEW kept \in BOOLEAN, kept => recv_buffer[p],
         NEW cond, cond \subseteq {"client", "brain"}, Receive(p, cond, kept)
  PROVE  Inv'
<1> DEFINE r == Peer(p)
           text == Head(conns[p]) = "text"
<1>1. r \in Procs /\ r # p /\ Typed /\ Queues /\ Peer(r) = p
  BY Two DEF Inv
<1>2. /\ Up(p) /\ UNCHANGED <<life, program>> /\ send_buffer' = send_buffer
      /\ recv_buffer' = [recv_buffer EXCEPT ![p] = kept \/ text]
      /\ conns' = [conns EXCEPT ![p] = Tail(@)]
      /\ conns[p] # <<>> /\ Head(conns[p]) # "yet" /\ pc[p].server = "recv"
  BY DEF Receive, At, Received
<1>3. PICK c \in Calls : /\ pc' = [pc EXCEPT ![p] = c] /\ After(pc[p], c, "server")
                         /\ c.server = Top(p)
  <2>1. CanBe(p, "server", Top(p))
    BY <1>1, OfEach DEF CanBe, Calls, Top
  <2>2. Typed /\ Goto(p, "server", Top(p), IF text THEN cond ELSE {})
    BY <1>1 DEF Receive
  <2>3. (IF text THEN cond ELSE {}) \subseteq {"client", "brain"}
    OBVIOUS
  <2>4. Gone(p, "server", Top(p))
    BY <2>1, <2>2, <2>3, GotoGoes
  <2> QED BY <2>4 DEF Gone
<1>4. c.main = pc[p].main
  BY <1>3 DEF After
<1>5. conns[r] \in Seq(Contents) /\ conns[p] \in Seq(Contents)
  BY <1>1, OfEach
<1>6. /\ conns' \in [Procs -> Seq(Contents)] /\ conns'[r] = conns[r]
      /\ conns'[p] = Tail(conns[p])
  BY <1>1, <1>2, <1>5, Done DEF Typed
<1>7. QueueOK(c, conns'[p]) /\ QueueOK(pc[r], conns'[r])
  <2>1. QueueOK(pc[r], conns'[r])
    BY <1>1, <1>6 DEF Queues
  <2>2. Len(conns[p]) - 1 <= Backlog
    BY <1>1, <1>2 DEF Queues, QueueOK, Using
  <2>3. Len(conns'[p]) = Len(conns[p]) - 1 /\ Len(conns[p]) \in Nat
    BY <1>2, <1>5, <1>6, Done
  <2>4. c.server \notin Using
    BY <1>3 DEF Top, Using
  <2>5. QueueOK(c, conns'[p])
    BY <2>2, <2>3, <2>4 DEF QueueOK
  <2> QED BY <2>1, <2>5
<1>8. Calm => Loops(c, conns'[p]) /\ Loops(pc[r], conns'[r])
  <2> SUFFICES ASSUME Calm PROVE Loops(c, conns'[p]) /\ Loops(pc[r], conns'[r])
    OBVIOUS
  <2>1. Loops(pc[p], conns[p]) /\ Loops(pc[r], conns[r]) /\ Top(p) = "accept"
    BY <1>1, <1>2 DEF Inv, Calm, Up, Top
  <2>2. \A i \in 1 .. Len(Tail(conns[p])) : Tail(conns[p])[i] # "end"
    BY <1>2, <1>5, <2>1, Done DEF Loops
  <2> QED BY <1>3, <1>6, <2>1, <2>2 DEF Loops, After
<1>9. Calm /\ program # "projet2 copy" => TextOK'
  <2> SUFFICES ASSUME Calm, program # "projet2 copy" PROVE TextOK'
    OBVIOUS
  <2>1. \A q \in Procs : q = p \/ q = r
    BY Two
  <2>2. Seeded' <=> Seeded
    BY <1>1, <1>3, <1>4, SeededStays
  <2>3. text
    <3>1. Head(conns[p]) # "end"
      BY <1>1, <1>2, <1>5, Done DEF Inv, Loops
    <3>2. Head(conns[p]) \in Contents
      BY <1>2, <1>5, Done
    <3> QED BY <1>2, <3>1, <3>2 DEF Contents
  <2>4. ~NoText(conns[p])
    BY <1>2, <1>5, <2>3, Done
  <2>5. Seeded /\ OnWay(p)
    BY <1>1, <2>1, <2>4 DEF Inv, TextOK, Nowhere, Somewhere, InSend, InRecv, OnWay
  <2>6. InRecv(p)'
    <3>1. NoText(conns'[p]) /\ NoText(conns'[r])
      BY <1>2, <1>5, <1>6, <2>3, <2>5, Done DEF OnWay
    <3>2. recv_buffer'[p] /\ ~recv_buffer'[r] /\ \A q \in Procs : ~send_buffer'[q]
      BY <1>1, <1>2, <2>3, <2>5 DEF OnWay, Typed
    <3> QED BY <2>1, <3>1, <3>2 DEF InRecv, Peer
  <2> QED BY <1>1, <2>2, <2>5, <2>6 DEF TextOK, Somewhere
<1>10. p = 2 => c.main = "join"
  BY <1>4 DEF Inv
<1>11. send_buffer' \in [Procs -> BOOLEAN] /\ recv_buffer' \in [Procs -> BOOLEAN]
  BY <1>1, <1>2 DEF Typed
<1> QED BY <1>2, <1>3, <1>6, <1>7, <1>8, <1>9, <1>10, <1>11, CallsStep

(* projet_w_brain.c: what is received goes to the client at once.          *)
LEMMA PassesOK ==
  ASSUME Inv, NEW p \in Procs, UNCHANGED program, PB!Passes(p)
  PROVE  Inv'
<1> DEFINE r == Peer(p)
           text == Head(conns[p]) = "text"
<1>1. r \in Procs /\ r # p /\ Typed /\ Queues /\ Peer(r) = p
  BY Two DEF Inv
<1>2. /\ Up(p) /\ UNCHANGED <<life, program>> /\ recv_buffer' = recv_buffer
      /\ send_buffer' = [send_buffer EXCEPT ![p] = @ \/ text]
      /\ conns' = [conns EXCEPT ![p] = Tail(@)]
      /\ conns[p] # <<>> /\ Head(conns[p]) # "yet" /\ pc[p].server = "recv"
      /\ Goto(p, "server", Top(p), IF text THEN {"client"} ELSE {})
  BY DEF PB!Passes, PB!At, PB!Received, PB!Up, Up, PB!life, life, PB!Goto, Goto, PB!Top, Top
<1>3. PICK c \in Calls : /\ pc' = [pc EXCEPT ![p] = c] /\ After(pc[p], c, "server")
                         /\ c.server = Top(p)
  <2>1. CanBe(p, "server", Top(p))
    BY <1>1, OfEach DEF CanBe, Calls, Top
  <2>2. Typed /\ Goto(p, "server", Top(p), IF text THEN {"client"} ELSE {})
    BY <1>1, <1>2
  <2>3. (IF text THEN {"client"} ELSE {}) \subseteq {"client", "brain"}
    OBVIOUS
  <2>4. Gone(p, "server", Top(p))
    BY <2>1, <2>2, <2>3, GotoGoes
  <2> QED BY <2>4 DEF Gone
<1>4. c.main = pc[p].main
  BY <1>3 DEF After
<1>5. conns[r] \in Seq(Contents) /\ conns[p] \in Seq(Contents)
  BY <1>1, OfEach
<1>6. /\ conns' \in [Procs -> Seq(Contents)] /\ conns'[r] = conns[r]
      /\ conns'[p] = Tail(conns[p])
  BY <1>1, <1>2, <1>5, Done DEF Typed
<1>7. QueueOK(c, conns'[p]) /\ QueueOK(pc[r], conns'[r])
  <2>1. QueueOK(pc[r], conns'[r])
    BY <1>1, <1>6 DEF Queues
  <2>2. Len(conns[p]) - 1 <= Backlog
    BY <1>1, <1>2 DEF Queues, QueueOK, Using
  <2>3. Len(conns'[p]) = Len(conns[p]) - 1 /\ Len(conns[p]) \in Nat
    BY <1>2, <1>5, <1>6, Done
  <2>4. c.server \notin Using
    BY <1>3 DEF Top, Using
  <2>5. QueueOK(c, conns'[p])
    BY <2>2, <2>3, <2>4 DEF QueueOK
  <2> QED BY <2>1, <2>5
<1>8. Calm => Loops(c, conns'[p]) /\ Loops(pc[r], conns'[r])
  <2> SUFFICES ASSUME Calm PROVE Loops(c, conns'[p]) /\ Loops(pc[r], conns'[r])
    OBVIOUS
  <2>1. Loops(pc[p], conns[p]) /\ Loops(pc[r], conns[r]) /\ Top(p) = "accept"
    BY <1>1, <1>2 DEF Inv, Calm, Up, Top
  <2>2. \A i \in 1 .. Len(Tail(conns[p])) : Tail(conns[p])[i] # "end"
    BY <1>2, <1>5, <2>1, Done DEF Loops
  <2> QED BY <1>3, <1>6, <2>1, <2>2 DEF Loops, After
<1>9. Calm /\ program # "projet2 copy" => TextOK'
  <2> SUFFICES ASSUME Calm, program # "projet2 copy" PROVE TextOK'
    OBVIOUS
  <2>1. \A q \in Procs : q = p \/ q = r
    BY Two
  <2>2. Seeded' <=> Seeded
    BY <1>1, <1>3, <1>4, SeededStays
  <2>3. text
    <3>1. Head(conns[p]) # "end"
      BY <1>1, <1>2, <1>5, Done DEF Inv, Loops
    <3>2. Head(conns[p]) \in Contents
      BY <1>2, <1>5, Done
    <3> QED BY <1>2, <3>1, <3>2 DEF Contents
  <2>4. ~NoText(conns[p])
    BY <1>2, <1>5, <2>3, Done
  <2>5. Seeded /\ OnWay(p)
    BY <1>1, <2>1, <2>4 DEF Inv, TextOK, Nowhere, Somewhere, InSend, InRecv, OnWay
  <2>6. InSend(p)'
    <3>1. NoText(conns'[p]) /\ NoText(conns'[r])
      BY <1>2, <1>5, <1>6, <2>3, <2>5, Done DEF OnWay
    <3>2. send_buffer'[p] /\ ~send_buffer'[r] /\ \A q \in Procs : ~recv_buffer'[q]
      BY <1>1, <1>2, <2>3, <2>5 DEF OnWay, Typed
    <3> QED BY <2>1, <3>1, <3>2 DEF InSend, Peer
  <2> QED BY <1>1, <2>2, <2>5, <2>6 DEF TextOK, Somewhere
<1>10. p = 2 => c.main = "join"
  BY <1>4 DEF Inv
<1>11. send_buffer' \in [Procs -> BOOLEAN] /\ recv_buffer' \in [Procs -> BOOLEAN]
  BY <1>1, <1>2 DEF Typed
<1> QED BY <1>2, <1>3, <1>6, <1>7, <1>8, <1>9, <1>10, <1>11, CallsStep

(* The brain takes the text across.                                        *)
LEMMA CopiesOK ==
  ASSUME Inv, NEW p \in Procs, UNCHANGED program, NEW cond, cond \subseteq {"client", "brain"},
         BrainCopies(p, cond)
  PROVE  Inv'
<1> DEFINE r == Peer(p)
<1>1. /\ r \in Procs /\ r # p /\ Typed /\ Queues /\ Peer(r) = p
      /\ \A q \in Procs : q = p \/ q = r
  BY Two DEF Inv
<1>2. /\ Up(p) /\ UNCHANGED <<life, program>> /\ conns' = conns /\ recv_buffer[p]
      /\ recv_buffer' = [recv_buffer EXCEPT ![p] = FALSE]
      /\ send_buffer' = [send_buffer EXCEPT ![p] = TRUE]
      /\ Goto(p, "brain", "lock", cond)
  BY DEF BrainCopies, At
<1>3. PICK c \in Calls : /\ pc' = [pc EXCEPT ![p] = c] /\ After(pc[p], c, "brain")
                         /\ c.brain = "lock"
  <2>1. CanBe(p, "brain", "lock")
    BY <1>1, OfEach DEF CanBe, Calls
  <2>2. Gone(p, "brain", "lock")
    BY <1>1, <1>2, <2>1, GotoGoes
  <2> QED BY <2>2 DEF Gone
<1>4. c.main = pc[p].main /\ c.server = pc[p].server
  BY <1>3 DEF After
<1>5. QueueOK(c, conns'[p]) /\ QueueOK(pc[r], conns'[r])
  BY <1>1, <1>2, <1>4 DEF Queues, QueueOK
<1>6. Calm => Loops(c, conns'[p]) /\ Loops(pc[r], conns'[r])
  BY <1>1, <1>2, <1>3, <1>4 DEF Inv, Loops, After
<1>7. Calm /\ program # "projet2 copy" => TextOK'
  <2> SUFFICES ASSUME Calm, program # "projet2 copy" PROVE TextOK'
    OBVIOUS
  <2>1. Seeded' <=> Seeded
    BY <1>1, <1>3, <1>4, SeededStays
  <2>2. Seeded /\ InRecv(p)
    BY <1>1, <1>2 DEF Inv, TextOK, Nowhere, Somewhere, InSend, InRecv, OnWay
  <2>3. InSend(p)'
    BY <1>1, <1>2, <2>2 DEF InSend, InRecv, Typed, Peer
  <2> QED BY <2>1, <2>2, <2>3 DEF TextOK, Somewhere
<1>8. p = 2 => c.main = "join"
  BY <1>4 DEF Inv
<1>9. /\ send_buffer' \in [Procs -> BOOLEAN] /\ recv_buffer' \in [Procs -> BOOLEAN]
      /\ conns' \in [Procs -> Seq(Contents)]
  BY <1>1, <1>2 DEF Typed
<1> QED BY <1>2, <1>3, <1>5, <1>6, <1>7, <1>8, <1>9, CallsStep

(* main of process 1 has the first text.                                   *)
LEMMA SeedOK ==
  ASSUME Inv, NEW p \in Procs, UNCHANGED program, NEW cond, cond \subseteq {"client", "brain"},
         Seed(p, cond)
  PROVE  Inv'
<1> DEFINE r == Peer(p)
<1>1. /\ r \in Procs /\ r # p /\ Typed /\ Queues /\ Peer(r) = p
      /\ \A q \in Procs : q = p \/ q = r
  BY Two DEF Inv
<1>2. /\ Up(p) /\ UNCHANGED <<life, program>> /\ conns' = conns /\ recv_buffer' = recv_buffer
      /\ send_buffer' = [send_buffer EXCEPT ![p] = TRUE]
      /\ Goto(p, "main", "join", cond) /\ pc[p].main = "seed"
  BY DEF Seed, At
<1>3. PICK c \in Calls : /\ pc' = [pc EXCEPT ![p] = c] /\ After(pc[p], c, "main")
                         /\ c.main = "join"
  <2>1. CanBe(p, "main", "join")
    BY <1>1, OfEach DEF CanBe, Calls
  <2>2. Gone(p, "main", "join")
    BY <1>1, <1>2, <2>1, GotoGoes
  <2> QED BY <2>2 DEF Gone
<1>4. c.server = pc[p].server /\ p = 1
  BY <1>2, <1>3 DEF After, Inv, Procs
<1>5. QueueOK(c, conns'[p]) /\ QueueOK(pc[r], conns'[r])
  BY <1>1, <1>2, <1>4 DEF Queues, QueueOK
<1>6. Calm => Loops(c, conns'[p]) /\ Loops(pc[r], conns'[r])
  BY <1>1, <1>2, <1>3, <1>4 DEF Inv, Loops, After
<1>7. Calm /\ program # "projet2 copy" => TextOK'
  <2> SUFFICES ASSUME Calm, program # "projet2 copy" PROVE TextOK'
    OBVIOUS
  <2>1. Seeded'
    BY <1>1, <1>3, <1>4 DEF Seeded, Typed
  <2>2. Nowhere
    BY <1>2, <1>4 DEF Inv, TextOK, Seeded
  <2>3. InSend(p)'
    BY <1>1, <1>2, <2>2 DEF InSend, Nowhere, Typed, Peer
  <2> QED BY <2>1, <2>3 DEF TextOK, Somewhere
<1>8. /\ send_buffer' \in [Procs -> BOOLEAN] /\ recv_buffer' \in [Procs -> BOOLEAN]
      /\ conns' \in [Procs -> Seq(Contents)]
  BY <1>1, <1>2 DEF Typed
<1> QED BY <1>2, <1>3, <1>5, <1>6, <1>7, <1>8, CallsStep

(* A server that was told to stop, and closes its socket, or leaves it so. *)
LEMMA StopsOK ==
  ASSUME Inv, NEW p \in Procs, UNCHANGED program, ServerStops(p) \/ PW!ServerLeaves(p)
  PROVE  Inv'
<1> DEFINE r == Peer(p)
<1>1. /\ r \in Procs /\ r # p /\ Typed /\ Queues /\ Peer(r) = p
      /\ \A q \in Procs : q = p \/ q = r
  BY Two DEF Inv
<1>2. /\ Up(p) /\ UNCHANGED <<life, program>> /\ UNCHANGED buffers
      /\ pc[p].server \in {"out", "leave"} /\ Goto(p, "server", "done", {})
      /\ \/ conns' = [conns EXCEPT ![p] = <<>>]
         \/ conns' = [conns EXCEPT ![p] = <<Head(@)>>] /\ conns[p] # <<>>
  <2>1. CASE ServerStops(p)
    BY <2>1 DEF ServerStops, At
  <2>2. CASE PW!ServerLeaves(p)
    <3>1. pc[p].server = "leave"
      BY <2>2 DEF PW!ServerLeaves, PW!At
    <3>2. conns[p] # <<>>
      BY <1>1, <3>1 DEF Queues, QueueOK, Using
    <3> QED BY <2>2, <3>1, <3>2 DEF PW!ServerLeaves, PW!At, PW!Up, Up, PW!Goto, Goto, PW!life,
          life,
                                    PW!buffers, buffers
  <2> QED BY <2>1, <2>2
<1>3. PICK c \in Calls : /\ pc' = [pc EXCEPT ![p] = c] /\ After(pc[p], c, "server")
                         /\ c.server = "done"
  <2>1. CanBe(p, "server", "done")
    BY <1>1, OfEach DEF CanBe, Calls
  <2>2. Goto(p, "server", "done", {})
    BY <1>2
  <2>3. Gone(p, "server", "done")
    BY <1>1, <2>1, <2>2, GotoGoes
  <2> QED BY <2>3 DEF Gone
<1>4. c.main = pc[p].main
  BY <1>3 DEF After
<1>5. /\ conns' \in [Procs -> Seq(Contents)] /\ conns'[r] = conns[r] /\ Len(conns'[p]) \in {0, 1}
  <2>1. conns[p] # <<>> => Head(conns[p]) \in Contents
    BY <1>1, OfEach, Done
  <2>2. conns' \in [Procs -> Seq(Contents)] /\ conns'[r] = conns[r]
    <3>1. <<>> \in Seq(Contents) /\ (conns[p] # <<>> => <<Head(conns[p])>> \in Seq(Contents))
      BY <2>1
    <3>2. CASE conns' = [conns EXCEPT ![p] = <<>>]
      BY <1>1, <3>1, <3>2 DEF Typed
    <3>3. CASE conns' = [conns EXCEPT ![p] = <<Head(@)>>] /\ conns[p] # <<>>
      BY <1>1, <3>1, <3>3 DEF Typed
    <3> QED BY <1>2, <3>2, <3>3
  <2>3. conns'[p] = <<>> \/ conns'[p] = <<Head(conns[p])>>
    BY <1>1, <1>2 DEF Typed
  <2> QED BY <2>2, <2>3
<1>6. QueueOK(c, conns'[p]) /\ QueueOK(pc[r], conns'[r])
  <2>1. QueueOK(pc[r], conns'[r])
    BY <1>1, <1>5 DEF Queues
  <2>2. QueueOK(c, conns'[p])
    <3>1. c.server \notin Using
      BY <1>3 DEF Using
    <3>2. PICK n \in {0, 1} : n = Len(conns'[p])
      BY <1>5
    <3>3. n - 0 <= Backlog
      OBVIOUS
    <3> QED BY <3>1, <3>2, <3>3 DEF QueueOK
  <2> QED BY <2>1, <2>2
<1>7. ~Calm
  BY <1>2 DEF Inv, Loops
<1>8. p = 2 => c.main = "join"
  BY <1>4 DEF Inv
<1>9. send_buffer' \in [Procs -> BOOLEAN] /\ recv_buffer' \in [Procs -> BOOLEAN]
  BY <1>1, <1>2 DEF Typed, buffers
<1> QED BY <1>2, <1>3, <1>5, <1>6, <1>7, <1>8, <1>9, CallsStep

(* The steps of the programs are those of UnixRelay.                       *)
LEMMA SameProjet ==
  ASSUME NEW p, NEW full, NEW cond, NEW kept
  PROVE  /\ P1!main <=> main
         /\ P1!ClientTop(p) <=> ClientTop(p)
         /\ P1!Connect(p) <=> Connect(p)
         /\ P1!ConnectFails(p) <=> ConnectFails(p)
         /\ P1!ClientStops(p) <=> ClientStops(p)
         /\ P1!ClientWaits(p, full) <=> ClientWaits(p, full)
         /\ P1!SendFails(p) <=> SendFails(p)
         /\ P1!Bind(p) <=> Bind(p)
         /\ P1!BindFails(p) <=> BindFails(p)
         /\ P1!Accept(p, "recv") <=> Accept(p, "recv")
         /\ P1!Seed(p, cond) <=> Seed(p, cond)
         /\ P1!Killed(p) <=> Killed(p)
         /\ P1!handle_signal(p) <=> handle_signal(p)
         /\ P1!ClientSends(p) <=> ClientSends(p)
         /\ P1!Receive(p, cond, kept) <=> Receive(p, cond, kept)
         /\ P1!BrainWaits(p, full) <=> BrainWaits(p, full)
         /\ P1!BrainStops(p) <=> BrainStops(p)
         /\ P1!BrainCopies(p, cond) <=> BrainCopies(p, cond)
<1> USE DEF P1!Up, Up, P1!At, At, P1!Goto, Goto, P1!life, life, P1!buffers, buffers, P1!Peer,
      Peer,
            P1!Open, Open, P1!Last, Last, P1!Ends, Ends, P1!Pc0, Pc0, P1!Procs, Procs
<1>1. P1!main <=> main
  BY DEF P1!main, main, P1!Fork, Fork, P1!Kill, Kill, P1!Wait, Wait
<1>2. P1!ClientTop(p) <=> ClientTop(p)
  BY DEF P1!ClientTop, ClientTop
<1>3. P1!Connect(p) <=> Connect(p)
  BY DEF P1!Connect, Connect, P1!Listening, Listening, P1!Queued, Queued
<1>4. P1!ConnectFails(p) <=> ConnectFails(p)
  BY DEF P1!ConnectFails, ConnectFails, P1!Listening, Listening
<1>5. P1!ClientStops(p) <=> ClientStops(p)
  BY DEF P1!ClientStops, ClientStops
<1>6. P1!ClientWaits(p, full) <=> ClientWaits(p, full)
  BY DEF P1!ClientWaits, ClientWaits
<1>7. P1!SendFails(p) <=> SendFails(p)
  BY DEF P1!SendFails, SendFails
<1>8. P1!Bind(p) <=> Bind(p)
  BY DEF P1!Bind, Bind, P1!Top, Top
<1>9. P1!BindFails(p) <=> BindFails(p)
  BY DEF P1!BindFails, BindFails
<1>10. P1!Accept(p, "recv") <=> Accept(p, "recv")
  BY DEF P1!Accept, Accept
<1>11. P1!Seed(p, cond) <=> Seed(p, cond)
  BY DEF P1!Seed, Seed
<1>12. P1!Killed(p) <=> Killed(p)
  BY DEF P1!Killed, Killed
<1>13. P1!handle_signal(p) <=> handle_signal(p)
  BY DEF P1!handle_signal, handle_signal
<1>14. P1!ClientSends(p) <=> ClientSends(p)
  BY DEF P1!ClientSends, ClientSends
<1>15. P1!Receive(p, cond, kept) <=> Receive(p, cond, kept)
  BY DEF P1!Receive, Receive, P1!Received, Received, P1!Top, Top
<1>16. P1!BrainWaits(p, full) <=> BrainWaits(p, full)
  BY DEF P1!BrainWaits, BrainWaits
<1>17. P1!BrainStops(p) <=> BrainStops(p)
  BY DEF P1!BrainStops, BrainStops
<1>18. P1!BrainCopies(p, cond) <=> BrainCopies(p, cond)
  BY DEF P1!BrainCopies, BrainCopies
<1> QED BY ONLY <1>1, <1>2, <1>3, <1>4, <1>5, <1>6, <1>7, <1>8, <1>9, <1>10, <1>11, <1>12,
      <1>13, <1>14, <1>15, <1>16, <1>17, <1>18

(* The steps projet_w_brain.c has in common with the others,               *)
LEMMA SameProjetWBrain ==
  ASSUME NEW p, NEW full, NEW cond
  PROVE  /\ PB!main <=> main
         /\ PB!ClientTop(p) <=> ClientTop(p)
         /\ PB!Connect(p) <=> Connect(p)
         /\ PB!ConnectFails(p) <=> ConnectFails(p)
         /\ PB!ClientStops(p) <=> ClientStops(p)
         /\ PB!ClientWaits(p, full) <=> ClientWaits(p, full)
         /\ PB!SendFails(p) <=> SendFails(p)
         /\ PB!Bind(p) <=> Bind(p)
         /\ PB!BindFails(p) <=> BindFails(p)
         /\ PB!Accept(p, "recv") <=> Accept(p, "recv")
         /\ PB!Seed(p, cond) <=> Seed(p, cond)
         /\ PB!Killed(p) <=> Killed(p)
         /\ PB!handle_signal(p) <=> handle_signal(p)
         /\ PB!ClientSends(p) <=> ClientSends(p)
         /\ PB!ServerStops(p) <=> ServerStops(p)
         /\ PB!Joined(p, cond) <=> Joined(p, cond)
<1> USE DEF PB!Up, Up, PB!At, At, PB!Goto, Goto, PB!life, life, PB!buffers, buffers, PB!Peer,
      Peer,
            PB!Open, Open, PB!Last, Last, PB!Ends, Ends, PB!Pc0, Pc0, PB!Procs, Procs
<1>1. PB!main <=> main
  BY DEF PB!main, main, PB!Fork, Fork, PB!Kill, Kill, PB!Wait, Wait
<1>2. PB!ClientTop(p) <=> ClientTop(p)
  BY DEF PB!ClientTop, ClientTop
<1>3. PB!Connect(p) <=> Connect(p)
  BY DEF PB!Connect, Connect, PB!Listening, Listening, PB!Queued, Queued
<1>4. PB!ConnectFails(p) <=> ConnectFails(p)
  BY DEF PB!ConnectFails, ConnectFails, PB!Listening, Listening
<1>5. PB!ClientStops(p) <=> ClientStops(p)
  BY DEF PB!ClientStops, ClientStops
<1>6. PB!ClientWaits(p, full) <=> ClientWaits(p, full)
  BY DEF PB!ClientWaits, ClientWaits
<1>7. PB!SendFails(p) <=> SendFails(p)
  BY DEF PB!SendFails, SendFails
<1>8. PB!Bind(p) <=> Bind(p)
  BY DEF PB!Bind, Bind, PB!Top, Top
<1>9. PB!BindFails(p) <=> BindFails(p)
  BY DEF PB!BindFails, BindFails
<1>10. PB!Accept(p, "recv") <=> Accept(p, "recv")
  BY DEF PB!Accept, Accept
<1>11. PB!Seed(p, cond) <=> Seed(p, cond)
  BY DEF PB!Seed, Seed
<1>12. PB!Killed(p) <=> Killed(p)
  BY DEF PB!Killed, Killed
<1>13. PB!handle_signal(p) <=> handle_signal(p)
  BY DEF PB!handle_signal, handle_signal
<1>14. PB!ClientSends(p) <=> ClientSends(p)
  BY DEF PB!ClientSends, ClientSends
<1>15. PB!ServerStops(p) <=> ServerStops(p)
  BY DEF PB!ServerStops, ServerStops
<1>16. PB!Joined(p, cond) <=> Joined(p, cond)
  BY DEF PB!Joined, Joined
<1> QED BY ONLY <1>1, <1>2, <1>3, <1>4, <1>5, <1>6, <1>7, <1>8, <1>9, <1>10, <1>11, <1>12,
      <1>13, <1>14, <1>15, <1>16

(* those of projet3.c,                                                     *)
LEMMA SameProjet3 ==
  ASSUME NEW p, NEW full, NEW cond, NEW kept
  PROVE  /\ P3!main <=> main
         /\ P3!ClientTop(p) <=> ClientTop(p)
         /\ P3!Connect(p) <=> Connect(p)
         /\ P3!ConnectFails(p) <=> ConnectFails(p)
         /\ P3!ClientStops(p) <=> ClientStops(p)
         /\ P3!ClientWaits(p, full) <=> ClientWaits(p, full)
         /\ P3!SendFails(p) <=> SendFails(p)
         /\ P3!Bind(p) <=> Bind(p)
         /\ P3!BindFails(p) <=> BindFails(p)
         /\ P3!Accept(p, "recv") <=> Accept(p, "recv")
         /\ P3!Seed(p, cond) <=> Seed(p, cond)
         /\ P3!Killed(p) <=> Killed(p)
         /\ P3!handle_signal(p) <=> handle_signal(p)
         /\ P3!ClientSends(p) <=> ClientSends(p)
         /\ P3!Receive(p, cond, kept) <=> Receive(p, cond, kept)
         /\ P3!ServerStops(p) <=> ServerStops(p)
         /\ P3!BrainWaits(p, full) <=> BrainWaits(p, full)
         /\ P3!BrainStops(p) <=> BrainStops(p)
         /\ P3!Joined(p, cond) <=> Joined(p, cond)
<1> USE DEF P3!Up, Up, P3!At, At, P3!Goto, Goto, P3!life, life, P3!buffers, buffers, P3!Peer,
      Peer,
            P3!Open, Open, P3!Last, Last, P3!Ends, Ends, P3!Pc0, Pc0, P3!Procs, Procs
<1>1. P3!main <=> main
  BY DEF P3!main, main, P3!Fork, Fork, P3!Kill, Kill, P3!Wait, Wait
<1>2. P3!ClientTop(p) <=> ClientTop(p)
  BY DEF P3!ClientTop, ClientTop
<1>3. P3!Connect(p) <=> Connect(p)
  BY DEF P3!Connect, Connect, P3!Listening, Listening, P3!Queued, Queued
<1>4. P3!ConnectFails(p) <=> ConnectFails(p)
  BY DEF P3!ConnectFails, ConnectFails, P3!Listening, Listening
<1>5. P3!ClientStops(p) <=> ClientStops(p)
  BY DEF P3!ClientStops, ClientStops
<1>6. P3!ClientWaits(p, full) <=> ClientWaits(p, full)
  BY DEF P3!ClientWaits, ClientWaits
<1>7. P3!SendFails(p) <=> SendFails(p)
  BY DEF P3!SendFails, SendFails
<1>8. P3!Bind(p) <=> Bind(p)
  BY DEF P3!Bind, Bind, P3!Top, Top
<1>9. P3!BindFails(p) <=> BindFails(p)
  BY DEF P3!BindFails, BindFails
<1>10. P3!Accept(p, "recv") <=> Accept(p, "recv")
  BY DEF P3!Accept, Accept
<1>11. P3!Seed(p, cond) <=> Seed(p, cond)
  BY DEF P3!Seed, Seed
<1>12. P3!Killed(p) <=> Killed(p)
  BY DEF P3!Killed, Killed
<1>13. P3!handle_signal(p) <=> handle_signal(p)
  BY DEF P3!handle_signal, handle_signal
<1>14. P3!ClientSends(p) <=> ClientSends(p)
  BY DEF P3!ClientSends, ClientSends
<1>15. P3!Receive(p, cond, kept) <=> Receive(p, cond, kept)
  BY DEF P3!Receive, Receive, P3!Received, Received, P3!Top, Top
<1>16. P3!ServerStops(p) <=> ServerStops(p)
  BY DEF P3!ServerStops, ServerStops
<1>17. P3!BrainWaits(p, full) <=> BrainWaits(p, full)
  BY DEF P3!BrainWaits, BrainWaits
<1>18. P3!BrainStops(p) <=> BrainStops(p)
  BY DEF P3!BrainStops, BrainStops
<1>19. P3!Joined(p, cond) <=> Joined(p, cond)
  BY DEF P3!Joined, Joined
<1> QED BY ONLY <1>1, <1>2, <1>3, <1>4, <1>5, <1>6, <1>7, <1>8, <1>9, <1>10, <1>11, <1>12,
      <1>13, <1>14, <1>15, <1>16, <1>17, <1>18, <1>19

(* of projet2.c,                                                           *)
LEMMA SameProjet2 ==
  ASSUME NEW p, NEW full, NEW cond, NEW kept
  PROVE  /\ P2!main <=> main
         /\ P2!ClientTop(p) <=> ClientTop(p)
         /\ P2!Connect(p) <=> Connect(p)
         /\ P2!ConnectFails(p) <=> ConnectFails(p)
         /\ P2!ClientStops(p) <=> ClientStops(p)
         /\ P2!ClientWaits(p, full) <=> ClientWaits(p, full)
         /\ P2!SendFails(p) <=> SendFails(p)
         /\ P2!Bind(p) <=> Bind(p)
         /\ P2!BindFails(p) <=> BindFails(p)
         /\ P2!Accept(p, "recv") <=> Accept(p, "recv")
         /\ P2!Seed(p, cond) <=> Seed(p, cond)
         /\ P2!Killed(p) <=> Killed(p)
         /\ P2!handle_signal(p) <=> handle_signal(p)
         /\ P2!ClientSends(p) <=> ClientSends(p)
         /\ P2!Receive(p, cond, kept) <=> Receive(p, cond, kept)
         /\ P2!ServerStops(p) <=> ServerStops(p)
         /\ P2!Joined(p, cond) <=> Joined(p, cond)
<1> USE DEF P2!Up, Up, P2!At, At, P2!Goto, Goto, P2!life, life, P2!buffers, buffers, P2!Peer,
      Peer,
            P2!Open, Open, P2!Last, Last, P2!Ends, Ends, P2!Pc0, Pc0, P2!Procs, Procs
<1>1. P2!main <=> main
  BY DEF P2!main, main, P2!Fork, Fork, P2!Kill, Kill, P2!Wait, Wait
<1>2. P2!ClientTop(p) <=> ClientTop(p)
  BY DEF P2!ClientTop, ClientTop
<1>3. P2!Connect(p) <=> Connect(p)
  BY DEF P2!Connect, Connect, P2!Listening, Listening, P2!Queued, Queued
<1>4. P2!ConnectFails(p) <=> ConnectFails(p)
  BY DEF P2!ConnectFails, ConnectFails, P2!Listening, Listening
<1>5. P2!ClientStops(p) <=> ClientStops(p)
  BY DEF P2!ClientStops, ClientStops
<1>6. P2!ClientWaits(p, full) <=> ClientWaits(p, full)
  BY DEF P2!ClientWaits, ClientWaits
<1>7. P2!SendFails(p) <=> SendFails(p)
  BY DEF P2!SendFails, SendFails
<1>8. P2!Bind(p) <=> Bind(p)
  BY DEF P2!Bind, Bind, P2!Top, Top
<1>9. P2!BindFails(p) <=> BindFails(p)
  BY DEF P2!BindFails, BindFails
<1>10. P2!Accept(p, "recv") <=> Accept(p, "recv")
  BY DEF P2!Accept, Accept
<1>11. P2!Seed(p, cond) <=> Seed(p, cond)
  BY DEF P2!Seed, Seed
<1>12. P2!Killed(p) <=> Killed(p)
  BY DEF P2!Killed, Killed
<1>13. P2!handle_signal(p) <=> handle_signal(p)
  BY DEF P2!handle_signal, handle_signal
<1>14. P2!ClientSends(p) <=> ClientSends(p)
  BY DEF P2!ClientSends, ClientSends
<1>15. P2!Receive(p, cond, kept) <=> Receive(p, cond, kept)
  BY DEF P2!Receive, Receive, P2!Received, Received, P2!Top, Top
<1>16. P2!ServerStops(p) <=> ServerStops(p)
  BY DEF P2!ServerStops, ServerStops
<1>17. P2!Joined(p, cond) <=> Joined(p, cond)
  BY DEF P2!Joined, Joined
<1> QED BY ONLY <1>1, <1>2, <1>3, <1>4, <1>5, <1>6, <1>7, <1>8, <1>9, <1>10, <1>11, <1>12,
      <1>13, <1>14, <1>15, <1>16, <1>17

(* of "projet2 copy.c"                                                     *)
LEMMA SameProjet2Copy ==
  ASSUME NEW p, NEW full, NEW cond, NEW kept
  PROVE  /\ PC!main <=> main
         /\ PC!ClientTop(p) <=> ClientTop(p)
         /\ PC!Connect(p) <=> Connect(p)
         /\ PC!ConnectFails(p) <=> ConnectFails(p)
         /\ PC!ClientStops(p) <=> ClientStops(p)
         /\ PC!ClientWaits(p, full) <=> ClientWaits(p, full)
         /\ PC!SendFails(p) <=> SendFails(p)
         /\ PC!Bind(p) <=> Bind(p)
         /\ PC!BindFails(p) <=> BindFails(p)
         /\ PC!Accept(p, "recv") <=> Accept(p, "recv")
         /\ PC!Seed(p, cond) <=> Seed(p, cond)
         /\ PC!Killed(p) <=> Killed(p)
         /\ PC!handle_signal(p) <=> handle_signal(p)
         /\ PC!Receive(p, cond, kept) <=> Receive(p, cond, kept)
         /\ PC!ServerStops(p) <=> ServerStops(p)
         /\ PC!BrainWaits(p, full) <=> BrainWaits(p, full)
         /\ PC!BrainStops(p) <=> BrainStops(p)
         /\ PC!BrainCopies(p, cond) <=> BrainCopies(p, cond)
         /\ PC!Joined(p, cond) <=> Joined(p, cond)
<1> USE DEF PC!Up, Up, PC!At, At, PC!Goto, Goto, PC!life, life, PC!buffers, buffers, PC!Peer,
      Peer,
            PC!Open, Open, PC!Last, Last, PC!Ends, Ends, PC!Pc0, Pc0, PC!Procs, Procs
<1>1. PC!main <=> main
  BY DEF PC!main, main, PC!Fork, Fork, PC!Kill, Kill, PC!Wait, Wait
<1>2. PC!ClientTop(p) <=> ClientTop(p)
  BY DEF PC!ClientTop, ClientTop
<1>3. PC!Connect(p) <=> Connect(p)
  BY DEF PC!Connect, Connect, PC!Listening, Listening, PC!Queued, Queued
<1>4. PC!ConnectFails(p) <=> ConnectFails(p)
  BY DEF PC!ConnectFails, ConnectFails, PC!Listening, Listening
<1>5. PC!ClientStops(p) <=> ClientStops(p)
  BY DEF PC!ClientStops, ClientStops
<1>6. PC!ClientWaits(p, full) <=> ClientWaits(p, full)
  BY DEF PC!ClientWaits, ClientWaits
<1>7. PC!SendFails(p) <=> SendFails(p)
  BY DEF PC!SendFails, SendFails
<1>8. PC!Bind(p) <=> Bind(p)
  BY DEF PC!Bind, Bind, PC!Top, Top
<1>9. PC!BindFails(p) <=> BindFails(p)
  BY DEF PC!BindFails, BindFails
<1>10. PC!Accept(p, "recv") <=> Accept(p, "recv")
  BY DEF PC!Accept, Accept
<1>11. PC!Seed(p, cond) <=> Seed(p, cond)
  BY DEF PC!Seed, Seed
<1>12. PC!Killed(p) <=> Killed(p)
  BY DEF PC!Killed, Killed
<1>13. PC!handle_signal(p) <=> handle_signal(p)
  BY DEF PC!handle_signal, handle_signal
<1>14. PC!Receive(p, cond, kept) <=> Receive(p, cond, kept)
  BY DEF PC!Receive, Receive, PC!Received, Received, PC!Top, Top
<1>15. PC!ServerStops(p) <=> ServerStops(p)
  BY DEF PC!ServerStops, ServerStops
<1>16. PC!BrainWaits(p, full) <=> BrainWaits(p, full)
  BY DEF PC!BrainWaits, BrainWaits
<1>17. PC!BrainStops(p) <=> BrainStops(p)
  BY DEF PC!BrainStops, BrainStops
<1>18. PC!BrainCopies(p, cond) <=> BrainCopies(p, cond)
  BY DEF PC!BrainCopies, BrainCopies
<1>19. PC!Joined(p, cond) <=> Joined(p, cond)
  BY DEF PC!Joined, Joined
<1> QED BY ONLY <1>1, <1>2, <1>3, <1>4, <1>5, <1>6, <1>7, <1>8, <1>9, <1>10, <1>11, <1>12,
      <1>13, <1>14, <1>15, <1>16, <1>17, <1>18, <1>19

(* and of projet2_wow.c.                                                   *)
LEMMA SameProjet2Wow ==
  ASSUME NEW p, NEW full, NEW cond
  PROVE  /\ PW!main <=> main
         /\ PW!ClientTop(p) <=> ClientTop(p)
         /\ PW!Connect(p) <=> Connect(p)
         /\ PW!ConnectFails(p) <=> ConnectFails(p)
         /\ PW!ClientStops(p) <=> ClientStops(p)
         /\ PW!ClientWaits(p, full) <=> ClientWaits(p, full)
         /\ PW!SendFails(p) <=> SendFails(p)
         /\ PW!Bind(p) <=> Bind(p)
         /\ PW!BindFails(p) <=> BindFails(p)
         /\ PW!Accept(p, "recv") <=> Accept(p, "recv")
         /\ PW!Seed(p, cond) <=> Seed(p, cond)
         /\ PW!Killed(p) <=> Killed(p)
         /\ PW!handle_signal(p) <=> handle_signal(p)
         /\ PW!ClientSends(p) <=> ClientSends(p)
         /\ PW!ServerStops(p) <=> ServerStops(p)
         /\ PW!BrainWaits(p, full) <=> BrainWaits(p, full)
         /\ PW!BrainStops(p) <=> BrainStops(p)
         /\ PW!Joined(p, cond) <=> Joined(p, cond)
<1> USE DEF PW!Up, Up, PW!At, At, PW!Goto, Goto, PW!life, life, PW!buffers, buffers, PW!Peer,
      Peer,
            PW!Open, Open, PW!Last, Last, PW!Ends, Ends, PW!Pc0, Pc0, PW!Procs, Procs
<1>1. PW!main <=> main
  BY DEF PW!main, main, PW!Fork, Fork, PW!Kill, Kill, PW!Wait, Wait
<1>2. PW!ClientTop(p) <=> ClientTop(p)
  BY DEF PW!ClientTop, ClientTop
<1>3. PW!Connect(p) <=> Connect(p)
  BY DEF PW!Connect, Connect, PW!Listening, Listening, PW!Queued, Queued
<1>4. PW!ConnectFails(p) <=> ConnectFails(p)
  BY DEF PW!ConnectFails, ConnectFails, PW!Listening, Listening
<1>5. PW!ClientStops(p) <=> ClientStops(p)
  BY DEF PW!ClientStops, ClientStops
<1>6. PW!ClientWaits(p, full) <=> ClientWaits(p, full)
  BY DEF PW!ClientWaits, ClientWaits
<1>7. PW!SendFails(p) <=> SendFails(p)
  BY DEF PW!SendFails, SendFails
<1>8. PW!Bind(p) <=> Bind(p)
  BY DEF PW!Bind, Bind, PW!Top, Top
<1>9. PW!BindFails(p) <=> BindFails(p)
  BY DEF PW!BindFails, BindFails
<1>10. PW!Accept(p, "recv") <=> Accept(p, "recv")
  BY DEF PW!Accept, Accept
<1>11. PW!Seed(p, cond) <=> Seed(p, cond)
  BY DEF PW!Seed, Seed
<1>12. PW!Killed(p) <=> Killed(p)
  BY DEF PW!Killed, Killed
<1>13. PW!handle_signal(p) <=> handle_signal(p)
  BY DEF PW!handle_signal, handle_signal
<1>14. PW!ClientSends(p) <=> ClientSends(p)
  BY DEF PW!ClientSends, ClientSends
<1>15. PW!ServerStops(p) <=> ServerStops(p)
  BY DEF PW!ServerStops, ServerStops
<1>16. PW!BrainWaits(p, full) <=> BrainWaits(p, full)
  BY DEF PW!BrainWaits, BrainWaits
<1>17. PW!BrainStops(p) <=> BrainStops(p)
  BY DEF PW!BrainStops, BrainStops
<1>18. PW!Joined(p, cond) <=> Joined(p, cond)
  BY DEF PW!Joined, Joined
<1> QED BY ONLY <1>1, <1>2, <1>3, <1>4, <1>5, <1>6, <1>7, <1>8, <1>9, <1>10, <1>11, <1>12,
      <1>13, <1>14, <1>15, <1>16, <1>17, <1>18

-----------------------------------------------------------------------------
(* The programs *)

(* What a client does, in any of the programs.                             *)
LEMMA ClientOK ==
  ASSUME Inv, NEW p \in Procs, UNCHANGED program,
         \/ ClientTop(p) \/ Connect(p) \/ ConnectFails(p) \/ ClientStops(p)
         \/ ClientWaits(p, send_buffer[p]) \/ ClientSends(p) \/ SendFails(p)
  PROVE  Inv'
<1>1. CASE ClientTop(p) \/ ConnectFails(p) \/ ClientStops(p) \/ ClientWaits(p, send_buffer[p])
  BY <1>1, ClientMoves
<1>2. CASE Connect(p)
  BY <1>2, ConnectOK
<1>3. CASE ClientSends(p)
  BY <1>3, SendsOK
<1>4. CASE SendFails(p)
  BY <1>4, EndsOK DEF SendFails
<1> QED BY <1>1, <1>2, <1>3, <1>4

(* main of a child, and the signals sent to it.                            *)
LEMMA ChildOK ==
  ASSUME Inv, NEW p \in Procs, UNCHANGED program, NEW cond, cond \subseteq {"client", "brain"},
         NEW threads, Seed(p, cond) \/ Killed(p) \/ Joined(p, threads)
  PROVE  Inv'
<1>1. CASE Seed(p, cond)
  BY <1>1, SeedOK
<1>2. CASE Killed(p) \/ Joined(p, threads)
  BY <1>2, EndsOK DEF Killed, Joined
<1> QED BY <1>1, <1>2

(* A step of projet.c keeps the invariant,                                 *)
LEMMA ProjetOK ==
  ASSUME Inv, UNCHANGED program, program = "projet", P1!Next
  PROVE  Inv'
<1>1. P1!Procs = Procs
  BY DEF P1!Procs, Procs
<1>2. ASSUME NEW p \in Procs, P1!client_thread(p) PROVE Inv'
  <2>1. \/ ClientTop(p) \/ Connect(p) \/ ConnectFails(p) \/ ClientStops(p)
        \/ ClientWaits(p, send_buffer[p]) \/ ClientSends(p) \/ SendFails(p)
    BY <1>2, SameProjet DEF P1!client_thread
  <2> QED BY <2>1, ClientOK
<1>3. ASSUME NEW p \in Procs, P1!server_thread(p) PROVE Inv'
  <2>1. \/ Bind(p) \/ BindFails(p) \/ Accept(p, "recv") \/ Receive(p, {"brain"}, FALSE)
        \/ P1!ServerExits(p)
    BY <1>3, SameProjet DEF P1!server_thread
  <2>2. CASE Bind(p) \/ Accept(p, "recv")
    BY <2>2, ServerMoves
  <2>3. CASE P1!ServerExits(p)
    BY <2>3, EndsOK DEF P1!ServerExits, P1!Ends, Ends, P1!Open, Open, P1!Peer, Peer, P1!Last,
       Last,
       P1!Pc0, Pc0, P1!Procs, Procs
  <2>4. CASE BindFails(p)
    BY <2>4, EndsOK DEF BindFails
  <2>5. CASE Receive(p, {"brain"}, FALSE)
    BY <2>5, ReceiveOK
  <2> QED BY <2>1, <2>2, <2>3, <2>4, <2>5
<1>4. ASSUME NEW p \in Procs, P1!brain_thread(p) PROVE Inv'
  <2>1. \/ BrainWaits(p, recv_buffer[p]) \/ BrainStops(p) \/ BrainCopies(p, {"client"})
    BY <1>4, SameProjet DEF P1!brain_thread, P1!BrainLocks
  <2>2. CASE BrainWaits(p, recv_buffer[p]) \/ BrainStops(p)
    BY <2>2, BrainMoves
  <2>3. CASE BrainCopies(p, {"client"})
    BY <2>3, CopiesOK
  <2> QED BY <2>1, <2>2, <2>3
<1>5. ASSUME NEW p \in Procs, Seed(p, {"client"}) \/ Killed(p)
      PROVE  Inv'
  BY <1>5, ChildOK
<1>6. ASSUME main \/ \E x \in Procs \cup {Main} : handle_signal(x) PROVE Inv'
  BY <1>6, MainOK DEF main
<1> QED BY <1>1, <1>2, <1>3, <1>4, <1>5, <1>6, SameProjet DEF P1!Next, P1!create_threads

(* so does one of projet_w_brain.c,                                        *)
LEMMA ProjetWBrainOK ==
  ASSUME Inv, UNCHANGED program, program = "projet_w_brain", PB!Next
  PROVE  Inv'
<1>1. PB!Procs = Procs
  BY DEF PB!Procs, Procs
<1>2. ASSUME NEW p \in Procs, PB!client_thread(p) PROVE Inv'
  <2>1. \/ ClientTop(p) \/ Connect(p) \/ ConnectFails(p) \/ ClientStops(p)
        \/ ClientWaits(p, send_buffer[p]) \/ ClientSends(p) \/ SendFails(p)
    BY <1>2, SameProjetWBrain DEF PB!client_thread
  <2> QED BY <2>1, ClientOK
<1>3. ASSUME NEW p \in Procs, PB!server_thread(p) PROVE Inv'
  <2>1. \/ Bind(p) \/ BindFails(p) \/ Accept(p, "recv") \/ ServerStops(p) \/ PB!Passes(p)
    BY <1>3, SameProjetWBrain DEF PB!server_thread
  <2>2. CASE Bind(p) \/ Accept(p, "recv")
    BY <2>2, ServerMoves
  <2>3. CASE BindFails(p)
    BY <2>3, EndsOK DEF BindFails
  <2>4. CASE PB!Passes(p)
    BY <2>4, PassesOK
  <2>5. CASE ServerStops(p)
    BY <2>5, StopsOK
  <2> QED BY <2>1, <2>2, <2>3, <2>4, <2>5
<1>4. ASSUME NEW p \in Procs, Seed(p, {"client"}) \/ Killed(p) \/ Joined(p, {"client", "server"})
      PROVE  Inv'
  BY <1>4, ChildOK
<1>5. ASSUME main \/ \E x \in Procs \cup {Main} : handle_signal(x) PROVE Inv'
  BY <1>5, MainOK DEF main
<1> QED BY <1>1, <1>2, <1>3, <1>4, <1>5, SameProjetWBrain DEF PB!Next, PB!create_threads

(* of projet3.c,                                                           *)
LEMMA Projet3OK ==
  ASSUME Inv, UNCHANGED program, program = "projet3", P3!Next
  PROVE  Inv'
<1>1. P3!Procs = Procs
  BY DEF P3!Procs, Procs
<1>2. ASSUME NEW p \in Procs, P3!client_thread(p) PROVE Inv'
  <2>1. \/ ClientTop(p) \/ Connect(p) \/ ConnectFails(p) \/ ClientStops(p)
        \/ ClientWaits(p, send_buffer[p]) \/ ClientSends(p) \/ SendFails(p)
    BY <1>2, SameProjet3 DEF P3!client_thread
  <2> QED BY <2>1, ClientOK
<1>3. ASSUME NEW p \in Procs, P3!server_thread(p) PROVE Inv'
  <2>1. \/ Bind(p) \/ BindFails(p) \/ Accept(p, "recv") \/ Receive(p, {}, recv_buffer[p])
        \/ ServerStops(p)
    BY <1>3, SameProjet3 DEF P3!server_thread
  <2>2. CASE Bind(p) \/ Accept(p, "recv")
    BY <2>2, ServerMoves
  <2>3. CASE BindFails(p)
    BY <2>3, EndsOK DEF BindFails
  <2>4. CASE Receive(p, {}, recv_buffer[p])
    <3>1. recv_buffer[p] \in BOOLEAN
      BY OfEach DEF Inv
    <3> QED BY <2>4, <3>1, ReceiveOK
  <2>5. CASE ServerStops(p)
    BY <2>5, StopsOK
  <2> QED BY <2>1, <2>2, <2>3, <2>4, <2>5
<1>4. ASSUME NEW p \in Procs, P3!brain_thread(p) PROVE Inv'
  <2>1. \/ BrainWaits(p, FALSE) \/ BrainStops(p)
    BY <1>4, SameProjet3 DEF P3!brain_thread
  <2> QED BY <2>1, BrainMoves
<1>5. ASSUME NEW p \in Procs, Seed(p, {"client"}) \/ Killed(p) \/ Joined(p, {"client", "server", "brain"})
      PROVE  Inv'
  BY <1>5, ChildOK
<1>6. ASSUME main \/ \E x \in Procs \cup {Main} : handle_signal(x) PROVE Inv'
  BY <1>6, MainOK DEF main
<1> QED BY <1>1, <1>2, <1>3, <1>4, <1>5, <1>6, SameProjet3 DEF P3!Next, P3!create_threads

(* of projet2.c,                                                           *)
LEMMA Projet2OK ==
  ASSUME Inv, UNCHANGED program, program = "projet2", P2!Next
  PROVE  Inv'
<1>1. P2!Procs = Procs
  BY DEF P2!Procs, Procs
<1>2. ASSUME NEW p \in Procs, P2!client_thread(p) PROVE Inv'
  <2>1. \/ ClientTop(p) \/ Connect(p) \/ ConnectFails(p) \/ ClientStops(p)
        \/ ClientWaits(p, send_buffer[p]) \/ ClientSends(p) \/ SendFails(p)
    BY <1>2, SameProjet2 DEF P2!client_thread
  <2> QED BY <2>1, ClientOK
<1>3. ASSUME NEW p \in Procs, P2!server_thread(p) PROVE Inv'
  <2>1. \/ Bind(p) \/ BindFails(p) \/ Accept(p, "recv") \/ Receive(p, {}, FALSE)
        \/ ServerStops(p)
    BY <1>3, SameProjet2 DEF P2!server_thread
  <2>2. CASE Bind(p) \/ Accept(p, "recv")
    BY <2>2, ServerMoves
  <2>3. CASE BindFails(p)
    BY <2>3, EndsOK DEF BindFails
  <2>4. CASE Receive(p, {}, FALSE)
    BY <2>4, ReceiveOK
  <2>5. CASE ServerStops(p)
    BY <2>5, StopsOK
  <2> QED BY <2>1, <2>2, <2>3, <2>4, <2>5
<1>4. ASSUME NEW p \in Procs, Seed(p, {"client"}) \/ Killed(p) \/ Joined(p, {"client", "server"})
      PROVE  Inv'
  BY <1>4, ChildOK
<1>5. ASSUME main \/ \E x \in Procs \cup {Main} : handle_signal(x) PROVE Inv'
  BY <1>5, MainOK DEF main
<1> QED BY <1>1, <1>2, <1>3, <1>4, <1>5, SameProjet2 DEF P2!Next, P2!create_threads

(* of "projet2 copy.c"                                                     *)
LEMMA Projet2CopyOK ==
  ASSUME Inv, UNCHANGED program, program = "projet2 copy", PC!Next
  PROVE  Inv'
<1>1. PC!Procs = Procs
  BY DEF PC!Procs, Procs
<1>2. ASSUME NEW p \in Procs, PC!client_thread(p) PROVE Inv'
  <2>1. \/ ClientTop(p) \/ Connect(p) \/ ConnectFails(p) \/ ClientStops(p)
        \/ ClientWaits(p, send_buffer[p]) \/ SendFails(p) \/ PC!CopiesLocked(p) \/ PC!SendsCopy(p)
    BY <1>2, SameProjet2Copy DEF PC!client_thread, PC!func_client_thread
  <2>2. CASE PC!CopiesLocked(p)
    BY <2>2, ClientMoves
  <2>3. CASE PC!SendsCopy(p)
    BY <2>3, SendsOK
  <2> QED BY <2>1, <2>2, <2>3, ClientOK
<1>3. ASSUME NEW p \in Procs, PC!server_thread(p) PROVE Inv'
  <2>1. \/ Bind(p) \/ BindFails(p) \/ Accept(p, "recv") \/ Receive(p, {"brain"}, FALSE)
        \/ ServerStops(p)
    BY <1>3, SameProjet2Copy DEF PC!server_thread
  <2>2. CASE Bind(p) \/ Accept(p, "recv")
    BY <2>2, ServerMoves
  <2>3. CASE BindFails(p)
    BY <2>3, EndsOK DEF BindFails
  <2>4. CASE Receive(p, {"brain"}, FALSE)
    BY <2>4, ReceiveOK
  <2>5. CASE ServerStops(p)
    BY <2>5, StopsOK
  <2> QED BY <2>1, <2>2, <2>3, <2>4, <2>5
<1>4. ASSUME NEW p \in Procs, PC!brain_thread(p) PROVE Inv'
  <2>1. \/ BrainWaits(p, recv_buffer[p]) \/ BrainStops(p) \/ BrainCopies(p, {})
    BY <1>4, SameProjet2Copy DEF PC!brain_thread, PC!BrainLocks
  <2>2. CASE BrainWaits(p, recv_buffer[p]) \/ BrainStops(p)
    BY <2>2, BrainMoves
  <2>3. CASE BrainCopies(p, {})
    BY <2>3, CopiesOK
  <2> QED BY <2>1, <2>2, <2>3
<1>5. ASSUME NEW p \in Procs, Seed(p, {}) \/ Killed(p) \/ Joined(p, {"client", "server", "brain"})
      PROVE  Inv'
  BY <1>5, ChildOK
<1>6. ASSUME main \/ \E x \in Procs \cup {Main} : handle_signal(x) PROVE Inv'
  BY <1>6, MainOK DEF main
<1> QED BY <1>1, <1>2, <1>3, <1>4, <1>5, <1>6, SameProjet2Copy DEF PC!Next, PC!create_threads

(* and of projet2_wow.c.                                                   *)
LEMMA Projet2WowOK ==
  ASSUME Inv, UNCHANGED program, program = "projet2_wow", PW!Next
  PROVE  Inv'
<1>1. PW!Procs = Procs
  BY DEF PW!Procs, Procs
<1>2. ASSUME NEW p \in Procs, PW!client_thread(p) PROVE Inv'
  <2>1. \/ ClientTop(p) \/ Connect(p) \/ ConnectFails(p) \/ ClientStops(p)
        \/ ClientWaits(p, send_buffer[p]) \/ ClientSends(p) \/ SendFails(p)
    BY <1>2, SameProjet2Wow DEF PW!client_thread
  <2> QED BY <2>1, ClientOK
<1>3. ASSUME NEW p \in Procs, PW!server_thread(p) PROVE Inv'
  <2>1. \/ Bind(p) \/ BindFails(p) \/ Accept(p, "recv") \/ ServerStops(p)
        \/ PW!ServerWaits(p) \/ PW!ServerLeaves(p)
    BY <1>3, SameProjet2Wow DEF PW!server_thread
  <2>2. CASE Bind(p) \/ Accept(p, "recv") \/ PW!ServerWaits(p)
    BY <2>2, ServerMoves
  <2>3. CASE BindFails(p)
    BY <2>3, EndsOK DEF BindFails
  <2>4. CASE ServerStops(p) \/ PW!ServerLeaves(p)
    BY <2>4, StopsOK
  <2> QED BY <2>1, <2>2, <2>3, <2>4
<1>4. ASSUME NEW p \in Procs, PW!brain_thread(p) PROVE Inv'
  <2>1. \/ BrainWaits(p, FALSE) \/ BrainStops(p)
    BY <1>4, SameProjet2Wow DEF PW!brain_thread
  <2> QED BY <2>1, BrainMoves
<1>5. ASSUME NEW p \in Procs, Seed(p, {"client", "brain"}) \/ Killed(p) \/ Joined(p, {"client", "server", "brain"})
      PROVE  Inv'
  BY <1>5, ChildOK
<1>6. ASSUME main \/ \E x \in Procs \cup {Main} : handle_signal(x) PROVE Inv'
  BY <1>6, MainOK DEF main
<1> QED BY <1>1, <1>2, <1>3, <1>4, <1>5, <1>6, SameProjet2Wow DEF PW!Next, PW!create_threads,
      PW!SeedEither

(* Every program keeps the invariant.                                      *)
LEMMA RunKeepsInv == Inv /\ [Run]_everything => Inv'
<1> SUFFICES ASSUME Inv, [Run]_everything PROVE Inv'
  OBVIOUS
<1>1. CASE Run
  BY <1>1, ProjetOK, ProjetWBrainOK, Projet3OK, Projet2OK, Projet2CopyOK, Projet2WowOK DEF Run
<1>2. CASE UNCHANGED everything
  BY <1>2 DEF everything, vars, life, buffers, Inv, Typed, Queues, QueueOK, Calm, Up, Loops,
     TextOK,
     Seeded, Somewhere, Nowhere, InSend, InRecv, OnWay
<1> QED BY <1>1, <1>2

(* Each program begins with no text and nobody forked.                     *)
LEMMA StartsInv == Starts => Inv
<1> SUFFICES ASSUME Starts PROVE Inv
  OBVIOUS
<1>1. /\ Pc0 \in [Procs -> Calls] /\ Pc0[2].main = "join" /\ Pc0[1].main = "seed"
      /\ \A q \in Procs : Pc0[q].server = "bind" /\ Pc0[q].client = "top" /\ Pc0[q].brain = "lock"
  BY DEF Pc0, Procs, Calls
<1>2. /\ pc = Pc0 /\ <<>> \in Seq(Contents) /\ conns = [p \in Procs |-> <<>>]
      /\ send_buffer = [p \in Procs |-> FALSE] /\ recv_buffer = [p \in Procs |-> FALSE]
      /\ state \in [Procs \cup {Main} -> {"none", "runs", "waits", "failed", "ended"}]
      /\ stop \in [Procs \cup {Main} -> BOOLEAN] /\ killed = {}
  <2>1. Init
    BY DEF Starts
  <2>2. state \in [Procs \cup {Main} -> {"none", "runs", "waits", "failed", "ended"}]
    BY <2>1 DEF Init
  <2>3. stop \in [Procs \cup {Main} -> BOOLEAN]
    BY <2>1 DEF Init
  <2>4. <<>> \in Seq(Contents)
    OBVIOUS
  <2> QED BY <2>1, <2>2, <2>3, <2>4 DEF Init
<1>3. Typed
  BY <1>1, <1>2 DEF Typed
<1>4. ASSUME NEW q \in Procs
      PROVE  QueueOK(pc[q], conns[q]) /\ Loops(pc[q], conns[q]) /\ NoText(conns[q])
  <2>1. conns[q] = <<>> /\ pc[q] = Pc0[q] /\ 1 .. 0 = {}
    BY <1>2
  <2>2. Len(<<>>) = 0 /\ 0 - 0 <= Backlog
    OBVIOUS
  <2>3. Pc0[q].server \notin Using
    BY <1>1 DEF Using
  <2>4. QueueOK(pc[q], conns[q])
    BY <2>1, <2>2, <2>3 DEF QueueOK
  <2>5. Loops(pc[q], conns[q]) /\ NoText(conns[q])
    BY <1>1, <2>1, <2>2 DEF Loops, NoText
  <2> QED BY <2>4, <2>5
<1>5. TextOK
  BY <1>1, <1>2, <1>4, Two DEF TextOK, Seeded, Nowhere
<1> QED BY <1>1, <1>2, <1>3, <1>4, <1>5 DEF Inv, Queues

(* What the invariant says of the one text.                                *)
LEMMA InvTells == Inv => OneTextOnly
<1> SUFFICES ASSUME Inv PROVE OneTextOnly
  OBVIOUS
<1>1. TypeOK
  <2>1. ASSUME NEW p \in Procs
        PROVE  /\ pc[p].client \in {"top", "connect", "lock", "wait", "done"}
               /\ pc[p].server \in {"bind", "accept", "recv", "wait", "leave", "out", "done"}
               /\ pc[p].brain \in {"lock", "wait", "done"} /\ pc[p].main \in {"seed", "join"}
    BY OfEach DEF Inv, Calls
  <2>2. ASSUME NEW p \in Procs
        PROVE  /\ Queued(p) <= Backlog
               /\ \A i \in DOMAIN conns[p] : conns[p][i] \in {"yet", "text", "end"}
    <3>1. QueueOK(pc[p], conns[p]) /\ conns[p] \in Seq(Contents)
      BY OfEach DEF Inv, Queues
    <3>2. \A i \in DOMAIN conns[p] : conns[p][i] \in Contents
      BY <3>1, LenProperties
    <3> QED BY <3>1, <3>2 DEF QueueOK, Queued, Using, Contents
  <2> QED BY <2>1, <2>2 DEF TypeOK, Inv, Typed
<1>2. ASSUME program # "projet2 copy", Undisturbed, Seeded, NEW p \in Procs,
             InSend(p) \/ InRecv(p) \/ OnWay(p)
      PROVE  OneText
  <2>1. \A q \in Procs : DOMAIN conns[q] = 1 .. Len(conns[q])
    BY OfEach, LenProperties DEF Inv
  <2>2. \A q \in Procs : NoText(conns[q]) => Texts(q) = {}
    BY <2>1 DEF NoText, Texts
  <2>3. CASE InSend(p)
    BY <1>2, <2>2, <2>3, Two DEF InSend, OneText
  <2>4. CASE InRecv(p)
    BY <1>2, <2>2, <2>4, Two DEF InRecv, OneText
  <2>5. CASE OnWay(p)
    <3>1. PICK i \in 1 .. Len(conns[p]) :
            conns[p][i] = "text" /\ \A j \in 1 .. Len(conns[p]) : conns[p][j] = "text" => j = i
      BY <2>5 DEF OnWay, OneIn
    <3>2. i \in DOMAIN conns[p] /\ Texts(p) = {i}
      BY <2>1, <3>1 DEF Texts
    <3>3. Texts(Peer(p)) = {}
      BY <2>2, <2>5, Two DEF OnWay
    <3> QED BY <1>2, <2>5, <3>2, <3>3 DEF OnWay, OneText
  <2> QED BY <1>2, <2>3, <2>4, <2>5
<1>3. program # "projet2 copy" => OneText
  <2>1. Undisturbed => Calm
    BY DEF Undisturbed, Calm
  <2>2. Calm /\ program # "projet2 copy" => (Seeded => Somewhere)
    BY DEF Inv, TextOK
  <2>3. ~(Undisturbed /\ Seeded) => OneText
    BY DEF OneText
  <2> QED BY <1>2, <2>1, <2>2, <2>3 DEF Somewhere
<1> QED BY <1>1, <1>3 DEF OneTextOnly

(* As long as nobody ends, the one text of the system is in one place,     *)
(* neither lost nor doubled by the hand-overs nor overwritten, in every    *)
(* program but "projet2 copy.c"; for any Backlog.                          *)
THEOREM TextCorrect == Spec => []OneTextOnly
<1>1. Starts => Inv
  BY StartsInv
<1>2. Inv /\ [Run]_everything => Inv'
  BY RunKeepsInv
<1>3. Inv => OneTextOnly
  BY InvTells
<1> QED BY <1>1, <1>2, <1>3, PTL DEF Spec
=============================================================================
