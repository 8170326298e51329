----------------------------- MODULE UnixRelays ------------------------------
(***************************************************************************)
(* The relays over Unix sockets side by side: projet.c, projet_w_brain.c,  *)
(* projet3.c, projet2.c, "projet2 copy.c" and projet2_wow.c.  One of them  *)
(* is run.                                                                 *)
(***************************************************************************)
EXTENDS UnixRelay

VARIABLE program   \* the one that is run

P1 == INSTANCE Projet
PB == INSTANCE ProjetWBrain
P3 == INSTANCE Projet3
P2 == INSTANCE Projet2
PC == INSTANCE Projet2Copy
PW == INSTANCE Projet2Wow

Client(p) == \/ program = "projet" /\ P1!client_thread(p)
             \/ program = "projet_w_brain" /\ PB!client_thread(p)
             \/ program = "projet3" /\ P3!client_thread(p)
             \/ program = "projet2" /\ P2!client_thread(p)
             \/ program = "projet2 copy" /\ PC!client_thread(p)
             \/ program = "projet2_wow" /\ PW!client_thread(p)
Server(p) == \/ program = "projet" /\ P1!server_thread(p)
             \/ program = "projet_w_brain" /\ PB!server_thread(p)
             \/ program = "projet3" /\ P3!server_thread(p)
             \/ program = "projet2" /\ P2!server_thread(p)
             \/ program = "projet2 copy" /\ PC!server_thread(p)
             \/ program = "projet2_wow" /\ PW!server_thread(p)
Brain(p) == \/ program = "projet" /\ P1!BrainLocks(p)
            \/ program = "projet3" /\ P3!brain_thread(p)
            \/ program = "projet2 copy" /\ PC!BrainLocks(p)
            \/ program = "projet2_wow" /\ PW!brain_thread(p)
ChildMain(p) ==
  \/ program \in {"projet", "projet_w_brain", "projet3", "projet2"} /\ Seed(p, {"client"})
  \/ program = "projet2 copy" /\ Seed(p, {})
  \/ program = "projet2_wow" /\ PW!SeedEither(p)

Starts == Init /\ program \in {"projet", "projet_w_brain", "projet3", "projet2",
                               "projet2 copy", "projet2_wow"}

Run == /\ \/ program = "projet" /\ P1!Next
          \/ program = "projet_w_brain" /\ PB!Next
          \/ program = "projet3" /\ P3!Next
          \/ program = "projet2" /\ P2!Next
          \/ program = "projet2 copy" /\ PC!Next
          \/ program = "projet2_wow" /\ PW!Next
       /\ UNCHANGED program

everything == <<vars, program>>

(* Every thread that can go on does, and a signal sent arrives; nobody has *)
(* to interrupt.  (What a brain does before it takes a mutex, it need not  *)
(* do.)                                                                    *)
Spec == /\ Starts /\ [][Run]_everything /\ WF_vars(main)
        /\ \A p \in Procs : /\ WF_vars(Client(p)) /\ WF_vars(Server(p)) /\ WF_vars(Brain(p))
                            /\ WF_vars(ChildMain(p)) /\ WF_vars(Killed(p))

(* Bound of the run: in the two largest at most one process is interrupted.*)
Interrupted == {x \in Procs \cup {Main} : stop[x]}
OneInterrupt == program \in {"projet2 copy", "projet2_wow"}
                  => \A x, y \in Interrupted : x = y

-----------------------------------------------------------------------------
(* Properties *)

(* Whatever the hand-overs, as long as nobody ends, the one text of the    *)
(* system is in one place: neither lost nor doubled nor overwritten.  Only *)
(* "projet2 copy.c" doubles it.  And no queue of connections is longer     *)
(* than Backlog allows.                                                    *)
OneTextOnly == TypeOK /\ (program # "projet2 copy" => OneText)

(* projet.c: left alone, the text goes round for ever, unless a server is  *)
(* back in recv, with the mutex, before its brain has taken the text: then *)
(* the brain waits for the mutex, and the server for a text that is not    *)
(* sent.                                                                   *)
ServerFirst == \E p \in Procs : recv_buffer[p] /\ pc[p].server = "recv"
RelaysOrServerFirst ==
  <>[](Undisturbed /\ program = "projet")
    => (\A p \in Procs : []<><<P1!ClientSends(p)>>_vars) \/ <>[]ServerFirst

(* projet_w_brain.c: left alone, the text goes round for ever, whatever    *)
(* the order of the threads: no server waits with a mutex that its client  *)
(* needs.                                                                  *)
Relays == <>[](Undisturbed /\ program = "projet_w_brain")
            => \A p \in Procs : []<><<PB!ClientSends(p)>>_vars

(* Of the six only these two relay for ever, and only the one whose server *)
(* waits in recv without a mutex does so always.                           *)
GoesRound == RelaysOrServerFirst /\ Relays

(* projet.c: a process told to stop ends, or its server waits for its      *)
(* peer, for ever: that its client or its brain hangs cannot keep it.      *)
StopWaitsForPeer ==
  \A p \in Procs : <>[](program = "projet" /\ stop[p] /\ Up(p)) => <>[]Waits(p)

(* In every program, interrupting main ends every process and then main,   *)
(* whatever the threads wait for.                                          *)
InterruptEnds == []<>(stop[Main] => state[Main] = "ended")

(* projet3.c: left alone, the text makes one hop and stays where no thread *)
(* looks for it: every client and every brain waits, for ever.             *)
DiesAfterOneHop ==
  <>[](Undisturbed /\ program = "projet3") =>
    <>[](recv_buffer[2] /\ \A p \in Procs : pc[p].client = "wait" /\ pc[p].brain = "wait")

(* projet2.c: left alone, the text makes one hop and stays: then every     *)
(* client waits and every server is in recv, for ever.                     *)
StopsAfterOneHop ==
  <>[](Undisturbed /\ program = "projet2") =>
    <>[](recv_buffer[2] /\ \A p \in Procs : pc[p].client = "wait" /\ pc[p].server = "recv")

(* projet2_wow.c: left alone, the first text is sent once, and never       *)
(* received, or the signal of main that it is there went to the brain and  *)
(* the client waits with its buffer full, and nobody signals again.        *)
Missed == send_buffer[1] /\ pc[1].client = "wait"
SentOnceOrMissed ==
  <>[](Undisturbed /\ program = "projet2_wow") =>
    \/ <>[]Missed
    \/ <>[](~send_buffer[1] /\ Texts(2) # {} /\ \A p \in Procs : pc[p].client = "wait")

(* In none of the three a text is relayed: one hop, and all wait.          *)
OneHopAtMost == DiesAfterOneHop /\ StopsAfterOneHop /\ SentOnceOrMissed

(* "projet2 copy.c": left alone, a client sends its text again and again,  *)
(* or hangs on its copies for ever: the buffer of process 1 is full from   *)
(* its first text on and stays so, sent or not.                            *)
RepeatsOrHangs ==
  \A p \in Procs : <>[](Undisturbed /\ program = "projet2 copy") =>
    []<><<PC!SendsCopy(p)>>_vars \/ <>[](pc[p].client = "wait" /\ send_buffer[1])
=============================================================================
