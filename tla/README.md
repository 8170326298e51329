# prog_concurente in TLA+

The repository is a collection of C programs about processes, threads,
semaphores, condition variables, pipes, sockets and signals: the exercises of a
course (`TP1.c`, `TP2.c`, `TP3.c`, `TP6_*.c`, `prodcons.c`, `test.c`) and the
successive versions of its project, in which processes pass a text around, each
appending its number, while an observer logs what every process does.
`multi2.c` is the last and most complete version of the project, `prodcons.c`
the most complete exercise. Each `.c` file is a program of its own; none calls
another.

Contents: [Inventory](#inventory), [Plan](#plan), [Modules](#modules),
[Runs](#runs), [Findings](#findings), [Proofs](#proofs),
[Not modelled](#not-modelled).

## Inventory

### A. The relay of `multi2.c`

| part | state | operations | talks to |
|---|---|---|---|
| `main` | `pids`, `ports`, the semaphores' initial counts | fork, waitpid, destroy | children by fork, SIGINT/SIGUSR1 |
| `thread_server` (one per process) | `sockfd`, `newsockfd`, `bufferServBrain` | bind, listen, accept, recv, close | clients of other processes by TCP, brain by `receive_*` |
| `thread_brain` | `bufferClient` | strcpy, sprintf | server by `receive_*`, client by `sending_*`, tracker by `tracker_*` |
| `thread_client` | local `sockfd`, `bufferBrainClient` | connect, send, memset, close | brain by `sending_*`, servers of other processes by TCP |
| `thread_tracker` | `bufferBrainTracker` | write | brain by `tracker_*`, observer by the pipe |
| observer | `log.txt` | read, fwrite | trackers by the pipe |

All of these are globals of one program, but after `fork` every process has its
own copy, so that threads share memory within a process only, and processes
meet in connections, the pipe and signals. The same holds of every version of
the project.

Hard behaviours: `sending_plein` is posted before the text is written and again
after it; `bufferBrainClient` is written once without the mutex its reader
holds; a `break` leaves the server's inner loop with a mutex and a token; a
client that is refused has already spent the token of its text; the return
value of `pthread_create` is ignored; a bind that fails ends a process whose
client may be in the middle of a send; the queue of a server that no longer
reads fills up; handlers are inherited with a copy of `pids`.

What makes it correct: server and brain never use `bufferServBrain` together;
every path through the client gives its mutex back; a text is stamped by a
process once, only with texts another process has sent; a first text is
relayed and reaches the observer; the relay ends; whoever interrupts it, no
process is left behind.

### B. The producer and consumer of `prodcons.c`

A buffer of `N` cells kept as a shift register (the count in cell 0), one
producer (the main thread) and one consumer, semaphores `plein`, `vide`,
`mutex`. Hard: the buffer is moved cell by cell, the index of an insertion is
`N - count`, everything shared is freed at the end. Correct: the semaphores
count the cells, characters arrive in order, once, none lost, and nothing is
freed that is in use.

### C. Relays over connections that stay open

| file | processes | beside server, brain, client | a refused connect | signals |
|---|---|---|---|---|
| `abracadabra.c` | 2 | | retried | SIGINT, SIGUSR1 |
| `brique.c` | 2 | tracker that prints | retried | SIGINT, SIGUSR1 |
| `working.c` | 2 | | retried | SIGINT: exits at once |
| `testtest.c` | 2 | | ends the process | none |
| `pipeProjet.c` | 2 | tracker, pipe, observer | retried | SIGINT, SIGUSR1 |
| `PIPEETTHREADS.c` | any number, in a chain | tracker, pipe, observer | retried | SIGINT, SIGUSR1 |
| `fifotube.c` | 2 | tracker, named pipe, observer | retried | SIGINT, SIGUSR1 |

Each client makes one connection, each server accepts one, for ever. State: the
semaphores and buffers of every process, the streams between them, the pipe.
Hard: `recv` stores into a buffer that was not cleared and without a NUL; end of
file is treated as a text; texts run together in the stream; every text is
announced twice, so that there are more and more until streams fill and `send`
blocks with a mutex; a peer's death shows only in the second `send`; a pipe
without reader. In `PIPEETTHREADS.c` nobody listens where the starter connects;
in `fifotube.c` brain and tracker wait on the same semaphore, and the directory
entry of the pipe is made, opened and removed by different processes. Correct:
what is relayed is what was sent; the exchange stops only for a stated reason;
an interrupt ends everybody.

### D. Variants with several targets

- `multi.c`: client and server of a process both assign the global `sockfd`, and
  two of the three processes serve the same port.
- `gVersion2.c`: an array of semaphores and buffers per process, client and
  tracker on the same semaphore, a target that may be the process itself, and a
  brain that copies its own last text over the one it has received.

### E. Relays with condition variables

`projet.c`, `projet2.c`, `projet2 copy.c`, `projet2_wow.c`, `projet3.c`,
`projet_w_brain.c`: two processes over Unix sockets; threads wait on condition
variables; a handler sets `stop`. Hard: mutexes are held across `recv`; after
fork the signal goes to a variable no thread of this process waits on; one
`pthread_cond_signal` for two kinds of waiters; variables passed by value; the
stop flag is looked at only outside the wait. Correct: the one text is in one
place; it goes round; a process told to stop ends.

### F. Turn counters

`tp_project.c` (and, with signals, `test_tp.c`): server, brain and client are
three threads of one process that share two turn counters, which the brain sets
to 0 between its two halves while the others loop on them.

### G. The other exercises

`TP1.c` (shift register in System V shared memory between two processes),
`TP2.c` (ring buffer between two threads), `test.c` (a stack with three
producers and three consumers), `TP3.c` (a handshake of signals),
`TP6_server.c` and `TP6_client.c` (one message and its answer over a Unix
socket), `projetcopy.c` (a loop of forks, no state).

## Plan

Done, the most important behaviour first:

1. `Texts`, `Multi2` with its abstract specification `HopTrace` and its proofs.
2. `ProdCons` with its abstract specification `BoundedChannel` and its proofs.
3. `Shutdown`, the rest of `multi2.c`, and its proofs.
4. Family C: `StreamRelay`, the steps that seven programs share, with the
   abstract specification `RelayFlow`; a module per program puts its own
   together; `StreamRelays` and `PipeRelays` compose them for the runs.
5. Family D: `ProcessArrays`, `SharedSocket`, composed in `SocketRelays`.
6. Family E: `UnixRelay`, a module per program, composed in `UnixRelays`.
7. Families F and G: `RingBuffer`, `ShmShift` (both against `BoundedChannel`),
   `SharedTurns`, `SignalHandshake`, `EchoSocket`, composed with `ProdCons` in
   `Exercises`.
8. A proof module for each composition that a run checks, with the inductive
   invariants of its programs: `Multi2_proofs`, `Shutdown_proofs`,
   `StreamRelay_proofs` with `StreamRelays_proofs` and `PipeRelays_proofs` on it,
   `UnixRelays_proofs`, `SocketRelays_proofs`, `Exercises_proofs`.

Every safety property of a passing run, invariant or action property, is stated by
a theorem of the very specification the run checks. What a further proof could
add: that `FifoTube` and `PipeThreads` are relay flows of their own kind (an
abstract specification of a relay that loses texts to the observer), and that
`EchoSocket` implements a one-place service.

## Modules

How long a step is, everywhere: only what another thread or process can tell
apart is a step of its own. A `sem_post` never blocks and only enables others,
and a `sem_wait` followed by accesses to what it protects commutes with what
the others do in between, so consecutive waits, the accesses they protect and
the posts that follow are one action. The mutex of an access that lies inside
one action is a guard. The exceptions are accesses not protected, which have a
beginning and an end, and mutexes kept across a call that blocks, which are
held for as long as the thread is before that call. Sleeps are left out: they
bound nothing. Variables have the names of the C globals and are functions of
the process.

### Texts

A text is a record: how much of "bonjour" is left (`head`) and the process
numbers that follow it (`hops`). `Stamp` is `sprintf("%s%d")`. `Cuts` are the
strings that may be left when `memset` and `sprintf` run over the same bytes at
the same time: the string ends at the first byte that was cleared last. Empty
strings matter, since `send` of nothing sends nothing; so does "cut anywhere".

### Multi2

`src/multi2.c` from `main`'s initialisation of the semaphores to the four
threads. Each thread has a place:

| thread | places | code between them |
|---|---|---|
| `server` | `start`, `accept`, `take`, `recv` | bind and listen; accept; two `sem_wait`s and `memset`; `recv` with its three outcomes |
| `brain` | `seed`, `take`, `compose`, `rewrite`, `track` | the greeting; two `sem_wait`s, strcpy, the beginning of the first `sprintf`; its end and the posts; the second writing; the text of the tracker |
| `client` | `take`, `connect`, `send`, `clear`, `close` | two `sem_wait`s and the draw; connect; `send`; `memset`; `close` and the posts |
| tracker | one | `sem_wait`s, `write`, posts |

A connection is what its one sender has sent and not yet been read (`data`)
and whether the sender still has it open. `conns[q]` has all the connections
ever made to `q`; the first `accepted[q]` of them have been accepted.

What is chosen freely: the target (the program never calls `srand`, but the
choice should not matter), whether `bind` fails for a process in `Unbindable`,
whether a process has a tracker (`Tracked`). A connect fails when nobody
listens, or when the queue stays full until it times out. Messages of at most
a few dozen bytes are sent and received whole, as one connection carries one.

### HopTrace

What a relay promises, with no thread or socket in it: per process the text it
has stamped, and the sequence handed to the observer. `Multi2` implements it
under the mapping `text[p]` = the stamp of `bufferClient[p]` (empty while that
is), `trace` = `pipe`.

### Shutdown

How the processes of `src/multi2.c` begin and end; with `Multi2`, the whole of
that program. `Multi2` has what happens inside the relaying processes, of which
`Shutdown` keeps that they may write on the pipe and may fail. `state[x]` is
where process `x` is in `main`, in `create_observer_process` or in
`signal_handler`, which every child inherits; `turn[x]` the `i` of its loop;
`pids[x]` the indices at which its copy of the array `pids` holds a pid (the
array is copied by `fork`, 0 elsewhere). The assignment of what `fork` returns
is a step of its own (`Record`). `waitpid(0)` waits for any child. The loop of
`kill` is one step: nothing in it blocks and a signal only takes effect when
its target takes it (`Killed`, `Interrupted`). A fork does not begin while a
signal is pending, as in Linux. The pipe is the number of texts on it; a read
takes some or all. Interrupts come to one process or to all at any moment.

### ProdCons and BoundedChannel

`src/prodcons.c`. The write of the cell and the increment of the count in
`addElement`, and every turn of the loop of `getElement`, are steps of their
own. `main` compares the result of `pthread_create` with -1, which it never is,
so that the consumer may be absent. `MainLibere` is the join with everything
after it. `BoundedChannel` is a FIFO of at most `N` characters; `ProdCons`
implements it: the character at place *i* of the queue is in cell `N+1-i`, or
one below while `getElement` has yet to move it (`Place`).

### StreamRelay, RelayFlow and the programs of family C

`StreamRelay` has the steps that the threads of the seven files share, with
`main` and the signals. A text is a unit: `wire[p]` counts those that `p` has
sent and nobody received, `recv` takes any number that are there, and the end
of a stream is a reception that takes nothing. `sending_vide` and
`tracker_vide` are left out, since nobody waits for them. `sem_post` fails at
`SemMax` and nobody looks at it: since every hop announces twice what it
receives once, this limit is reached. `Send` blocks at `Stream` texts, holding
`sending_mutex`; the first send to a peer that has ended is lost, the second
raises SIGPIPE (`SendFails`). `To[p]` is where the client of `p` connects.

Each program's module says which of these steps its threads take:

- `Abracadabra`: no tracker; handler and cleanup in every process.
- `Brique`: a tracker that posts the semaphore it waits on.
- `Working`: an interrupted process just exits, main as well.
- `Testtest`: a refused connect ends the process (`ConnectFails`); no handler.
- `PipeObserver`: what the next two share, pipe and observer. Main and the
  relaying processes keep the read end, so that `write` never fails.
- `PipeProjet`: the two processes with it.
- `PipeThreads` (`PIPEETTHREADS.c`): a chain, `To[p] = p - 1`, and a server
  that holds no lock in `recv` and then hands over (`RecvClear`, `HandOver`).
- `FifoTube`: a tracker on the brain's own semaphore; the directory entry
  `name`, opens that wait for the other side (`tube`), and a removal by whoever
  is interrupted (`Unlink`).

`RelayFlow` is what two processes promise whatever their threads do: a
reception owes the peer two texts, what is owed is sent, and nothing is lost
between two that live.

`StreamRelays` and `PipeRelays` put these programs side by side. A variable
`program`, chosen in the initial state, says which is run; the steps of the
others are disabled. Thus one run checks each property on every program it is
about, and a property that is about one names it.

### ProcessArrays, SharedSocket, SocketRelays

`ProcessArrays` is `gVersion2.c`: `target_pid` is drawn among all processes,
`backlog[q]` holds the connections to `q`, each with what was sent on it, and of
a text the model keeps whether it begins with the greeting, since the question
is whether that text survives. `late` is a history variable, which no step
reads but to write it: whether the greeting was among the texts that came while
the brain was at work (`AtWork`: between the text, or the end of a connection,
that it took and its last copy), and whether it was the last of them.
`SharedSocket` is `multi.c`: `sockfd[p]` names
the thread whose socket the variable holds, `sock[p][t]` what became of the
socket that thread `t` made, and each of `bind`, `listen`, `accept`, `connect`
and `send` acts on the socket of the variable at that moment (`Fd`), in whatever
state it finds it (`Meets`). Brain and slot of a process are the counter `due`.
`SocketRelays` composes the two like the others, with `program`.

### UnixRelay, the programs of family E, UnixRelays

The client connects before it waits for a text, the server receives one text
per connection. A buffer is full or not. A mutex that is never held across a
call that blocks is left out; that of the receive buffer, which a server keeps
through `recv`, is held while `pc[p].server = "recv"`, where anybody else takes
it (`projet.c`, `projet2 copy.c`). `Goto` moves a thread and wakes one that waits on the condition
variable it signals: which one is chosen freely. Each program's module says who
waits and who signals: in `Projet` the hand-over as intended; in `ProjetWBrain`
without brain; in `Projet3` a server that fills what another process looks at;
in `Projet2` no brain is started; in `Projet2Copy` a client that works on copies
(`SendsCopy`, `CopiesLocked`); in `Projet2Wow` a server that waits for a text
instead of receiving it, and a main whose one signal may go to the client or to
the brain (`SeedEither`).

### RingBuffer, ShmShift, SharedTurns, SignalHandshake, EchoSocket, Exercises

- `RingBuffer` (`TP2.c`): the semaphores are posted before the turns are
  counted, so that the indices lag. It implements `BoundedChannel`.
- `ShmShift` (`TP1.c`): the register and the semaphores belong to the system and
  outlive the processes; a fork may fail, somebody may kill the child after any
  of its steps, each of which leaves its own effect behind: the free cell taken,
  the mutex, the cell written, the count, the mutex given back. It implements `BoundedChannel`.
- `SharedTurns` (`tp_project.c`): three threads; every `++` of a shared counter
  is a load and a store, and the reset is a store of its own.
- `SignalHandshake` (`TP3.c`): every signal is pending until it is taken; its own
  handler blocks it; whether another interrupts is not known (`sa_mask` is not
  initialised) and so chosen freely; the cases fall through (`Case`).
- `EchoSocket` (`TP6_*.c`): one server, several clients, kills and restarts, the
  file that outlives the server.
- `Exercises` composes these with `ProdCons`, with `program`.

### MCMulti2, MCExercises

Constants, state constraints and an initial state for the runs.

## Runs

| run | module, config | checks |
|---|---|---|
| `multi2_two` | `MCMulti2`, `Multi2_two.cfg` | `TypeOK Exclusion AtMostOneText` |
| `multi2_three` | `MCMulti2`, `Multi2_three.cfg` | `RaceOnlyAtStarter LogTells IsHopTrace` |
| `multi2_live` | `MCMulti2`, `Multi2_live.cfg` | `FirstTextIsTracked RelayEnds` |
| `multi2_retry` | `MCMulti2`, `Multi2_retry.cfg` | `RetriesConnection` (violated, see Findings) |
| `shutdown` | `Shutdown`, `Shutdown.cfg` | `NobodyLeft LogComplete EndsEverywhere` |
| `shutdown_exit` | `Shutdown`, `Shutdown_exit.cfg` | `HandlerExits` (violated, see Findings) |
| `stream_relays` | `StreamRelays`, `StreamRelays.cfg` | `RelayOK IsRelayFlow InterruptEnds GoesOn PeerDeathEnds StartsOrStops` |
| `pipe_flow` | `PipeRelays`, `PipeRelays_flow.cfg` | `StuckOnlyWhenFull NothingWithoutDeath SilencedByTracker` |
| `pipe_live` | `PipeRelays`, `PipeRelays_live.cfg` | `NoObserverStops InterruptEnds EndIsRelayed TubeOpens` |
| `unix_relays` | `UnixRelays`, `UnixRelays.cfg` | `OneTextOnly GoesRound StopWaitsForPeer InterruptEnds OneHopAtMost RepeatsOrHangs` |
| `socket_relays` | `SocketRelays`, `SocketRelays.cfg` | `RelayNeedsTwo DuplexOnlyServerFirst RelayStops` |
| `exercises` | `MCExercises`, `Exercises.cfg` | `Counts FreedWhenDelivered AreChannels MessagesArrive ArrivesUnlessRaced HandshakeEnds OneService` |

### What they show

**`multi2.c`.** Each process stamps at most one text in its life, although its
loops are endless. The first connection that is closed takes the token of the
receive slot with it, so the server never reads again (`AtMostOneText`), and
after at most one stamp per process every thread waits for ever (`RelayEnds`);
by then the first text has been relayed and logged (`FirstTextIsTracked`). The
greeting may come back to the starter, and only there may the brain write the
text while the client clears it (`RaceOnlyAtStarter`): what is then sent may be
cut anywhere, so that a log line can begin with a damaged "bonjour"; such a
line never holds the number of the starter, and none holds a number twice
(`LogTells`). Whatever is interrupted, or dies, main ends only after every
child it has forked (`NobodyLeft`), unless a fork failed; an interrupt of all, or
of main outside the moment of the second finding, ends every process
(`EndsEverywhere`); an observer at the end of the pipe has logged everything
(`LogComplete`).

**Family C.** The four plain programs are a relay flow (`IsRelayFlow`): nothing
is lost between living processes, until a semaphore is at its limit. They go on
for ever unless both streams are full (`GoesOn`): then each process waits in
`send` with the mutex its brain needs. In `pipeProjet.c` the pipe is a third
reason (`StuckOnlyWhenFull`), and without an observer the relay always stops
(`NoObserverStops`, which also says that what `Blocked` lists is all that can keep
a thread: it is the negation of `ENABLED`). In `working.c` a death spreads by the stale text that is
relayed again (`PeerDeathEnds`); `testtest.c` starts or comes to rest
(`StartsOrStops`). `PIPEETTHREADS.c` relays nothing but the ends of streams of
processes that have died (`NothingWithoutDeath`, `EndIsRelayed`). `fifotube.c`
relays until a tracker takes the last text, and then never again
(`SilencedByTracker`); its opens do not wait for nobody, but for an entry
removed under them (`TubeOpens`). An interrupted main never stays in its
handler, outside of the moment between fork and assignment (`InterruptEnds`).

**Family D.** In `gVersion2.c` a text that comes while the brain is idle is
overwritten by the process's own last text. A process other than 0 has the
greeting to send only if it came while the brain was at work on an earlier text,
or on the end of a connection, which is handed over like one; and when the brain
has finished, the greeting is there just when it was the last text to come so
(`RelayNeedsTwo`). Between living processes the last text is lost to a tracker
that takes the client's token or to a connect that comes too early
(`OnlyTheseSilence`); and if they stand still with texts left, it is in a ring
of connects to full queues, each with the mutex that its own brain waits for
(`StandsInRing`). The two together are `RelayStops`. In `multi.c` a process can both receive and send
only if its server called `accept` before its client made its socket
(`DuplexOnlyServerFirst`).

**Family E.** Two of the six programs relay for ever, and only the one whose
server waits without a mutex does so always (`GoesRound`); in three nothing is
relayed (`OneHopAtMost`); one sends its text again and again, or hangs
(`RepeatsOrHangs`). A process of `projet.c` told to stop may wait for its peer,
for ever (`StopWaitsForPeer`), but an interrupt of main ends everything in all
six (`InterruptEnds`).

**Families B, F and G.** The three buffers are bounded FIFO channels
(`AreChannels`) and deliver the message (`MessagesArrive`), whatever the
interleaving; in `TP1.c`, a killed child may leave its parent, the memory and
the semaphores behind. `tp_project.c` delivers unless its reset of the turns
meets a thread that has not seen its end (`ArrivesUnlessRaced`). In `TP3.c` both
processes end, always, but the father is killed by what the son's handler sends
after its answer (`HandshakeEnds`). `TP6_server.c` serves once in the life of its
file, and the death of one client ends it for all (`OneService`).

### Bounds

*`Multi2`.* Two processes are enough for every interplay of the threads of one
process and of a client with a server: a process only meets others through
connections. The third is needed for a text that is torn in the starter on its
second visit and goes on; `MaxConns` = 3 connections in all are as many as that
takes, and `ZeroFirst` leaves out the mirror images in which process 1 takes the
part of process 0. `multi2_three` starts with all servers listening, as refusals
are in `multi2_two`. `Backlog` = 0 lets Linux queue one connection, which two
processes fill; 5 is the code's value, never full in the other runs. The relay
of two processes is finite without a bound.

*`Shutdown`.* Two relaying processes, main and observer: a child with an elder
sibling and one without. That nobody is left is proved for every number. Two
texts (`MaxWrites`) allow a read of the first one only.

*`StreamRelays`.* The two processes of the code. One text fills a stream and two
a semaphore: more only postpone the moment at which they are full. `Quiet`
leaves out interrupts of main in `brique.c` after a tracker was told a text,
whose tracker then runs for ever without touching anything else.

*`PipeRelays`.* A stream, a pipe and a semaphore hold one text each. The chain of
`PIPEETTHREADS.c` has three processes in `pipe_flow` (a death above two, one
below), two in `pipe_live`. `Flowing` keeps interrupts and deaths out where the
properties of that run exclude them: `StuckOnlyWhenFull` and `SilencedByTracker`
are about processes that are all connected. `Quieter` cuts what the liveness
properties of `pipe_live` are not about: in `pipeProjet.c` what happens after the
first text, but for a relay without observer; in `fifotube.c` what happens after
the first connect.

*`UnixRelays`.* The two processes of the code. `OneInterrupt`: in the two largest
programs at most one process is interrupted; in the others any number.

*`SocketRelays`.* `multi.c` with its three processes; `Due` = 2 (more sends owed
look the same) and one text per stream. `gVersion2.c` with two processes, as
`num_processes` may be; a target may be either of them, so both a connection to
itself and one to another occur. `Bounded`: two connections at a time, one after the greeting has
come late in some process; with a process dead or told to end, or a pid to
store, the behaviour is followed until that happens. With two connections the run reaches the ring of one process, which
connects to itself; that of two takes four connections, and is left to the proof.

*`Exercises`.* Seven different characters through four cells fill and empty a
buffer more than once. Three characters through two cells in `tp_project.c`,
whose three threads have two rings. Three clients, one more than fits server and
queue.

A constraint cuts the behaviours that leave it. The temporal properties of a
constrained run are therefore about the behaviours inside, which is why each
constraint follows what the program's properties exclude anyway.

Deadlock is not checked: the programs do come to rest (`RelayEnds`,
`StuckOnlyWhenFull`, `OneHopAtMost`) or end, and each run has a property that says
when.

### Fairness

`Multi2`: weak fairness of "some thread takes a step" (`Run`), which any
scheduler gives; no stronger assumption is made, as no step of the relay can be
repeated for ever. A failing bind is not in `Run`. `Shutdown`: weak fairness of
main, of the observer and of the handling of signals in every process; nothing
obliges a relaying process to write, to fail or to be interrupted. The relays of
families C to E and the exercises: weak fairness of every thread of every
process and of the delivery of signals sent, nothing for interrupts, kills or
failures of fork and bind. `SocketRelays` has safety only. Strong fairness is
assumed nowhere: a thread that competes for a mutex which another takes again
and again may starve, and the properties are such that this does not matter, or
name the exception (`brique.c` in `GoesOn`).

Most temporal properties have the form "if from some time on nobody ends, then":
`<>[]Connected => ...`. Processes may be interrupted at any time, and what a
living system must do is asked of behaviours in which it lives on.

## Findings

**A refused client does not try again.** `multi2.c:301` says `continue; // Retry connection`. The client goes back to
`sem_wait(&sending_plein)` with the token that announced its text already
spent, so that it sleeps with the text unsent; nothing tries again. If this
befalls the first connect of the starter (its server, brain and client threads
start before the other processes listen), the relay never begins. The run
`multi2_retry` shows it under fair scheduling.

**The handler may not exit.** `signal_handler` signals the children, waits for
them ("Attendre la terminaison des processus fils", `multi2.c:455`), and exits
("Nettoyage et sortie", `multi2.c:464`). If it interrupts main after `fork` has
returned and before `pids[i]` is assigned, it finds 0 there: the child is not
signalled, and `waitpid(0)` waits for it for ever (`shutdown_exit`). Outside of
this moment, and always with Ctrl-C, which reaches the child as well, every
process ends (`EndsEverywhere`).

Seen while modelling, in the models but without a run of their own:

- "Envoyer SIGUSR1 aux processus fils" (`multi2.c:443`), yet an interrupted child
  signals the siblings forked before it, whose pids it has inherited.
- "Réessayer la connexion" (`gVersion2.c:180`), as in `multi2.c`, does not: the
  token of the text is spent. And the pause "pour s'assurer que les serveurs sont
  prêts" (`gVersion2.c:151`) comes after the clients have been started.
- `TP3.c:18` prints that the father has received SIGUSR2 in the son, since the
  cases of the handler have no `break`.

## Proofs

The proof modules hold for every number of processes, length of streams and
pipes, limit of semaphores, size of buffers, message, backlog and number of
clients that the assumptions below allow, and for every interleaving.

### Multi2_proofs

- `TypeCorrect`: types, and that sockets refer to connections that exist.
- `SlotCorrect` and `SendingMutexCorrect`: `ReceiveSlot` and `SendingMutex`, each
  inductive given the types; `ExclusionCorrect`: both, as the run checks them.
- `RelaysAtMostOnce`: `AtMostOneText`. `ReceiveSlot`
  says there is one token; that it is never used twice needs `Once`: once a
  text has come to the slot, its connection is `Spent` (no data left and
  nobody who could send more on it), and the server can leave that connection
  only through a hang-up, which keeps the token. `Spent` in turn needs
  `FreshConnections`: a client that has yet to send has a connection of its
  own, which holds nothing. The inductive invariant is
  `Inv == TypeOK /\ ReceiveSlot /\ FreshConnections /\ Once`; lemmas say what
  each step does to the data of the connections. `HangupLosesSlot` is a part of
  `Once`.
- `RaceCorrect`: `RaceOnlyAtStarter`. The brain writes `bufferBrainClient` without
  the mutex, so what keeps the client out of it must be the announcements:
  `Announced` says that before its brain has announced the text it received, the
  client of a process sleeps, and that of the starter is at most still at the
  greeting. For the starter this needs that its second text comes later than the
  greeting is sent: before that nothing but empty strings is on its way to any
  brain (`Silent`).
- `ImplementsTrace`: `IsHopTrace`, the refinement. What a brain takes must be
  offered by another process: `OnlyOffers` relates every connection and buffer to
  what the processes offer, the texts that the race has torn included
  (`OffersCorrect`). That no text is reported three times is `Told`: the
  announcements left to the tracker and the reports on the pipe are at most two,
  and what different processes stamp differs in the last number.
- `LogCorrect`: `LogTells`. The numbers of a text are of processes that have
  stamped, each once, and a damaged greeting lacks that of the starter
  (`Ways`, `Tells`): a stamp that is added is new because its process has not
  stamped before, and a torn text is a cut of what the starter stamps while it
  stamps it.

### Shutdown_proofs

`TypeCorrect`; `LogCorrect` (`LogComplete`, from: what was written is logged, read
or on the pipe); `ForkCorrect` (`ForkInv`: what main knows is a prefix of what it
has forked, and at most one child is beyond it); and `NobodyLeftCorrect`
(`NobodyLeft`). For the last one the loops of `waitpid` have returned every
child before `turn` that was ever forked (`WaitInv`); `WaitPidReturns` shows
that this is so even where the loop has 0 in place of the pid, because by then
the only child left is the one not stored.

### Family C

`StreamRelay_proofs` holds one lemma for every step of `StreamRelay`: it
preserves `RelayOK` (types; one token of the slot, and each mutex held by the
thread in the call it belongs to), which is inductive as it stands. A step
changes semaphores and calls of its own process only, so that it is enough to
look at that one (`LocalStep`). It also has `Linking` (who lives and has left
`connect` or `accept` has a connection, whose ends were both forked), which the
flow and the standstill below need.

It then shows, step by step, that a relay of two processes is the abstract flow of
`RelayFlow`: what is due from a process is its `sending_plein` and a text in its
client's hands (`DueOf`), and for each step there is a lemma that says which of the
flow's actions it is; with `Linking`, a `send` that fails has a peer that has ended
(`PeerUp`). A semaphore at its limit is where the flow ends (`Saturated`).
`StepFlows` puts these lemmas together, for every program of two processes.

`StreamRelays_proofs` shows that the steps of `abracadabra.c`, `brique.c`,
`working.c` and `testtest.c` are of these kinds (`Kind`): `RelayCorrect` and
`FlowCorrect`.

`PipeRelays_proofs` is about `PipeRelays` as the runs check it. Each of its three
programs is an instance, with an inductive invariant of its own.

- `pipeProjet.c` (`PipesOK`). `RelayCorrect`: `RelayOK`, and the bounds of the pipe.
  `PipeFlowCorrect`: it implements `RelayFlow` too, whatever becomes of pipe and
  observer; no run lists this refinement, it is the formula `IsRelayFlow` that
  `stream_relays` checks on the other four. `StuckCorrect`: two connected processes
  stop only with both streams or the pipe full. `WhereBlocked` shows that the threads
  of a blocked process wait in a row for its client, which waits for a stream, or
  for its server, which waits for a text: no thread waits for a mutex of one that
  waits for it. Then, as there is always a text somewhere (`TextThere`), both
  streams are full. `BlockedRests`: a blocked process has no step.
- `PIPEETTHREADS.c` (`ChainOK`), whose processes are the chain, of any length.
  `HandOverCorrect`: the slot with a server that holds no lock in `recv`; the
  invariant has `receive_mutex` free in every state. `NothingCorrect`: no text
  without a death above. The invariant `TextsFromAbove` says it of every place where
  a text could be; the greeting of the starter stays with it since nobody listens
  there.
- `fifotube.c` (`SharedOK`). `TubeSlotCorrect`: the slot that brain and tracker
  compete for. `SilencedCorrect`: between connected processes a step of any other
  thread moves a text or leaves it (`TextsMoved`), so only the tracker silences the
  relay; and a relay without text stays so. An action property.

Which program is run does not change (`RunOfOne`), so the composition keeps the
invariant of that one (`AllOK`). `StuckTogether`, `NothingTogether` and
`SilencedTogether` are the three properties of `pipe_flow`, of the specification
that run checks, without its bounds: for any limit of the semaphores, any length
of streams, pipe and chain, whoever is interrupted, killed or dies.

### UnixRelays_proofs

`TextCorrect`: `OneTextOnly`, of six programs and for whichever waiting thread a
signal wakes. While nobody has ended or was told to stop (`Calm`), every thread is
in its loop (`Loops`) and the text is in one buffer or on one connection and
nowhere else (`Somewhere`), or not made yet (`Nowhere`). In `projet2 copy.c`,
which the property leaves out, the client keeps what it sends.

### SocketRelays_proofs

- `DuplexCorrect` (`multi.c`): a socket that listens cannot connect, so that a
  server which waits for a connection while the client has an older socket has
  shut it out (`ServerHasTheSocket`).
- `GreetingCorrect` (`gVersion2.c`): `RelayNeedsTwo`. What came last while the
  brain was at work is in `bufferServBrain` until the brain has finished, and in
  `bufferBrainClient` afterwards (`LateOf`); what comes while it is idle is written
  over by the copy of the process's own last text.
- `SilenceCorrect`: `RelayStops`. Its action property needs that the connection of
  a client that has yet to send is in some queue while nobody has ended
  (`Unsent`): then what it sends is received. For `StandsInRing`, a connection
  without its text is that of a client before its send, which nothing blocks
  (`YetToSend`), so that no server of a system at a standstill is in `recv`: one
  that has a connection waits for its brain, the brain for the mutex, and that is
  the client's, in a connect (`WaitsForClient`). This is for any number of
  processes and any length of the queues.

### Exercises_proofs

- `prodcons.c`: `TypeAndCounts`, `PlacesInBounds`, `StaysInOrder` (every character
  on the way is in the cell its number says, also in the middle of a shift) and
  from these `DeliveredBeforeFreed`. With the same invariant, what is on the way
  and what has arrived are two adjacent parts of the message (`ChannelHolds`), so
  that a step either leaves both, makes the first one longer at its end
  (`PartGrows`) or moves its head over (`PartShrinks`): `ImplementsChannel`.
- `TP2.c`: `RingCorrect`, whose indices lag behind the semaphores: a thread between
  its access and its count has one turn more than its variable says. That no
  character is overwritten rests on `Apart`: two numbers less than `n` apart are in
  different cells of a ring of `n`. `RingImplementsChannel`.
- `TP1.c`: `ShmCorrect` and `ShmImplementsChannel`, whichever step the child is
  killed after: until it has given the mutex back nobody sees what it leaves
  undone, and a character that is counted but not announced by `plein` stays on
  its way for ever. `Held` and `Counted` say how far it had got. `ShmRemovedLast`.
  `ChannelsCorrect` states the three refinements of the composition, `AreChannels`.
- `tp_project.c`: `TurnsCorrect`, for any rings and text. Server and brain count
  `tourProd` with a load and a store each; that it leaves its range by one at most
  needs an account of who has passed its test, has read, or holds an old value
  (`ProdWithin`), and of the client, whose test reads the brain's counter in the
  first half (`ConsWithin`). In each half there are two threads at the ring
  (`Rounds`), in the second only if nobody was about at the reset, and between
  two such threads everything is where its number says (`RingCarries`).
- `TP3.c`: `AnswerKills`. A son past his last case has sent the father SIGTERM
  (`Answered`).
- `TP6_server.c`: `ServiceCorrect` (whoever is connected to a server that is up
  waits, is served or has its answer: `Attended`) and `OnceServed`.

`OthersCorrect` states these last of the composition: they are the conjuncts of
`ArrivesUnlessRaced`, `HandshakeEnds` and `OneService` that do not rest on
fairness.

### What the proofs changed

The proof of `GreetingCorrect` failed at first: a `recv` at the end of a connection
hands over an empty text, which keeps the brain as busy as any other, so that the
greeting may come late behind it. `RelayNeedsTwo` names this case.

`StuckOnlyWhenFull` said of `Blocked` that it is the negation of `ENABLED`, and so
could not be proved. It is now free of `ENABLED`; that equivalence, which nothing
else in the invariant depends on, belongs to `NoObserverStops`. That the
processes of `PIPEETTHREADS.c` are a chain used to be a hypothesis of
`NothingCorrect`; it is now `ChainAssumption`, which has them as
`1 .. Cardinality(Chain)`, the numbers that `main` passes to their threads.

### Assumptions

They are those the modules name, which TLC evaluates on every run:
`NbProcessAssumption` (two processes at least), `ProcessesAssumption`,
`BacklogAssumption`, `OthersAssumption` and `MainAssumption` (main and the observer
are not relaying processes), `MaxWritesAssumption`, `SemMaxAssumption`,
`StreamAssumption` and `PipeMaxAssumption` (there is room for a text),
`ProcsAssumption` and `ToAssumption`, `TwoProcesses` and `ChainAssumption` (the
processes of each program: two, each the client of the other, and a chain numbered
from 1), `NAssumption`, `DueAssumption`, `SizeAssumption`
and `TailleAssumption` (a count in a signed char), `MessageAssumption`,
`TextAssumption`. `SilencedCorrect` holds of a ring of any length and states that;
in the composition, where there are two processes, `SilencedTogether` has no such
hypothesis.

### Only model-checked

- Every temporal property with fairness (`FirstTextIsTracked`, `RelayEnds`,
  `EndsEverywhere`, `InterruptEnds`, `GoesOn`, `PeerDeathEnds`, `StartsOrStops`,
  `NoObserverStops`, `EndIsRelayed`, `TubeOpens`, `GoesRound`, `StopWaitsForPeer`,
  `OneHopAtMost`, `RepeatsOrHangs`, `MessagesArrive` and the fair parts of the three
  properties above): liveness is outside what the prover does.
- That a process which lives and is not blocked has a step, in `pipeProjet.c`: one
  half of the equivalence in `NoObserverStops`, which speaks of `ENABLED`. The other
  half is `BlockedRests`.

## Not modelled

- `gVersion.c` and `proprojet.c` do not compile (undeclared variables; types
  whose headers are not included): they have no behaviour.
- `projetcopy.c` has no state. `test.c` prints what six threads push and pop.
- The handlers of `test_tp.c`, which cancel its threads; the threads are those of
  `tp_project.c`.
- Tracker, pipe, observer and signals of `multi.c`, those of `pipeProjet.c`.
- What the texts of families C to E say, how they grow, and so the overflow of
  buffers of fixed size; what `prodcons.c` makes of its arguments, what any
  program prints.
- Failures of `socket`, `setsockopt`, `accept` and of `recv` other than end of
  file; partial sends; `sleep`.
