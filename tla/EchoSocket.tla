----------------------------- MODULE EchoSocket -----------------------------
(***************************************************************************)
(* TP6_server.c and TP6_client.c: a server on a Unix socket that answers   *)
(* one request of every client in turn, for ever.  Anybody may kill a      *)
(* process and start a server again.  Nothing removes the socket's file,   *)
(* and nobody catches SIGPIPE.                                             *)
(***************************************************************************)
EXTENDS Naturals, Sequences

CONSTANTS
  Clients,   \* the runs of TP6_client
  Backlog    \* connections that wait to be accepted, less one: 5 in the code

Server == {"socket", "listen", "accept", "read", "write", "close"}
None == "none"

VARIABLES
  server,    \* the call the server is before, or "down"
  file,      \* whether /tmp/socketLocale.1 exists
  queue,     \* the connections that wait to be accepted
  newsockfd, \* the client of the connection the server serves, or None
  client,    \* per client, the call it is before, or how it has ended
  request,   \* the clients whose 20 bytes wait to be read
  reply      \* the clients whose 13 bytes wait to be read

vars == <<server, file, queue, newsockfd, client, request, reply>>

Init ==
  /\ server = "down" /\ file \in BOOLEAN /\ queue = <<>> /\ newsockfd = None
  /\ client = [c \in Clients |-> "idle"] /\ request = {} /\ reply = {}

(* The client's end of the connection, and the server's.                   *)
Holds(c) == client[c] \in {"write", "read"}
Serves(c) == newsockfd = c \/ \E i \in DOMAIN queue : queue[i] = c

-----------------------------------------------------------------------------
(* TP6_server                                                              *)
Start ==
  /\ server = "down" /\ server' = "socket"
  /\ UNCHANGED <<file, queue, newsockfd, client, request, reply>>

Dies ==
  /\ server' = "down" /\ queue' = <<>> /\ newsockfd' = None
  /\ UNCHANGED <<file, client, request, reply>>

KillServer == server # "down" /\ Dies

Bind ==
  /\ server = "socket"
  /\ \/ file /\ Dies
     \/ /\ ~file /\ file' = TRUE /\ server' = "listen"
        /\ UNCHANGED <<queue, newsockfd, client, request, reply>>

Listen ==
  /\ server = "listen" /\ server' = "accept"
  /\ UNCHANGED <<file, queue, newsockfd, client, request, reply>>

Accept ==
  /\ server = "accept" /\ queue # <<>>
  /\ server' = "read" /\ newsockfd' = Head(queue) /\ queue' = Tail(queue)
  /\ UNCHANGED <<file, client, request, reply>>

(* Of a client that was killed before it wrote, the end is read.           *)
Read ==
  /\ server = "read" /\ (newsockfd \in request \/ ~Holds(newsockfd))
  /\ server' = "write" /\ request' = request \ {newsockfd}
  /\ UNCHANGED <<file, queue, newsockfd, client, reply>>

(* Mutant: SIGPIPE is ignored.                                             *)
WriteIgnores ==
  /\ server = "write" /\ server' = "close"
  /\ reply' = IF Holds(newsockfd) THEN reply \cup {newsockfd} ELSE reply
  /\ UNCHANGED <<file, queue, newsockfd, client, request>>

Write ==
  /\ server = "write"
  /\ \/ Holds(newsockfd) /\ reply' = reply \cup {newsockfd} /\ server' = "close"
        /\ UNCHANGED <<file, queue, newsockfd, client, request>>
     \/ ~Holds(newsockfd) /\ Dies

Close ==
  /\ server = "close" /\ server' = "accept" /\ newsockfd' = None
  /\ UNCHANGED <<file, queue, client, request, reply>>

-----------------------------------------------------------------------------
(* TP6_client                                                              *)
Goes(c, to) == client' = [client EXCEPT ![c] = to] /\ UNCHANGED <<server, file, newsockfd>>

StartClient(c) == client[c] = "idle" /\ Goes(c, "connect") /\ UNCHANGED <<queue, request, reply>>

KillClient(c) ==
  /\ client[c] \in {"connect", "write", "read"} /\ Goes(c, "killed")
  /\ reply' = reply \ {c} /\ UNCHANGED <<queue, request>>

(* Refused, exit(1), or queued; with the queue full it waits.              *)
Connect(c) ==
  /\ client[c] = "connect" /\ UNCHANGED <<request, reply>>
  /\ \/ /\ (server \in {"down", "socket", "listen"} \/ ~file)
        /\ Goes(c, "exit 1") /\ UNCHANGED queue
     \/ /\ server \in Server \ {"socket", "listen"} /\ file /\ Len(queue) <= Backlog
        /\ Goes(c, "write") /\ queue' = Append(queue, c)

(* SIGPIPE when the server is gone.                                        *)
WriteRequest(c) ==
  /\ client[c] = "write" /\ UNCHANGED <<queue, reply>>
  /\ \/ Serves(c) /\ Goes(c, "read") /\ request' = request \cup {c}
     \/ ~Serves(c) /\ Goes(c, "killed") /\ UNCHANGED request

(* The answer, or nothing when the server is gone.                         *)
ReadReply(c) ==
  /\ client[c] = "read" /\ UNCHANGED <<queue, request>>
  /\ \/ c \in reply /\ Goes(c, "answered") /\ reply' = reply \ {c}
     \/ c \notin reply /\ ~Serves(c) /\ Goes(c, "empty") /\ UNCHANGED reply

main == Bind \/ Listen \/ Accept \/ Read \/ Write \/ Close
main_client(c) == Connect(c) \/ WriteRequest(c) \/ ReadReply(c)

Next ==
  \/ main \/ Start \/ KillServer
  \/ \E c \in Clients : main_client(c) \/ StartClient(c) \/ KillClient(c)

Spec == Init /\ [][Next]_vars

-----------------------------------------------------------------------------
(* Properties *)

(* The server has still to write to this client.                           *)
Unanswered(c) == Serves(c) /\ ~(newsockfd = c /\ server = "close")
Up == server \in {"accept", "read", "write", "close"}
=============================================================================
