\* The sizes of prodcons.c, TP1.c and TP2.c, and messages that do not fit;
\* three clients, one of which has to wait for its place in the queue.
SPECIFICATION Fair
CONSTANTS
  N = 4
  Message <- SevenCharacters
  Blank = " "
  taille = 4
  nbTour = 7
  turns = 2
  text = 3
  c1 = c1
  c2 = c2
  c3 = c3
  Clients = {c1, c2, c3}
  Backlog = 0
INVARIANTS Counts FreedWhenDelivered
PROPERTIES AreChannels MessagesArrive ArrivesUnlessRaced HandshakeEnds OneService
CHECK_DEADLOCK FALSE
