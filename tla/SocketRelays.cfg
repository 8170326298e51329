\* gVersion2.c with two processes, one text per semaphore, one waiting connection;
\* multi.c with its three processes, one text per connection.
SPECIFICATION Safe
CONSTANTS
  N = 2
  SemMax = 1
  Backlog = 1
  Due = 2
  Stream = 1
CONSTRAINT Bounded
INVARIANTS RelayNeedsTwo DuplexOnlyServerFirst
PROPERTIES RelayStops
CHECK_DEADLOCK FALSE
