\* One worker of bench or kvs-repl: two connections accepted and one handed
\* over, two at a time, and one peer.  With kvs-repl the peer is the next server,
\* whose data pointer is not set; where it happens to be null the worker does
\* what one of kvs does.  A worker that was stopped stays so.
SPECIFICATION FairSpec
CONSTANTS
  Accepted = {a1, a2}
  Imported = {i1}
  Peers = {p1}
  Unset = {p1}
  Apps = {"bench", "kvs-repl"}
  MaxLive = 2
  MaxFds = 8
CHECK_DEADLOCK FALSE
INVARIANTS
  TypeOK
  StopsCleanlyIffIdle
  FreedIsQuiet
  LeaksOnlyLocal
  ExhaustedOnlyByLeaks
PROPERTIES
  SignalEndsWorker
  ConnectionFreed
