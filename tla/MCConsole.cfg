\* Anything may run short and the driver may go away at any time.  The program
\* ends, so that there is no deadlock check.
SPECIFICATION FairSpec
CONSTANTS
  Listeners = {l1, l2, l3}
  MayFail = TRUE
  QueueLimit = 2
INVARIANTS
  TypeOK
  BufferOutlivesRequest
  JoinIsComplete
  ListenersPersist
  NobodyHangs
PROPERTIES
  ExitFinishes
  QueueIsServed
CHECK_DEADLOCK FALSE
