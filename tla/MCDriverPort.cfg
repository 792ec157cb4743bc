\* Two threads send while three clients come and go and the port is taken
\* down.  Nobody has to act after that, so that there is no deadlock check.
SPECIFICATION FairSpec
CONSTANTS
  c1 = c1
  c2 = c2
  c3 = c3
  t1 = t1
  t2 = t2
  None = None
  Clients <- MCClients
  Threads <- MCThreads
INVARIANTS
  TypeOK
  ClientIsKnown
  PlaceIsReturned
  NothingIsLeft
PROPERTIES
  SendReturns
CHECK_DEADLOCK FALSE
