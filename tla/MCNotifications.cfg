\* A process that comes and goes while the driver does.  Processes are used
\* up, and the system stops in a routine of an unmapped image: no deadlock check.
SPECIFICATION NSpec
CONSTANTS
  p0 = p0
  p1 = p1
  t0 = t0
  t1 = t1
  t2 = t2
  Threads <- ThreeThreads
  Processes <- TwoProcesses
  Owner <- OwnerOf
  First = p0
  Failable <- HalfWay
  None = None
SYMMETRY SiblingSymmetry
INVARIANTS
  NTypeOK
  ContextIsKnown
  LivesAreLogged
PROPERTIES
  TerminatedIsLast
CHECK_DEADLOCK FALSE
