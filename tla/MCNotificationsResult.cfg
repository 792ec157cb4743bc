\* A creation that another driver refuses is logged as a success.
SPECIFICATION NSpec
CONSTANTS
  p0 = p0
  p1 = p1
  t0 = t0
  t1 = t1
  t2 = t2
  Threads <- ThreeThreads
  Processes <- TwoProcesses
  Owner <- OwnerOf
  First = p0
  Failable = {}
  None = None
INVARIANTS
  CreatedResultIsTrue
