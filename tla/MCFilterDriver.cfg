\* A process is created, and reads, while the driver is loaded and unloaded
\* around it.  A routine left registered stops the driver for good, and when
\* all have exited nobody is left to act: no deadlock check.
SPECIFICATION DSpec
CONSTANTS
  p0 = p0
  p1 = p1
  t0 = t0
  t1 = t1
  Threads <- MCThreads
  Processes <- MCProcesses
  Owner <- OwnerOf
  First = p0
  Failable <- HalfWay
  Ops = {o1}
  Volumes = {v1}
  Majors <- ReadOnly
  PoolMayFail = FALSE
  None = None
CONSTRAINT FirstStays
INVARIANTS
  UnmappedImageIsForgotten
  FileContextIsKnown
CHECK_DEADLOCK FALSE
