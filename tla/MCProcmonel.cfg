\* The console against a driver that runs, with nothing failing.
SPECIFICATION PSpec
CONSTANTS
  p1 = p1
  t1 = t1
  l1 = l1
  l2 = l2
  Threads <- MCThreads
  Processes <- MCProcesses
  Owner <- OnlyOwner
  First = p1
  Failable = {}
  Ops = {o1}
  Volumes = {v1}
  Majors <- ReadOnly
  PoolMayFail = FALSE
  None = None
  Listeners <- MCListeners
  MayFail = FALSE
  QueueLimit = 1
INVARIANTS
  RunningDriverIsReached
