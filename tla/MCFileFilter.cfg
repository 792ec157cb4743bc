\* Two operations in flight when allocations and queries of names may fail,
\* with detaches and unloads: memory, what is logged, against the abstract
\* monitor too, and that teardowns end whatever the file system keeps.
SPECIFICATION FairSpec
CONSTANTS
  Ops = {o1, o2}
  Processes = {p1, p2}
  Volumes = {v1}
  Majors <- CreateOnly
  PoolMayFail = TRUE
  None = None
INVARIANTS
  TypeOK
  PoolMatchesContexts
  UnloadedFilterIsForgotten
  LineIsAboutTheOperation
  MonitoredOpsReported
PROPERTIES
  ImplementsMonitor
  TeardownsFinish
