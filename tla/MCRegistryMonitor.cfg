\* Safety of two handlers, with renames and deletes, when memory may be short.
\* A crash ends everything, so that there is no deadlock check.
SPECIFICATION Spec
CONSTANTS
  Threads = {t1, t2}
  Keys = {k1}
  short = short
  long = long
  Names <- TwoNames
  Size <- Lengths
  Classes <- WaysThrough
  PoolMayFail = TRUE
  None = None
SYMMETRY Symmetric
INVARIANTS
  TypeOK
  HandlersFreeTheirBlocks
  CrashIffAllocationFailed
  PathIsOfTheKey
  EmptyPathHasAReason
  HandledOpsReported
PROPERTIES
  ImplementsMonitor
CHECK_DEADLOCK FALSE
