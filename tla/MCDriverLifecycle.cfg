\* Load and unload, over and over, when any kernel call may fail.  A routine
\* left registered by an unmapped image stops the system: no deadlock check.
SPECIFICATION FairSpec
CONSTANTS
  Threads = {t1, t2, t3}
  Failable <- AllCalls
INVARIANTS
  StackDiscipline
  MonitoringIsComplete
  FilterHandleIsValid
  NoThreadInUnmappedImage
PROPERTIES
  UnmappedCleanIffRecovered
  LoadAndUnloadEnd
CHECK_DEADLOCK FALSE
