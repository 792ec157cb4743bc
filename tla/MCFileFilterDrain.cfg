\* An unload while a file operation is on its way: the line shows no result.
SPECIFICATION Spec
CONSTANTS
  Ops = {o1}
  Processes = {p1}
  Volumes = {v1}
  Majors <- ReadOnly
  PoolMayFail = FALSE
  None = None
INVARIANTS
  ResultIsFinal
