\* A process sets the attributes of a file: there is no line.
SPECIFICATION Spec
CONSTANTS
  Ops = {o1}
  Processes = {p1}
  Volumes = {v1}
  Majors <- SetInformationOnly
  PoolMayFail = FALSE
  None = None
INVARIANTS
  AttributeChangesReported
