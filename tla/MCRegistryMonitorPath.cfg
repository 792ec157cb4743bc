\* A key that gets a longer name between the two queries: a line without path.
SPECIFICATION Spec
CONSTANTS
  Threads = {t1}
  Keys = {k1}
  short = short
  long = long
  Names <- TwoNames
  Size <- Lengths
  Classes <- SetValueOnly
  PoolMayFail = FALSE
  None = None
INVARIANTS
  PathIsShown
