CONSTANTS
  Strands = {s1, per}
  Singletons = {per}
  Periodic = {per}
  NoStrand = NoStrand
  Pids = {p1}
  Nobody = Nobody
  OnHold = OnHold
  MaxAttempts = 2
  MaxId = 2
SPECIFICATION LiveSpec
PROPERTIES
  EveryJobLeaves
