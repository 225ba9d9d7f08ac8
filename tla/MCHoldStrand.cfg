CONSTANTS
  Strands = {s1, per}
  Singletons = {per}
  Periodic = {per}
  NoStrand = NoStrand
  Pids = {p1, p2}
  Nobody = Nobody
  OnHold = OnHold
  MaxAttempts = 2
  MaxId = 2
SPECIFICATION HoldSpec
INVARIANTS
  OneAtATime
SYMMETRY PidSymmetry
VIEW View
