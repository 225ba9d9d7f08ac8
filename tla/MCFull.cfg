CONSTANTS
  Strands = {s1}
  Singletons = {}
  Periodic = {}
  NoStrand = NoStrand
  Pids = {p1}
  Nobody = Nobody
  OnHold = OnHold
  MaxAttempts = 1
  MaxId = 3
SPECIFICATION Spec
INVARIANTS
  TypeOK
  NextIsOldest
  LockedIsOldest
SYMMETRY PidSymmetry
VIEW View
