CONSTANTS
  Strands = {s1, per}
  Singletons = {per}
  Periodic = {per}
  NoStrand = NoStrand
  Pids = {p1, p2}
  Nobody = Nobody
  OnHold = OnHold
  MaxAttempts = 2
  MaxId = 3
SPECIFICATION RetrySpec
INVARIANTS
  OneAtATime
  RequestKept
  LocksAccountedFor
  SingletonBound
  FailuresBounded
PROPERTIES
  ImplementsQueue
SYMMETRY PidSymmetry
VIEW View
