CONSTANTS
  Slots = {s1, s2}
  Participants = {p1, p2}
  Clients = {c1, c2}
  Group = Group
  None = None
  Limits = {1, 2}
  Mixes <- AllMixes
SPECIFICATION Spec
SYMMETRY Symmetry
INVARIANTS
  TypeOK
  OncePerSlot
  WithinMax
  ReservedIsLocked
  FreeIsUnlocked
PROPERTIES
  GrowsWithinLimit
  SwapKeepsPlace
  DeletedStays
CHECK_DEADLOCK FALSE
