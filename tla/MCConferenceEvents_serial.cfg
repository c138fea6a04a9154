SPECIFICATION Spec
CONSTANTS
  Participants = {p1, p2}
  Endpoints = {e1}
  Rooms = {r1, r2}
  NoRoom = NoRoom
  Workers = {w1}
  Linked = {}
  VMR = VMR
  Nobody = Nobody
  Missing = Missing
  InOrder = TRUE
  Kinds <- SerialKinds
  MaxEvents = 4
  MaxFaults = 0
SYMMETRY Symmetry
CHECK_DEADLOCK FALSE
INVARIANTS
  TypeOK
  CacheMirrorsSupplier
  UiMirrorsCache
