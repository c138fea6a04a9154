SPECIFICATION Spec
CONSTANTS
  Participants = {p1}
  Endpoints = {e1}
  Rooms = {r1}
  NoRoom = NoRoom
  Workers = {w1, w2}
  Linked = {}
  VMR = VMR
  Nobody = Nobody
  Missing = Missing
  InOrder = FALSE
  Kinds <- FaultKinds
  MaxEvents = 3
  MaxFaults = 1
SYMMETRY WorkerSymmetry
CHECK_DEADLOCK FALSE
INVARIANTS
  NeverAheadOfVideoApi
