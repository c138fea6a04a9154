SPECIFICATION FairSpec
CONSTANTS
  Participants = {p1, p2}
  Endpoints = {}
  Rooms = {r1}
  NoRoom = NoRoom
  Workers = {w1}
  Linked = {p1, p2}
  VMR = VMR
  Nobody = Nobody
  Missing = Missing
  InOrder = TRUE
  Kinds <- LinkedKinds
  MaxEvents = 6
  MaxFaults = 0
CHECK_DEADLOCK FALSE
INVARIANTS
  CacheMirrorsSupplier
PROPERTIES
  EveryRequestIsHandled
