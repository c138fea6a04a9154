SPECIFICATION Spec
CONSTANTS
  Representative = Representative
  Witness = Witness
  Defendant = Defendant
  Video = Video
  Participants <- NoWitness
  Endpoints <- Machines
  ProtectFrom <- Screening
  Unscreened = {}
  Observers = {}
  EndpointsOf <- Linked
  Rooms = {room}
  WaitingRoom = WaitingRoom
  Workers = {w1, w2}
  Nobody = Nobody
  NoRoom = NoRoom
  Patient = FALSE
  MaxRequests = 3
  MaxFaults = 1
SYMMETRY WorkerSymmetry
CHECK_DEADLOCK FALSE
INVARIANTS
  CheckedMeetOnlyUnseen
  TransferringIsMoved
