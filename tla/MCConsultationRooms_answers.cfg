SPECIFICATION Spec
CONSTANTS
  Representative = Representative
  Witness = Witness
  Defendant = Defendant
  Video = Video
  Participants <- Everybody
  Endpoints <- Machines
  ProtectFrom <- Screening
  Unscreened = {}
  Observers = {}
  EndpointsOf <- Linked
  Rooms = {room}
  WaitingRoom = WaitingRoom
  Workers = {w1}
  Nobody = Nobody
  NoRoom = NoRoom
  Patient = TRUE
  MaxRequests = 3
  MaxFaults = 0
CHECK_DEADLOCK FALSE
INVARIANTS
  ScreenedAreApart
