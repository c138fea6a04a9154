SPECIFICATION Spec
CONSTANTS
  Parts = {"microphone"}
  MaxClients = 4
  MaxVisits = 2
  ConnectionFailedLimit = 2
  Cameras = {c1, c2}
  NoCamera = noCamera
  MaxRequests = 3
  MaxChanges = 4
  ReconnectionTimes = 2
  GoodPingsRequired = 2
  MaxOutages = 4
  Participants = {p1}
  Endpoints = {e1}
  Me = p1
  Rooms = {r1}
  NoRoom = noRoom
  MaxOps = 3
  MaxMuteActs = 5
  Guests = {g1, g2}
  MaxHostActs = 3
  Parties = {p1, p2}
  Officer = officer
  MaxSent = 2
  MaxOpened = 2
  Persons = {p1, p2}
  FirstMembers = {p1}
  Visitors = {p2}
  Handlers = {w1, w2}
  Uncached = uncached
  MaxBookings = 2
  Layouts = {l1, l2}
  NoLayout = noLayout
  LayoutRequests = {q1, q2}
  MaxLayoutActs = 2
  MaxCuts = 2
CHECK_DEADLOCK FALSE
INVARIANT HostIsObeyed
