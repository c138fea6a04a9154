SPECIFICATION FairSpec
CONSTANTS
  Participants = {p1, p2, p3}
  LinkedTo <- AllLinked
  Invitations = {i1}
  Workers = {w1}
  Missing = Missing
  Nobody = Nobody
  NoInvitation = NoInvitation
  Failures <- RefusingVideoApi
  MaxAnswers = 5
  MaxFaults = 1
CHECK_DEADLOCK FALSE
INVARIANTS
  TransferringIsMoved
PROPERTIES
  KeepsThePromise
