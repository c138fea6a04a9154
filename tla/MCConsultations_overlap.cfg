SPECIFICATION Spec
CONSTANTS
  Participants = {p1, p2}
  LinkedTo <- AllLinked
  Invitations = {i1}
  Workers = {w1, w2}
  Missing = Missing
  Nobody = Nobody
  NoInvitation = NoInvitation
  Failures <- FailureKinds
  MaxAnswers = 3
  MaxFaults = 1
SYMMETRY Symmetry
CHECK_DEADLOCK FALSE
INVARIANTS
  TypeOK
  NobodyIsMovedUnasked
PROPERTIES
  RefusalsAreLostOnlyInARace
