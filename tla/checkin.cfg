SPECIFICATION Spec
CONSTANTS
  q1 = q1
  q2 = q2
  q3 = q3
  q4 = q4
  ana = ana
  bob = bob
  seven = seven
  nine = nine
  A = A
  B = B
  None = None
  Requests <- ThreeRequests
  Users <- TwoUsers
  Teams <- TwoTeams
  Numbers <- TwoNumbers
  Ops = {"join", "add", "edit", "leave", "remove"}
  RacingEdits = FALSE
SYMMETRY Symmetric
INVARIANTS OnePlaceEach DuplicatesWereAllowed
PROPERTIES TakenBySomebodyElse LeftStaysOut
CHECK_DEADLOCK FALSE
