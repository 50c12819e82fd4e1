SPECIFICATION Spec
CONSTANTS
  Users = {alice, bob}
  Convs = {c1, c2}
  Calls = {p1, p2}
  CalmMsgs = 3
  RaceMsgs = 1
  Modes = {TRUE, FALSE}
  NoUser = NoUser
  NoConv = NoConv
SYMMETRY Symmetry
INVARIANTS OneConversation
PROPERTIES BlockStops
CHECK_DEADLOCK FALSE
