SPECIFICATION ChannelSpec
CONSTANTS
  s1 = s1
  s2 = s2
  s3 = s3
  s4 = s4
  ua = ua
  ub = ub
  uc = uc
  Sockets = {s1, s2, s3, s4}
  Users = {ua, ub, uc}
  Tasks = {t1}
  UserOf <- MCUserOf
  MaxPeers = 1
  Demotable = {uc}
  Overlap = FALSE
  Casts <- MCCasts
  NoCast <- MCNoCast
  Overflows = FALSE
INVARIANTS   MeshForms
CHECK_DEADLOCK FALSE
