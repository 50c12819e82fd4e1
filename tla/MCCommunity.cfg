SPECIFICATION CommunitySpec
CONSTANTS
  a1 = a1
  a2 = a2
  b1 = b1
  ua = ua
  ub = ub
  o1 = o1
  o2 = o2
  j1 = j1  j2 = j2  j3 = j3  r1 = r1  r2 = r2
  None = None
  Tabs = {a1, a2, b1}
  Members = {ua, ub}
  Options = {o1, o2}
  Calls = {1, 2, 3, 4}
  Owner <- MCOwner
  May <- MCMay
  Keep = 2
  Stored <- MCStored
  Polled <- MCPolled
  Workloads <- MCWorkloads
  Jobs = {j1, j2, j3}
  Users = {ua}
  Rooms = {r1, r2}
  Desks <- MCDesks
  Window = 2
  QueueCap = 1
  MaxFetches = 2
INVARIANTS   HeaderAgrees BannedOut
CHECK_DEADLOCK FALSE
