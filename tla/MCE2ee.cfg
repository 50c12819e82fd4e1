SPECIFICATION E2eeSpec
CONSTANTS
  Devices = {d1, d2}
  Online = {d1}
  Owners = {1}
  Txns = {t1}
  Attempts = {put1, put2}
  Polls = {p1, p2}
  PageSize = 4
  MaxChanges = 1
  MaxFaults = 1
  Overlap = FALSE
  NoTxn = NoTxn
  NoDevice = NoDevice
  a = a
  b = b
  c = c
  a1 = a1
  b1 = b1
  b2 = b2
  c1 = c1
  None = None
  Users = {a, b, c}
  Machines = {a1, b1, b2, c1}
  UserOf <- MCUserOf
  Me = a1
  Admins = {b}
  Calls = {1, 2, 3, 4}
  Rounds = 8
  Workloads <- MCWorkloads
  Roster0 = {a, c}
  Bundles0 = {a1, b1, c1}
INVARIANTS QueuedOnce AckedIsQueued  PumpDrains ReadersRight
CHECK_DEADLOCK FALSE
