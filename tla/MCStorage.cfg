SPECIFICATION StorageSpec
CONSTANTS
  Purposes = {messages, dm_messages}
  KeyIds = {k1, k2}
  c1 = c1
  c2 = c2
  p1 = p1
  p2 = p2
  Procs = {p1, p2}
  Callers = {c1, c2}
  ProcOf <- MCProcOf
  NoKey = NoKey
  NoCaller = NoCaller
  NoPurpose = NoPurpose
  f1 = f1
  f2 = f2
  f3 = f3
  m1 = m1
  m2 = m2
  NoFile = NoFile
  Files = {f1, f2, f3}
  Msgs = {m1, m2}
  Dms = {m2}
  DayBytes = 3
  Quota = 4
  Batch = 2
  Scenes <- MCScenes
  Fleet <- MCFleet
INVARIANTS NothingUndecryptable 
PROPERTIES CallsEnd ImplementsRegistry OrphansReclaimed
CHECK_DEADLOCK FALSE
