SPECIFICATION NewcomersSpec
CONSTANTS
  adm = adm
  Accounts = {t1}
  Emails = {e1}
  Codes = {adm}
  MaxUses <- MCMaxUses
  Elevated = {adm}
  Users = {u1, u2}
  MaxTokens = 2
  Procs = {p1, p2}
  MaxEdits = 1
  None = None
  q1 = q1  q2 = q2  Nothing = Nothing
  d1 = d1  d2 = d2
  Peers <- MCPeers
  Devs <- MCDevs
  Loads <- MCLoads
  Pool = 2
  MaxKeys = 5
  MaxStarts = 2
  Batch = 2
ACTION_CONSTRAINT EditsBounded
SYMMETRY Symmetry
INVARIANTS InvitesAccounted LinkMintsOnce OneIssuedLink HeardInOrder Durable
PROPERTIES DisableSticks
CHECK_DEADLOCK FALSE
