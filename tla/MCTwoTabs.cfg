SPECIFICATION TabsSpec
CONSTANTS
  t1 = t1
  t2 = t2
  s1 = s1
  s2 = s2
  s3 = s3
  u1 = u1
  u2 = u2
  b1 = b1
  b2 = b2
  Absent = Absent
  Topics <- MCTopics
  Slugs <- MCSlugs
  Users <- MCUsers
  Tabs <- MCTabs
  Roles <- MCRoles
  Workloads <- MCAllWork
  c1 = c1  c2 = c2  c3 = c3  own = own  alien = alien
  None = None  Old = Old
  Calls = {c1, c2, c3}
  Addrs = {own, alien}
  Mine = {own}
  Loads <- MCTwoTabs
  Limit <- MCBuckets
  Slots = {1, 2}
  MaxGets = 4
  MaxClicks = 2
PROPERTIES TwoFactorStays
CHECK_DEADLOCK FALSE
