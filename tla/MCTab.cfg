SPECIFICATION TabSpec
CONSTANTS
  t1 = t1  t2 = t2  d1 = d1  d2 = d2  m1 = m1  m2 = m2
  Topics = {t1, t2}
  Dms = {d1, d2}
  ChatLists <- MCChatLists
  Protected = {t1}
  Home = Home
  NoConv = NoConv
  MaxPassword = 2
  MaxAsked = 2
  MaxSends = 1
  Msgs = {m1, m2}
  Mine = {m1}
  MaxVersion = 2
  MaxDrops = 1
  People = {d1}
  Bots = {d2}
  Groups = {t1}
  MaxNews = 2
  MaxLoads = 2
  MaxLost = 1
  a1 = a1  a2 = a2  x1 = x1  x2 = x2  g1 = g1  v1 = v1  v2 = v2
  Persons = {a1, a2}
  Admin = a1
  Grades = {g1, g2}
  Perms = {perm}
  Sanctions = {ban}
  Searches <- MCSearches
  Nobody = Nobody
  MaxClicks = 3
  MaxAway = 0
  Fleet = {x1, x2}
  Basics = {name}
  Rank = {rank}
  Direct = {active}
  Values = {v1, v2}
  Places = {place}
  Denials = {perm}
  Filters <- MCFilters
  NoBot = NoBot
  MaxActs = 2
  MaxOpen = 0
INVARIANTS  KeptApart OwnSendShown GoneLeaves  OnlyEdited
CHECK_DEADLOCK FALSE
