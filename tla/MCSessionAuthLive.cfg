SPECIFICATION FairSpec
CONSTANTS
  Devices = {d1}
  Sids = {s1}
  Jtis = {j1}
  Calls = {p1, p2}
  Faults = TRUE
  NoSid = NoSid
  NoJti = NoJti
  NoDevice = NoDevice
PROPERTIES NoMintAfterClose RevocationConverges BanSettles
