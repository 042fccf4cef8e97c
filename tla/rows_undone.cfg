CONSTANTS
  d1 = d1
  d2 = d2
  u1 = u1
  u2 = u2
  u3 = u3
  bob = bob
  joe = joe
  ann = ann
  r1 = r1
  r2 = r2
  t1 = t1
  t2 = t2
  m1 = m1
  m2 = m2
  w1 = w1
  w2 = w2
  s1 = s1
  s2 = s2
  NoUser = NoUser
  NoName = NoName
  NoDevice = NoDevice
  NoToken = NoToken
  NoMsg = NoMsg
  Users = {u1, u2}
  Names = {bob, ann}
  WebNames = {ann}
  MobileNames = {bob}
  Devices = {d1}
  Tokens = {t1}
  Reqs = {r1}
  Msgs = {m1}
  Writers = {w1}
  Sessions = {s1}
  DeviceOf <- Phone
  Seed <- Bob
  Faults = {}
SPECIFICATION Spec
PROPERTY OnlySentChanges
