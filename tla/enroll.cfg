CONSTANTS
  d1 = d1
  d2 = d2
  u1 = u1
  u2 = u2
  joe = joe
  sally = sally
  r1 = r1
  r2 = r2
  t1 = t1
  t2 = t2
  NoUser = NoUser
  NoName = NoName
  NoDevice = NoDevice
  NoToken = NoToken
  NoReq = NoReq
  Users = {u1, u2}
  Names = {joe, sally}
  Devices = {d1, d2}
  Phones = {d1, d2}
  Tokens = {t1, t2}
  Reqs = {r1, r2}
  DeviceOf <- Sender
  PhoneOf <- Sender
  DeviceId <- Own
  Seed <- Nobody
  Faults = {"db", "lost", "appcrash", "wiped", "restart"}
SPECIFICATION FairSpec
INVARIANTS
  TypeOK
  GrantKept
  OneRowPerDevice
PROPERTIES
  ImplementsContract
  RequestEnds
