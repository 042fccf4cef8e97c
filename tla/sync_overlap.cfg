CONSTANTS
  p = p
  q = q
  w = w
  a = a
  b = b
  x = x
  y = y
  r1 = r1
  r2 = r2
  Msgs = {a, b, x}
  Users = {p, q, w}
  Devices = {p, q}
  Runs = {r1, r2}
  From <- Author
  To <- Addressee
  DeviceOf <- Phone
  CreatedAt <- Clock
  Limit = 1
  Faults = {}
  ZonedTimestamps = TRUE
SPECIFICATION Spec
INVARIANT RepliesSettle
