CONSTANTS
  p = p
  q = q
  w = w
  c1 = c1
  c2 = c2
  c3 = c3
  c5 = c5
  r1 = r1
  r2 = r2
  NoDevice = NoDevice
  Changes = {c1, c2, c5}
  Users = {p, q, w}
  Devices = {p, q}
  Runs = {r1, r2}
  From <- Author
  To <- Addressee
  DeviceId <- Phone
  Lsn <- Place
  Word = 3
  DeviceOf <- OnP
  Limit = 1
  Feed = TRUE
  Faults = {"db"}
SPECIFICATION FairSpec
INVARIANTS
  NoGap
PROPERTIES
  PullsDrain
  ImplementsFeed
