CONSTANTS
  d1 = d1
  p = p
  w = w
  q1 = q1
  q2 = q2
  Users = {p, w}
  Phones = {d1}
  Pulls = {q1, q2}
  MaxTime = 2
  Self <- Enrolled
  PullerOf <- Puller
SPECIFICATION Spec
PROPERTY LastWriteWins
