SPECIFICATION Spec
CONSTANTS
  m1 = m1  d1 = d1  n1 = n1  u1 = u1  a1 = a1  a2 = a2  x = x  y = y  p1 = p1  p2 = p2  k1 = k1  k2 = k2
  None = None  Unborn = Unborn  Gone = Gone
  Asset = {a1, a2}
  Addr = {x, y}
  Password = {p1, p2}
  Pem = {k1, k2}
  Needs <- MCNeeds
  Edits <- MCEdits
  Manual = {m1}
  Daily = d1
  Analysis = {n1}
  Admin = {u1}
  MaxGen <- MCGen
  Scanned = {a1}
  MaxStuck = 0
  Erasable = {a2}
  Escapes = FALSE
  ByHand = {a2}
INVARIANTS IInv
PROPERTIES PassSkipsNoOne KeyAcceptedOnce
CHECK_DEADLOCK FALSE
