SPECIFICATION FairSpec
CONSTANTS
  Off = Off
  a1 = a1
  c1 = c1
  c2 = c2
  t1 = t1
  t2 = t2
  v1 = v1
  w1 = w1
  w2 = w2
  Asset = {a1}
  Target = {v1}
  Worker = {w1, w2}
  Client = {c1, c2}
  Token = {t1, t2}
  Input = {"ssh"}
  MaxJob = 2
  NoAsset = NoAsset
  NoToken = NoToken
  Crashes = TRUE
  Stalls = FALSE
INVARIANTS AssetExclusive NoConcurrentTools
PROPERTIES ImplementsLease ImplementsLife EveryRequestSettles
CHECK_DEADLOCK FALSE
