SPECIFICATION Spec
CONSTANTS
  Off = Off
  a1 = a1
  c1 = c1
  c2 = c2
  t1 = t1
  t2 = t2
  v1 = v1
  w1 = w1
  w2 = w2
  Asset = {a1}
  Target = {v1, Off}
  Worker = {w1, w2}
  Client = {c1, c2}
  Token = {t1, t2}
  Input = {"ssh", "git"}
  MaxJob = 2
  NoAsset = NoAsset
  NoToken = NoToken
  Crashes = TRUE
  Stalls = TRUE
SYMMETRY Symmetry
CONSTRAINTS GitFirst OneOfAKind
INVARIANTS IInv CancelledMeansStopped OverlapOnlyAfterGivingUp
PROPERTIES TerminalIsFinal CancelIsNeverOvertaken ResultFitsUnlessOvertaken
CHECK_DEADLOCK FALSE
