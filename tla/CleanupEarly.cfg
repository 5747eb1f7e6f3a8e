SPECIFICATION Spec
CONSTANTS
  Profile = {"ssh"}
  Forking = FALSE
  Faults = FALSE
  Crashes = FALSE
INVARIANT ReceiptIsHonest
CHECK_DEADLOCK FALSE
