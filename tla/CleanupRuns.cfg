SPECIFICATION FairSpec
CONSTANTS
  Profile = {"ssh", "zip", "git"}
  Forking = TRUE
  Faults = TRUE
  Crashes = TRUE
INVARIANTS IInv ReceiptCoversCommands
PROPERTIES RefusalEndsRun ImplementsLife RunEnds
CHECK_DEADLOCK FALSE
