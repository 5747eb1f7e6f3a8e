SPECIFICATION Spec
CONSTANTS
  eolwatch = eolwatch  NoRun = NoRun
  Run = {1, 2, 3}
  ProjectOf <- MCProjectOf
  Upload = {u1}
  OrderOf <- MCOrderOf
  Time = {1, 2}
  Keep = 2
  Restore = {1}
  MaxAtOnce = 2
  MaxMishaps = 1
  Lines = {"x", "y"}
  MaxLines = 5
INVARIANTS IInv
PROPERTIES RetentionKeeps ScheduleKeepsLines
CHECK_DEADLOCK FALSE
