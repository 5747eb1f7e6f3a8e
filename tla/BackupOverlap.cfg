SPECIFICATION Spec
CONSTANTS
  eolwatch = eolwatch  NoRun = NoRun
  Run = {1, 2}
  ProjectOf <- MCTwo
  Upload = {u1}
  OrderOf <- MCOrderOfTwo
  Time = {1, 2}
  Keep = 1
  Restore = {1}
  MaxAtOnce = 2
  MaxMishaps = 0
  Lines = {"x"}
  MaxLines = 4
PROPERTIES OneBackupStays
CHECK_DEADLOCK FALSE
