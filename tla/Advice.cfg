SPECIFICATION Spec
CONSTANTS
  r1 = r1  r2 = r2  r3 = r3  c1 = c1  c2 = c2
  Request = {r1, r2, r3}
  Kind = {"triage", "verify", "plan"}
  Subject = {c1}
  Stray = Stray
  Attempts = 2
  Effort = TRUE
  Answers <- MCAnswers
  MaxChanges = 1
  None = None
INVARIANTS IInv
PROPERTIES CheckedStays
CHECK_DEADLOCK FALSE
SYMMETRY MCSymmetry
