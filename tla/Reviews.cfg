SPECIFICATION Spec
CONSTANTS
  u1 = u1  u2 = u2  p1 = p1  p2 = p2  s1 = s1  s2 = s2
  None = None  Keep = Keep
  User = {u1, u2}
  Admin = u1
  Editor = {p1}
  EditorOf <- MCEditorOf
  Slot = {s1, s2}
  Status = {"AFFECTED", "FIXED"}
  Vex = {None, "v"}
  Calls <- MCCalls
  Orders <- MCOrders
  RowLocks = FALSE
  MaxRequests = 2
INVARIANTS IInv EveryReviewIsInformed AuditFollowsChanges
PROPERTIES ChangesUndoNothing
CHECK_DEADLOCK FALSE
SYMMETRY MCSymmetry
