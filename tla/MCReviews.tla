----------------------------- MODULE MCReviews -----------------------------
EXTENDS Reviews, TLC

CONSTANTS u1, u2, p1, p2, s1, s2

MCEditorOf == [p \in Editor |-> IF p = p1 THEN u1 ELSE u2]

MCCalls == {[expected |-> None, status |-> "FIXED", vex |-> "v"],
            [expected |-> 0, status |-> "FIXED", vex |-> Keep]}
MCOrders == {[whom |-> u, to |-> [role |-> "ADMIN", active |-> FALSE]] : u \in User}
       \cup {[whom |-> u2, to |-> [role |-> "VIEWER", active |-> TRUE]]}

MCSymmetry == Permutations(Slot)
=============================================================================
