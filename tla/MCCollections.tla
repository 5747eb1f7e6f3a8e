--------------------------- MODULE MCCollections ---------------------------
EXTENDS Collections, TLC

CONSTANTS a1, a2, m1, d1, n1, u1, x, y, p1, p2, k1, k2

\* k1 needs a passphrase, k2 none.
MCNeeds == k1 :> p1 @@ k2 :> None

Form(addr, auth, pw, pem, reset) ==
  [addr |-> addr, auth |-> auth, pw |-> pw, pem |-> pem, reset |-> reset, monitored |-> TRUE]

MCGen == x :> 2 @@ y :> 1

\* a1: moves with another mode, to x and y, or a reset at x; a2 is there to be
\* checked after a1 or before it.
MCEdits == a1 :> {Form(x, "password", p1, None, TRUE), Form(y, "private_key", None, k1, FALSE)}
        @@ a2 :> {Form(y, "key", None, None, FALSE)}
=============================================================================
