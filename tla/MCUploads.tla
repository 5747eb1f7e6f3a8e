----------------------------- MODULE MCUploads -----------------------------
EXTENDS Uploads, TLC

CONSTANTS a1, a2, c1, c2, s1, s2, s3, d1, d2

\* s1 and s2 are two projects with the same content.
MCSha == s1 :> d1 @@ s2 :> d1 @@ s3 :> d2

\* Both assets are given d1, as different projects; d2 is the own content of a1.
MCOffers == a1 :> {s1, s3} @@ a2 :> {s2}

Clients == Permutations(Client)
=============================================================================
