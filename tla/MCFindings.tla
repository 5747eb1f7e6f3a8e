----------------------------- MODULE MCFindings -----------------------------
EXTENDS Comparison, TLC

CONSTANTS s1, s2, d1, d2, d3, l1, l2, c, A, B, C, D, h1, h2, n1, n2, u1, u2, x1, old, new

\* d2 and d3 claim one namespace.  A and B are reports on d1, B from another
\* state of the machine and of the scanner's database.  C is on d3, taken after
\* an update: the first package is newer, the second is gone.  D is on d2, which
\* names the second package without its PURL.
MCSerialOf == d1 :> s1 @@ d2 :> s2 @@ d3 :> s2
MCCveOf == l1 :> c @@ l2 :> c
MCSbomOf == A :> d1 @@ B :> d1 @@ C :> d3 @@ D :> d2
MCHostOf == A :> h1 @@ B :> h2 @@ C :> h1 @@ D :> h1
MCFingerprint == A :> 1 @@ B :> 2 @@ C :> 3 @@ D :> 4
MCFinds == A :> (l1 :> "LOW" @@ l2 :> "LOW") @@ B :> (l1 :> "HIGH" @@ l2 :> None)
        @@ C :> (l1 :> None @@ l2 :> None) @@ D :> (l1 :> None @@ l2 :> None)

First(version) == [name |-> n1, purl |-> u1, version |-> version]
Second(purl) == [name |-> n2, purl |-> purl, version |-> old]
MCInventory == d1 :> {First(old), Second(u2)} @@ d3 :> {First(new)}
            @@ d2 :> {First(new), Second(None)}
MCPackageOf == l1 :> First(old) @@ l2 :> Second(u2)
MCAssetOf == d1 :> x1 @@ d2 :> x1 @@ d3 :> x1
MCScope == A :> "os" @@ B :> "os" @@ C :> "os" @@ D :> "os"
MCBasis == A :> old @@ B :> new @@ C :> old @@ D :> old

MCSymmetry == Permutations(Importer)
=============================================================================
