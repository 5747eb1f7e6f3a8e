----------------------------- MODULE Comparison -----------------------------
(***************************************************************************)
(* What changed between two stored analyses, and the report of it:         *)
(* compare_analyses reads the SBOM and the scanner's report of each run    *)
(* again and says of every vulnerability that was or is found whether it   *)
(* persists, is new, is no longer detected or went with its component, and *)
(* whether that can be trusted.  It only reads, so it adds operators to    *)
(* the tables of Findings and no step.                                     *)
(***************************************************************************)
EXTENDS Findings

CONSTANTS
  Inventory,   \* the packages of each SBOM: [name, purl or None, version or None]
  PackageOf,   \* the package of each link
  AssetOf,     \* the asset each SBOM is of
  Scope, Basis, \* the scope of each bundle; the scanner, its version and its database
  Web          \* bundles that a web analysis has imported

ASSUME ComparisonAssumption ==
  /\ \A s \in Sbom : Inventory[s] # {} /\ \A p, q \in Inventory[s] : p.purl = q.purl /\ p.purl # None => p.name = q.name
  /\ \A r \in Result : \A l \in Found(r) : PackageOf[l] \in Inventory[SbomOf[r]]
  /\ Web \subseteq Result

\* Without a PURL a package is only its name.
PackageIdentity(p) == IF p.purl = None THEN <<"unidentified", p.name>> ELSE <<"purl", p.purl>>
Key(l) == <<PackageIdentity(PackageOf[l]), CveOf[l]>>
VersionsOf(s, identity) == {p.version : p \in {q \in Inventory[s] : PackageIdentity(q) = identity}} \ {None}

\* External: a scanner with one database says the same of a package that is
\* there in the same versions.
ASSUME ScannerAssumption ==
  \A r, s \in Result : Basis[r] = Basis[s] =>
    \A l \in Found(r) : LET identity == PackageIdentity(PackageOf[l]) IN
      /\ \E p \in Inventory[SbomOf[s]] : PackageIdentity(p) = identity
      /\ VersionsOf(SbomOf[r], identity) = VersionsOf(SbomOf[s], identity)
      => \E m \in Found(s) : Key(m) = Key(l)

-----------------------------------------------------------------------------
(* The evidence of a run *)

Packages(i) == Inventory[SbomOf[run[i].of]]
FoundKeys(i) == {Key(l) : l \in Found(run[i].of)}
VersionsIn(i, identity) == VersionsOf(SbomOf[run[i].of], identity)

\* Mutant: only a finding on a package without a PURL is a reason for doubt.
WeakFindings(i) == \E l \in Found(run[i].of) : PackageOf[l].purl = None

\* A package with a version and without a PURL, or a finding on one without:
\* neither says what is, or no longer is, installed.
WeakIdentity(i) ==
  \/ \E p \in Packages(i) : p.purl = None /\ p.version # None
  \/ \E l \in Found(run[i].of) : PackageOf[l].purl = None

\* What is kept beside the descriptor of the database.  The numbers and the
\* package updates are taken out; the host and the verification, with its
\* time, are not.
ScannerDb(i) == [basis |-> Basis[run[i].of], host |-> HostOf[run[i].of],
                 verified |-> IF run[i].verification = None THEN None ELSE i]

\* Two stored runs of one asset and one scope, in the order of their import.
Selectable(b, t) ==
  /\ b < t
  /\ AssetOf[SbomOf[run[b].of]] = AssetOf[SbomOf[run[t].of]]
  /\ Scope[run[b].of] = Scope[run[t].of]

\* Mutant: the database is not looked at.
ComparableAnyway(b, t) ==
  /\ {run[b].of, run[t].of} \subseteq Web
  /\ ~WeakIdentity(b) /\ ~WeakIdentity(t)

\* No warning: both are complete web analyses on the same basis, and every
\* package is identified.
Comparable(b, t) ==
  /\ {run[b].of, run[t].of} \subseteq Web
  /\ Basis[run[b].of] = Basis[run[t].of] /\ ScannerDb(b) = ScannerDb(t)
  /\ ~WeakIdentity(b) /\ ~WeakIdentity(t)

Status(b, t, key) ==
  IF key \in FoundKeys(b) \cap FoundKeys(t) THEN "PERSISTENT"
  ELSE IF key \in FoundKeys(t) THEN "NEW"
  ELSE IF \E p \in Packages(t) : PackageIdentity(p) = key[1] THEN "NO_LONGER_DETECTED"
  ELSE "COMPONENT_REMOVED"

-----------------------------------------------------------------------------
(* Properties *)

\* If a comparison without warnings says that a component was removed, the
\* target has nothing under its name that might be it after all, also when
\* nothing was found on it there (analysis_comparison.py:125).
RemovedIsGone ==
  \A b, t \in Stored : Selectable(b, t) /\ Comparable(b, t) =>
    \A l \in Found(run[b].of) :
      Status(b, t, Key(l)) = "COMPONENT_REMOVED" =>
        \A p \in Packages(t) : p.name = PackageOf[l].name /\ p.version # None => p.purl \notin {None, PackageOf[l].purl}

\* Without a warning a vulnerability disappears only where another version is
\* installed: never because another database was asked (analysis_comparison.py:203).
DisappearanceIsAChange ==
  \A b, t \in Stored : Selectable(b, t) /\ Comparable(b, t) =>
    \A l \in Found(run[b].of) :
      Status(b, t, Key(l)) = "NO_LONGER_DETECTED" =>
        VersionsIn(b, Key(l)[1]) # VersionsIn(t, Key(l)[1])

\* Two web analyses by one scanner with one database are comparable, for what
\* is compared is "the grype DB descriptor only" (analysis_comparison.py:25).
SameDatabaseIsComparable ==
  \A b, t \in Stored :
    /\ Selectable(b, t) /\ {run[b].of, run[t].of} \subseteq Web
    /\ Basis[run[b].of] = Basis[run[t].of] /\ ~WeakIdentity(b) /\ ~WeakIdentity(t)
    => Comparable(b, t)
=============================================================================
