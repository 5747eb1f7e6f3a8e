SPECIFICATION Spec
CONSTANTS
  s1 = s1  s2 = s2  d1 = d1  d2 = d2  d3 = d3  l1 = l1  l2 = l2  c = c
  A = A  B = B  C = C  D = D  h1 = h1  h2 = h2
  n1 = n1  n2 = n2  u1 = u1  u2 = u2  x1 = x1  old = old  new = new
  None = None
  Serial = {s1, s2}
  Sbom = {d1, d2, d3}
  SerialOf <- MCSerialOf
  Link = {l1, l2}
  Cve = {c}
  CveOf <- MCCveOf
  Kernel = {l1}
  Result = {A, B, C, D}
  SbomOf <- MCSbomOf
  HostOf <- MCHostOf
  Fingerprint <- MCFingerprint
  Finds <- MCFinds
  Severity = {"LOW", "HIGH"}
  Host = {h1, h2}
  Importer = {i1, i2}
  Verifier = {w1}
  MaxVersion = 1
  MaxId = 3
  MaxAtOnce = 2
  Inventory <- MCInventory
  PackageOf <- MCPackageOf
  AssetOf <- MCAssetOf
  Scope <- MCScope
  Basis <- MCBasis
  Web = {A, B, C, D}
INVARIANTS IInv LinksFollowRuns RemovedIsGone DisappearanceIsAChange
PROPERTIES VerdictsAdvance
CHECK_DEADLOCK FALSE
SYMMETRY MCSymmetry
