SPECIFICATION DocumentsSpec
CONSTANTS
  u1 = u1  u2 = u2  u3 = u3  u4 = u4  u5 = u5  u6 = u6  u7 = u7  u8 = u8  u9 = u9
  k1 = k1  k2 = k2  k3 = k3  k4 = k4
  None = None  Unknown = Unknown
  Importer = {i1, i2}
  Overlap = {{u4, u5, u8}, {k1, k2}}
  Upload = {u1, u2, u3, u4, u5, u8, u9}
  Uploaded <- MCUploaded
  Check = {k1, k2, k3, k4}
  Installed <- MCInstalled
  AssetName <- MCAssetName
  Tag <- MCTag
  Distro <- MCDistro
  OsRelease <- MCOsRelease
  SupplierOf <- MCSupplierOf
  Pypi = "pypi"
  ReleaseOf <- MCRelease
  MaxProduct = 7
INVARIANTS DocumentsInv DiffAccountsForAll
PROPERTIES IdentifiersStay
SYMMETRY MCSymmetry
CHECK_DEADLOCK FALSE
