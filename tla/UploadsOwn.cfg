SPECIFICATION Spec
CONSTANTS
  a1 = a1  a2 = a2  c1 = c1  c2 = c2
  s1 = s1  s2 = s2  s3 = s3
  d1 = d1  d2 = d2
  NoSource = NoSource
  Asset = {a1, a2}
  Source = {s1, s2, s3}
  Digest = {d1, d2}
  Sha <- MCSha
  Offers <- MCOffers
  Client = {c1, c2}
  Faulty = {"save"}
  Free = Free
SYMMETRY Clients
INVARIANTS IInv NoJobUnderPurge OwnUploadHasArchive
PROPERTIES PurgeRemovesUploads
CHECK_DEADLOCK FALSE
