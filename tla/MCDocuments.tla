---------------------------- MODULE MCDocuments ----------------------------
EXTENDS Documents, TLC

CONSTANTS u1, u2, u3, u4, u5, u6, u7, u8, u9, k1, k2, k3, k4

Item(vendor, version, purl, cpe) ==
  [type |-> "LIBRARY", vendor |-> vendor, name |-> "openssl", version |-> version, purl |-> purl, cpe |-> cpe]
Npm(at) == [space |-> "npm", name |-> "openssl", at |-> at, install |-> None]
Py(at)  == [space |-> "pypi", name |-> "openssl", at |-> at, install |-> None]
Generic(at) == [space |-> "generic", name |-> "openssl", at |-> at, install |-> "jammy"]
Deb(release) == [space |-> "deb/ubuntu", name |-> "openssl", at |-> "1", install |-> release]
Doc(s, items, relations) == [serial |-> s, items |-> items, relations |-> relations]

\* A package without identifiers, and again with its CPE; a package of another
\* ecosystem and one in a Python spelling; two occurrences, the version of one
\* only in its PURL, and one whose supplier was dropped; a dependency that is
\* said twice.  One package three tools describe: without an identifier, as
\* an npm package, as a Debian one; and as an npm package before another one,
\* or as a generic one behind that.  The third check found two versions, the
\* fourth one package for two architectures.
MCUploaded ==
  u1 :> Doc("s1", <<Item("Canonical", "1", None, None), Item("Canonical", "1", None, "cpe:openssl")>>, <<>>)
  @@ u2 :> Doc("s2", <<Item(None, "1.0", Py("1"), None), Item(None, "1", Npm(None), None)>>, <<>>)
  @@ u3 :> Doc("s3", <<Item("Canonical", None, Deb("noble"), "cpe:openssl"), Item("Canonical", "1", Deb("noble"), None),
                             Item(None, "1", Deb("noble"), None)>>,
                     <<[kind |-> "DEPENDS_ON", from |-> 1, to |-> 2], [kind |-> "DEPENDENCY_OF", from |-> 1, to |-> 2]>>)
  @@ u4 :> Doc("s4", <<Item(None, "1", Npm(None), None), Item(None, "2", None, "cpe:openssl-2")>>,
                     <<[kind |-> "CONTAINS", from |-> 1, to |-> 2], [kind |-> "CONTAINED_BY", from |-> 1, to |-> 2]>>)
  @@ u5 :> Doc("s5", <<Item(None, "1", None, None)>>, <<>>)
  @@ u6 :> Doc("s6", <<Item(None, "1", Npm(None), None)>>, <<>>)
  @@ u7 :> Doc("s7", <<Item(None, "1", Deb("noble"), None)>>, <<>>)
  @@ u8 :> Doc("s8", <<Item(None, "2", None, "cpe:openssl-2"), Item(None, Unknown, Generic("1"), None)>>, <<>>)
  @@ u9 :> Doc("s9", <<Item("Canonical", "1", Deb("noble"), None), Item(None, None, None, None)>>,
                     <<[kind |-> "CONTAINS", from |-> 1, to |-> 2], [kind |-> "DEPENDS_ON", from |-> 1, to |-> 2]>>)

Openssl == [name |-> "openssl", version |-> "1"]
MCInstalled == k1 :> <<Openssl>> @@ k2 :> <<Openssl>> @@ k4 :> <<Openssl, Openssl>> @@ k3 :> <<Openssl, [name |-> "openssl", version |-> "2"]>>
MCAssetName == k1 :> "web" @@ k2 :> "www" @@ k3 :> "db" @@ k4 :> "web"
MCTag == k1 :> "A1" @@ k2 :> "A1" @@ k3 :> "A3" @@ k4 :> "A1"
MCDistro == k1 :> "deb/ubuntu" @@ k2 :> "deb/ubuntu" @@ k3 :> "generic" @@ k4 :> "deb/ubuntu"
MCOsRelease == k1 :> "noble" @@ k2 :> "jammy" @@ k3 :> "jammy" @@ k4 :> "noble"
MCSupplierOf == "deb/ubuntu" :> "Canonical" @@ "generic" :> None
MCRelease == "1" :> 1 @@ "1.0" :> 1 @@ "2" :> 2
MCSymmetry == Permutations(Importer)
=============================================================================
