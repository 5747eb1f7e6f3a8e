----------------------------- MODULE Documents -----------------------------
(***************************************************************************)
(* SBOM documents and the products their components are.  An import is     *)
(* one transaction that takes the components one by one: _normalize_product *)
(* looks for the product of a component among the rows it sees, then       *)
(* inserts one at once, or fills in an identifier in memory, which is      *)
(* written with the next insertion or the commit.  Documents are uploaded, *)
(* or made from the package list of a check.  Two stored documents can be  *)
(* compared.                                                               *)
(*                                                                         *)
(* A PURL is its space (type and namespace), name, version and the         *)
(* qualifiers that say where a package is installed; the license and the   *)
(* hashes of a component are left out.  Unknown is the version UNKNOWN or  *)
(* N/A.  The share locks of foreign keys, which only delay, are left out.  *)
(***************************************************************************)
EXTENDS Integers, Sequences, FiniteSets, FiniteSetsExt

CONSTANTS
  Importer,          \* requests that are served at once
  Upload, Uploaded,  \* documents that are uploaded: [serial, items, relations]
  Check, Installed,  \* checks, and the packages each has found, in order
  AssetName, Tag, Distro, OsRelease,  \* what the machine of each check is
  SupplierOf,        \* the supplier that stands for a distribution, or None
  Pypi, ReleaseOf,   \* the space whose versions are compared, not spelled
  Overlap,           \* bound: sets of documents whose imports run side by side
  MaxProduct,        \* bound: products that are stored
  Unknown, None

Document == Upload \cup Check
Id == 1..MaxProduct

\* What a field may hold: PURLs, the components of a document, the rows of
\* products and of documents.
Purl == [space : STRING, name : STRING, at : STRING \cup {None}, install : STRING \cup {None}]
Component == [type : STRING, vendor : STRING \cup {None}, name : STRING, version : STRING \cup {Unknown, None},
              purl : Purl \cup {None}, cpe : STRING \cup {None}]
Rows == [type : STRING, vendor : STRING \cup {None}, name : STRING, version : STRING \cup {Unknown},
         purl : Purl \cup {None}, cpe : STRING \cup {None}]

Entry == [of : Document, products : Seq(Id), check : Document \cup {None}]

ASSUME DocumentsAssumption ==
  /\ Upload \cap Check = {} /\ Overlap \subseteq SUBSET (Upload \cup Check) /\ MaxProduct \in Nat
  /\ None \notin Document \cup Id \cup {Unknown}
  /\ None \notin STRING /\ None \notin Purl /\ None \notin Rows /\ None \notin Entry

\* The words the code writes into the document of a check.
ASSUME WordsAssumption == {"OS", "LIBRARY", "operator", "generic", "eolwatch-host"} \subseteq STRING

\* Documents that were read are lists of components with these fields, and a
\* supplier stands for one distribution only.
ASSUME ContentAssumption ==
  /\ \A u \in Upload : Uploaded[u].items \in Seq(Component)
  /\ \A c \in Check : /\ Installed[c] \in Seq([name : STRING, version : STRING])
                      /\ {AssetName[c], Tag[c], Distro[c], OsRelease[c]} \subseteq STRING
                      /\ SupplierOf[Distro[c]] \in STRING \cup {None}
  /\ \A c, d \in Check : SupplierOf[Distro[c]] = SupplierOf[Distro[d]] => Distro[c] = Distro[d]

VARIABLES
  product,   \* product_releases by id
  document,  \* sbom_documents by serial: what is stored, the products of its
             \* components, and the check it is linked with
  import,    \* the session of each request
  answer,    \* what the last import that has ended was answered
  raced      \* history: products that one import wrote while another had
             \* an older copy, or was adding the same

documentsVars == <<product, document, import, answer, raced>>

\* A session: the products of the components read; by id the objects it holds,
\* what is filled in them and not yet written, the rows it has inserted and
\* what it has filled in others; and the object to be inserted.
Idle == [pc |-> "idle", of |-> None, products |-> <<>>, held |-> <<>>, fills |-> <<>>, insert |-> None,
         new |-> <<>>, filled |-> <<>>]

-----------------------------------------------------------------------------
(* The document of a check: packages_to_spdx *)

AssetItem(c) ==
  [type |-> "OS", vendor |-> "operator", name |-> AssetName[c], version |-> Tag[c], cpe |-> None,
   purl |-> [space |-> "generic", name |-> "eolwatch-host", at |-> Tag[c], install |-> None]]

PackageItem(c, p) ==
  [type |-> "LIBRARY", vendor |-> SupplierOf[Distro[c]], name |-> p.name, version |-> p.version, cpe |-> None,
   purl |-> [space |-> Distro[c], name |-> p.name, at |-> p.version, install |-> OsRelease[c]]]

\* Packages of one name and version have one SPDXID, whichever they are.
PackageRef(c, n) == CHOOSE m \in DOMAIN Installed[c] : Installed[c][m] = Installed[c][n]

CheckDocument(c) ==
  [serial |-> c,
   items |-> <<AssetItem(c)>> \o [n \in DOMAIN Installed[c] |-> PackageItem(c, Installed[c][n])],
   relations |-> [n \in DOMAIN Installed[c] |-> [kind |-> "CONTAINS", from |-> 1, to |-> PackageRef(c, n) + 1]]]

Content == [d \in Document |-> IF d \in Check THEN CheckDocument(d) ELSE Uploaded[d]]
Items(d) == Content[d].items
Serial     == {Content[d].serial : d \in Document}

\* The edge a relation is stored as; the row of each must be the only one.
Edge(r) == IF r.kind \in {"DEPENDENCY_OF", "CONTAINED_BY"} THEN <<r.to, r.from>> ELSE <<r.from, r.to>>
EdgesAreUnique(d) ==
  LET R == Content[d].relations IN \A m, n \in DOMAIN R : m # n => Edge(R[m]) # Edge(R[n])

-----------------------------------------------------------------------------
(* Which product a component is: _normalize_product *)

\* A PURL and a version beside it that say different things.
Contradicts(purl, version) ==
  /\ None \notin {purl.at, version} /\ Unknown # version /\ purl.at # version
  /\ ~(purl.space = Pypi /\ ReleaseOf[purl.at] = ReleaseOf[version])

\* Mutant: where a package is installed is part of what it is.
CanonicalInstalled(purl, version) ==
  [purl EXCEPT !.at = IF @ = None /\ version # Unknown THEN version ELSE @]

Canonical(purl, version) ==
  [purl EXCEPT !.at = IF @ = None /\ version # Unknown THEN version ELSE @, !.install = None]

VersionOf(item) ==
  IF item.version \notin {None, Unknown} THEN item.version
  ELSE IF item.purl # None /\ item.purl.at # None THEN item.purl.at ELSE Unknown

\* The row a component would be stored as.
Row(item) ==
  [type |-> item.type, vendor |-> item.vendor, name |-> item.name, version |-> VersionOf(item),
   purl |-> IF item.purl = None THEN None ELSE Canonical(item.purl, item.version), cpe |-> item.cpe]

Human(row) == <<row.type, row.vendor, row.name, row.version>>

HasIdentifier(row) == row.purl # None \/ row.cpe # None
SamePurl(p, row) == None \notin {p.purl, row.purl} /\ Canonical(p.purl, p.version) = row.purl
SameCpe(p, row)  == row.cpe # None /\ p.cpe = row.cpe

\* Mutant: only identifiers are looked for.
CandidateByIdentifier(p, row) ==
  \/ row.purl # None /\ p.purl \in {row.purl, [row.purl EXCEPT !.at = None]}
  \/ SameCpe(p, row)

\* The query of _normalize_product.
Candidate(p, row) ==
  \/ Human(p) = Human(row)
  \/ row.purl # None /\ p.purl \in {row.purl, [row.purl EXCEPT !.at = None]}
  \/ SameCpe(p, row)

\* Mutant: the name and the version are permission enough.
ConflictingByIdentifier(p, row) ==
  \/ SameCpe(p, row) /\ (p.type # row.type \/ p.version # row.version)
  \/ SamePurl(p, row) /\ None \notin {row.cpe, p.cpe} /\ p.cpe # row.cpe

\* A candidate that makes the import fail.
Conflicting(p, row) ==
  \/ row.purl # None /\ p.purl # None /\ Contradicts(p.purl, p.version)
  \/ SameCpe(p, row) /\ (p.type # row.type \/ p.version # row.version)
  \/ SamePurl(p, row) /\ None \notin {row.cpe, p.cpe} /\ p.cpe # row.cpe
  \/ SameCpe(p, row) /\ None \notin {row.purl, p.purl} /\ ~SamePurl(p, row)
  \/ /\ HasIdentifier(row) /\ ~SamePurl(p, row) /\ ~SameCpe(p, row)
     /\ Human(p) = Human(row) /\ HasIdentifier(p)

Matching(p, row) ==
  \/ SamePurl(p, row) \/ SameCpe(p, row)
  \/ ~HasIdentifier(row) \/ Human(p) = Human(row)

-----------------------------------------------------------------------------
(* The transaction of an import *)

InFlight == {i \in Importer : import[i].pc # "idle"}
NoFill == [purl |-> None, cpe |-> None]
Extended(f, id, value) == [k \in DOMAIN f \cup {id} |-> IF k = id THEN value ELSE f[k]]

\* Mutant: every column is set.
FilledBlindly(p, fill) == [p EXCEPT !.purl = fill.purl, !.cpe = fill.cpe]

\* What fill sets is set, in an object or a row.
Filled(p, fill) ==
  [p EXCEPT !.purl = IF fill.purl = None THEN @ ELSE fill.purl,
            !.cpe  = IF fill.cpe = None THEN @ ELSE fill.cpe]
FilledIf(p, f, id) == IF id \in DOMAIN f THEN Filled(p, f[id]) ELSE p
Also(f, id, fill)  == Extended(f, id, IF id \in DOMAIN f THEN Filled(f[id], fill) ELSE fill)

\* READ COMMITTED: the rows committed by now, and those this transaction has
\* written.  What its session only has in memory is not among them
\* (autoflush=False).
Db(i) == [id \in Id |-> IF id \in DOMAIN import[i].new THEN import[i].new[id]
                        ELSE FilledIf(product[id], import[i].filled, id)]

\* An object the session still holds is not read again.
Memory(i) == [id \in Id |-> IF id \in DOMAIN import[i].held THEN import[i].held[id] ELSE Db(i)[id]]

DocumentsInit ==
  /\ product = [id \in Id |-> None]
  /\ document = [s \in Serial |-> None]
  /\ import = [i \in Importer |-> Idle]
  /\ answer = None
  /\ raced = {}

Ends(i, kind) ==
  /\ import' = [import EXCEPT ![i] = Idle]
  /\ answer' = [kind |-> kind, of |-> import[i].of]

\* An upload answers every refusal of the database as a duplicate; the
\* endpoint of a check does not catch it.
Integrity(d) == IF d \in Check THEN "error" ELSE "conflict"

\* The row of the document is written first.
Begins(i, d) ==
  LET s == Content[d].serial
  IN /\ import[i].pc = "idle" /\ (InFlight # {} => \E G \in Overlap : {d} \cup {import[j].of : j \in InFlight} \subseteq G)
     /\ \A j \in InFlight : Content[import[j].of].serial # s
     /\ import' = [import EXCEPT ![i] = IF document[s] = None THEN [Idle EXCEPT !.pc = "read", !.of = d] ELSE Idle]
     /\ answer' = IF document[s] = None THEN None ELSE [kind |-> Integrity(d), of |-> d]
     /\ UNCHANGED <<product, document, raced>>

Current(i) == Items(import[i].of)[Len(import[i].products) + 1]
Reading(i) == import[i].pc = "read" /\ Len(import[i].products) < Len(Items(import[i].of))

\* The query runs on the rows, what it finds is judged by the objects.
Candidates(i, row) == {id \in Id : Db(i)[id] # None /\ Candidate(Db(i)[id], row)}
Matches(i, row)    == {id \in Candidates(i, row) : Matching(Memory(i)[id], row)}

Refused(i) ==
  LET item == Current(i)
  IN \/ item.purl # None /\ Contradicts(item.purl, item.version)
     \/ \E id \in Candidates(i, Row(item)) : Conflicting(Memory(i)[id], Row(item))
     \/ Cardinality(Matches(i, Row(item))) > 1

\* 422: the component contradicts itself or what is stored.
Refuses(i) ==
  /\ Reading(i) /\ Refused(i)
  /\ Ends(i, "unprocessable")
  /\ UNCHANGED <<product, document, raced>>

\* The identifiers the stored product lacks.
Lacking(p, row) == [purl |-> IF p.purl = None THEN row.purl ELSE None,
                    cpe  |-> IF p.cpe = None THEN row.cpe ELSE None]

\* The product is there.  An identifier it lacks is set in its object only, and
\* objects are held as long as they are modified, the last one also afterwards.
Attaches(i) ==
  /\ Reading(i) /\ ~Refused(i)
  /\ \E id \in Matches(i, Row(Current(i))) :
       LET me == import[i]
           fill == Lacking(Memory(i)[id], Row(Current(i)))
           fills == IF fill = NoFill THEN me.fills ELSE Also(me.fills, id, fill)
       IN import' = [import EXCEPT ![i] = [me EXCEPT !.products = Append(@, id), !.fills = fills,
            !.held = [k \in DOMAIN fills \cup {id} |-> IF k = id THEN Filled(Memory(i)[id], fill) ELSE @[k]]]]
  /\ UNCHANGED <<product, document, answer, raced>>

\* There is none: db.add and db.flush.
Adds(i) ==
  /\ Reading(i) /\ ~Refused(i) /\ Matches(i, Row(Current(i))) = {}
  /\ import' = [import EXCEPT ![i].pc = "flush", ![i].insert = Row(Current(i))]
  /\ UNCHANGED <<product, document, answer, raced>>

\* Mutant: what has been read so far is committed.
FinishedEarly(i) == import[i].pc = "read"
Finished(i) == import[i].pc = "read" /\ Len(import[i].products) = Len(Items(import[i].of))

\* A flush writes the objects that were modified one after the other, then the
\* new one: the statement that is next, as the row it makes of which id.
Flushing(i) == import[i].pc = "flush" \/ (Finished(i) /\ import[i].fills # <<>>)
Target(i) == IF import[i].fills = <<>> THEN None ELSE Min(DOMAIN import[i].fills)
Value(i)  == IF import[i].fills = <<>> THEN import[i].insert
             ELSE Filled(Db(i)[Target(i)], import[i].fills[Target(i)])

\* Unique: the PURL, the CPE, and type, supplier, name and version together
\* if there is a supplier.
Clash(p, q) ==
  \/ p.purl # None /\ p.purl = q.purl
  \/ p.cpe # None /\ p.cpe = q.cpe
  \/ p.vendor # None /\ Human(p) = Human(q)

Wrote(j) == DOMAIN import[j].new \cup DOMAIN import[j].filled

\* A row another transaction has written, or a unique value, is waited for.
BlockedBy(i) ==
  {j \in InFlight \ {i} : Target(i) \in Wrote(j) \/ \E id \in Wrote(j) : Clash(Db(j)[id], Value(i))}

Violates(i) == \E id \in Id : Db(i)[id] # None /\ id # Target(i) /\ Clash(Db(i)[id], Value(i))

FreeIds == {id \in Id : product[id] = None /\ \A j \in Importer : id \notin DOMAIN import[j].new}

Runs(i) == Flushing(i) /\ BlockedBy(i) = {} /\ ~Violates(i)

\* UPDATE of the columns that were set.
Updates(i) ==
  LET me == import[i]  id == Target(i)
  IN /\ Runs(i) /\ me.fills # <<>>
     /\ import' = [import EXCEPT ![i] = [me EXCEPT
          !.fills  = [k \in DOMAIN @ \ {id} |-> @[k]],
          !.new    = IF id \in DOMAIN @ THEN Extended(@, id, Value(i)) ELSE @,
          !.filled = IF id \in DOMAIN me.new THEN @ ELSE Also(@, id, me.fills[id])]]
     /\ UNCHANGED <<product, document, answer, raced>>

\* INSERT: the new object is the last one now.
Inserts(i) ==
  LET me == import[i]  id == Min(FreeIds)
  IN /\ Runs(i) /\ me.fills = <<>> /\ FreeIds # {}
     /\ import' = [import EXCEPT ![i] = [me EXCEPT !.pc = "read", !.insert = None,
          !.new = Extended(@, id, me.insert), !.products = Append(@, id), !.held = Extended(<<>>, id, me.insert)]]
     /\ UNCHANGED <<product, document, answer, raced>>

\* IntegrityError, or the victim of a deadlock.
FlushFails(i) ==
  /\ Flushing(i)
  /\ \/ BlockedBy(i) = {} /\ Violates(i) /\ Ends(i, Integrity(import[i].of))
     \/ \E j \in BlockedBy(i) : Flushing(j) /\ i \in BlockedBy(j) /\ Ends(i, "error")
  /\ UNCHANGED <<product, document, raced>>

\* The rows i has changed of which another import has an older copy, and those
\* it has added while another is adding the same product.
Races(i) ==
  {id \in Id : \E j \in InFlight \ {i} :
     \/ id \in DOMAIN import[i].filled /\ id \in DOMAIN import[j].held \cup DOMAIN import[j].filled
     \/ /\ id \in DOMAIN import[i].new
        /\ \E q \in {import[j].insert} \cup {import[j].new[k] : k \in DOMAIN import[j].new} :
             q # None /\ Human(q) = Human(import[i].new[id])}

\* The edges are written last, and everything is committed; what a check has
\* given is then linked with it in a second transaction.
Commits(i) ==
  LET me == import[i]
  IN /\ Finished(i) /\ me.fills = <<>> /\ EdgesAreUnique(me.of)
     /\ product' = Db(i)
     /\ raced' = raced \cup Races(i)
     /\ document' = [document EXCEPT ![Content[me.of].serial] =
          [of |-> me.of, products |-> me.products, check |-> None]]
     /\ IF me.of \in Check
        THEN /\ import' = [import EXCEPT ![i] = [Idle EXCEPT !.pc = "link", !.of = me.of]]
             /\ UNCHANGED answer
        ELSE Ends(i, "created")

CommitFails(i) ==
  /\ Finished(i) /\ import[i].fills = <<>> /\ ~EdgesAreUnique(import[i].of)
  /\ Ends(i, Integrity(import[i].of))
  /\ UNCHANGED <<product, document, raced>>

Links(i) ==
  /\ import[i].pc = "link"
  /\ document' = [document EXCEPT ![import[i].of].check = import[i].of]
  /\ Ends(i, "created")
  /\ UNCHANGED <<product, raced>>

\* The API is restarted; a transaction that was open is rolled back.
Dies(i) ==
  /\ import[i].pc # "idle"
  /\ import' = [import EXCEPT ![i] = Idle]
  /\ UNCHANGED <<product, document, answer, raced>>

DocumentsNext == \E i \in Importer :
  \/ \E d \in Document : Begins(i, d)
  \/ Refuses(i) \/ Attaches(i) \/ Adds(i) \/ Updates(i) \/ Inserts(i) \/ FlushFails(i)
  \/ Commits(i) \/ CommitFails(i) \/ Links(i) \/ Dies(i)

DocumentsSpec == DocumentsInit /\ [][DocumentsNext]_documentsVars

-----------------------------------------------------------------------------
(* The difference of two documents: compare_sboms *)

Identity(item) ==
  IF item.purl # None THEN <<"purl", [item.purl EXCEPT !.at = None]>>
  ELSE IF item.cpe # None THEN <<"cpe", item.cpe>> ELSE <<item.vendor, item.name>>

DiffVersion(item) == IF item.version = None /\ item.purl # None THEN item.purl.at ELSE item.version

Elements(f) == {f[n] : n \in DOMAIN f}
Identities(d) == {Identity(x) : x \in Elements(Items(d))}
Vendors(d) == {x.vendor : x \in Elements(Items(d))}
Versions(d, k) == {DiffVersion(x) : x \in {y \in Elements(Items(d)) : Identity(y) = k}}

\* How often a component occurs: a multiset, not a dictionary.
Copies(d, k, v, vendor) ==
  Cardinality({n \in DOMAIN Items(d) : LET x == Items(d)[n]
               IN Identity(x) = k /\ DiffVersion(x) = v /\ x.vendor = vendor})

\* Mutant: an occurrence that was matched stays to be matched again.
UnchangedAgain(d, e, k, v) ==
  SumFunction([w \in Vendors(e) |-> IF Copies(d, k, v, w) = 0 THEN 0 ELSE Copies(e, k, v, w)])

\* Occurrences that are the same in both, metadata included; metadata that
\* changed under one version; and what is left of a version then.
Unchanged(d, e, k, v) ==
  SumFunction([w \in Vendors(e) |-> Min({Copies(d, k, v, w), Copies(e, k, v, w)})])
Count(d, k, v) == Cardinality({n \in DOMAIN Items(d) : Identity(Items(d)[n]) = k /\ DiffVersion(Items(d)[n]) = v})
Rest(d, e, k, v) == Count(d, k, v) - Unchanged(d, e, k, v)
Rewritten(d, e, k, v) == Min({Rest(d, e, k, v), Rest(e, d, k, v)})
Left(d, e, k, v) == Rest(d, e, k, v) - Rewritten(d, e, k, v)
LeftVersions(d, e, k) == {v \in Versions(d, k) : Left(d, e, k, v) > 0}

\* One version left on either side is an update; more are not paired.
UpdatedOf(d, e, k, old, new) ==
  IF Cardinality(old) = 1 /\ Cardinality(new) = 1
  THEN Min({Left(d, e, k, CHOOSE v \in old : TRUE), Left(e, d, k, CHOOSE v \in new : TRUE)})
  ELSE 0
Updated(d, e, k) == UpdatedOf(d, e, k, LeftVersions(d, e, k), LeftVersions(e, d, k))

\* What the answer counts of one component, and of all.
DifferenceOf(d, e, k) ==
  LET V == Versions(d, k) \cup Versions(e, k)
      LeftIn(x, y) == SumFunction([v \in LeftVersions(x, y, k) |-> Left(x, y, k, v)])
  IN [unchanged |-> SumFunction([v \in V |-> Unchanged(d, e, k, v)]),
      changed   |-> SumFunction([v \in V |-> Rewritten(d, e, k, v)]) + Updated(d, e, k),
      removed   |-> LeftIn(d, e) - Updated(d, e, k),
      added     |-> LeftIn(e, d) - Updated(d, e, k)]

Difference(d, e) ==
  LET K == Identities(d) \cup Identities(e)
      of == [k \in K |-> DifferenceOf(d, e, k)]
  IN [f \in {"unchanged", "changed", "removed", "added"} |-> SumFunction([k \in K |-> of[k][f]])]
Diff == [d \in Document |-> [e \in Document |-> Difference(d, e)]]

-----------------------------------------------------------------------------
(* Properties *)

Stored == {s \in Serial : document[s] # None}
Kinds == {"created", "conflict", "unprocessable", "error"}

\* Every table and every request keeps its type.
DocumentsTypeOK ==
  /\ \A id \in Id : product[id] = None \/ product[id] \in Rows
  /\ answer = None \/ (answer.kind \in Kinds /\ answer.of \in Document)
  /\ \A s \in Stored : /\ document[s] \in Entry /\ Content[document[s].of].serial = s
                       /\ document[s].check \in {None, document[s].of}
                       /\ Len(document[s].products) = Len(Items(document[s].of))
  /\ \A i \in Importer :
       /\ import[i].pc \in {"idle", "read", "flush", "link"} /\ import[i].of \in Document \cup {None}
       /\ DOMAIN import[i].held \cup DOMAIN import[i].fills \subseteq Id /\ Wrote(i) \subseteq Id
  /\ raced \subseteq Id

\* A component that names a package is of a product with exactly that package,
\* also after later imports have filled in what the product lacked, unless
\* imports raced for the product: "distinct known package ecosystems/namespaces
\* must not share a product identity accidentally" (sbom.py:203).
ComponentFitsProduct ==
  \A s \in Stored : \A n \in DOMAIN document[s].products :
    LET row == Row(Items(document[s].of)[n])
        id  == document[s].products[n]
        p   == product[id]
    IN /\ p # None
       /\ row.purl = None /\ row.cpe = None => Human(p) = Human(row)
       /\ id \notin raced => (row.purl # None => p.purl = row.purl) /\ (row.cpe # None => p.cpe = row.cpe)

\* One name, supplier and version is one product, unless two imports raced to
\* add it: the database lets rows without a supplier repeat (models.py:34).
OneProductPerName ==
  \A a, b \in Id : a # b /\ None \notin {product[a], product[b]} /\ Human(product[a]) = Human(product[b])
                    => {a, b} \cap raced # {}

\* What an identifier once meant it means for ever: no import gives a product
\* another PURL or CPE, but one that had an older copy when the identifier
\* was filled in (sbom.py:214).
IdentifiersStay ==
  [][\A id \in Id : product[id] # None =>
       /\ product'[id] # None
       /\ id \notin raced => /\ (product[id].purl # None => product'[id].purl = product[id].purl)
                             /\ (product[id].cpe # None => product'[id].cpe = product[id].cpe)]_product

\* As long as only checks have given documents, none of them is refused for
\* its components, side by side or not: two machines, releases or architectures with one package
\* agree on its product (docs/TROUBLESHOOTING.md:25, "1-3").
ChecksAgree ==
  answer # None /\ answer.kind = "unprocessable" /\ answer.of \in Check
    => \E s \in Stored : document[s].of \in Upload

\* Products and the documents that use them, in every state.
DocumentsInv == DocumentsTypeOK /\ ComponentFitsProduct /\ OneProductPerName /\ ChecksAgree

AccountsFor(x, d, e) ==
  /\ x.unchanged + x.changed + x.removed = Len(Items(d))
  /\ x.unchanged + x.changed + x.added = Len(Items(e))
  /\ d = e => x.unchanged = Len(Items(d))

\* No two packages share a product, whatever imports run side by side: the
\* comment of the code (sbom.py:203) without the exception for races.
PackagesAreApart ==
  \A s \in Stored : \A n \in DOMAIN document[s].products :
    LET row == Row(Items(document[s].of)[n])
    IN row.purl # None => product[document[s].products[n]].purl = row.purl

\* A comparison leaves out no occurrence of a component and counts none twice,
\* whichever document is the older one, and finds no difference between a
\* document and itself (routers/sboms.py:169).
DiffAccountsForAll ==
  \A s, t \in Stored : AccountsFor(Diff[document[s].of][document[t].of], document[s].of, document[t].of)
=============================================================================
