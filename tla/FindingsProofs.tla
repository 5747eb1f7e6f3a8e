--------------------------- MODULE FindingsProofs ---------------------------
(***************************************************************************)
(* Proofs about Findings and Comparison, for any bundles, documents and    *)
(* links, and any number of imports and verifications at once.             *)
(***************************************************************************)
EXTENDS Comparison, FiniteSetTheorems, TLAPS

RunType  == [of : Result, counts : Nat, verification : [partial : BOOLEAN] \cup {None}]
LinkType == [run : Id, severity : Severity, tracker : Answer, host : Host \cup {None}]

-----------------------------------------------------------------------------
(* Rows of the tables *)

\* None is nothing that is stored.
LEMMA NoneFacts ==
  /\ None \notin Severity /\ None \notin Host /\ None \notin Sbom /\ None \notin Result /\ None \notin Nat
  /\ None \notin RunType /\ None \notin Id /\ MaxId \in Nat /\ MaxVersion \in Nat
  BY FindingsAssumption DEF Id, RunType

\* Rows, and the absence of one.
LEMMA RowFacts ==
  /\ \A r \in RunType : r.of \in Result /\ r.counts \in Nat /\ r.verification \in [partial : BOOLEAN] \cup {None}
  /\ \A k \in LinkType : /\ k.run \in Id /\ k.run # None /\ k.severity \in Severity /\ k.severity # None
                         /\ k.tracker \in Answer /\ k.host \in Host \cup {None}
  /\ NoLink.run = None /\ NoLink.severity = None /\ NoLink.tracker = None /\ NoLink.host = None
  BY NoneFacts DEF RunType, LinkType, NoLink

\* TypeOK with the names given above.
LEMMA TypeFacts ==
  TypeOK <=>
    /\ document \in [Serial -> Sbom \cup {None}]
    /\ run \in [Id -> RunType \cup {None}]
    /\ link \in [Link -> {NoLink} \cup LinkType]
    /\ known \subseteq Cve /\ files \subseteq Cve
    /\ cache \in [Cve -> Answer]
    /\ nextId \in 1..(MaxId + 1)
    /\ published \in [Cve -> 0..MaxVersion]
    /\ raced \in BOOLEAN
    /\ DOMAIN import = Importer /\ \A i \in Importer : DOMAIN import[i] = DOMAIN NoImport
    /\ DOMAIN verify = Verifier /\ \A w \in Verifier : DOMAIN verify[w] = DOMAIN NoVerify
  BY DEF TypeOK, RunType, LinkType

\* A link has a run when it has a severity, and is a row when it has one.
LEMMA LinkFacts ==
  ASSUME TypeOK, NEW l \in Link
  PROVE  /\ link[l] \in {NoLink} \cup LinkType
         /\ link[l].run # None <=> link[l] \in LinkType
         /\ link[l].run # None <=> link[l].severity # None
         /\ link[l].tracker \in Answer /\ link[l].host \in Host \cup {None}
<1>1. link[l] \in {NoLink} \cup LinkType
  BY TypeFacts
<1>2. None \in Answer
  BY DEF Answer
<1> QED BY <1>1, <1>2, RowFacts

\* What a bundle finds is a finite set of links, on a document of its own.
LEMMA FoundFacts ==
  ASSUME NEW r \in Result
  PROVE  /\ Found(r) \subseteq Link /\ IsFiniteSet(Found(r)) /\ Cardinality(Found(r)) \in Nat
         /\ \A l \in Found(r) : Finds[r][l] \in Severity /\ Finds[r][l] # None
         /\ SbomOf[r] \in Sbom /\ SerialOf[SbomOf[r]] \in Serial /\ HostOf[r] \in Host
         /\ \A s \in Result : SbomOf[r] # SbomOf[s] => Found(r) \cap Found(s) = {}
<1>1. Found(r) \subseteq Link
  BY DEF Found
<1>2. IsFiniteSet(Found(r)) /\ Cardinality(Found(r)) \in Nat
  BY <1>1, FindingsAssumption, FS_Subset, FS_CardinalityType
<1>3. \A l \in Found(r) : Finds[r][l] \in Severity /\ Finds[r][l] # None
  BY FindingsAssumption DEF Found
<1>4. SbomOf[r] \in Sbom /\ SerialOf[SbomOf[r]] \in Serial /\ HostOf[r] \in Host
  BY FindingsAssumption
<1>5. \A s \in Result : SbomOf[r] # SbomOf[s] => Found(r) \cap Found(s) = {}
  BY FindingsAssumption DEF Found
<1> QED BY <1>1, <1>2, <1>3, <1>4, <1>5

\* The state, by the parts of the invariant.
LEMMA StateFacts ==
  ASSUME IInv
  PROVE  /\ TypeOK /\ OneRunPerBundle /\ CountsAreFrozen /\ IdsAreFresh /\ OriginalIsKept
         /\ ImportsStand /\ VerifiesStand /\ CachesFit
         /\ ~raced => Alone /\ ReadsStand
         /\ document \in [Serial -> Sbom \cup {None}] /\ run \in [Id -> RunType \cup {None}]
         /\ link \in [Link -> {NoLink} \cup LinkType]
         /\ cache \in [Cve -> Answer] /\ files \subseteq Cve /\ known \subseteq Cve
         /\ nextId \in Nat /\ 1 <= nextId /\ nextId <= MaxId + 1
         /\ published \in [Cve -> 0..MaxVersion] /\ raced \in BOOLEAN
         /\ DOMAIN import = Importer /\ DOMAIN verify = Verifier
         /\ \A i \in Stored : i \in Id /\ run[i] \in RunType /\ run[i].of \in Result
<1>1. TypeOK
  BY DEF IInv
<1>2. nextId \in Nat /\ 1 <= nextId /\ nextId <= MaxId + 1
  BY <1>1, NoneFacts, TypeFacts
<1>3. \A i \in Stored : i \in Id /\ run[i] \in RunType /\ run[i].of \in Result
  BY <1>1, TypeFacts, RowFacts DEF Stored
<1> QED BY <1>1, <1>2, <1>3, TypeFacts DEF IInv

-----------------------------------------------------------------------------
(* What a transaction has read, and the tables *)

\* ImportsStand and VerifiesStand, of one transaction and any tables.
ImportStands(me, dc, lk) ==
  /\ me.pc \in {"idle", "read", "flushed"}
  /\ me.pc # "idle" => /\ me.of \in Result
                       /\ me.document => dc[SerialOf[SbomOf[me.of]]] = SbomOf[me.of]
                       /\ \A l \in Found(me.of) : me.old[l] # None => lk[l].run # None
  /\ me.pc = "flushed" => me.id \in Id

VerifyStands(me, rn, lk, fs, pb) ==
  /\ me.pc \in {"idle", "read", "asked"} /\ me.partial \in BOOLEAN
  /\ me.pc # "idle" => /\ me.id \in Id /\ rn[me.id] # None /\ me.read \subseteq Link /\ me.files \subseteq fs /\ me.stale \subseteq Cve
                       /\ \A l \in me.read : lk[l].run # None
                       /\ \A d \in Cve : me.cache[d] # None => me.cache[d] \in 0..pb[d]
  /\ me.pc = "asked" => /\ me.got.new \subseteq Cve /\ me.got.files \subseteq Cve
                        /\ \A d \in Cve : me.got.answer[d] # None => me.got.answer[d] \in 0..pb[d]
                        /\ \A d \in me.got.new : me.got.answer[d] # None

\* ReadsStand, of one transaction.
ImportFresh(me, rn, lk) ==
  /\ me.pc # "idle" => \A l \in Found(me.of) : me.old[l] = lk[l].severity
  /\ me.pc = "flushed" => \A j \in Id : rn[j] # None => j < me.id

VerifyFresh(me, lk, ch, fs) ==
  /\ me.pc # "idle" => /\ me.cache = ch /\ me.files = fs /\ me.read = {l \in Link : lk[l].run = me.id}
                       /\ \A l \in me.read : me.old[l].host = lk[l].host
  /\ me.pc = "asked" => \A d \in Cve : /\ d \notin me.got.new => me.got.answer[d] = ch[d]
                                       /\ ch[d] # None => ch[d] <= me.got.answer[d]

VerdictsCached(lk, ch) ==
  \A l \in Link : lk[l].tracker # None => ch[CveOf[l]] # None /\ lk[l].tracker <= ch[CveOf[l]]

\* The invariant by those parts.
LEMMA Parts ==
  /\ ImportsStand <=> \A i \in Importer : ImportStands(import[i], document, link)
  /\ VerifiesStand <=> \A w \in Verifier : VerifyStands(verify[w], run, link, files, published)
  /\ ReadsStand <=> /\ \A i \in Importer : ImportFresh(import[i], run, link)
                    /\ \A w \in Verifier : VerifyFresh(verify[w], link, cache, files)
                    /\ VerdictsCached(link, cache)
<1>1. ImportsStand <=> \A i \in Importer : ImportStands(import[i], document, link)
  BY DEF ImportsStand, ImportStands
<1>2. VerifiesStand <=> \A w \in Verifier : VerifyStands(verify[w], run, link, files, published)
  BY DEF VerifiesStand, VerifyStands, Stored
<1>3. ReadsStand <=> /\ \A i \in Importer : ImportFresh(import[i], run, link)
                     /\ \A w \in Verifier : VerifyFresh(verify[w], link, cache, files)
                     /\ VerdictsCached(link, cache)
  BY DEF ReadsStand, ImportFresh, VerifyFresh, VerdictsCached, Stored, Rows
<1> QED BY <1>1, <1>2, <1>3

\* The same parts after a step.
LEMMA PartsAfter ==
  /\ (\A i \in Importer : ImportStands(import'[i], document', link')) => ImportsStand'
  /\ (\A w \in Verifier : VerifyStands(verify'[w], run', link', files', published')) => VerifiesStand'
  /\ /\ \A i \in Importer : ImportFresh(import'[i], run', link')
     /\ \A w \in Verifier : VerifyFresh(verify'[w], link', cache', files')
     /\ VerdictsCached(link', cache')
     => ReadsStand'
<1>1. (\A i \in Importer : ImportStands(import'[i], document', link')) => ImportsStand'
  BY DEF ImportsStand, ImportStands
<1>2. (\A w \in Verifier : VerifyStands(verify'[w], run', link', files', published')) => VerifiesStand'
  BY DEF VerifiesStand, VerifyStands, Stored
<1>3. /\ \A i \in Importer : ImportFresh(import'[i], run', link')
      /\ \A w \in Verifier : VerifyFresh(verify'[w], link', cache', files')
      /\ VerdictsCached(link', cache')
      => ReadsStand'
  BY DEF ReadsStand, ImportFresh, VerifyFresh, VerdictsCached, Stored, Rows
<1> QED BY <1>1, <1>2, <1>3

\* Where nothing is deleted, what an import has read stands.
LEMMA ImportStandsOn ==
  ASSUME NEW me, NEW dc, NEW lk, NEW dc2, NEW lk2,
         ImportStands(me, dc, lk),
         \A s \in Serial : dc[s] # None => dc2[s] = dc[s],
         \A l \in Link : lk[l].run # None => lk2[l].run # None
  PROVE  ImportStands(me, dc2, lk2)
<1>1. CASE me.pc = "idle"
  BY <1>1 DEF ImportStands
<1>2. CASE me.pc # "idle"
  <2>1. me.of \in Result
    BY <1>2 DEF ImportStands
  <2>2. Found(me.of) \subseteq Link /\ SbomOf[me.of] # None /\ SerialOf[SbomOf[me.of]] \in Serial
    BY <2>1, FoundFacts, NoneFacts
  <2> QED BY <1>2, <2>1, <2>2 DEF ImportStands
<1> QED BY <1>1, <1>2

\* And what a verification has read and was answered.
LEMMA VerifyStandsOn ==
  ASSUME NEW me, NEW rn, NEW lk, NEW fs, NEW pb, NEW rn2, NEW lk2, NEW fs2, NEW pb2,
         VerifyStands(me, rn, lk, fs, pb),
         \A j \in Id : rn[j] # None => rn2[j] # None,
         \A l \in Link : lk[l].run # None => lk2[l].run # None,
         fs \subseteq fs2,
         \A d \in Cve : pb[d] \in Nat /\ pb2[d] \in Nat /\ pb[d] <= pb2[d]
  PROVE  VerifyStands(me, rn2, lk2, fs2, pb2)
<1>1. \A d \in Cve : 0..pb[d] \subseteq 0..pb2[d]
  OBVIOUS
<1>2. me.pc # "idle" => /\ me.id \in Id /\ rn2[me.id] # None /\ me.read \subseteq Link /\ me.files \subseteq fs2 /\ me.stale \subseteq Cve
                        /\ \A l \in me.read : lk2[l].run # None
                        /\ \A d \in Cve : me.cache[d] # None => me.cache[d] \in 0..pb2[d]
  BY <1>1 DEF VerifyStands
<1>3. me.pc = "asked" => /\ me.got.new \subseteq Cve /\ me.got.files \subseteq Cve
                         /\ \A d \in Cve : me.got.answer[d] # None => me.got.answer[d] \in 0..pb2[d]
                         /\ \A d \in me.got.new : me.got.answer[d] # None
  BY <1>1 DEF VerifyStands
<1>4. me.pc \in {"idle", "read", "asked"} /\ me.partial \in BOOLEAN
  BY DEF VerifyStands
<1> QED BY <1>2, <1>3, <1>4 DEF VerifyStands

-----------------------------------------------------------------------------
(* One import moves, one verification moves: the tables stay *)

\* The invariant after a step of an import that writes no table.
LEMMA ImportMoves ==
  ASSUME IInv, NEW i \in Importer,
         DOMAIN import' = Importer, \A j \in Importer \ {i} : import'[j] = import[j],
         DOMAIN import'[i] = DOMAIN NoImport,
         ImportStands(import'[i], document, link),
         import'[i].pc = "flushed" =>
            /\ import'[i].id \in Id /\ import'[i].id < nextId' /\ run[import'[i].id] = None
            /\ \A j \in Importer \ {i} : import[j].pc = "flushed" => import[j].id # import'[i].id,
         nextId' \in 1..(MaxId + 1), nextId <= nextId',
         raced' \in BOOLEAN, ~raced' => ~raced,
         ~raced' /\ import'[i].pc # "idle" =>
            /\ \A j \in Importer \ {i} : import[j].pc = "idle"
            /\ \A w \in Verifier : verify[w].pc = "idle"
            /\ ImportFresh(import'[i], run, link),
         UNCHANGED <<tables, caches, verify, published>>
  PROVE  IInv'
<1> DEFINE me == import'[i]
<1>0. /\ UNCHANGED <<document, run, link, known, cache, files, verify, published>>
      /\ Stored' = Stored
  BY DEF tables, caches, Stored
<1>1. TypeOK'
  BY <1>0, StateFacts DEF TypeOK
<1>2. OneRunPerBundle' /\ CountsAreFrozen' /\ OriginalIsKept' /\ CachesFit' /\ VerifiesStand'
  <2>1. OneRunPerBundle' /\ CountsAreFrozen'
    BY <1>0, StateFacts DEF OneRunPerBundle, CountsAreFrozen
  <2>2. OriginalIsKept' /\ CachesFit'
    BY <1>0, StateFacts DEF OriginalIsKept, CachesFit
  <2>3. VerifiesStand'
    BY <1>0, StateFacts DEF VerifiesStand
  <2> QED BY <2>1, <2>2, <2>3
<1>3. IdsAreFresh'
  <2>1. \A j \in Id : j >= nextId' => run'[j] = None
    BY <1>0, StateFacts, NoneFacts DEF IdsAreFresh, Id
  <2>2. \A x \in Importer : import'[x].pc = "flushed" =>
           /\ import'[x].id < nextId' /\ run'[import'[x].id] = None
    <3> SUFFICES ASSUME NEW x \in Importer, import'[x].pc = "flushed"
                 PROVE  import'[x].id < nextId' /\ run'[import'[x].id] = None
      OBVIOUS
    <3>1. CASE x = i
      BY <1>0, <3>1
    <3>2. CASE x # i
      <4>1. import'[x] = import[x]
        BY <3>2
      <4>2. import[x].id < nextId /\ run[import[x].id] = None /\ import[x].id \in Id
        BY <4>1, StateFacts DEF IdsAreFresh, ImportsStand
      <4> QED BY <1>0, <4>1, <4>2, StateFacts DEF Id
    <3> QED BY <3>1, <3>2
  <2>3. \A x \in Importer : \A j \in Importer \ {x} :
           import'[x].pc = "flushed" /\ import'[j].pc = "flushed" => import'[j].id # import'[x].id
    <3>1. \A x \in Importer : \A j \in Importer \ {x} :
             import[x].pc = "flushed" /\ import[j].pc = "flushed" => import[j].id # import[x].id
      BY StateFacts DEF IdsAreFresh
    <3> QED BY <3>1
  <2> QED BY <2>1, <2>2, <2>3 DEF IdsAreFresh
<1>4. ImportsStand'
  <2>1. \A j \in Importer : ImportStands(import[j], document, link)
    BY StateFacts, Parts
  <2>2. \A j \in Importer : ImportStands(import'[j], document', link')
    BY <1>0, <2>1
  <2> QED BY <2>2, PartsAfter
<1>5. ASSUME ~raced' PROVE Alone'
  <2>1. Alone
    BY <1>5, StateFacts
  <2> QED BY <1>0, <1>5, <2>1 DEF Alone
<1>6. ASSUME ~raced' PROVE ReadsStand'
  <2>1. /\ \A j \in Importer : ImportFresh(import[j], run, link)
        /\ \A w \in Verifier : VerifyFresh(verify[w], link, cache, files)
        /\ VerdictsCached(link, cache)
    BY <1>6, StateFacts, Parts
  <2>2. ImportFresh(import'[i], run, link)
    BY <1>6, StateFacts DEF ImportFresh, ImportStands
  <2>3. /\ \A j \in Importer : ImportFresh(import'[j], run', link')
        /\ \A w \in Verifier : VerifyFresh(verify'[w], link', cache', files')
        /\ VerdictsCached(link', cache')
    BY <1>0, <2>1, <2>2
  <2> QED BY <2>3, PartsAfter
<1> QED BY <1>1, <1>2, <1>3, <1>4, <1>5, <1>6 DEF IInv

\* The invariant after a step of a verification that writes no table.
LEMMA VerifyMoves ==
  ASSUME IInv, NEW w \in Verifier,
         DOMAIN verify' = Verifier, \A v \in Verifier \ {w} : verify'[v] = verify[v],
         DOMAIN verify'[w] = DOMAIN NoVerify,
         VerifyStands(verify'[w], run, link, files, published),
         raced' \in BOOLEAN, ~raced' => ~raced,
         ~raced' /\ verify'[w].pc # "idle" =>
            /\ \A v \in Verifier \ {w} : verify[v].pc = "idle"
            /\ \A i \in Importer : import[i].pc = "idle"
            /\ VerifyFresh(verify'[w], link, cache, files),
         UNCHANGED <<tables, caches, nextId, import, published>>
  PROVE  IInv'
<1>0. /\ UNCHANGED <<document, run, link, known, cache, files, nextId, import, published>>
      /\ Stored' = Stored
  BY DEF tables, caches, Stored
<1>1. TypeOK'
  BY <1>0, StateFacts DEF TypeOK
<1>2. OneRunPerBundle' /\ CountsAreFrozen' /\ OriginalIsKept' /\ CachesFit' /\ ImportsStand' /\ IdsAreFresh'
  <2>1. OneRunPerBundle' /\ CountsAreFrozen' /\ IdsAreFresh'
    BY <1>0, StateFacts DEF OneRunPerBundle, CountsAreFrozen, IdsAreFresh
  <2>2. OriginalIsKept' /\ CachesFit'
    BY <1>0, StateFacts DEF OriginalIsKept, CachesFit
  <2>3. ImportsStand'
    BY <1>0, StateFacts DEF ImportsStand
  <2> QED BY <2>1, <2>2, <2>3
<1>4. VerifiesStand'
  <2>1. \A v \in Verifier : VerifyStands(verify[v], run, link, files, published)
    BY StateFacts, Parts
  <2>2. \A v \in Verifier : VerifyStands(verify'[v], run', link', files', published')
    BY <1>0, <2>1
  <2> QED BY <2>2, PartsAfter
<1>5. ASSUME ~raced' PROVE Alone'
  <2>1. Alone
    BY <1>5, StateFacts
  <2> QED BY <1>0, <1>5, <2>1 DEF Alone
<1>6. ASSUME ~raced' PROVE ReadsStand'
  <2>1. /\ \A j \in Importer : ImportFresh(import[j], run, link)
        /\ \A v \in Verifier : VerifyFresh(verify[v], link, cache, files)
        /\ VerdictsCached(link, cache)
    BY <1>6, StateFacts, Parts
  <2>2. VerifyFresh(verify'[w], link, cache, files)
    BY <1>6 DEF VerifyFresh
  <2>3. /\ \A j \in Importer : ImportFresh(import'[j], run', link')
        /\ \A v \in Verifier : VerifyFresh(verify'[v], link', cache', files')
        /\ VerdictsCached(link', cache')
    BY <1>0, <2>1, <2>2
  <2> QED BY <2>3, PartsAfter
<1> QED BY <1>1, <1>2, <1>4, <1>5, <1>6 DEF IInv

\* Nothing is under way beside a transaction that begins before any overlap.
LEMMA BeginsAlone ==
  ASSUME IInv, raced' = (raced \/ Busy)
  PROVE  /\ raced' \in BOOLEAN /\ (~raced' => ~raced)
         /\ ~raced' => /\ \A i \in Importer : import[i].pc = "idle"
                       /\ \A w \in Verifier : verify[w].pc = "idle"
<1>1. raced \in BOOLEAN
  BY StateFacts
<1>2. ~Busy => /\ \A i \in Importer : import[i].pc = "idle"
               /\ \A w \in Verifier : verify[w].pc = "idle"
  BY DEF Busy, UnderWay
<1>3. Busy \in BOOLEAN
  BY DEF Busy
<1> QED BY <1>1, <1>2, <1>3

\* A transaction that is idle stands.
LEMMA IdleFacts ==
  /\ DOMAIN NoImport = {"pc", "of", "id", "document", "old", "missing"} /\ NoImport.pc = "idle"
  /\ NoVerify.pc = "idle" /\ NoVerify.partial = FALSE
  /\ DOMAIN NoVerify = {"pc", "id", "read", "old", "cache", "files", "stale", "got", "partial"}
  BY DEF NoImport, NoVerify

\* ImportReads keeps the invariant: what it has read is what is stored.
LEMMA ReadsStep ==
  ASSUME IInv, NEW i \in Importer, NEW r \in Result, ImportReads(i, r)
  PROVE  IInv'
<1> DEFINE me == [pc |-> "read", of |-> r, id |-> None, document |-> document[SerialOf[SbomOf[r]]] # None,
                  old |-> [l \in Found(r) |-> link[l].severity],
                  missing |-> {CveOf[l] : l \in Found(r)} \ known]
<1>1. /\ import' = [import EXCEPT ![i] = me] /\ raced' = (raced \/ Busy)
      /\ document[SerialOf[SbomOf[r]]] \in {None, SbomOf[r]}
      /\ UNCHANGED <<tables, caches, nextId, verify, published>>
  BY DEF ImportReads
<1>2. /\ me.pc = "read" /\ me.of = r /\ (me.document <=> document[SerialOf[SbomOf[r]]] # None)
      /\ me.old = [l \in Found(r) |-> link[l].severity] /\ DOMAIN me = DOMAIN NoImport
  BY IdleFacts
<1>3. DOMAIN import = Importer
  BY StateFacts
<1> HIDE DEF me
<1>4. DOMAIN import' = Importer /\ import'[i] = me /\ \A j \in Importer \ {i} : import'[j] = import[j]
  BY <1>1, <1>3
<1>5. \A l \in Found(r) : /\ me.old[l] = link[l].severity /\ l \in Link
                          /\ link[l].severity # None => link[l].run # None
  BY <1>2, FoundFacts, StateFacts, LinkFacts
<1>6. ImportStands(me, document, link)
  BY <1>1, <1>2, <1>5 DEF ImportStands
<1>7. ImportFresh(me, run, link)
  BY <1>2, <1>5 DEF ImportFresh
<1>8. nextId' = nextId /\ nextId' \in 1..(MaxId + 1) /\ nextId <= nextId'
  BY <1>1, StateFacts, NoneFacts
<1> QED BY <1>1, <1>2, <1>4, <1>6, <1>7, <1>8, BeginsAlone, ImportMoves

\* ImportFlushes keeps the invariant: the id was never given out.
LEMMA FlushesStep ==
  ASSUME IInv, NEW i \in Importer, ImportFlushes(i)
  PROVE  IInv'
<1>1. /\ import[i].pc = "read" /\ nextId <= MaxId /\ nextId' = nextId + 1
      /\ import' = [import EXCEPT ![i].pc = "flushed", ![i].id = nextId]
      /\ UNCHANGED <<tables, caches, verify, published, raced>>
  BY DEF ImportFlushes
<1>2. DOMAIN import = Importer /\ DOMAIN import[i] = DOMAIN NoImport
  BY StateFacts, TypeFacts
<1>3. DOMAIN import' = Importer /\ \A j \in Importer \ {i} : import'[j] = import[j]
  BY <1>1, <1>2
<1>4. /\ DOMAIN import'[i] = DOMAIN NoImport /\ import'[i].pc = "flushed" /\ import'[i].id = nextId
      /\ import'[i].of = import[i].of /\ import'[i].document = import[i].document
      /\ import'[i].old = import[i].old
  BY <1>1, <1>2, IdleFacts
<1>5. nextId \in Id /\ run[nextId] = None
  BY <1>1, StateFacts, NoneFacts DEF Id, IdsAreFresh
<1>6. ImportStands(import[i], document, link)
  BY StateFacts, Parts
<1>7. ImportStands(import'[i], document, link)
  BY <1>1, <1>4, <1>5, <1>6 DEF ImportStands
<1>8. \A j \in Importer \ {i} : import[j].pc = "flushed" => import[j].id # import'[i].id
  <2>1. \A j \in Importer : import[j].pc = "flushed" => import[j].id < nextId
    BY StateFacts DEF IdsAreFresh
  <2> QED BY <1>4, <1>5, <2>1 DEF Id
<1>9. ~raced' => /\ \A j \in Importer \ {i} : import[j].pc = "idle"
                 /\ \A w \in Verifier : verify[w].pc = "idle"
                 /\ ImportFresh(import'[i], run, link)
  <2> SUFFICES ASSUME ~raced'
               PROVE  /\ \A j \in Importer \ {i} : import[j].pc = "idle"
                      /\ \A w \in Verifier : verify[w].pc = "idle"
                      /\ ImportFresh(import'[i], run, link)
    OBVIOUS
  <2>1. Alone /\ ReadsStand
    BY <1>1, StateFacts
  <2>2. ImportFresh(import[i], run, link)
    BY <2>1, Parts
  <2>3. \A j \in Id : run[j] # None => j < nextId
    BY StateFacts DEF IdsAreFresh, Id
  <2> QED BY <1>1, <1>4, <2>1, <2>2, <2>3 DEF ImportFresh, Alone
<1>10. nextId' \in 1..(MaxId + 1) /\ nextId <= nextId' /\ nextId < nextId'
  BY <1>1, StateFacts, NoneFacts
<1>11. raced' \in BOOLEAN /\ (~raced' => ~raced)
  BY <1>1, StateFacts
<1> QED BY <1>1, <1>3, <1>4, <1>5, <1>7, <1>8, <1>9, <1>10, <1>11, ImportMoves

\* ImportRollsBack keeps the invariant.
LEMMA ImportRollsBackStep ==
  ASSUME IInv, NEW i \in Importer, ImportRollsBack(i)
  PROVE  IInv'
<1>1. /\ import' = [import EXCEPT ![i] = NoImport]
      /\ UNCHANGED <<tables, caches, nextId, verify, published, raced>>
  BY DEF ImportRollsBack
<1>2. DOMAIN import' = Importer /\ import'[i] = NoImport /\ \A j \in Importer \ {i} : import'[j] = import[j]
  BY <1>1, StateFacts
<1>3. ImportStands(NoImport, document, link)
  BY IdleFacts DEF ImportStands
<1>4. nextId' = nextId /\ nextId' \in 1..(MaxId + 1) /\ nextId <= nextId'
  BY <1>1, StateFacts, NoneFacts
<1>5. raced' \in BOOLEAN /\ (~raced' => ~raced)
  BY <1>1, StateFacts
<1> QED BY <1>1, <1>2, <1>3, <1>4, <1>5, IdleFacts, ImportMoves

\* VerifyReads keeps the invariant: links of a stored run, and the caches.
LEMMA VerifyReadsStep ==
  ASSUME IInv, NEW w \in Verifier, NEW id \in Id, VerifyReads(w, id)
  PROVE  IInv'
<1>1. PICK stale \in SUBSET {CveOf[l] : l \in Rows(link, id)} :
        verify' = [verify EXCEPT ![w] =
            [NoVerify EXCEPT !.pc = "read", !.id = id, !.read = Rows(link, id),
                !.old = [l \in Rows(link, id) |-> [tracker |-> link[l].tracker, host |-> link[l].host]],
                !.cache = cache, !.files = files, !.stale = stale]]
  BY DEF VerifyReads
<1>2. /\ run[id] # None /\ raced' = (raced \/ Busy)
      /\ UNCHANGED <<tables, caches, nextId, import, published>>
  BY DEF VerifyReads
<1> DEFINE me == [NoVerify EXCEPT !.pc = "read", !.id = id, !.read = Rows(link, id),
                !.old = [l \in Rows(link, id) |-> [tracker |-> link[l].tracker, host |-> link[l].host]],
                !.cache = cache, !.files = files, !.stale = stale]
<1>3. /\ me.pc = "read" /\ me.id = id /\ me.read = Rows(link, id) /\ me.cache = cache /\ me.files = files
      /\ me.old = [l \in Rows(link, id) |-> [tracker |-> link[l].tracker, host |-> link[l].host]]
      /\ me.stale = stale /\ me.partial = FALSE /\ DOMAIN me = DOMAIN NoVerify
  BY IdleFacts
<1>4. verify' = [verify EXCEPT ![w] = me] /\ DOMAIN verify = Verifier
  BY <1>1, StateFacts
<1> HIDE DEF me
<1>5. DOMAIN verify' = Verifier /\ verify'[w] = me /\ \A v \in Verifier \ {w} : verify'[v] = verify[v]
  BY <1>4
<1>6. \A l \in Rows(link, id) : l \in Link /\ link[l].run # None /\ me.old[l].host = link[l].host
  BY <1>3, NoneFacts DEF Rows
<1>7. \A d \in Cve : cache[d] # None => cache[d] \in 0..published[d]
  <2>1. \A d \in Cve : cache[d] \in Answer /\ published[d] \in Nat /\ (cache[d] # None => cache[d] <= published[d])
    BY StateFacts, NoneFacts DEF CachesFit
  <2> QED BY <2>1, NoneFacts DEF Answer
<1>8. VerifyStands(me, run, link, files, published)
  <2>1. stale \subseteq Cve
    BY <1>6, FindingsAssumption
  <2> QED BY <1>2, <1>3, <1>6, <1>7, <2>1 DEF VerifyStands
<1>9. VerifyFresh(me, link, cache, files)
  BY <1>3, <1>6 DEF VerifyFresh, Rows
<1> QED BY <1>2, <1>3, <1>5, <1>8, <1>9, BeginsAlone, VerifyMoves

\* VerifyAsks keeps the invariant: an answer is the tracker's or the cached one.
LEMMA AsksStep ==
  ASSUME IInv, NEW w \in Verifier, VerifyAsks(w)
  PROVE  IInv'
<1> DEFINE old == verify[w]
<1>1. PICK asked \in SUBSET old.stale, begun \in BOOLEAN :
        \E failed \in SUBSET asked, reached \in SUBSET Unlisted(w) : \E listed \in SUBSET reached :
          /\ asked # old.stale => ~begun
          /\ ~begun => reached = {}
          /\ verify' = [verify EXCEPT
            ![w].pc = "asked",
            ![w].got = [answer |-> Answers(w, asked, failed, listed),
                        new |-> asked \ failed, files |-> listed],
            ![w].partial = asked # old.stale \/ (begun /\ reached # Unlisted(w))]
  BY Zenon DEF VerifyAsks
<1>2. PICK failed \in SUBSET asked, reached \in SUBSET Unlisted(w) : \E listed \in SUBSET reached :
          verify' = [verify EXCEPT
            ![w].pc = "asked",
            ![w].got = [answer |-> Answers(w, asked, failed, listed),
                        new |-> asked \ failed, files |-> listed],
            ![w].partial = asked # old.stale \/ (begun /\ reached # Unlisted(w))]
  BY <1>1
<1>3. PICK listed \in SUBSET reached :
          verify' = [verify EXCEPT
            ![w].pc = "asked",
            ![w].got = [answer |-> Answers(w, asked, failed, listed),
                        new |-> asked \ failed, files |-> listed],
            ![w].partial = asked # old.stale \/ (begun /\ reached # Unlisted(w))]
  BY <1>2
<1>4. old.pc = "read" /\ UNCHANGED <<tables, caches, nextId, import, published, raced>>
  BY DEF VerifyAsks
<1> DEFINE got == [answer |-> Answers(w, asked, failed, listed), new |-> asked \ failed, files |-> listed]
           partial == asked # old.stale \/ (begun /\ reached # Unlisted(w))
<1>5. got.answer = Answers(w, asked, failed, listed) /\ got.new = asked \ failed /\ got.files = listed
  OBVIOUS
<1>6. verify' = [verify EXCEPT ![w].pc = "asked", ![w].got = got, ![w].partial = partial]
  BY <1>3
<1>7. partial \in BOOLEAN
  OBVIOUS
<1> HIDE DEF got, partial
<1>8. DOMAIN verify = Verifier /\ DOMAIN verify[w] = DOMAIN NoVerify
  BY StateFacts, TypeFacts
<1>9. DOMAIN verify' = Verifier /\ \A v \in Verifier \ {w} : verify'[v] = verify[v]
  BY <1>6, <1>8
<1>10. /\ DOMAIN verify'[w] = DOMAIN NoVerify /\ verify'[w].pc = "asked" /\ verify'[w].got = got
       /\ verify'[w].partial = partial /\ verify'[w].id = old.id /\ verify'[w].read = old.read
       /\ verify'[w].old = old.old /\ verify'[w].cache = old.cache /\ verify'[w].files = old.files
       /\ verify'[w].stale = old.stale
  BY <1>6, <1>8, IdleFacts
<1>11. VerifyStands(old, run, link, files, published)
  BY StateFacts, Parts
<1>12. old.stale \subseteq Cve /\ old.read \subseteq Link
  BY <1>4, <1>11 DEF VerifyStands
<1>13. Unlisted(w) \subseteq Cve
  BY <1>12, FindingsAssumption DEF Unlisted
<1>14. \A d \in Cve : got.answer[d] = IF d \in asked \ failed THEN published[d] ELSE old.cache[d]
  BY <1>5 DEF Answers
<1>15. \A d \in Cve : published[d] \in 0..published[d] /\ published[d] # None /\ published[d] \in Nat
  BY StateFacts, NoneFacts
<1>16. \A d \in Cve : old.cache[d] # None => old.cache[d] \in 0..published[d]
  BY <1>4, <1>11 DEF VerifyStands
<1>17. VerifyStands(verify'[w], run, link, files, published)
  <2>1. got.new \subseteq Cve /\ got.files \subseteq Cve
    BY <1>5, <1>12, <1>13
  <2>2. \A d \in Cve : got.answer[d] # None => got.answer[d] \in 0..published[d]
    BY <1>14, <1>15, <1>16
  <2>3. \A d \in got.new : got.answer[d] # None
    BY <1>5, <1>14, <1>15, <2>1
  <2> QED BY <1>4, <1>7, <1>10, <1>11, <2>1, <2>2, <2>3 DEF VerifyStands
<1>18. ~raced' => /\ \A v \in Verifier \ {w} : verify[v].pc = "idle"
                  /\ \A i \in Importer : import[i].pc = "idle"
                  /\ VerifyFresh(verify'[w], link, cache, files)
  <2> SUFFICES ASSUME ~raced'
               PROVE  /\ \A v \in Verifier \ {w} : verify[v].pc = "idle"
                      /\ \A i \in Importer : import[i].pc = "idle"
                      /\ VerifyFresh(verify'[w], link, cache, files)
    OBVIOUS
  <2>1. Alone /\ ReadsStand
    BY <1>4, StateFacts
  <2>2. VerifyFresh(old, link, cache, files)
    BY <2>1, Parts
  <2>3. old.cache = cache
    BY <1>4, <2>2 DEF VerifyFresh
  <2>4. \A d \in Cve : cache[d] # None => cache[d] <= published[d] /\ cache[d] \in Nat
    BY StateFacts, NoneFacts DEF CachesFit, Answer
  <2>5. \A d \in Cve : /\ d \notin got.new => got.answer[d] = cache[d]
                       /\ cache[d] # None => cache[d] <= got.answer[d]
    BY <1>5, <1>14, <2>3, <2>4
  <2>6. VerifyFresh(verify'[w], link, cache, files)
    BY <1>4, <1>10, <2>2, <2>5 DEF VerifyFresh
  <2> QED BY <1>4, <2>1, <2>6 DEF Alone
<1>19. raced' \in BOOLEAN /\ (~raced' => ~raced) /\ UNCHANGED <<tables, caches, nextId, import, published>>
  BY <1>4, StateFacts
<1> QED BY <1>9, <1>10, <1>17, <1>18, <1>19, VerifyMoves

\* VerifyRollsBack keeps the invariant.
LEMMA VerifyRollsBackStep ==
  ASSUME IInv, NEW w \in Verifier, VerifyRollsBack(w)
  PROVE  IInv'
<1>1. /\ verify' = [verify EXCEPT ![w] = NoVerify]
      /\ UNCHANGED <<tables, caches, nextId, import, published, raced>>
  BY DEF VerifyRollsBack
<1>2. DOMAIN verify' = Verifier /\ verify'[w] = NoVerify /\ \A v \in Verifier \ {w} : verify'[v] = verify[v]
  BY <1>1, StateFacts
<1>3. VerifyStands(NoVerify, run, link, files, published)
  BY IdleFacts DEF VerifyStands
<1>4. raced' \in BOOLEAN /\ (~raced' => ~raced) /\ UNCHANGED <<tables, caches, nextId, import, published>>
  BY <1>1, StateFacts
<1> QED BY <1>2, <1>3, <1>4, IdleFacts, VerifyMoves

\* TrackerPublishes keeps the invariant: no answer is ahead of it.
LEMMA PublishesStep ==
  ASSUME IInv, NEW c \in Cve, TrackerPublishes(c)
  PROVE  IInv'
<1>1. /\ published[c] < MaxVersion /\ published' = [published EXCEPT ![c] = @ + 1]
      /\ UNCHANGED <<document, run, link, known, cache, files, nextId, import, verify, raced>>
      /\ Stored' = Stored
  BY DEF TrackerPublishes, tables, caches, Stored
<1>2. published' \in [Cve -> 0..MaxVersion]
  BY <1>1, StateFacts, NoneFacts
<1>3. \A d \in Cve : published[d] \in Nat /\ published'[d] \in Nat /\ published[d] <= published'[d]
  BY <1>1, <1>2, StateFacts, NoneFacts
<1>4. TypeOK'
  BY <1>1, <1>2, StateFacts DEF TypeOK
<1>5. OneRunPerBundle' /\ CountsAreFrozen' /\ OriginalIsKept' /\ ImportsStand' /\ IdsAreFresh'
  BY <1>1, StateFacts DEF OneRunPerBundle, CountsAreFrozen, OriginalIsKept, ImportsStand, IdsAreFresh
<1>6. CachesFit'
  <2>1. \A d \in Cve : cache[d] # None => cache[d] \in Nat
    BY StateFacts, NoneFacts DEF Answer
  <2> QED BY <1>1, <1>3, <2>1, StateFacts DEF CachesFit
<1>7. VerifiesStand'
  <2>1. \A v \in Verifier : VerifyStands(verify[v], run, link, files, published)
    BY StateFacts, Parts
  <2>2. \A v \in Verifier : VerifyStands(verify[v], run, link, files, published')
    BY <1>3, <2>1, VerifyStandsOn
  <2> QED BY <1>1, <2>2, PartsAfter
<1>8. ~raced' => Alone' /\ ReadsStand'
  BY <1>1, StateFacts DEF Alone, ReadsStand
<1> QED BY <1>4, <1>5, <1>6, <1>7, <1>8 DEF IInv

-----------------------------------------------------------------------------
(* An import commits *)

\* A link of the report belongs to the new run and says what the report says,
\* unless it was changed behind the import; its verdicts stay.
LEMMA RelinkedFacts ==
  ASSUME IInv, NEW i \in Importer, import[i].pc = "flushed", NEW l \in Found(import[i].of)
  PROVE  LET k == Relinked(l, import[i]) IN
         /\ k \in LinkType /\ k.run = import[i].id
         /\ k.tracker = link[l].tracker /\ k.host = link[l].host
         /\ (import[i].old[l] = link[l].severity => k.severity = Finds[import[i].of][l])
<1> DEFINE me == import[i]
<1>1. ImportStands(me, document, link)
  BY StateFacts, Parts
<1>2. me.of \in Result /\ me.id \in Id /\ (me.old[l] # None => link[l].run # None)
  BY <1>1 DEF ImportStands
<1>3. l \in Link /\ Finds[me.of][l] \in Severity /\ Finds[me.of][l] # None
  BY <1>2, FoundFacts
<1> DEFINE old == link[l]
           severity == IF me.old[l] = Finds[me.of][l] THEN old.severity ELSE Finds[me.of][l]
           k0 == [old EXCEPT !.run = me.id]
           k1 == [k0 EXCEPT !.severity = severity]
<1>4. old \in {NoLink} \cup LinkType /\ (old.run # None => old \in LinkType)
  BY <1>3, StateFacts, LinkFacts
<1>5. severity \in Severity
  <2>1. CASE me.old[l] = Finds[me.of][l]
    BY <1>2, <1>3, <1>4, <2>1, RowFacts
  <2>2. CASE me.old[l] # Finds[me.of][l]
    BY <1>3, <2>2
  <2> QED BY <2>1, <2>2
<1>6. me.old[l] = old.severity => severity = Finds[me.of][l]
  OBVIOUS
<1>7. Relinked(l, me) = k1
  BY DEF Relinked
<1> HIDE DEF severity
<1>8. k1 \in LinkType /\ k1.run = me.id /\ k1.severity = severity /\ k1.tracker = old.tracker /\ k1.host = old.host
  <2>1. CASE old = NoLink
    <3>0. k0 = [run |-> me.id, severity |-> None, tracker |-> None, host |-> None]
      BY <2>1 DEF NoLink
    <3> HIDE DEF k0
    <3>1. k1 = [run |-> me.id, severity |-> severity, tracker |-> None, host |-> None]
      BY <3>0
    <3>2. old.tracker = None /\ old.host = None /\ None \in Answer
      BY <2>1 DEF NoLink, Answer
    <3> HIDE DEF k1
    <3> QED BY <1>2, <1>5, <3>1, <3>2 DEF LinkType
  <2>2. CASE old \in LinkType
    BY <1>2, <1>5, <2>2 DEF LinkType
  <2> QED BY <1>4, <2>1, <2>2
<1> HIDE DEF k1
<1> QED BY <1>6, <1>7, <1>8

\* What the commit of an import writes.
LEMMA ImportCommitFacts ==
  ASSUME IInv, NEW i \in Importer, ImportCommits(i)
  PROVE  LET me == import[i] IN
         /\ me.pc = "flushed" /\ me.of \in Result
         /\ me.id \in Id /\ me.id < nextId /\ run[me.id] = None
         /\ \A j \in Stored : Fingerprint[run[j].of] # Fingerprint[me.of]
         /\ document' \in [Serial -> Sbom \cup {None}] /\ document'[SerialOf[SbomOf[me.of]]] = SbomOf[me.of]
         /\ \A s \in Serial : document[s] # None => document'[s] = document[s]
         /\ link' \in [Link -> {NoLink} \cup LinkType]
         /\ \A l \in Found(me.of) : link'[l] = Relinked(l, me)
         /\ \A l \in Link \ Found(me.of) : link'[l] = link[l]
         /\ Rows(link', me.id) = Found(me.of)
         /\ run' \in [Id -> RunType \cup {None}] /\ run'[me.id] # None
         /\ run'[me.id].of = me.of /\ run'[me.id].counts = Cardinality(Found(me.of))
         /\ run'[me.id].verification = None
         /\ \A j \in Id \ {me.id} : run'[j] = run[j]
         /\ Stored' = Stored \cup {me.id}
         /\ known' \subseteq Cve
         /\ DOMAIN import' = Importer /\ import'[i] = NoImport /\ \A j \in Importer \ {i} : import'[j] = import[j]
         /\ UNCHANGED <<cache, files, nextId, verify, published, raced>>
<1> DEFINE me == import[i]
<1>1. /\ me.pc = "flushed" /\ ~Conflicts(i)
      /\ document' = [document EXCEPT ![SerialOf[SbomOf[me.of]]] = SbomOf[me.of]]
      /\ known' = known \cup {CveOf[l] : l \in Found(me.of)}
      /\ link' = [l \in Link |-> IF l \in Found(me.of) THEN Relinked(l, me) ELSE link[l]]
      /\ run' = [run EXCEPT ![me.id] = [of |-> me.of, counts |-> Cardinality(Rows(link', me.id)),
                                       verification |-> None]]
      /\ import' = [import EXCEPT ![i] = NoImport]
      /\ UNCHANGED <<cache, files, nextId, verify, published, raced>>
  BY DEF ImportCommits, caches
<1>2. ImportStands(me, document, link)
  BY StateFacts, Parts
<1>3. /\ me.of \in Result /\ me.id \in Id /\ me.id < nextId /\ run[me.id] = None
      /\ me.document => document[SerialOf[SbomOf[me.of]]] = SbomOf[me.of]
  BY <1>1, <1>2, StateFacts DEF ImportStands, IdsAreFresh
<1>4. /\ Found(me.of) \subseteq Link /\ Cardinality(Found(me.of)) \in Nat
      /\ SbomOf[me.of] \in Sbom /\ SerialOf[SbomOf[me.of]] \in Serial
  BY <1>3, FoundFacts
<1>5. /\ \A j \in Stored : Fingerprint[run[j].of] # Fingerprint[me.of]
      /\ me.document \/ document[SerialOf[SbomOf[me.of]]] = None
  BY <1>1 DEF Conflicts
<1>6. /\ document' \in [Serial -> Sbom \cup {None}] /\ document'[SerialOf[SbomOf[me.of]]] = SbomOf[me.of]
      /\ \A s \in Serial : document[s] # None => document'[s] = document[s]
  BY <1>1, <1>3, <1>4, <1>5, StateFacts
<1>7. \A l \in Found(me.of) : Relinked(l, me) \in LinkType /\ Relinked(l, me).run = me.id
  BY <1>1, RelinkedFacts
<1>8. /\ \A l \in Found(me.of) : link'[l] = Relinked(l, me)
      /\ \A l \in Link \ Found(me.of) : link'[l] = link[l]
  BY <1>1, <1>4
<1>9. link' \in [Link -> {NoLink} \cup LinkType]
  <2>1. \A l \in Link : (IF l \in Found(me.of) THEN Relinked(l, me) ELSE link[l]) \in {NoLink} \cup LinkType
    BY <1>7, StateFacts
  <2> QED BY <1>1, <2>1
<1>10. Rows(link', me.id) = Found(me.of)
  <2>1. \A l \in Link \ Found(me.of) : link[l].run # me.id
    BY <1>3, StateFacts, NoneFacts DEF OriginalIsKept, Stored
  <2>2. \A l \in Link : link'[l].run = me.id <=> l \in Found(me.of)
    BY <1>7, <1>8, <2>1
  <2> QED BY <1>4, <2>2 DEF Rows
<1> DEFINE row == [of |-> me.of, counts |-> Cardinality(Found(me.of)), verification |-> None]
<1>11. /\ row \in RunType /\ row.of = me.of /\ row.counts = Cardinality(Found(me.of))
       /\ row.verification = None
  BY <1>3, <1>4 DEF RunType
<1>12. run' = [run EXCEPT ![me.id] = row]
  BY <1>1, <1>10
<1> HIDE DEF row
<1>13. /\ run' \in [Id -> RunType \cup {None}] /\ run'[me.id] = row /\ row # None
       /\ \A j \in Id \ {me.id} : run'[j] = run[j]
  BY <1>3, <1>11, <1>12, StateFacts, NoneFacts
<1>14. Stored' = Stored \cup {me.id}
  BY <1>3, <1>13 DEF Stored
<1>15. known' \subseteq Cve
  BY <1>1, <1>4, StateFacts, FindingsAssumption
<1>16. DOMAIN import' = Importer /\ import'[i] = NoImport /\ \A j \in Importer \ {i} : import'[j] = import[j]
  BY <1>1, StateFacts
<1> QED BY <1>1, <1>3, <1>5, <1>6, <1>8, <1>9, <1>10, <1>11, <1>13, <1>14, <1>15, <1>16

\* ImportCommits keeps the invariant.
LEMMA ImportCommitsStep ==
  ASSUME IInv, NEW i \in Importer, ImportCommits(i)
  PROVE  IInv'
<1> DEFINE me == import[i]
<1>1. /\ me.pc = "flushed" /\ me.of \in Result
      /\ me.id \in Id /\ me.id < nextId /\ run[me.id] = None
      /\ \A j \in Stored : Fingerprint[run[j].of] # Fingerprint[me.of]
  BY ImportCommitFacts
<1>2. /\ document' \in [Serial -> Sbom \cup {None}] /\ document'[SerialOf[SbomOf[me.of]]] = SbomOf[me.of]
      /\ \A s \in Serial : document[s] # None => document'[s] = document[s]
  BY ImportCommitFacts
<1>3. /\ link' \in [Link -> {NoLink} \cup LinkType]
      /\ \A l \in Found(me.of) : link'[l] = Relinked(l, me)
      /\ \A l \in Link \ Found(me.of) : link'[l] = link[l]
  BY ImportCommitFacts
<1>4. /\ run' \in [Id -> RunType \cup {None}] /\ run'[me.id] # None
      /\ run'[me.id].of = me.of /\ run'[me.id].counts = Cardinality(Found(me.of))
      /\ \A j \in Id \ {me.id} : run'[j] = run[j]
      /\ Stored' = Stored \cup {me.id}
  BY ImportCommitFacts
<1>5. /\ DOMAIN import' = Importer /\ import'[i] = NoImport /\ \A j \in Importer \ {i} : import'[j] = import[j]
      /\ UNCHANGED <<cache, files, nextId, verify, published, raced>> /\ known' \subseteq Cve
  BY ImportCommitFacts
<1>6. \A l \in Found(me.of) : /\ Relinked(l, me) \in LinkType /\ Relinked(l, me).run = me.id
                              /\ Relinked(l, me).tracker = link[l].tracker /\ Relinked(l, me).host = link[l].host
  BY <1>1, RelinkedFacts
<1>7. Found(me.of) \subseteq Link
  BY <1>1, FoundFacts
<1>8. \A l \in Link : /\ link'[l].tracker = link[l].tracker /\ link'[l].host = link[l].host
                      /\ link[l].run # None => link'[l].run # None
  BY <1>1, <1>3, <1>6, NoneFacts
<1>9. /\ Stored \subseteq Id /\ me.id \notin Stored /\ Stored' \subseteq Id
      /\ \A j \in Stored : run'[j] = run[j] /\ j # me.id
      /\ \A j \in Id : run[j] # None => run'[j] # None
  BY <1>1, <1>4 DEF Stored
<1>10. TypeOK'
  <2>1. \A j \in Importer : DOMAIN import'[j] = DOMAIN NoImport
    BY <1>5, StateFacts, TypeFacts
  <2>2. nextId' \in 1..(MaxId + 1)
    BY <1>5, StateFacts, NoneFacts
  <2> QED BY <1>2, <1>3, <1>4, <1>5, <2>1, <2>2, StateFacts DEF TypeOK, RunType, LinkType
<1>11. OneRunPerBundle' /\ CountsAreFrozen'
  <2>1. OneRunPerBundle'
    BY <1>1, <1>4, <1>9, StateFacts DEF OneRunPerBundle
  <2>2. CountsAreFrozen'
    BY <1>4, <1>9, StateFacts DEF CountsAreFrozen
  <2> QED BY <2>1, <2>2
<1>12. IdsAreFresh'
  <2>1. \A j \in Id : j >= nextId' => run'[j] = None
    BY <1>1, <1>4, <1>5, StateFacts, NoneFacts DEF IdsAreFresh, Id
  <2>2. \A x \in Importer : import'[x].pc = "flushed" => x # i /\ import'[x] = import[x] /\ import[x].id # me.id
    BY <1>1, <1>5, IdleFacts, StateFacts DEF IdsAreFresh
  <2>3. \A x \in Importer : import'[x].pc = "flushed" =>
           import'[x].id < nextId' /\ run'[import'[x].id] = None
    <3> SUFFICES ASSUME NEW x \in Importer, import'[x].pc = "flushed"
                 PROVE  import'[x].id < nextId' /\ run'[import'[x].id] = None
      OBVIOUS
    <3>1. import'[x] = import[x] /\ import[x].id # me.id /\ x # i
      BY <2>2
    <3>2. import[x].id < nextId /\ run[import[x].id] = None /\ import[x].id \in Id
      BY <3>1, StateFacts DEF IdsAreFresh, ImportsStand
    <3> QED BY <1>4, <1>5, <3>1, <3>2
  <2>4. \A x \in Importer : \A j \in Importer \ {x} :
           import'[x].pc = "flushed" /\ import'[j].pc = "flushed" => import'[j].id # import'[x].id
    BY <2>2, StateFacts DEF IdsAreFresh
  <2> QED BY <2>1, <2>3, <2>4 DEF IdsAreFresh
<1>13. OriginalIsKept'
  <2>1. \A j \in Stored' : document'[SerialOf[SbomOf[run'[j].of]]] = SbomOf[run'[j].of]
    <3>1. \A j \in Stored : /\ document[SerialOf[SbomOf[run[j].of]]] = SbomOf[run[j].of]
                            /\ SbomOf[run[j].of] # None /\ SerialOf[SbomOf[run[j].of]] \in Serial
      BY StateFacts, FoundFacts, NoneFacts DEF OriginalIsKept
    <3> QED BY <1>2, <1>4, <1>9, <3>1
  <2>2. \A l \in Link : link'[l].run # None => link'[l].run \in Stored' /\ l \in Found(run'[link'[l].run].of)
    <3> SUFFICES ASSUME NEW l \in Link, link'[l].run # None
                 PROVE  link'[l].run \in Stored' /\ l \in Found(run'[link'[l].run].of)
      OBVIOUS
    <3>1. CASE l \in Found(me.of)
      BY <1>3, <1>4, <1>6, <3>1
    <3>2. CASE l \notin Found(me.of)
      BY <1>3, <1>4, <1>9, <3>2, StateFacts DEF OriginalIsKept
    <3> QED BY <3>1, <3>2
  <2> QED BY <2>1, <2>2 DEF OriginalIsKept
<1>14. ImportsStand'
  <2>1. \A j \in Importer : ImportStands(import[j], document, link)
    BY StateFacts, Parts
  <2>2. \A j \in Importer : ImportStands(import[j], document', link')
    BY <1>2, <1>8, <2>1, ImportStandsOn
  <2>3. ImportStands(NoImport, document', link')
    BY IdleFacts DEF ImportStands
  <2>4. \A j \in Importer : ImportStands(import'[j], document', link')
    BY <1>5, <2>2, <2>3
  <2> QED BY <2>4, PartsAfter
<1>15. VerifiesStand'
  <2>1. \A v \in Verifier : VerifyStands(verify[v], run, link, files, published)
    BY StateFacts, Parts
  <2>2. \A d \in Cve : published[d] \in Nat /\ published[d] <= published[d]
    BY StateFacts, NoneFacts
  <2>3. \A v \in Verifier : VerifyStands(verify[v], run', link', files, published)
    BY <1>8, <1>9, <2>1, <2>2, VerifyStandsOn
  <2> QED BY <1>5, <2>3, PartsAfter
<1>16. CachesFit'
  BY <1>5, <1>8, StateFacts DEF CachesFit
<1>17. ~raced' => Alone' /\ ReadsStand'
  <2> SUFFICES ASSUME ~raced' PROVE Alone' /\ ReadsStand'
    OBVIOUS
  <2>1. Alone /\ ReadsStand
    BY <1>5, StateFacts
  <2>2. /\ \A j \in Importer : import'[j].pc = "idle"
        /\ \A v \in Verifier : verify'[v].pc = "idle"
    BY <1>1, <1>5, <2>1, IdleFacts DEF Alone
  <2>3. Alone'
    BY <2>2 DEF Alone
  <2>4. VerdictsCached(link', cache')
    BY <1>5, <1>8, <2>1, Parts DEF VerdictsCached
  <2>5. /\ \A j \in Importer : ImportFresh(import'[j], run', link')
        /\ \A v \in Verifier : VerifyFresh(verify'[v], link', cache', files')
    BY <2>2 DEF ImportFresh, VerifyFresh
  <2> QED BY <2>3, <2>4, <2>5, PartsAfter
<1> QED BY <1>10, <1>11, <1>12, <1>13, <1>14, <1>15, <1>16, <1>17 DEF IInv

-----------------------------------------------------------------------------
(* A verification commits *)

\* A link that was read keeps its run and its severity; of the verdicts it
\* gets the answer, and the machine of the run if its CVE is listed.
LEMMA JudgedFacts ==
  ASSUME IInv, NEW w \in Verifier, verify[w].pc = "asked", NEW l \in verify[w].read
  PROVE  LET me == verify[w]
             k == Judged(l, me)
             answer == me.got.answer[CveOf[l]]
             host == IF l \in Kernel /\ CveOf[l] \in me.files \cup me.got.files
                     THEN HostOf[run[me.id].of] ELSE None IN
         /\ k \in LinkType /\ k.run = link[l].run /\ k.severity = link[l].severity
         /\ k.tracker = IF answer \in {None, me.old[l].tracker} THEN link[l].tracker ELSE answer
         /\ k.host = IF host \in {None, me.old[l].host} THEN link[l].host ELSE host
<1> DEFINE me == verify[w]
           old == link[l]
           answer == me.got.answer[CveOf[l]]
           host == IF l \in Kernel /\ CveOf[l] \in me.files \cup me.got.files
                   THEN HostOf[run[me.id].of] ELSE None
           tracker2 == IF answer \in {None, me.old[l].tracker} THEN old.tracker ELSE answer
           host2 == IF host \in {None, me.old[l].host} THEN old.host ELSE host
           k0 == [old EXCEPT !.tracker = tracker2]
           k1 == [k0 EXCEPT !.host = host2]
<1>1. VerifyStands(me, run, link, files, published)
  BY StateFacts, Parts
<1>2. l \in Link /\ link[l].run # None /\ CveOf[l] \in Cve /\ me.id \in Id /\ run[me.id] # None
  BY <1>1, FindingsAssumption DEF VerifyStands
<1>3. old \in LinkType
  BY <1>2, StateFacts, LinkFacts
<1>4. old.tracker \in Answer /\ old.host \in Host \cup {None}
  BY <1>3, RowFacts
<1>5. answer # None => answer \in Answer
  <2>1. answer # None => answer \in 0..published[CveOf[l]]
    BY <1>1, <1>2 DEF VerifyStands
  <2>2. published[CveOf[l]] \in 0..MaxVersion
    BY <1>2, StateFacts
  <2> QED BY <2>1, <2>2, NoneFacts DEF Answer
<1>6. host \in Host \cup {None}
  <2>1. run[me.id].of \in Result
    BY <1>2, StateFacts DEF Stored
  <2> QED BY <2>1, FoundFacts
<1>7. tracker2 \in Answer
  BY <1>4, <1>5
<1>8. host2 \in Host \cup {None}
  BY <1>4, <1>6
<1>9. Judged(l, me) = k1
  BY DEF Judged
<1> HIDE DEF tracker2, host2
<1>10. k0 \in LinkType /\ k0.run = old.run /\ k0.severity = old.severity /\ k0.tracker = tracker2
  BY <1>3, <1>7 DEF LinkType
<1> HIDE DEF k0
<1>11. /\ k1 \in LinkType /\ k1.run = old.run /\ k1.severity = old.severity /\ k1.tracker = tracker2
       /\ k1.host = host2
  BY <1>8, <1>10 DEF LinkType
<1> HIDE DEF k1
<1> USE DEF tracker2, host2
<1> QED BY <1>9, <1>11

\* What the commit of a verification writes.
LEMMA VerifyCommitFacts ==
  ASSUME IInv, NEW w \in Verifier, VerifyCommits(w)
  PROVE  LET me == verify[w] IN
         /\ me.pc = "asked" /\ me.id \in Stored /\ me.read \subseteq Link
         /\ link' \in [Link -> {NoLink} \cup LinkType]
         /\ \A l \in me.read : link'[l] = Judged(l, me)
         /\ \A l \in Link \ me.read : link'[l] = link[l]
         /\ \A l \in Link : link'[l].run = link[l].run /\ link'[l].severity = link[l].severity
         /\ cache' \in [Cve -> Answer]
         /\ \A c \in Cve : cache'[c] = IF c \in me.got.new THEN me.got.answer[c] ELSE cache[c]
         /\ files' = files \cup me.got.files /\ files' \subseteq Cve /\ me.files \subseteq files
         /\ run' \in [Id -> RunType \cup {None}]
         /\ \A j \in Id : /\ (run'[j] # None <=> run[j] # None)
                          /\ run[j] # None => /\ run'[j].of = run[j].of
                                              /\ run'[j].counts = run[j].counts
         /\ \A j \in Id \ {me.id} : run'[j] = run[j]
         /\ Stored' = Stored
         /\ DOMAIN verify' = Verifier /\ verify'[w] = NoVerify /\ \A v \in Verifier \ {w} : verify'[v] = verify[v]
         /\ UNCHANGED <<document, known, nextId, import, published, raced>>
<1> DEFINE me == verify[w]
<1>1. /\ me.pc = "asked"
      /\ link' = [l \in Link |-> IF l \in me.read THEN Judged(l, me) ELSE link[l]]
      /\ cache' = [c \in Cve |-> IF c \in me.got.new THEN me.got.answer[c] ELSE cache[c]]
      /\ files' = files \cup me.got.files
      /\ run' = [run EXCEPT ![me.id].verification = [partial |-> me.partial]]
      /\ verify' = [verify EXCEPT ![w] = NoVerify]
      /\ UNCHANGED <<document, known, nextId, import, published, raced>>
  BY DEF VerifyCommits
<1>2. VerifyStands(me, run, link, files, published)
  BY StateFacts, Parts
<1>3. /\ me.id \in Id /\ run[me.id] # None /\ me.read \subseteq Link /\ me.files \subseteq files
      /\ me.partial \in BOOLEAN /\ me.got.files \subseteq Cve
      /\ \A d \in Cve : me.got.answer[d] # None => me.got.answer[d] \in 0..published[d]
  BY <1>1, <1>2 DEF VerifyStands
<1>4. me.id \in Stored
  BY <1>3 DEF Stored
<1>5. \A l \in me.read : /\ Judged(l, me) \in LinkType /\ Judged(l, me).run = link[l].run
                         /\ Judged(l, me).severity = link[l].severity
  BY <1>1, JudgedFacts
<1>6. /\ \A l \in me.read : link'[l] = Judged(l, me)
      /\ \A l \in Link \ me.read : link'[l] = link[l]
  BY <1>1, <1>3
<1>7. link' \in [Link -> {NoLink} \cup LinkType]
  <2>1. \A l \in Link : (IF l \in me.read THEN Judged(l, me) ELSE link[l]) \in {NoLink} \cup LinkType
    BY <1>5, StateFacts
  <2> QED BY <1>1, <2>1
<1>8. \A l \in Link : link'[l].run = link[l].run /\ link'[l].severity = link[l].severity
  BY <1>5, <1>6
<1>9. cache' \in [Cve -> Answer]
  <2>1. \A d \in Cve : me.got.answer[d] \in Answer
    <3>1. \A d \in Cve : 0..published[d] \subseteq 0..MaxVersion
      BY StateFacts, NoneFacts
    <3> QED BY <1>3, <3>1 DEF Answer
  <2>2. \A d \in Cve : (IF d \in me.got.new THEN me.got.answer[d] ELSE cache[d]) \in Answer
    BY <2>1, StateFacts
  <2> QED BY <1>1, <2>2
<1>10. run[me.id] \in RunType
  BY <1>4, StateFacts
<1> DEFINE old == run[me.id]
           verification == [partial |-> me.partial]
           row == [old EXCEPT !.verification = verification]
<1>11. run' = [run EXCEPT ![me.id] = row]
  BY <1>1
<1>12. verification \in [partial : BOOLEAN]
  BY <1>3
<1> HIDE DEF verification
<1>13. row \in RunType /\ row.of = old.of /\ row.counts = old.counts
  BY <1>10, <1>12 DEF RunType
<1> HIDE DEF row
<1>14. /\ run' \in [Id -> RunType \cup {None}] /\ run'[me.id] = row /\ row # None
       /\ \A j \in Id \ {me.id} : run'[j] = run[j]
  BY <1>3, <1>11, <1>13, StateFacts, NoneFacts
<1>15. \A j \in Id : /\ (run'[j] # None <=> run[j] # None)
                     /\ run[j] # None => /\ run'[j].of = run[j].of
                                         /\ run'[j].counts = run[j].counts
  BY <1>3, <1>13, <1>14
<1>16. Stored' = Stored
  BY <1>15 DEF Stored
<1>17. files' \subseteq Cve
  BY <1>1, <1>3, StateFacts
<1>18. DOMAIN verify' = Verifier /\ verify'[w] = NoVerify /\ \A v \in Verifier \ {w} : verify'[v] = verify[v]
  BY <1>1, StateFacts
<1> QED BY <1>1, <1>3, <1>4, <1>6, <1>7, <1>8, <1>9, <1>14, <1>15, <1>16, <1>17, <1>18

\* Without overlap no verdict is taken back, and each is in the cache.
LEMMA VerdictFacts ==
  ASSUME IInv, ~raced, NEW w \in Verifier, VerifyCommits(w)
  PROVE  /\ VerdictsCached(link', cache')
         /\ \A l \in Link : link[l].tracker # None => link'[l].tracker >= link[l].tracker
<1> DEFINE me == verify[w]
<1>1. /\ me.pc = "asked" /\ me.read \subseteq Link
      /\ \A l \in me.read : link'[l] = Judged(l, me)
      /\ \A l \in Link \ me.read : link'[l] = link[l]
      /\ cache' \in [Cve -> Answer]
      /\ \A c \in Cve : cache'[c] = IF c \in me.got.new THEN me.got.answer[c] ELSE cache[c]
  BY VerifyCommitFacts
<1>2. VerifyStands(me, run, link, files, published) /\ VerifyFresh(me, link, cache, files)
      /\ VerdictsCached(link, cache)
  BY StateFacts, Parts
<1>3. /\ \A d \in Cve : /\ d \notin me.got.new => me.got.answer[d] = cache[d]
                        /\ cache[d] # None => cache[d] <= me.got.answer[d]
      /\ \A d \in me.got.new : me.got.answer[d] # None
      /\ me.got.new \subseteq Cve
  BY <1>1, <1>2 DEF VerifyStands, VerifyFresh
<1>4. \A d \in Cve : /\ cache[d] # None => cache[d] \in Nat
                     /\ cache'[d] # None => cache'[d] \in Nat
                     /\ me.got.answer[d] # None => me.got.answer[d] \in Nat
  <2>1. \A d \in Cve : published[d] \in Nat /\ cache[d] \in Answer /\ cache'[d] \in Answer
    BY <1>1, StateFacts, NoneFacts
  <2>2. \A d \in Cve : me.got.answer[d] # None => me.got.answer[d] \in 0..published[d]
    BY <1>1, <1>2 DEF VerifyStands
  <2> QED BY <2>1, <2>2, NoneFacts DEF Answer
<1>5. \A d \in Cve : /\ me.got.answer[d] # None => cache'[d] = me.got.answer[d]
                     /\ cache[d] # None => cache'[d] # None /\ cache[d] <= cache'[d]
  BY <1>1, <1>3, <1>4
<1>6. \A l \in Link : CveOf[l] \in Cve /\ (link[l].tracker # None => link[l].tracker \in Nat)
  BY StateFacts, LinkFacts, NoneFacts, FindingsAssumption DEF Answer
<1>7. \A l \in Link : link[l].tracker # None =>
         /\ cache[CveOf[l]] # None /\ link[l].tracker <= cache[CveOf[l]]
  BY <1>2 DEF VerdictsCached
<1>8. \A l \in me.read : LET answer == me.got.answer[CveOf[l]] IN
         link'[l].tracker = IF answer \in {None, me.old[l].tracker} THEN link[l].tracker ELSE answer
  BY <1>1, JudgedFacts
<1>9. \A l \in Link : \/ link'[l].tracker = link[l].tracker
                      \/ /\ me.got.answer[CveOf[l]] # None
                         /\ link'[l].tracker = me.got.answer[CveOf[l]]
  BY <1>1, <1>8
<1>10. VerdictsCached(link', cache')
  <2> SUFFICES ASSUME NEW l \in Link, link'[l].tracker # None
               PROVE  cache'[CveOf[l]] # None /\ link'[l].tracker <= cache'[CveOf[l]]
    BY DEF VerdictsCached
  <2>1. CASE link'[l].tracker = link[l].tracker
    BY <1>4, <1>5, <1>6, <1>7, <2>1
  <2>2. CASE me.got.answer[CveOf[l]] # None /\ link'[l].tracker = me.got.answer[CveOf[l]]
    BY <1>4, <1>5, <1>6, <2>2
  <2> QED BY <1>9, <2>1, <2>2
<1>11. \A l \in Link : link[l].tracker # None => link'[l].tracker >= link[l].tracker
  <2> SUFFICES ASSUME NEW l \in Link, link[l].tracker # None
               PROVE  link'[l].tracker >= link[l].tracker
    OBVIOUS
  <2>1. CASE link'[l].tracker = link[l].tracker
    BY <1>6, <2>1
  <2>2. CASE me.got.answer[CveOf[l]] # None /\ link'[l].tracker = me.got.answer[CveOf[l]]
    BY <1>3, <1>4, <1>6, <1>7, <2>2
  <2> QED BY <1>9, <2>1, <2>2
<1> QED BY <1>10, <1>11

\* VerifyCommits keeps the invariant.
LEMMA VerifyCommitsStep ==
  ASSUME IInv, NEW w \in Verifier, VerifyCommits(w)
  PROVE  IInv'
<1> DEFINE me == verify[w]
<1>1. /\ me.pc = "asked" /\ me.id \in Stored /\ me.read \subseteq Link
      /\ link' \in [Link -> {NoLink} \cup LinkType]
      /\ \A l \in me.read : link'[l] = Judged(l, me)
      /\ \A l \in Link \ me.read : link'[l] = link[l]
      /\ \A l \in Link : link'[l].run = link[l].run /\ link'[l].severity = link[l].severity
  BY VerifyCommitFacts
<1>2. /\ cache' \in [Cve -> Answer]
      /\ \A c \in Cve : cache'[c] = IF c \in me.got.new THEN me.got.answer[c] ELSE cache[c]
      /\ files' = files \cup me.got.files /\ files' \subseteq Cve /\ me.files \subseteq files
  BY VerifyCommitFacts
<1>3. /\ run' \in [Id -> RunType \cup {None}]
      /\ \A j \in Id : /\ (run'[j] # None <=> run[j] # None)
                       /\ run[j] # None => /\ run'[j].of = run[j].of
                                           /\ run'[j].counts = run[j].counts
      /\ Stored' = Stored
  BY VerifyCommitFacts
<1>4. /\ DOMAIN verify' = Verifier /\ verify'[w] = NoVerify /\ \A v \in Verifier \ {w} : verify'[v] = verify[v]
      /\ UNCHANGED <<document, known, nextId, import, published, raced>>
  BY VerifyCommitFacts
<1>5. /\ \A j \in Stored : j \in Id /\ run'[j].of = run[j].of /\ run'[j].counts = run[j].counts
      /\ \A j \in Id : run[j] = None => run'[j] = None
  BY <1>3 DEF Stored
<1>6. TypeOK'
  <2>1. \A v \in Verifier : DOMAIN verify'[v] = DOMAIN NoVerify
    BY <1>4, StateFacts, TypeFacts
  <2>2. nextId' \in 1..(MaxId + 1)
    BY <1>4, StateFacts, NoneFacts
  <2> QED BY <1>1, <1>2, <1>3, <1>4, <2>1, <2>2, StateFacts, TypeFacts DEF TypeOK, RunType, LinkType
<1>7. OneRunPerBundle' /\ CountsAreFrozen'
  BY <1>3, <1>5, StateFacts DEF OneRunPerBundle, CountsAreFrozen
<1>8. IdsAreFresh'
  <2>1. \A j \in Id : j >= nextId' => run'[j] = None
    BY <1>4, <1>5, StateFacts DEF IdsAreFresh
  <2>2. \A x \in Importer : import[x].pc = "flushed" => import[x].id \in Id
    BY StateFacts DEF ImportsStand
  <2>3. \A x \in Importer : import'[x].pc = "flushed" =>
          /\ import'[x].id < nextId' /\ run'[import'[x].id] = None
          /\ \A j \in Importer \ {x} : import'[j].pc = "flushed" => import'[j].id # import'[x].id
    BY <1>4, <1>5, <2>2, StateFacts DEF IdsAreFresh
  <2> QED BY <2>1, <2>3 DEF IdsAreFresh
<1>9. OriginalIsKept'
  <2>1. \A j \in Stored' : document'[SerialOf[SbomOf[run'[j].of]]] = SbomOf[run'[j].of]
    BY <1>3, <1>4, <1>5, StateFacts DEF OriginalIsKept
  <2>2. \A l \in Link : link'[l].run # None => link'[l].run \in Stored' /\ l \in Found(run'[link'[l].run].of)
    BY <1>1, <1>3, <1>5, StateFacts DEF OriginalIsKept
  <2> QED BY <2>1, <2>2 DEF OriginalIsKept
<1>10. ImportsStand'
  <2>1. \A j \in Importer : ImportStands(import[j], document, link)
    BY StateFacts, Parts
  <2>2. \A j \in Importer : ImportStands(import[j], document, link')
    BY <1>1, <2>1, ImportStandsOn
  <2> QED BY <1>4, <2>2, PartsAfter
<1>11. VerifiesStand'
  <2>1. \A v \in Verifier : VerifyStands(verify[v], run, link, files, published)
    BY StateFacts, Parts
  <2>2. \A d \in Cve : published[d] \in Nat /\ published[d] <= published[d]
    BY StateFacts, NoneFacts
  <2>3. \A v \in Verifier : VerifyStands(verify[v], run', link', files', published)
    BY <1>1, <1>2, <1>3, <2>1, <2>2, VerifyStandsOn
  <2>4. VerifyStands(NoVerify, run', link', files', published)
    BY IdleFacts DEF VerifyStands
  <2>5. \A v \in Verifier : VerifyStands(verify'[v], run', link', files', published')
    BY <1>4, <2>3, <2>4
  <2> QED BY <2>5, PartsAfter
<1>12. CachesFit'
  <2>1. \A d \in Cve : cache'[d] # None => cache'[d] <= published'[d]
    <3>1. VerifyStands(me, run, link, files, published)
      BY StateFacts, Parts
    <3>2. \A d \in Cve : published[d] \in Nat /\ (me.got.answer[d] # None => me.got.answer[d] \in 0..published[d])
      BY <1>1, <3>1, StateFacts, NoneFacts DEF VerifyStands
    <3> QED BY <1>2, <1>4, <3>2, StateFacts DEF CachesFit
  <2>2. \A l \in Link : link'[l].host # None => CveOf[l] \in files'
    <3> SUFFICES ASSUME NEW l \in Link, link'[l].host # None
                 PROVE  CveOf[l] \in files'
      OBVIOUS
    <3>1. CASE l \in me.read
      <4> DEFINE host == IF l \in Kernel /\ CveOf[l] \in me.files \cup me.got.files
                         THEN HostOf[run[me.id].of] ELSE None
      <4>1. link'[l].host = IF host \in {None, me.old[l].host} THEN link[l].host ELSE host
        BY <1>1, <3>1, JudgedFacts
      <4>2. CASE link[l].host # None
        BY <1>2, <4>2, StateFacts DEF CachesFit
      <4>3. CASE host # None
        BY <1>2, <4>3
      <4> QED BY <4>1, <4>2, <4>3
    <3>2. CASE l \notin me.read
      BY <1>1, <1>2, <3>2, StateFacts DEF CachesFit
    <3> QED BY <3>1, <3>2
  <2> QED BY <2>1, <2>2 DEF CachesFit
<1>13. ~raced' => Alone' /\ ReadsStand'
  <2> SUFFICES ASSUME ~raced' PROVE Alone' /\ ReadsStand'
    OBVIOUS
  <2>1. Alone /\ ReadsStand /\ ~raced
    BY <1>4, StateFacts
  <2>2. /\ \A j \in Importer : import'[j].pc = "idle"
        /\ \A v \in Verifier : verify'[v].pc = "idle"
    BY <1>1, <1>4, <2>1, IdleFacts DEF Alone
  <2>3. Alone'
    BY <2>2 DEF Alone
  <2>4. VerdictsCached(link', cache')
    BY <2>1, VerdictFacts
  <2>5. /\ \A j \in Importer : ImportFresh(import'[j], run', link')
        /\ \A v \in Verifier : VerifyFresh(verify'[v], link', cache', files')
    BY <2>2 DEF ImportFresh, VerifyFresh
  <2> QED BY <2>3, <2>4, <2>5, PartsAfter
<1> QED BY <1>6, <1>7, <1>8, <1>9, <1>10, <1>11, <1>12, <1>13 DEF IInv

-----------------------------------------------------------------------------
(* The invariant, and what follows from a step of it *)

\* The empty database satisfies the invariant.
LEMMA InitInv == ASSUME Init PROVE IInv
<1>1. /\ document = [s \in Serial |-> None] /\ run = [i \in Id |-> None] /\ link = [l \in Link |-> NoLink]
      /\ known = {} /\ cache = [c \in Cve |-> None] /\ files = {} /\ nextId = 1
      /\ import = [i \in Importer |-> NoImport] /\ verify = [w \in Verifier |-> NoVerify]
      /\ published = [c \in Cve |-> 0] /\ raced = FALSE
  BY DEF Init
<1>2. Stored = {} /\ \A l \in Link : link[l].run = None /\ link[l].tracker = None /\ link[l].host = None
  BY <1>1, RowFacts DEF Stored
<1>3. TypeOK
  <2>1. 1 \in 1..(MaxId + 1) /\ 0 \in 0..MaxVersion /\ None \in Answer
    BY NoneFacts DEF Answer
  <2> QED BY <1>1, <2>1, TypeFacts
<1>4. /\ \A i \in Importer : import[i].pc = "idle"
      /\ \A w \in Verifier : verify[w].pc = "idle" /\ verify[w].partial = FALSE
  BY <1>1, IdleFacts
<1>5. OneRunPerBundle /\ CountsAreFrozen
  BY <1>2 DEF OneRunPerBundle, CountsAreFrozen
<1>6. IdsAreFresh /\ OriginalIsKept
  BY <1>1, <1>2, <1>4 DEF IdsAreFresh, OriginalIsKept
<1>7. ImportsStand
  BY <1>4 DEF ImportsStand
<1>8. VerifiesStand
  BY <1>4 DEF VerifiesStand
<1>9. CachesFit
  BY <1>1, <1>2 DEF CachesFit
<1>10. Alone
  BY <1>4 DEF Alone
<1>11. ReadsStand
  BY <1>2, <1>4 DEF ReadsStand
<1> QED BY <1>3, <1>5, <1>6, <1>7, <1>8, <1>9, <1>10, <1>11 DEF IInv

\* Every step keeps the invariant.
LEMMA StepInv == ASSUME IInv, [Next]_vars PROVE IInv'
<1>1. CASE \E i \in Importer : \E r \in Result : ImportReads(i, r)
  BY <1>1, ReadsStep
<1>2. CASE \E i \in Importer : ImportFlushes(i) \/ ImportCommits(i) \/ ImportRollsBack(i)
  BY <1>2, FlushesStep, ImportCommitsStep, ImportRollsBackStep
<1>3. CASE \E w \in Verifier : \E id \in Id : VerifyReads(w, id)
  BY <1>3, VerifyReadsStep
<1>4. CASE \E w \in Verifier : VerifyAsks(w) \/ VerifyCommits(w) \/ VerifyRollsBack(w)
  BY <1>4, AsksStep, VerifyCommitsStep, VerifyRollsBackStep
<1>5. CASE \E c \in Cve : TrackerPublishes(c)
  BY <1>5, PublishesStep
<1>6. CASE UNCHANGED vars
  <2>1. UNCHANGED <<document, run, link, known, cache, files, nextId, import, verify, published, raced>>
    BY <1>6 DEF vars
  <2>2. Stored' = Stored
    BY <2>1 DEF Stored
  <2>3. IInv' <=> IInv
    BY <2>1, <2>2 DEF IInv, TypeOK, OneRunPerBundle, CountsAreFrozen, IdsAreFresh, OriginalIsKept,
         ImportsStand, VerifiesStand, CachesFit, Alone, ReadsStand, Stored, Rows
  <2> QED BY <2>3
<1> QED BY <1>1, <1>2, <1>3, <1>4, <1>5, <1>6 DEF Next

\* IInv holds throughout: one run per bundle, counts that stay, originals that
\* are kept, and, as long as no two transactions overlap, that each commits
\* what it has read (analysis.py:108, analysis.py:227).
THEOREM Invariance == Spec => []IInv
  BY InitInv, StepInv, PTL DEF Spec

\* No step takes a verdict of the tracker back (verification.py:271).
LEMMA StepAdvances ==
  ASSUME IInv, [Next]_vars, ~raced
  PROVE  \A l \in Link : link[l].tracker # None => link'[l].tracker >= link[l].tracker
<1> DEFINE Goal == \A l \in Link : link[l].tracker # None => link'[l].tracker >= link[l].tracker
<1>0. \A l \in Link : link[l].tracker # None => link[l].tracker \in Nat
  BY StateFacts, LinkFacts, NoneFacts DEF Answer
<1>1. ASSUME NEW i \in Importer, ImportCommits(i) PROVE Goal
  <2>1. \A l \in Found(import[i].of) : link'[l].tracker = link[l].tracker
    BY <1>1, ImportCommitFacts, RelinkedFacts
  <2>2. \A l \in Link \ Found(import[i].of) : link'[l] = link[l]
    BY <1>1, ImportCommitFacts
  <2> QED BY <1>0, <2>1, <2>2
<1>2. ASSUME NEW w \in Verifier, VerifyCommits(w) PROVE Goal
  BY <1>2, VerdictFacts
<1>3. ASSUME link' = link PROVE Goal
  BY <1>0, <1>3
<1>4. \/ link' = link
      \/ \E i \in Importer : ImportCommits(i)
      \/ \E w \in Verifier : VerifyCommits(w)
  BY DEF Next, vars, tables, ImportReads, ImportFlushes, ImportRollsBack, VerifyReads, VerifyAsks,
         VerifyRollsBack, TrackerPublishes
<1> QED BY <1>1, <1>2, <1>3, <1>4

\* While transactions do not overlap a verdict is only replaced by a later
\* answer: a transient error keeps what was cached (verification.py:271).
THEOREM Advance == Spec => VerdictsAdvance
<1>1. IInv /\ [Next]_vars => [~raced => \A l \in Link : link[l].tracker # None => link'[l].tracker >= link[l].tracker]_vars
  BY StepAdvances
<1> QED BY <1>1, Invariance, PTL DEF Spec, VerdictsAdvance

-----------------------------------------------------------------------------
(* Links and the runs they belong to *)

\* An import beside which nothing runs takes every link of its report, with
\* the severities of the report, and its run is the latest of the document.
LEMMA LinksAfterImport ==
  ASSUME IInv, LinksFollowRuns, NEW i \in Importer, ImportCommits(i)
  PROVE  LinksFollowRuns'
<1> DEFINE me == import[i]
<1>1. /\ me.pc = "flushed" /\ me.of \in Result /\ me.id \in Id /\ run[me.id] = None
      /\ \A l \in Found(me.of) : link'[l] = Relinked(l, me)
      /\ \A l \in Link \ Found(me.of) : link'[l] = link[l]
      /\ Rows(link', me.id) = Found(me.of)
  BY ImportCommitFacts
<1>2. /\ run'[me.id].of = me.of /\ run'[me.id].verification = None
      /\ \A j \in Id \ {me.id} : run'[j] = run[j]
      /\ Stored' = Stored \cup {me.id}
      /\ files' = files /\ raced' = raced
  BY ImportCommitFacts
<1>3. Stored \subseteq Id /\ me.id \notin Stored /\ \A j \in Stored : j # me.id /\ run'[j] = run[j]
  BY <1>1, <1>2 DEF Stored
<1>4. \A l \in Link : link[l].run # None => link[l].run \in Stored /\ l \in Found(run[link[l].run].of)
  BY StateFacts DEF OriginalIsKept
<1>5. CASE raced
  BY <1>2, <1>5 DEF LinksFollowRuns, LinksFitTheirRun, LatestRunHasItsLinks, HostVerdictFitsRun
<1>6. CASE ~raced
  <2>1. ImportFresh(me, run, link)
    BY <1>6, StateFacts, Parts
  <2>2. /\ \A l \in Found(me.of) : me.old[l] = link[l].severity
        /\ \A j \in Stored : j < me.id
    BY <1>1, <1>3, <2>1 DEF ImportFresh, Stored
  <2>3. \A l \in Found(me.of) : link'[l].run = me.id /\ link'[l].severity = Finds[me.of][l]
    BY <1>1, <2>2, RelinkedFacts
  <2>4. LinksFitTheirRun'
    <3> SUFFICES ASSUME NEW l \in Link, link'[l].run # None
                 PROVE  link'[l].severity = Finds[run'[link'[l].run].of][l]
      BY DEF LinksFitTheirRun
    <3>1. CASE l \in Found(me.of)
      BY <1>2, <2>3, <3>1
    <3>2. CASE l \notin Found(me.of)
      BY <1>1, <1>3, <1>4, <1>6, <3>2 DEF LinksFollowRuns, LinksFitTheirRun
    <3> QED BY <3>1, <3>2
  <2>5. LatestRunHasItsLinks'
    <3> SUFFICES ASSUME NEW k \in Stored',
                        \A j \in Stored' : SbomOf[run'[j].of] = SbomOf[run'[k].of] => j <= k
                 PROVE  Rows(link', k) = Found(run'[k].of)
      BY DEF LatestRunHasItsLinks
    <3>1. CASE k = me.id
      BY <1>1, <1>2, <3>1
    <3>2. CASE k # me.id
      <4>1. k \in Stored /\ run'[k] = run[k] /\ k < me.id /\ k \in Nat /\ me.id \in Nat
        BY <1>1, <1>2, <1>3, <2>2, <3>2 DEF Id
      <4>2. SbomOf[me.of] # SbomOf[run[k].of]
        BY <1>2, <4>1
      <4>3. Found(me.of) \cap Found(run[k].of) = {}
        BY <1>1, <4>1, <4>2, StateFacts, FoundFacts
      <4>4. \A j \in Stored : SbomOf[run[j].of] = SbomOf[run[k].of] => j <= k
        BY <1>2, <1>3, <4>1
      <4>5. Rows(link, k) = Found(run[k].of)
        BY <1>6, <4>1, <4>4 DEF LinksFollowRuns, LatestRunHasItsLinks
      <4>6. Rows(link', k) = Rows(link, k)
        BY <1>1, <2>3, <3>2, <4>3, <4>5 DEF Rows
      <4> QED BY <4>1, <4>5, <4>6
    <3> QED BY <3>1, <3>2
  <2>6. HostVerdictFitsRun'
    <3> SUFFICES ASSUME NEW l \in Kernel, link'[l].run # None,
                        run'[link'[l].run].verification # None, CveOf[l] \in files, link'[l].host # None
                 PROVE  link'[l].host = HostOf[run'[link'[l].run].of]
      BY <1>2 DEF HostVerdictFitsRun
    <3>1. l \in Link
      BY FindingsAssumption
    <3>2. l \notin Found(me.of)
      BY <1>2, <2>3
    <3>3. link'[l] = link[l] /\ run'[link[l].run] = run[link[l].run]
      BY <1>1, <1>3, <1>4, <3>1, <3>2
    <3> QED BY <1>6, <3>3 DEF LinksFollowRuns, HostVerdictFitsRun
  <2> QED BY <2>4, <2>5, <2>6 DEF LinksFollowRuns
<1> QED BY <1>5, <1>6

\* A verification beside which nothing runs writes the verdicts of its own run.
LEMMA LinksAfterVerification ==
  ASSUME IInv, LinksFollowRuns, NEW w \in Verifier, VerifyCommits(w)
  PROVE  LinksFollowRuns'
<1> DEFINE me == verify[w]
<1>1. /\ me.pc = "asked" /\ me.id \in Stored /\ me.read \subseteq Link
      /\ \A l \in me.read : link'[l] = Judged(l, me)
      /\ \A l \in Link \ me.read : link'[l] = link[l]
      /\ \A l \in Link : link'[l].run = link[l].run /\ link'[l].severity = link[l].severity
  BY VerifyCommitFacts
<1>2. /\ files' = files \cup me.got.files
      /\ \A j \in Id : run[j] # None => run'[j].of = run[j].of
      /\ \A j \in Id \ {me.id} : run'[j] = run[j]
      /\ Stored' = Stored /\ raced' = raced
  BY VerifyCommitFacts
<1>3. \A j \in Stored : j \in Id /\ run'[j].of = run[j].of
  BY <1>2 DEF Stored
<1>4. \A l \in Link : link[l].run # None => link[l].run \in Stored
  BY StateFacts DEF OriginalIsKept
<1>5. CASE raced
  BY <1>2, <1>5 DEF LinksFollowRuns, LinksFitTheirRun, LatestRunHasItsLinks, HostVerdictFitsRun
<1>6. CASE ~raced
  <2>1. VerifyFresh(me, link, cache, files)
    BY <1>6, StateFacts, Parts
  <2>2. /\ me.files = files /\ me.read = {l \in Link : link[l].run = me.id}
        /\ \A l \in me.read : me.old[l].host = link[l].host
    BY <1>1, <2>1 DEF VerifyFresh
  <2>3. LinksFitTheirRun'
    BY <1>1, <1>3, <1>4, <1>6 DEF LinksFollowRuns, LinksFitTheirRun
  <2>4. LatestRunHasItsLinks'
    <3>1. \A k \in Stored : Rows(link', k) = Rows(link, k)
      BY <1>1 DEF Rows
    <3> QED BY <1>2, <1>3, <1>6, <3>1 DEF LinksFollowRuns, LatestRunHasItsLinks
  <2>5. HostVerdictFitsRun'
    <3> SUFFICES ASSUME NEW l \in Kernel, link'[l].run # None,
                        run'[link'[l].run].verification # None, CveOf[l] \in files', link'[l].host # None
                 PROVE  link'[l].host = HostOf[run'[link'[l].run].of]
      BY DEF HostVerdictFitsRun
    <3>1. l \in Link /\ link[l].run # None /\ link[l].run \in Stored
      BY <1>1, <1>4, FindingsAssumption
    <3>2. CASE l \in me.read
      <4> DEFINE host == IF l \in Kernel /\ CveOf[l] \in me.files \cup me.got.files
                         THEN HostOf[run[me.id].of] ELSE None
      <4>1. link'[l].host = IF host \in {None, me.old[l].host} THEN link[l].host ELSE host
        BY <1>1, <3>2, JudgedFacts
      <4>2. host = HostOf[run[me.id].of] /\ host # None
        <5>1. host = HostOf[run[me.id].of]
          BY <1>2, <2>2
        <5>2. HostOf[run[me.id].of] # None
          BY <1>1, StateFacts, FoundFacts, NoneFacts
        <5> QED BY <5>1, <5>2
      <4>3. link'[l].run = me.id /\ run'[me.id].of = run[me.id].of
        BY <1>1, <1>3, <2>2, <3>1, <3>2
      <4> HIDE DEF host
      <4> QED BY <2>2, <3>2, <4>1, <4>2, <4>3
    <3>3. CASE l \notin me.read
      <4>1. link'[l] = link[l] /\ link[l].run # me.id
        BY <1>1, <2>2, <3>1, <3>3
      <4>2. run'[link[l].run] = run[link[l].run]
        BY <1>2, <1>3, <3>1, <4>1
      <4>3. CveOf[l] \in files
        BY <3>1, <4>1, StateFacts DEF CachesFit
      <4> QED BY <1>6, <4>1, <4>2, <4>3 DEF LinksFollowRuns, HostVerdictFitsRun
    <3> QED BY <3>2, <3>3
  <2> QED BY <2>3, <2>4, <2>5 DEF LinksFollowRuns
<1> QED BY <1>5, <1>6

\* Every step keeps the links with their runs.
LEMMA StepLinks == ASSUME IInv, LinksFollowRuns, [Next]_vars PROVE LinksFollowRuns'
<1>1. CASE \E i \in Importer : ImportCommits(i)
  BY <1>1, LinksAfterImport
<1>2. CASE \E w \in Verifier : VerifyCommits(w)
  BY <1>2, LinksAfterVerification
<1>3. CASE UNCHANGED <<run, link, files>> /\ (raced => raced')
  <2>1. UNCHANGED <<run, link, files>> /\ (~raced' => ~raced) /\ Stored' = Stored
    BY <1>3 DEF Stored
  <2>2. LinksFitTheirRun'
    BY <2>1 DEF LinksFollowRuns, LinksFitTheirRun
  <2>3. LatestRunHasItsLinks'
    BY <2>1 DEF LinksFollowRuns, LatestRunHasItsLinks
  <2>4. HostVerdictFitsRun'
    BY <2>1 DEF LinksFollowRuns, HostVerdictFitsRun
  <2> QED BY <2>2, <2>3, <2>4 DEF LinksFollowRuns
<1>4. \/ UNCHANGED <<run, link, files>> /\ (raced => raced')
      \/ \E i \in Importer : ImportCommits(i)
      \/ \E w \in Verifier : VerifyCommits(w)
  BY DEF Next, vars, tables, caches, ImportReads, ImportFlushes, ImportRollsBack, VerifyReads, VerifyAsks,
         VerifyRollsBack, TrackerPublishes
<1> QED BY <1>1, <1>2, <1>3, <1>4

\* As long as no two transactions overlap, what the pages of a run show is the
\* run's: its severities, all its links while it is the latest of its document,
\* and verdicts on its own machine (analysis.py:195, verification.py:329).
THEOREM Links == Spec => []LinksFollowRuns
<1>1. Init => LinksFollowRuns
  <2> SUFFICES ASSUME Init PROVE LinksFollowRuns
    OBVIOUS
  <2>1. Stored = {} /\ \A l \in Link : link[l].run = None
    BY RowFacts DEF Init, Stored
  <2> QED BY <2>1, FindingsAssumption DEF LinksFollowRuns, LinksFitTheirRun, LatestRunHasItsLinks, HostVerdictFitsRun
<1> QED BY <1>1, StepLinks, Invariance, PTL DEF Spec

-----------------------------------------------------------------------------
(* Comparisons *)

\* A comparison without warnings says that a component was removed only when
\* nothing in the target might be it (analysis_comparison.py:125).
THEOREM Removed == Spec => []RemovedIsGone
<1>1. RemovedIsGone
  <2> SUFFICES ASSUME NEW b \in Stored, NEW t \in Stored, Comparable(b, t), NEW l \in Found(run[b].of),
                      Status(b, t, Key(l)) = "COMPONENT_REMOVED", NEW p \in Packages(t),
                      p.name = PackageOf[l].name, p.version # None
               PROVE  p.purl \notin {None, PackageOf[l].purl}
    BY DEF RemovedIsGone
  <2>1. ~WeakIdentity(b) /\ ~WeakIdentity(t)
    BY DEF Comparable
  <2>2. p.purl # None /\ PackageOf[l].purl # None
    BY <2>1 DEF WeakIdentity
  <2>3. PackageIdentity(p) # Key(l)[1]
    BY DEF Status
  <2>4. Key(l)[1] = PackageIdentity(PackageOf[l])
    BY DEF Key
  <2> QED BY <2>2, <2>3, <2>4 DEF PackageIdentity
<1> QED BY <1>1, PTL

\* Without a warning a vulnerability disappears only where another version is
\* installed (analysis_comparison.py:203).
THEOREM Disappearance == Spec => []DisappearanceIsAChange
<1>1. ASSUME IInv PROVE DisappearanceIsAChange
  <2> SUFFICES ASSUME NEW b \in Stored, NEW t \in Stored, Comparable(b, t), NEW l \in Found(run[b].of),
                      Status(b, t, Key(l)) = "NO_LONGER_DETECTED",
                      VersionsIn(b, Key(l)[1]) = VersionsIn(t, Key(l)[1])
               PROVE  FALSE
    BY DEF DisappearanceIsAChange
  <2> DEFINE identity == PackageIdentity(PackageOf[l])
  <2>1. run[b].of \in Result /\ run[t].of \in Result /\ Basis[run[b].of] = Basis[run[t].of]
    BY <1>1, StateFacts DEF Comparable
  <2>2. Key(l)[1] = identity
    BY DEF Key
  <2>3. \E p \in Inventory[SbomOf[run[t].of]] : PackageIdentity(p) = identity
    BY <2>2 DEF Status, Packages
  <2>4. VersionsOf(SbomOf[run[b].of], identity) = VersionsOf(SbomOf[run[t].of], identity)
    BY <2>2 DEF VersionsIn
  <2>5. \E m \in Found(run[t].of) : Key(m) = Key(l)
    BY <2>1, <2>3, <2>4, ScannerAssumption
  <2>6. Key(l) \in FoundKeys(b) \cap FoundKeys(t)
    BY <2>5 DEF FoundKeys
  <2> QED BY <2>6 DEF Status
<1> QED BY <1>1, Invariance, PTL
=============================================================================
