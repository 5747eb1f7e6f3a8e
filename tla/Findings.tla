------------------------------ MODULE Findings ------------------------------
(***************************************************************************)
(* Results of scans and the second opinion on them.  import_analysis       *)
(* stores a report with its SBOM: a run of its own, and links between      *)
(* components and CVEs that all runs on one SBOM share.  verify_run asks   *)
(* the distribution's tracker and kernel.org about the CVEs of a run and   *)
(* writes what they say into those links minutes later.  Each is one       *)
(* transaction of the worker or of a request, and any number run at once;  *)
(* only unique constraints and row locks keep them apart.                  *)
(*                                                                         *)
(* How a report is read, matched with components and folded into one       *)
(* severity per link is data here: Finds says what comes out of it.        *)
(***************************************************************************)
EXTENDS Naturals, FiniteSets, Sequences

CONSTANTS
  Serial, Sbom,  \* document namespaces, and contents that have one
  SerialOf,      \* the namespace of each content
  Link,          \* a component of a document and a CVE
  Cve, CveOf, Kernel,   \* the CVE of each link; the links to kernel packages
  Result,        \* bundles that are imported
  SbomOf, HostOf,       \* the SBOM of a bundle, and what it says of the machine
  Fingerprint,   \* what identifies a bundle: its SBOM and its report
  Finds,         \* the severity a bundle gives each link, or None
  Severity, Host,
  Importer, Verifier,   \* transactions that run at once
  MaxVersion,    \* bound: answers the tracker ever gives about a CVE
  MaxId,         \* bound: run ids that are given out
  MaxAtOnce,     \* bound: transactions under way at once
  None

ASSUME FindingsAssumption ==
  /\ IsFiniteSet(Link) /\ SerialOf \in [Sbom -> Serial]
  /\ CveOf \in [Link -> Cve] /\ Kernel \subseteq Link
  /\ SbomOf \in [Result -> Sbom] /\ HostOf \in [Result -> Host]
  /\ Finds \in [Result -> [Link -> Severity \cup {None}]]
  /\ None \notin Severity \cup Host \cup Sbom \cup Result \cup Nat
  /\ None \notin [of : Result, counts : Nat, verification : [partial : BOOLEAN] \cup {None}]
  \* a component is of one document, and so are its links
  /\ \A r, s \in Result : SbomOf[r] # SbomOf[s] => {l \in Link : Finds[r][l] # None} \cap {l \in Link : Finds[s][l] # None} = {}
  /\ \A r, s \in Result : Fingerprint[r] = Fingerprint[s] => SbomOf[r] = SbomOf[s] /\ Finds[r] = Finds[s]
  /\ MaxVersion \in Nat /\ MaxId \in Nat /\ MaxAtOnce \in Nat

VARIABLES
  document,  \* sbom_documents by namespace
  run,       \* analysis_runs by id
  link,      \* component_vulnerabilities
  known,     \* CVEs in the table vulnerabilities
  cache,     \* tracker_cache: the stored answer about each CVE
  files,     \* kernel_cve_files
  nextId,    \* ids of rolled back runs are not used again
  import,    \* what each import is doing
  verify,    \* what each verification is doing
  published, \* the answer of the tracker about each CVE
  raced      \* history: an import or a verification was under way beside
             \* another import or verification of the same links

tables == <<document, run, link, known>>
caches == <<cache, files>>
vars   == <<document, run, link, known, cache, files, nextId, import, verify, published, raced>>

Id == 1..MaxId
NoLink   == [run |-> None, severity |-> None, tracker |-> None, host |-> None]
NoImport == [pc |-> "idle", of |-> None, id |-> None, document |-> FALSE, old |-> <<>>, missing |-> {}]
NoVerify == [pc |-> "idle", id |-> None, read |-> {}, old |-> <<>>, cache |-> <<>>, files |-> {},
             stale |-> {}, got |-> <<>>, partial |-> FALSE]

Stored  == {i \in Id : run[i] # None}
Found(r) == {l \in Link : Finds[r][l] # None}
Rows(table, i) == {l \in Link : table[l].run = i}

Init ==
  /\ document = [s \in Serial |-> None]
  /\ run = [i \in Id |-> None]
  /\ link = [l \in Link |-> NoLink]
  /\ known = {}
  /\ cache = [c \in Cve |-> None]
  /\ files = {}
  /\ nextId = 1
  /\ import = [i \in Importer |-> NoImport]
  /\ verify = [w \in Verifier |-> NoVerify]
  /\ published = [c \in Cve |-> 0]
  /\ raced = FALSE

UnderWay == {i \in Importer : import[i].pc # "idle"} \cup {w \in Verifier : verify[w].pc # "idle"}
Busy     == UnderWay # {}
MayBegin == Cardinality(UnderWay) < MaxAtOnce

-----------------------------------------------------------------------------
(* import_analysis *)

\* A bundle that is stored already is answered with its run; a namespace in
\* use for another content is refused; both change nothing.
ImportReads(i, r) ==
  /\ import[i].pc = "idle" /\ MayBegin
  /\ \A j \in Stored : Fingerprint[run[j].of] # Fingerprint[r]
  /\ document[SerialOf[SbomOf[r]]] \in {None, SbomOf[r]}
  /\ import' = [import EXCEPT ![i] =
       [pc |-> "read", of |-> r, id |-> None, document |-> document[SerialOf[SbomOf[r]]] # None,
        old |-> [l \in Found(r) |-> link[l].severity],
        missing |-> {CveOf[l] : l \in Found(r)} \ known]]
  /\ raced' = (raced \/ Busy)
  /\ UNCHANGED <<tables, caches, nextId, verify, published>>

\* The first flush: the run has its id.
ImportFlushes(i) ==
  /\ import[i].pc = "read" /\ nextId <= MaxId
  /\ import' = [import EXCEPT ![i].pc = "flushed", ![i].id = nextId]
  /\ nextId' = nextId + 1
  /\ UNCHANGED <<tables, caches, verify, published, raced>>

\* Mutant: no unique fingerprint.
ConflictsLater(i) ==
  LET me == import[i]
  IN \/ ~me.document /\ document[SerialOf[SbomOf[me.of]]] # None
     \/ \E l \in Found(me.of) : me.old[l] = None /\ link[l].run # None
     \/ me.missing \cap known # {}

\* The database refuses what another transaction has inserted meanwhile: the
\* fingerprint, the namespace, a CVE, a link.
Conflicts(i) ==
  LET me == import[i]
  IN \/ \E j \in Stored : Fingerprint[run[j].of] = Fingerprint[me.of]
     \/ ~me.document /\ document[SerialOf[SbomOf[me.of]]] # None
     \/ \E l \in Found(me.of) : me.old[l] = None /\ link[l].run # None
     \/ me.missing \cap known # {}

\* Mutants: new links get no run; the links that were there stay with the old
\* run, or keep the severity they had.
RelinkedOld(l, me) == [link[l] EXCEPT !.run = IF @ = None THEN None ELSE me.id, !.severity = Finds[me.of][l]]
RelinkedNew(l, me) ==
  IF link[l].run = None
  THEN [link[l] EXCEPT !.run = me.id, !.severity = Finds[me.of][l]]
  ELSE [link[l] EXCEPT !.severity = Finds[me.of][l]]
RelinkedOnly(l, me) == [link[l] EXCEPT !.run = me.id, !.severity = IF @ = None THEN Finds[me.of][l] ELSE @]

\* A link of the report as the import leaves it: it moves to the new run; of
\* the columns that keep the value they were read with the UPDATE says nothing,
\* and it never names the columns of the second opinion.
Relinked(l, me) ==
  [link[l] EXCEPT !.run = me.id,
                  !.severity = IF me.old[l] = Finds[me.of][l] THEN @ ELSE Finds[me.of][l]]

\* Mutant: the links are counted before they are written.
ImportCommitsEarly(i) ==
  LET me == import[i]
  IN /\ me.pc = "flushed" /\ ~Conflicts(i)
     /\ document' = [document EXCEPT ![SerialOf[SbomOf[me.of]]] = SbomOf[me.of]]
     /\ known' = known \cup {CveOf[l] : l \in Found(me.of)}
     /\ link' = [l \in Link |-> IF l \in Found(me.of) THEN Relinked(l, me) ELSE link[l]]
     /\ run' = [run EXCEPT ![me.id] = [of |-> me.of, counts |-> Cardinality(Rows(link, me.id)),
                                       verification |-> None]]
     /\ import' = [import EXCEPT ![i] = NoImport]
     /\ UNCHANGED <<caches, nextId, verify, published, raced>>

ImportCommits(i) ==
  LET me == import[i]
  IN /\ me.pc = "flushed" /\ ~Conflicts(i)
     /\ document' = [document EXCEPT ![SerialOf[SbomOf[me.of]]] = SbomOf[me.of]]
     /\ known' = known \cup {CveOf[l] : l \in Found(me.of)}
     /\ link' = [l \in Link |-> IF l \in Found(me.of) THEN Relinked(l, me) ELSE link[l]]
     \* the numbers of the run are counted now, for its links will move on
     /\ run' = [run EXCEPT ![me.id] = [of |-> me.of, counts |-> Cardinality(Rows(link', me.id)),
                                       verification |-> None]]
     /\ import' = [import EXCEPT ![i] = NoImport]
     /\ UNCHANGED <<caches, nextId, verify, published, raced>>

\* 422, a conflict, or the job fails: everything is rolled back.
ImportRollsBack(i) ==
  /\ import[i].pc # "idle"
  /\ import' = [import EXCEPT ![i] = NoImport]
  /\ UNCHANGED <<tables, caches, nextId, verify, published, raced>>

-----------------------------------------------------------------------------
(* verify_run *)

\* Mutant: the links of every run of the document.
VerifyReadsAll(w, id) ==
  /\ verify[w].pc = "idle" /\ MayBegin /\ run[id] # None
  /\ \E stale \in SUBSET Cve :
       verify' = [verify EXCEPT ![w] =
         [NoVerify EXCEPT !.pc = "read", !.id = id, !.read = {l \in Link : link[l].run # None},
                          !.old = [l \in Link |-> [tracker |-> link[l].tracker, host |-> link[l].host]],
                          !.cache = cache, !.files = files, !.stale = stale]]
  /\ raced' = (raced \/ Busy)
  /\ UNCHANGED <<tables, caches, nextId, import, published>>

\* The links of the run, and what the caches hold.  Answers of any CVE may be
\* older than a day by now.
VerifyReads(w, id) ==
  /\ verify[w].pc = "idle" /\ MayBegin /\ run[id] # None
  /\ \E stale \in SUBSET {CveOf[l] : l \in Rows(link, id)} :
       /\ \A l \in Rows(link, id) : cache[CveOf[l]] = None => CveOf[l] \in stale
       /\ verify' = [verify EXCEPT ![w] =
            [NoVerify EXCEPT !.pc = "read", !.id = id, !.read = Rows(link, id),
                !.old = [l \in Rows(link, id) |-> [tracker |-> link[l].tracker, host |-> link[l].host]],
                !.cache = cache, !.files = files, !.stale = stale]]
  /\ raced' = (raced \/ Busy)
  /\ UNCHANGED <<tables, caches, nextId, import, published>>

\* What has to be asked, besides stale answers: kernel CVEs whose files are
\* not stored.
Unlisted(w) == {CveOf[l] : l \in verify[w].read \cap Kernel} \ verify[w].files

\* Mutant: a transient error counts as the answer "unknown".
AnswersUnknown(w, asked, failed, listed) ==
  [c \in Cve |-> IF c \in failed THEN 0 ELSE IF c \in asked THEN published[c] ELSE verify[w].cache[c]]
Answers(w, asked, failed, listed) ==
  [c \in Cve |-> IF c \in asked \ failed THEN published[c] ELSE verify[w].cache[c]]

\* Both rounds of requests.  The first stops when the budget is spent, which
\* is noted; the second is not even begun then, and that is noted nowhere.
VerifyAsks(w) ==
  /\ verify[w].pc = "read"
  /\ \E asked \in SUBSET verify[w].stale, begun \in BOOLEAN :
     \E failed \in SUBSET asked, reached \in SUBSET Unlisted(w) :
     \E listed \in SUBSET reached :
       /\ asked # verify[w].stale => ~begun
       /\ ~begun => reached = {}
       /\ verify' = [verify EXCEPT
            ![w].pc = "asked",
            ![w].got = [answer |-> Answers(w, asked, failed, listed),
                        new |-> asked \ failed, files |-> listed],
            ![w].partial = asked # verify[w].stale \/ (begun /\ reached # Unlisted(w))]
  /\ UNCHANGED <<tables, caches, nextId, import, published, raced>>

\* Another verification has stored an answer for the first time meanwhile.
Duplicates(w) ==
  LET me == verify[w]
  IN \/ \E c \in me.got.new : me.cache[c] = None /\ cache[c] # None
     \/ me.got.files \cap files # {}

\* The verdict columns of a link that was read, if they differ from what was
\* read; the link may belong to another run by now.
Judged(l, me) ==
  LET answer == me.got.answer[CveOf[l]]
      host == IF l \in Kernel /\ CveOf[l] \in me.files \cup me.got.files
              THEN HostOf[run[me.id].of] ELSE None
  IN [link[l] EXCEPT
        !.tracker = IF answer \in {None, me.old[l].tracker} THEN @ ELSE answer,
        !.host = IF host \in {None, me.old[l].host} THEN @ ELSE host]

VerifyCommits(w) ==
  LET me == verify[w]
  IN /\ me.pc = "asked" /\ ~Duplicates(w)
     /\ link' = [l \in Link |-> IF l \in me.read THEN Judged(l, me) ELSE link[l]]
     /\ cache' = [c \in Cve |-> IF c \in me.got.new THEN me.got.answer[c] ELSE cache[c]]
     /\ files' = files \cup me.got.files
     /\ run' = [run EXCEPT ![me.id].verification = [partial |-> me.partial]]
     /\ verify' = [verify EXCEPT ![w] = NoVerify]
     /\ UNCHANGED <<document, known, nextId, import, published, raced>>

\* A conflict or any error: the job stands, the endpoint answers 502.
VerifyRollsBack(w) ==
  /\ verify[w].pc # "idle"
  /\ verify' = [verify EXCEPT ![w] = NoVerify]
  /\ UNCHANGED <<tables, caches, nextId, import, published, raced>>

TrackerPublishes(c) ==
  /\ published[c] < MaxVersion
  /\ published' = [published EXCEPT ![c] = @ + 1]
  /\ UNCHANGED <<tables, caches, nextId, import, verify, raced>>

-----------------------------------------------------------------------------
Next ==
  \/ \E i \in Importer : \/ \E r \in Result : ImportReads(i, r)
                         \/ ImportFlushes(i) \/ ImportCommits(i) \/ ImportRollsBack(i)
  \/ \E w \in Verifier : \/ \E id \in Id : VerifyReads(w, id)
                         \/ VerifyAsks(w) \/ VerifyCommits(w) \/ VerifyRollsBack(w)
  \/ \E c \in Cve : TrackerPublishes(c)

Spec == Init /\ [][Next]_vars

-----------------------------------------------------------------------------
(* Properties *)

Answer == 0..MaxVersion \cup {None}

\* Every table keeps its type.
TypeOK ==
  /\ document \in [Serial -> Sbom \cup {None}]
  /\ run \in [Id -> [of : Result, counts : Nat,
                     verification : [partial : BOOLEAN] \cup {None}] \cup {None}]
  /\ link \in [Link -> {NoLink} \cup [run : Id, severity : Severity,
                                      tracker : Answer, host : Host \cup {None}]]
  /\ known \subseteq Cve /\ files \subseteq Cve
  /\ cache \in [Cve -> Answer]
  /\ nextId \in 1..(MaxId + 1)
  /\ published \in [Cve -> 0..MaxVersion]
  /\ raced \in BOOLEAN
  /\ DOMAIN import = Importer /\ \A i \in Importer : DOMAIN import[i] = DOMAIN NoImport
  /\ DOMAIN verify = Verifier /\ \A w \in Verifier : DOMAIN verify[w] = DOMAIN NoVerify

\* However imports of one bundle interleave, it is stored once
\* (analysis.py:108, the unique report_sha256).
OneRunPerBundle == \A i, j \in Stored : Fingerprint[run[i].of] = Fingerprint[run[j].of] => i = j

\* The numbers of a run stay those of its own report, though its links move
\* to later runs (the comment at analysis.py:227).
CountsAreFrozen == \A i \in Stored : run[i].counts = Cardinality(Found(run[i].of))

\* A link says of its run what the report of that run says, unless imports
\* overlapped (analysis.py:195).
LinksFitTheirRun ==
  ~raced => \A l \in Link : link[l].run # None =>
    link[l].severity = Finds[run[link[l].run].of][l]

\* The latest run of a document has all links it found, which is what the
\* pages count; only overlapping imports can leave them with an older run
\* (assets.py:26).
LatestRunHasItsLinks ==
  ~raced => \A i \in Stored :
    (\A j \in Stored : SbomOf[run[j].of] = SbomOf[run[i].of] => j <= i)
      => Rows(link, i) = Found(run[i].of)

\* After a complete verification of a run its kernel links are judged by the
\* machine of that run, not by the one of an earlier import on the SBOM
\* (verification.py:329).
HostVerdictFitsRun ==
  ~raced => \A l \in Kernel : link[l].run # None =>
    LET r == run[link[l].run] IN
    r.verification # None /\ CveOf[l] \in files /\ link[l].host # None => link[l].host = HostOf[r.of]

\* What the pages of a run show of its links is the run's.
LinksFollowRuns == LinksFitTheirRun /\ LatestRunHasItsLinks /\ HostVerdictFitsRun

\* A verdict is only replaced by a later answer of the tracker: a transient
\* error keeps what was cached (verification.py:271).
VerdictsAdvance ==
  [][~raced => \A l \in Link : link[l].tracker # None => link'[l].tracker >= link[l].tracker]_vars

\* Only transactions under way have ids beyond those of the stored runs, and
\* no two have the same.
IdsAreFresh ==
  /\ \A i \in Id : i >= nextId => run[i] = None
  /\ \A i \in Importer : import[i].pc = "flushed" =>
       /\ import[i].id < nextId /\ run[import[i].id] = None
       /\ \A j \in Importer \ {i} : import[j].pc = "flushed" => import[j].id # import[i].id

\* The original of a stored run stays the document of its namespace, so that
\* a report of the run can still be made (comparison_reports.py:47), and a link
\* belongs to a stored run that found it.
OriginalIsKept ==
  /\ \A i \in Stored : document[SerialOf[SbomOf[run[i].of]]] = SbomOf[run[i].of]
  /\ \A l \in Link : link[l].run # None => link[l].run \in Stored /\ l \in Found(run[link[l].run].of)

\* What an import has read is of its bundle; a document and a link it saw are
\* still there, for nothing is ever deleted.
ImportsStand ==
  \A i \in Importer : LET me == import[i] IN
    /\ me.pc \in {"idle", "read", "flushed"}
    /\ me.pc # "idle" => /\ me.of \in Result
                         /\ me.document => document[SerialOf[SbomOf[me.of]]] = SbomOf[me.of]
                         /\ \A l \in Found(me.of) : me.old[l] # None => link[l].run # None
    /\ me.pc = "flushed" => me.id \in Id

\* What a verification has read and was answered: links of a stored run, and
\* answers the tracker has given.
VerifiesStand ==
  \A w \in Verifier : LET me == verify[w] IN
    /\ me.pc \in {"idle", "read", "asked"} /\ me.partial \in BOOLEAN
    /\ me.pc # "idle" => /\ me.id \in Stored /\ me.read \subseteq Link /\ me.files \subseteq files /\ me.stale \subseteq Cve
                         /\ \A l \in me.read : link[l].run # None
                         /\ \A d \in Cve : me.cache[d] # None => me.cache[d] \in 0..published[d]
    /\ me.pc = "asked" => /\ me.got.new \subseteq Cve /\ me.got.files \subseteq Cve
                          /\ \A d \in Cve : me.got.answer[d] # None => me.got.answer[d] \in 0..published[d]
                          /\ \A d \in me.got.new : me.got.answer[d] # None

\* No cache is ahead of its source, and a link whose machine was asked is listed.
CachesFit ==
  /\ \A d \in Cve : cache[d] # None => cache[d] <= published[d]
  /\ \A l \in Link : link[l].host # None => CveOf[l] \in files

\* As long as transactions have not overlapped, what one has read is what is
\* stored: it is alone, its id is the latest, and verdicts come from the cache.
Alone ==
  /\ \A x, y \in Importer : import[x].pc # "idle" /\ import[y].pc # "idle" => x = y
  /\ \A x, y \in Verifier : verify[x].pc # "idle" /\ verify[y].pc # "idle" => x = y
  /\ \A x \in Importer, y \in Verifier : import[x].pc = "idle" \/ verify[y].pc = "idle"

ReadsStand ==
  /\ \A i \in Importer : LET me == import[i] IN
       /\ me.pc # "idle" => \A l \in Found(me.of) : me.old[l] = link[l].severity
       /\ me.pc = "flushed" => \A j \in Stored : j < me.id
  /\ \A w \in Verifier : LET me == verify[w] IN
       /\ me.pc # "idle" => /\ me.cache = cache /\ me.files = files /\ me.read = Rows(link, me.id)
                            /\ \A l \in me.read : me.old[l].host = link[l].host
       /\ me.pc = "asked" => \A d \in Cve : /\ d \notin me.got.new => me.got.answer[d] = cache[d]
                                            /\ cache[d] # None => cache[d] <= me.got.answer[d]
  /\ \A l \in Link : link[l].tracker # None => /\ cache[CveOf[l]] # None
                                               /\ link[l].tracker <= cache[CveOf[l]]

\* What every transaction starts from and leaves.
IInv == /\ TypeOK /\ OneRunPerBundle /\ CountsAreFrozen /\ IdsAreFresh /\ OriginalIsKept
        /\ ImportsStand /\ VerifiesStand /\ CachesFit
        /\ ~raced => Alone /\ ReadsStand
=============================================================================
