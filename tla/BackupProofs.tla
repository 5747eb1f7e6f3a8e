---------------------------- MODULE BackupProofs ----------------------------
(***************************************************************************)
(* Proofs about Backup, for any runs, projects, uploads and clock, and for *)
(* any number of runs at once, deaths, power losses and notes; and about   *)
(* the crontab, for any lines and edits.                                   *)
(***************************************************************************)
EXTENDS Backup, FiniteSetTheorems, WellFoundedInduction, SequenceTheorems, TLAPS

\* What PlacesFit, FilesFit and VictimsFit say of one run.
PlaceFits(r) ==
  /\ pc[r] = "idle" <=> place[r] = "none"
  /\ pc[r] \in DOMAIN Finished => place[r] = "staging"
  /\ pc[r] = "sync" => place[r] \in {"renamed", "gone"}
  /\ pc[r] \in Retaining \cup {"done"} => place[r] \in {"published", "gone"}
  /\ pc[r] = "failed" => place[r] \in {"renamed", "published", "gone"}
  /\ r \in tempdb => pc[r] \in {"restore", "failed", "killed"}

FileFits(r) ==
  /\ pc[r] \in DOMAIN Finished =>
       /\ \A f \in Finished[pc[r]] : file[r][f] = "whole"
       /\ \A f \in File \ Finished[pc[r]] : file[r][f] = "absent" \/ (f = pc[r] /\ file[r][f] = "cached")
       /\ file[r]["dump"] # "absent" => dump[r] = snap[r]
       /\ file[r]["uploads"] # "absent" => copied[r] = snap[r]
  /\ place[r] \in {"renamed", "published"} =>
       /\ \A f \in File : file[r][f] \in {"absent", "whole"}
       /\ dump[r] = copied[r]

VictimFits(r) ==
  pc[r] = "unlink" =>
    /\ victims[r].now \in Run /\ place[victims[r].now] \in {"renamed", "published", "gone"}
    /\ \A k \in 1..(victims[r].next - 1) : file[victims[r].now][OrderOf[r][k]] = "absent"

Place   == {"none", "staging", "renamed", "published", "gone"}
Kept    == {"absent", "torn", "cached", "whole"}
Stage   == Ended \cup Retaining \cup File \cup {"snapshot", "check", "create", "restore", "rename", "sync"}
Removal == [rest : SUBSET Run, now : Run \cup {NoRun}, next : 1..5]

-----------------------------------------------------------------------------
(* The parts of the invariant *)

\* TypeOK with the names given above.
LEMMA TypeFacts ==
  TypeOK <=> /\ rows \subseteq Upload /\ archive \subseteq Upload
             /\ DOMAIN pc = Run /\ \A r \in Run : pc[r] \in Stage
             /\ place \in [Run -> Place]
             /\ file \in [Run -> [File -> Kept]]
             /\ \A r \in Run : place[r] \in {"none", "gone"} => file[r] = NoFiles
             /\ snap \in [Run -> SUBSET Upload] /\ dump \in [Run -> SUBSET Upload]
             /\ copied \in [Run -> SUBSET Upload]
             /\ stamp \in [Run -> Time \cup {0}]
             /\ tempdb \subseteq Run /\ notes \subseteq Run
             /\ victims \in [Run -> Removal]
             /\ raced \in BOOLEAN
  BY DEF TypeOK, Stage, Place, Kept, Removal

\* The state of one run.
LEMMA StateFacts ==
  ASSUME TypeOK, NEW r \in Run
  PROVE  /\ pc[r] \in Stage /\ place[r] \in Place /\ file[r] \in [File -> Kept]
         /\ place[r] \in {"none", "gone"} => file[r] = NoFiles
         /\ snap[r] \in SUBSET Upload /\ dump[r] \in SUBSET Upload /\ copied[r] \in SUBSET Upload
         /\ stamp[r] \in Time \cup {0}
         /\ victims[r] \in Removal
         /\ victims[r].rest \in SUBSET Run /\ victims[r].now \in Run \cup {NoRun} /\ victims[r].next \in 1..5
<1>1. victims[r] \in Removal
  BY TypeFacts
<1>2. victims[r].rest \in SUBSET Run /\ victims[r].now \in Run \cup {NoRun} /\ victims[r].next \in 1..5
  BY <1>1 DEF Removal
<1> QED BY <1>1, <1>2, TypeFacts

\* The steps whose directory is being made.
LEMMA FinishedFacts ==
  /\ DOMAIN Finished = {"snapshot", "dump", "uploads", "check", "create", "restore", "manifest", "COMPLETE", "rename"}
  /\ Finished["snapshot"] = {} /\ Finished["dump"] = {} /\ Finished["uploads"] = {"dump"}
  /\ Finished["check"] = {"dump", "uploads"} /\ Finished["create"] = {"dump", "uploads"}
  /\ Finished["restore"] = {"dump", "uploads"} /\ Finished["manifest"] = {"dump", "uploads"}
  /\ Finished["COMPLETE"] = {"dump", "uploads", "manifest"} /\ Finished["rename"] = File
  BY DEF Finished

\* The parts of BackupAssumption.
LEMMA ConstantFacts ==
  /\ \A r \in Run : r \in Nat
  /\ \A t \in Time : t \in Nat
  /\ IsFiniteSet(Run) /\ NoRun \notin Run /\ Keep \in Nat /\ Keep > 0
  BY BackupAssumption

\* Every run goes through the four files.
LEMMA OrderFacts ==
  ASSUME NEW r \in Run
  PROVE  /\ \A k \in 1..4 : OrderOf[r][k] \in File
         /\ \A f \in File : \E k \in 1..4 : OrderOf[r][k] = f
<1>1. OrderOf[r] \in Seq(File) /\ Range(OrderOf[r]) = File /\ Len(OrderOf[r]) = 4
  BY BackupAssumption
<1>2. DOMAIN OrderOf[r] = 1..4
  BY <1>1
<1> QED BY <1>1, <1>2 DEF Range

\* What the invariant says of each run.
LEMMA Parts ==
  ASSUME IInv
  PROVE  /\ TypeOK
         /\ \A r \in Run : PlaceFits(r) /\ FileFits(r) /\ VictimFits(r)
         /\ ~raced => Alone
  BY DEF IInv, PlacesFit, FilesFit, VictimsFit, PlaceFits, FileFits, VictimFits

\* The other way round: what can be restored, and what is left, follows.
LEMMA Whole ==
  ASSUME TypeOK, \A r \in Run : PlaceFits(r) /\ FileFits(r) /\ VictimFits(r), ~raced => Alone
  PROVE  IInv
<1>1. PlacesFit /\ FilesFit /\ VictimsFit
  BY DEF PlacesFit, FilesFit, VictimsFit, PlaceFits, FileFits, VictimFits
<1>2. BackupIsRestorable
  <2> SUFFICES ASSUME NEW r \in Run, r \in Managed(ProjectOf[r])
               PROVE  file[r]["dump"] = "whole" /\ file[r]["uploads"] = "whole" /\ dump[r] = copied[r]
    BY DEF BackupIsRestorable
  <2>1. place[r] \in {"renamed", "published"} /\ \A f \in File : file[r][f] # "absent"
    BY DEF Managed
  <2> QED BY <2>1 DEF FileFits, File
<1>3. NoLeftovers
  BY DEF NoLeftovers, PlaceFits, Working, Ended, Retaining
<1> QED BY <1>1, <1>2, <1>3 DEF IInv

\* The same after a step.
LEMMA WholeAfter ==
  ASSUME TypeOK', \A r \in Run : PlaceFits(r)' /\ FileFits(r)' /\ VictimFits(r)', (~raced => Alone)'
  PROVE  IInv'
<1>1. PlacesFit' /\ FilesFit' /\ VictimsFit'
  BY DEF PlacesFit, FilesFit, VictimsFit, PlaceFits, FileFits, VictimFits
<1>2. BackupIsRestorable'
  <2> SUFFICES ASSUME NEW r \in Run, (r \in Managed(ProjectOf[r]))'
               PROVE  (file[r]["dump"] = "whole" /\ file[r]["uploads"] = "whole" /\ dump[r] = copied[r])'
    BY DEF BackupIsRestorable
  <2>1. (place[r] \in {"renamed", "published"} /\ \A f \in File : file[r][f] # "absent")'
    BY DEF Managed
  <2> QED BY <2>1 DEF FileFits, File
<1>3. NoLeftovers'
  BY DEF NoLeftovers, PlaceFits, Working, Ended, Retaining
<1> QED BY <1>1, <1>2, <1>3 DEF IInv

-----------------------------------------------------------------------------
(* The order of backups *)

\* The backups of the project of r that are ahead of e.
Before(r, e) == {d \in Managed(ProjectOf[r]) : Ahead(r, d, e)}

\* What is managed is made by some run.
LEMMA ManagedFacts ==
  \A p : Managed(p) \subseteq Run /\ IsFiniteSet(Managed(p))
<1>1. \A p : Managed(p) \in SUBSET Run
  BY DEF Managed
<1> QED BY <1>1, BackupAssumption, FS_Subset

\* Ahead is a strict order.
LEMMA AheadOrder ==
  ASSUME TypeOK, NEW r \in Run, NEW d \in Run, NEW e \in Run
  PROVE  /\ ~Ahead(r, d, d) /\ ~Ahead(r, d, r)
         /\ \A f \in Run : Ahead(r, d, e) /\ Ahead(r, e, f) => Ahead(r, d, f)
<1>1. stamp \in [Run -> Time \cup {0}]
  BY TypeFacts
<1>2. ASSUME NEW x \in Run PROVE x \in Nat /\ stamp[x] \in Nat
  <2>1. stamp[x] \in Time \cup {0}
    BY <1>1
  <2> QED BY <2>1, ConstantFacts
<1> QED BY <1>2 DEF Ahead

\* Of the backups ahead of one that is removed, Keep are not removed
\* themselves.
LEMMA RankLemma ==
  ASSUME TypeOK, NEW r \in Run, NEW e \in Managed(ProjectOf[r]), Cardinality(Before(r, e)) >= Keep
  PROVE  Cardinality({d \in Before(r, e) : Cardinality(Before(r, d)) < Keep}) >= Keep
<1> DEFINE all  == Managed(ProjectOf[r])
           mine == {d \in Before(r, e) : Cardinality(Before(r, d)) < Keep}
           bad  == Before(r, e) \ mine
<1>1. all \subseteq Run /\ IsFiniteSet(all)
  BY ManagedFacts
<1>2. \A d \in Run : /\ Before(r, d) \in SUBSET all /\ IsFiniteSet(Before(r, d))
                     /\ Cardinality(Before(r, d)) \in Nat
  <2>1. \A d \in Run : Before(r, d) \in SUBSET all
    BY DEF Before
  <2> QED BY <1>1, <2>1, FS_Subset, FS_CardinalityType
<1>3. e \in Run
  BY <1>1
<1>4. IsFiniteSet(mine) /\ Cardinality(mine) \in Nat
  BY <1>2, <1>3, FS_Subset, FS_CardinalityType
<1>5. ASSUME ~(Cardinality(mine) >= Keep) PROVE FALSE
  <2>1. bad # {}
    <3>1. mine # Before(r, e)
      BY <1>5
    <3> QED BY <3>1
  <2> DEFINE downs == {Before(r, d) : d \in bad}
             order == StrictSubsetOrdering(all)
  <2>2. downs \subseteq FiniteSubsetsOf(all) /\ downs # {}
    BY <1>1, <1>2, <2>1 DEF FiniteSubsetsOf, Before
  <2>3. \E x \in downs : \A y \in downs : ~(<<y, x>> \in order)
    BY <2>2, FS_StrictSubsetOrderingWellFounded, WFMin
  <2>4. PICK d \in bad : \A c \in bad : ~(<<Before(r, c), Before(r, d)>> \in order)
    BY <2>3
  <2>5. d \in Run /\ d \in all /\ Ahead(r, d, e)
    BY <1>1 DEF Before
  <2>6. Before(r, d) \subseteq Before(r, e)
    BY <1>1, <1>3, <2>5, AheadOrder DEF Before
  <2>7. ASSUME NEW c \in Before(r, d), c \in bad PROVE FALSE
    <3>1. c \in Run /\ Ahead(r, c, d)
      BY <1>1 DEF Before
    <3>2. Before(r, c) \subseteq Before(r, d)
      BY <1>1, <2>5, <3>1, AheadOrder DEF Before
    <3>3. c \notin Before(r, c)
      BY <3>1, AheadOrder DEF Before
    <3>4. <<Before(r, c), Before(r, d)>> \in order
      BY <1>2, <2>5, <3>1, <3>2, <3>3 DEF StrictSubsetOrdering
    <3> QED BY <2>4, <2>7, <3>4
  <2>8. Before(r, d) \in SUBSET mine
    BY <2>6, <2>7
  <2>9. Cardinality(Before(r, d)) <= Cardinality(mine)
    BY <1>4, <2>8, FS_Subset
  <2>10. Cardinality(Before(r, d)) < Keep
    BY <1>2, <1>4, <1>5, <2>5, <2>9, BackupAssumption
  <2> QED BY <2>10
<1> QED BY <1>5

-----------------------------------------------------------------------------
(* Steps of one run *)

\* A run does something with its own directory only: whatever is true of the
\* others stays true, and of a directory that is being removed nothing comes
\* back.
LEMMA OwnStep ==
  ASSUME IInv, TypeOK', NEW r \in Run, Working(r), raced' = raced,
         \A s \in Run \ {r} : /\ pc'[s] = pc[s] /\ place'[s] = place[s] /\ file'[s] = file[s]
                              /\ snap'[s] = snap[s] /\ dump'[s] = dump[s] /\ copied'[s] = copied[s]
                              /\ victims'[s] = victims[s] /\ (s \in tempdb' => s \in tempdb),
         PlaceFits(r)', FileFits(r)', VictimFits(r)',
         place[r] \in {"renamed", "published", "gone"} =>
           /\ place'[r] \in {"renamed", "published", "gone"}
           /\ \A f \in File : file[r][f] = "absent" => file'[r][f] = "absent",
         ~raced /\ pc'[r] \in {"choose", "unlink"} => KeepsEnough(r)'
  PROVE  IInv'
<1>1. /\ TypeOK
      /\ ~raced => Alone
      /\ \A s \in Run : PlaceFits(s) /\ FileFits(s) /\ VictimFits(s)
  BY Parts
<1>2. \A v \in Run : place[v] \in {"renamed", "published", "gone"} =>
        /\ place'[v] \in {"renamed", "published", "gone"}
        /\ \A f \in File : file[v][f] = "absent" => file'[v][f] = "absent"
  OBVIOUS
<1>3. ASSUME NEW s \in Run \ {r} PROVE PlaceFits(s)' /\ FileFits(s)' /\ VictimFits(s)'
  <2>1. PlaceFits(s) /\ FileFits(s) /\ VictimFits(s)
    BY <1>1
  <2>2. PlaceFits(s)'
    BY <2>1 DEF PlaceFits, Finished
  <2>3. FileFits(s)'
    BY <2>1 DEF FileFits, Finished
  <2>4. VictimFits(s)'
    <3> SUFFICES ASSUME pc'[s] = "unlink"
                 PROVE  /\ victims'[s].now \in Run /\ place'[victims'[s].now] \in {"renamed", "published", "gone"}
                        /\ \A k \in 1..(victims'[s].next - 1) : file'[victims'[s].now][OrderOf[s][k]] = "absent"
      BY DEF VictimFits
    <3> DEFINE v == victims[s].now
    <3>1. /\ v \in Run /\ place[v] \in {"renamed", "published", "gone"}
          /\ \A k \in 1..(victims[s].next - 1) : file[v][OrderOf[s][k]] = "absent"
      BY <2>1 DEF VictimFits
    <3>2. victims[s].next \in 1..5
      BY <1>1, StateFacts
    <3>3. \A k \in 1..(victims[s].next - 1) : OrderOf[s][k] \in File
      BY <3>2, OrderFacts
    <3>4. victims'[s] = victims[s]
      OBVIOUS
    <3> HIDE DEF v
    <3>5. /\ place'[v] \in {"renamed", "published", "gone"}
          /\ \A k \in 1..(victims[s].next - 1) : file'[v][OrderOf[s][k]] = "absent"
      BY <1>2, <3>1, <3>3
    <3> QED BY <3>1, <3>4, <3>5 DEF v
  <2> QED BY <2>2, <2>3, <2>4
<1>4. ASSUME ~raced' PROVE Alone'
  <2>1. Alone /\ ~raced
    BY <1>1, <1>4, Zenon
  <2>2. \A s \in Run \ {r} : pc[s] \in Ended
    BY <2>1 DEF Alone, Working
  <2>3. \A s \in Run \ {r} : pc'[s] \in Ended
    BY <2>2
  <2> QED BY <2>1, <2>3 DEF Alone, Working, Ended
<1> QED BY <1>3, <1>4, WholeAfter

\* A step of a run whose directory stays in staging.
LEMMA Making ==
  ASSUME IInv, TypeOK', NEW r \in Run, pc[r] \in DOMAIN Finished, raced' = raced, place' = place, victims' = victims,
         \A s \in Run \ {r} : /\ pc'[s] = pc[s] /\ file'[s] = file[s]
                              /\ snap'[s] = snap[s] /\ dump'[s] = dump[s] /\ copied'[s] = copied[s]
                              /\ s \in tempdb' => s \in tempdb,
         PlaceFits(r)', FileFits(r)'
  PROVE  IInv'
<1>1. place[r] = "staging"
  BY Parts DEF PlaceFits
<1>2. Working(r)
  BY FinishedFacts DEF Working, Ended
<1>3. pc'[r] \notin {"choose", "unlink"}
  BY <1>1 DEF PlaceFits, Retaining
<1>4. VictimFits(r)'
  BY <1>3 DEF VictimFits
<1> QED BY <1>1, <1>2, <1>3, <1>4, OwnStep

\* A file of the directory is written.
LEMMA WrittenStep ==
  ASSUME IInv, TypeOK', NEW r \in Run, NEW f \in File, Written(r, f), raced' = raced, place' = place, victims' = victims,
         pc' = pc, tempdb' = tempdb, snap' = snap, copied' = copied,
         \A s \in Run \ {r} : dump'[s] = dump[s],
         dump'[r] = IF f = "dump" THEN snap[r] ELSE dump[r],
         f = "uploads" => copied[r] = snap[r]
  PROVE  IInv'
<1>1. PlaceFits(r) /\ FileFits(r)
  BY Parts
<1>2. pc[r] = f /\ f \in DOMAIN Finished /\ file[r][f] = "absent" /\ f \notin Finished[f]
  BY FinishedFacts DEF Written, File
<1>3. /\ file'[r][f] = "cached" /\ \A g \in File \ {f} : file'[r][g] = file[r][g]
      /\ \A s \in Run \ {r} : file'[s] = file[s]
  BY Parts, TypeFacts DEF Written
<1>4. PlaceFits(r)'
  BY <1>1 DEF PlaceFits, Finished
<1>5. place[r] = "staging"
  BY <1>1, <1>2 DEF PlaceFits
<1>6. FileFits(r)'
  <2>1. /\ \A g \in Finished[f] : file[r][g] = "whole"
        /\ \A g \in File \ Finished[f] : file[r][g] = "absent" \/ (g = f /\ file[r][g] = "cached")
        /\ file[r]["dump"] # "absent" => dump[r] = snap[r]
        /\ file[r]["uploads"] # "absent" => copied[r] = snap[r]
    BY <1>1, <1>2 DEF FileFits
  <2>2. Finished[f] \subseteq File
    BY <1>2, FinishedFacts DEF File
  <2>3. /\ \A g \in Finished[f] : file'[r][g] = "whole"
        /\ \A g \in File \ Finished[f] : file'[r][g] = "absent" \/ (g = f /\ file'[r][g] = "cached")
    BY <1>2, <1>3, <2>1, <2>2
  <2>4. /\ file'[r]["dump"] # "absent" => dump'[r] = snap[r]
        /\ file'[r]["uploads"] # "absent" => copied[r] = snap[r]
    BY <1>3, <2>1 DEF File
  <2>5. Finished' = Finished
    BY DEF Finished
  <2> QED BY <1>2, <1>5, <2>3, <2>4, <2>5 DEF FileFits
<1> QED BY <1>2, <1>3, <1>4, <1>6, Making

\* A file of the directory is synced.
LEMMA SyncedStep ==
  ASSUME IInv, TypeOK', NEW r \in Run, NEW f \in File, NEW next \in DOMAIN Finished, Synced(r, f, next),
         Finished[next] = Finished[f] \cup {f}, next \notin Finished[next],
         raced' = raced, place' = place, victims' = victims,
         tempdb' = tempdb, snap' = snap, copied' = copied, dump' = dump
  PROVE  IInv'
<1>1. PlaceFits(r) /\ FileFits(r)
  BY Parts
<1>2. pc[r] = f /\ f \in DOMAIN Finished /\ file[r][f] = "cached"
  BY FinishedFacts DEF Synced, File
<1>3. /\ file'[r][f] = "whole" /\ \A g \in File \ {f} : file'[r][g] = file[r][g]
      /\ \A s \in Run \ {r} : file'[s] = file[s] /\ pc'[s] = pc[s]
      /\ pc'[r] = next
  BY Parts, TypeFacts DEF Synced, Go
<1>4. place[r] = "staging"
  BY <1>1, <1>2 DEF PlaceFits
<1>5. r \notin tempdb
  BY <1>1, <1>2 DEF PlaceFits, File
<1>6. Finished' = Finished
  BY DEF Finished
<1>7. PlaceFits(r)'
  BY <1>3, <1>4, <1>5, <1>6, FinishedFacts DEF PlaceFits, Retaining
<1>8. FileFits(r)'
  <2>1. /\ \A g \in Finished[f] : file[r][g] = "whole"
        /\ \A g \in File \ Finished[f] : file[r][g] = "absent" \/ (g = f /\ file[r][g] = "cached")
        /\ file[r]["dump"] # "absent" => dump[r] = snap[r]
        /\ file[r]["uploads"] # "absent" => copied[r] = snap[r]
    BY <1>1, <1>2 DEF FileFits
  <2>2. Finished[f] \subseteq File
    BY <1>2, FinishedFacts DEF File
  <2>3. /\ \A g \in Finished[next] : file'[r][g] = "whole"
        /\ \A g \in File \ Finished[next] : file'[r][g] = "absent" \/ (g = next /\ file'[r][g] = "cached")
    BY <1>3, <2>1, <2>2
  <2>4. /\ file'[r]["dump"] # "absent" => dump[r] = snap[r]
        /\ file'[r]["uploads"] # "absent" => copied[r] = snap[r]
    BY <1>2, <1>3, <2>1 DEF File
  <2> QED BY <1>3, <1>4, <1>6, <2>3, <2>4 DEF FileFits
<1> QED BY <1>2, <1>3, <1>7, <1>8, Making

\* A step that changes no file, towards a step with the same files finished.
LEMMA MovesOn ==
  ASSUME IInv, TypeOK', NEW r \in Run, NEW next \in DOMAIN Finished, pc[r] \in DOMAIN Finished, Go(r, next),
         pc[r] \notin File, Finished[next] = Finished[pc[r]],
         raced' = raced, place' = place, victims' = victims, file' = file, dump' = dump, copied' = copied,
         \A s \in Run \ {r} : snap'[s] = snap[s] /\ (s \in tempdb' => s \in tempdb),
         pc[r] = "snapshot" \/ snap'[r] = snap[r],
         r \in tempdb' => next = "restore"
  PROVE  IInv'
<1>1. PlaceFits(r) /\ FileFits(r)
  BY Parts
<1>2. pc'[r] = next /\ \A s \in Run \ {r} : pc'[s] = pc[s]
  BY Parts, TypeFacts DEF Go
<1>3. place[r] = "staging"
  BY <1>1 DEF PlaceFits
<1>4. Finished' = Finished
  BY DEF Finished
<1>5. PlaceFits(r)'
  BY <1>2, <1>3, <1>4, FinishedFacts DEF PlaceFits, Retaining
<1>6. FileFits(r)'
  <2>1. /\ \A g \in Finished[next] : file[r][g] = "whole"
        /\ \A g \in File \ Finished[next] : file[r][g] = "absent"
        /\ file[r]["dump"] # "absent" => dump[r] = snap[r]
        /\ file[r]["uploads"] # "absent" => copied[r] = snap[r]
    BY <1>1 DEF FileFits
  <2>2. pc[r] = "snapshot" => file[r]["dump"] = "absent" /\ file[r]["uploads"] = "absent"
    BY <2>1, FinishedFacts DEF File
  <2> QED BY <1>2, <1>3, <1>4, <2>1, <2>2 DEF FileFits
<1> QED BY <1>2, <1>5, <1>6, Making

-----------------------------------------------------------------------------
(* The steps before a backup is published *)

\* The runs of a step keep their type.
LEMMA GoType ==
  ASSUME TypeOK, NEW r \in Run, NEW next \in Stage, Go(r, next)
  PROVE  DOMAIN pc' = Run /\ \A s \in Run : pc'[s] \in Stage
  BY TypeFacts DEF Go

\* A snapshot may name any uploads.
LEMMA TakesSnapshotStep ==
  ASSUME IInv, NEW r \in Run, TakesSnapshot(r)
  PROVE  IInv'
<1>1. TypeOK'
  <2>1. DOMAIN pc' = Run /\ \A s \in Run : pc'[s] \in Stage
    BY Parts, GoType DEF TakesSnapshot, Stage, File
  <2>2. snap' \in [Run -> SUBSET Upload]
    BY Parts, TypeFacts DEF TakesSnapshot
  <2> QED BY <2>1, <2>2, Parts DEF TakesSnapshot, TypeOK, Stage, system, cron
<1>2. \A s \in Run \ {r} : snap'[s] = snap[s]
  BY Parts, TypeFacts DEF TakesSnapshot
<1>3. r \notin tempdb
  BY Parts DEF PlaceFits, TakesSnapshot
<1> QED BY <1>1, <1>2, <1>3, MovesOn, FinishedFacts DEF TakesSnapshot, File

\* So do the files of a run that makes its directory.
LEMMA FileType ==
  ASSUME IInv, NEW r \in Run, NEW f \in File, NEW v \in Kept, pc[r] \in DOMAIN Finished, place' = place,
         file' = [file EXCEPT ![r][f] = v]
  PROVE  /\ file' \in [Run -> [File -> Kept]]
         /\ \A s \in Run : place'[s] \in {"none", "gone"} => file'[s] = NoFiles
<1>1. file \in [Run -> [File -> Kept]] /\ \A s \in Run : place[s] \in {"none", "gone"} => file[s] = NoFiles
  BY Parts, TypeFacts
<1>2. place[r] = "staging"
  BY Parts DEF PlaceFits
<1> QED BY <1>1, <1>2

\* The dump reads what the snapshot named.
LEMMA DumpsStep ==
  ASSUME IInv, NEW r \in Run, Dumps(r)
  PROVE  IInv'
<1>1. TypeOK'
  <2>1. dump' \in [Run -> SUBSET Upload]
    BY Parts, TypeFacts DEF Dumps
  <2>2. /\ file' \in [Run -> [File -> Kept]]
        /\ \A s \in Run : place'[s] \in {"none", "gone"} => file'[s] = NoFiles
    BY FileType, FinishedFacts DEF Dumps, Written, Kept, File
  <2> QED BY <2>1, <2>2, Parts DEF Dumps, TypeOK, Kept, system, cron
<1>2. dump'[r] = snap[r] /\ \A s \in Run \ {r} : dump'[s] = dump[s]
  BY Parts, TypeFacts DEF Dumps
<1> QED BY <1>1, <1>2, WrittenStep DEF Dumps, File

\* The dump is on the disk before the archives are copied.
LEMMA SyncsDumpStep ==
  ASSUME IInv, NEW r \in Run, SyncsDump(r)
  PROVE  IInv'
<1>1. TypeOK'
  <2>1. DOMAIN pc' = Run /\ \A s \in Run : pc'[s] \in Stage
    BY Parts, GoType DEF SyncsDump, Synced, Stage, File
  <2>2. /\ file' \in [Run -> [File -> Kept]]
        /\ \A s \in Run : place'[s] \in {"none", "gone"} => file'[s] = NoFiles
    BY FileType, FinishedFacts DEF SyncsDump, Synced, Kept, File
  <2> QED BY <2>1, <2>2, Parts DEF SyncsDump, TypeOK, Kept, Stage, data, system, cron
<1> QED BY <1>1, SyncedStep, FinishedFacts DEF SyncsDump, File, data

\* Each archive is copied once.
LEMMA CopiesUploadStep ==
  ASSUME IInv, NEW r \in Run, NEW u \in Upload, CopiesUpload(r, u)
  PROVE  IInv'
<1>1. TypeOK'
  <2>1. copied' \in [Run -> SUBSET Upload]
    BY Parts, TypeFacts DEF CopiesUpload
  <2> QED BY <2>1, Parts DEF CopiesUpload, TypeOK, system, cron
<1>2. \A s \in Run \ {r} : copied'[s] = copied[s]
  BY Parts, TypeFacts DEF CopiesUpload
<1>3. pc[r] = "uploads" /\ file[r]["uploads"] = "absent" /\ place[r] = "staging"
  BY Parts, FinishedFacts DEF CopiesUpload, PlaceFits
<1>4. PlaceFits(r)'
  BY Parts DEF PlaceFits, CopiesUpload, Finished
<1>5. FileFits(r)'
  BY <1>3, Parts DEF FileFits, CopiesUpload, Finished
<1> QED BY <1>1, <1>2, <1>3, <1>4, <1>5, Making, FinishedFacts DEF CopiesUpload

\* The archives are there when each upload of the snapshot was copied.
LEMMA CopiesUploadsStep ==
  ASSUME IInv, NEW r \in Run, CopiesUploads(r)
  PROVE  IInv'
<1>1. TypeOK'
  <2>1. /\ file' \in [Run -> [File -> Kept]]
        /\ \A s \in Run : place'[s] \in {"none", "gone"} => file'[s] = NoFiles
    BY FileType, FinishedFacts DEF CopiesUploads, Written, Kept, File
  <2> QED BY <2>1, Parts DEF CopiesUploads, TypeOK, Kept, data, system, cron
<1> QED BY <1>1, WrittenStep DEF CopiesUploads, File, data

\* The archives are on the disk before they are checked.
LEMMA SyncsUploadsStep ==
  ASSUME IInv, NEW r \in Run, SyncsUploads(r)
  PROVE  IInv'
<1>1. TypeOK'
  <2>1. DOMAIN pc' = Run /\ \A s \in Run : pc'[s] \in Stage
    BY Parts, GoType DEF SyncsUploads, Synced, Stage
  <2>2. /\ file' \in [Run -> [File -> Kept]]
        /\ \A s \in Run : place'[s] \in {"none", "gone"} => file'[s] = NoFiles
    BY FileType, FinishedFacts DEF SyncsUploads, Synced, Kept, File
  <2> QED BY <2>1, <2>2, Parts DEF SyncsUploads, TypeOK, Kept, Stage, data, system, cron
<1> QED BY <1>1, SyncedStep, FinishedFacts DEF SyncsUploads, File, data

\* A check changes nothing that is kept.
LEMMA ChecksArchiveStep ==
  ASSUME IInv, NEW r \in Run, ChecksArchive(r)
  PROVE  IInv'
<1> DEFINE next == IF r \in Restore THEN "create" ELSE "manifest"
<1>1. TypeOK'
  <2>1. DOMAIN pc' = Run /\ \A s \in Run : pc'[s] \in Stage
    BY Parts, GoType DEF ChecksArchive, Stage, File
  <2> QED BY <2>1, Parts DEF ChecksArchive, TypeOK, Stage, data, system, cron
<1>2. r \notin tempdb
  BY Parts DEF PlaceFits, ChecksArchive
<1>3. next \in DOMAIN Finished /\ Finished[next] = Finished[pc[r]] /\ pc[r] \in DOMAIN Finished /\ pc[r] \notin File
  BY FinishedFacts DEF ChecksArchive, File
<1> QED BY <1>1, <1>2, <1>3, MovesOn DEF ChecksArchive, data

\* The database is there for the one step of restoring.
LEMMA CreatesDatabaseStep ==
  ASSUME IInv, NEW r \in Run, CreatesDatabase(r)
  PROVE  IInv'
<1>1. TypeOK'
  <2>1. DOMAIN pc' = Run /\ \A s \in Run : pc'[s] \in Stage
    BY Parts, GoType DEF CreatesDatabase, Stage
  <2> QED BY <2>1, Parts DEF CreatesDatabase, TypeOK, Stage, data, system, cron
<1> QED BY <1>1, MovesOn, FinishedFacts DEF CreatesDatabase, File, data

\* The database is gone before the manifest is written.
LEMMA DropsDatabaseStep ==
  ASSUME IInv, NEW r \in Run, DropsDatabase(r)
  PROVE  IInv'
<1>1. TypeOK'
  <2>1. DOMAIN pc' = Run /\ \A s \in Run : pc'[s] \in Stage
    BY Parts, GoType DEF DropsDatabase, Stage, File
  <2> QED BY <2>1, Parts DEF DropsDatabase, TypeOK, Stage, data, system, cron
<1> QED BY <1>1, MovesOn, FinishedFacts DEF DropsDatabase, File, data

\* The manifest is written at any time the clock may say.
LEMMA WritesManifestStep ==
  ASSUME IInv, NEW r \in Run, WritesManifest(r)
  PROVE  IInv'
<1>1. TypeOK'
  <2>1. stamp' \in [Run -> Time \cup {0}]
    BY Parts, TypeFacts DEF WritesManifest
  <2>2. /\ file' \in [Run -> [File -> Kept]]
        /\ \A s \in Run : place'[s] \in {"none", "gone"} => file'[s] = NoFiles
    BY FileType, FinishedFacts DEF WritesManifest, Written, Kept, File
  <2> QED BY <2>1, <2>2, Parts DEF WritesManifest, TypeOK, Kept, system, cron
<1> QED BY <1>1, WrittenStep DEF WritesManifest, File

\* The marker is the last file.
LEMMA WritesMarkerStep ==
  ASSUME IInv, NEW r \in Run, WritesMarker(r)
  PROVE  IInv'
<1>1. TypeOK'
  <2>1. /\ file' \in [Run -> [File -> Kept]]
        /\ \A s \in Run : place'[s] \in {"none", "gone"} => file'[s] = NoFiles
    BY FileType, FinishedFacts DEF WritesMarker, Written, Kept, File
  <2> QED BY <2>1, Parts DEF WritesMarker, TypeOK, Kept, data, system, cron
<1> QED BY <1>1, WrittenStep DEF WritesMarker, File, data

\* The manifest is on the disk before the marker is written, and the marker before the rename.
LEMMA SyncsPrivateStep ==
  ASSUME IInv, NEW r \in Run, SyncsPrivate(r)
  PROVE  IInv'
<1>1. PICK f \in {"manifest", "COMPLETE"} : Synced(r, f, IF f = "manifest" THEN "COMPLETE" ELSE "rename")
  BY DEF SyncsPrivate
<1> DEFINE next == IF f = "manifest" THEN "COMPLETE" ELSE "rename"
<1>2. TypeOK'
  <2>1. DOMAIN pc' = Run /\ \A s \in Run : pc'[s] \in Stage
    BY <1>1, Parts, GoType DEF Synced, Stage, File
  <2>2. /\ file' \in [Run -> [File -> Kept]]
        /\ \A s \in Run : place'[s] \in {"none", "gone"} => file'[s] = NoFiles
    BY <1>1, FileType, FinishedFacts DEF SyncsPrivate, Synced, Kept, File
  <2> QED BY <2>1, <2>2, Parts DEF SyncsPrivate, TypeOK, Kept, Stage, data, system, cron
<1>3. f \in File /\ next \in DOMAIN Finished /\ Finished[next] = Finished[f] \cup {f} /\ next \notin Finished[next]
  BY FinishedFacts DEF File
<1> QED BY <1>1, <1>2, <1>3, SyncedStep DEF SyncsPrivate, data

-----------------------------------------------------------------------------
(* Publishing, and failing *)

\* A run gets to the end of its directory with all of it on disk.
LEMMA PublishesStep ==
  ASSUME IInv, NEW r \in Run, Publishes(r)
  PROVE  IInv'
<1>1. PlaceFits(r) /\ FileFits(r) /\ pc[r] = "rename" /\ place[r] = "staging"
  BY Parts, FinishedFacts DEF Publishes, PlaceFits
<1>2. pc'[r] = "sync" /\ place'[r] = "renamed"
  BY Parts, TypeFacts DEF Publishes, Go
<1>3. \A s \in Run \ {r} : pc'[s] = pc[s] /\ place'[s] = place[s]
  BY Parts, TypeFacts DEF Publishes, Go
<1>4. TypeOK'
  <2>1. DOMAIN pc' = Run /\ \A s \in Run : pc'[s] \in Stage
    BY Parts, GoType DEF Publishes, Stage
  <2>2. /\ place' \in [Run -> Place]
        /\ \A s \in Run : place'[s] \in {"none", "gone"} => file[s] = NoFiles
    BY <1>2, <1>3, Parts, TypeFacts DEF Publishes, Place
  <2> QED BY <2>1, <2>2, Parts DEF Publishes, TypeOK, Stage, Place, data, system, cron
<1>5. PlaceFits(r)'
  BY <1>1, <1>2, FinishedFacts DEF PlaceFits, Publishes, Retaining, Finished
<1>6. FileFits(r)'
  <2>1. \A f \in File : file[r][f] = "whole"
    BY <1>1, FinishedFacts DEF FileFits
  <2>2. dump[r] = copied[r]
    BY <1>1, <2>1, FinishedFacts DEF FileFits, File
  <2> QED BY <1>2, <2>1, <2>2 DEF FileFits, Publishes, data, Finished
<1>7. VictimFits(r)'
  BY <1>2 DEF VictimFits
<1> QED BY <1>1, <1>2, <1>3, <1>4, <1>5, <1>6, <1>7, OwnStep DEF Publishes, data, Working, Ended

\* A retention may have removed the directory before it is synced.
LEMMA SyncsRootStep ==
  ASSUME IInv, NEW r \in Run, SyncsRoot(r)
  PROVE  IInv'
<1>1. PlaceFits(r) /\ FileFits(r) /\ pc[r] = "sync" /\ place[r] \in {"renamed", "gone"}
  BY Parts DEF SyncsRoot, PlaceFits
<1>2. pc'[r] = "list" /\ place'[r] = IF place[r] = "gone" THEN "gone" ELSE "published"
  BY Parts, TypeFacts DEF SyncsRoot, Go
<1>3. \A s \in Run \ {r} : pc'[s] = pc[s] /\ place'[s] = place[s]
  BY Parts, TypeFacts DEF SyncsRoot, Go
<1>4. TypeOK'
  <2>1. DOMAIN pc' = Run /\ \A s \in Run : pc'[s] \in Stage
    BY Parts, GoType DEF SyncsRoot, Stage, Retaining
  <2>2. /\ place' \in [Run -> Place]
        /\ \A s \in Run : place'[s] \in {"none", "gone"} => file[s] = NoFiles
    BY <1>1, <1>2, <1>3, Parts, TypeFacts DEF SyncsRoot, Place
  <2> QED BY <2>1, <2>2, Parts DEF SyncsRoot, TypeOK, Stage, Place, data, system, cron
<1>5. PlaceFits(r)'
  BY <1>1, <1>2, FinishedFacts DEF PlaceFits, SyncsRoot, Retaining, Finished
<1>6. FileFits(r)'
  BY <1>1, <1>2, FinishedFacts DEF FileFits, SyncsRoot, data, Finished
<1>7. VictimFits(r)'
  BY <1>2 DEF VictimFits
<1> QED BY <1>1, <1>2, <1>3, <1>4, <1>5, <1>6, <1>7, OwnStep DEF SyncsRoot, data, Working, Ended

\* The backup stays where it is, perhaps only until a power loss.
LEMMA FailsAfterRenameStep ==
  ASSUME IInv, NEW r \in Run, FailsAfterRename(r)
  PROVE  IInv'
<1>1. PlaceFits(r) /\ FileFits(r) /\ pc[r] = "sync" /\ place[r] \in {"renamed", "gone"}
  BY Parts DEF FailsAfterRename, PlaceFits
<1>2. pc'[r] = "failed" /\ \A s \in Run \ {r} : pc'[s] = pc[s]
  BY Parts, TypeFacts DEF FailsAfterRename, Go
<1>3. TypeOK'
  <2>1. DOMAIN pc' = Run /\ \A s \in Run : pc'[s] \in Stage
    BY Parts, GoType DEF FailsAfterRename, Stage, Ended
  <2> QED BY <2>1, Parts DEF FailsAfterRename, TypeOK, Stage, data, system, cron
<1>4. PlaceFits(r)'
  BY <1>1, <1>2, FinishedFacts DEF PlaceFits, FailsAfterRename, Retaining, Finished
<1>5. FileFits(r)'
  BY <1>1, <1>2, FinishedFacts DEF FileFits, FailsAfterRename, data, Finished
<1>6. VictimFits(r)'
  BY <1>2 DEF VictimFits
<1> QED BY <1>1, <1>2, <1>3, <1>4, <1>5, <1>6, OwnStep DEF FailsAfterRename, data, Working, Ended

\* A run that fails leaves nothing but, perhaps, its database.
LEMMA FailsStep ==
  ASSUME IInv, NEW r \in Run, Fails(r)
  PROVE  IInv'
<1>1. PlaceFits(r) /\ FileFits(r) /\ Working(r) /\ place[r] = "staging"
  BY Parts DEF Fails
<1>2. pc'[r] = "failed" /\ place'[r] = "gone" /\ file'[r] = NoFiles
  BY Parts, TypeFacts DEF Fails, Go
<1>3. \A s \in Run \ {r} : /\ pc'[s] = pc[s] /\ place'[s] = place[s] /\ file'[s] = file[s] /\ snap'[s] = snap[s]
                           /\ dump'[s] = dump[s] /\ copied'[s] = copied[s]
  BY Parts, TypeFacts DEF Fails, Go, Forget
<1>4. \A s \in Run : s \in tempdb' => s \in tempdb
  BY DEF Fails
<1>5. TypeOK'
  <2>1. DOMAIN pc' = Run /\ \A s \in Run : pc'[s] \in Stage
    BY Parts, GoType DEF Fails, Stage, Ended
  <2>2. /\ place' \in [Run -> Place] /\ file' \in [Run -> [File -> Kept]]
        /\ \A s \in Run : place'[s] \in {"none", "gone"} => file'[s] = NoFiles
    <3>1. NoFiles \in [File -> Kept]
      BY DEF NoFiles, Kept
    <3> QED BY <1>2, <1>3, <3>1, Parts, TypeFacts DEF Fails, Place
  <2>3. /\ snap' \in [Run -> SUBSET Upload] /\ dump' \in [Run -> SUBSET Upload]
        /\ copied' \in [Run -> SUBSET Upload] /\ stamp' \in [Run -> Time \cup {0}]
    BY Parts, TypeFacts DEF Fails, Forget
  <2> QED BY <2>1, <2>2, <2>3, Parts DEF Fails, TypeOK, Stage, Place, Kept, system, cron
<1>6. PlaceFits(r)'
  BY <1>1, <1>2, FinishedFacts DEF PlaceFits, Retaining, Finished
<1>7. FileFits(r)'
  BY <1>2, FinishedFacts DEF FileFits, Finished
<1>8. VictimFits(r)'
  BY <1>2 DEF VictimFits
<1> QED BY <1>1, <1>2, <1>3, <1>4, <1>5, <1>6, <1>7, <1>8, OwnStep DEF Fails

-----------------------------------------------------------------------------
(* Retention *)

\* The list names what has Keep backups ahead of it, and those do not go.
LEMMA ListKeeps ==
  ASSUME IInv, NEW r \in Run, ListsBackups(r)
  PROVE  KeepsEnough(r)'
<1> DEFINE all  == Managed(ProjectOf[r])
           rest == {e \in all : Cardinality(Before(r, e)) >= Keep}
<1>1. TypeOK
  BY Parts
<1>2. victims'[r].rest = rest /\ pc'[r] = "choose"
  <2>1. victims'[r].rest = {e \in all : Cardinality({d \in all : Ahead(r, d, e)}) >= Keep}
    BY <1>1, TypeFacts DEF ListsBackups, Removal
  <2> QED BY <1>1, <2>1, TypeFacts DEF ListsBackups, Go, Before
<1>3. /\ \A p : Managed(p)' = Managed(p)
      /\ \A d, e : Ahead(r, d, e)' = Ahead(r, d, e)
  BY DEF ListsBackups, Managed, Ahead, data
<1>4. Going(r)' = rest
  BY <1>2 DEF Going
<1>5. ASSUME NEW e \in rest
      PROVE  /\ e # r /\ ProjectOf[e] = ProjectOf[r]
             /\ Cardinality({d \in all \ rest : Ahead(r, d, e)}) >= Keep
  <2>1. e \in Run /\ ProjectOf[e] = ProjectOf[r]
    BY DEF Managed
  <2>2. e # r
    <3> SUFFICES ASSUME e = r PROVE FALSE
      OBVIOUS
    <3>1. Before(r, r) = {}
      BY <1>1, AheadOrder, ManagedFacts DEF Before
    <3>2. Cardinality(Before(r, r)) = 0
      BY <3>1, FS_EmptySet
    <3> QED BY <3>2, ConstantFacts
  <2>3. Cardinality({d \in Before(r, e) : Cardinality(Before(r, d)) < Keep}) >= Keep
    BY <1>1, RankLemma
  <2>4. {d \in all \ rest : Ahead(r, d, e)} = {d \in Before(r, e) : Cardinality(Before(r, d)) < Keep}
    <3>1. ASSUME NEW d \in all
          PROVE  d \notin rest <=> Cardinality(Before(r, d)) < Keep
      <4>1. Before(r, d) \in SUBSET all
        BY DEF Before
      <4>2. Cardinality(Before(r, d)) \in Nat
        BY <4>1, ManagedFacts, FS_Subset, FS_CardinalityType
      <4> QED BY <4>2, ConstantFacts
    <3> QED BY <3>1 DEF Before
  <2> QED BY <2>1, <2>2, <2>3, <2>4
<1> HIDE DEF rest
<1> QED BY <1>2, <1>3, <1>4, <1>5 DEF KeepsEnough

\* A list touches no directory.
LEMMA ListsBackupsStep ==
  ASSUME IInv, NEW r \in Run, ListsBackups(r)
  PROVE  IInv'
<1>1. PlaceFits(r) /\ FileFits(r) /\ pc[r] = "list"
  BY Parts DEF ListsBackups
<1>2. pc'[r] = "choose" /\ \A s \in Run \ {r} : pc'[s] = pc[s] /\ victims'[s] = victims[s]
  BY Parts, TypeFacts DEF ListsBackups, Go
<1>3. TypeOK'
  <2>1. DOMAIN pc' = Run /\ \A s \in Run : pc'[s] \in Stage
    BY Parts, GoType DEF ListsBackups, Stage, Retaining
  <2>2. victims' \in [Run -> Removal]
    <3> DEFINE rest == {e \in Managed(ProjectOf[r]) :
                          Cardinality({d \in Managed(ProjectOf[r]) : Ahead(r, d, e)}) >= Keep}
    <3>1. rest \in SUBSET Run
      BY ManagedFacts
    <3>2. victims' = [victims EXCEPT ![r].rest = rest]
      BY DEF ListsBackups
    <3> HIDE DEF rest
    <3> QED BY <3>1, <3>2, Parts, TypeFacts DEF Removal
  <2> QED BY <2>1, <2>2, Parts DEF ListsBackups, TypeOK, Stage, Removal, data, system, cron
<1>4. PlaceFits(r)'
  BY <1>1, <1>2, FinishedFacts DEF PlaceFits, ListsBackups, Retaining, Finished
<1>5. FileFits(r)'
  BY <1>1, <1>2, FinishedFacts DEF FileFits, ListsBackups, data, Finished
<1>6. VictimFits(r)'
  BY <1>2 DEF VictimFits
<1>7. KeepsEnough(r)'
  BY ListKeeps
<1> QED BY <1>1, <1>2, <1>3, <1>4, <1>5, <1>6, <1>7, OwnStep DEF ListsBackups, data, Working, Ended

\* What is removed next has been on the list, or is on it no more.
LEMMA ChoiceFacts ==
  ASSUME TypeOK, NEW r \in Run, ChoosesVictim(r)
  PROVE  /\ pc[r] = "choose" /\ \A s \in Run \ {r} : pc'[s] = pc[s] /\ victims'[s] = victims[s]
         /\ victims' \in [Run -> Removal] /\ DOMAIN pc' = Run
         /\ \/ pc'[r] = "done"
            \/ \E v \in victims[r].rest \ Managed(ProjectOf[r]) :
                 pc'[r] = "choose" /\ victims'[r].rest = victims[r].rest \ {v}
            \/ \E v \in victims[r].rest \cap Managed(ProjectOf[r]) :
                 /\ pc'[r] = "unlink"
                 /\ victims'[r].rest = victims[r].rest \ {v} /\ victims'[r].now = v /\ victims'[r].next = 1
<1>1. pc[r] = "choose" /\ DOMAIN pc = Run /\ victims \in [Run -> Removal]
  BY TypeFacts DEF ChoosesVictim
<1>2. victims[r].rest \in SUBSET Run
  BY StateFacts
<1>3. CASE victims[r].rest = {}
  BY <1>1, <1>3 DEF ChoosesVictim, Go
<1>4. CASE victims[r].rest # {}
  <2>1. PICK v \in victims[r].rest :
          /\ victims' = [victims EXCEPT ![r] =
               IF v \in Managed(ProjectOf[r]) THEN [rest |-> victims[r].rest \ {v}, now |-> v, next |-> 1]
               ELSE [NoVictims EXCEPT !.rest = victims[r].rest \ {v}]]
          /\ Go(r, IF v \in Managed(ProjectOf[r]) THEN "unlink" ELSE "choose")
    BY <1>4 DEF ChoosesVictim
  <2> DEFINE new == IF v \in Managed(ProjectOf[r]) THEN [rest |-> victims[r].rest \ {v}, now |-> v, next |-> 1]
                    ELSE [NoVictims EXCEPT !.rest = victims[r].rest \ {v}]
  <2>2. new \in Removal /\ new.rest = victims[r].rest \ {v}
    BY <1>2 DEF Removal, NoVictims
  <2>3. v \in Managed(ProjectOf[r]) => new.now = v /\ new.next = 1
    OBVIOUS
  <2>4. victims' = [victims EXCEPT ![r] = new]
    BY <2>1
  <2> HIDE DEF new
  <2> QED BY <1>1, <2>1, <2>2, <2>3, <2>4 DEF Go
<1> QED BY <1>3, <1>4

\* What stays, stays.
LEMMA ChoiceKeeps ==
  ASSUME TypeOK, NEW r \in Run, ChoosesVictim(r), KeepsEnough(r), pc'[r] \in {"choose", "unlink"}
  PROVE  KeepsEnough(r)'
<1> DEFINE all == Managed(ProjectOf[r])
<1>1. /\ \A p : Managed(p)' = Managed(p)
      /\ \A d, e : Ahead(r, d, e)' = Ahead(r, d, e)
      /\ notes' = notes
  BY DEF ChoosesVictim, Managed, Ahead, data
<1>2. Going(r) = victims[r].rest /\ pc[r] = "choose"
  BY ChoiceFacts DEF Going
<1>3. \A e \in Going(r) : /\ e # r /\ ProjectOf[e] = ProjectOf[r]
                          /\ Cardinality({d \in all \ Going(r) : Ahead(r, d, e)}) >= Keep
  BY DEF KeepsEnough
<1>4. CASE \E v \in victims[r].rest \ all : pc'[r] = "choose" /\ victims'[r].rest = victims[r].rest \ {v}
  <2>1. PICK v \in victims[r].rest \ all : pc'[r] = "choose" /\ victims'[r].rest = victims[r].rest \ {v}
    BY <1>4
  <2>2. Going(r)' = Going(r) \ {v}
    BY <1>2, <2>1 DEF Going
  <2>3. all \ Going(r)' = all \ Going(r)
    BY <2>2
  <2> QED BY <1>1, <1>3, <2>1, <2>2, <2>3 DEF KeepsEnough
<1>5. CASE \E v \in victims[r].rest \cap all :
             /\ pc'[r] = "unlink"
             /\ victims'[r].rest = victims[r].rest \ {v} /\ victims'[r].now = v /\ victims'[r].next = 1
  <2>1. PICK v \in victims[r].rest \cap all :
             /\ pc'[r] = "unlink"
             /\ victims'[r].rest = victims[r].rest \ {v} /\ victims'[r].now = v /\ victims'[r].next = 1
    BY <1>5
  <2>2. Going(r)' = Going(r)
    BY <1>2, <2>1 DEF Going
  <2>3. v \notin notes
    BY DEF Managed
  <2> QED BY <1>1, <1>3, <2>1, <2>2, <2>3 DEF KeepsEnough
<1> QED BY <1>4, <1>5, ChoiceFacts

\* Neither does the choice of the next one.
LEMMA ChoosesVictimStep ==
  ASSUME IInv, NEW r \in Run, ChoosesVictim(r)
  PROVE  IInv'
<1>1. PlaceFits(r) /\ FileFits(r) /\ TypeOK
  BY Parts
<1>2. /\ pc[r] = "choose" /\ pc'[r] \in {"done", "choose", "unlink"}
      /\ \A s \in Run \ {r} : pc'[s] = pc[s] /\ victims'[s] = victims[s]
  BY <1>1, ChoiceFacts
<1>3. TypeOK'
  <2>1. DOMAIN pc' = Run /\ \A s \in Run : pc'[s] \in Stage
    BY <1>1, <1>2, ChoiceFacts, TypeFacts DEF Stage, Retaining, Ended
  <2>2. victims' \in [Run -> Removal]
    BY <1>1, ChoiceFacts
  <2> QED BY <1>1, <2>1, <2>2 DEF ChoosesVictim, TypeOK, Stage, Removal, data, system, cron
<1>4. PlaceFits(r)'
  BY <1>1, <1>2, FinishedFacts DEF PlaceFits, ChoosesVictim, Retaining, Finished
<1>5. FileFits(r)'
  BY <1>1, <1>2, FinishedFacts DEF FileFits, ChoosesVictim, data, Finished
<1>6. VictimFits(r)'
  <2> SUFFICES ASSUME pc'[r] = "unlink" PROVE VictimFits(r)'
    BY DEF VictimFits
  <2>1. PICK v \in Managed(ProjectOf[r]) : victims'[r].now = v /\ victims'[r].next = 1
    BY <1>1, ChoiceFacts
  <2>2. v \in Run /\ place[v] \in {"renamed", "published", "gone"}
    BY DEF Managed
  <2>3. place' = place
    BY DEF ChoosesVictim
  <2> QED BY <2>1, <2>2, <2>3 DEF VictimFits
<1>7. ASSUME ~raced, pc'[r] \in {"choose", "unlink"} PROVE KeepsEnough(r)'
  <2>1. KeepsEnough(r)
    BY <1>2, <1>7, Parts DEF Alone
  <2> QED BY <1>1, <1>7, <2>1, ChoiceKeeps
<1> QED BY <1>1, <1>2, <1>3, <1>4, <1>5, <1>6, <1>7, OwnStep DEF ChoosesVictim, data, Working, Ended

\* What a retention removes is a directory whose run writes it no more.
LEMMA VictimFacts ==
  ASSUME IInv, NEW r \in Run, pc[r] = "unlink"
  PROVE  /\ victims[r].now \in Run /\ place[victims[r].now] \in {"renamed", "published", "gone"}
         /\ pc[victims[r].now] \notin DOMAIN Finished
         /\ \A k \in 1..(victims[r].next - 1) : file[victims[r].now][OrderOf[r][k]] = "absent"
         /\ victims[r].next \in 1..5
<1>1. VictimFits(r) /\ \A s \in Run : PlaceFits(s)
  BY Parts
<1>2. victims[r].now \in Run /\ place[victims[r].now] \in {"renamed", "published", "gone"}
  BY <1>1 DEF VictimFits
<1>3. pc[victims[r].now] \notin DOMAIN Finished
  BY <1>1, <1>2 DEF PlaceFits
<1>4. victims[r].next \in 1..5
  BY Parts, StateFacts
<1> QED BY <1>1, <1>2, <1>3, <1>4 DEF VictimFits

\* One file goes, and the retention is one further.
LEMMA UnlinkFacts ==
  ASSUME IInv, NEW r \in Run, Unlinks(r), NEW v, v = victims[r].now, NEW f, f = OrderOf[r][victims[r].next]
  PROVE  /\ pc[r] = "unlink" /\ v \in Run /\ f \in File /\ place[v] \in {"renamed", "published"}
         /\ file'[v][f] = "absent" /\ \A g \in File \ {f} : file'[v][g] = file[v][g]
         /\ \A s \in Run \ {v} : file'[s] = file[s]
         /\ \A s \in Run \ {r} : victims'[s] = victims[s]
         /\ victims'[r].rest = victims[r].rest /\ victims'[r].now = v /\ victims'[r].next = victims[r].next + 1
         /\ file' \in [Run -> [File -> Kept]] /\ victims' \in [Run -> Removal]
<1>1. pc[r] = "unlink" /\ victims[r].next <= 4 /\ file[v][f] # "absent" /\ TypeOK
  BY Parts DEF Unlinks
<1>2. v \in Run /\ place[v] \in {"renamed", "published", "gone"} /\ victims[r].next \in 1..4
  BY <1>1, VictimFacts
<1>3. f \in File
  BY <1>2, OrderFacts
<1>4. place[v] # "gone"
  BY <1>1, <1>2, <1>3, TypeFacts DEF NoFiles
<1>5. file' = [file EXCEPT ![v][f] = "absent"]
  BY DEF Unlinks
<1>6. /\ file'[v][f] = "absent" /\ \A g \in File \ {f} : file'[v][g] = file[v][g]
      /\ \A s \in Run \ {v} : file'[s] = file[s]
      /\ file' \in [Run -> [File -> Kept]]
  BY <1>1, <1>2, <1>3, <1>5, TypeFacts DEF Kept
<1>7. victims' = [victims EXCEPT ![r].next = victims[r].next + 1]
  BY DEF Unlinks
<1>8. victims \in [Run -> Removal] /\ victims[r] \in Removal
  BY <1>1, TypeFacts
<1>9. /\ \A s \in Run \ {r} : victims'[s] = victims[s]
      /\ victims'[r].rest = victims[r].rest /\ victims'[r].now = v /\ victims'[r].next = victims[r].next + 1
      /\ victims' \in [Run -> Removal]
  BY <1>2, <1>7, <1>8 DEF Removal
<1> QED BY <1>1, <1>2, <1>3, <1>4, <1>6, <1>9

\* A directory that goes is no backup; the others that stay are not touched.
LEMMA RemovalKeeps ==
  ASSUME TypeOK, NEW r \in Run, NEW v \in Run, KeepsEnough(r), v \in Going(r), Going(r) \subseteq Run,
         Going(r)' \subseteq Going(r),
         victims'[r].rest = victims[r].rest, pc'[r] = "unlink" => pc[r] = "unlink" /\ victims'[r].now = victims[r].now,
         notes' = notes, Going(r) \ {v} \subseteq Going(r)', v \notin Going(r)' => v \notin Managed(ProjectOf[r])',
         \A s \in Run \ {v} : place'[s] = place[s] /\ file'[s] = file[s] /\ stamp'[s] = stamp[s],
         v \in Going(r)' => stamp'[v] = stamp[v]
  PROVE  KeepsEnough(r)'
<1> DEFINE all == Managed(ProjectOf[r])
           new == Managed(ProjectOf[r])'
<1>1. all \subseteq Run /\ new \subseteq Run
  BY DEF Managed
<1>2. \A d \in Run \ {v} : d \in new <=> d \in all
  BY DEF Managed
<1>3. new \ Going(r)' = all \ Going(r)
  BY <1>1, <1>2
<1>4. ASSUME NEW e \in Going(r)'
      PROVE  e # r /\ ProjectOf[e] = ProjectOf[r] /\ Cardinality({d \in new \ Going(r)' : Ahead(r, d, e)'}) >= Keep
  <2>1. e # r /\ ProjectOf[e] = ProjectOf[r] /\ Cardinality({d \in all \ Going(r) : Ahead(r, d, e)}) >= Keep
    BY DEF KeepsEnough
  <2>2. \A d \in all \ Going(r) : stamp'[d] = stamp[d]
    BY <1>1
  <2>3. e \in Run
    OBVIOUS
  <2>4. stamp'[e] = stamp[e]
    BY <2>3
  <2>5. {d \in new \ Going(r)' : Ahead(r, d, e)'} = {d \in all \ Going(r) : Ahead(r, d, e)}
    BY <1>3, <2>2, <2>4 DEF Ahead
  <2> QED BY <2>1, <2>5
<1>5. pc'[r] = "unlink" => victims'[r].now \notin victims'[r].rest \cup notes'
  BY DEF KeepsEnough
<1> QED BY <1>4, <1>5 DEF KeepsEnough

\* What the retention of r will remove are runs.
LEMMA GoingFacts ==
  ASSUME IInv, NEW r \in Run, pc[r] = "unlink"
  PROVE  Going(r) = victims[r].rest \cup {victims[r].now} /\ Going(r) \subseteq Run
<1>1. victims[r].rest \in SUBSET Run /\ victims[r].now \in Run
  BY Parts, StateFacts, VictimFacts
<1> QED BY <1>1 DEF Going

\* While a run removes a backup, it is the only one that works, or the runs
\* have raced.
LEMMA AloneAfter ==
  ASSUME TypeOK, NEW r \in Run, raced' = raced, ~raced', ~raced => Alone, Working(r),
         \A s \in Run \ {r} : pc'[s] = pc[s],
         pc'[r] \in {"choose", "unlink"} => KeepsEnough(r)'
  PROVE  Alone'
<1>1. Alone
  OBVIOUS
<1>2. \A s \in Run \ {r} : pc[s] \in Ended
  BY <1>1 DEF Alone, Working
<1>3. \A s \in Run \ {r} : pc'[s] \in Ended
  BY <1>2
<1> QED BY <1>3 DEF Alone, Working, Ended

\* Of a published directory, one file less is there.
LEMMA UnlinksStep ==
  ASSUME IInv, NEW r \in Run, Unlinks(r)
  PROVE  IInv'
<1> DEFINE v == victims[r].now
           f == OrderOf[r][victims[r].next]
<1>1. /\ pc[r] = "unlink" /\ v \in Run /\ f \in File /\ place[v] \in {"renamed", "published"}
      /\ file'[v][f] = "absent" /\ \A g \in File \ {f} : file'[v][g] = file[v][g]
      /\ \A s \in Run \ {v} : file'[s] = file[s]
      /\ \A s \in Run \ {r} : victims'[s] = victims[s]
      /\ victims'[r].rest = victims[r].rest /\ victims'[r].now = v /\ victims'[r].next = victims[r].next + 1
      /\ file' \in [Run -> [File -> Kept]] /\ victims' \in [Run -> Removal]
  BY UnlinkFacts
<1>2. /\ TypeOK
      /\ \A s \in Run : PlaceFits(s) /\ FileFits(s) /\ VictimFits(s)
      /\ ~raced => Alone
  BY Parts
<1>3. /\ pc' = pc /\ place' = place /\ snap' = snap /\ dump' = dump /\ copied' = copied /\ stamp' = stamp
      /\ tempdb' = tempdb /\ notes' = notes /\ raced' = raced
  BY DEF Unlinks, data
<1>4. f = OrderOf[r][victims[r].next]
  OBVIOUS
<1> HIDE DEF f
<1>5. TypeOK'
  <2>1. \A s \in Run : place[s] \in {"none", "gone"} => file'[s] = NoFiles
    BY <1>1, <1>2, TypeFacts
  <2> QED BY <1>1, <1>2, <1>3, <2>1 DEF Unlinks, TypeOK, Kept, Removal, system, cron
<1>6. ASSUME NEW s \in Run PROVE PlaceFits(s)' /\ FileFits(s)' /\ VictimFits(s)'
  <2>1. PlaceFits(s)'
    BY <1>2, <1>3 DEF PlaceFits, Finished
  <2>2. FileFits(s)'
    <3>1. CASE s # v
      BY <1>1, <1>2, <1>3, <3>1 DEF FileFits, Finished
    <3>2. CASE s = v
      <4>1. pc[v] \notin DOMAIN Finished
        BY <1>1, VictimFacts
      <4>2. \A g \in File : file[v][g] \in {"absent", "whole"}
        BY <1>1, <1>2 DEF FileFits
      <4>3. \A g \in File : file'[v][g] \in {"absent", "whole"}
        BY <1>1, <4>2
      <4>4. dump[v] = copied[v]
        BY <1>1, <1>2 DEF FileFits
      <4> QED BY <1>3, <3>2, <4>1, <4>3, <4>4 DEF FileFits, Finished
    <3> QED BY <3>1, <3>2
  <2>3. VictimFits(s)'
    <3> SUFFICES ASSUME pc'[s] = "unlink" PROVE VictimFits(s)'
      BY DEF VictimFits
    <3> DEFINE w == victims[s].now
    <3>1. pc[s] = "unlink"
      BY <1>3
    <3>2. /\ w \in Run /\ place[w] \in {"renamed", "published", "gone"} /\ victims[s].next \in 1..5
          /\ \A k \in 1..(victims[s].next - 1) : file[w][OrderOf[s][k]] = "absent"
      BY <3>1, VictimFacts
    <3>3. victims'[s].now = w
      BY <1>1
    <3>4. \A k \in 1..(victims[s].next - 1) : OrderOf[s][k] \in File
      BY <3>2, OrderFacts
    <3>5. \A g \in File : file[w][g] = "absent" => file'[w][g] = "absent"
      BY <1>1, <3>2
    <3>6. \A k \in 1..(victims[s].next - 1) : file'[w][OrderOf[s][k]] = "absent"
      BY <3>2, <3>4, <3>5
    <3>7. \A k \in 1..(victims'[s].next - 1) : file'[w][OrderOf[s][k]] = "absent"
      <4>1. CASE s # r
        BY <1>1, <3>6, <4>1
      <4>2. CASE s = r
        <5>1. victims'[s].next = victims[s].next + 1 /\ w = v
          BY <1>1, <4>2
        <5>2. file'[w][OrderOf[s][victims[s].next]] = "absent"
          BY <1>1, <1>4, <4>2, <5>1
        <5>3. \A k \in 1..(victims'[s].next - 1) : k \in 1..(victims[s].next - 1) \/ k = victims[s].next
          BY <3>2, <5>1
        <5> QED BY <3>6, <5>2, <5>3
      <4> QED BY <4>1, <4>2
    <3> HIDE DEF w
    <3> QED BY <1>3, <3>2, <3>3, <3>7 DEF VictimFits
  <2> QED BY <2>1, <2>2, <2>3
<1>7. ASSUME ~raced' PROVE Alone'
  <2>1. KeepsEnough(r)
    BY <1>1, <1>2, <1>3, <1>7 DEF Alone
  <2>2. Going(r)' = Going(r) /\ v \in Going(r)
    BY <1>1, <1>3 DEF Going
  <2>3. Going(r) \subseteq Run
    BY <1>1, GoingFacts
  <2>4. KeepsEnough(r)'
    BY <1>1, <1>2, <1>3, <2>1, <2>2, <2>3, RemovalKeeps
  <2> QED BY <1>1, <1>2, <1>3, <1>7, <2>4, AloneAfter DEF Working, Ended
<1> QED BY <1>5, <1>6, <1>7, WholeAfter

\* The directory goes when it is empty.
LEMMA RemovesDirectoryStep ==
  ASSUME IInv, NEW r \in Run, RemovesDirectory(r)
  PROVE  IInv'
<1> DEFINE v == victims[r].now
<1>1. /\ pc[r] = "unlink" /\ v \in Run /\ place[v] \in {"renamed", "published"}
      /\ pc[v] \notin DOMAIN Finished
      /\ file[v] = NoFiles
  <2>1. pc[r] = "unlink" /\ victims[r].next > 4 /\ place[v] # "gone"
    BY DEF RemovesDirectory
  <2>2. /\ v \in Run /\ place[v] \in {"renamed", "published", "gone"} /\ pc[v] \notin DOMAIN Finished
        /\ victims[r].next \in 1..5 /\ \A k \in 1..(victims[r].next - 1) : file[v][OrderOf[r][k]] = "absent"
    BY <2>1, VictimFacts
  <2>3. \A k \in 1..4 : file[v][OrderOf[r][k]] = "absent"
    BY <2>1, <2>2
  <2>4. \A f \in File : file[v][f] = "absent"
    BY <2>3, OrderFacts
  <2>5. file[v] \in [File -> Kept]
    BY <2>2, Parts, TypeFacts
  <2> QED BY <2>1, <2>2, <2>4, <2>5 DEF NoFiles
<1>2. /\ TypeOK
      /\ \A s \in Run : PlaceFits(s) /\ FileFits(s) /\ VictimFits(s)
      /\ ~raced => Alone
  BY Parts
<1>3. file' = file /\ tempdb' = tempdb /\ notes' = notes /\ raced' = raced
  BY DEF RemovesDirectory
<1>4. /\ place'[v] = "gone" /\ \A s \in Run \ {v} : place'[s] = place[s]
      /\ pc'[r] = "choose" /\ \A s \in Run \ {r} : pc'[s] = pc[s] /\ victims'[s] = victims[s]
      /\ victims'[r].rest = victims[r].rest
      /\ victims' \in [Run -> Removal] /\ place' \in [Run -> Place]
  <2>1. victims' = [victims EXCEPT ![r].now = NoRun] /\ place' = [place EXCEPT ![v] = "gone"] /\ Go(r, "choose")
    BY DEF RemovesDirectory
  <2>2. victims \in [Run -> Removal] /\ place \in [Run -> Place] /\ DOMAIN pc = Run
    BY <1>2, TypeFacts
  <2> HIDE DEF v
  <2> QED BY <1>1, <2>1, <2>2 DEF Removal, Place, Go
<1>5. \A s \in Run \ {v} : snap'[s] = snap[s] /\ dump'[s] = dump[s] /\ copied'[s] = copied[s] /\ stamp'[s] = stamp[s]
  BY <1>2, TypeFacts DEF RemovesDirectory, Forget
<1>6. TypeOK'
  <2>1. DOMAIN pc' = Run /\ \A s \in Run : pc'[s] \in Stage
    BY <1>2, GoType DEF RemovesDirectory, Stage, Retaining
  <2>2. \A s \in Run : place'[s] \in {"none", "gone"} => file[s] = NoFiles
    BY <1>1, <1>2, <1>4, TypeFacts
  <2>3. /\ snap' \in [Run -> SUBSET Upload] /\ dump' \in [Run -> SUBSET Upload]
        /\ copied' \in [Run -> SUBSET Upload] /\ stamp' \in [Run -> Time \cup {0}]
    BY <1>2, TypeFacts DEF RemovesDirectory, Forget
  <2> HIDE DEF v
  <2> QED BY <1>2, <1>3, <1>4, <2>1, <2>2, <2>3 DEF RemovesDirectory, TypeOK, Stage, Removal, Place, system, cron
<1> HIDE DEF v
<1>7. ASSUME NEW s \in Run PROVE PlaceFits(s)' /\ FileFits(s)' /\ VictimFits(s)'
  <2>1. PlaceFits(s) /\ FileFits(s)
    BY <1>2
  <2>2. \/ s # r /\ pc'[s] = pc[s]
        \/ s = r /\ pc'[s] = "choose" /\ pc[s] = "unlink"
    BY <1>1, <1>4
  <2>3. \/ s # v /\ place'[s] = place[s]
        \/ s = v /\ place'[s] = "gone" /\ place[s] \in {"renamed", "published"}
    BY <1>1, <1>4
  <2>4. PlaceFits(s)'
    BY <1>3, <2>1, <2>2, <2>3 DEF PlaceFits, Finished, Retaining
  <2>5. FileFits(s)'
    <3>1. pc'[s] \in DOMAIN Finished => pc'[s] = pc[s] /\ s # v
      BY <1>1, <2>2, FinishedFacts
    <3>2. place'[s] \in {"renamed", "published"} => place'[s] = place[s] /\ s # v
      BY <2>3
    <3>3. Finished' = Finished
      BY DEF Finished
    <3> QED BY <1>3, <1>5, <2>1, <3>1, <3>2, <3>3 DEF FileFits
  <2>6. VictimFits(s)'
    <3> SUFFICES ASSUME pc'[s] = "unlink" PROVE VictimFits(s)'
      BY DEF VictimFits
    <3>1. s # r /\ pc[s] = "unlink" /\ victims'[s] = victims[s]
      BY <1>4
    <3>2. VictimFits(s)
      BY <1>2
    <3>3. \A w \in Run : place[w] \in {"renamed", "published", "gone"} => place'[w] \in {"renamed", "published", "gone"}
      BY <1>4
    <3> QED BY <1>3, <3>1, <3>2, <3>3 DEF VictimFits
  <2> QED BY <2>4, <2>5, <2>6
<1>8. ASSUME ~raced' PROVE Alone'
  <2>1. KeepsEnough(r)
    BY <1>1, <1>2, <1>3, <1>8 DEF Alone
  <2>2. Going(r) = victims[r].rest \cup {v} /\ Going(r) \subseteq Run /\ v \notin victims[r].rest
    BY <1>1, <2>1, GoingFacts DEF KeepsEnough, v
  <2>3. Going(r)' = victims[r].rest
    BY <1>4 DEF Going
  <2>4. v \notin Managed(ProjectOf[r])'
    BY <1>4 DEF Managed
  <2>5. KeepsEnough(r)'
    BY <1>1, <1>2, <1>3, <1>4, <1>5, <2>1, <2>2, <2>3, <2>4, RemovalKeeps
  <2> QED BY <1>1, <1>2, <1>3, <1>4, <1>8, <2>5, AloneAfter DEF Working, Ended
<1> QED BY <1>6, <1>7, <1>8, WholeAfter

\* Nothing changes but that the run is done.
LEMMA RetentionStopsStep ==
  ASSUME IInv, NEW r \in Run, RetentionStops(r)
  PROVE  IInv'
<1>1. PlaceFits(r) /\ FileFits(r) /\ pc[r] = "unlink" /\ TypeOK
  BY Parts DEF RetentionStops
<1>2. pc'[r] = "done" /\ \A s \in Run \ {r} : pc'[s] = pc[s] /\ victims'[s] = victims[s]
  BY <1>1, TypeFacts DEF RetentionStops, Go
<1>3. TypeOK'
  <2>1. DOMAIN pc' = Run /\ \A s \in Run : pc'[s] \in Stage
    BY <1>1, GoType DEF RetentionStops, Stage, Ended
  <2>2. victims' \in [Run -> Removal]
    <3>1. NoVictims \in Removal
      BY DEF NoVictims, Removal
    <3> QED BY <1>1, <3>1, TypeFacts DEF RetentionStops
  <2> QED BY <1>1, <2>1, <2>2 DEF RetentionStops, TypeOK, Stage, Removal, data, system, cron
<1>4. PlaceFits(r)'
  BY <1>1, <1>2, FinishedFacts DEF PlaceFits, RetentionStops, Retaining, Finished
<1>5. FileFits(r)'
  BY <1>1, <1>2, FinishedFacts DEF FileFits, RetentionStops, data, Finished
<1>6. VictimFits(r)'
  BY <1>2 DEF VictimFits
<1> QED BY <1>1, <1>2, <1>3, <1>4, <1>5, <1>6, OwnStep DEF RetentionStops, data, Working, Ended

-----------------------------------------------------------------------------
(* Everything else *)

\* Uploads and the crontab are apart.
LEMMA FrameStep ==
  ASSUME IInv, rows' \subseteq Upload, archive' \subseteq Upload,
         UNCHANGED <<pc, place, file, data, tempdb, notes, victims, raced>>
  PROVE  IInv'
<1>1. TypeOK'
  BY Parts DEF TypeOK, data
<1>2. \A s \in Run : PlaceFits(s)' /\ FileFits(s)' /\ VictimFits(s)'
  BY Parts DEF PlaceFits, FileFits, VictimFits, Finished, data
<1>3. ASSUME ~raced' PROVE Alone'
  <2>1. ~raced
    BY <1>3
  <2>2. Alone
    BY <2>1, Parts
  <2>3. /\ pc' = pc /\ victims' = victims /\ notes' = notes
        /\ \A p : Managed(p)' = Managed(p)
        /\ \A r, d, e : Ahead(r, d, e)' = Ahead(r, d, e)
    BY DEF Managed, Ahead, data
  <2>4. \A r : Going(r)' = Going(r)
    BY <2>3 DEF Going
  <2>5. \A r \in Run : KeepsEnough(r) => KeepsEnough(r)'
    BY <2>3, <2>4 DEF KeepsEnough
  <2> QED BY <2>2, <2>3, <2>5 DEF Alone, Working
<1> QED BY <1>1, <1>2, <1>3, WholeAfter

\* Uploads come and go.
LEMMA UploadedStep ==
  ASSUME IInv, NEW u \in Upload, Uploaded(u) \/ Purged(u)
  PROVE  IInv'
<1>1. rows \subseteq Upload /\ archive \subseteq Upload
  BY Parts, TypeFacts
<1>2. rows' \subseteq Upload /\ archive' \subseteq Upload
  BY <1>1 DEF Uploaded, Purged
<1>3. UNCHANGED <<pc, place, file, data, tempdb, notes, victims, raced>>
  BY DEF Uploaded, Purged
<1> QED BY <1>2, <1>3, FrameStep

\* The crontab is read, edited and installed.
LEMMA CrontabStep ==
  ASSUME IInv, InstallReads \/ InstallWrites \/ EditsCrontab
  PROVE  IInv'
<1>1. rows \subseteq Upload /\ archive \subseteq Upload
  BY Parts, TypeFacts
<1>2. rows' = rows /\ archive' = archive /\ UNCHANGED <<pc, place, file, data, tempdb, notes, victims, raced>>
  BY DEF InstallReads, InstallWrites, EditsCrontab, system
<1> QED BY <1>1, <1>2, FrameStep

\* A note in a backup that a retention may be at counts as a race.
LEMMA PutsNoteStep ==
  ASSUME IInv, NEW d \in Run, PutsNote(d)
  PROVE  IInv'
<1>1. raced' = (raced \/ \E r \in Run : pc[r] \in Retaining)
  BY DEF PutsNote
<1>2. TypeOK'
  <2>1. raced' \in BOOLEAN /\ notes' \subseteq Run
    BY <1>1, Parts, TypeFacts DEF PutsNote
  <2> QED BY <2>1, Parts DEF PutsNote, TypeOK, data, system
<1>3. \A s \in Run : PlaceFits(s)' /\ FileFits(s)' /\ VictimFits(s)'
  BY Parts DEF PutsNote, PlaceFits, FileFits, VictimFits, Finished, data
<1>4. ASSUME ~raced' PROVE Alone'
  <2>1. ~raced /\ \A r \in Run : pc[r] \notin Retaining
    BY <1>1, <1>4
  <2>2. Alone
    BY <2>1, Parts
  <2>3. pc' = pc
    BY DEF PutsNote
  <2> QED BY <2>1, <2>2, <2>3 DEF Alone, Working, Retaining
<1> QED BY <1>2, <1>3, <1>4, WholeAfter

\* A run that begins while another one works is a race.
LEMMA StartsStep ==
  ASSUME IInv, NEW r \in Run, Starts(r)
  PROVE  IInv'
<1>1. PlaceFits(r) /\ FileFits(r) /\ TypeOK /\ pc[r] = "idle" /\ place[r] = "none"
  BY Parts DEF Starts, PlaceFits
<1>2. /\ pc'[r] = "snapshot" /\ place'[r] = "staging"
      /\ \A s \in Run \ {r} : pc'[s] = pc[s] /\ place'[s] = place[s]
  BY <1>1, TypeFacts DEF Starts, Go
<1>3. file[r] = NoFiles
  BY <1>1, StateFacts
<1>4. raced' = (raced \/ \E s \in Run : Working(s))
  BY DEF Starts
<1>5. TypeOK'
  <2>1. DOMAIN pc' = Run /\ \A s \in Run : pc'[s] \in Stage
    BY <1>1, GoType DEF Starts, Stage
  <2>2. place' \in [Run -> Place]
    BY <1>1, TypeFacts DEF Starts, Place
  <2>3. \A s \in Run : place'[s] \in {"none", "gone"} => file[s] = NoFiles
    BY <1>1, <1>2, TypeFacts
  <2>4. raced' \in BOOLEAN
    BY <1>1, <1>4, TypeFacts
  <2> QED BY <1>1, <2>1, <2>2, <2>3, <2>4 DEF Starts, TypeOK, Stage, Place, data, system, cron
<1>6. ASSUME NEW s \in Run PROVE PlaceFits(s)' /\ FileFits(s)' /\ VictimFits(s)'
  <2>1. CASE s # r
    <3>1. PlaceFits(s) /\ FileFits(s) /\ VictimFits(s)
      BY Parts
    <3>2. PlaceFits(s)'
      BY <1>2, <2>1, <3>1 DEF Starts, PlaceFits, Finished
    <3>3. FileFits(s)'
      BY <1>2, <2>1, <3>1 DEF Starts, FileFits, Finished, data
    <3>4. VictimFits(s)'
      <4> SUFFICES ASSUME pc'[s] = "unlink" PROVE VictimFits(s)'
        BY DEF VictimFits
      <4>1. /\ victims[s].now \in Run /\ place[victims[s].now] \in {"renamed", "published", "gone"}
            /\ \A k \in 1..(victims[s].next - 1) : file[victims[s].now][OrderOf[s][k]] = "absent"
        BY <1>2, <2>1, <3>1 DEF VictimFits
      <4>2. victims[s].now # r
        BY <1>1, <4>1
      <4>3. place'[victims[s].now] = place[victims[s].now] /\ victims' = victims /\ file' = file
        BY <1>2, <4>1, <4>2 DEF Starts
      <4> QED BY <4>1, <4>3 DEF VictimFits
    <3> QED BY <3>2, <3>3, <3>4
  <2>2. CASE s = r
    <3>1. PlaceFits(r)'
      BY <1>1, <1>2, FinishedFacts DEF Starts, PlaceFits, Finished, Retaining
    <3>2. \A f \in File : file[r][f] = "absent"
      BY <1>3 DEF NoFiles
    <3>3. FileFits(r)'
      BY <1>2, <3>2, FinishedFacts DEF Starts, FileFits, Finished, File
    <3>4. VictimFits(r)'
      BY <1>2 DEF VictimFits
    <3> QED BY <2>2, <3>1, <3>3, <3>4
  <2> QED BY <2>1, <2>2
<1>7. ASSUME ~raced' PROVE Alone'
  <2>1. \A s \in Run : ~Working(s)
    BY <1>4, <1>7
  <2>2. \A s \in Run \ {r} : pc'[s] \in Ended
    BY <1>2, <2>1 DEF Working
  <2> QED BY <1>2, <2>2 DEF Alone, Working, Ended
<1> QED BY <1>5, <1>6, <1>7, WholeAfter

\* The directory of a run that is killed stays where it is.
LEMMA KilledStep ==
  ASSUME IInv, NEW r \in Run, Killed(r)
  PROVE  IInv'
<1>1. PlaceFits(r) /\ FileFits(r) /\ TypeOK /\ Working(r)
  BY Parts DEF Killed
<1>2. /\ pc'[r] = "killed" /\ \A s \in Run \ {r} : pc'[s] = pc[s] /\ victims'[s] = victims[s]
      /\ place' = place /\ notes' = notes /\ tempdb' = tempdb
  BY <1>1, TypeFacts DEF Killed, Go
<1> DEFINE left == {r} \cap {s \in Run : place[s] = "staging"}
<1>3. /\ file' = [file EXCEPT ![r] = IF r \in left THEN NoFiles ELSE file[r]]
      /\ Abandoned(left)
      /\ r \in left <=> place[r] = "staging"
      /\ \A s \in Run : s \in left => s = r
  BY DEF Killed
<1> HIDE DEF left
<1>4. \A s \in Run \ {r} : /\ file'[s] = file[s] /\ snap'[s] = snap[s] /\ dump'[s] = dump[s] /\ copied'[s] = copied[s]
  BY <1>1, <1>3, TypeFacts DEF Abandoned
<1>5. place[r] # "staging" => file'[r] = file[r] /\ dump'[r] = dump[r] /\ copied'[r] = copied[r]
  BY <1>1, <1>3, TypeFacts DEF Abandoned
<1>6. raced' = (raced \/ \E s \in Run \ {r} : Working(s))
  BY DEF Killed
<1>7. TypeOK'
  <2>1. DOMAIN pc' = Run /\ \A s \in Run : pc'[s] \in Stage
    BY <1>1, GoType DEF Killed, Stage, Ended
  <2>2. /\ NoFiles \in [File -> Kept] /\ NoVictims \in Removal
    BY DEF NoFiles, NoVictims, Kept, Removal
  <2>3. file' \in [Run -> [File -> Kept]] /\ \A s \in Run : place'[s] \in {"none", "gone"} => file'[s] = NoFiles
    BY <1>1, <1>2, <1>3, <2>2, TypeFacts
  <2>4. /\ snap' \in [Run -> SUBSET Upload] /\ dump' \in [Run -> SUBSET Upload]
        /\ copied' \in [Run -> SUBSET Upload] /\ stamp' \in [Run -> Time \cup {0}]
    BY <1>1, <1>3, TypeFacts DEF Abandoned
  <2>5. victims' \in [Run -> Removal] /\ raced' \in BOOLEAN
    BY <1>1, <1>6, <2>2, TypeFacts DEF Killed
  <2> QED BY <1>1, <1>2, <2>1, <2>3, <2>4, <2>5 DEF Killed, TypeOK, Stage, Kept, Removal, system, cron
<1>8. ASSUME NEW s \in Run PROVE PlaceFits(s)' /\ FileFits(s)' /\ VictimFits(s)'
  <2>1. CASE s # r
    <3>1. PlaceFits(s) /\ FileFits(s) /\ VictimFits(s)
      BY Parts
    <3>2. PlaceFits(s)'
      BY <1>2, <2>1, <3>1 DEF PlaceFits, Finished
    <3>3. FileFits(s)'
      BY <1>2, <1>4, <2>1, <3>1 DEF FileFits, Finished
    <3>4. VictimFits(s)'
      <4> SUFFICES ASSUME pc'[s] = "unlink" PROVE VictimFits(s)'
        BY DEF VictimFits
      <4>1. /\ victims[s].now \in Run /\ place[victims[s].now] \in {"renamed", "published", "gone"}
            /\ \A k \in 1..(victims[s].next - 1) : file[victims[s].now][OrderOf[s][k]] = "absent"
        BY <1>2, <2>1, <3>1 DEF VictimFits
      <4>2. file'[victims[s].now] = file[victims[s].now]
        BY <1>4, <1>5, <4>1
      <4>3. victims'[s] = victims[s]
        BY <1>2, <2>1
      <4> QED BY <1>2, <4>1, <4>2, <4>3 DEF VictimFits
    <3> QED BY <3>2, <3>3, <3>4
  <2>2. CASE s = r
    <3>1. PlaceFits(r)'
      BY <1>1, <1>2, FinishedFacts DEF PlaceFits, Finished, Working, Ended, Retaining
    <3>2. FileFits(r)'
      BY <1>1, <1>2, <1>5, FinishedFacts DEF FileFits, Finished
    <3>3. VictimFits(r)'
      BY <1>2 DEF VictimFits
    <3> QED BY <2>2, <3>1, <3>2, <3>3
  <2> QED BY <2>1, <2>2
<1>9. ASSUME ~raced' PROVE Alone'
  <2>1. \A s \in Run \ {r} : ~Working(s)
    BY <1>6, <1>9
  <2>2. \A s \in Run : pc'[s] \in Ended
    BY <1>2, <2>1 DEF Working, Ended
  <2> QED BY <2>2 DEF Alone, Working, Ended
<1> QED BY <1>7, <1>8, <1>9, WholeAfter

\* What a power loss does to each run, for the renames that are lost.
LEMMA LossFacts ==
  ASSUME IInv, PowerLoss
  PROVE  \E left \in SUBSET Run :
           \A r \in Run :
             /\ pc'[r] \in Ended /\ (pc'[r] # pc[r] => pc'[r] = "killed")
             /\ r \in left => pc'[r] = "killed" /\ place'[r] = "staging" /\ file'[r] = NoFiles
             /\ r \notin left => /\ place[r] # "staging" \/ pc[r] \in Ended
                                 /\ place'[r] = IF place[r] = "renamed" THEN "published" ELSE place[r]
                                 /\ file'[r] = [f \in File |-> IF file[r][f] = "cached" THEN "torn" ELSE file[r][f]]
                                 /\ dump'[r] = dump[r] /\ copied'[r] = copied[r]
                                 /\ snap'[r] = snap[r] /\ stamp'[r] = stamp[r]
<1>1. PICK back \in SUBSET {r \in Run : place[r] = "renamed"} :
        LET left == back \cup {r \in Run : Working(r) /\ place[r] = "staging"}
        IN /\ place' = [r \in Run |-> IF r \in left THEN "staging"
                                      ELSE IF place[r] = "renamed" THEN "published" ELSE place[r]]
           /\ pc' = [r \in Run |-> IF Working(r) \/ r \in back THEN "killed" ELSE pc[r]]
           /\ file' = [r \in Run |-> IF r \in left THEN NoFiles
                          ELSE [f \in File |-> IF file[r][f] = "cached" THEN "torn" ELSE file[r][f]]]
           /\ Abandoned(left)
  BY DEF PowerLoss
<1> DEFINE left == back \cup {r \in Run : Working(r) /\ place[r] = "staging"}
<1>2. ASSUME NEW r \in Run
      PROVE  /\ pc'[r] \in Ended /\ (pc'[r] # pc[r] => pc'[r] = "killed")
             /\ r \in left => pc'[r] = "killed" /\ place'[r] = "staging" /\ file'[r] = NoFiles
             /\ r \notin left => /\ place[r] # "staging" \/ pc[r] \in Ended
                                 /\ place'[r] = IF place[r] = "renamed" THEN "published" ELSE place[r]
                                 /\ file'[r] = [f \in File |-> IF file[r][f] = "cached" THEN "torn" ELSE file[r][f]]
                                 /\ dump'[r] = dump[r] /\ copied'[r] = copied[r]
                                 /\ snap'[r] = snap[r] /\ stamp'[r] = stamp[r]
  BY <1>1 DEF Working, Ended, Abandoned
<1>3. left \in SUBSET Run
  OBVIOUS
<1> QED BY <1>2, <1>3

\* What was synced survives: a published backup is as whole as it was.
LEMMA PowerLossStep ==
  ASSUME IInv, PowerLoss
  PROVE  IInv'
<1>1. /\ TypeOK
      /\ \A s \in Run : PlaceFits(s) /\ FileFits(s)
  BY Parts
<1>2. PICK left \in SUBSET Run :
        \A r \in Run :
          /\ pc'[r] \in Ended /\ (pc'[r] # pc[r] => pc'[r] = "killed")
          /\ r \in left => pc'[r] = "killed" /\ place'[r] = "staging" /\ file'[r] = NoFiles
          /\ r \notin left => /\ place[r] # "staging" \/ pc[r] \in Ended
                              /\ place'[r] = IF place[r] = "renamed" THEN "published" ELSE place[r]
                              /\ file'[r] = [f \in File |-> IF file[r][f] = "cached" THEN "torn" ELSE file[r][f]]
                              /\ dump'[r] = dump[r] /\ copied'[r] = copied[r]
                              /\ snap'[r] = snap[r] /\ stamp'[r] = stamp[r]
  BY LossFacts
<1>3. tempdb' = tempdb /\ notes' = notes /\ raced' = raced /\ victims' = [r \in Run |-> NoVictims]
  BY DEF PowerLoss
<1>4. \A r \in Run : file'[r] \in [File -> Kept] /\ (place'[r] \in {"none", "gone"} => file'[r] = NoFiles)
  <2> SUFFICES ASSUME NEW r \in Run
               PROVE  file'[r] \in [File -> Kept] /\ (place'[r] \in {"none", "gone"} => file'[r] = NoFiles)
    OBVIOUS
  <2>1. file[r] \in [File -> Kept] /\ (place[r] \in {"none", "gone"} => file[r] = NoFiles)
    BY <1>1, StateFacts
  <2>2. CASE r \in left
    <3>1. place'[r] = "staging" /\ file'[r] = NoFiles
      BY <1>2, <2>2
    <3>2. NoFiles \in [File -> Kept]
      BY DEF NoFiles, Kept
    <3> QED BY <3>1, <3>2
  <2>3. CASE r \notin left
    <3>1. file'[r] = [f \in File |-> IF file[r][f] = "cached" THEN "torn" ELSE file[r][f]]
      BY <1>2, <2>3
    <3>2. file'[r] \in [File -> Kept]
      BY <2>1, <3>1 DEF Kept
    <3>3. place'[r] \in {"none", "gone"} => place[r] = place'[r]
      BY <1>2, <2>3
    <3> QED BY <2>1, <3>1, <3>2, <3>3 DEF NoFiles
  <2> QED BY <2>2, <2>3
<1>5. TypeOK'
  <2>1. DOMAIN pc' = Run /\ \A s \in Run : pc'[s] \in Stage
    BY <1>2 DEF PowerLoss, Stage
  <2>2. place' \in [Run -> Place]
    <3>1. \E new \in [Run -> Place] : place' = new
      BY <1>1, TypeFacts DEF PowerLoss, Place
    <3> QED BY <3>1
  <2>3. DOMAIN file' = Run /\ file' = [r \in Run |-> file'[r]]
    BY DEF PowerLoss
  <2>4. file' \in [Run -> [File -> Kept]]
    BY <1>4, <2>3
  <2>5. /\ snap' \in [Run -> SUBSET Upload] /\ dump' \in [Run -> SUBSET Upload]
        /\ copied' \in [Run -> SUBSET Upload] /\ stamp' \in [Run -> Time \cup {0}]
    BY <1>1, TypeFacts DEF PowerLoss, Abandoned
  <2>6. victims' \in [Run -> Removal]
    <3>1. NoVictims \in Removal
      BY DEF NoVictims, Removal
    <3> QED BY <1>3, <3>1
  <2> QED BY <1>1, <1>3, <1>4, <2>1, <2>2, <2>4, <2>5, <2>6 DEF PowerLoss, TypeOK, Stage, Place, Kept, Removal, system, cron
<1>6. ASSUME NEW s \in Run PROVE PlaceFits(s)' /\ FileFits(s)' /\ VictimFits(s)'
  <2>1. PlaceFits(s) /\ FileFits(s) /\ pc'[s] \in Ended /\ (pc'[s] # pc[s] => pc'[s] = "killed")
    BY <1>1, <1>2
  <2>2. pc'[s] # "killed" => /\ pc'[s] = pc[s]
                             /\ place'[s] = IF place[s] = "renamed" THEN "published" ELSE place[s]
    BY <1>2
  <2>3. pc'[s] = "killed" => place'[s] # "none"
    <3>1. CASE s \in left
      BY <1>2, <3>1
    <3>2. CASE s \notin left
      <4> SUFFICES ASSUME pc'[s] = "killed", place'[s] = "none" PROVE FALSE
        OBVIOUS
      <4>1. place[s] = "none"
        BY <1>2, <3>2
      <4>2. pc[s] = "idle"
        BY <2>1, <4>1 DEF PlaceFits
      <4>3. \A x \in Run : pc'[x] = "killed" => Working(x) \/ place[x] = "renamed" \/ pc[x] = "killed"
        BY DEF PowerLoss
      <4> QED BY <4>1, <4>2, <4>3 DEF Working, Ended
    <3> QED BY <3>1, <3>2
  <2>4. PlaceFits(s)'
    BY <1>3, <2>1, <2>2, <2>3, FinishedFacts DEF PlaceFits, Finished, Ended, Retaining
  <2>5. FileFits(s)'
    <3>1. pc'[s] \notin DOMAIN Finished
      BY <2>1, FinishedFacts DEF Ended
    <3>2. ASSUME place'[s] \in {"renamed", "published"}
          PROVE  /\ \A f \in File : file'[s][f] \in {"absent", "whole"}
                 /\ dump'[s] = copied'[s]
      <4>1. s \notin left /\ place[s] \in {"renamed", "published"}
        BY <1>2, <3>2
      <4>2. /\ \A f \in File : file[s][f] \in {"absent", "whole"}
            /\ dump[s] = copied[s]
        BY <2>1, <4>1 DEF FileFits
      <4>3. /\ file'[s] = [f \in File |-> IF file[s][f] = "cached" THEN "torn" ELSE file[s][f]]
            /\ dump'[s] = dump[s] /\ copied'[s] = copied[s]
        BY <1>2, <4>1
      <4>4. \A f \in File : file'[s][f] = file[s][f]
        BY <4>2, <4>3
      <4> QED BY <4>2, <4>3, <4>4
    <3>3. Finished' = Finished
      BY DEF Finished
    <3> QED BY <3>1, <3>2, <3>3 DEF FileFits
  <2>6. VictimFits(s)'
    BY <2>1 DEF VictimFits, Ended
  <2> QED BY <2>4, <2>5, <2>6
<1>7. Alone'
  BY <1>2 DEF Alone, Working, Ended
<1> QED BY <1>5, <1>6, <1>7, WholeAfter

-----------------------------------------------------------------------------
(* Theorems *)

\* Nothing has run.
LEMMA InitInv == Init => IInv
<1> SUFFICES ASSUME Init PROVE IInv
  OBVIOUS
<1>1. \A r \in Run : pc[r] = "idle" /\ place[r] = "none" /\ file[r] = NoFiles /\ victims[r] = NoVictims
  BY DEF Init
<1>2. tempdb = {} /\ notes = {} /\ raced = FALSE
  BY DEF Init
<1>3. TypeOK
  <2>1. NoFiles \in [File -> Kept] /\ NoVictims \in Removal
    BY DEF NoFiles, NoVictims, Kept, Removal
  <2> QED BY <2>1, TypeFacts DEF Init, Stage, Ended, Place
<1>4. \A r \in Run : PlaceFits(r) /\ FileFits(r) /\ VictimFits(r)
  BY <1>1, <1>2, FinishedFacts DEF PlaceFits, FileFits, VictimFits, Retaining
<1>5. Alone
  BY <1>1 DEF Alone, Working, Ended
<1> QED BY <1>3, <1>4, <1>5, Whole

\* Every step of a run.
LEMMA StepInv ==
  ASSUME IInv, NEW r \in Run, Step(r)
  PROVE  IInv'
<1>1. CASE TakesSnapshot(r) \/ Dumps(r) \/ SyncsDump(r) \/ CopiesUploads(r) \/ SyncsUploads(r)
  BY <1>1, TakesSnapshotStep, DumpsStep, SyncsDumpStep, CopiesUploadsStep, SyncsUploadsStep
<1>2. CASE \E u \in Upload : CopiesUpload(r, u)
  BY <1>2, CopiesUploadStep
<1>3. CASE ChecksArchive(r) \/ CreatesDatabase(r) \/ DropsDatabase(r)
  BY <1>3, ChecksArchiveStep, CreatesDatabaseStep, DropsDatabaseStep
<1>4. CASE WritesManifest(r) \/ WritesMarker(r) \/ SyncsPrivate(r)
  BY <1>4, WritesManifestStep, WritesMarkerStep, SyncsPrivateStep
<1>5. CASE Publishes(r) \/ SyncsRoot(r) \/ Fails(r) \/ FailsAfterRename(r)
  BY <1>5, PublishesStep, SyncsRootStep, FailsStep, FailsAfterRenameStep
<1>6. CASE ListsBackups(r) \/ ChoosesVictim(r)
  BY <1>6, ListsBackupsStep, ChoosesVictimStep
<1>7. CASE Unlinks(r) \/ RemovesDirectory(r) \/ RetentionStops(r)
  BY <1>7, UnlinksStep, RemovesDirectoryStep, RetentionStopsStep
<1> QED BY <1>1, <1>2, <1>3, <1>4, <1>5, <1>6, <1>7 DEF Step

\* Every step of the specification.
LEMMA NextInv == IInv /\ [Next]_vars => IInv'
<1> SUFFICES ASSUME IInv, [Next]_vars PROVE IInv'
  OBVIOUS
<1>1. CASE \E u \in Upload : Uploaded(u) \/ Purged(u)
  BY <1>1, UploadedStep
<1>2. CASE \E r \in Run : Starts(r) \/ Step(r) \/ Killed(r) \/ PutsNote(r)
  BY <1>2, StartsStep, StepInv, KilledStep, PutsNoteStep
<1>3. CASE PowerLoss
  BY <1>3, PowerLossStep
<1>4. CASE InstallReads \/ InstallWrites \/ EditsCrontab
  BY <1>4, CrontabStep
<1>5. CASE UNCHANGED vars
  <2>1. rows \subseteq Upload /\ archive \subseteq Upload
    BY Parts, TypeFacts
  <2> QED BY <1>5, <2>1, FrameStep DEF vars, data
<1> QED BY <1>1, <1>2, <1>3, <1>4, <1>5 DEF Next

\* Whatever runs, uploads, deaths and power losses come together, and in
\* whatever order, what counts as a backup can be restored and only killed runs
\* leave directories (backup-runtime.py:315); while no runs overlap, a
\* retention spares Keep backups ahead of each that it removes.
THEOREM Invariance == Spec => []IInv
BY InitInv, NextInv, PTL DEF Spec

\* A step that unlinks nothing leaves the files of a backup that stays where
\* it is.
LEMMA FilesStay ==
  ASSUME IInv, Next, \A r \in Run : ~Unlinks(r), NEW d \in Run,
         place[d] = "published" \/ (place[d] = "renamed" /\ place'[d] = place[d])
  PROVE  file'[d] = file[d]
<1>1. TypeOK /\ PlaceFits(d) /\ FileFits(d) /\ place[d] \in {"renamed", "published"} /\ pc[d] \notin DOMAIN Finished
  BY Parts DEF PlaceFits
<1>2. \A r \in Run : place[r] = "staging" \/ pc[r] \in DOMAIN Finished => r # d
  BY <1>1
<1>3. ASSUME NEW r \in Run, NEW f \in File, Written(r, f) PROVE file'[d] = file[d]
  <2>1. r # d
    BY <1>2, <1>3, FinishedFacts DEF Written, File
  <2> QED BY <1>1, <1>3, <2>1, TypeFacts DEF Written
<1>4. ASSUME NEW r \in Run, NEW f \in File, NEW next, Synced(r, f, next) PROVE file'[d] = file[d]
  <2>1. r # d
    BY <1>2, <1>4, FinishedFacts DEF Synced, File
  <2> QED BY <1>1, <1>4, <2>1, TypeFacts DEF Synced
<1>5. ASSUME NEW r \in Run, Step(r) PROVE file'[d] = file[d]
  <2>1. CASE Dumps(r) \/ CopiesUploads(r) \/ WritesManifest(r) \/ WritesMarker(r)
    BY <1>3, <2>1 DEF Dumps, CopiesUploads, WritesManifest, WritesMarker, File
  <2>2. CASE SyncsDump(r) \/ SyncsUploads(r) \/ SyncsPrivate(r)
    BY <1>4, <2>2 DEF SyncsDump, SyncsUploads, SyncsPrivate, File
  <2>3. CASE Fails(r)
    <3>1. r # d
      BY <1>2, <2>3 DEF Fails
    <3> QED BY <1>1, <2>3, <3>1, TypeFacts DEF Fails
  <2>4. CASE \/ TakesSnapshot(r) \/ ChecksArchive(r) \/ CreatesDatabase(r) \/ DropsDatabase(r)
             \/ \E u \in Upload : CopiesUpload(r, u)
    BY <2>4 DEF TakesSnapshot, ChecksArchive, CreatesDatabase, DropsDatabase, CopiesUpload
  <2>5. CASE \/ Publishes(r) \/ SyncsRoot(r) \/ FailsAfterRename(r)
             \/ ListsBackups(r) \/ ChoosesVictim(r) \/ RemovesDirectory(r) \/ RetentionStops(r)
    BY <2>5 DEF Publishes, SyncsRoot, FailsAfterRename, ListsBackups, ChoosesVictim, RemovesDirectory, RetentionStops
  <2> QED BY <1>5, <2>1, <2>2, <2>3, <2>4, <2>5 DEF Step
<1>6. ASSUME NEW r \in Run, Starts(r) \/ PutsNote(r) PROVE file'[d] = file[d]
  BY <1>6 DEF Starts, PutsNote
<1>7. ASSUME NEW r \in Run, Killed(r) PROVE file'[d] = file[d]
  <2> DEFINE left == {r} \cap {s \in Run : place[s] = "staging"}
  <2>1. file' = [file EXCEPT ![r] = IF r \in left THEN NoFiles ELSE file[r]]
    BY <1>7 DEF Killed
  <2>2. r = d => r \notin left
    BY <1>1
  <2> HIDE DEF left
  <2> QED BY <1>1, <2>1, <2>2, TypeFacts
<1>8. CASE PowerLoss
  <2>1. PICK left \in SUBSET Run :
          \A r \in Run :
            /\ r \in left => place'[r] = "staging"
            /\ r \notin left => file'[r] = [f \in File |-> IF file[r][f] = "cached" THEN "torn" ELSE file[r][f]]
    BY <1>8, LossFacts
  <2>2. place'[d] # "staging"
    BY <1>1, <1>8 DEF PowerLoss
  <2>3. file'[d] = [f \in File |-> IF file[d][f] = "cached" THEN "torn" ELSE file[d][f]]
    BY <2>1, <2>2
  <2>4. file[d] \in [File -> Kept] /\ \A f \in File : file[d][f] # "cached"
    BY <1>1, StateFacts DEF FileFits
  <2> QED BY <2>3, <2>4
<1>9. CASE \/ \E u \in Upload : Uploaded(u) \/ Purged(u)
           \/ InstallReads \/ InstallWrites \/ EditsCrontab
  BY <1>9 DEF Uploaded, Purged, InstallReads, InstallWrites, EditsCrontab
<1> QED BY <1>5, <1>6, <1>7, <1>8, <1>9 DEF Next

\* What a retention unlinks a file of is one that Keep others are ahead of.
LEMMA UnlinkKeeps ==
  ASSUME IInv, NEW r \in Run, Unlinks(r), ~raced', NEW v, v = victims[r].now
  PROVE  /\ v \in Run /\ v \notin notes
         /\ \A d \in Run : d # v => file'[d] = file[d]
         /\ Cardinality({e \in Managed(ProjectOf[v])' : stamp[e] >= stamp[v] \/ Working(e)}) >= Keep
<1> DEFINE p    == ProjectOf[v]
           kept == {e \in Managed(ProjectOf[r]) \ Going(r) : Ahead(r, e, v)}
           new  == {e \in Managed(p)' : stamp[e] >= stamp[v] \/ Working(e)}
<1>1. /\ pc[r] = "unlink" /\ v \in Run
      /\ \A s \in Run \ {v} : file'[s] = file[s]
  BY UnlinkFacts
<1>2. place' = place /\ notes' = notes /\ raced' = raced /\ TypeOK
  BY Parts DEF Unlinks
<1>3. KeepsEnough(r)
  <2>1. ~raced
    BY <1>2
  <2>2. Alone
    BY <2>1, Parts
  <2> QED BY <1>1, <2>2 DEF Alone
<1>4. v \in Going(r)
  BY <1>1, GoingFacts
<1>5. v \notin notes /\ ProjectOf[v] = ProjectOf[r] /\ Cardinality(kept) >= Keep
  BY <1>1, <1>3, <1>4 DEF KeepsEnough
<1>6. kept \subseteq new
  <2> SUFFICES ASSUME NEW e \in kept PROVE e \in new
    OBVIOUS
  <2>1. e \in Managed(p) /\ e \in Run /\ e # v
    BY <1>4, <1>5, ManagedFacts
  <2>2. e \in Managed(p)'
    <3>1. file'[e] = file[e] /\ place'[e] = place[e] /\ notes' = notes
      BY <1>1, <1>2, <2>1
    <3> HIDE DEF p
    <3> QED BY <2>1, <3>1 DEF Managed
  <2>3. \A s \in Run : stamp[s] \in Nat
    <3> SUFFICES ASSUME NEW s \in Run PROVE stamp[s] \in Nat
      OBVIOUS
    <3>1. stamp[s] \in Time \cup {0}
      BY <1>2, StateFacts
    <3> QED BY <3>1, ConstantFacts
  <2>4. Working(r)
    BY <1>1 DEF Working, Ended
  <2>5. e = r \/ stamp[e] > stamp[v] \/ stamp[e] = stamp[v]
    BY DEF Ahead
  <2> QED BY <1>1, <2>1, <2>2, <2>3, <2>4, <2>5
<1>7. new \subseteq Run
  BY DEF Managed
<1>8. IsFiniteSet(new) /\ Cardinality(new) \in Nat /\ Cardinality(kept) \in Nat /\ Cardinality(kept) <= Cardinality(new)
  <2>1. IsFiniteSet(new)
    BY <1>7, ConstantFacts, FS_Subset
  <2> QED BY <1>6, <2>1, FS_Subset, FS_CardinalityType
<1> QED BY <1>1, <1>5, <1>8, ConstantFacts

\* While no runs overlap, a retention removes a backup only when Keep others of
\* its project remain, the newest of them or its own, and unlinks nothing in a
\* directory that somebody has put something into (backup-runtime.py:267).
THEOREM Retention == Spec => RetentionKeeps
<1>1. ASSUME IInv, [Next]_vars
      PROVE  [~raced' => \A d \in Run : LET p == ProjectOf[d] IN
                /\ d \in Managed(p) /\ d \notin Managed(p)' /\ d \notin notes' /\ place'[d] = place[d] =>
                     Cardinality({e \in Managed(p)' : stamp[e] >= stamp[d] \/ Working(e)}) >= Keep
                /\ file[d] # file'[d] /\ place[d] = "published" => d \notin notes]_vars
  <2> SUFFICES ASSUME Next, ~raced', NEW d \in Run
               PROVE  LET p == ProjectOf[d] IN
                      /\ d \in Managed(p) /\ d \notin Managed(p)' /\ d \notin notes' /\ place'[d] = place[d] =>
                           Cardinality({e \in Managed(p)' : stamp[e] >= stamp[d] \/ Working(e)}) >= Keep
                      /\ file[d] # file'[d] /\ place[d] = "published" => d \notin notes
    BY <1>1
  <2> DEFINE p == ProjectOf[d]
  <2>1. file'[d] = file[d] /\ place'[d] = place[d] /\ d \notin notes' /\ d \in Managed(p) => d \in Managed(p)'
    BY DEF Managed
  <2>2. CASE \E r \in Run : Unlinks(r)
    <3>1. PICK r \in Run : Unlinks(r)
      BY <2>2
    <3>2. CASE d = victims[r].now
      <4>1. /\ d \notin notes
            /\ Cardinality({e \in Managed(ProjectOf[d])' : stamp[e] >= stamp[d] \/ Working(e)}) >= Keep
        BY <1>1, <3>1, <3>2, UnlinkKeeps
      <4> QED BY <4>1
    <3>3. CASE d # victims[r].now
      <4>1. file'[d] = file[d]
        BY <1>1, <3>1, <3>3, UnlinkKeeps
      <4> QED BY <2>1, <4>1
    <3> QED BY <3>2, <3>3
  <2>3. CASE \A r \in Run : ~Unlinks(r)
    <3>1. place[d] = "published" \/ (place[d] = "renamed" /\ place'[d] = place[d]) => file'[d] = file[d]
      BY <1>1, <2>3, FilesStay
    <3>2. d \in Managed(p) => place[d] \in {"renamed", "published"}
      BY DEF Managed
    <3> QED BY <2>1, <3>1, <3>2
  <2> QED BY <2>2, <2>3
<1> QED BY <1>1, Invariance, PTL DEF Spec, RetentionKeeps

-----------------------------------------------------------------------------
(* The lines of a crontab *)

Line == Lines \cup {"begin", "end", "job"}

\* The loop over the lines, as the fold of a set of line numbers.
Folds(g, s, D) == g = [d \in D |-> IF d = {} THEN Nothing ELSE Scanned(g[d \ {Max(d)}], s[Max(d)])]

\* The scan is the value of its fold for all line numbers.
LEMMA ScanIs ==
  ASSUME NEW s
  PROVE  Scan(s) = (CHOOSE g : g = [d \in SUBSET (DOMAIN s) |->
                      IF d = {} THEN Nothing ELSE Scanned(g[d \ {Max(d)}], s[Max(d)])])[DOMAIN s]
  BY DEF Scan, FoldLeft, MapThenFoldSet

Smaller == {p \in Nat \X Nat : p[1] < p[2]}

\* There is no infinite descent.
LEMMA SmallerWF == IsWellFoundedOn(Smaller, Nat)
  BY NatLessThanWellFounded DEF OpToRel, Smaller

\* Induction over the numbers, for a set of them.
LEMMA Induction ==
  ASSUME NEW N \in SUBSET Nat, 0 \in N, \A n \in N : n + 1 \in N
  PROVE  N = Nat
<1> DEFINE T == Nat \ N
<1>1. SUFFICES ASSUME T # {} PROVE FALSE
  OBVIOUS
<1>2. PICK x \in T : \A y \in T : ~(<<y, x>> \in Smaller)
  BY <1>1, SmallerWF, WFMin
<1>3. x # 0 /\ x - 1 \in Nat
  OBVIOUS
<1>4. <<x - 1, x>> \in Smaller
  BY <1>3 DEF Smaller
<1>5. x - 1 \in N
  BY <1>2, <1>3, <1>4
<1>6. x - 1 + 1 = x
  BY <1>3
<1> QED BY <1>2, <1>3, <1>5, <1>6

\* A set of line numbers has a last one.
LEMMA MaxIn ==
  ASSUME NEW n \in Nat, NEW d \in SUBSET (1..n), d # {}
  PROVE  Max(d) \in d /\ \A y \in d : Max(d) >= y
<1> DEFINE T == {n - x : x \in d}
<1>1. T \in SUBSET Nat /\ T # {}
  <2>1. \A x \in d : x \in 1..n /\ n - x \in Nat
    OBVIOUS
  <2>2. PICK x \in d : TRUE
    OBVIOUS
  <2> QED BY <2>1, <2>2
<1>2. PICK m \in T : \A y \in T : ~(<<y, m>> \in Smaller)
  <2> HIDE DEF T
  <2> QED BY <1>1, SmallerWF, WFMin
<1>3. PICK x \in d : m = n - x
  OBVIOUS
<1>4. ASSUME NEW y \in d PROVE x >= y
  <2>1. n - y \in T /\ n - y \in Nat /\ m \in Nat
    BY <1>1
  <2>2. ~(n - y < m)
    BY <1>2, <2>1 DEF Smaller
  <2> QED BY <1>3, <2>2
<1>5. \E z \in d : \A y \in d : z >= y
  BY <1>4
<1> QED BY <1>5 DEF Max

\* What is before the last line.
LEMMA LessMax ==
  ASSUME NEW n \in Nat, NEW d \in SUBSET (1..(n + 1)), d # {}
  PROVE  /\ Max(d) \in d
         /\ d \ {Max(d)} \in SUBSET (1..n)
<1>0. n + 1 \in Nat
  OBVIOUS
<1>1. Max(d) \in d /\ \A y \in d : Max(d) >= y
  BY <1>0, MaxIn
<1>2. ASSUME NEW y \in d, y # Max(d) PROVE y \in 1..n
  <2>1. y \in 1..(n + 1) /\ Max(d) \in 1..(n + 1) /\ Max(d) >= y
    BY <1>1
  <2> QED BY <1>2, <2>1
<1> QED BY <1>1, <1>2

\* Of the first n + 1 lines, the last is number n + 1.
LEMMA LastOf == \A n \in Nat : Max(1..(n + 1)) = n + 1 /\ (1..(n + 1)) \ {n + 1} = 1..n
<1> TAKE n \in Nat
<1>1. n + 1 \in Nat /\ n + 1 \in 1..(n + 1) /\ 1..(n + 1) \in SUBSET (1..(n + 1))
  OBVIOUS
<1>2. Max(1..(n + 1)) \in 1..(n + 1) /\ \A y \in 1..(n + 1) : Max(1..(n + 1)) >= y
  BY <1>1, MaxIn
<1>3. Max(1..(n + 1)) = n + 1
  BY <1>1, <1>2
<1> QED BY <1>3

\* The fold is defined for any number of lines.
LEMMA FoldExists ==
  ASSUME NEW s
  PROVE  \A n \in Nat : \E g : Folds(g, s, SUBSET (1..n))
<1> DEFINE N == {n \in Nat : \E g : Folds(g, s, SUBSET (1..n))}
<1>1. 0 \in N
  <2>1. SUBSET (1..0) = {{}}
    OBVIOUS
  <2>2. Folds([d \in {{}} |-> Nothing], s, {{}})
    BY DEF Folds
  <2> QED BY <2>1, <2>2
<1>2. ASSUME NEW n \in N PROVE n + 1 \in N
  <2>1. PICK g : Folds(g, s, SUBSET (1..n))
    OBVIOUS
  <2> DEFINE D == SUBSET (1..(n + 1))
             h == [d \in D |-> IF d = {} THEN Nothing ELSE Scanned(g[d \ {Max(d)}], s[Max(d)])]
  <2>2. \A d \in SUBSET (1..n) : d \in D /\ h[d] = g[d]
    <3>1. \A d \in SUBSET (1..n) : d \in D
      OBVIOUS
    <3>2. \A d \in SUBSET (1..n) : g[d] = IF d = {} THEN Nothing ELSE Scanned(g[d \ {Max(d)}], s[Max(d)])
      BY <2>1 DEF Folds
    <3> HIDE DEF D
    <3> QED BY <3>1, <3>2
  <2>3. \A d \in D : d # {} => d \ {Max(d)} \in SUBSET (1..n)
    BY LessMax
  <2>4. \A d \in D : h[d] = IF d = {} THEN Nothing ELSE Scanned(h[d \ {Max(d)}], s[Max(d)])
    <3>1. \A d \in D : h[d] = IF d = {} THEN Nothing ELSE Scanned(g[d \ {Max(d)}], s[Max(d)])
      OBVIOUS
    <3>2. \A d \in D : d # {} => g[d \ {Max(d)}] = h[d \ {Max(d)}]
      <4> HIDE DEF D, h
      <4> QED BY <2>2, <2>3
    <3> HIDE DEF h
    <3> QED BY <3>1, <3>2
  <2>5. h = [d \in D |-> h[d]]
    OBVIOUS
  <2>6. Folds(h, s, D)
    <3> HIDE DEF h, D
    <3> QED BY <2>4, <2>5 DEF Folds
  <2>7. n + 1 \in Nat
    OBVIOUS
  <2> QED BY <2>6, <2>7
<1>3. N = Nat
  <2>1. N \in SUBSET Nat
    OBVIOUS
  <2> HIDE DEF N
  <2> QED BY <1>1, <1>2, <2>1, Induction
<1> QED BY <1>3

\* The n lines of s are the first of the k lines of t.
Begins(s, n, g, t, k, h) ==
  /\ n \in Nat /\ k \in Nat /\ n <= k
  /\ \A i \in 1..n : s[i] = t[i]
  /\ Folds(g, s, SUBSET (1..n)) /\ Folds(h, t, SUBSET (1..k))

\* Folds over lines that begin alike are alike there.
LEMMA FoldsAgree ==
  ASSUME NEW s, NEW n, NEW g, NEW t, NEW k, NEW h, Begins(s, n, g, t, k, h)
  PROVE  \A d \in SUBSET (1..n) : g[d] = h[d]
<1>0. /\ n \in Nat /\ k \in Nat /\ n <= k
      /\ \A i \in 1..n : s[i] = t[i]
      /\ Folds(g, s, SUBSET (1..n)) /\ Folds(h, t, SUBSET (1..k))
  BY DEF Begins
<1> DEFINE N == {m \in Nat : \A d \in SUBSET (1..m) : d \subseteq 1..n => g[d] = h[d]}
<1>1. \A d \in SUBSET (1..n) : g[d] = IF d = {} THEN Nothing ELSE Scanned(g[d \ {Max(d)}], s[Max(d)])
  BY <1>0 DEF Folds
<1>2. \A d \in SUBSET (1..k) : h[d] = IF d = {} THEN Nothing ELSE Scanned(h[d \ {Max(d)}], t[Max(d)])
  BY <1>0 DEF Folds
<1>3. \A d : d \subseteq 1..n => d \in SUBSET (1..n) /\ d \in SUBSET (1..k)
  BY <1>0
<1>4. 0 \in N
  <2>1. \A d \in SUBSET (1..0) : d = {}
    OBVIOUS
  <2> QED BY <1>1, <1>2, <1>3, <2>1
<1>5. ASSUME NEW m \in N PROVE m + 1 \in N
  <2>0. m + 1 \in Nat
    OBVIOUS
  <2> SUFFICES ASSUME NEW d \in SUBSET (1..(m + 1)), d \subseteq 1..n PROVE g[d] = h[d]
    BY <2>0
  <2>1. CASE d = {}
    BY <1>1, <1>2, <1>3, <2>1
  <2>2. CASE d # {}
    <3>1. Max(d) \in d /\ d \ {Max(d)} \in SUBSET (1..m)
      BY <2>2, LessMax
    <3>2. d \ {Max(d)} \subseteq 1..n
      OBVIOUS
    <3>3. g[d \ {Max(d)}] = h[d \ {Max(d)}]
      BY <3>1, <3>2
    <3>4. s[Max(d)] = t[Max(d)]
      BY <1>0, <3>1
    <3> QED BY <1>1, <1>2, <1>3, <2>2, <3>3, <3>4
  <2> QED BY <2>1, <2>2
<1>6. N = Nat
  <2>1. N \in SUBSET Nat
    OBVIOUS
  <2> HIDE DEF N
  <2> QED BY <1>4, <1>5, <2>1, Induction
<1> QED BY <1>0, <1>6

\* The scan is the value of a fold that exists.
LEMMA FoldOf ==
  ASSUME NEW s \in Seq(Line)
  PROVE  \E g : Folds(g, s, SUBSET (1..Len(s))) /\ Scan(s) = g[1..Len(s)]
<1> DEFINE Is(g) == g = [d \in SUBSET (DOMAIN s) |-> IF d = {} THEN Nothing ELSE Scanned(g[d \ {Max(d)}], s[Max(d)])]
<1>1. DOMAIN s = 1..Len(s) /\ Len(s) \in Nat
  BY LenProperties
<1>2. \A g : Is(g) <=> Folds(g, s, SUBSET (DOMAIN s))
  BY DEF Folds
<1>3. \E g : Is(g)
  BY <1>1, <1>2, FoldExists
<1>4. Scan(s) = (CHOOSE g : Is(g))[DOMAIN s]
  BY ScanIs
<1> HIDE DEF Is
<1>5. Is(CHOOSE g : Is(g))
  BY <1>3
<1> QED BY <1>1, <1>2, <1>4, <1>5

\* No lines.
LEMMA FoldNone == Scan(<<>>) = Nothing
<1>1. <<>> \in Seq(Line) /\ Len(<<>>) = 0
  BY EmptySeq
<1>2. PICK g : Folds(g, <<>>, SUBSET (1..0)) /\ Scan(<<>>) = g[1..0]
  BY <1>1, FoldOf
<1>3. 1..0 = {} /\ {} \in SUBSET (1..0)
  OBVIOUS
<1> QED BY <1>2, <1>3 DEF Folds

\* One line more is one step more.
LEMMA FoldMore ==
  ASSUME NEW s \in Seq(Line), NEW l \in Line
  PROVE  Scan(Append(s, l)) = Scanned(Scan(s), l)
<1> DEFINE t == Append(s, l)
           n == Len(s)
<1>1. /\ n \in Nat /\ t \in Seq(Line) /\ Len(t) = n + 1
      /\ \A i \in 1..n : t[i] = s[i]
      /\ t[n + 1] = l
  BY AppendProperties, LenProperties
<1> HIDE DEF t, n
<1>2. PICK g : Folds(g, s, SUBSET (1..n)) /\ Scan(s) = g[1..n]
  BY FoldOf DEF n
<1>3. PICK h : Folds(h, t, SUBSET (1..(n + 1))) /\ Scan(t) = h[1..(n + 1)]
  BY <1>1, FoldOf
<1>4. \A d \in SUBSET (1..n) : g[d] = h[d]
  <2>1. Begins(s, n, g, t, n + 1, h)
    BY <1>1, <1>2, <1>3 DEF Begins
  <2> QED BY <2>1, FoldsAgree
<1>5. n + 1 \in 1..(n + 1) /\ 1..n \in SUBSET (1..n) /\ 1..(n + 1) \in SUBSET (1..(n + 1))
  BY <1>1
<1>6. h[1..(n + 1)] = Scanned(h[(1..(n + 1)) \ {Max(1..(n + 1))}], t[Max(1..(n + 1))])
  BY <1>3, <1>5 DEF Folds
<1>7. h[1..(n + 1)] = Scanned(g[1..n], l)
  BY <1>1, <1>4, <1>5, <1>6, LastOf
<1> QED BY <1>2, <1>3, <1>7 DEF t

\* The scan, line by line.
LEMMA ScanLaws ==
  /\ Scan(<<>>) = Nothing
  /\ \A s \in Seq(Line), l \in Line : Scan(Append(s, l)) = Scanned(Scan(s), l)
  BY FoldNone, FoldMore

-----------------------------------------------------------------------------
(* What a scan keeps *)

Other == Line \ {"begin", "end"}
State == [kept : Seq(Other), owned : BOOLEAN, bad : BOOLEAN]

\* The first n lines.
First(s, n) == [i \in 1..n |-> s[i]]

\* A text is its first lines, one after the other.
LEMMA FirstFacts ==
  ASSUME NEW s \in Seq(Line)
  PROVE  /\ Len(s) \in Nat /\ \A i \in 1..Len(s) : s[i] \in Line
         /\ First(s, 0) = <<>> /\ First(s, Len(s)) = s
         /\ \A n \in 0..Len(s) : First(s, n) \in Seq(Line)
         /\ \A n \in 0..(Len(s) - 1) : First(s, n + 1) = Append(First(s, n), s[n + 1])
<1>1. Len(s) \in Nat /\ \A i \in 1..Len(s) : s[i] \in Line
  BY ElementOfSeq, LenProperties
<1>2. ASSUME NEW n \in 0..Len(s)
      PROVE  First(s, n) \in Seq(Line) /\ Len(First(s, n)) = n /\ \A i \in 1..n : First(s, n)[i] = s[i]
  <2>1. n \in Nat /\ \A i \in 1..n : s[i] \in Line
    BY <1>1
  <2>2. First(s, n) \in [1..n -> Line]
    BY <2>1 DEF First
  <2>3. First(s, n) \in Seq(Line)
    BY <2>1, <2>2, SeqDef
  <2> QED BY <2>1, <2>2, <2>3, LenProperties DEF First
<1>3. First(s, 0) = <<>>
  <2>1. First(s, 0) \in Seq(Line) /\ Len(First(s, 0)) = 0
    BY <1>1, <1>2
  <2> QED BY <2>1, EmptySeq
<1>4. First(s, Len(s)) = s
  <2>1. Len(s) \in 0..Len(s)
    BY <1>1
  <2> QED BY <1>2, <2>1, SeqEqual
<1>5. ASSUME NEW n \in 0..(Len(s) - 1)
      PROVE  First(s, n + 1) = Append(First(s, n), s[n + 1])
  <2>1. n \in 0..Len(s) /\ n + 1 \in 0..Len(s) /\ n + 1 \in 1..Len(s) /\ n \in Nat
    BY <1>1
  <2>2. First(s, n) \in Seq(Line) /\ Len(First(s, n)) = n /\ \A i \in 1..n : First(s, n)[i] = s[i]
    BY <1>2, <2>1
  <2>3. First(s, n + 1) \in Seq(Line) /\ Len(First(s, n + 1)) = n + 1 /\ \A i \in 1..(n + 1) : First(s, n + 1)[i] = s[i]
    BY <1>2, <2>1
  <2>4. s[n + 1] \in Line
    BY <1>1, <2>1
  <2> DEFINE t == Append(First(s, n), s[n + 1])
  <2>5. t \in Seq(Line) /\ Len(t) = n + 1 /\ (\A i \in 1..n : t[i] = First(s, n)[i]) /\ t[n + 1] = s[n + 1]
    BY <2>2, <2>4, AppendProperties
  <2> HIDE DEF t
  <2>6. \A i \in 1..(n + 1) : First(s, n + 1)[i] = t[i]
    <3> SUFFICES ASSUME NEW i \in 1..(n + 1) PROVE First(s, n + 1)[i] = t[i]
      OBVIOUS
    <3>1. i \in 1..n \/ i = n + 1
      BY <2>1
    <3> QED BY <2>2, <2>3, <2>5, <3>1
  <2>7. First(s, n + 1) = t
    BY <2>3, <2>5, <2>6, SeqEqual
  <2> QED BY <2>7 DEF t
<1> QED BY <1>1, <1>2, <1>3, <1>4, <1>5

\* What one line does to the state of the scan.
LEMMA ScannedFacts ==
  ASSUME NEW a \in State, NEW l \in Line
  PROVE  /\ Scanned(a, l) \in State
         /\ l = "begin" => Scanned(a, l).kept = a.kept /\ Scanned(a, l).owned
         /\ l = "end" => Scanned(a, l).kept = a.kept /\ ~Scanned(a, l).owned
         /\ l \in Other => /\ Scanned(a, l).owned = a.owned
                           /\ Scanned(a, l).kept = IF a.owned THEN a.kept ELSE Append(a.kept, l)
<1>1. "begin" # "end"
  OBVIOUS
<1>2. CASE l = "begin"
  BY <1>1, <1>2 DEF Scanned, State, Other
<1>3. CASE l = "end"
  BY <1>1, <1>3 DEF Scanned, State, Other
<1>4. CASE l \in Other
  <2>1. l # "begin" /\ l # "end"
    BY <1>4 DEF Other
  <2>2. Scanned(a, l) = IF a.owned THEN a ELSE [a EXCEPT !.kept = Append(@, l)]
    BY <2>1 DEF Scanned
  <2>3. Append(a.kept, l) \in Seq(Other)
    BY <1>4, AppendProperties DEF State
  <2> QED BY <2>1, <2>2, <2>3 DEF State
<1> QED BY <1>2, <1>3, <1>4 DEF Other

\* The state after each line.
LEMMA ScanState ==
  ASSUME NEW s \in Seq(Line)
  PROVE  /\ \A n \in 0..Len(s) : Scan(First(s, n)) \in State
         /\ \A n \in 0..(Len(s) - 1) : Scan(First(s, n + 1)) = Scanned(Scan(First(s, n)), s[n + 1])
<1> DEFINE N == {n \in Nat : n <= Len(s) => Scan(First(s, n)) \in State}
<1>1. Len(s) \in Nat
  BY FirstFacts
<1>2. \A n \in 0..(Len(s) - 1) : Scan(First(s, n + 1)) = Scanned(Scan(First(s, n)), s[n + 1])
  <2> SUFFICES ASSUME NEW n \in 0..(Len(s) - 1) PROVE Scan(First(s, n + 1)) = Scanned(Scan(First(s, n)), s[n + 1])
    OBVIOUS
  <2>1. n \in 0..Len(s) /\ n + 1 \in 1..Len(s)
    BY <1>1
  <2>2. First(s, n + 1) = Append(First(s, n), s[n + 1]) /\ First(s, n) \in Seq(Line) /\ s[n + 1] \in Line
    BY <2>1, FirstFacts
  <2> QED BY <2>2, ScanLaws
<1>3. 0 \in N
  <2>1. Scan(First(s, 0)) = Nothing
    BY FirstFacts, ScanLaws
  <2>2. Nothing \in State
    BY EmptySeq DEF Nothing, State
  <2> QED BY <2>1, <2>2
<1>4. ASSUME NEW n \in N PROVE n + 1 \in N
  <2> SUFFICES ASSUME n + 1 <= Len(s) PROVE Scan(First(s, n + 1)) \in State
    OBVIOUS
  <2>1. n \in 0..(Len(s) - 1) /\ n + 1 \in 1..Len(s) /\ Scan(First(s, n)) \in State
    BY <1>1
  <2>2. s[n + 1] \in Line
    BY <2>1, FirstFacts
  <2> QED BY <1>2, <2>1, <2>2, ScannedFacts
<1>5. N = Nat
  <2>1. N \in SUBSET Nat
    OBVIOUS
  <2> HIDE DEF N
  <2> QED BY <1>3, <1>4, <2>1, Induction
<1> QED BY <1>1, <1>2, <1>5

\* One line more: whether a block is open, and which lines are outside.
LEMMA BlockFacts ==
  ASSUME NEW s \in Seq(Line), NEW n \in Nat
  PROVE  /\ ~InBlock(s, 0) /\ Outside(s, 0) = {}
         /\ s[n + 1] = "begin" => InBlock(s, n + 1)
         /\ s[n + 1] = "end" => ~InBlock(s, n + 1)
         /\ s[n + 1] \notin {"begin", "end"} => (InBlock(s, n + 1) <=> InBlock(s, n))
         /\ Outside(s, n + 1) = IF s[n + 1] \notin {"begin", "end"} /\ ~InBlock(s, n)
                                THEN Outside(s, n) \cup {n + 1} ELSE Outside(s, n)
<1>0. /\ n + 1 \in Nat /\ n + 1 \in 1..(n + 1) /\ n + 1 - 1 = n
      /\ \A i : i \in 1..(n + 1) <=> i \in 1..n \/ i = n + 1
  OBVIOUS
<1>1. ~InBlock(s, 0) /\ Outside(s, 0) = {}
  <2>1. 1..0 = {}
    OBVIOUS
  <2> QED BY <2>1 DEF InBlock, Outside
<1>2. ASSUME s[n + 1] = "begin" PROVE InBlock(s, n + 1)
  <2>1. ((n + 1) + 1)..(n + 1) = {}
    OBVIOUS
  <2> QED BY <1>0, <1>2, <2>1 DEF InBlock
<1>3. ASSUME s[n + 1] = "end" PROVE ~InBlock(s, n + 1)
  <2> SUFFICES ASSUME NEW b \in 1..(n + 1), s[b] = "begin", \A k \in (b + 1)..(n + 1) : s[k] # "end"
               PROVE  FALSE
    BY DEF InBlock
  <2>1. b # n + 1
    BY <1>3
  <2>2. n + 1 \in (b + 1)..(n + 1)
    BY <2>1
  <2> QED BY <1>3, <2>2
<1>4. ASSUME s[n + 1] \notin {"begin", "end"} PROVE InBlock(s, n + 1) <=> InBlock(s, n)
  <2>1. ASSUME InBlock(s, n + 1) PROVE InBlock(s, n)
    <3>1. PICK b \in 1..(n + 1) : s[b] = "begin" /\ \A k \in (b + 1)..(n + 1) : s[k] # "end"
      BY <2>1 DEF InBlock
    <3>2. b \in 1..n /\ \A k \in (b + 1)..n : k \in (b + 1)..(n + 1)
      BY <1>0, <1>4, <3>1
    <3> QED BY <3>1, <3>2 DEF InBlock
  <2>2. ASSUME InBlock(s, n) PROVE InBlock(s, n + 1)
    <3>1. PICK b \in 1..n : s[b] = "begin" /\ \A k \in (b + 1)..n : s[k] # "end"
      BY <2>2 DEF InBlock
    <3>2. b \in 1..(n + 1) /\ \A k \in (b + 1)..(n + 1) : k \in (b + 1)..n \/ k = n + 1
      BY <1>0
    <3> QED BY <1>4, <3>1, <3>2 DEF InBlock
  <2> QED BY <2>1, <2>2
<1>5. \A i : i \in Outside(s, n + 1) <=> \/ i \in Outside(s, n)
                                         \/ i = n + 1 /\ s[n + 1] \notin {"begin", "end"} /\ ~InBlock(s, n)
  BY <1>0 DEF Outside
<1>6. CASE s[n + 1] \notin {"begin", "end"} /\ ~InBlock(s, n)
  <2>1. \A i : i \in Outside(s, n + 1) <=> i \in Outside(s, n) \cup {n + 1}
    BY <1>5, <1>6
  <2>2. Outside(s, n + 1) = Outside(s, n) \cup {n + 1}
    BY <2>1
  <2> QED BY <1>1, <1>2, <1>3, <1>4, <1>6, <2>2
<1>7. CASE ~(s[n + 1] \notin {"begin", "end"} /\ ~InBlock(s, n))
  <2>1. \A i : i \in Outside(s, n + 1) <=> i \in Outside(s, n)
    BY <1>5, <1>7
  <2>2. Outside(s, n + 1) = Outside(s, n)
    BY <2>1
  <2> QED BY <1>1, <1>2, <1>3, <1>4, <1>7, <2>2
<1> QED BY <1>6, <1>7

\* How many lines are outside: a number, and one more with each of them.
LEMMA OutsideCounts ==
  ASSUME NEW s \in Seq(Line)
  PROVE  \A n \in Nat :
           /\ IsFiniteSet(Outside(s, n)) /\ Cardinality(Outside(s, n)) \in Nat
           /\ n + 1 \in Outside(s, n + 1) => Cardinality(Outside(s, n + 1)) = Cardinality(Outside(s, n)) + 1
           /\ \A i \in Outside(s, n) : Outside(s, i) \subseteq Outside(s, n) /\ i \in Outside(s, i)
<1> TAKE n \in Nat
<1>1. IsFiniteSet(Outside(s, n)) /\ Cardinality(Outside(s, n)) \in Nat
  <2>1. IsFiniteSet(1..n)
    BY FS_Interval
  <2>2. Outside(s, n) \subseteq 1..n
    BY DEF Outside
  <2> QED BY <2>1, <2>2, FS_Subset, FS_CardinalityType
<1>2. ASSUME n + 1 \in Outside(s, n + 1)
      PROVE  Cardinality(Outside(s, n + 1)) = Cardinality(Outside(s, n)) + 1
  <2>1. n + 1 \notin Outside(s, n)
    BY DEF Outside
  <2>2. Outside(s, n + 1) = Outside(s, n) \cup {n + 1}
    BY <1>2, <2>1, BlockFacts
  <2> QED BY <1>1, <2>1, <2>2, FS_AddElement
<1>3. \A i \in Outside(s, n) : Outside(s, i) \subseteq Outside(s, n) /\ i \in Outside(s, i)
  BY DEF Outside
<1> QED BY <1>1, <1>2, <1>3

\* A scan keeps the lines outside the blocks, in order, and nothing else.
LEMMA ScanKeeps ==
  ASSUME NEW s \in Seq(Line)
  PROVE  /\ Len(Scan(s).kept) = Cardinality(Outside(s, Len(s)))
         /\ \A i \in Outside(s, Len(s)) :
              /\ Cardinality(Outside(s, i)) \in 1..Len(Scan(s).kept)
              /\ Scan(s).kept[Cardinality(Outside(s, i))] = s[i]
<1> DEFINE Good(n) ==
             LET a == Scan(First(s, n))
             IN /\ a.owned <=> InBlock(s, n)
                /\ Len(a.kept) = Cardinality(Outside(s, n))
                /\ \A i \in Outside(s, n) : /\ Cardinality(Outside(s, i)) \in 1..Len(a.kept)
                                            /\ a.kept[Cardinality(Outside(s, i))] = s[i]
           N == {n \in Nat : n <= Len(s) => Good(n)}
<1>1. Len(s) \in Nat
  BY FirstFacts
<1>2. 0 \in N
  <2>1. Scan(First(s, 0)) = Nothing
    BY FirstFacts, ScanLaws
  <2>2. ~InBlock(s, 0) /\ Outside(s, 0) = {}
    BY BlockFacts
  <2>3. Cardinality({}) = 0 /\ Len(<<>>) = 0
    BY FS_EmptySet, EmptySeq
  <2> QED BY <2>1, <2>2, <2>3 DEF Nothing
<1>3. ASSUME NEW n \in N PROVE n + 1 \in N
  <2>0. n \in Nat /\ n + 1 \in Nat
    OBVIOUS
  <2> SUFFICES ASSUME n + 1 <= Len(s) PROVE Good(n + 1)
    BY <2>0
  <2>1. n \in 0..(Len(s) - 1) /\ n \in 0..Len(s) /\ n + 1 \in 1..Len(s) /\ Good(n)
    BY <1>1, <2>0
  <2> DEFINE a == Scan(First(s, n))
             c == Scan(First(s, n + 1))
             l == s[n + 1]
  <2>2. a \in State /\ l \in Line /\ c = Scanned(a, l)
    BY <2>1, FirstFacts, ScanState
  <2>3. /\ a.owned <=> InBlock(s, n)
        /\ Len(a.kept) = Cardinality(Outside(s, n))
        /\ \A i \in Outside(s, n) : /\ Cardinality(Outside(s, i)) \in 1..Len(a.kept)
                                    /\ a.kept[Cardinality(Outside(s, i))] = s[i]
    BY <2>1
  <2> SUFFICES /\ c.owned <=> InBlock(s, n + 1)
               /\ Len(c.kept) = Cardinality(Outside(s, n + 1))
               /\ \A i \in Outside(s, n + 1) : /\ Cardinality(Outside(s, i)) \in 1..Len(c.kept)
                                               /\ c.kept[Cardinality(Outside(s, i))] = s[i]
    OBVIOUS
  <2> HIDE DEF a, c, Good
  <2>4. CASE l \in {"begin", "end"}
    <3>1. c.kept = a.kept /\ (c.owned <=> l = "begin")
      BY <2>2, <2>4, ScannedFacts
    <3>2. Outside(s, n + 1) = Outside(s, n) /\ (InBlock(s, n + 1) <=> l = "begin")
      BY <2>0, <2>4, BlockFacts
    <3> QED BY <2>3, <3>1, <3>2
  <2>5. CASE l \notin {"begin", "end"} /\ a.owned
    <3>1. c.kept = a.kept /\ c.owned
      BY <2>2, <2>5, ScannedFacts DEF Other
    <3>2. Outside(s, n + 1) = Outside(s, n) /\ InBlock(s, n + 1)
      BY <2>0, <2>3, <2>5, BlockFacts
    <3> QED BY <2>3, <3>1, <3>2
  <2>6. CASE l \notin {"begin", "end"} /\ ~a.owned
    <3>1. c.kept = Append(a.kept, l) /\ ~c.owned /\ a.kept \in Seq(Other) /\ l \in Other
      <4>1. l \in Other
        BY <2>2, <2>6 DEF Other
      <4>2. a.kept \in Seq(Other)
        BY <2>2 DEF State
      <4>3. c.kept = Append(a.kept, l) /\ c.owned = a.owned
        BY <2>2, <2>6, <4>1, ScannedFacts
      <4> QED BY <2>6, <4>1, <4>2, <4>3
    <3>2. Outside(s, n + 1) = Outside(s, n) \cup {n + 1} /\ ~InBlock(s, n + 1)
      BY <2>0, <2>3, <2>6, BlockFacts
    <3>3. Len(a.kept) \in Nat /\ Cardinality(Outside(s, n + 1)) = Len(a.kept) + 1
      BY <2>0, <2>3, <3>2, OutsideCounts
    <3>4. /\ Len(c.kept) = Len(a.kept) + 1 /\ c.kept[Len(a.kept) + 1] = l
          /\ \A k \in 1..Len(a.kept) : c.kept[k] = a.kept[k]
      BY <3>1, AppendProperties
    <3>5. ASSUME NEW i \in Outside(s, n + 1)
          PROVE  Cardinality(Outside(s, i)) \in 1..Len(c.kept) /\ c.kept[Cardinality(Outside(s, i))] = s[i]
      <4>1. CASE i = n + 1
        BY <3>3, <3>4, <4>1
      <4>2. CASE i \in Outside(s, n)
        <5>1. Cardinality(Outside(s, i)) \in 1..Len(a.kept) /\ a.kept[Cardinality(Outside(s, i))] = s[i]
          BY <2>3, <4>2
        <5> QED BY <3>3, <3>4, <5>1
      <4> QED BY <3>2, <4>1, <4>2
    <3> QED BY <3>1, <3>2, <3>3, <3>4, <3>5
  <2> QED BY <2>4, <2>5, <2>6
<1>4. N = Nat
  <2>1. N \in SUBSET Nat
    OBVIOUS
  <2> HIDE DEF N
  <2> QED BY <1>2, <1>3, <2>1, Induction
<1>5. Good(Len(s))
  BY <1>1, <1>4
<1> QED BY <1>5, FirstFacts

-----------------------------------------------------------------------------
(* Installations *)

CronInv ==
  /\ crontab \in Seq(Line)
  /\ install \in [pc : {"idle", "read"}, seen : Seq(Line)]

\* What is installed is what the scan keeps, and one block behind it.
LEMMA CronTextFacts ==
  ASSUME NEW s \in Seq(Line)
  PROVE  /\ CronText(s) \in Seq(Line) /\ Len(Scan(s).kept) \in Nat
         /\ Len(CronText(s)) = Len(Scan(s).kept) + 3
         /\ \A i \in 1..Len(Scan(s).kept) : CronText(s)[i] = Scan(s).kept[i]
         /\ CronText(s)[Len(Scan(s).kept) + 1] = "begin"
         /\ CronText(s)[Len(Scan(s).kept) + 2] = "job"
         /\ CronText(s)[Len(Scan(s).kept) + 3] = "end"
<1> DEFINE a == Scan(s).kept
           n == Len(a)
           t == CronText(s)
<1>1. a \in Seq(Other)
  <2>1. Scan(First(s, Len(s))) \in State
    <3>1. Len(s) \in 0..Len(s)
      BY FirstFacts
    <3> QED BY <3>1, ScanState
  <2>2. Scan(s) \in State
    BY <2>1, FirstFacts
  <2> QED BY <2>2 DEF State
<1>2. a \in Seq(Line)
  <2>1. Other \subseteq Line
    BY DEF Other
  <2> QED BY <1>1, <2>1, SeqMonotonic
<1>3. n \in Nat /\ \A i \in 1..n : a[i] \in Other
  BY <1>1, ElementOfSeq, LenProperties
<1>4. "begin" \in Line /\ "job" \in Line /\ "end" \in Line
  BY DEF Line
<1> DEFINE b == Append(a, "begin")
           j == Append(b, "job")
           e == Append(j, "end")
<1> HIDE DEF a, n
<1>5. b \in Seq(Line) /\ Len(b) = n + 1 /\ (\A i \in 1..n : b[i] = a[i]) /\ b[n + 1] = "begin"
  BY <1>2, <1>4, AppendProperties DEF n
<1> HIDE DEF b
<1>6. j \in Seq(Line) /\ Len(j) = n + 2 /\ (\A i \in 1..(n + 1) : j[i] = b[i]) /\ j[n + 2] = "job"
  <2>1. n + 1 + 1 = n + 2
    BY <1>3
  <2> QED BY <1>4, <1>5, <2>1, AppendProperties
<1> HIDE DEF j
<1>7. e \in Seq(Line) /\ Len(e) = n + 3 /\ (\A i \in 1..(n + 2) : e[i] = j[i]) /\ e[n + 3] = "end"
  <2>1. n + 2 + 1 = n + 3
    BY <1>3
  <2> QED BY <1>4, <1>6, <2>1, AppendProperties
<1> HIDE DEF e
<1>8. (\A i \in 1..n : e[i] = a[i]) /\ e[n + 1] = "begin" /\ e[n + 2] = "job" /\ e[n + 3] = "end"
  BY <1>3, <1>5, <1>6, <1>7
<1>9. t = e
  <2> DEFINE block == <<"begin", "job", "end">>
  <2>1. block \in Seq(Line) /\ Len(block) = 3 /\ block[1] = "begin" /\ block[2] = "job" /\ block[3] = "end"
    BY <1>4
  <2> HIDE DEF block
  <2>2. t = a \o block
    BY DEF CronText, block, a
  <2> HIDE DEF t
  <2>3. t \in Seq(Line) /\ Len(t) = n + 3 /\ \A i \in 1..(n + 3) : t[i] = IF i <= n THEN a[i] ELSE block[i - n]
    <3>1. /\ a \o block \in Seq(Line) /\ Len(a \o block) = Len(a) + Len(block)
          /\ \A i \in 1..(Len(a) + Len(block)) : (a \o block)[i] = IF i <= Len(a) THEN a[i] ELSE block[i - Len(a)]
      BY <1>2, <2>1, ConcatProperties
    <3> QED BY <2>1, <2>2, <3>1 DEF n
  <2>4. \A i \in 1..(n + 3) : t[i] = e[i]
    <3> SUFFICES ASSUME NEW i \in 1..(n + 3) PROVE t[i] = e[i]
      OBVIOUS
    <3>1. i \in 1..n \/ i = n + 1 \/ i = n + 2 \/ i = n + 3
      BY <1>3
    <3>2. CASE i \in 1..n
      BY <1>3, <1>8, <2>3, <3>2
    <3>3. CASE i = n + 1
      <4>1. ~(i <= n) /\ i - n = 1
        BY <1>3, <3>3
      <4> QED BY <1>8, <2>1, <2>3, <3>3, <4>1
    <3>4. CASE i = n + 2
      <4>1. ~(i <= n) /\ i - n = 2
        BY <1>3, <3>4
      <4> QED BY <1>8, <2>1, <2>3, <3>4, <4>1
    <3>5. CASE i = n + 3
      <4>1. ~(i <= n) /\ i - n = 3
        BY <1>3, <3>5
      <4> QED BY <1>8, <2>1, <2>3, <3>5, <4>1
    <3> QED BY <3>1, <3>2, <3>3, <3>4, <3>5
  <2> QED BY <1>7, <2>3, <2>4, SeqEqual
<1> HIDE DEF t
<1> QED BY <1>3, <1>7, <1>8, <1>9 DEF t, a, n

\* A line comes, or goes.
LEMMA EditFacts ==
  ASSUME NEW s \in Seq(Line)
  PROVE  /\ \A l \in Line, i \in 1..(Len(s) + 1) : InsertAt(s, i, l) \in Seq(Line)
         /\ \A i \in DOMAIN s : RemoveAt(s, i) \in Seq(Line)
<1>1. Len(s) \in Nat /\ DOMAIN s = 1..Len(s) /\ \A k \in 1..Len(s) : s[k] \in Line
  BY FirstFacts, LenProperties
<1>2. ASSUME NEW m \in Int, NEW n \in Int, 1 <= m, n <= Len(s)
      PROVE  SubSeq(s, m, n) \in Seq(Line)
  <2>1. \A k \in m..n : s[k] \in Line
    BY <1>1, <1>2
  <2> QED BY <2>1, SubSeqProperties
<1>3. ASSUME NEW l \in Line, NEW i \in 1..(Len(s) + 1) PROVE InsertAt(s, i, l) \in Seq(Line)
  <2>1. SubSeq(s, 1, i - 1) \in Seq(Line) /\ SubSeq(s, i, Len(s)) \in Seq(Line) /\ <<l>> \in Seq(Line)
    BY <1>1, <1>2
  <2> QED BY <2>1, ConcatProperties DEF InsertAt
<1>4. ASSUME NEW i \in DOMAIN s PROVE RemoveAt(s, i) \in Seq(Line)
  <2>1. SubSeq(s, 1, i - 1) \in Seq(Line) /\ SubSeq(s, i + 1, Len(s)) \in Seq(Line)
    BY <1>1, <1>2
  <2> QED BY <2>1, ConcatProperties DEF RemoveAt
<1> QED BY <1>3, <1>4

\* The steps that leave the crontab alone.
LEMMA CronStays ==
  ASSUME [Next]_vars, ~InstallReads, ~InstallWrites, ~EditsCrontab
  PROVE  crontab' = crontab /\ install' = install
<1>1. CASE \E u \in Upload : Uploaded(u) \/ Purged(u)
  BY <1>1 DEF Uploaded, Purged, cron
<1>2. CASE \E r \in Run : Starts(r) \/ Killed(r) \/ PutsNote(r)
  BY <1>2 DEF Starts, Killed, PutsNote, cron
<1>3. ASSUME NEW r \in Run, Step(r) PROVE crontab' = crontab /\ install' = install
  <2>1. CASE \/ TakesSnapshot(r) \/ Dumps(r) \/ SyncsDump(r) \/ CopiesUploads(r) \/ SyncsUploads(r)
             \/ \E u \in Upload : CopiesUpload(r, u)
    BY <2>1 DEF TakesSnapshot, Dumps, SyncsDump, CopiesUploads, SyncsUploads, CopiesUpload, cron
  <2>2. CASE \/ ChecksArchive(r) \/ CreatesDatabase(r) \/ DropsDatabase(r)
             \/ WritesManifest(r) \/ WritesMarker(r) \/ SyncsPrivate(r)
    BY <2>2 DEF ChecksArchive, CreatesDatabase, DropsDatabase, WritesManifest, WritesMarker, SyncsPrivate, cron
  <2>3. CASE Publishes(r) \/ SyncsRoot(r) \/ Fails(r) \/ FailsAfterRename(r)
    BY <2>3 DEF Publishes, SyncsRoot, Fails, FailsAfterRename, cron
  <2>4. CASE ListsBackups(r) \/ ChoosesVictim(r) \/ Unlinks(r) \/ RemovesDirectory(r) \/ RetentionStops(r)
    BY <2>4 DEF ListsBackups, ChoosesVictim, Unlinks, RemovesDirectory, RetentionStops, cron
  <2> QED BY <1>3, <2>1, <2>2, <2>3, <2>4 DEF Step
<1>4. CASE PowerLoss
  BY <1>4 DEF PowerLoss, cron
<1>5. CASE UNCHANGED vars
  BY <1>5 DEF vars
<1> QED BY <1>1, <1>2, <1>3, <1>4, <1>5 DEF Next

\* Every step keeps the invariant of the crontab.
LEMMA CronStep == ASSUME CronInv, [Next]_vars PROVE CronInv'
<1>1. CASE InstallReads
  BY <1>1 DEF InstallReads, CronInv
<1>2. CASE InstallWrites
  <2>1. <<>> \in Seq(Line)
    BY EmptySeq
  <2>2. crontab' = CronText(install.seen) /\ install' = [pc |-> "idle", seen |-> <<>>]
    BY <1>2 DEF InstallWrites
  <2> QED BY <2>1, <2>2, CronTextFacts DEF CronInv
<1>3. CASE EditsCrontab
  <2>1. install' = install
    BY <1>3 DEF EditsCrontab
  <2>2. \/ \E l \in Lines, i \in 1..(Len(crontab) + 1) : crontab' = InsertAt(crontab, i, l)
        \/ \E i \in DOMAIN crontab : crontab' = RemoveAt(crontab, i)
    BY <1>3 DEF EditsCrontab
  <2>3. Lines \subseteq Line
    BY DEF Line
  <2> QED BY <2>1, <2>2, <2>3, EditFacts DEF CronInv
<1>4. CASE ~InstallReads /\ ~InstallWrites /\ ~EditsCrontab
  BY <1>4, CronStays DEF CronInv
<1> QED BY <1>1, <1>2, <1>3, <1>4

\* Wherever a person adds and deletes lines, also in the block and while an
\* installation is at work, and whatever else goes on: an installation keeps
\* the lines it has read outside the block, in their order, loses those inside,
\* and puts one block behind them (backup-runtime.py:425).
THEOREM Schedule == Spec => ScheduleKeepsLines
<1>1. Init => CronInv
  <2> SUFFICES ASSUME Init PROVE CronInv
    OBVIOUS
  <2>1. crontab = <<>> /\ install = [pc |-> "idle", seen |-> <<>>]
    BY DEF Init
  <2> QED BY <2>1, EmptySeq DEF CronInv
<1>2. CronInv /\ [Next]_vars => CronInv'
  BY CronStep
<1>3. CronInv /\ [Next]_vars =>
        [install.pc = "read" /\ install'.pc = "idle" =>
           LET s == install.seen
               n == Cardinality(Outside(s, Len(s)))
           IN /\ Len(crontab') = n + 3
              /\ \A i \in Outside(s, Len(s)) : crontab'[Cardinality(Outside(s, i))] = s[i]
              /\ crontab'[n + 1] = "begin" /\ crontab'[n + 2] = "job" /\ crontab'[n + 3] = "end"]_vars
  <2> SUFFICES ASSUME CronInv, [Next]_vars, install.pc = "read", install'.pc = "idle"
               PROVE  LET s == install.seen
                          n == Cardinality(Outside(s, Len(s)))
                      IN /\ Len(crontab') = n + 3
                         /\ \A i \in Outside(s, Len(s)) : crontab'[Cardinality(Outside(s, i))] = s[i]
                         /\ crontab'[n + 1] = "begin" /\ crontab'[n + 2] = "job" /\ crontab'[n + 3] = "end"
    OBVIOUS
  <2>1. CASE InstallWrites
    <3>1. crontab' = CronText(install.seen) /\ install.seen \in Seq(Line)
      BY <2>1 DEF InstallWrites, CronInv
    <3> DEFINE q == install.seen
               k == Len(Scan(q).kept)
    <3>2. /\ k = Cardinality(Outside(q, Len(q)))
          /\ \A i \in Outside(q, Len(q)) : /\ Cardinality(Outside(q, i)) \in 1..k
                                           /\ Scan(q).kept[Cardinality(Outside(q, i))] = q[i]
      BY <3>1, ScanKeeps
    <3>3. /\ Len(crontab') = k + 3
          /\ \A i \in 1..k : crontab'[i] = Scan(q).kept[i]
          /\ crontab'[k + 1] = "begin" /\ crontab'[k + 2] = "job" /\ crontab'[k + 3] = "end"
      BY <3>1, CronTextFacts
    <3> HIDE DEF k
    <3> QED BY <3>2, <3>3
  <2>2. CASE InstallReads
    BY <2>2 DEF InstallReads
  <2>3. CASE EditsCrontab
    BY <2>3 DEF EditsCrontab
  <2> QED BY <2>1, <2>2, <2>3, CronStays
<1> QED BY <1>1, <1>2, <1>3, PTL DEF Spec, ScheduleKeepsLines
=============================================================================
