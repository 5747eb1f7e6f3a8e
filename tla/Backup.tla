------------------------------- MODULE Backup -------------------------------
(***************************************************************************)
(* scripts/backup-runtime.py: a run dumps the database and copies the      *)
(* source archives its snapshot names into a staging directory, publishes  *)
(* that directory by renaming it, and then removes old backups.  Runs are  *)
(* started by cron and by hand and know nothing of each other, the system  *)
(* they back up is in use, and a run can be killed, or the machine lose    *)
(* power, between any two steps.                                           *)
(*                                                                         *)
(* Each run makes one directory, which is named like the run here.         *)
(***************************************************************************)
EXTENDS Naturals, FiniteSets, Sequences, SequencesExt

CONSTANTS
  Run,        \* runs of the script, by the order of their names
  ProjectOf,  \* the Compose project a run is for
  Upload,     \* source archives, by content
  OrderOf,    \* the order in which the process of a run iterates over File
  Time,       \* what the clock may say when a manifest is written
  Keep,       \* --keep
  Restore,    \* the runs with --verify-restore
  MaxAtOnce,  \* bound: runs that work at once; all but one of them remove old backups
  MaxMishaps, \* bound: runs that are killed, and files a person puts into
              \* published backups, before the next of these
  Lines,      \* lines a person has in the crontab
  MaxLines,   \* bound: lines of a crontab that is installed into
  NoRun

File == {"dump", "uploads", "manifest", "COMPLETE"}

ASSUME BackupAssumption ==
  /\ Run \subseteq Nat /\ IsFiniteSet(Run) /\ NoRun \notin Run
  /\ DOMAIN ProjectOf = Run
  /\ OrderOf \in [Run -> Seq(File)] /\ \A r \in Run : Range(OrderOf[r]) = File /\ Len(OrderOf[r]) = 4
  /\ Time \subseteq Nat
  /\ Keep \in Nat \ {0} /\ Restore \subseteq Run /\ MaxAtOnce \in Nat /\ MaxMishaps \in Nat /\ MaxLines \in Nat
  /\ {"begin", "end", "job"} \cap Lines = {}

VARIABLES
  rows,      \* uploads the database has a row for
  archive,   \* uploads whose archive is in the volume, undamaged
  pc,        \* what each run does next
  place,     \* its directory: "none", "staging", "renamed", "published", "gone"
  file,      \* the files in it: "absent", "torn", "cached", or on disk: "whole"
  snap,      \* uploads the snapshot names
  dump,      \* rows the dump has
  copied,    \* archives copied
  stamp,     \* created_at
  tempdb,    \* verification databases
  notes,     \* directories a person has put a file into
  victims,   \* what a retention still has to remove, what it removes now,
             \* and the next file of that
  crontab, install,  \* the lines, and those an installation has read
  raced      \* history: another run, or a note, came between a run's steps

data    == <<snap, dump, copied, stamp>>
system  == <<rows, archive>>
cron    == <<crontab, install>>
vars    == <<rows, archive, pc, place, file, snap, dump, copied, stamp, tempdb, notes, victims,
             crontab, install, raced>>

Ended     == {"idle", "done", "failed", "killed"}
Retaining == {"list", "choose", "unlink"}
Working(r) == pc[r] \notin Ended
NoFiles   == [f \in File |-> "absent"]
NoVictims == [rest |-> {}, now |-> NoRun, next |-> 1]

Init ==
  /\ rows = Upload /\ archive = Upload
  /\ pc = [r \in Run |-> "idle"]
  /\ place = [r \in Run |-> "none"]
  /\ file = [r \in Run |-> NoFiles]
  /\ snap = [r \in Run |-> {}] /\ dump = snap /\ copied = snap
  /\ stamp = [r \in Run |-> 0]
  /\ tempdb = {} /\ notes = {}
  /\ victims = [r \in Run |-> NoVictims]
  /\ crontab = <<>> /\ install = [pc |-> "idle", seen |-> <<>>]
  /\ raced = FALSE

Go(r, next) == pc' = [pc EXCEPT ![r] = next]

-----------------------------------------------------------------------------
(* The system in use *)

\* Bound: uploads come and go only while a run may still look at them.
Looked == \E r \in Run : pc[r] \in {"snapshot", "dump", "uploads"}

Uploaded(u) ==
  /\ Looked /\ u \notin rows
  /\ rows' = rows \cup {u} /\ archive' = archive \cup {u}
  /\ UNCHANGED <<pc, place, file, data, tempdb, notes, victims, cron, raced>>

\* A purge removes the archive before the row.
Purged(u) ==
  /\ Looked /\ u \in rows
  /\ IF u \in archive THEN archive' = archive \ {u} /\ rows' = rows
     ELSE rows' = rows \ {u} /\ archive' = archive
  /\ UNCHANGED <<pc, place, file, data, tempdb, notes, victims, cron, raced>>

-----------------------------------------------------------------------------
(* create_backup, before the new backup is published *)

\* Bound: the crontab and the runs share nothing, and are looked at apart.
Quiet    == \A r \in Run : pc[r] = "idle"
CronIdle == crontab = <<>> /\ install.pc = "idle"

\* Names begin with the second a run starts in.
Starts(r) ==
  /\ \A s \in Run : s < r => pc[s] # "idle"
  /\ CronIdle /\ pc[r] = "idle" /\ Cardinality({s \in Run : Working(s)}) < MaxAtOnce
  /\ \A s \in Run : Working(s) => pc[s] \in Retaining
  /\ Go(r, "snapshot")
  /\ place' = [place EXCEPT ![r] = "staging"]
  /\ raced' = (raced \/ \E s \in Run : Working(s))
  /\ UNCHANGED <<system, file, data, tempdb, notes, victims, cron>>

\* The session of the snapshot stays open until the dump is there.
TakesSnapshot(r) ==
  /\ pc[r] = "snapshot"
  /\ snap' = [snap EXCEPT ![r] = rows]
  /\ Go(r, "dump")
  /\ UNCHANGED <<system, place, file, dump, copied, stamp, tempdb, notes, victims, cron, raced>>

\* A file is written, then synced.
Written(r, f) ==
  /\ pc[r] = f /\ file[r][f] = "absent"
  /\ file' = [file EXCEPT ![r][f] = "cached"]

Synced(r, f, next) ==
  /\ pc[r] = f /\ file[r][f] = "cached"
  /\ file' = [file EXCEPT ![r][f] = "whole"]
  /\ Go(r, next)

\* Mutant: pg_dump takes a snapshot of its own.
DumpsNow(r) ==
  /\ Written(r, "dump")
  /\ dump' = [dump EXCEPT ![r] = rows]
  /\ UNCHANGED <<system, pc, place, snap, copied, stamp, tempdb, notes, victims, cron, raced>>
Dumps(r) ==
  /\ Written(r, "dump")
  /\ dump' = [dump EXCEPT ![r] = snap[r]]
  /\ UNCHANGED <<system, pc, place, snap, copied, stamp, tempdb, notes, victims, cron, raced>>

\* Mutant: no fsync.
SyncsDumpLater(r) ==
  /\ pc[r] = "dump" /\ file[r]["dump"] = "cached"
  /\ Go(r, "uploads")
  /\ UNCHANGED <<system, place, file, data, tempdb, notes, victims, cron, raced>>
SyncsDump(r) ==
  /\ Synced(r, "dump", "uploads")
  /\ UNCHANGED <<system, place, data, tempdb, notes, victims, cron, raced>>

\* UPLOAD_PROGRAM hashes each archive while it copies it; the archive is
\* there and undamaged, or the program exits.
CopiesUpload(r, u) ==
  /\ pc[r] = "uploads" /\ file[r]["uploads"] = "absent"
  /\ u \in (snap[r] \ copied[r]) \cap archive
  /\ copied' = [copied EXCEPT ![r] = @ \cup {u}]
  /\ UNCHANGED <<system, pc, place, file, snap, dump, stamp, tempdb, notes, victims, cron, raced>>

CopiesUploads(r) ==
  /\ copied[r] = snap[r]
  /\ Written(r, "uploads")
  /\ UNCHANGED <<system, pc, place, data, tempdb, notes, victims, cron, raced>>

SyncsUploads(r) ==
  /\ Synced(r, "uploads", "check")
  /\ UNCHANGED <<system, place, data, tempdb, notes, victims, cron, raced>>

\* verify_upload_archive: one entry for each upload of the snapshot.
ChecksArchive(r) ==
  /\ pc[r] = "check" /\ copied[r] = snap[r]
  /\ Go(r, IF r \in Restore THEN "create" ELSE "manifest")
  /\ UNCHANGED <<system, place, file, data, tempdb, notes, victims, cron, raced>>

\* verify_restore, with a database of its own, which is dropped whatever
\* comes out.
CreatesDatabase(r) ==
  /\ pc[r] = "create"
  /\ tempdb' = tempdb \cup {r}
  /\ Go(r, "restore")
  /\ UNCHANGED <<system, place, file, data, notes, victims, cron, raced>>

DropsDatabase(r) ==
  /\ pc[r] = "restore" /\ dump[r] = snap[r]
  /\ tempdb' = tempdb \ {r}
  /\ Go(r, "manifest")
  /\ UNCHANGED <<system, place, file, data, notes, victims, cron, raced>>

WritesManifest(r) ==
  /\ Written(r, "manifest")
  /\ \E t \in Time : stamp' = [stamp EXCEPT ![r] = t]
  /\ UNCHANGED <<system, pc, place, snap, dump, copied, tempdb, notes, victims, cron, raced>>

WritesMarker(r) ==
  /\ Written(r, "COMPLETE")
  /\ UNCHANGED <<system, pc, place, data, tempdb, notes, victims, cron, raced>>

SyncsPrivate(r) ==
  /\ Synced(r, "manifest", "COMPLETE") \/ Synced(r, "COMPLETE", "rename")
  /\ UNCHANGED <<system, place, data, tempdb, notes, victims, cron, raced>>

Publishes(r) ==
  /\ pc[r] = "rename"
  /\ place' = [place EXCEPT ![r] = "renamed"]
  /\ Go(r, "sync")
  /\ UNCHANGED <<system, file, data, tempdb, notes, victims, cron, raced>>

SyncsRoot(r) ==
  /\ pc[r] = "sync"
  /\ place' = [place EXCEPT ![r] = IF @ = "gone" THEN @ ELSE "published"]
  /\ Go(r, "list")
  /\ UNCHANGED <<system, file, data, tempdb, notes, victims, cron, raced>>

\* Only the sync is missing: the backup is there, the run reports an error.
FailsAfterRename(r) ==
  /\ pc[r] = "sync"
  /\ Go(r, "failed")
  /\ UNCHANGED <<system, place, file, data, tempdb, notes, victims, cron, raced>>

\* Mutant: the staging directory is left where it is.
FailsUntidily(r) ==
  /\ Working(r) /\ place[r] = "staging"
  /\ Go(r, "failed")
  /\ tempdb' = tempdb \ {r}
  /\ UNCHANGED <<system, place, file, data, notes, victims, cron, raced>>

\* What was in the directory of r is gone.
Forget(r) ==
  /\ snap' = [snap EXCEPT ![r] = {}] /\ dump' = [dump EXCEPT ![r] = {}]
  /\ copied' = [copied EXCEPT ![r] = {}] /\ stamp' = [stamp EXCEPT ![r] = 0]

\* Any step before the rename raises: a command of the runtime fails or takes
\* too long, an archive is missing.  The verification database is dropped if
\* that works, the staging directory removed, the old backups stay.
Fails(r) ==
  /\ Working(r) /\ place[r] = "staging"
  /\ Go(r, "failed")
  /\ place' = [place EXCEPT ![r] = "gone"]
  /\ file' = [file EXCEPT ![r] = NoFiles]
  /\ tempdb' \in {tempdb, tempdb \ {r}}
  /\ Forget(r)
  /\ UNCHANGED <<system, notes, victims, cron, raced>>

-----------------------------------------------------------------------------
(* retain_backups *)

\* managed_backup: exactly the four files, a marker with the hash of the
\* manifest, a manifest of this project.
Managed(p) ==
  {d \in Run : /\ place[d] \in {"renamed", "published"} /\ d \notin notes
               /\ \A f \in File : file[d][f] # "absent"
               /\ file[d]["manifest"] # "torn" /\ file[d]["COMPLETE"] # "torn"
               /\ ProjectOf[d] = p}

\* Mutant: the oldest are kept.
AheadReversed(r, d, e) == d # e /\ (stamp[d] < stamp[e] \/ (stamp[d] = stamp[e] /\ d < e))

\* d is kept before e: the run's own backup first, then by created_at and name.
Ahead(r, d, e) ==
  /\ d # e /\ e # r
  /\ d = r \/ stamp[d] > stamp[e] \/ (stamp[d] = stamp[e] /\ d > e)

ListsBackups(r) ==
  /\ pc[r] = "list"
  /\ LET all == Managed(ProjectOf[r])
     IN victims' = [victims EXCEPT ![r].rest =
                      {e \in all : Cardinality({d \in all : Ahead(r, d, e)}) >= Keep}]
  /\ Go(r, "choose")
  /\ UNCHANGED <<system, place, file, data, tempdb, notes, cron, raced>>

\* The next one, looked at again.
ChoosesVictim(r) ==
  /\ pc[r] = "choose"
  /\ IF victims[r].rest = {} THEN Go(r, "done") /\ UNCHANGED victims
     ELSE \E v \in victims[r].rest :
       /\ \A w \in victims[r].rest : ~Ahead(r, w, v)
       /\ victims' = [victims EXCEPT ![r] =
            IF v \in Managed(ProjectOf[r]) THEN [rest |-> @.rest \ {v}, now |-> v, next |-> 1]
            ELSE [NoVictims EXCEPT !.rest = victims[r].rest \ {v}]]
       /\ Go(r, IF v \in Managed(ProjectOf[r]) THEN "unlink" ELSE "choose")
  /\ UNCHANGED <<system, place, file, data, tempdb, notes, cron, raced>>

\* File by file; BACKUP_FILES is a frozenset, so any of them may be last.
Unlinks(r) ==
  LET v == victims[r].now
      f == OrderOf[r][victims[r].next]
  IN /\ pc[r] = "unlink" /\ victims[r].next <= 4 /\ file[v][f] # "absent"
     /\ file' = [file EXCEPT ![v][f] = "absent"]
     /\ victims' = [victims EXCEPT ![r].next = @ + 1]
     /\ UNCHANGED <<system, pc, place, data, tempdb, notes, cron, raced>>

\* Mutant: the last file is forgotten.
RemovesDirectoryEarly(r) ==
  LET v == victims[r].now
  IN /\ pc[r] = "unlink" /\ victims[r].next > 3 /\ place[v] # "gone" /\ v \notin notes
     /\ place' = [place EXCEPT ![v] = "gone"]
     /\ victims' = [victims EXCEPT ![r].now = NoRun]
     /\ Go(r, "choose")
     /\ Forget(v)
     /\ UNCHANGED <<system, file, tempdb, notes, cron, raced>>

RemovesDirectory(r) ==
  LET v == victims[r].now
  IN /\ pc[r] = "unlink" /\ victims[r].next > 4 /\ place[v] # "gone" /\ v \notin notes
     /\ place' = [place EXCEPT ![v] = "gone"]
     /\ victims' = [victims EXCEPT ![r].now = NoRun]
     /\ Go(r, "choose")
     /\ Forget(v)
     /\ UNCHANGED <<system, file, tempdb, notes, cron, raced>>

\* A file or the directory is gone already, or the directory is not empty: the
\* removal ends here, the new backup stands.
RetentionStops(r) ==
  LET v == victims[r].now
  IN /\ pc[r] = "unlink"
     /\ IF victims[r].next <= 4 THEN file[v][OrderOf[r][victims[r].next]] = "absent"
        ELSE place[v] = "gone" \/ v \in notes
     /\ Go(r, "done")
     /\ victims' = [victims EXCEPT ![r] = NoVictims]
     /\ UNCHANGED <<system, place, file, data, tempdb, notes, cron, raced>>

-----------------------------------------------------------------------------
(* What happens to runs and backups *)

\* Nobody looks into a staging directory that was left: what is in it, and
\* what the run was about to do, is not kept track of.
Abandoned(left) ==
  /\ snap' = [r \in Run |-> IF r \in left THEN {} ELSE snap[r]]
  /\ dump' = [r \in Run |-> IF r \in left THEN {} ELSE dump[r]]
  /\ copied' = [r \in Run |-> IF r \in left THEN {} ELSE copied[r]]
  /\ stamp' = [r \in Run |-> IF r \in left THEN 0 ELSE stamp[r]]

\* Bound: what runs and backups meet.
MishapMayCome == Cardinality({r \in Run : pc[r] = "killed"}) + Cardinality(notes) < MaxMishaps

Killed(r) ==
  /\ MishapMayCome /\ Working(r)
  /\ Go(r, "killed")
  /\ LET left == {r} \cap {s \in Run : place[s] = "staging"}
     IN /\ Abandoned(left)
        /\ file' = [file EXCEPT ![r] = IF r \in left THEN NoFiles ELSE @]
  /\ victims' = [victims EXCEPT ![r] = NoVictims]
  /\ raced' = (raced \/ \E s \in Run \ {r} : Working(s))
  /\ UNCHANGED <<system, place, tempdb, notes, cron>>

\* What was not synced is lost: the content of files, the rename, also of a
\* run that had failed to sync it.
PowerLoss ==
  /\ MishapMayCome /\ \E r \in Run : Working(r)
  /\ \E back \in SUBSET {r \in Run : place[r] = "renamed"} :
       LET left == back \cup {r \in Run : Working(r) /\ place[r] = "staging"}
       IN /\ place' = [r \in Run |-> IF r \in left THEN "staging"
                                     ELSE IF place[r] = "renamed" THEN "published" ELSE place[r]]
          /\ pc' = [r \in Run |-> IF Working(r) \/ r \in back THEN "killed" ELSE pc[r]]
          /\ file' = [r \in Run |-> IF r \in left THEN NoFiles
                         ELSE [f \in File |-> IF file[r][f] = "cached" THEN "torn" ELSE file[r][f]]]
          /\ Abandoned(left)
  /\ victims' = [r \in Run |-> NoVictims]
  /\ UNCHANGED <<system, tempdb, notes, cron, raced>>

\* A person keeps a file in a backup.
PutsNote(d) ==
  /\ place[d] = "published" /\ d \notin notes /\ MishapMayCome
  /\ \E f \in File : file[d][f] # "absent"
  /\ notes' = notes \cup {d}
  /\ raced' = (raced \/ \E r \in Run : pc[r] \in Retaining)
  /\ UNCHANGED <<system, pc, place, file, data, tempdb, victims, cron>>

-----------------------------------------------------------------------------
(* install_schedule *)

\* The loop over the lines: those before and after the block of this project
\* are kept.
Scanned(acc, line) ==
  CASE line = "begin" -> [acc EXCEPT !.owned = TRUE, !.bad = @ \/ acc.owned]
    [] line = "end"   -> [acc EXCEPT !.owned = FALSE, !.bad = @ \/ ~acc.owned]
    [] OTHER          -> IF acc.owned THEN acc ELSE [acc EXCEPT !.kept = Append(@, line)]
Nothing == [kept |-> <<>>, owned |-> FALSE, bad |-> FALSE]
Scan(lines) == FoldLeft(Scanned, Nothing, lines)
Malformed(lines) == Scan(lines).bad \/ Scan(lines).owned

\* Mutant: the block is appended to what is there.
CronTextAppended(lines) == lines \o <<"begin", "job", "end">>
CronText(lines) == Scan(lines).kept \o <<"begin", "job", "end">>

InstallReads ==
  /\ Quiet /\ install.pc = "idle" /\ ~Malformed(crontab) /\ Len(crontab) <= MaxLines
  /\ install' = [pc |-> "read", seen |-> crontab]
  /\ UNCHANGED <<system, pc, place, file, data, tempdb, notes, victims, crontab, raced>>

InstallWrites ==
  /\ Quiet /\ install.pc = "read"
  /\ crontab' = CronText(install.seen)
  /\ install' = [pc |-> "idle", seen |-> <<>>]
  /\ UNCHANGED <<system, pc, place, file, data, tempdb, notes, victims, raced>>

\* A person adds a line anywhere, or deletes one, inside the block as well as
\* outside, also while an installation is at work.
EditsCrontab ==
  /\ Quiet
  /\ \/ \E l \in Lines, i \in 1..(Len(crontab) + 1) :
          l \notin Range(crontab) /\ crontab' = InsertAt(crontab, i, l)
     \/ \E i \in DOMAIN crontab : crontab' = RemoveAt(crontab, i)
  /\ UNCHANGED <<system, pc, place, file, data, tempdb, notes, victims, install, raced>>

-----------------------------------------------------------------------------
Step(r) ==
  \/ TakesSnapshot(r) \/ Dumps(r) \/ SyncsDump(r) \/ CopiesUploads(r) \/ SyncsUploads(r)
  \/ \E u \in Upload : CopiesUpload(r, u)
  \/ ChecksArchive(r) \/ CreatesDatabase(r) \/ DropsDatabase(r)
  \/ WritesManifest(r) \/ WritesMarker(r) \/ SyncsPrivate(r)
  \/ Publishes(r) \/ SyncsRoot(r) \/ Fails(r) \/ FailsAfterRename(r)
  \/ ListsBackups(r) \/ ChoosesVictim(r) \/ Unlinks(r) \/ RemovesDirectory(r) \/ RetentionStops(r)

Next ==
  \/ \E u \in Upload : Uploaded(u) \/ Purged(u)
  \/ \E r \in Run : Starts(r) \/ Step(r) \/ Killed(r) \/ PutsNote(r)
  \/ PowerLoss
  \/ InstallReads \/ InstallWrites \/ EditsCrontab

Spec == Init /\ [][Next]_vars

-----------------------------------------------------------------------------
(* Properties *)

\* The files a run has finished when it is about to do a step.
Finished ==
  LET both == {"dump", "uploads"}
  IN [snapshot |-> {}, dump |-> {}, uploads |-> {"dump"}, check |-> both, create |-> both, restore |-> both,
      manifest |-> both, COMPLETE |-> both \cup {"manifest"}, rename |-> File]

\* Every variable keeps its type; there are no files but in a directory.
TypeOK ==
  /\ rows \subseteq Upload /\ archive \subseteq Upload
  /\ DOMAIN pc = Run /\ \A r \in Run :
       pc[r] \in Ended \cup Retaining \cup File
                 \cup {"snapshot", "check", "create", "restore", "rename", "sync"}
  /\ place \in [Run -> {"none", "staging", "renamed", "published", "gone"}]
  /\ file \in [Run -> [File -> {"absent", "torn", "cached", "whole"}]]
  /\ \A r \in Run : place[r] \in {"none", "gone"} => file[r] = NoFiles
  /\ snap \in [Run -> SUBSET Upload] /\ dump \in [Run -> SUBSET Upload]
  /\ copied \in [Run -> SUBSET Upload]
  /\ stamp \in [Run -> Time \cup {0}]
  /\ tempdb \subseteq Run /\ notes \subseteq Run
  /\ victims \in [Run -> [rest : SUBSET Run, now : Run \cup {NoRun}, next : 1..5]]
  /\ raced \in BOOLEAN

\* What counts as a backup can be restored: its dump is whole and has exactly
\* the rows whose archives are in it, though uploads come and go while it is
\* made and runs are killed or lose power at any step.
BackupIsRestorable ==
  \A r \in Run : r \in Managed(ProjectOf[r]) =>
    /\ file[r]["dump"] = "whole" /\ file[r]["uploads"] = "whole"
    /\ dump[r] = copied[r]

\* Killed runs alone leave staging directories; a verification database is
\* left by a run that was killed, or that could not drop it and failed.
NoLeftovers ==
  \A r \in Run : /\ pc[r] \in {"done", "failed"} => place[r] # "staging"
                 /\ r \in tempdb => Working(r) \/ pc[r] \in {"failed", "killed"}

\* The directory of a run is where its step says.
PlacesFit ==
  \A r \in Run : /\ pc[r] = "idle" <=> place[r] = "none"
                 /\ pc[r] \in DOMAIN Finished => place[r] = "staging"
                 /\ pc[r] = "sync" => place[r] \in {"renamed", "gone"}
                 /\ pc[r] \in Retaining \cup {"done"} => place[r] \in {"published", "gone"}
                 /\ pc[r] = "failed" => place[r] \in {"renamed", "published", "gone"}
                 /\ r \in tempdb => pc[r] \in {"restore", "failed", "killed"}

\* Files are written one after the other, and each has what the snapshot names.
FilesFit ==
  \A r \in Run :
    /\ pc[r] \in DOMAIN Finished =>
         /\ \A f \in Finished[pc[r]] : file[r][f] = "whole"
         /\ \A f \in File \ Finished[pc[r]] : file[r][f] = "absent" \/ (f = pc[r] /\ file[r][f] = "cached")
         /\ file[r]["dump"] # "absent" => dump[r] = snap[r]
         /\ file[r]["uploads"] # "absent" => copied[r] = snap[r]
    /\ place[r] \in {"renamed", "published"} =>
         /\ \A f \in File : file[r][f] \in {"absent", "whole"}
         /\ dump[r] = copied[r]

\* What a retention removes was published, and the files it is past are gone.
VictimsFit ==
  \A r \in Run : pc[r] = "unlink" =>
    LET v == victims[r].now
    IN /\ v \in Run /\ place[v] \in {"renamed", "published", "gone"}
       /\ \A k \in 1..(victims[r].next - 1) : file[v][OrderOf[r][k]] = "absent"

\* Going is what the retention of r will remove; as long as it is alone, Keep
\* backups that stay are ahead of each of them.
Going(r) == victims[r].rest \cup (IF pc[r] = "unlink" THEN {victims[r].now} ELSE {})
KeepsEnough(r) ==
  /\ \A e \in Going(r) :
       /\ e # r /\ ProjectOf[e] = ProjectOf[r]
       /\ Cardinality({d \in Managed(ProjectOf[r]) \ Going(r) : Ahead(r, d, e)}) >= Keep
  /\ pc[r] = "unlink" => victims[r].now \notin victims[r].rest \cup notes
Alone ==
  /\ \A r, s \in Run : Working(r) /\ Working(s) => r = s
  /\ \A r \in Run : pc[r] \in {"choose", "unlink"} => KeepsEnough(r)

\* Directories, files and databases, in every state.
IInv == /\ TypeOK /\ BackupIsRestorable /\ NoLeftovers
        /\ PlacesFit /\ FilesFit /\ VictimsFit
        /\ ~raced => Alone

\* A backup is removed only when Keep others of its project remain, the newest
\* by their manifests or the run's own, and nothing is unlinked in a directory
\* that somebody has put something into; other runs at the same time aside.
RetentionKeeps ==
  [][~raced' => \A d \in Run : LET p == ProjectOf[d] IN
       /\ d \in Managed(p) /\ d \notin Managed(p)' /\ d \notin notes' /\ place'[d] = place[d] =>
            Cardinality({e \in Managed(p)' : stamp[e] >= stamp[d] \/ Working(e)}) >= Keep
       /\ file[d] # file'[d] /\ place[d] = "published" => d \notin notes]_vars

\* Between the lines n and n + 1 a block is open; of the first n lines, those
\* that are outside the blocks and no markers.
InBlock(s, n) == \E b \in 1..n : s[b] = "begin" /\ \A k \in (b + 1)..n : s[k] # "end"
Outside(s, n) == {i \in 1..n : s[i] \notin {"begin", "end"} /\ ~InBlock(s, i - 1)}

\* An installation keeps every line it has read outside the block, in order,
\* nothing else, and puts one block behind them, whatever lines were added or
\* deleted since the last one (backup-runtime.py:425).
ScheduleKeepsLines ==
  [][install.pc = "read" /\ install'.pc = "idle" =>
       LET s == install.seen
           n == Cardinality(Outside(s, Len(s)))
       IN /\ Len(crontab') = n + 3
          /\ \A i \in Outside(s, Len(s)) : crontab'[Cardinality(Outside(s, i))] = s[i]
          /\ crontab'[n + 1] = "begin" /\ crontab'[n + 2] = "job" /\ crontab'[n + 3] = "end"]_vars

\* Retention preserves at least one completed backup, which is what the check
\* of --keep says it is for (scripts/backup-runtime.py:356).
OneBackupStays ==
  [][\A d \in Run : LET p == ProjectOf[d] IN
       d \in Managed(p) /\ d \notin Managed(p)' /\ d \notin notes' /\ place'[d] = place[d] => Managed(p)' # {}]_vars
=============================================================================
