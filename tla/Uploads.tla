------------------------------ MODULE Uploads ------------------------------
(***************************************************************************)
(* The upload store.  Archives lie in a directory under the digest of      *)
(* their content; rows of analysis_uploads say which asset and project     *)
(* registered which digest.  save_upload adds both, delete_asset with      *)
(* purge removes both, and analysis jobs of the asset read the archive.    *)
(* A row lock on the asset orders requests for one asset; the directory    *)
(* has no lock and is shared by all assets.                                *)
(*                                                                         *)
(* Temporary files, which only their own request can see, and the content  *)
(* of archives are left out.                                               *)
(***************************************************************************)
EXTENDS Naturals

CONSTANTS
  Asset,    \* targets; a deleted id is not used again
  Source,   \* what one row is about: a project name and a digest
  Digest,   \* the SHA-256 of an archive
  Sha,      \* the digest of each source
  Offers,   \* the sources that are ever uploaded for each asset
  Client,   \* requests that are served at the same time
  Faulty,   \* what may fail: "save", "purge", "unlink"
  Free,     \* nobody holds the lock of an asset
  NoSource  \* the asset has no unfinished job on an upload

ASSUME UploadsAssumption ==
  /\ Sha \in [Source -> Digest]
  /\ Offers \in [Asset -> SUBSET Source]
  /\ Free \notin Client
  /\ NoSource \notin Source
  /\ Faulty \subseteq {"save", "purge", "unlink"}

VARIABLES
  exists,   \* the row of the asset is there
  lock,     \* who holds its row lock
  rows,     \* committed rows of analysis_uploads, counted by asset and source
  archive,  \* the digests that have a file
  active,   \* the source an unfinished job of the asset reads
  failed,   \* the sources of its failed jobs, which can be retried
  pc,       \* where a request is
  at,       \* the asset it is for
  src,      \* the source it saves, or whose archive it is about to remove
  found,    \* a save has found its row in place
  doomed    \* uploads a purge has deleted and has not looked at yet

store   == <<exists, rows, archive>>
jobs    == <<active, failed>>
request == <<pc, at, src, found, doomed>>
vars    == <<exists, lock, rows, archive, active, failed, pc, at, src, found, doomed>>

Saving  == {"locked", "linked", "found"}
Purging == {"purging", "unlinking"}
Holding == Saving \cup Purging

Init ==
  /\ exists = [a \in Asset |-> TRUE]
  /\ lock = [a \in Asset |-> Free]
  /\ rows = [a \in Asset |-> [s \in Source |-> 0]]
  /\ archive = {}
  /\ active = [a \in Asset |-> NoSource]
  /\ failed = [a \in Asset |-> {}]
  /\ pc = [c \in Client |-> "idle"]
  /\ at \in [Client -> Asset]
  /\ src \in [Client -> Source]
  /\ found = [c \in Client |-> FALSE]
  /\ doomed = [c \in Client |-> {}]

Goto(c, place) == pc' = [pc EXCEPT ![c] = place]

Acquire(c) == lock[at[c]] = Free /\ lock' = [lock EXCEPT ![at[c]] = c]

Release(c) == lock' = [lock EXCEPT ![at[c]] = Free]

Registered(a) == {s \in Source : rows[a][s] > 0}

-----------------------------------------------------------------------------
(* save_upload *)

\* The body is read, hashed and checked before any lock is taken.
Receive(c, a, s) ==
  /\ pc[c] = "idle"
  /\ s \in Offers[a]
  /\ Goto(c, "received")
  /\ at' = [at EXCEPT ![c] = a]
  /\ src' = [src EXCEPT ![c] = s]
  /\ UNCHANGED <<store, jobs, lock, found, doomed>>

\* Mutant: the SELECT without FOR UPDATE.
LockForSaveUnlocked(c) ==
  /\ pc[c] = "received"
  /\ exists[at[c]]
  /\ Goto(c, "locked")
  /\ UNCHANGED <<store, jobs, lock, at, src, found, doomed>>

LockForSave(c) ==
  /\ pc[c] = "received"
  /\ exists[at[c]]
  /\ Acquire(c)
  /\ Goto(c, "locked")
  /\ UNCHANGED <<store, jobs, at, src, found, doomed>>

\* 404: the asset was deleted.
AssetGone(c) ==
  /\ pc[c] = "received"
  /\ lock[at[c]] = Free
  /\ ~exists[at[c]]
  /\ Goto(c, "idle")
  /\ UNCHANGED <<store, jobs, lock, at, src, found, doomed>>

\* validate_archive raises InvalidArchive, or the archive that os.link found
\* in place is gone when it is compared; the transaction is rolled back.
RejectArchive(c) ==
  /\ pc[c] = "locked"
  /\ Release(c)
  /\ Goto(c, "idle")
  /\ UNCHANGED <<store, jobs, at, src, found, doomed>>

\* os.link, or FileExistsError and the file is the same.
LinkArchive(c) ==
  /\ pc[c] = "locked"
  /\ archive' = archive \cup {Sha[src[c]]}
  /\ Goto(c, "linked")
  /\ UNCHANGED <<exists, rows, jobs, lock, at, src, found, doomed>>

FindRecord(c) ==
  /\ pc[c] = "linked"
  /\ found' = [found EXCEPT ![c] = src[c] \in Registered(at[c])]
  /\ Goto(c, "found")
  /\ UNCHANGED <<store, jobs, lock, at, src, doomed>>

CommitUpload(c) ==
  /\ pc[c] = "found"
  /\ rows' = IF found[c] THEN rows
             ELSE [rows EXCEPT ![at[c]][src[c]] = @ + 1]
  /\ Release(c)
  /\ Goto(c, "saved")
  /\ UNCHANGED <<exists, archive, jobs, at, src, found, doomed>>

-----------------------------------------------------------------------------
(* Analysis jobs on an upload.  The INSERT of a job needs the asset, which *)
(* it cannot have while another transaction holds the row lock.            *)

\* Mutant: the asset is not needed for the INSERT.
MayQueueUnlocked(a, s) ==
  /\ active[a] = NoSource
  /\ s \in Registered(a)

MayQueue(a, s) ==
  /\ lock[a] = Free
  /\ exists[a]
  /\ active[a] = NoSource
  /\ s \in Registered(a)

\* upload_source queues what it saved.
QueueUpload(c) ==
  /\ pc[c] = "saved"
  /\ MayQueue(at[c], src[c])
  /\ active' = [active EXCEPT ![at[c]] = src[c]]
  /\ Goto(c, "idle")
  /\ UNCHANGED <<store, lock, failed, at, src, found, doomed>>

\* 409, 422 or 404: another job is active, or a purge came first.
QueueRefused(c) ==
  /\ pc[c] = "saved"
  /\ lock[at[c]] = Free
  /\ ~MayQueue(at[c], src[c])
  /\ Goto(c, "idle")
  /\ UNCHANGED <<store, jobs, lock, at, src, found, doomed>>

RetryJob(a, s) ==
  /\ s \in failed[a]
  /\ MayQueue(a, s)
  /\ active' = [active EXCEPT ![a] = s]
  /\ UNCHANGED <<store, lock, failed, request>>

\* extract_upload finds the archive or fails the job; with the archive the
\* job may end either way.
FinishJob(a) ==
  /\ active[a] # NoSource
  /\ active' = [active EXCEPT ![a] = NoSource]
  /\ \/ failed' = [failed EXCEPT ![a] = @ \cup {active[a]}]
     \/ Sha[active[a]] \in archive /\ UNCHANGED failed
  /\ UNCHANGED <<store, lock, request>>

-----------------------------------------------------------------------------
(* delete_asset *)

\* Without purge the asset must have no history.
DeleteAsset(a) ==
  /\ lock[a] = Free
  /\ exists[a]
  /\ Registered(a) = {}
  /\ exists' = [exists EXCEPT ![a] = FALSE]
  /\ UNCHANGED <<rows, archive, lock, jobs, request>>

\* Mutant: no look for an active job.
BeginPurgeBusy(c, a) ==
  /\ pc[c] = "idle"
  /\ exists[a]
  /\ lock[a] = Free
  /\ lock' = [lock EXCEPT ![a] = c]
  /\ at' = [at EXCEPT ![c] = a]
  /\ doomed' = [doomed EXCEPT ![c] = Registered(a)]
  /\ Goto(c, "purging")
  /\ UNCHANGED <<store, jobs, src, found>>

\* The asset is locked, no job is active; the rows are deleted and flushed,
\* which nobody else sees before the commit.
BeginPurge(c, a) ==
  /\ pc[c] = "idle"
  /\ exists[a]
  /\ active[a] = NoSource
  /\ lock[a] = Free
  /\ lock' = [lock EXCEPT ![a] = c]
  /\ at' = [at EXCEPT ![c] = a]
  /\ doomed' = [doomed EXCEPT ![c] = Registered(a)]
  /\ Goto(c, "purging")
  /\ UNCHANGED <<store, jobs, src, found>>

\* Mutant: the deletions have not been flushed.
StillUsedUnflushed(a, s) ==
  \E b \in Asset : \E t \in Registered(b) : Sha[t] = Sha[s]

\* The committed rows of other assets that share the archive of s.
StillUsed(a, s) ==
  \E b \in Asset \ {a} : \E t \in Registered(b) : Sha[t] = Sha[s]

KeepArchive(c, s) ==
  /\ pc[c] = "purging"
  /\ s \in doomed[c]
  /\ StillUsed(at[c], s)
  /\ doomed' = [doomed EXCEPT ![c] = @ \ {s}]
  /\ UNCHANGED <<store, jobs, lock, pc, at, src, found>>

FindUnused(c, s) ==
  /\ pc[c] = "purging"
  /\ s \in doomed[c]
  /\ ~StillUsed(at[c], s)
  /\ src' = [src EXCEPT ![c] = s]
  /\ Goto(c, "unlinking")
  /\ UNCHANGED <<store, jobs, lock, at, found, doomed>>

\* Mutant: the loop over the uploads ends with the first removal.
UnlinkFirst(c) ==
  /\ pc[c] = "unlinking"
  /\ archive' = archive \ {Sha[src[c]]}
  /\ doomed' = [doomed EXCEPT ![c] = {}]
  /\ Goto(c, "purging")
  /\ UNCHANGED <<exists, rows, jobs, lock, at, src, found>>

\* An OSError of unlink is ignored.
Unlink(c) ==
  /\ pc[c] = "unlinking"
  /\ \/ archive' = archive \ {Sha[src[c]]}
     \/ "unlink" \in Faulty /\ UNCHANGED archive
  /\ doomed' = [doomed EXCEPT ![c] = @ \ {src[c]}]
  /\ Goto(c, "purging")
  /\ UNCHANGED <<exists, rows, jobs, lock, at, src, found>>

CommitPurge(c) ==
  /\ pc[c] = "purging"
  /\ doomed[c] = {}
  /\ rows' = [rows EXCEPT ![at[c]] = [s \in Source |-> 0]]
  /\ exists' = [exists EXCEPT ![at[c]] = FALSE]
  /\ failed' = [failed EXCEPT ![at[c]] = {}]
  /\ Release(c)
  /\ Goto(c, "idle")
  /\ UNCHANGED <<archive, active, at, src, found, doomed>>

-----------------------------------------------------------------------------
\* An exception, a lost connection or the end of the process: the transaction
\* is rolled back and its lock released; files stay as they are.
Abort(c) ==
  /\ \/ "save" \in Faulty /\ pc[c] \in Saving
     \/ "purge" \in Faulty /\ pc[c] \in Purging
  /\ Release(c)
  /\ Goto(c, "idle")
  /\ doomed' = [doomed EXCEPT ![c] = {}]
  /\ UNCHANGED <<store, jobs, at, src, found>>

\* The request ends between its two transactions.
Vanish(c) ==
  /\ "save" \in Faulty
  /\ pc[c] \in {"received", "saved"}
  /\ Goto(c, "idle")
  /\ UNCHANGED <<store, jobs, lock, at, src, found, doomed>>

Save(c) ==
  \/ \E a \in Asset, s \in Source : Receive(c, a, s)
  \/ LockForSave(c) \/ AssetGone(c) \/ RejectArchive(c) \/ LinkArchive(c)
  \/ FindRecord(c) \/ CommitUpload(c)
  \/ QueueUpload(c) \/ QueueRefused(c)

Purge(c) ==
  \/ \E a \in Asset : BeginPurge(c, a)
  \/ \E s \in Source : KeepArchive(c, s) \/ FindUnused(c, s)
  \/ Unlink(c) \/ CommitPurge(c)

Next ==
  \/ \E c \in Client : Save(c) \/ Purge(c) \/ Abort(c) \/ Vanish(c)
  \/ \E a \in Asset : DeleteAsset(a) \/ FinishJob(a) \/ \E s \in Source : RetryJob(a, s)

Spec == Init /\ [][Next]_vars

-----------------------------------------------------------------------------
(* Properties *)

\* The type invariant.
TypeOK ==
  /\ exists \in [Asset -> BOOLEAN]
  /\ lock \in [Asset -> Client \cup {Free}]
  /\ rows \in [Asset -> [Source -> Nat]]
  /\ archive \subseteq Digest
  /\ active \in [Asset -> Source \cup {NoSource}]
  /\ failed \in [Asset -> SUBSET Source]
  /\ pc \in [Client -> {"idle", "received", "saved"} \cup Holding]
  /\ at \in [Client -> Asset]
  /\ src \in [Client -> Source]
  /\ found \in [Client -> BOOLEAN]
  /\ doomed \in [Client -> SUBSET Source]

BeingPurged(a) == \E c \in Client : pc[c] \in Purging /\ at[c] = a

\* The same project and content is registered once per asset: the look for a
\* row and its insertion are in one hold of the asset's lock
\* (_persist_upload, docs/PROJECT_HISTORY.md:18).
OneRowPerSource == \A a \in Asset, s \in Source : rows[a][s] <= 1

\* Nobody uploads the content of s for an asset other than a.
Own(a, s) == \A b \in Asset \ {a} : \A t \in Offers[b] : Sha[t] # Sha[s]

\* A committed upload can be used again: its archive is there unless a purge
\* of its own asset is under way (upload_source relies on it after
\* save_upload returned).
UploadHasArchive ==
  \A a \in Asset : ~BeingPurged(a) =>
    \A s \in Registered(a) : Sha[s] \in archive

\* The part of it that the lock on the asset can give: for content that no
\* other asset has, whatever the others do.  Purges are not rolled back.
OwnUploadHasArchive ==
  \A a \in Asset : ~BeingPurged(a) =>
    \A s \in Registered(a) : Own(a, s) => Sha[s] \in archive

\* What a running job reads, and what a failed job can be retried with, is
\* still registered, and kept if it is the asset's own (docs/API.md:143).
JobsFindOriginal ==
  \A a \in Asset : ~BeingPurged(a) =>
    \A s \in failed[a] \cup ({active[a]} \ {NoSource}) :
      s \in Registered(a) /\ (Own(a, s) => Sha[s] \in archive)

\* A job never runs on an asset that is being purged.
NoJobUnderPurge == \A a \in Asset : BeingPurged(a) => active[a] = NoSource

\* An asset takes its own archives with it, whatever else is saved or purged
\* meanwhile and however often a purge was started (delete_asset's docstring).
\* Removing a file does not fail.
PurgeRemovesUploads ==
  [][\A a \in Asset : exists[a] /\ ~exists'[a] =>
       \A s \in Registered(a) : Own(a, s) => Sha[s] \notin archive']_vars

-----------------------------------------------------------------------------
(* The inductive invariant behind the properties *)

\* A transaction past its lock holds it, and its asset is there.
LockInv ==
  \A c \in Client : pc[c] \in Holding => lock[at[c]] = c /\ exists[at[c]]

\* What a save has found is still so when it commits.
FoundInv ==
  \A c \in Client : pc[c] = "found" => (found[c] <=> src[c] \in Registered(at[c]))

\* Jobs are about registered uploads.
JobInv ==
  \A a \in Asset : failed[a] \cup ({active[a]} \ {NoSource}) \subseteq Registered(a)

\* Rows, and what saves and purges handle, were offered for their asset.
OfferInv ==
  /\ \A a \in Asset : Registered(a) \subseteq Offers[a]
  /\ \A c \in Client :
       /\ pc[c] \in {"received", "unlinking"} \cup Saving => src[c] \in Offers[at[c]]
       /\ pc[c] \in Purging => doomed[c] \subseteq Offers[at[c]]

\* It holds whatever fails and whatever the assets share.
IInv == TypeOK /\ LockInv /\ FoundInv /\ OneRowPerSource /\ JobInv /\ OfferInv /\ NoJobUnderPurge

\* A save keeps its archive from the link to the commit.
LinkInv ==
  \A c \in Client :
    pc[c] \in {"linked", "found"} /\ Own(at[c], src[c]) => Sha[src[c]] \in archive

\* What a purge has looked at is gone.
DoneInv ==
  \A c \in Client : pc[c] \in Purging =>
    \A s \in Registered(at[c]) \ doomed[c] : Own(at[c], s) => Sha[s] \notin archive
=============================================================================
