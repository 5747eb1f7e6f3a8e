---------------------------- MODULE StorageProofs ----------------------------
(***************************************************************************)
(* Proofs about what is stored for users: the archives of Uploads and the  *)
(* documents and products of Documents.  The two share no variable.        *)
(***************************************************************************)
EXTENDS Uploads, Documents, FiniteSetTheorems, WellFoundedInduction, SequenceTheorems, TLAPS

-----------------------------------------------------------------------------
(* Archives: Uploads, for any assets, contents and numbers of requests *)


\* Every step keeps the types.
LEMMA TypeStep == TypeOK /\ [Next]_vars => TypeOK'
<1> SUFFICES ASSUME TypeOK, [Next]_vars PROVE TypeOK'
  OBVIOUS
<1> USE UploadsAssumption DEF TypeOK, Saving, Purging, Holding, store, jobs, request, Goto, Acquire, Release
<1>0. CASE UNCHANGED vars
  BY <1>0 DEF vars
<1>1. ASSUME NEW c \in Client, NEW a \in Asset, NEW s \in Source, Receive(c, a, s) PROVE TypeOK'
  BY <1>1 DEF Receive
<1>2. ASSUME NEW c \in Client, LockForSave(c) PROVE TypeOK'
  BY <1>2 DEF LockForSave
<1>3. ASSUME NEW c \in Client, AssetGone(c) PROVE TypeOK'
  BY <1>3 DEF AssetGone
<1>4. ASSUME NEW c \in Client, RejectArchive(c) PROVE TypeOK'
  BY <1>4 DEF RejectArchive
<1>5. ASSUME NEW c \in Client, LinkArchive(c) PROVE TypeOK'
  BY <1>5 DEF LinkArchive
<1>6. ASSUME NEW c \in Client, FindRecord(c) PROVE TypeOK'
  BY <1>6 DEF FindRecord
<1>7. ASSUME NEW c \in Client, CommitUpload(c) PROVE TypeOK'
  BY <1>7 DEF CommitUpload
<1>8. ASSUME NEW c \in Client, QueueUpload(c) PROVE TypeOK'
  BY <1>8 DEF QueueUpload
<1>9. ASSUME NEW c \in Client, QueueRefused(c) PROVE TypeOK'
  BY <1>9 DEF QueueRefused
<1>10. ASSUME NEW c \in Client, NEW a \in Asset, BeginPurge(c, a) PROVE TypeOK'
  BY <1>10 DEF BeginPurge, Registered
<1>11. ASSUME NEW c \in Client, NEW s \in Source, KeepArchive(c, s) PROVE TypeOK'
  BY <1>11 DEF KeepArchive
<1>12. ASSUME NEW c \in Client, NEW s \in Source, FindUnused(c, s) PROVE TypeOK'
  BY <1>12 DEF FindUnused
<1>13. ASSUME NEW c \in Client, Unlink(c) PROVE TypeOK'
  BY <1>13 DEF Unlink
<1>14. ASSUME NEW c \in Client, CommitPurge(c) PROVE TypeOK'
  BY <1>14 DEF CommitPurge
<1>15. ASSUME NEW c \in Client, Abort(c) PROVE TypeOK'
  BY <1>15 DEF Abort
<1>16. ASSUME NEW c \in Client, Vanish(c) PROVE TypeOK'
  BY <1>16 DEF Vanish
<1>17. ASSUME NEW a \in Asset, DeleteAsset(a) PROVE TypeOK'
  BY <1>17 DEF DeleteAsset
<1>18. ASSUME NEW a \in Asset, FinishJob(a) PROVE TypeOK'
  <2>1. active[a] \in Source
    BY <1>18 DEF FinishJob
  <2>2. failed' \in [Asset -> SUBSET Source]
    <3>1. CASE failed' = [failed EXCEPT ![a] = failed[a] \cup {active[a]}]
      BY <2>1, <3>1
    <3>2. CASE UNCHANGED failed
      BY <3>2
    <3> QED BY <1>18, <3>1, <3>2 DEF FinishJob
  <2>3. active' \in [Asset -> Source \cup {NoSource}]
    BY <1>18 DEF FinishJob
  <2> QED BY <1>18, <2>2, <2>3 DEF FinishJob
<1>19. ASSUME NEW a \in Asset, NEW s \in Source, RetryJob(a, s) PROVE TypeOK'
  BY <1>19 DEF RetryJob
<1> QED
  BY <1>0, <1>1, <1>2, <1>3, <1>4, <1>5, <1>6, <1>7, <1>8, <1>9, <1>10, <1>11, <1>12, <1>13, <1>14, <1>15, <1>16, <1>17, <1>18, <1>19
     DEF Next, Save, Purge

\* Only the holder of the lock of an asset releases it or deletes the asset.
LEMMA LockStep == TypeOK /\ LockInv /\ [Next]_vars => LockInv'
<1> SUFFICES ASSUME TypeOK, LockInv, [Next]_vars PROVE LockInv'
  OBVIOUS
<1> USE UploadsAssumption DEF TypeOK, Saving, Purging, Holding, store, jobs, request, Goto, Acquire, Release
<1>0. CASE UNCHANGED vars
  BY <1>0 DEF vars, LockInv
<1>1. ASSUME NEW c \in Client, NEW a \in Asset, NEW s \in Source, Receive(c, a, s) PROVE LockInv'
  BY <1>1 DEF Receive, LockInv
<1>2. ASSUME NEW c \in Client, LockForSave(c) PROVE LockInv'
  BY <1>2 DEF LockForSave, LockInv
<1>3. ASSUME NEW c \in Client, AssetGone(c) PROVE LockInv'
  BY <1>3 DEF AssetGone, LockInv
<1>4. ASSUME NEW c \in Client, RejectArchive(c) PROVE LockInv'
  BY <1>4 DEF RejectArchive, LockInv
<1>5. ASSUME NEW c \in Client, LinkArchive(c) PROVE LockInv'
  BY <1>5 DEF LinkArchive, LockInv
<1>6. ASSUME NEW c \in Client, FindRecord(c) PROVE LockInv'
  BY <1>6 DEF FindRecord, LockInv
<1>7. ASSUME NEW c \in Client, CommitUpload(c) PROVE LockInv'
  BY <1>7 DEF CommitUpload, LockInv
<1>8. ASSUME NEW c \in Client, QueueUpload(c) PROVE LockInv'
  BY <1>8 DEF QueueUpload, LockInv
<1>9. ASSUME NEW c \in Client, QueueRefused(c) PROVE LockInv'
  BY <1>9 DEF QueueRefused, LockInv
<1>10. ASSUME NEW c \in Client, NEW a \in Asset, BeginPurge(c, a) PROVE LockInv'
  BY <1>10 DEF BeginPurge, LockInv
<1>11. ASSUME NEW c \in Client, NEW s \in Source, KeepArchive(c, s) PROVE LockInv'
  BY <1>11 DEF KeepArchive, LockInv
<1>12. ASSUME NEW c \in Client, NEW s \in Source, FindUnused(c, s) PROVE LockInv'
  BY <1>12 DEF FindUnused, LockInv
<1>13. ASSUME NEW c \in Client, Unlink(c) PROVE LockInv'
  BY <1>13 DEF Unlink, LockInv
<1>14. ASSUME NEW c \in Client, CommitPurge(c) PROVE LockInv'
  BY <1>14 DEF CommitPurge, LockInv
<1>15. ASSUME NEW c \in Client, Abort(c) PROVE LockInv'
  BY <1>15 DEF Abort, LockInv
<1>16. ASSUME NEW c \in Client, Vanish(c) PROVE LockInv'
  BY <1>16 DEF Vanish, LockInv
<1>17. ASSUME NEW a \in Asset, DeleteAsset(a) PROVE LockInv'
  BY <1>17 DEF DeleteAsset, LockInv
<1>18. ASSUME NEW a \in Asset, FinishJob(a) PROVE LockInv'
  BY <1>18 DEF FinishJob, LockInv
<1>19. ASSUME NEW a \in Asset, NEW s \in Source, RetryJob(a, s) PROVE LockInv'
  BY <1>19 DEF RetryJob, LockInv
<1> QED
  BY <1>0, <1>1, <1>2, <1>3, <1>4, <1>5, <1>6, <1>7, <1>8, <1>9, <1>10, <1>11, <1>12, <1>13, <1>14, <1>15, <1>16, <1>17, <1>18, <1>19
     DEF Next, Save, Purge

\* Rows of an asset change only under its lock.
LEMMA FoundStep == TypeOK /\ LockInv /\ FoundInv /\ [Next]_vars => FoundInv'
<1> SUFFICES ASSUME TypeOK, LockInv, FoundInv, [Next]_vars PROVE FoundInv'
  OBVIOUS
<1> USE UploadsAssumption DEF TypeOK, Saving, Purging, Holding, store, jobs, request, Goto, Acquire, Release
<1>0. CASE UNCHANGED vars
  BY <1>0 DEF vars, LockInv, FoundInv, Registered
<1>1. ASSUME NEW c \in Client, NEW a \in Asset, NEW s \in Source, Receive(c, a, s) PROVE FoundInv'
  BY <1>1 DEF Receive, LockInv, FoundInv, Registered
<1>2. ASSUME NEW c \in Client, LockForSave(c) PROVE FoundInv'
  BY <1>2 DEF LockForSave, LockInv, FoundInv, Registered
<1>3. ASSUME NEW c \in Client, AssetGone(c) PROVE FoundInv'
  BY <1>3 DEF AssetGone, LockInv, FoundInv, Registered
<1>4. ASSUME NEW c \in Client, RejectArchive(c) PROVE FoundInv'
  BY <1>4 DEF RejectArchive, LockInv, FoundInv, Registered
<1>5. ASSUME NEW c \in Client, LinkArchive(c) PROVE FoundInv'
  BY <1>5 DEF LinkArchive, LockInv, FoundInv, Registered
<1>6. ASSUME NEW c \in Client, FindRecord(c) PROVE FoundInv'
  BY <1>6 DEF FindRecord, LockInv, FoundInv, Registered
<1>7. ASSUME NEW c \in Client, CommitUpload(c) PROVE FoundInv'
  BY <1>7 DEF CommitUpload, LockInv, FoundInv, Registered
<1>8. ASSUME NEW c \in Client, QueueUpload(c) PROVE FoundInv'
  BY <1>8 DEF QueueUpload, LockInv, FoundInv, Registered
<1>9. ASSUME NEW c \in Client, QueueRefused(c) PROVE FoundInv'
  BY <1>9 DEF QueueRefused, LockInv, FoundInv, Registered
<1>10. ASSUME NEW c \in Client, NEW a \in Asset, BeginPurge(c, a) PROVE FoundInv'
  BY <1>10 DEF BeginPurge, LockInv, FoundInv, Registered
<1>11. ASSUME NEW c \in Client, NEW s \in Source, KeepArchive(c, s) PROVE FoundInv'
  BY <1>11 DEF KeepArchive, LockInv, FoundInv, Registered
<1>12. ASSUME NEW c \in Client, NEW s \in Source, FindUnused(c, s) PROVE FoundInv'
  BY <1>12 DEF FindUnused, LockInv, FoundInv, Registered
<1>13. ASSUME NEW c \in Client, Unlink(c) PROVE FoundInv'
  BY <1>13 DEF Unlink, LockInv, FoundInv, Registered
<1>14. ASSUME NEW c \in Client, CommitPurge(c) PROVE FoundInv'
  BY <1>14 DEF CommitPurge, LockInv, FoundInv, Registered
<1>15. ASSUME NEW c \in Client, Abort(c) PROVE FoundInv'
  BY <1>15 DEF Abort, LockInv, FoundInv, Registered
<1>16. ASSUME NEW c \in Client, Vanish(c) PROVE FoundInv'
  BY <1>16 DEF Vanish, LockInv, FoundInv, Registered
<1>17. ASSUME NEW a \in Asset, DeleteAsset(a) PROVE FoundInv'
  BY <1>17 DEF DeleteAsset, LockInv, FoundInv, Registered
<1>18. ASSUME NEW a \in Asset, FinishJob(a) PROVE FoundInv'
  BY <1>18 DEF FinishJob, LockInv, FoundInv, Registered
<1>19. ASSUME NEW a \in Asset, NEW s \in Source, RetryJob(a, s) PROVE FoundInv'
  BY <1>19 DEF RetryJob, LockInv, FoundInv, Registered
<1> QED
  BY <1>0, <1>1, <1>2, <1>3, <1>4, <1>5, <1>6, <1>7, <1>8, <1>9, <1>10, <1>11, <1>12, <1>13, <1>14, <1>15, <1>16, <1>17, <1>18, <1>19
     DEF Next, Save, Purge

\* A row is added only by a save that found none.
LEMMA OneRowStep == TypeOK /\ FoundInv /\ OneRowPerSource /\ [Next]_vars => OneRowPerSource'
<1> SUFFICES ASSUME TypeOK, FoundInv, OneRowPerSource, [Next]_vars PROVE OneRowPerSource'
  OBVIOUS
<1> USE UploadsAssumption DEF TypeOK, Saving, Purging, Holding, store, jobs, request, Goto, Acquire, Release
<1>0. CASE UNCHANGED vars
  BY <1>0 DEF vars, FoundInv, OneRowPerSource, Registered
<1>1. ASSUME NEW c \in Client, NEW a \in Asset, NEW s \in Source, Receive(c, a, s) PROVE OneRowPerSource'
  BY <1>1 DEF Receive, FoundInv, OneRowPerSource, Registered
<1>2. ASSUME NEW c \in Client, LockForSave(c) PROVE OneRowPerSource'
  BY <1>2 DEF LockForSave, FoundInv, OneRowPerSource, Registered
<1>3. ASSUME NEW c \in Client, AssetGone(c) PROVE OneRowPerSource'
  BY <1>3 DEF AssetGone, FoundInv, OneRowPerSource, Registered
<1>4. ASSUME NEW c \in Client, RejectArchive(c) PROVE OneRowPerSource'
  BY <1>4 DEF RejectArchive, FoundInv, OneRowPerSource, Registered
<1>5. ASSUME NEW c \in Client, LinkArchive(c) PROVE OneRowPerSource'
  BY <1>5 DEF LinkArchive, FoundInv, OneRowPerSource, Registered
<1>6. ASSUME NEW c \in Client, FindRecord(c) PROVE OneRowPerSource'
  BY <1>6 DEF FindRecord, FoundInv, OneRowPerSource, Registered
<1>7. ASSUME NEW c \in Client, CommitUpload(c) PROVE OneRowPerSource'
  BY <1>7 DEF CommitUpload, FoundInv, OneRowPerSource, Registered
<1>8. ASSUME NEW c \in Client, QueueUpload(c) PROVE OneRowPerSource'
  BY <1>8 DEF QueueUpload, FoundInv, OneRowPerSource, Registered
<1>9. ASSUME NEW c \in Client, QueueRefused(c) PROVE OneRowPerSource'
  BY <1>9 DEF QueueRefused, FoundInv, OneRowPerSource, Registered
<1>10. ASSUME NEW c \in Client, NEW a \in Asset, BeginPurge(c, a) PROVE OneRowPerSource'
  BY <1>10 DEF BeginPurge, FoundInv, OneRowPerSource, Registered
<1>11. ASSUME NEW c \in Client, NEW s \in Source, KeepArchive(c, s) PROVE OneRowPerSource'
  BY <1>11 DEF KeepArchive, FoundInv, OneRowPerSource, Registered
<1>12. ASSUME NEW c \in Client, NEW s \in Source, FindUnused(c, s) PROVE OneRowPerSource'
  BY <1>12 DEF FindUnused, FoundInv, OneRowPerSource, Registered
<1>13. ASSUME NEW c \in Client, Unlink(c) PROVE OneRowPerSource'
  BY <1>13 DEF Unlink, FoundInv, OneRowPerSource, Registered
<1>14. ASSUME NEW c \in Client, CommitPurge(c) PROVE OneRowPerSource'
  BY <1>14 DEF CommitPurge, FoundInv, OneRowPerSource, Registered
<1>15. ASSUME NEW c \in Client, Abort(c) PROVE OneRowPerSource'
  BY <1>15 DEF Abort, FoundInv, OneRowPerSource, Registered
<1>16. ASSUME NEW c \in Client, Vanish(c) PROVE OneRowPerSource'
  BY <1>16 DEF Vanish, FoundInv, OneRowPerSource, Registered
<1>17. ASSUME NEW a \in Asset, DeleteAsset(a) PROVE OneRowPerSource'
  BY <1>17 DEF DeleteAsset, FoundInv, OneRowPerSource, Registered
<1>18. ASSUME NEW a \in Asset, FinishJob(a) PROVE OneRowPerSource'
  BY <1>18 DEF FinishJob, FoundInv, OneRowPerSource, Registered
<1>19. ASSUME NEW a \in Asset, NEW s \in Source, RetryJob(a, s) PROVE OneRowPerSource'
  BY <1>19 DEF RetryJob, FoundInv, OneRowPerSource, Registered
<1> QED
  BY <1>0, <1>1, <1>2, <1>3, <1>4, <1>5, <1>6, <1>7, <1>8, <1>9, <1>10, <1>11, <1>12, <1>13, <1>14, <1>15, <1>16, <1>17, <1>18, <1>19
     DEF Next, Save, Purge

\* Rows disappear only with the jobs of their asset.
LEMMA JobStep == TypeOK /\ NoJobUnderPurge /\ JobInv /\ [Next]_vars => JobInv'
<1> SUFFICES ASSUME TypeOK, NoJobUnderPurge, JobInv, [Next]_vars PROVE JobInv'
  OBVIOUS
<1> USE UploadsAssumption DEF TypeOK, Saving, Purging, Holding, store, jobs, request, Goto, Acquire, Release
<1>0. CASE UNCHANGED vars
  BY <1>0 DEF vars, JobInv, NoJobUnderPurge, BeingPurged, MayQueue, Registered
<1>1. ASSUME NEW c \in Client, NEW a \in Asset, NEW s \in Source, Receive(c, a, s) PROVE JobInv'
  BY <1>1 DEF Receive, JobInv, NoJobUnderPurge, BeingPurged, MayQueue, Registered
<1>2. ASSUME NEW c \in Client, LockForSave(c) PROVE JobInv'
  BY <1>2 DEF LockForSave, JobInv, NoJobUnderPurge, BeingPurged, MayQueue, Registered
<1>3. ASSUME NEW c \in Client, AssetGone(c) PROVE JobInv'
  BY <1>3 DEF AssetGone, JobInv, NoJobUnderPurge, BeingPurged, MayQueue, Registered
<1>4. ASSUME NEW c \in Client, RejectArchive(c) PROVE JobInv'
  BY <1>4 DEF RejectArchive, JobInv, NoJobUnderPurge, BeingPurged, MayQueue, Registered
<1>5. ASSUME NEW c \in Client, LinkArchive(c) PROVE JobInv'
  BY <1>5 DEF LinkArchive, JobInv, NoJobUnderPurge, BeingPurged, MayQueue, Registered
<1>6. ASSUME NEW c \in Client, FindRecord(c) PROVE JobInv'
  BY <1>6 DEF FindRecord, JobInv, NoJobUnderPurge, BeingPurged, MayQueue, Registered
<1>7. ASSUME NEW c \in Client, CommitUpload(c) PROVE JobInv'
  BY <1>7 DEF CommitUpload, JobInv, NoJobUnderPurge, BeingPurged, MayQueue, Registered
<1>8. ASSUME NEW c \in Client, QueueUpload(c) PROVE JobInv'
  BY <1>8 DEF QueueUpload, JobInv, NoJobUnderPurge, BeingPurged, MayQueue, Registered
<1>9. ASSUME NEW c \in Client, QueueRefused(c) PROVE JobInv'
  BY <1>9 DEF QueueRefused, JobInv, NoJobUnderPurge, BeingPurged, MayQueue, Registered
<1>10. ASSUME NEW c \in Client, NEW a \in Asset, BeginPurge(c, a) PROVE JobInv'
  BY <1>10 DEF BeginPurge, JobInv, NoJobUnderPurge, BeingPurged, MayQueue, Registered
<1>11. ASSUME NEW c \in Client, NEW s \in Source, KeepArchive(c, s) PROVE JobInv'
  BY <1>11 DEF KeepArchive, JobInv, NoJobUnderPurge, BeingPurged, MayQueue, Registered
<1>12. ASSUME NEW c \in Client, NEW s \in Source, FindUnused(c, s) PROVE JobInv'
  BY <1>12 DEF FindUnused, JobInv, NoJobUnderPurge, BeingPurged, MayQueue, Registered
<1>13. ASSUME NEW c \in Client, Unlink(c) PROVE JobInv'
  BY <1>13 DEF Unlink, JobInv, NoJobUnderPurge, BeingPurged, MayQueue, Registered
<1>14. ASSUME NEW c \in Client, CommitPurge(c) PROVE JobInv'
  BY <1>14 DEF CommitPurge, JobInv, NoJobUnderPurge, BeingPurged, MayQueue, Registered
<1>15. ASSUME NEW c \in Client, Abort(c) PROVE JobInv'
  BY <1>15 DEF Abort, JobInv, NoJobUnderPurge, BeingPurged, MayQueue, Registered
<1>16. ASSUME NEW c \in Client, Vanish(c) PROVE JobInv'
  BY <1>16 DEF Vanish, JobInv, NoJobUnderPurge, BeingPurged, MayQueue, Registered
<1>17. ASSUME NEW a \in Asset, DeleteAsset(a) PROVE JobInv'
  BY <1>17 DEF DeleteAsset, JobInv, NoJobUnderPurge, BeingPurged, MayQueue, Registered
<1>18. ASSUME NEW a \in Asset, FinishJob(a) PROVE JobInv'
  BY <1>18 DEF FinishJob, JobInv, NoJobUnderPurge, BeingPurged, MayQueue, Registered
<1>19. ASSUME NEW a \in Asset, NEW s \in Source, RetryJob(a, s) PROVE JobInv'
  BY <1>19 DEF RetryJob, JobInv, NoJobUnderPurge, BeingPurged, MayQueue, Registered
<1> QED
  BY <1>0, <1>1, <1>2, <1>3, <1>4, <1>5, <1>6, <1>7, <1>8, <1>9, <1>10, <1>11, <1>12, <1>13, <1>14, <1>15, <1>16, <1>17, <1>18, <1>19
     DEF Next, Save, Purge

\* Sources travel from the upload to the row and to the purge of one asset.
LEMMA OfferStep == TypeOK /\ OfferInv /\ [Next]_vars => OfferInv'
<1> SUFFICES ASSUME TypeOK, OfferInv, [Next]_vars PROVE OfferInv'
  OBVIOUS
<1> USE UploadsAssumption DEF TypeOK, Saving, Purging, Holding, store, jobs, request, Goto, Acquire, Release
<1>0. CASE UNCHANGED vars
  BY <1>0 DEF vars, OfferInv, Registered
<1>1. ASSUME NEW c \in Client, NEW a \in Asset, NEW s \in Source, Receive(c, a, s) PROVE OfferInv'
  BY <1>1 DEF Receive, OfferInv, Registered
<1>2. ASSUME NEW c \in Client, LockForSave(c) PROVE OfferInv'
  BY <1>2 DEF LockForSave, OfferInv, Registered
<1>3. ASSUME NEW c \in Client, AssetGone(c) PROVE OfferInv'
  BY <1>3 DEF AssetGone, OfferInv, Registered
<1>4. ASSUME NEW c \in Client, RejectArchive(c) PROVE OfferInv'
  BY <1>4 DEF RejectArchive, OfferInv, Registered
<1>5. ASSUME NEW c \in Client, LinkArchive(c) PROVE OfferInv'
  BY <1>5 DEF LinkArchive, OfferInv, Registered
<1>6. ASSUME NEW c \in Client, FindRecord(c) PROVE OfferInv'
  BY <1>6 DEF FindRecord, OfferInv, Registered
<1>7. ASSUME NEW c \in Client, CommitUpload(c) PROVE OfferInv'
  BY <1>7 DEF CommitUpload, OfferInv, Registered
<1>8. ASSUME NEW c \in Client, QueueUpload(c) PROVE OfferInv'
  BY <1>8 DEF QueueUpload, OfferInv, Registered
<1>9. ASSUME NEW c \in Client, QueueRefused(c) PROVE OfferInv'
  BY <1>9 DEF QueueRefused, OfferInv, Registered
<1>10. ASSUME NEW c \in Client, NEW a \in Asset, BeginPurge(c, a) PROVE OfferInv'
  BY <1>10 DEF BeginPurge, OfferInv, Registered
<1>11. ASSUME NEW c \in Client, NEW s \in Source, KeepArchive(c, s) PROVE OfferInv'
  BY <1>11 DEF KeepArchive, OfferInv, Registered
<1>12. ASSUME NEW c \in Client, NEW s \in Source, FindUnused(c, s) PROVE OfferInv'
  BY <1>12 DEF FindUnused, OfferInv, Registered
<1>13. ASSUME NEW c \in Client, Unlink(c) PROVE OfferInv'
  BY <1>13 DEF Unlink, OfferInv, Registered
<1>14. ASSUME NEW c \in Client, CommitPurge(c) PROVE OfferInv'
  BY <1>14 DEF CommitPurge, OfferInv, Registered
<1>15. ASSUME NEW c \in Client, Abort(c) PROVE OfferInv'
  BY <1>15 DEF Abort, OfferInv, Registered
<1>16. ASSUME NEW c \in Client, Vanish(c) PROVE OfferInv'
  BY <1>16 DEF Vanish, OfferInv, Registered
<1>17. ASSUME NEW a \in Asset, DeleteAsset(a) PROVE OfferInv'
  BY <1>17 DEF DeleteAsset, OfferInv, Registered
<1>18. ASSUME NEW a \in Asset, FinishJob(a) PROVE OfferInv'
  BY <1>18 DEF FinishJob, OfferInv, Registered
<1>19. ASSUME NEW a \in Asset, NEW s \in Source, RetryJob(a, s) PROVE OfferInv'
  BY <1>19 DEF RetryJob, OfferInv, Registered
<1> QED
  BY <1>0, <1>1, <1>2, <1>3, <1>4, <1>5, <1>6, <1>7, <1>8, <1>9, <1>10, <1>11, <1>12, <1>13, <1>14, <1>15, <1>16, <1>17, <1>18, <1>19
     DEF Next, Save, Purge

\* Queueing needs the lock a purge holds.
LEMMA NoJobStep == TypeOK /\ LockInv /\ NoJobUnderPurge /\ [Next]_vars => NoJobUnderPurge'
<1> SUFFICES ASSUME TypeOK, LockInv, NoJobUnderPurge, [Next]_vars PROVE NoJobUnderPurge'
  OBVIOUS
<1> USE UploadsAssumption DEF TypeOK, Saving, Purging, Holding, store, jobs, request, Goto, Acquire, Release
<1>0. CASE UNCHANGED vars
  BY <1>0 DEF vars, LockInv, NoJobUnderPurge, BeingPurged, MayQueue
<1>1. ASSUME NEW c \in Client, NEW a \in Asset, NEW s \in Source, Receive(c, a, s) PROVE NoJobUnderPurge'
  BY <1>1 DEF Receive, LockInv, NoJobUnderPurge, BeingPurged, MayQueue
<1>2. ASSUME NEW c \in Client, LockForSave(c) PROVE NoJobUnderPurge'
  BY <1>2 DEF LockForSave, LockInv, NoJobUnderPurge, BeingPurged, MayQueue
<1>3. ASSUME NEW c \in Client, AssetGone(c) PROVE NoJobUnderPurge'
  BY <1>3 DEF AssetGone, LockInv, NoJobUnderPurge, BeingPurged, MayQueue
<1>4. ASSUME NEW c \in Client, RejectArchive(c) PROVE NoJobUnderPurge'
  BY <1>4 DEF RejectArchive, LockInv, NoJobUnderPurge, BeingPurged, MayQueue
<1>5. ASSUME NEW c \in Client, LinkArchive(c) PROVE NoJobUnderPurge'
  BY <1>5 DEF LinkArchive, LockInv, NoJobUnderPurge, BeingPurged, MayQueue
<1>6. ASSUME NEW c \in Client, FindRecord(c) PROVE NoJobUnderPurge'
  BY <1>6 DEF FindRecord, LockInv, NoJobUnderPurge, BeingPurged, MayQueue
<1>7. ASSUME NEW c \in Client, CommitUpload(c) PROVE NoJobUnderPurge'
  BY <1>7 DEF CommitUpload, LockInv, NoJobUnderPurge, BeingPurged, MayQueue
<1>8. ASSUME NEW c \in Client, QueueUpload(c) PROVE NoJobUnderPurge'
  BY <1>8 DEF QueueUpload, LockInv, NoJobUnderPurge, BeingPurged, MayQueue
<1>9. ASSUME NEW c \in Client, QueueRefused(c) PROVE NoJobUnderPurge'
  BY <1>9 DEF QueueRefused, LockInv, NoJobUnderPurge, BeingPurged, MayQueue
<1>10. ASSUME NEW c \in Client, NEW a \in Asset, BeginPurge(c, a) PROVE NoJobUnderPurge'
  BY <1>10 DEF BeginPurge, LockInv, NoJobUnderPurge, BeingPurged, MayQueue
<1>11. ASSUME NEW c \in Client, NEW s \in Source, KeepArchive(c, s) PROVE NoJobUnderPurge'
  BY <1>11 DEF KeepArchive, LockInv, NoJobUnderPurge, BeingPurged, MayQueue
<1>12. ASSUME NEW c \in Client, NEW s \in Source, FindUnused(c, s) PROVE NoJobUnderPurge'
  BY <1>12 DEF FindUnused, LockInv, NoJobUnderPurge, BeingPurged, MayQueue
<1>13. ASSUME NEW c \in Client, Unlink(c) PROVE NoJobUnderPurge'
  BY <1>13 DEF Unlink, LockInv, NoJobUnderPurge, BeingPurged, MayQueue
<1>14. ASSUME NEW c \in Client, CommitPurge(c) PROVE NoJobUnderPurge'
  BY <1>14 DEF CommitPurge, LockInv, NoJobUnderPurge, BeingPurged, MayQueue
<1>15. ASSUME NEW c \in Client, Abort(c) PROVE NoJobUnderPurge'
  BY <1>15 DEF Abort, LockInv, NoJobUnderPurge, BeingPurged, MayQueue
<1>16. ASSUME NEW c \in Client, Vanish(c) PROVE NoJobUnderPurge'
  BY <1>16 DEF Vanish, LockInv, NoJobUnderPurge, BeingPurged, MayQueue
<1>17. ASSUME NEW a \in Asset, DeleteAsset(a) PROVE NoJobUnderPurge'
  BY <1>17 DEF DeleteAsset, LockInv, NoJobUnderPurge, BeingPurged, MayQueue
<1>18. ASSUME NEW a \in Asset, FinishJob(a) PROVE NoJobUnderPurge'
  BY <1>18 DEF FinishJob, LockInv, NoJobUnderPurge, BeingPurged, MayQueue
<1>19. ASSUME NEW a \in Asset, NEW s \in Source, RetryJob(a, s) PROVE NoJobUnderPurge'
  BY <1>19 DEF RetryJob, LockInv, NoJobUnderPurge, BeingPurged, MayQueue
<1> QED
  BY <1>0, <1>1, <1>2, <1>3, <1>4, <1>5, <1>6, <1>7, <1>8, <1>9, <1>10, <1>11, <1>12, <1>13, <1>14, <1>15, <1>16, <1>17, <1>18, <1>19
     DEF Next, Save, Purge

\* The invariant holds at first.
LEMMA InitInv == Init => IInv
  BY UploadsAssumption
     DEF Init, IInv, TypeOK, LockInv, FoundInv, OneRowPerSource, JobInv, OfferInv, NoJobUnderPurge,
         Saving, Purging, Holding, BeingPurged, Registered

\* The invariant holds whatever may fail and whatever the assets share.
THEOREM Invariance == Spec => []IInv
<1>1. IInv /\ [Next]_vars => IInv'
  BY TypeStep, LockStep, FoundStep, OneRowStep, JobStep, OfferStep, NoJobStep DEF IInv
<1> QED BY <1>1, InitInv, PTL DEF Spec

\* Every variable keeps its type.
THEOREM TypeCorrect == Spec => []TypeOK
<1>1. IInv => TypeOK
  BY DEF IInv
<1> QED BY <1>1, Invariance, PTL

\* One row per asset, project and content, for any number of uploads at once.
THEOREM Reuse == Spec => []OneRowPerSource
<1>1. IInv => OneRowPerSource
  BY DEF IInv
<1> QED BY <1>1, Invariance, PTL

\* No job is queued or retried on an asset while it is being purged.
THEOREM PurgeIsAlone == Spec => []NoJobUnderPurge
<1>1. IInv => NoJobUnderPurge
  BY DEF IInv
<1> QED BY <1>1, Invariance, PTL

-----------------------------------------------------------------------------
(* Content that no other asset has *)

\* A purge and a save in progress are about different contents if either is
\* about content its asset has alone.
LEMMA OthersDiffer ==
  ASSUME IInv, NEW c \in Client, NEW d \in Client,
         pc[c] \in Purging, pc[d] \in Saving
  PROVE  /\ pc[c] = "unlinking" /\ Own(at[d], src[d]) => Sha[src[c]] # Sha[src[d]]
         /\ \A s \in Offers[at[c]] : Own(at[c], s) => Sha[s] # Sha[src[d]]
<1>1. at[c] # at[d]
  BY DEF IInv, LockInv, Holding, Saving, Purging
<1>2. (pc[c] = "unlinking" => src[c] \in Offers[at[c]]) /\ src[d] \in Offers[at[d]]
  BY DEF IInv, OfferInv
<1>3. at[c] \in Asset /\ at[d] \in Asset
  BY DEF IInv, TypeOK
<1> QED BY <1>1, <1>2, <1>3 DEF Own

\* Only a purge of the same asset, which the lock keeps out, removes the archive.
LEMMA LinkStep == IInv /\ LinkInv /\ [Next]_vars => LinkInv'
<1> SUFFICES ASSUME IInv, LinkInv, [Next]_vars PROVE LinkInv'
  OBVIOUS
<1> USE UploadsAssumption DEF TypeOK, Saving, Purging, Holding, store, jobs, request, Goto, Acquire, Release
<1>0. CASE UNCHANGED vars
  BY <1>0 DEF vars, IInv, LinkInv
<1>1. ASSUME NEW c \in Client, NEW a \in Asset, NEW s \in Source, Receive(c, a, s) PROVE LinkInv'
  BY <1>1 DEF Receive, IInv, LinkInv
<1>2. ASSUME NEW c \in Client, LockForSave(c) PROVE LinkInv'
  BY <1>2 DEF LockForSave, IInv, LinkInv
<1>3. ASSUME NEW c \in Client, AssetGone(c) PROVE LinkInv'
  BY <1>3 DEF AssetGone, IInv, LinkInv
<1>4. ASSUME NEW c \in Client, RejectArchive(c) PROVE LinkInv'
  BY <1>4 DEF RejectArchive, IInv, LinkInv
<1>5. ASSUME NEW c \in Client, LinkArchive(c) PROVE LinkInv'
  BY <1>5 DEF LinkArchive, IInv, LinkInv
<1>6. ASSUME NEW c \in Client, FindRecord(c) PROVE LinkInv'
  BY <1>6 DEF FindRecord, IInv, LinkInv
<1>7. ASSUME NEW c \in Client, CommitUpload(c) PROVE LinkInv'
  BY <1>7 DEF CommitUpload, IInv, LinkInv
<1>8. ASSUME NEW c \in Client, QueueUpload(c) PROVE LinkInv'
  BY <1>8 DEF QueueUpload, IInv, LinkInv
<1>9. ASSUME NEW c \in Client, QueueRefused(c) PROVE LinkInv'
  BY <1>9 DEF QueueRefused, IInv, LinkInv
<1>10. ASSUME NEW c \in Client, NEW a \in Asset, BeginPurge(c, a) PROVE LinkInv'
  BY <1>10 DEF BeginPurge, IInv, LinkInv
<1>11. ASSUME NEW c \in Client, NEW s \in Source, KeepArchive(c, s) PROVE LinkInv'
  BY <1>11 DEF KeepArchive, IInv, LinkInv
<1>12. ASSUME NEW c \in Client, NEW s \in Source, FindUnused(c, s) PROVE LinkInv'
  BY <1>12 DEF FindUnused, IInv, LinkInv
<1>13. ASSUME NEW c \in Client, Unlink(c) PROVE LinkInv'
  <2> SUFFICES ASSUME NEW d \in Client, pc'[d] \in {"linked", "found"}, Own(at[d], src[d])
               PROVE  Sha[src[d]] \in archive'
    BY <1>13 DEF Unlink, LinkInv
  <2>1. pc[d] \in {"linked", "found"} /\ pc[c] = "unlinking"
    BY <1>13 DEF Unlink, IInv
  <2>2. Sha[src[c]] # Sha[src[d]]
    BY <2>1, OthersDiffer
  <2> QED BY <1>13, <2>1, <2>2 DEF Unlink, LinkInv
<1>14. ASSUME NEW c \in Client, CommitPurge(c) PROVE LinkInv'
  BY <1>14 DEF CommitPurge, IInv, LinkInv
<1>15. ASSUME NEW c \in Client, Abort(c) PROVE LinkInv'
  BY <1>15 DEF Abort, IInv, LinkInv
<1>16. ASSUME NEW c \in Client, Vanish(c) PROVE LinkInv'
  BY <1>16 DEF Vanish, IInv, LinkInv
<1>17. ASSUME NEW a \in Asset, DeleteAsset(a) PROVE LinkInv'
  BY <1>17 DEF DeleteAsset, IInv, LinkInv
<1>18. ASSUME NEW a \in Asset, FinishJob(a) PROVE LinkInv'
  BY <1>18 DEF FinishJob, IInv, LinkInv
<1>19. ASSUME NEW a \in Asset, NEW s \in Source, RetryJob(a, s) PROVE LinkInv'
  BY <1>19 DEF RetryJob, IInv, LinkInv
<1> QED
  BY <1>0, <1>1, <1>2, <1>3, <1>4, <1>5, <1>6, <1>7, <1>8, <1>9, <1>10, <1>11, <1>12, <1>13, <1>14, <1>15, <1>16, <1>17, <1>18, <1>19
     DEF Next, Save, Purge

\* A purge removes archives of its own asset alone, and ends by removing the rows.
LEMMA KeptStep ==
  ASSUME "purge" \notin Faulty
  PROVE  IInv /\ LinkInv /\ OwnUploadHasArchive /\ [Next]_vars => OwnUploadHasArchive'
<1> SUFFICES ASSUME IInv, LinkInv, OwnUploadHasArchive, [Next]_vars PROVE OwnUploadHasArchive'
  OBVIOUS
<1> USE UploadsAssumption DEF TypeOK, Saving, Purging, Holding, store, jobs, request, Goto, Acquire, Release
<1>0. CASE UNCHANGED vars
  BY <1>0 DEF vars, IInv, OwnUploadHasArchive, BeingPurged, Registered
<1>1. ASSUME NEW c \in Client, NEW a \in Asset, NEW s \in Source, Receive(c, a, s) PROVE OwnUploadHasArchive'
  BY <1>1 DEF Receive, IInv, OwnUploadHasArchive, BeingPurged, Registered
<1>2. ASSUME NEW c \in Client, LockForSave(c) PROVE OwnUploadHasArchive'
  BY <1>2 DEF LockForSave, IInv, OwnUploadHasArchive, BeingPurged, Registered
<1>3. ASSUME NEW c \in Client, AssetGone(c) PROVE OwnUploadHasArchive'
  BY <1>3 DEF AssetGone, IInv, OwnUploadHasArchive, BeingPurged, Registered
<1>4. ASSUME NEW c \in Client, RejectArchive(c) PROVE OwnUploadHasArchive'
  BY <1>4 DEF RejectArchive, IInv, OwnUploadHasArchive, BeingPurged, Registered
<1>5. ASSUME NEW c \in Client, LinkArchive(c) PROVE OwnUploadHasArchive'
  BY <1>5 DEF LinkArchive, IInv, OwnUploadHasArchive, BeingPurged, Registered
<1>6. ASSUME NEW c \in Client, FindRecord(c) PROVE OwnUploadHasArchive'
  BY <1>6 DEF FindRecord, IInv, OwnUploadHasArchive, BeingPurged, Registered
<1>7. ASSUME NEW c \in Client, CommitUpload(c) PROVE OwnUploadHasArchive'
  <2> SUFFICES ASSUME NEW a \in Asset, ~BeingPurged(a)', NEW s \in Source, rows'[a][s] > 0, Own(a, s)
               PROVE  Sha[s] \in archive
    BY <1>7 DEF CommitUpload, OwnUploadHasArchive, Registered
  <2>1. ~BeingPurged(a)
    BY <1>7 DEF CommitUpload, BeingPurged
  <2>2. CASE rows[a][s] > 0
    BY <2>1, <2>2 DEF OwnUploadHasArchive, Registered
  <2>3. CASE ~(rows[a][s] > 0)
    <3>1. rows' = [rows EXCEPT ![at[c]][src[c]] = rows[at[c]][src[c]] + 1]
      BY <1>7, <2>3 DEF CommitUpload
    <3>2. at[c] \in Asset /\ src[c] \in Source /\ rows \in [Asset -> [Source -> Nat]]
      BY DEF IInv
    <3>3. a = at[c] /\ s = src[c]
      BY <3>1, <3>2, <2>3
    <3> QED BY <1>7, <3>3 DEF CommitUpload, LinkInv
  <2> QED BY <2>2, <2>3
<1>8. ASSUME NEW c \in Client, QueueUpload(c) PROVE OwnUploadHasArchive'
  BY <1>8 DEF QueueUpload, IInv, OwnUploadHasArchive, BeingPurged, Registered
<1>9. ASSUME NEW c \in Client, QueueRefused(c) PROVE OwnUploadHasArchive'
  BY <1>9 DEF QueueRefused, IInv, OwnUploadHasArchive, BeingPurged, Registered
<1>10. ASSUME NEW c \in Client, NEW a \in Asset, BeginPurge(c, a) PROVE OwnUploadHasArchive'
  BY <1>10 DEF BeginPurge, IInv, OwnUploadHasArchive, BeingPurged, Registered
<1>11. ASSUME NEW c \in Client, NEW s \in Source, KeepArchive(c, s) PROVE OwnUploadHasArchive'
  BY <1>11 DEF KeepArchive, IInv, OwnUploadHasArchive, BeingPurged, Registered
<1>12. ASSUME NEW c \in Client, NEW s \in Source, FindUnused(c, s) PROVE OwnUploadHasArchive'
  BY <1>12 DEF FindUnused, IInv, OwnUploadHasArchive, BeingPurged, Registered
<1>13. ASSUME NEW c \in Client, Unlink(c) PROVE OwnUploadHasArchive'
  <2> SUFFICES ASSUME NEW a \in Asset, ~BeingPurged(a)', NEW s \in Registered(a), Own(a, s)
               PROVE  Sha[s] \in archive'
    BY <1>13 DEF Unlink, OwnUploadHasArchive, Registered
  <2>1. ~BeingPurged(a) /\ a # at[c]
    BY <1>13 DEF Unlink, BeingPurged, IInv
  <2>2. Sha[s] \in archive
    BY <2>1 DEF OwnUploadHasArchive
  <2>3. Sha[s] # Sha[src[c]]
    <3>1. src[c] \in Offers[at[c]] /\ at[c] \in Asset
      BY <1>13 DEF Unlink, IInv, OfferInv
    <3> QED BY <3>1, <2>1 DEF Own
  <2> QED BY <1>13, <2>2, <2>3 DEF Unlink
<1>14. ASSUME NEW c \in Client, CommitPurge(c) PROVE OwnUploadHasArchive'
  <2> SUFFICES ASSUME NEW a \in Asset, ~BeingPurged(a)', NEW s \in Source, rows'[a][s] > 0, Own(a, s)
               PROVE  Sha[s] \in archive
    BY <1>14 DEF CommitPurge, OwnUploadHasArchive, Registered
  <2>1. at[c] \in Asset /\ rows \in [Asset -> [Source -> Nat]]
    BY DEF IInv
  <2>2. a # at[c] /\ rows[a][s] > 0
    BY <1>14, <2>1 DEF CommitPurge
  <2>3. ~BeingPurged(a)
    BY <1>14, <2>2 DEF CommitPurge, BeingPurged, IInv
  <2> QED BY <2>2, <2>3 DEF OwnUploadHasArchive, Registered
<1>15. ASSUME NEW c \in Client, Abort(c) PROVE OwnUploadHasArchive'
  BY <1>15 DEF Abort, IInv, OwnUploadHasArchive, BeingPurged, Registered
<1>16. ASSUME NEW c \in Client, Vanish(c) PROVE OwnUploadHasArchive'
  BY <1>16 DEF Vanish, IInv, OwnUploadHasArchive, BeingPurged, Registered
<1>17. ASSUME NEW a \in Asset, DeleteAsset(a) PROVE OwnUploadHasArchive'
  BY <1>17 DEF DeleteAsset, IInv, OwnUploadHasArchive, BeingPurged, Registered
<1>18. ASSUME NEW a \in Asset, FinishJob(a) PROVE OwnUploadHasArchive'
  BY <1>18 DEF FinishJob, IInv, OwnUploadHasArchive, BeingPurged, Registered
<1>19. ASSUME NEW a \in Asset, NEW s \in Source, RetryJob(a, s) PROVE OwnUploadHasArchive'
  BY <1>19 DEF RetryJob, IInv, OwnUploadHasArchive, BeingPurged, Registered
<1> QED
  BY <1>0, <1>1, <1>2, <1>3, <1>4, <1>5, <1>6, <1>7, <1>8, <1>9, <1>10, <1>11, <1>12, <1>13, <1>14, <1>15, <1>16, <1>17, <1>18, <1>19
     DEF Next, Save, Purge

\* The two hold together in every reachable state.
LEMMA KeptInvariance ==
  ASSUME "purge" \notin Faulty
  PROVE  Spec => [](IInv /\ LinkInv /\ OwnUploadHasArchive)
<1>1. Init => LinkInv /\ OwnUploadHasArchive
  BY DEF Init, LinkInv, OwnUploadHasArchive, Registered
<1>2. IInv /\ IInv' /\ LinkInv /\ OwnUploadHasArchive /\ [Next]_vars => LinkInv' /\ OwnUploadHasArchive'
  BY LinkStep, KeptStep
<1> QED BY <1>1, <1>2, Invariance, PTL DEF Spec

\* A committed upload of content that its asset has alone keeps its archive,
\* whatever other assets share, if purges are not rolled back.
THEOREM UploadsAreKept ==
  ASSUME "purge" \notin Faulty
  PROVE  Spec => []OwnUploadHasArchive
  BY KeptInvariance, PTL

\* Under the same condition a running or failed job finds its original.
THEOREM OriginalsAreFound ==
  ASSUME "purge" \notin Faulty
  PROVE  Spec => []JobsFindOriginal
<1>1. IInv /\ OwnUploadHasArchive => JobsFindOriginal
  <2> SUFFICES ASSUME IInv, OwnUploadHasArchive, NEW a \in Asset, ~BeingPurged(a),
                      NEW s \in failed[a] \cup ({active[a]} \ {NoSource})
               PROVE  s \in Registered(a) /\ (Own(a, s) => Sha[s] \in archive)
    BY DEF JobsFindOriginal
  <2>1. s \in Registered(a)
    BY DEF IInv, JobInv
  <2> QED BY <2>1 DEF OwnUploadHasArchive
<1> QED BY <1>1, KeptInvariance, PTL

\* No other asset puts back what a purge has removed.
LEMMA DoneStep ==
  ASSUME "unlink" \notin Faulty
  PROVE  IInv /\ DoneInv /\ [Next]_vars => DoneInv'
<1> SUFFICES ASSUME IInv, DoneInv, [Next]_vars PROVE DoneInv'
  OBVIOUS
<1> USE UploadsAssumption DEF TypeOK, Saving, Purging, Holding, store, jobs, request, Goto, Acquire, Release
<1>0. CASE UNCHANGED vars
  BY <1>0 DEF vars, IInv, LockInv, DoneInv, Registered
<1>1. ASSUME NEW c \in Client, NEW a \in Asset, NEW s \in Source, Receive(c, a, s) PROVE DoneInv'
  BY <1>1 DEF Receive, IInv, LockInv, DoneInv, Registered
<1>2. ASSUME NEW c \in Client, LockForSave(c) PROVE DoneInv'
  BY <1>2 DEF LockForSave, IInv, LockInv, DoneInv, Registered
<1>3. ASSUME NEW c \in Client, AssetGone(c) PROVE DoneInv'
  BY <1>3 DEF AssetGone, IInv, LockInv, DoneInv, Registered
<1>4. ASSUME NEW c \in Client, RejectArchive(c) PROVE DoneInv'
  BY <1>4 DEF RejectArchive, IInv, LockInv, DoneInv, Registered
<1>5. ASSUME NEW c \in Client, LinkArchive(c) PROVE DoneInv'
  <2> SUFFICES ASSUME NEW d \in Client, pc'[d] \in Purging,
                      NEW s \in Registered(at[d]) \ doomed[d], Own(at[d], s)
               PROVE  Sha[s] \notin archive \cup {Sha[src[c]]}
    BY <1>5 DEF LinkArchive, DoneInv, Registered
  <2>1. pc[d] \in Purging /\ pc[c] \in Saving
    BY <1>5 DEF LinkArchive, IInv
  <2>2. at[d] \in Asset
    BY DEF IInv
  <2>3. s \in Offers[at[d]]
    BY <2>2 DEF IInv, OfferInv
  <2> QED BY <2>1, <2>3, OthersDiffer DEF DoneInv
<1>6. ASSUME NEW c \in Client, FindRecord(c) PROVE DoneInv'
  BY <1>6 DEF FindRecord, IInv, LockInv, DoneInv, Registered
<1>7. ASSUME NEW c \in Client, CommitUpload(c) PROVE DoneInv'
  BY <1>7 DEF CommitUpload, IInv, LockInv, DoneInv, Registered
<1>8. ASSUME NEW c \in Client, QueueUpload(c) PROVE DoneInv'
  BY <1>8 DEF QueueUpload, IInv, LockInv, DoneInv, Registered
<1>9. ASSUME NEW c \in Client, QueueRefused(c) PROVE DoneInv'
  BY <1>9 DEF QueueRefused, IInv, LockInv, DoneInv, Registered
<1>10. ASSUME NEW c \in Client, NEW a \in Asset, BeginPurge(c, a) PROVE DoneInv'
  BY <1>10 DEF BeginPurge, IInv, LockInv, DoneInv, Registered
<1>11. ASSUME NEW c \in Client, NEW s \in Source, KeepArchive(c, s) PROVE DoneInv'
  <2>1. ~Own(at[c], s)
    <3>1. \A b \in Asset : Registered(b) \subseteq Offers[b]
      BY DEF IInv, OfferInv
    <3> QED BY <1>11, <3>1 DEF KeepArchive, StillUsed, Own
  <2> QED BY <1>11, <2>1 DEF KeepArchive, IInv, DoneInv, Registered
<1>12. ASSUME NEW c \in Client, NEW s \in Source, FindUnused(c, s) PROVE DoneInv'
  BY <1>12 DEF FindUnused, IInv, LockInv, DoneInv, Registered
<1>13. ASSUME NEW c \in Client, Unlink(c) PROVE DoneInv'
  BY <1>13 DEF Unlink, IInv, LockInv, DoneInv, Registered
<1>14. ASSUME NEW c \in Client, CommitPurge(c) PROVE DoneInv'
  BY <1>14 DEF CommitPurge, IInv, LockInv, DoneInv, Registered
<1>15. ASSUME NEW c \in Client, Abort(c) PROVE DoneInv'
  BY <1>15 DEF Abort, IInv, LockInv, DoneInv, Registered
<1>16. ASSUME NEW c \in Client, Vanish(c) PROVE DoneInv'
  BY <1>16 DEF Vanish, IInv, LockInv, DoneInv, Registered
<1>17. ASSUME NEW a \in Asset, DeleteAsset(a) PROVE DoneInv'
  BY <1>17 DEF DeleteAsset, IInv, LockInv, DoneInv, Registered
<1>18. ASSUME NEW a \in Asset, FinishJob(a) PROVE DoneInv'
  BY <1>18 DEF FinishJob, IInv, LockInv, DoneInv, Registered
<1>19. ASSUME NEW a \in Asset, NEW s \in Source, RetryJob(a, s) PROVE DoneInv'
  BY <1>19 DEF RetryJob, IInv, LockInv, DoneInv, Registered
<1> QED
  BY <1>0, <1>1, <1>2, <1>3, <1>4, <1>5, <1>6, <1>7, <1>8, <1>9, <1>10, <1>11, <1>12, <1>13, <1>14, <1>15, <1>16, <1>17, <1>18, <1>19
     DEF Next, Save, Purge

\* When an asset goes, the archives of content it had alone go with it, if
\* removing a file does not fail.
THEOREM PurgesAreComplete ==
  ASSUME "unlink" \notin Faulty
  PROVE  Spec => PurgeRemovesUploads
<1> DEFINE Gone == \A a \in Asset : exists[a] /\ ~exists'[a] =>
                     \A s \in Registered(a) : Own(a, s) => Sha[s] \notin archive'
<1>1. Init => DoneInv
  BY DEF Init, DoneInv, Purging
<1>2. IInv /\ DoneInv /\ [Next]_vars => DoneInv'
  BY DoneStep
<1>3. IInv /\ DoneInv /\ [Next]_vars => [Gone]_vars
  <2> SUFFICES ASSUME IInv, DoneInv, Next, NEW a \in Asset, exists[a], ~exists'[a]
               PROVE  \A s \in Registered(a) : Own(a, s) => Sha[s] \notin archive'
    OBVIOUS
  <2>1. \/ \E c \in Client : CommitPurge(c)
        \/ \E b \in Asset : DeleteAsset(b)
    BY DEF Next, Save, Purge, Receive, LockForSave, AssetGone, RejectArchive, LinkArchive, FindRecord,
           CommitUpload, QueueUpload, QueueRefused, BeginPurge, KeepArchive, FindUnused, Unlink,
           Abort, Vanish, FinishJob, RetryJob, store
  <2>2. exists \in [Asset -> BOOLEAN]
    BY DEF IInv, TypeOK
  <2>3. ASSUME NEW c \in Client, CommitPurge(c)
        PROVE  \A s \in Registered(a) : Own(a, s) => Sha[s] \notin archive'
    <3>1. a = at[c]
      BY <2>2, <2>3 DEF CommitPurge
    <3> QED BY <2>3, <3>1 DEF CommitPurge, DoneInv, Purging
  <2>4. ASSUME NEW b \in Asset, DeleteAsset(b)
        PROVE  Registered(a) = {}
    BY <2>2, <2>4 DEF DeleteAsset
  <2> QED BY <2>1, <2>3, <2>4
<1> QED BY <1>1, <1>2, <1>3, Invariance, PTL DEF Spec, PurgeRemovesUploads

-----------------------------------------------------------------------------

(* Sums *)

Before == {p \in Nat \X Nat : p[1] < p[2]}

\* There is no infinite descent.
LEMMA BeforeWF == IsWellFoundedOn(Before, Nat)
  BY NatLessThanWellFounded DEF OpToRel, Before

\* Induction over the numbers, for a set of them.
LEMMA Induction ==
  ASSUME NEW N \in SUBSET Nat, 0 \in N, \A n \in N : n + 1 \in N
  PROVE  N = Nat
<1> DEFINE T == Nat \ N
<1>1. SUFFICES ASSUME T # {} PROVE FALSE
  OBVIOUS
<1>2. PICK x \in T : \A y \in T : ~(<<y, x>> \in Before)
  BY <1>1, BeforeWF, WFMin
<1>3. x # 0 /\ x - 1 \in Nat
  OBVIOUS
<1>4. <<x - 1, x>> \in Before
  BY <1>3 DEF Before
<1>5. x - 1 \in N
  BY <1>2, <1>3, <1>4
<1>6. x - 1 + 1 = x
  BY <1>3
<1> QED BY <1>2, <1>3, <1>5, <1>6

\* Induction over the subsets of a finite set.
LEMMA SubsetInduction ==
  ASSUME NEW S, IsFiniteSet(S), NEW Q,
         {} \in Q,
         \A s \in SUBSET S : s # {} /\ (\A x \in s : s \ {x} \in Q) => s \in Q
  PROVE  \A s \in SUBSET S : s \in Q
<1> DEFINE N == {n \in Nat : \A s \in SUBSET S : Cardinality(s) = n => s \in Q}
<1>1. \A s \in SUBSET S : IsFiniteSet(s) /\ Cardinality(s) \in Nat
  BY FS_Subset, FS_CardinalityType
<1>2. 0 \in N
  BY <1>1, FS_EmptySet
<1>3. ASSUME NEW n \in N PROVE n + 1 \in N
  <2>1. SUFFICES ASSUME NEW s \in SUBSET S, Cardinality(s) = n + 1 PROVE s \in Q
    OBVIOUS
  <2>2. s # {}
    <3>1. n + 1 # 0
      OBVIOUS
    <3> QED BY <2>1, <3>1, FS_EmptySet
  <2>3. ASSUME NEW x \in s PROVE s \ {x} \in Q
    <3>1. Cardinality(s \ {x}) = n
      BY <1>1, <2>1, FS_RemoveElement
    <3> QED BY <3>1
  <2> QED BY <2>2, <2>3
<1>4. N = Nat
  <2> HIDE DEF N
  <2>1. N \in SUBSET Nat
    BY DEF N
  <2> QED BY <1>2, <1>3, <2>1, Induction
<1> QED BY <1>1, <1>4

Pick(s) == CHOOSE x \in s : TRUE

\* What is picked is in the set.
LEMMA PickIn == \A s : s # {} => Pick(s) \in s
  BY DEF Pick

\* What the fold of + over the values of f is, for every set in D.
SumsUp(g, f, D) == g = [s \in D |-> IF s = {} THEN 0 ELSE f[Pick(s)] + g[s \ {Pick(s)}]]

\* A sum is the value of its fold for the whole set.
LEMMA SumIs ==
  ASSUME NEW f, NEW S
  PROVE  SumFunctionOnSet(f, S) = (CHOOSE g : SumsUp(g, f, SUBSET S))[S]
BY DEF SumFunctionOnSet, FoldFunctionOnSet, MapThenFoldSet, SumsUp, Pick

\* A fold over a finite set is defined.
LEMMA SumExists ==
  ASSUME NEW f, NEW S, IsFiniteSet(S)
  PROVE  \E g : SumsUp(g, f, SUBSET S)
<1> DEFINE Level(n) == {s \in SUBSET S : Cardinality(s) <= n}
           N == {n \in Nat : \E g : SumsUp(g, f, Level(n))}
<1>1. \A s \in SUBSET S : IsFiniteSet(s) /\ Cardinality(s) \in Nat
  BY FS_Subset, FS_CardinalityType
<1>2. 0 \in N
  <2>1. \A s \in Level(0) : s = {}
    BY <1>1, FS_EmptySet
  <2>2. SumsUp([s \in Level(0) |-> 0], f, Level(0))
    BY <2>1 DEF SumsUp
  <2> QED BY <2>2
<1>3. ASSUME NEW n \in N PROVE n + 1 \in N
  <2>1. PICK g : SumsUp(g, f, Level(n))
    OBVIOUS
  <2> DEFINE h == [s \in Level(n + 1) |-> IF s = {} THEN 0 ELSE f[Pick(s)] + g[s \ {Pick(s)}]]
  <2>2. \A s \in Level(n) : s \in Level(n + 1) /\ g[s] = h[s]
    <3>1. \A s \in Level(n) : s \in Level(n + 1)
      BY <1>1
    <3> HIDE DEF Level
    <3>2. \A s \in Level(n) : g[s] = IF s = {} THEN 0 ELSE f[Pick(s)] + g[s \ {Pick(s)}]
      BY <2>1 DEF SumsUp
    <3> QED BY <3>1, <3>2
  <2>3. ASSUME NEW s \in Level(n + 1), s # {} PROVE s \ {Pick(s)} \in Level(n)
    <3>1. Cardinality(s \ {Pick(s)}) = Cardinality(s) - 1
      BY <1>1, <2>3, PickIn, FS_RemoveElement
    <3> QED BY <3>1, <1>1
  <2>4. \A s \in Level(n + 1) : s # {} => g[s \ {Pick(s)}] = h[s \ {Pick(s)}]
    <3> HIDE DEF Level, h
    <3> QED BY <2>2, <2>3
  <2>5. h = [s \in Level(n + 1) |-> IF s = {} THEN 0 ELSE f[Pick(s)] + h[s \ {Pick(s)}]]
    <3> HIDE DEF Level
    <3>1. \A s \in Level(n + 1) : h[s] = IF s = {} THEN 0 ELSE f[Pick(s)] + h[s \ {Pick(s)}]
      <4>1. \A s \in Level(n + 1) : h[s] = IF s = {} THEN 0 ELSE f[Pick(s)] + g[s \ {Pick(s)}]
        OBVIOUS
      <4> HIDE DEF h
      <4> QED BY <4>1, <2>4
    <3>2. h = [s \in Level(n + 1) |-> h[s]]
      OBVIOUS
    <3> HIDE DEF h
    <3> QED BY <3>1, <3>2
  <2>6. SumsUp(h, f, Level(n + 1))
    <3> HIDE DEF h, Level
    <3> QED BY <2>5 DEF SumsUp
  <2>7. n + 1 \in Nat
    OBVIOUS
  <2> HIDE DEF h, Level
  <2> QED BY <2>6, <2>7
<1>4. N = Nat
  <2> HIDE DEF N
  <2>1. N \in SUBSET Nat
    BY DEF N
  <2> QED BY <1>2, <1>3, <2>1, Induction
<1>5. Level(Cardinality(S)) = SUBSET S
  BY <1>1, FS_Subset
<1>6. Cardinality(S) \in N
  <2> HIDE DEF N
  <2> QED BY <1>1, <1>4
<1> QED BY <1>5, <1>6

\* It is what SumFunctionOnSet gives.
LEMMA SumOf ==
  ASSUME NEW f, NEW S, IsFiniteSet(S)
  PROVE  \E g : SumsUp(g, f, SUBSET S) /\ SumFunctionOnSet(f, S) = g[S]
  BY SumExists, SumIs

SameOn(f, e, S) == \A x \in S : f[x] = e[x]

\* Two folds agree where their functions do.
LEMMA AddsAgree ==
  ASSUME NEW S, IsFiniteSet(S), NEW T, S \subseteq T, NEW f, NEW e, SameOn(f, e, S),
         NEW g, NEW h, SumsUp(g, f, SUBSET S), SumsUp(h, e, SUBSET T)
  PROVE  \A s \in SUBSET S : g[s] = h[s]
<1> DEFINE Q == {s \in SUBSET S : g[s] = h[s]}
<1>1. \A s \in SUBSET S : g[s] = IF s = {} THEN 0 ELSE f[Pick(s)] + g[s \ {Pick(s)}]
  BY DEF SumsUp
<1>2. \A s \in SUBSET S : h[s] = IF s = {} THEN 0 ELSE e[Pick(s)] + h[s \ {Pick(s)}]
  BY DEF SumsUp
<1>3. {} \in Q
  BY <1>1, <1>2
<1>4. ASSUME NEW s \in SUBSET S, s # {}, \A x \in s : s \ {x} \in Q PROVE s \in Q
  BY <1>1, <1>2, <1>4, PickIn DEF SameOn
<1>5. \A s \in SUBSET S : s \in Q
  <2> HIDE DEF Q
  <2> QED BY <1>3, <1>4, SubsetInduction
<1> QED BY <1>5

\* A sum depends on the values that are summed up, and on nothing else.
LEMMA SumSame ==
  ASSUME NEW S, IsFiniteSet(S), NEW f, NEW e, \A x \in S : f[x] = e[x]
  PROVE  SumFunctionOnSet(f, S) = SumFunctionOnSet(e, S)
<1>1. PICK g : SumsUp(g, f, SUBSET S) /\ SumFunctionOnSet(f, S) = g[S]
  BY SumOf
<1>2. PICK h : SumsUp(h, e, SUBSET S) /\ SumFunctionOnSet(e, S) = h[S]
  BY SumOf
<1>3. \A s \in SUBSET S : g[s] = h[s]
  <2>1. S \subseteq S /\ SameOn(f, e, S)
    BY DEF SameOn
  <2> QED BY <1>1, <1>2, <2>1, AddsAgree
<1> QED BY <1>1, <1>2, <1>3

\* The recursion of the fold.
LEMMA SumPick ==
  ASSUME NEW S, IsFiniteSet(S), NEW f
  PROVE  SumFunctionOnSet(f, S) =
           IF S = {} THEN 0 ELSE f[Pick(S)] + SumFunctionOnSet(f, S \ {Pick(S)})
<1> DEFINE T == S \ {Pick(S)}
<1>1. PICK g : SumsUp(g, f, SUBSET S) /\ SumFunctionOnSet(f, S) = g[S]
  BY SumOf
<1>2. IsFiniteSet(T)
  BY FS_Subset
<1>3. PICK h : SumsUp(h, f, SUBSET T) /\ SumFunctionOnSet(f, T) = h[T]
  BY <1>2, SumOf
<1>4. \A s \in SUBSET T : h[s] = g[s]
  <2>1. T \subseteq S /\ SameOn(f, f, T)
    BY DEF SameOn
  <2> HIDE DEF T
  <2> QED BY <1>1, <1>2, <1>3, <2>1, AddsAgree
<1>5. g[S] = IF S = {} THEN 0 ELSE f[Pick(S)] + g[T]
  BY <1>1 DEF SumsUp
<1> QED BY <1>1, <1>3, <1>4, <1>5

\* The sum of no numbers is zero.
LEMMA SumNone == \A f : SumFunctionOnSet(f, {}) = 0
<1> TAKE f
<1>1. IsFiniteSet({})
  BY FS_EmptySet
<1> QED BY <1>1, SumPick

\* The sum of numbers is a number.
LEMMA SumInt ==
  ASSUME NEW S, IsFiniteSet(S), NEW f, \A x \in S : f[x] \in Int
  PROVE  SumFunctionOnSet(f, S) \in Int
<1> DEFINE Q == {s \in SUBSET S : SumFunctionOnSet(f, s) \in Int}
<1>1. \A s \in SUBSET S : IsFiniteSet(s)
  BY FS_Subset
<1>2. {} \in Q
  BY SumNone
<1>3. ASSUME NEW s \in SUBSET S, s # {}, \A x \in s : s \ {x} \in Q PROVE s \in Q
  <2>1. Pick(s) \in s
    BY <1>3, PickIn
  <2>2. SumFunctionOnSet(f, s) = f[Pick(s)] + SumFunctionOnSet(f, s \ {Pick(s)})
    BY <1>1, <1>3, SumPick
  <2> QED BY <1>3, <2>1, <2>2
<1>4. \A s \in SUBSET S : s \in Q
  <2> HIDE DEF Q
  <2> QED BY <1>2, <1>3, SubsetInduction
<1> QED BY <1>4

\* The order in which the values are taken is of no account.
LEMMA SumRemove ==
  ASSUME NEW S, IsFiniteSet(S), NEW f, \A x \in S : f[x] \in Int
  PROVE  \A x \in S : SumFunctionOnSet(f, S) = f[x] + SumFunctionOnSet(f, S \ {x})
<1> DEFINE Of(s) == SumFunctionOnSet(f, s)
           Q == {s \in SUBSET S : \A x \in s : Of(s) = f[x] + Of(s \ {x})}
<1>1. \A s \in SUBSET S : IsFiniteSet(s)
  BY FS_Subset
<1>2. \A s \in SUBSET S : Of(s) \in Int
  BY <1>1, SumInt
<1>3. {} \in Q
  OBVIOUS
<1>4. ASSUME NEW s \in SUBSET S, s # {}, \A x \in s : s \ {x} \in Q PROVE s \in Q
  <2> DEFINE p == Pick(s)
  <2>1. p \in s /\ Of(s) = f[p] + Of(s \ {p})
    BY <1>1, <1>4, PickIn, SumPick
  <2> HIDE DEF p, Of
  <2>2. SUFFICES ASSUME NEW x \in s, x # p PROVE Of(s) = f[x] + Of(s \ {x})
    BY <2>1
  <2>3. Of(s \ {p}) = f[x] + Of((s \ {p}) \ {x})
    BY <1>4, <2>1, <2>2
  <2>4. Of(s \ {x}) = f[p] + Of((s \ {x}) \ {p})
    BY <1>4, <2>1, <2>2
  <2>5. (s \ {p}) \ {x} = (s \ {x}) \ {p}
    OBVIOUS
  <2>6. f[x] \in Int /\ f[p] \in Int /\ Of((s \ {x}) \ {p}) \in Int
    BY <1>2, <2>1
  <2>7. Of(s) = f[p] + (f[x] + Of((s \ {x}) \ {p}))
    BY <2>1, <2>3, <2>5
  <2>8. Of(s) = f[x] + (f[p] + Of((s \ {x}) \ {p}))
    BY <2>6, <2>7
  <2> QED BY <2>4, <2>8
<1>5. \A s \in SUBSET S : s \in Q
  <2> HIDE DEF Q
  <2> QED BY <1>3, <1>4, SubsetInduction
<1> QED BY <1>5

\* Sums are added value by value.
LEMMA SumPlus ==
  ASSUME NEW S, IsFiniteSet(S), NEW f, NEW e, NEW d,
         \A x \in S : f[x] \in Int /\ e[x] \in Int /\ d[x] = f[x] + e[x]
  PROVE  SumFunctionOnSet(d, S) = SumFunctionOnSet(f, S) + SumFunctionOnSet(e, S)
<1> DEFINE Of(c, s) == SumFunctionOnSet(c, s)
           Q == {s \in SUBSET S : Of(d, s) = Of(f, s) + Of(e, s)}
<1>1. \A s \in SUBSET S : IsFiniteSet(s)
  BY FS_Subset
<1>2. \A s \in SUBSET S : Of(f, s) \in Int /\ Of(e, s) \in Int
  BY <1>1, SumInt
<1>3. {} \in Q
  BY SumNone
<1>4. ASSUME NEW s \in SUBSET S, s # {}, \A x \in s : s \ {x} \in Q PROVE s \in Q
  <2> DEFINE p == Pick(s)
  <2>1. p \in s
    BY <1>4, PickIn
  <2>2. /\ Of(f, s) = f[p] + Of(f, s \ {p})
        /\ Of(e, s) = e[p] + Of(e, s \ {p})
        /\ Of(d, s) = d[p] + Of(d, s \ {p})
    BY <1>1, <1>4, SumPick
  <2> HIDE DEF p, Of
  <2>3. Of(d, s \ {p}) = Of(f, s \ {p}) + Of(e, s \ {p})
    BY <1>4, <2>1
  <2>4. Of(f, s \ {p}) \in Int /\ Of(e, s \ {p}) \in Int /\ f[p] \in Int /\ e[p] \in Int /\ d[p] = f[p] + e[p]
    BY <1>2, <2>1
  <2> QED BY <2>2, <2>3, <2>4
<1>5. \A s \in SUBSET S : s \in Q
  <2> HIDE DEF Q
  <2> QED BY <1>3, <1>4, SubsetInduction
<1> QED BY <1>5

\* Values that are zero may be left out.
LEMMA SumWithout ==
  ASSUME NEW S, IsFiniteSet(S), NEW f, \A x \in S : f[x] \in Int, NEW T \in SUBSET S, \A x \in S \ T : f[x] = 0
  PROVE  SumFunctionOnSet(f, S) = SumFunctionOnSet(f, T)
<1> DEFINE Of(s) == SumFunctionOnSet(f, s)
           Q == {s \in SUBSET (S \ T) : Of(T \cup s) = Of(T)}
<1>1. \A s \in SUBSET S : IsFiniteSet(s)
  BY FS_Subset
<1>2. \A s \in SUBSET S : Of(s) \in Int
  BY <1>1, SumInt
<1>3. {} \in Q
  OBVIOUS
<1>4. ASSUME NEW s \in SUBSET (S \ T), s # {}, \A x \in s : s \ {x} \in Q PROVE s \in Q
  <2>1. PICK x \in s : TRUE
    BY <1>4
  <2>2. Of(T \cup s) = f[x] + Of((T \cup s) \ {x})
    <3>1. T \cup s \in SUBSET S /\ x \in T \cup s
      BY <2>1
    <3> QED BY <1>1, <3>1, SumRemove
  <2>3. (T \cup s) \ {x} = T \cup (s \ {x})
    BY <2>1
  <2>4. f[x] = 0 /\ Of(T) \in Int
    BY <1>2
  <2>5. Of(T \cup (s \ {x})) = Of(T)
    BY <1>4, <2>1
  <2> HIDE DEF Of
  <2>6. Of((T \cup s) \ {x}) = Of(T)
    BY <2>3, <2>5
  <2>7. Of(T \cup s) = Of(T)
    BY <2>2, <2>4, <2>6
  <2> QED BY <2>7
<1>5. \A s \in SUBSET (S \ T) : s \in Q
  <2>1. IsFiniteSet(S \ T)
    BY <1>1
  <2> HIDE DEF Q
  <2> QED BY <1>3, <1>4, <2>1, SubsetInduction
<1>6. T \cup (S \ T) = S
  OBVIOUS
<1>7. S \ T \in Q
  <2> HIDE DEF Q
  <2> QED BY <1>5
<1>8. Of(T \cup (S \ T)) = Of(T)
  <2> HIDE DEF Of
  <2> QED BY <1>7
<1> QED BY <1>6, <1>8

\* A sum of smaller values is smaller.
LEMMA SumLess ==
  ASSUME NEW S, IsFiniteSet(S), NEW f, NEW e, \A x \in S : f[x] \in Int /\ e[x] \in Int /\ f[x] <= e[x]
  PROVE  SumFunctionOnSet(f, S) <= SumFunctionOnSet(e, S)
<1> DEFINE Of(c, s) == SumFunctionOnSet(c, s)
           Q == {s \in SUBSET S : Of(f, s) <= Of(e, s)}
<1>1. \A s \in SUBSET S : IsFiniteSet(s)
  BY FS_Subset
<1>2. \A s \in SUBSET S : Of(f, s) \in Int /\ Of(e, s) \in Int
  BY <1>1, SumInt
<1>3. {} \in Q
  BY SumNone
<1>4. ASSUME NEW s \in SUBSET S, s # {}, \A x \in s : s \ {x} \in Q PROVE s \in Q
  <2> DEFINE p == Pick(s)
  <2>1. p \in s
    BY <1>4, PickIn
  <2>2. /\ Of(f, s) = f[p] + Of(f, s \ {p})
        /\ Of(e, s) = e[p] + Of(e, s \ {p})
    BY <1>1, <1>4, SumPick
  <2> HIDE DEF p, Of
  <2>3. Of(f, s \ {p}) <= Of(e, s \ {p})
    BY <1>4, <2>1
  <2>4. Of(f, s \ {p}) \in Int /\ Of(e, s \ {p}) \in Int /\ f[p] \in Int /\ e[p] \in Int /\ f[p] <= e[p]
    BY <1>2, <2>1
  <2> QED BY <2>2, <2>3, <2>4
<1>5. \A s \in SUBSET S : s \in Q
  <2> HIDE DEF Q
  <2> QED BY <1>3, <1>4, SubsetInduction
<1> QED BY <1>5

\* Things that are counted kind by kind are all counted, each once.
LEMMA SumCount ==
  ASSUME NEW D, IsFiniteSet(D), NEW K, IsFiniteSet(K), NEW h, \A n \in D : h[n] \in K
  PROVE  SumFunctionOnSet([k \in K |-> Cardinality({n \in D : h[n] = k})], K) = Cardinality(D)
<1> DEFINE F(s) == [k \in K |-> Cardinality({n \in s : h[n] = k})]
           Of(s) == SumFunctionOnSet(F(s), K)
           Q == {s \in SUBSET D : Of(s) = Cardinality(s)}
<1>1. \A s \in SUBSET D : IsFiniteSet(s) /\ Cardinality(s) \in Nat
  BY FS_Subset, FS_CardinalityType
<1>2. ASSUME NEW s \in SUBSET D, NEW k \in K PROVE F(s)[k] \in Nat
  <2>1. {n \in s : h[n] = k} \in SUBSET D
    OBVIOUS
  <2> QED BY <1>1, <2>1
<1>3. {} \in Q
  <2>1. \A k \in K : {n \in {} : h[n] = k} = {}
    OBVIOUS
  <2>2. \A k \in K : F({})[k] = 0
    BY <2>1, FS_EmptySet
  <2>3. Of({}) = SumFunctionOnSet(F({}), {})
    <3>1. \A x \in K : F({})[x] \in Int
      BY <2>2
    <3> HIDE DEF F
    <3> QED BY <2>2, <3>1, SumWithout
  <2>4. Of({}) = 0
    BY <2>3, SumPick, FS_EmptySet
  <2> QED BY <2>4, FS_EmptySet
<1>4. ASSUME NEW s \in SUBSET D, s # {}, \A x \in s : s \ {x} \in Q PROVE s \in Q
  <2>1. PICK x \in s : TRUE
    BY <1>4
  <2> DEFINE t == s \ {x}  k == h[x]
  <2>2. k \in K /\ t \in SUBSET D
    BY <2>1
  <2>3. F(s)[k] = F(t)[k] + 1
    <3>1. {n \in s : h[n] = k} \ {x} = {n \in t : h[n] = k}
      OBVIOUS
    <3>2. {n \in s : h[n] = k} \in SUBSET D /\ x \in {n \in s : h[n] = k}
      BY <2>1
    <3>3. Cardinality({n \in t : h[n] = k}) = Cardinality({n \in s : h[n] = k}) - 1
      BY <1>1, <3>1, <3>2, FS_RemoveElement
    <3>4. F(s)[k] = Cardinality({n \in s : h[n] = k}) /\ F(t)[k] = Cardinality({n \in t : h[n] = k})
      BY <2>2
    <3>5. Cardinality({n \in s : h[n] = k}) \in Nat
      BY <1>1, <3>2
    <3> HIDE DEF F, k, t
    <3> QED BY <3>3, <3>4, <3>5
  <2>4. \A j \in K \ {k} : F(s)[j] = F(t)[j]
    <3>1. \A j \in K \ {k} : {n \in s : h[n] = j} = {n \in t : h[n] = j}
      OBVIOUS
    <3> QED BY <3>1
  <2>5. \A j \in K : F(s)[j] \in Int /\ F(t)[j] \in Int
    <3> HIDE DEF F, t
    <3> QED BY <1>2, <2>2
  <2> DEFINE rest == SumFunctionOnSet(F(s), K \ {k})
  <2>6. Of(s) = F(s)[k] + rest
    <3> HIDE DEF F, k, t
    <3> QED BY <2>2, <2>5, SumRemove
  <2>7. Of(t) = F(t)[k] + SumFunctionOnSet(F(t), K \ {k})
    <3> HIDE DEF F, k, t
    <3> QED BY <2>2, <2>5, SumRemove
  <2>8. rest = SumFunctionOnSet(F(t), K \ {k})
    <3>1. IsFiniteSet(K \ {k})
      BY FS_Subset
    <3> HIDE DEF F, k, t
    <3> QED BY <2>4, <3>1, SumSame
  <2>9. rest \in Int
    <3>1. IsFiniteSet(K \ {k})
      BY FS_Subset
    <3> HIDE DEF F, k, t
    <3> QED BY <2>5, <3>1, SumInt
  <2>10. Of(t) = Cardinality(s) - 1
    BY <1>1, <1>4, <2>1, FS_RemoveElement
  <2>11. F(t)[k] \in Int /\ Cardinality(s) \in Int
    BY <1>1, <2>2, <2>5
  <2> HIDE DEF F, Of, k, t, rest
  <2>12. Of(s) = Cardinality(s)
    BY <2>3, <2>6, <2>7, <2>8, <2>9, <2>10, <2>11
  <2> QED BY <2>12
<1>5. \A s \in SUBSET D : s \in Q
  <2> HIDE DEF Q
  <2> QED BY <1>3, <1>4, SubsetInduction
<1> QED BY <1>5

\* A set of numbers has a least one.
LEMMA MinIn ==
  ASSUME NEW N \in SUBSET Nat, N # {}
  PROVE  Min(N) \in N /\ \A n \in N : Min(N) <= n
<1>1. PICK x \in N : \A y \in N : ~(<<y, x>> \in Before)
  BY BeforeWF, WFMin
<1>2. ASSUME NEW y \in N PROVE x <= y
  <2>1. x \in Nat /\ y \in Nat /\ <<y, x>> \in Nat \X Nat
    OBVIOUS
  <2>2. ~(y < x)
    BY <1>1, <2>1 DEF Before
  <2> QED BY <2>1, <2>2
<1>3. \E z \in N : \A y \in N : z <= y
  BY <1>2
<1> QED BY <1>3 DEF Min

-----------------------------------------------------------------------------
(* What a transaction sees, and identifiers *)

\* What the queries of a session m run on, the committed rows being q,
View(q, m) == [id \in Id |->
  IF id \in DOMAIN m.new THEN m.new[id] ELSE FilledIf(q[id], m.filled, id)]

\* what its commit leaves, if no component is read any more,
Final(q, m) == [id \in Id |-> FilledIf(View(q, m)[id], m.fills, id)]

\* and the objects it judges by.
Held(q, m) == [id \in Id |-> IF id \in DOMAIN m.held THEN m.held[id] ELSE View(q, m)[id]]

\* The model's operators are these.
LEMMA DbIsView == \A i : Db(i) = View(product, import[i])
  BY DEF Db, View

\* The same of the objects.
LEMMA MemoryIsHeld == \A i : Memory(i) = Held(product, import[i])
  BY DbIsView DEF Memory, Held

Fill == [purl : Purl \cup {None}, cpe : STRING \cup {None}]

\* The PURL of a row says the row's version, and not where it is installed.
Canon(p) == p.purl # None => Canonical(p.purl, p.version) = p.purl

\* What is filled in says the version of the row.
Proper(p, f) == f.purl # None => Canonical(f.purl, p.version) = f.purl

\* The row lacks what is filled in.
Lacks(p, f) == (f.purl # None => p.purl = None) /\ (f.cpe # None => p.cpe = None)

\* q is p with, at most, identifiers that p lacked.
Keeps(p, q) ==
  /\ Human(q) = Human(p)
  /\ p.purl # None => q.purl = p.purl
  /\ p.cpe # None => q.cpe = p.cpe

\* The product p has the identifiers, and without any the name, of a row.
Says(row, p)  == (row.purl # None => p.purl = row.purl) /\ (row.cpe # None => p.cpe = row.cpe)
Named(row, p) == row.purl = None /\ row.cpe = None => Human(p) = Human(row)

-----------------------------------------------------------------------------
(* Rows and identifiers *)

\* A canonical PURL names no place of installation and the version that is known.
LEMMA CanonicalType ==
  ASSUME NEW u \in Purl, NEW v \in STRING \cup {Unknown, None}
  PROVE  /\ Canonical(u, v) \in Purl
         /\ Canonical(u, v).install = None
         /\ Canonical(u, v).at = IF u.at = None /\ v # Unknown THEN v ELSE u.at
<1>1. (u.at = None /\ v # Unknown) => v \in STRING \cup {None}
  OBVIOUS
<1> QED BY <1>1 DEF Canonical, Purl

\* A component makes a row, and its PURL is canonical.
LEMMA RowIsRow ==
  ASSUME NEW x \in Component
  PROVE  Row(x) \in Rows /\ Canon(Row(x))
<1>1. VersionOf(x) \in STRING \cup {Unknown}
  BY DEF VersionOf, Component, Purl
<1>2. x.purl # None => x.purl \in Purl /\ Canonical(x.purl, x.version) \in Purl
  BY CanonicalType DEF Component
<1>3. Row(x) \in Rows
  BY <1>1, <1>2 DEF Row, Rows, Component
<1>4. ASSUME x.purl # None PROVE Canonical(Canonical(x.purl, x.version), VersionOf(x)) = Canonical(x.purl, x.version)
  <2> DEFINE u == Canonical(x.purl, x.version)
  <2>1. /\ u \in Purl /\ u.install = None
        /\ u.at = IF x.purl.at = None /\ x.version # Unknown THEN x.version ELSE x.purl.at
    BY <1>2, <1>4, CanonicalType DEF Component
  <2>2. u.at = None => VersionOf(x) = Unknown
    BY <1>4, <2>1 DEF VersionOf
  <2> HIDE DEF u
  <2>3. Canonical(u, VersionOf(x)) = u
    BY <2>1, <2>2 DEF Canonical, Purl
  <2> QED BY <2>3 DEF u
<1>5. Canon(Row(x))
  BY <1>4 DEF Canon, Row
<1> QED BY <1>3, <1>5

\* Identifiers that are filled in leave the rest of a row alone.
LEMMA FilledRow ==
  ASSUME NEW p \in Rows, NEW f \in Fill
  PROVE  /\ Filled(p, f) \in Rows
         /\ Human(Filled(p, f)) = Human(p)
         /\ Filled(p, f).version = p.version
         /\ Filled(p, f).purl = IF f.purl = None THEN p.purl ELSE f.purl
         /\ Filled(p, f).cpe = IF f.cpe = None THEN p.cpe ELSE f.cpe
  BY DEF Filled, Rows, Fill, Human

\* Filling in twice is filling in what both say, the later one first.
LEMMA FilledFill ==
  ASSUME NEW e \in Fill, NEW f \in Fill
  PROVE  /\ Filled(e, f) \in Fill
         /\ \A p \in Rows : Filled(p, Filled(e, f)) = Filled(Filled(p, e), f)
<1>1. /\ Filled(e, f) \in Fill
      /\ Filled(e, f).purl = IF f.purl = None THEN e.purl ELSE f.purl
      /\ Filled(e, f).cpe = IF f.cpe = None THEN e.cpe ELSE f.cpe
  BY DEF Filled, Fill
<1>2. ASSUME NEW p \in Rows PROVE Filled(p, Filled(e, f)) = Filled(Filled(p, e), f)
  <2> DEFINE a == Filled(p, Filled(e, f))  b == Filled(Filled(p, e), f)
  <2>1. a \in Rows /\ b \in Rows /\ Human(a) = Human(p) /\ Human(b) = Human(p)
    BY <1>1, FilledRow
  <2>2. a.purl = b.purl /\ a.cpe = b.cpe
    BY <1>1, FilledRow
  <2> HIDE DEF a, b
  <2>3. a.type = b.type /\ a.vendor = b.vendor /\ a.name = b.name /\ a.version = b.version
    BY <2>1 DEF Human
  <2>4. a = b
    BY <2>1, <2>2, <2>3 DEF Rows
  <2> QED BY <2>4 DEF a, b
<1> QED BY <1>1, <1>2

\* What a product lacks can be filled in.
LEMMA LackingFill ==
  ASSUME NEW p \in Rows, NEW row \in Rows
  PROVE  Lacking(p, row) \in Fill
  BY DEF Lacking, Rows, Fill

\* To fill in nothing changes nothing.
LEMMA NothingFilled == NoFill \in Fill /\ \A p \in Rows : Filled(p, NoFill) = p
<1>1. NoFill \in Fill
  BY DEF NoFill, Fill
<1>2. ASSUME NEW p \in Rows PROVE Filled(p, NoFill) = p
  <2> DEFINE q == Filled(p, NoFill)
  <2>1. NoFill.purl = None /\ NoFill.cpe = None
    BY DEF NoFill
  <2>2. q \in Rows /\ Human(q) = Human(p) /\ q.purl = p.purl /\ q.cpe = p.cpe
    BY <1>1, <2>1, FilledRow
  <2> HIDE DEF q
  <2>3. q.type = p.type /\ q.vendor = p.vendor /\ q.name = p.name /\ q.version = p.version
    BY <2>2 DEF Human
  <2>4. q = p
    BY <2>2, <2>3 DEF Rows
  <2> QED BY <2>4 DEF q
<1> QED BY <1>1, <1>2

\* What is proper for a row keeps its PURL canonical, and what it lacks adds to
\* it only.
LEMMA FilledIsProper ==
  ASSUME NEW p \in Rows, NEW f \in Fill
  PROVE  /\ Canon(p) /\ Proper(p, f) => Canon(Filled(p, f))
         /\ Lacks(p, f) => Keeps(p, Filled(p, f))
  BY FilledRow DEF Canon, Proper, Lacks, Keeps

\* The same of what is filled in one after the other.
LEMMA FilledTwice ==
  ASSUME NEW p \in Rows, NEW e \in Fill, NEW f \in Fill
  PROVE  /\ Proper(p, e) /\ Proper(p, f) => Proper(p, Filled(e, f))
         /\ Lacks(p, e) /\ Lacks(Filled(p, e), f) => Lacks(p, Filled(e, f))
<1>1. /\ Filled(e, f).purl = IF f.purl = None THEN e.purl ELSE f.purl
      /\ Filled(e, f).cpe = IF f.cpe = None THEN e.cpe ELSE f.cpe
  BY DEF Filled, Fill
<1> QED BY <1>1, FilledRow DEF Proper, Lacks

\* What is proper for a row is proper for every row of its version.
LEMMA ProperByVersion ==
  ASSUME NEW p, NEW q, NEW f, Human(p) = Human(q), Proper(p, f)
  PROVE  Proper(q, f)
<1>1. p.version = q.version
  BY DEF Human
<1> QED BY <1>1 DEF Proper

\* Of rows whose PURLs are canonical, a match that is no conflict has the
\* identifiers of the component, or lacks them.
LEMMA MatchAgrees ==
  ASSUME NEW p \in Rows, Canon(p), NEW row \in Rows, Named(row, p), Matching(p, row), ~Conflicting(p, row)
  PROVE  /\ row.purl # None /\ p.purl # None => p.purl = row.purl
         /\ row.cpe # None /\ p.cpe # None => p.cpe = row.cpe
         /\ p.purl = None => p.version = row.version
<1>1. SamePurl(p, row) => p.purl = row.purl
  BY DEF SamePurl, Canon
<1>2. SameCpe(p, row) => p.cpe = row.cpe /\ p.version = row.version
  BY DEF SameCpe, Conflicting
<1>3. CASE SamePurl(p, row)
  BY <1>1, <1>3 DEF SamePurl, Conflicting
<1>4. CASE SameCpe(p, row) /\ ~SamePurl(p, row)
  BY <1>2, <1>4 DEF SameCpe, Conflicting
<1>5. CASE ~SamePurl(p, row) /\ ~SameCpe(p, row) /\ Human(p) = Human(row)
  <2>1. HasIdentifier(row) => ~HasIdentifier(p)
    BY <1>5 DEF Conflicting
  <2>2. p.version = row.version
    BY <1>5 DEF Human
  <2> QED BY <1>5, <2>1, <2>2 DEF HasIdentifier
<1>6. CASE ~SamePurl(p, row) /\ ~SameCpe(p, row) /\ Human(p) # Human(row)
  <2>1. ~HasIdentifier(row)
    BY <1>6 DEF Matching
  <2> QED BY <1>6, <2>1 DEF HasIdentifier, Named
<1> QED BY <1>3, <1>4, <1>5, <1>6

\* A candidate for a component without identifiers has its name.
LEMMA CandidateNamed ==
  ASSUME NEW d, NEW p, Human(p) = Human(d), NEW row, Candidate(d, row)
  PROVE  Named(row, p)
  BY DEF Named, Candidate, SameCpe

\* What is filled in is proper, lacks in the product, and makes it fit.
LEMMA FilledFits ==
  ASSUME NEW p \in Rows, Canon(p), NEW row \in Rows, Canon(row),
         Named(row, p), Matching(p, row), ~Conflicting(p, row)
  PROVE  LET f == Lacking(p, row)
         IN  /\ f \in Fill /\ Proper(p, f) /\ Lacks(p, f)
             /\ Says(row, Filled(p, f)) /\ Named(row, Filled(p, f))
<1> DEFINE f == Lacking(p, row)
           q == Filled(p, f)
<1>1. f \in Fill /\ f.purl = (IF p.purl = None THEN row.purl ELSE None) /\ f.cpe = (IF p.cpe = None THEN row.cpe ELSE None)
  BY LackingFill DEF Lacking
<1> HIDE DEF f
<1>2. /\ Human(q) = Human(p)
      /\ q.purl = IF f.purl = None THEN p.purl ELSE f.purl
      /\ q.cpe = IF f.cpe = None THEN p.cpe ELSE f.cpe
  BY <1>1, FilledRow
<1> HIDE DEF q
<1>3. /\ row.purl # None /\ p.purl # None => p.purl = row.purl
      /\ row.cpe # None /\ p.cpe # None => p.cpe = row.cpe
      /\ p.purl = None => p.version = row.version
  BY MatchAgrees
<1>4. Says(row, q) /\ Named(row, q)
  BY <1>1, <1>2, <1>3 DEF Says, Named
<1>5. Proper(p, f) /\ Lacks(p, f)
  BY <1>1, <1>3 DEF Proper, Canon, Lacks
<1> QED BY <1>1, <1>4, <1>5 DEF q, f

\* A product that was only completed still says what it said.
LEMMA FitsKept ==
  ASSUME NEW p, NEW q, NEW row
  PROVE  /\ Keeps(p, q) /\ Says(row, p) => Says(row, q)
         /\ Human(q) = Human(p) /\ Named(row, p) => Named(row, q)
  BY DEF Keeps, Says, Named

-----------------------------------------------------------------------------
(* Documents and transactions *)

\* Documents are lists of components, and that of a check is named for it.
LEMMA ItemsType == \A d \in Document : Items(d) \in Seq(Component)
<1>1. ASSUME NEW u \in Upload PROVE Items(u) \in Seq(Component)
  <2>1. u \notin Check
    BY DocumentsAssumption
  <2> QED BY <2>1, ContentAssumption DEF Items, Content, Document
<1>2. ASSUME NEW c \in Check PROVE Items(c) \in Seq(Component)
  <2> DEFINE P == Installed[c]
  <2>1. P \in Seq([name : STRING, version : STRING])
    BY ContentAssumption
  <2>2. /\ AssetName[c] \in STRING /\ Tag[c] \in STRING /\ Distro[c] \in STRING /\ OsRelease[c] \in STRING
        /\ SupplierOf[Distro[c]] \in STRING \cup {None}
    BY ContentAssumption
  <2>3. AssetItem(c) \in Component
    <3>1. [space |-> "generic", name |-> "eolwatch-host", at |-> Tag[c], install |-> None] \in Purl
      BY <2>2, WordsAssumption DEF Purl
    <3> QED BY <2>2, <3>1, WordsAssumption DEF AssetItem, Component
  <2>4. ASSUME NEW n \in DOMAIN P PROVE PackageItem(c, P[n]) \in Component
    <3> DEFINE p == P[n]  T == [name : STRING, version : STRING]
    <3>1. p \in T
      <4>1. P \in Seq(T)
        BY <2>1
      <4> HIDE DEF P, T
      <4> QED BY <2>4, <4>1
    <3>2. p.name \in STRING /\ p.version \in STRING
      BY <3>1
    <3> HIDE DEF p
    <3>3. [space |-> Distro[c], name |-> p.name, at |-> p.version, install |-> OsRelease[c]] \in Purl
      BY <2>2, <3>2 DEF Purl
    <3>4. PackageItem(c, p) \in Component
      BY <2>2, <3>2, <3>3, WordsAssumption DEF PackageItem, Component
    <3> QED BY <3>4 DEF p
  <2>5. DOMAIN P = 1..Len(P) /\ Len(P) \in Nat
    BY <2>1
  <2>6. [n \in DOMAIN P |-> PackageItem(c, P[n])] \in Seq(Component)
    <3> HIDE DEF P
    <3> QED BY <2>4, <2>5
  <2>7. <<AssetItem(c)>> \in Seq(Component)
    BY <2>3
  <2>8. Items(c) = <<AssetItem(c)>> \o [n \in DOMAIN P |-> PackageItem(c, P[n])]
    BY DEF Items, Content, Document, CheckDocument
  <2> HIDE DEF P
  <2> QED BY <2>6, <2>7, <2>8, ConcatProperties
<1> QED BY <1>1, <1>2 DEF Document

\* Documents are sequences.
LEMMA LenItems == \A d \in Document : Len(Items(d)) \in Nat /\ DOMAIN Items(d) = 1..Len(Items(d))
  BY ItemsType, LenProperties

\* The document of a check has the serial of the check.
LEMMA SerialOfCheck == \A c \in Check : Content[c].serial = c /\ c \in Document
  BY DEF Content, Document, CheckDocument

\* Serials are those of documents.
LEMMA SerialType == \A d \in Document : Content[d].serial \in Serial
  BY DEF Serial

\* Functions of some products.
Partial(T) == UNION {[D -> T] : D \in SUBSET Id}

\* What a function of some products is.
LEMMA PartialIs ==
  ASSUME NEW T, NEW f \in Partial(T)
  PROVE  DOMAIN f \subseteq Id /\ \A k \in DOMAIN f : f[k] \in T
  BY DEF Partial

\* A transaction that has written nothing.
LEMMA NoneIsPartial == \A T : <<>> \in Partial(T) /\ DOMAIN <<>> = {}
<1> TAKE T
<1>1. <<>> \in [{} -> T]
  OBVIOUS
<1> QED BY <1>1 DEF Partial

\* One product more.
LEMMA ExtendedIsPartial ==
  ASSUME NEW T, NEW f \in Partial(T), NEW id \in Id, NEW v \in T
  PROVE  /\ Extended(f, id, v) \in Partial(T)
         /\ DOMAIN Extended(f, id, v) = DOMAIN f \cup {id}
         /\ \A k \in DOMAIN f \cup {id} : Extended(f, id, v)[k] = IF k = id THEN v ELSE f[k]
<1>1. DOMAIN f \cup {id} \in SUBSET Id /\ \A k \in DOMAIN f : f[k] \in T
  BY PartialIs
<1>2. Extended(f, id, v) \in [DOMAIN f \cup {id} -> T]
  BY <1>1 DEF Extended
<1> QED BY <1>1, <1>2 DEF Extended, Partial

Transaction ==
  [pc : {"idle", "read", "flush", "link"}, of : Document \cup {None}, products : Seq(Id),
   held : Partial(Rows), fills : Partial(Fill), insert : Rows \cup {None}, new : Partial(Rows), filled : Partial(Fill)]

\* A session: how far it is, what it is about to insert, and the objects it
\* holds as long as they are modified.
Shape(m) ==
  /\ m \in Transaction
  /\ m.pc # "idle" => m.of \in Document
  /\ m.pc = "link" => m.of \in Check
  /\ m.pc \in {"read", "flush"} => Len(m.products) <= Len(Items(m.of))
  /\ m.pc = "flush" => Len(m.products) < Len(Items(m.of))
  /\ m.pc = "flush" <=> m.insert # None
  /\ DOMAIN m.fills \subseteq DOMAIN m.held

\* What it has inserted is not there for others, what it has filled in is, and
\* so are the objects it holds and the products of its components.
There(q, m, id) == id \in DOMAIN m.new \/ q[id] # None
Backed(q, m) ==
  /\ \A id \in DOMAIN m.new : q[id] = None
  /\ \A id \in DOMAIN m.filled : q[id] # None
  /\ \A id \in DOMAIN m.held : There(q, m, id)
  /\ \A n \in DOMAIN m.products : There(q, m, m.products[n])

\* A request without a transaction.
LEMMA IdleShape == Shape(Idle) /\ \A q : Backed(q, Idle)
<1>1. <<>> \in Seq(Id) /\ DOMAIN <<>> = {}
  OBVIOUS
<1> QED BY <1>1, NoneIsPartial DEF Shape, Transaction, Idle, Backed

\* What a session is made of.
LEMMA SessionParts ==
  ASSUME NEW m, Shape(m)
  PROVE  /\ m.products \in Seq(Id) /\ m.insert \in Rows \cup {None}
         /\ DOMAIN m.held \subseteq Id /\ \A id \in DOMAIN m.held : m.held[id] \in Rows
         /\ DOMAIN m.fills \subseteq Id /\ \A id \in DOMAIN m.fills : m.fills[id] \in Fill
         /\ DOMAIN m.new \subseteq Id /\ \A id \in DOMAIN m.new : m.new[id] \in Rows
         /\ DOMAIN m.filled \subseteq Id /\ \A id \in DOMAIN m.filled : m.filled[id] \in Fill
<1>1. m \in Transaction
  BY DEF Shape
<1>2. m.held \in Partial(Rows) /\ m.fills \in Partial(Fill) /\ m.new \in Partial(Rows) /\ m.filled \in Partial(Fill)
  BY <1>1 DEF Transaction
<1> QED BY <1>1, <1>2, PartialIs DEF Transaction

\* What a transaction sees are products, those of others among them, by the
\* names they have.
LEMMA ViewType ==
  ASSUME NEW q \in [Id -> Rows \cup {None}], NEW m, Shape(m), Backed(q, m)
  PROVE  /\ View(q, m) \in [Id -> Rows \cup {None}]
         /\ \A id \in Id : View(q, m)[id] # None <=> There(q, m, id)
         /\ \A id \in Id : q[id] # None => Human(View(q, m)[id]) = Human(q[id])
<1>1. None \notin Rows
  BY DocumentsAssumption
<1>2. ASSUME NEW id \in Id
      PROVE  /\ View(q, m)[id] \in Rows \cup {None}
             /\ View(q, m)[id] # None <=> There(q, m, id)
             /\ q[id] # None => Human(View(q, m)[id]) = Human(q[id])
  <2>1. CASE id \in DOMAIN m.new
    <3>1. View(q, m)[id] = m.new[id] /\ q[id] = None
      BY <2>1 DEF View, Backed
    <3>2. m.new[id] \in Rows
      BY <2>1, SessionParts
    <3> QED BY <1>1, <2>1, <3>1, <3>2 DEF There
  <2>2. CASE id \notin DOMAIN m.new /\ id \in DOMAIN m.filled
    <3>1. View(q, m)[id] = Filled(q[id], m.filled[id]) /\ q[id] \in Rows
      BY <2>2 DEF View, FilledIf, Backed
    <3>2. m.filled[id] \in Fill
      BY <2>2, SessionParts
    <3> QED BY <1>1, <2>2, <3>1, <3>2, FilledRow DEF There
  <2>3. CASE id \notin DOMAIN m.new /\ id \notin DOMAIN m.filled
    BY <2>3 DEF View, FilledIf, There
  <2> QED BY <2>1, <2>2, <2>3
<1>3. View(q, m) = [id \in Id |-> View(q, m)[id]]
  BY DEF View
<1> QED BY <1>2, <1>3

\* So are what a commit would leave, and the objects.
LEMMA FinalType ==
  ASSUME NEW q \in [Id -> Rows \cup {None}], NEW m, Shape(m), Backed(q, m), NEW id \in Id
  PROVE  /\ Final(q, m)[id] \in Rows \cup {None}
         /\ Final(q, m)[id] # None <=> There(q, m, id)
         /\ There(q, m, id) => Human(Final(q, m)[id]) = Human(View(q, m)[id])
         /\ Held(q, m)[id] \in Rows \cup {None}
         /\ Held(q, m)[id] # None <=> There(q, m, id)
<1>1. None \notin Rows
  BY DocumentsAssumption
<1>2. View(q, m)[id] \in Rows \cup {None} /\ (View(q, m)[id] # None <=> There(q, m, id))
  BY ViewType
<1>3. CASE id \in DOMAIN m.fills
  <2>1. m.fills[id] \in Fill /\ id \in DOMAIN m.held
    BY <1>3, SessionParts DEF Shape
  <2>2. There(q, m, id) /\ View(q, m)[id] \in Rows
    BY <1>2, <2>1 DEF Backed
  <2>3. Final(q, m)[id] = Filled(View(q, m)[id], m.fills[id])
    BY <1>3 DEF Final, FilledIf
  <2>4. Held(q, m)[id] = m.held[id] /\ m.held[id] \in Rows
    BY <2>1, SessionParts DEF Held
  <2> QED BY <1>1, <2>1, <2>2, <2>3, <2>4, FilledRow
<1>4. CASE id \notin DOMAIN m.fills
  <2>1. Final(q, m)[id] = View(q, m)[id]
    BY <1>4 DEF Final, FilledIf
  <2>2. id \in DOMAIN m.held => There(q, m, id) /\ Held(q, m)[id] = m.held[id] /\ m.held[id] \in Rows
    BY SessionParts DEF Held, Backed
  <2>3. id \notin DOMAIN m.held => Held(q, m)[id] = View(q, m)[id]
    BY DEF Held
  <2> QED BY <1>1, <1>2, <2>1, <2>2, <2>3
<1> QED BY <1>3, <1>4

-----------------------------------------------------------------------------
(* What is stored, and the sessions *)

AnswerOK(a) == a = None \/ (a.kind \in Kinds /\ a.of \in Document)

\* A stored document: its components have products among q.
EntryOK(q, s, e) ==
  /\ Content[e.of].serial = s
  /\ e.check \in {None, e.of}
  /\ Len(e.products) = Len(Items(e.of))
  /\ \A n \in DOMAIN e.products : q[e.products[n]] # None

Tables ==
  /\ product \in [Id -> Rows \cup {None}]
  /\ document \in [Serial -> Entry \cup {None}]
  /\ AnswerOK(answer)
  /\ \A s \in Serial : document[s] # None => EntryOK(product, s, document[s])
  /\ raced \subseteq Id

Transactions ==
  /\ import \in [Importer -> Transaction]
  /\ \A i \in Importer : Shape(import[i]) /\ Backed(product, import[i])

\* No two transactions insert one row.
Separate == \A i, j \in Importer : i # j => DOMAIN import[i].new \cap DOMAIN import[j].new = {}

Open(m) == m.pc \in {"read", "flush"}
SerialOf(m) == Content[m.of].serial

\* The row of a document is one transaction's until it is committed, and of
\* the document it was linked for after that.
Serials ==
  \A i \in Importer :
    /\ Open(import[i]) =>
         /\ document[SerialOf(import[i])] = None
         /\ \A j \in Importer : j # i /\ Open(import[j]) => SerialOf(import[j]) # SerialOf(import[i])
    /\ import[i].pc = "link" => document[import[i].of] # None /\ document[import[i].of].of = import[i].of

\* The invariant about what is there.
Sound == Tables /\ Transactions /\ Separate /\ Serials

\* The type invariant is a part of it.
LEMMA SoundType == Sound => DocumentsTypeOK
<1> SUFFICES ASSUME Sound PROVE DocumentsTypeOK
  OBVIOUS
<1>1. (\A id \in Id : product[id] = None \/ product[id] \in Rows) /\ raced \subseteq Id
  BY DEF Sound, Tables
<1>2. answer = None \/ (answer.kind \in Kinds /\ answer.of \in Document)
  BY DEF Sound, Tables, AnswerOK
<1>3. \A s \in Stored : /\ document[s] \in Entry /\ Content[document[s].of].serial = s
                        /\ document[s].check \in {None, document[s].of}
                        /\ Len(document[s].products) = Len(Items(document[s].of))
  BY DEF Sound, Tables, EntryOK, Stored
<1>4. ASSUME NEW i \in Importer
      PROVE  /\ import[i].pc \in {"idle", "read", "flush", "link"} /\ import[i].of \in Document \cup {None}
             /\ DOMAIN import[i].held \cup DOMAIN import[i].fills \subseteq Id /\ Wrote(i) \subseteq Id
  <2>1. import[i] \in Transaction /\ Shape(import[i])
    BY DEF Sound, Transactions
  <2> QED BY <2>1, SessionParts DEF Transaction, Wrote
<1> QED BY <1>1, <1>2, <1>3, <1>4 DEF DocumentsTypeOK

\* It holds at first,
LEMMA SoundInit == DocumentsInit => Sound
<1> SUFFICES ASSUME DocumentsInit PROVE Sound
  OBVIOUS
<1> USE DEF DocumentsInit
<1>1. \A i \in Importer : import[i] = Idle /\ Shape(import[i]) /\ Backed(product, import[i])
  BY IdleShape
<1>2. Idle \in Transaction
  BY IdleShape DEF Shape
<1>3. Tables
  BY DEF Tables, AnswerOK
<1>4. Transactions
  BY <1>1, <1>2 DEF Transactions
<1>5. Separate
  BY <1>1, NoneIsPartial DEF Separate, Idle
<1>6. Serials
  BY <1>1 DEF Serials, Open, Idle
<1> QED BY <1>3, <1>4, <1>5, <1>6 DEF Sound

\* A step of one transaction that commits nothing.
LEMMA SoundAlone ==
  ASSUME Sound, NEW i \in Importer, NEW m, Shape(m), Backed(product, m),
         Open(m) => Open(import[i]) /\ m.of = import[i].of,
         m.pc # "link",
         \A j \in Importer : j # i => DOMAIN m.new \cap DOMAIN import[j].new = {},
         product' = product, document' = document, raced' = raced, import' = [import EXCEPT ![i] = m],
         AnswerOK(answer')
  PROVE  Sound'
<1>1. m \in Transaction /\ import \in [Importer -> Transaction]
  BY DEF Shape, Sound, Transactions
<1>2. import'[i] = m /\ \A j \in Importer : j # i => import'[j] = import[j]
  BY <1>1
<1>3. Tables'
  BY DEF Tables, Sound, Serial
<1>4. Transactions'
  <2>1. import' \in [Importer -> Transaction]
    BY <1>1
  <2>2. \A j \in Importer : Shape(import'[j]) /\ Backed(product, import'[j])
    BY <1>2 DEF Sound, Transactions
  <2> QED BY <2>1, <2>2 DEF Transactions
<1>5. Separate'
  BY <1>2 DEF Separate, Sound
<1>6. Serials'
  <2>1. ASSUME NEW j \in Importer, Open(import'[j])
        PROVE  Open(import[j]) /\ SerialOf(import'[j]) = SerialOf(import[j])
    BY <1>2, <2>1 DEF SerialOf
  <2>2. \A j \in Importer : import'[j].pc = "link" => import'[j] = import[j]
    BY <1>2
  <2> QED BY <2>1, <2>2 DEF Serials, Sound
<1> QED BY <1>3, <1>4, <1>5, <1>6 DEF Sound

\* A transaction that ends.
LEMMA SoundEnds ==
  ASSUME Sound, NEW i \in Importer, NEW kind \in Kinds, import[i].pc # "idle",
         Ends(i, kind), UNCHANGED <<product, document, raced>>
  PROVE  Sound'
<1>1. import[i].of \in Document
  BY DEF Sound, Transactions, Shape
<1>2. AnswerOK(answer')
  BY <1>1 DEF Ends, AnswerOK
<1>3. Shape(Idle) /\ Backed(product, Idle) /\ ~Open(Idle) /\ Idle.pc # "link" /\ DOMAIN Idle.new = {}
  BY IdleShape, NoneIsPartial DEF Idle, Open
<1> QED BY <1>2, <1>3, SoundAlone DEF Ends

\* A refusal of the database has an answer.
LEMMA IntegrityKind == \A d : Integrity(d) \in Kinds
  BY DEF Integrity, Kinds

\* and when a document is begun.
LEMMA SoundBegins ==
  ASSUME Sound, NEW i \in Importer, NEW d \in Document, Begins(i, d)
  PROVE  Sound'
<1> DEFINE s == Content[d].serial
           m == IF document[s] = None THEN [Idle EXCEPT !.pc = "read", !.of = d] ELSE Idle
<1>1. /\ import[i].pc = "idle"
      /\ import' = [import EXCEPT ![i] = m]
      /\ answer' = IF document[s] = None THEN None ELSE [kind |-> Integrity(d), of |-> d]
      /\ product' = product /\ document' = document /\ raced' = raced
      /\ \A j \in InFlight : Content[import[j].of].serial # s
  BY DEF Begins
<1>2. m \in Transaction /\ Shape(m) /\ Backed(product, m) /\ DOMAIN m.new = {} /\ m.pc # "link"
      /\ (Open(m) => document[s] = None /\ m.of = d)
  <2>1. CASE document[s] # None
    BY <2>1, IdleShape, NoneIsPartial DEF Idle, Open, Shape
  <2>2. CASE document[s] = None
    <3>1. Idle \in Transaction /\ Backed(product, Idle)
      BY IdleShape DEF Shape
    <3>2. m \in Transaction /\ m.pc = "read" /\ m.of = d /\ m.new = <<>> /\ m.filled = <<>> /\ m.products = <<>>
          /\ m.held = <<>> /\ m.fills = <<>> /\ m.insert = None
      BY <2>2, <3>1 DEF Idle, Transaction
    <3>3. Len(m.products) = 0 /\ Len(Items(d)) \in Nat
      BY <3>2, LenItems
    <3> HIDE DEF m
    <3>4. Shape(m)
      BY <3>2, <3>3 DEF Shape
    <3>5. Backed(product, m)
      BY <3>1, <3>2 DEF Backed, Idle
    <3> QED BY <2>2, <3>2, <3>4, <3>5, NoneIsPartial
  <2> QED BY <2>1, <2>2
<1>3. AnswerOK(answer')
  BY <1>1, IntegrityKind DEF AnswerOK
<1> HIDE DEF m
<1>4. import \in [Importer -> Transaction]
  BY DEF Sound, Transactions
<1>5. import'[i] = m /\ \A j \in Importer : j # i => import'[j] = import[j]
  BY <1>1, <1>4
<1>6. Tables'
  BY <1>1, <1>3 DEF Tables, Sound, Serial
<1>7. Transactions'
  <2>1. import' \in [Importer -> Transaction]
    BY <1>1, <1>2, <1>4
  <2>2. \A j \in Importer : Shape(import'[j]) /\ Backed(product, import'[j])
    BY <1>2, <1>5 DEF Sound, Transactions
  <2> QED BY <1>1, <2>1, <2>2 DEF Transactions
<1>8. Separate'
  BY <1>2, <1>5 DEF Separate, Sound
<1>9. Serials'
  <2>1. \A j \in Importer : j # i /\ Open(import[j]) => SerialOf(import[j]) # s
    BY <1>1 DEF InFlight, Open, SerialOf
  <2>2. Open(m) => SerialOf(m) = s /\ document[s] = None
    BY <1>2 DEF SerialOf
  <2>3. ASSUME NEW j \in Importer, Open(import'[j])
        PROVE  /\ document[SerialOf(import'[j])] = None
               /\ \A k \in Importer : k # j /\ Open(import'[k]) => SerialOf(import'[k]) # SerialOf(import'[j])
    <3>1. CASE j = i
      BY <1>5, <2>1, <2>2, <2>3, <3>1
    <3>2. CASE j # i
      BY <1>5, <2>1, <2>2, <2>3, <3>2 DEF Sound, Serials
    <3> QED BY <3>1, <3>2
  <2>4. \A j \in Importer : import'[j].pc = "link" => import'[j] = import[j]
    BY <1>2, <1>5
  <2> QED BY <1>1, <2>3, <2>4 DEF Serials, Sound
<1> QED BY <1>6, <1>7, <1>8, <1>9 DEF Sound

\* The same of rows,
LEMMA ExtendedRows ==
  ASSUME NEW f \in Partial(Rows), NEW id \in Id, NEW v \in Rows
  PROVE  /\ Extended(f, id, v) \in Partial(Rows)
         /\ DOMAIN Extended(f, id, v) = DOMAIN f \cup {id}
         /\ \A k \in DOMAIN f \cup {id} : Extended(f, id, v)[k] = IF k = id THEN v ELSE f[k]
<1>1. \A T : f \in Partial(T) /\ v \in T => Extended(f, id, v) \in Partial(T)
  BY ExtendedIsPartial
<1>2. Extended(f, id, v) \in Partial(Rows)
  BY <1>1
<1> QED BY <1>2 DEF Extended

\* and of what is filled in.
LEMMA ExtendedFill ==
  ASSUME NEW f \in Partial(Fill), NEW id \in Id, NEW v \in Fill
  PROVE  /\ Extended(f, id, v) \in Partial(Fill)
         /\ DOMAIN Extended(f, id, v) = DOMAIN f \cup {id}
         /\ \A k \in DOMAIN f \cup {id} : Extended(f, id, v)[k] = IF k = id THEN v ELSE f[k]
<1>1. \A T : f \in Partial(T) /\ v \in T => Extended(f, id, v) \in Partial(T)
  BY ExtendedIsPartial
<1>2. Extended(f, id, v) \in Partial(Fill)
  BY <1>1
<1> QED BY <1>2 DEF Extended

-----------------------------------------------------------------------------
(* What each step does to a session *)

\* What a session is, and what it sees.
LEMMA OpenFacts ==
  ASSUME Sound, NEW i \in Importer
  PROVE  /\ import[i] \in Transaction /\ Shape(import[i]) /\ Backed(product, import[i])
         /\ import[i].products \in Seq(Id)
         /\ Db(i) = View(product, import[i]) /\ Memory(i) = Held(product, import[i])
         /\ product \in [Id -> Rows \cup {None}]
         /\ Db(i) \in [Id -> Rows \cup {None}]
         /\ \A id \in Id : Db(i)[id] # None <=> There(product, import[i], id)
         /\ \A id \in Id : product[id] # None => Human(Db(i)[id]) = Human(product[id])
<1>1. import[i] \in Transaction /\ Shape(import[i]) /\ Backed(product, import[i]) /\ product \in [Id -> Rows \cup {None}]
  BY DEF Sound, Transactions, Tables
<1>2. Db(i) = View(product, import[i]) /\ Memory(i) = Held(product, import[i])
  BY DbIsView, MemoryIsHeld
<1> QED BY <1>1, <1>2, ViewType, SessionParts

\* The component that is being read.
LEMMA CurrentFacts ==
  ASSUME Sound, NEW i \in Importer, Reading(i)
  PROVE  /\ Current(i) \in Component
         /\ Row(Current(i)) \in Rows /\ Canon(Row(Current(i)))
         /\ Current(i) = Items(import[i].of)[Len(import[i].products) + 1]
         /\ import[i].pc = "read" /\ import[i].of \in Document /\ Len(import[i].products) \in Nat
         /\ Len(import[i].products) < Len(Items(import[i].of))
<1>1. /\ import[i].pc = "read" /\ import[i].of \in Document /\ import[i].products \in Seq(Id)
      /\ Len(import[i].products) < Len(Items(import[i].of))
  BY OpenFacts DEF Reading, Shape
<1>2. Len(import[i].products) \in Nat
  BY <1>1
<1>3. Items(import[i].of) \in Seq(Component) /\ Len(import[i].products) + 1 \in 1..Len(Items(import[i].of))
  BY <1>1, <1>2, ItemsType, LenItems
<1>4. Current(i) \in Component
  BY <1>3, ElementOfSeq DEF Current
<1> QED BY <1>1, <1>2, <1>4, RowIsRow DEF Current

\* Candidates and matches are products one sees, and so are their objects.
LEMMA CandidateFacts ==
  ASSUME Sound, NEW i \in Importer, NEW row
  PROVE  /\ Matches(i, row) \subseteq Candidates(i, row)
         /\ \A id \in Candidates(i, row) :
              /\ id \in Id /\ There(product, import[i], id)
              /\ Db(i)[id] \in Rows /\ Memory(i)[id] \in Rows
              /\ Candidate(Db(i)[id], row)
         /\ \A id \in Matches(i, row) : Matching(Memory(i)[id], row)
<1>1. \A id \in Id : Db(i)[id] # None => Memory(i)[id] \in Rows
  <2>1. ASSUME NEW id \in Id, Db(i)[id] # None PROVE Memory(i)[id] \in Rows
    <3>1. There(product, import[i], id) /\ Memory(i)[id] = Held(product, import[i])[id]
      BY <2>1, OpenFacts
    <3> QED BY <3>1, OpenFacts, FinalType
  <2> QED BY <2>1
<1> QED BY <1>1, OpenFacts DEF Matches, Candidates

\* One product more of a document.
LEMMA AppendFacts ==
  ASSUME NEW s \in Seq(Id), NEW id \in Id
  PROVE  /\ Append(s, id) \in Seq(Id)
         /\ Len(Append(s, id)) = Len(s) + 1 /\ Len(s) \in Nat
         /\ \A n \in DOMAIN Append(s, id) :
              \/ n = Len(s) + 1 /\ Append(s, id)[n] = id
              \/ n \in DOMAIN s /\ Append(s, id)[n] = s[n]
  OBVIOUS

\* Nothing is filled in, if it is so in no object.
LEMMA NoFills ==
  ASSUME NEW m, Shape(m)
  PROVE  m.fills = <<>> <=> DOMAIN m.fills = {}
<1>1. m.fills \in Partial(Fill)
  BY DEF Shape, Transaction
<1>2. PICK D \in SUBSET Id : m.fills \in [D -> Fill]
  BY <1>1 DEF Partial
<1>3. ASSUME DOMAIN m.fills = {} PROVE m.fills = <<>>
  <2>1. D = {}
    BY <1>2, <1>3
  <2>2. m.fills \in [{} -> Fill]
    BY <1>2, <2>1
  <2>3. <<>> \in [{} -> Fill]
    OBVIOUS
  <2> QED BY <2>2, <2>3
<1>4. m.fills = <<>> => DOMAIN m.fills = {}
  BY NoneIsPartial
<1> QED BY <1>3, <1>4

\* What one session i takes from its product id, and fills in, in memory.
AttachedTo(i, id, f, m) ==
  LET me == import[i]
  IN /\ m \in Transaction /\ m.pc = "read" /\ m.of = me.of /\ m.products = Append(me.products, id)
     /\ m.insert = me.insert /\ m.new = me.new /\ m.filled = me.filled
     /\ DOMAIN m.held = DOMAIN m.fills \cup {id}
     /\ \A k \in DOMAIN m.held : m.held[k] = IF k = id THEN Filled(Memory(i)[id], f) ELSE me.held[k]
     /\ \A k \in Id : k # id => (k \in DOMAIN m.fills <=> k \in DOMAIN me.fills)
     /\ \A k \in DOMAIN m.fills : k # id => m.fills[k] = me.fills[k]
     /\ IF f = NoFill THEN m.fills = me.fills
        ELSE id \in DOMAIN m.fills /\ m.fills[id] = IF id \in DOMAIN me.fills THEN Filled(me.fills[id], f) ELSE f

\* A component is attached to one product, the only match.
LEMMA AttachesEffect ==
  ASSUME Sound, NEW i \in Importer, Attaches(i)
  PROVE  \E id \in Matches(i, Row(Current(i))), m \in Transaction :
           /\ import' = [import EXCEPT ![i] = m]
           /\ Lacking(Memory(i)[id], Row(Current(i))) \in Fill
           /\ AttachedTo(i, id, Lacking(Memory(i)[id], Row(Current(i))), m)
<1> DEFINE me == import[i]
           row == Row(Current(i))
<1>1. PICK id \in Matches(i, row) :
        LET f == Lacking(Memory(i)[id], row)
            g == IF f = NoFill THEN me.fills ELSE Also(me.fills, id, f)
        IN import' = [import EXCEPT ![i] = [me EXCEPT !.products = Append(@, id), !.fills = g,
             !.held = [k \in DOMAIN g \cup {id} |-> IF k = id THEN Filled(Memory(i)[id], f) ELSE @[k]]]]
  BY DEF Attaches
<1> DEFINE p == Memory(i)[id]
           f == Lacking(p, row)
           g == IF f = NoFill THEN me.fills ELSE Also(me.fills, id, f)
           h == [k \in DOMAIN g \cup {id} |-> IF k = id THEN Filled(p, f) ELSE me.held[k]]
           m == [me EXCEPT !.products = Append(@, id), !.fills = g, !.held = h]
<1>2. import' = [import EXCEPT ![i] = m]
  BY <1>1
<1>3. Reading(i)
  BY DEF Attaches
<1>4. me \in Transaction /\ Shape(me) /\ Backed(product, me) /\ me.products \in Seq(Id) /\ me.pc = "read"
  BY <1>3, OpenFacts, CurrentFacts
<1>5. row \in Rows /\ id \in Id /\ p \in Rows
  BY <1>3, CurrentFacts, CandidateFacts
<1> HIDE DEF p, row
<1>6. f \in Fill /\ Filled(p, f) \in Rows
  BY <1>5, LackingFill, FilledRow
<1> HIDE DEF f, me
<1>7. me.fills \in Partial(Fill) /\ me.held \in Partial(Rows) /\ DOMAIN me.fills \subseteq DOMAIN me.held
  BY <1>4 DEF Transaction, Shape
<1>8. /\ g \in Partial(Fill)
      /\ \A k \in Id : k # id => (k \in DOMAIN g <=> k \in DOMAIN me.fills)
      /\ \A k \in DOMAIN g : k # id => g[k] = me.fills[k]
      /\ f # NoFill => id \in DOMAIN g /\ g[id] = IF id \in DOMAIN me.fills THEN Filled(me.fills[id], f) ELSE f
  <2>1. CASE f = NoFill
    BY <1>7, <2>1
  <2>2. CASE f # NoFill
    <3> DEFINE v == IF id \in DOMAIN me.fills THEN Filled(me.fills[id], f) ELSE f
    <3>1. v \in Fill
      <4>1. id \in DOMAIN me.fills => me.fills[id] \in Fill
        BY <1>7, PartialIs
      <4> QED BY <1>6, <4>1, FilledFill
    <3>2. g = Extended(me.fills, id, v)
      BY <2>2 DEF Also
    <3> HIDE DEF v, g
    <3>3. /\ g \in Partial(Fill)
          /\ DOMAIN g = DOMAIN me.fills \cup {id}
          /\ \A k \in DOMAIN me.fills \cup {id} : g[k] = IF k = id THEN v ELSE me.fills[k]
      <4>1. Extended(me.fills, id, v) \in Partial(Fill)
        BY <1>5, <1>7, <3>1, ExtendedFill
      <4> QED BY <3>2, <4>1 DEF Extended
    <3> QED BY <2>2, <3>3 DEF v
  <2> HIDE DEF g
  <2> QED BY <2>1, <2>2
<1> HIDE DEF g
<1>9. DOMAIN g \subseteq Id /\ \A k \in DOMAIN g : k # id => k \in DOMAIN me.held /\ me.held[k] \in Rows
  BY <1>7, <1>8, PartialIs
<1>10. h \in Partial(Rows)
  <2>1. h \in [DOMAIN g \cup {id} -> Rows]
    BY <1>6, <1>9
  <2>2. DOMAIN g \cup {id} \in SUBSET Id
    BY <1>5, <1>9
  <2> HIDE DEF h
  <2> QED BY <2>1, <2>2 DEF Partial
<1>11. DOMAIN h = DOMAIN g \cup {id} /\ \A k \in DOMAIN h : h[k] = IF k = id THEN Filled(p, f) ELSE me.held[k]
  OBVIOUS
<1> HIDE DEF h
<1>12. Append(me.products, id) \in Seq(Id)
  BY <1>4, <1>5, AppendFacts
<1>13. /\ m \in Transaction /\ m.pc = "read" /\ m.of = me.of /\ m.products = Append(me.products, id)
       /\ m.insert = me.insert /\ m.new = me.new /\ m.filled = me.filled /\ m.fills = g /\ m.held = h
  BY <1>4, <1>8, <1>10, <1>12 DEF Transaction
<1> HIDE DEF m
<1>14. f = NoFill => m.fills = me.fills
  BY <1>13 DEF g
<1>15. AttachedTo(i, id, f, m)
  BY <1>8, <1>11, <1>13, <1>14 DEF AttachedTo, me, p
<1> QED BY <1>2, <1>6, <1>13, <1>15 DEF f, p, row

\* One UPDATE: what is filled in one object goes into its row.
UpdatedTo(i, t, m) ==
  LET me == import[i]
  IN /\ m \in Transaction /\ t \in DOMAIN me.fills
     /\ m.pc = me.pc /\ m.of = me.of /\ m.products = me.products /\ m.held = me.held /\ m.insert = me.insert
     /\ DOMAIN m.fills = DOMAIN me.fills \ {t} /\ \A k \in DOMAIN m.fills : m.fills[k] = me.fills[k]
     /\ DOMAIN m.new = DOMAIN me.new
     /\ \A k \in DOMAIN m.new : m.new[k] = IF k = t THEN Filled(me.new[t], me.fills[t]) ELSE me.new[k]
     /\ DOMAIN m.filled = DOMAIN me.filled \cup ({t} \ DOMAIN me.new)
     /\ \A k \in DOMAIN m.filled : m.filled[k] =
          IF k # t \/ t \in DOMAIN me.new THEN me.filled[k]
          ELSE IF t \in DOMAIN me.filled THEN Filled(me.filled[t], me.fills[t]) ELSE me.fills[t]

\* That is what the statement does.
LEMMA UpdatesEffect ==
  ASSUME Sound, NEW i \in Importer, Updates(i)
  PROVE  \E t \in Id, m \in Transaction : import' = [import EXCEPT ![i] = m] /\ UpdatedTo(i, t, m)
<1> DEFINE me == import[i]
           t == Target(i)
           v == Value(i)
           fills == [k \in DOMAIN me.fills \ {t} |-> me.fills[k]]
           new == IF t \in DOMAIN me.new THEN Extended(me.new, t, v) ELSE me.new
           filled == IF t \in DOMAIN me.new THEN me.filled ELSE Also(me.filled, t, me.fills[t])
           m == [me EXCEPT !.fills = fills, !.new = new, !.filled = filled]
<1>1. me.fills # <<>> /\ import' = [import EXCEPT ![i] = m]
  BY DEF Updates
<1>2. me \in Transaction /\ Shape(me) /\ Backed(product, me)
  BY OpenFacts
<1>3. t \in DOMAIN me.fills /\ t \in Id
  <2>1. DOMAIN me.fills # {} /\ DOMAIN me.fills \subseteq Id
    BY <1>1, <1>2, NoFills, SessionParts
  <2>2. DOMAIN me.fills \in SUBSET Nat
    BY <2>1, DocumentsAssumption DEF Id
  <2>3. t = Min(DOMAIN me.fills)
    BY <1>1 DEF Target
  <2> HIDE DEF t, me
  <2> QED BY <2>1, <2>2, <2>3, MinIn
<1>4. v = Filled(Db(i)[t], me.fills[t])
  BY <1>1 DEF Value
<1>5. me.fills[t] \in Fill /\ me.fills \in Partial(Fill) /\ me.new \in Partial(Rows) /\ me.filled \in Partial(Fill)
  BY <1>2, <1>3, SessionParts DEF Transaction
<1>6. v \in Rows /\ (t \in DOMAIN me.new => Db(i)[t] = me.new[t])
  <2>1. Db(i)[t] \in Rows
    BY <1>2, <1>3, OpenFacts DEF Backed, Shape
  <2>2. t \in DOMAIN me.new => Db(i)[t] = me.new[t]
    BY <1>3 DEF Db
  <2> HIDE DEF v, t
  <2> QED BY <1>4, <1>5, <2>1, <2>2, FilledRow
<1> HIDE DEF me, t, v
<1>7. fills \in Partial(Fill) /\ DOMAIN fills = DOMAIN me.fills \ {t} /\ \A k \in DOMAIN fills : fills[k] = me.fills[k]
  <2>1. DOMAIN me.fills \subseteq Id /\ \A k \in DOMAIN me.fills : me.fills[k] \in Fill
    BY <1>5, PartialIs
  <2>2. fills \in [DOMAIN me.fills \ {t} -> Fill]
    BY <2>1
  <2>3. fills \in Partial(Fill)
    <3>1. DOMAIN me.fills \ {t} \in SUBSET Id
      BY <2>1
    <3> HIDE DEF fills
    <3> QED BY <2>2, <3>1 DEF Partial
  <2> QED BY <2>3
<1>8. /\ new \in Partial(Rows) /\ DOMAIN new = DOMAIN me.new
      /\ \A k \in DOMAIN new : new[k] = IF k = t THEN Filled(me.new[t], me.fills[t]) ELSE me.new[k]
  <2>1. CASE t \in DOMAIN me.new
    <3>1. new = Extended(me.new, t, v) /\ v = Filled(me.new[t], me.fills[t])
      BY <1>4, <1>6, <2>1
    <3>2. Extended(me.new, t, v) \in Partial(Rows)
      BY <1>3, <1>5, <1>6, ExtendedRows
    <3> HIDE DEF new
    <3> QED BY <2>1, <3>1, <3>2 DEF Extended
  <2>2. CASE t \notin DOMAIN me.new
    BY <1>5, <2>2
  <2> QED BY <2>1, <2>2
<1>9. /\ filled \in Partial(Fill) /\ DOMAIN filled = DOMAIN me.filled \cup ({t} \ DOMAIN me.new)
      /\ \A k \in DOMAIN filled : filled[k] =
           IF k # t \/ t \in DOMAIN me.new THEN me.filled[k]
           ELSE IF t \in DOMAIN me.filled THEN Filled(me.filled[t], me.fills[t]) ELSE me.fills[t]
  <2>1. CASE t \in DOMAIN me.new
    BY <1>5, <2>1
  <2>2. CASE t \notin DOMAIN me.new
    <3> DEFINE g == IF t \in DOMAIN me.filled THEN Filled(me.filled[t], me.fills[t]) ELSE me.fills[t]
    <3>1. g \in Fill
      <4>1. t \in DOMAIN me.filled => me.filled[t] \in Fill
        BY <1>5, PartialIs
      <4> QED BY <1>5, <4>1, FilledFill
    <3>2. filled = Extended(me.filled, t, g)
      BY <2>2 DEF Also
    <3> HIDE DEF filled, g
    <3>3. /\ filled \in Partial(Fill) /\ DOMAIN filled = DOMAIN me.filled \cup {t}
          /\ \A k \in DOMAIN me.filled \cup {t} : filled[k] = IF k = t THEN g ELSE me.filled[k]
      <4>1. Extended(me.filled, t, g) \in Partial(Fill)
        BY <1>3, <1>5, <3>1, ExtendedFill
      <4> QED BY <3>2, <4>1 DEF Extended
    <3> QED BY <2>2, <3>3 DEF g
  <2> QED BY <2>1, <2>2
<1> HIDE DEF fills, new, filled
<1>10. /\ m \in Transaction /\ m.pc = me.pc /\ m.of = me.of /\ m.products = me.products
       /\ m.held = me.held /\ m.insert = me.insert
       /\ m.fills = fills /\ m.new = new /\ m.filled = filled
  BY <1>2, <1>7, <1>8, <1>9 DEF Transaction
<1> HIDE DEF m
<1>11. UpdatedTo(i, t, m)
  BY <1>3, <1>7, <1>8, <1>9, <1>10 DEF UpdatedTo, me
<1> QED BY <1>1, <1>3, <1>10, <1>11

\* One INSERT: the row gets a free id, and the object is held.
InsertedAs(i, id, m) ==
  LET me == import[i]
  IN /\ m \in Transaction /\ id \in FreeIds /\ me.insert \in Rows
     /\ me.fills = <<>> /\ m.fills = <<>> /\ m.filled = me.filled
     /\ m.pc = "read" /\ m.of = me.of /\ m.products = Append(me.products, id) /\ m.insert = None
     /\ DOMAIN m.new = DOMAIN me.new \cup {id}
     /\ \A k \in DOMAIN m.new : m.new[k] = IF k = id THEN me.insert ELSE me.new[k]
     /\ DOMAIN m.held = {id} /\ m.held[id] = me.insert

\* That is what the statement does.
LEMMA InsertsEffect ==
  ASSUME Sound, NEW i \in Importer, Inserts(i)
  PROVE  /\ \E id \in Id, m \in Transaction : import' = [import EXCEPT ![i] = m] /\ InsertedAs(i, id, m)
         /\ import[i].pc = "flush"
<1> DEFINE me == import[i]
           id == Min(FreeIds)
           new == Extended(me.new, id, me.insert)
           held == Extended(<<>>, id, me.insert)
           m == [me EXCEPT !.pc = "read", !.insert = None, !.new = new, !.products = Append(@, id), !.held = held]
<1>1. me.fills = <<>> /\ FreeIds # {} /\ Flushing(i) /\ import' = [import EXCEPT ![i] = m]
  BY DEF Inserts, Runs
<1>2. me \in Transaction /\ Shape(me) /\ me.products \in Seq(Id)
  BY OpenFacts
<1>3. me.pc = "flush" /\ me.insert \in Rows
  <2>1. me.pc = "flush"
    BY <1>1 DEF Flushing
  <2> QED BY <1>2, <2>1 DEF Shape, Transaction
<1>4. id \in FreeIds /\ id \in Id
  <2>1. FreeIds \in SUBSET Nat /\ FreeIds \subseteq Id
    BY DocumentsAssumption DEF FreeIds, Id
  <2> QED BY <1>1, <2>1, MinIn
<1> HIDE DEF id
<1>5. me.new \in Partial(Rows) /\ <<>> \in Partial(Rows) /\ DOMAIN <<>> = {}
  BY <1>2, NoneIsPartial DEF Transaction
<1> HIDE DEF me
<1>6. /\ new \in Partial(Rows) /\ DOMAIN new = DOMAIN me.new \cup {id}
      /\ \A k \in DOMAIN me.new \cup {id} : new[k] = IF k = id THEN me.insert ELSE me.new[k]
  <2>1. new \in Partial(Rows)
    BY <1>3, <1>4, <1>5, ExtendedRows
  <2> QED BY <2>1 DEF Extended
<1>7. held \in Partial(Rows) /\ DOMAIN held = {id} /\ held[id] = me.insert
  <2>1. /\ held \in Partial(Rows) /\ DOMAIN held = {} \cup {id}
        /\ \A k \in {} \cup {id} : held[k] = IF k = id THEN me.insert ELSE <<>>[k]
    BY <1>3, <1>4, <1>5, ExtendedRows
  <2> HIDE DEF held
  <2> QED BY <2>1
<1> HIDE DEF new, held
<1>8. Append(me.products, id) \in Seq(Id)
  BY <1>2, <1>4, AppendFacts
<1>9. /\ m \in Transaction /\ m.pc = "read" /\ m.of = me.of /\ m.products = Append(me.products, id)
      /\ m.held = held /\ m.insert = None /\ m.fills = me.fills /\ m.new = new /\ m.filled = me.filled
  BY <1>2, <1>6, <1>7, <1>8 DEF Transaction
<1> HIDE DEF m
<1>10. InsertedAs(i, id, m)
  BY <1>1, <1>3, <1>4, <1>6, <1>7, <1>9 DEF InsertedAs, me
<1> QED BY <1>1, <1>3, <1>4, <1>9, <1>10 DEF me

-----------------------------------------------------------------------------
(* Every step keeps what is there *)

\* A component is attached to a product.
LEMMA SoundAttaches ==
  ASSUME Sound, NEW i \in Importer, Attaches(i)
  PROVE  Sound'
<1> DEFINE me == import[i]
<1>1. PICK id \in Matches(i, Row(Current(i))), m \in Transaction :
        /\ import' = [import EXCEPT ![i] = m]
        /\ AttachedTo(i, id, Lacking(Memory(i)[id], Row(Current(i))), m)
  BY AttachesEffect
<1>2. Reading(i) /\ product' = product /\ document' = document /\ answer' = answer /\ raced' = raced
  BY DEF Attaches
<1>3. id \in Id /\ There(product, me, id)
  BY CandidateFacts
<1>4. Shape(me) /\ Backed(product, me) /\ me.products \in Seq(Id)
  BY OpenFacts
<1>5. me.pc = "read" /\ me.of \in Document /\ Len(me.products) < Len(Items(me.of))
  BY <1>2, CurrentFacts
<1>6. /\ m.pc = "read" /\ m.of = me.of /\ m.products = Append(me.products, id)
      /\ m.insert = me.insert /\ m.new = me.new /\ m.filled = me.filled
      /\ DOMAIN m.held = DOMAIN m.fills \cup {id}
      /\ \A k \in Id : k # id => (k \in DOMAIN m.fills <=> k \in DOMAIN me.fills)
  BY <1>1 DEF AttachedTo
<1> HIDE DEF me
<1>7. /\ Len(Append(me.products, id)) = Len(me.products) + 1 /\ Len(me.products) \in Nat
      /\ \A n \in DOMAIN Append(me.products, id) :
           Append(me.products, id)[n] = id \/ (n \in DOMAIN me.products /\ Append(me.products, id)[n] = me.products[n])
  BY <1>3, <1>4, AppendFacts
<1>8. Len(m.products) <= Len(Items(m.of))
  BY <1>5, <1>6, <1>7, LenItems
<1>9. Shape(m)
  BY <1>4, <1>5, <1>6, <1>8 DEF Shape
<1>10. \A k : There(product, m, k) <=> There(product, me, k)
  BY <1>6 DEF There
<1>11. Backed(product, m)
  <2>1. \A k \in DOMAIN m.held : There(product, me, k)
    <3>1. ASSUME NEW k \in DOMAIN m.held, k # id PROVE There(product, me, k)
      <4>1. k \in DOMAIN m.fills /\ k \in Id
        BY <1>6, <1>9, <3>1, SessionParts
      <4> QED BY <1>4, <1>6, <3>1, <4>1 DEF Shape, Backed
    <3> QED BY <1>3, <3>1
  <2> QED BY <1>3, <1>4, <1>6, <1>7, <1>10, <2>1 DEF Backed
<1>12. \A j \in Importer : j # i => DOMAIN m.new \cap DOMAIN import[j].new = {}
  BY <1>6 DEF Sound, Separate, me
<1>13. AnswerOK(answer')
  BY <1>2 DEF Sound, Tables
<1> QED BY <1>1, <1>2, <1>5, <1>6, <1>9, <1>11, <1>12, <1>13, SoundAlone DEF Open, me

\* An object is about to be inserted.
LEMMA AddsEffect ==
  ASSUME Sound, NEW i \in Importer, Adds(i)
  PROVE  \E m \in Transaction :
           /\ import' = [import EXCEPT ![i] = m]
           /\ m.pc = "flush" /\ m.of = import[i].of /\ m.products = import[i].products /\ m.held = import[i].held
           /\ m.fills = import[i].fills /\ m.new = import[i].new /\ m.filled = import[i].filled
           /\ m.insert = Row(Current(i)) /\ Row(Current(i)) \in Rows
<1> DEFINE me == import[i]
           row == Row(Current(i))
           m == [me EXCEPT !.pc = "flush", !.insert = row]
<1>1. import' = [import EXCEPT ![i] = m] /\ Reading(i)
  <2>1. import \in [Importer -> Transaction]
    BY DEF Sound, Transactions
  <2> QED BY <2>1 DEF Adds
<1>2. me \in Transaction /\ row \in Rows
  BY <1>1, OpenFacts, CurrentFacts
<1> HIDE DEF me, row
<1>3. /\ m \in Transaction /\ m.pc = "flush" /\ m.of = me.of /\ m.products = me.products /\ m.held = me.held
      /\ m.fills = me.fills /\ m.new = me.new /\ m.filled = me.filled /\ m.insert = row
  BY <1>2 DEF Transaction
<1> HIDE DEF m
<1> QED BY <1>1, <1>2, <1>3 DEF me, row

\* That keeps it.
LEMMA SoundAdds ==
  ASSUME Sound, NEW i \in Importer, Adds(i)
  PROVE  Sound'
<1> DEFINE me == import[i]
<1>1. PICK m \in Transaction :
        /\ import' = [import EXCEPT ![i] = m]
        /\ m.pc = "flush" /\ m.of = me.of /\ m.products = me.products /\ m.held = me.held
        /\ m.fills = me.fills /\ m.new = me.new /\ m.filled = me.filled
        /\ m.insert = Row(Current(i)) /\ Row(Current(i)) \in Rows
  BY AddsEffect
<1>2. Reading(i) /\ product' = product /\ document' = document /\ answer' = answer /\ raced' = raced
  BY DEF Adds
<1>3. Shape(me) /\ Backed(product, me)
  BY OpenFacts
<1>4. me.pc = "read" /\ me.of \in Document /\ Len(me.products) < Len(Items(me.of))
  BY <1>2, CurrentFacts
<1> HIDE DEF me
<1>5. Len(m.products) <= Len(Items(m.of)) /\ m.insert # None
  BY <1>1, <1>3, <1>4, DocumentsAssumption DEF Shape
<1>6. Shape(m)
  BY <1>1, <1>3, <1>4, <1>5 DEF Shape
<1>7. Backed(product, m)
  BY <1>1, <1>3 DEF Backed, There
<1>8. \A j \in Importer : j # i => DOMAIN m.new \cap DOMAIN import[j].new = {}
  BY <1>1 DEF Sound, Separate, me
<1>9. AnswerOK(answer')
  BY <1>2 DEF Sound, Tables
<1> QED BY <1>1, <1>2, <1>4, <1>6, <1>7, <1>8, <1>9, SoundAlone DEF Open, me

\* A flush runs in an open transaction.
LEMMA FlushingIsOpen == \A i \in Importer : Flushing(i) => Open(import[i])
  BY DEF Flushing, Finished, Open

\* An UPDATE writes into a row that is there.
LEMMA SoundUpdates ==
  ASSUME Sound, NEW i \in Importer, Updates(i)
  PROVE  Sound'
<1> DEFINE me == import[i]
<1>1. PICK t \in Id, m \in Transaction : import' = [import EXCEPT ![i] = m] /\ UpdatedTo(i, t, m)
  BY UpdatesEffect
<1>2. product' = product /\ document' = document /\ answer' = answer /\ raced' = raced /\ Open(me)
  BY FlushingIsOpen DEF Updates, Runs
<1>3. Shape(me) /\ Backed(product, me)
  BY OpenFacts
<1>4. /\ t \in DOMAIN me.fills
      /\ m.pc = me.pc /\ m.of = me.of /\ m.products = me.products /\ m.held = me.held /\ m.insert = me.insert
      /\ DOMAIN m.fills = DOMAIN me.fills \ {t}
      /\ DOMAIN m.new = DOMAIN me.new
      /\ DOMAIN m.filled = DOMAIN me.filled \cup ({t} \ DOMAIN me.new)
  BY <1>1 DEF UpdatedTo
<1> HIDE DEF me
<1>5. Shape(m)
  BY <1>3, <1>4 DEF Shape
<1>6. There(product, me, t)
  BY <1>3, <1>4 DEF Shape, Backed
<1>7. Backed(product, m)
  BY <1>3, <1>4, <1>6 DEF Backed, There
<1>8. \A j \in Importer : j # i => DOMAIN m.new \cap DOMAIN import[j].new = {}
  BY <1>4 DEF Sound, Separate, me
<1>9. AnswerOK(answer')
  BY <1>2 DEF Sound, Tables
<1>10. m.pc # "link" /\ Open(m)
  BY <1>2, <1>4 DEF Open
<1> QED BY <1>1, <1>2, <1>4, <1>5, <1>7, <1>8, <1>9, <1>10, SoundAlone DEF me

\* An INSERT takes a free id.
LEMMA SoundInserts ==
  ASSUME Sound, NEW i \in Importer, Inserts(i)
  PROVE  Sound'
<1> DEFINE me == import[i]
<1>1. PICK id \in Id, m \in Transaction : import' = [import EXCEPT ![i] = m] /\ InsertedAs(i, id, m)
  BY InsertsEffect
<1>2. product' = product /\ document' = document /\ answer' = answer /\ raced' = raced /\ me.pc = "flush"
  BY InsertsEffect DEF Inserts
<1>3. Shape(me) /\ Backed(product, me) /\ me.products \in Seq(Id)
  BY OpenFacts
<1>4. /\ id \in FreeIds /\ m.fills = <<>> /\ m.filled = me.filled
      /\ m.pc = "read" /\ m.of = me.of /\ m.products = Append(me.products, id) /\ m.insert = None
      /\ DOMAIN m.new = DOMAIN me.new \cup {id}
      /\ DOMAIN m.held = {id}
  BY <1>1 DEF InsertedAs
<1>5. product[id] = None /\ \A j \in Importer : id \notin DOMAIN import[j].new
  BY <1>4 DEF FreeIds
<1> HIDE DEF me
<1>6. me.of \in Document /\ Len(me.products) < Len(Items(me.of))
  BY <1>2, <1>3 DEF Shape
<1>7. /\ Len(Append(me.products, id)) = Len(me.products) + 1 /\ Len(me.products) \in Nat
      /\ \A n \in DOMAIN Append(me.products, id) :
           Append(me.products, id)[n] = id \/ (n \in DOMAIN me.products /\ Append(me.products, id)[n] = me.products[n])
  BY <1>3, AppendFacts
<1>8. Len(m.products) <= Len(Items(m.of))
  BY <1>4, <1>6, <1>7, LenItems
<1>9. DOMAIN m.fills = {}
  BY <1>4, NoneIsPartial
<1>10. Shape(m)
  BY <1>4, <1>6, <1>8, <1>9 DEF Shape
<1>11. Backed(product, m)
  BY <1>3, <1>4, <1>5, <1>7 DEF Backed, There
<1>12. \A j \in Importer : j # i => DOMAIN m.new \cap DOMAIN import[j].new = {}
  BY <1>4, <1>5 DEF Sound, Separate, me
<1>13. AnswerOK(answer')
  BY <1>2 DEF Sound, Tables
<1> QED BY <1>1, <1>2, <1>4, <1>10, <1>11, <1>12, <1>13, SoundAlone DEF Open, me

\* A commit: what was seen is what there is, and none of it is another's.
LEMMA SoundCommits ==
  ASSUME Sound, NEW i \in Importer, Commits(i)
  PROVE  Sound'
<1> DEFINE me == import[i]
           s == Content[me.of].serial
           e == [of |-> me.of, products |-> me.products, check |-> None]
           m == IF me.of \in Check THEN [Idle EXCEPT !.pc = "link", !.of = me.of] ELSE Idle
<1>1. /\ Finished(i) /\ product' = Db(i) /\ raced' = raced \cup Races(i)
      /\ document' = [document EXCEPT ![s] = e]
      /\ import' = [import EXCEPT ![i] = m]
      /\ answer' = IF me.of \in Check THEN answer ELSE [kind |-> "created", of |-> me.of]
  BY DEF Commits, Ends
<1>2. /\ me \in Transaction /\ Shape(me) /\ Backed(product, me)
      /\ me.products \in Seq(Id)
      /\ product \in [Id -> Rows \cup {None}]
      /\ product' \in [Id -> Rows \cup {None}]
      /\ \A id \in Id : product'[id] # None <=> There(product, me, id)
  BY <1>1, OpenFacts
<1>3. me.pc = "read" /\ me.of \in Document /\ Len(me.products) = Len(Items(me.of))
  BY <1>1, <1>2 DEF Finished, Shape
<1>4. s \in Serial /\ s = SerialOf(me) /\ document[s] = None /\ Open(me)
  BY <1>3, SerialType DEF SerialOf, Open, Sound, Serials
<1>5. e \in Entry /\ EntryOK(product', s, e)
  <2>1. e \in Entry
    BY <1>2, <1>3 DEF Entry
  <2>2. \A n \in DOMAIN me.products : product'[me.products[n]] # None
    <3>1. \A n \in DOMAIN me.products : me.products[n] \in Id
      BY <1>2, ElementOfSeq
    <3> QED BY <1>2, <3>1 DEF Backed
  <2> HIDE DEF me
  <2> QED BY <1>3, <2>1, <2>2 DEF EntryOK
<1>6. /\ m \in Transaction /\ Shape(m) /\ \A q : Backed(q, m)
      /\ ~Open(m) /\ DOMAIN m.new = {}
      /\ m.pc = "link" => me.of \in Check /\ m.of = me.of /\ s = me.of
  <2>1. CASE me.of \in Check
    <3>1. Idle \in Transaction /\ \A q : Backed(q, Idle)
      BY IdleShape DEF Shape
    <3>2. m \in Transaction /\ m.pc = "link" /\ m.of = me.of /\ m.new = <<>> /\ m.filled = <<>> /\ m.products = <<>>
          /\ m.held = <<>> /\ m.fills = <<>> /\ m.insert = None
      BY <1>3, <2>1, <3>1 DEF Idle, Transaction
    <3> HIDE DEF m, me
    <3>3. Shape(m)
      BY <1>3, <2>1, <3>2 DEF Shape
    <3>4. \A q : Backed(q, m)
      BY <3>1, <3>2 DEF Backed, Idle
    <3>5. s = me.of
      BY <2>1, SerialOfCheck
    <3> QED BY <2>1, <3>2, <3>3, <3>4, <3>5, NoneIsPartial DEF Open
  <2>2. CASE me.of \notin Check
    BY <2>2, IdleShape, NoneIsPartial DEF Idle, Open, Shape
  <2> QED BY <2>1, <2>2
<1>7. AnswerOK(answer')
  BY <1>1, <1>3 DEF Sound, Tables, AnswerOK, Kinds
<1> HIDE DEF m, e, s
<1>8. document \in [Serial -> Entry \cup {None}] /\ import \in [Importer -> Transaction]
  BY DEF Sound, Tables, Transactions
<1>9. /\ import'[i] = m /\ \A j \in Importer : j # i => import'[j] = import[j]
      /\ document'[s] = e /\ \A t \in Serial : t # s => document'[t] = document[t]
  BY <1>1, <1>4, <1>8
<1>10. Tables'
  <2>1. document' \in [Serial -> Entry \cup {None}]
    BY <1>1, <1>5, <1>8
  <2>2. ASSUME NEW t \in Serial, t # s, document[t] # None PROVE EntryOK(product', t, document[t])
    <3>1. EntryOK(product, t, document[t]) /\ document[t] \in Entry
      BY <1>8, <2>2 DEF Sound, Tables
    <3>2. document[t].products \in Seq(Id)
      BY <3>1 DEF Entry
    <3>3. \A n \in DOMAIN document[t].products : document[t].products[n] \in Id
      BY <3>2, ElementOfSeq
    <3> QED BY <1>2, <3>1, <3>3 DEF EntryOK, There
  <2>3. \A t \in Serial : document'[t] # None => EntryOK(product', t, document'[t])
    BY <1>5, <1>9, <2>2
  <2>4. raced' \subseteq Id
    BY <1>1 DEF Races, Sound, Tables
  <2> QED BY <1>2, <1>7, <2>1, <2>3, <2>4 DEF Tables
<1>11. Transactions'
  <2>1. import' \in [Importer -> Transaction]
    BY <1>1, <1>6, <1>8
  <2>2. ASSUME NEW j \in Importer, j # i PROVE Shape(import[j]) /\ Backed(product', import[j])
    <3>1. Shape(import[j]) /\ Backed(product, import[j])
      BY DEF Sound, Transactions
    <3>2. DOMAIN import[j].new \subseteq Id /\ DOMAIN import[j].filled \subseteq Id
          /\ \A n \in DOMAIN import[j].products : import[j].products[n] \in Id
      BY OpenFacts, SessionParts, ElementOfSeq
    <3>3. \A id \in DOMAIN import[j].new : id \notin DOMAIN me.new
      BY <2>2 DEF Sound, Separate, me
    <3>4. DOMAIN import[j].held \subseteq Id
      BY <3>1, SessionParts
    <3>5. \A id \in Id : There(product, import[j], id) => There(product', import[j], id)
      BY <1>2 DEF There
    <3> QED BY <1>2, <3>1, <3>2, <3>3, <3>4, <3>5 DEF Backed, There
  <2>3. \A j \in Importer : Shape(import'[j]) /\ Backed(product', import'[j])
    BY <1>6, <1>9, <2>2
  <2> QED BY <2>1, <2>3 DEF Transactions
<1>12. Separate'
  BY <1>6, <1>9 DEF Separate, Sound
<1>13. Serials'
  <2>1. ASSUME NEW j \in Importer, Open(import'[j])
        PROVE  /\ document'[SerialOf(import'[j])] = None
               /\ \A k \in Importer : k # j /\ Open(import'[k]) => SerialOf(import'[k]) # SerialOf(import'[j])
    <3>1. j # i /\ import'[j] = import[j] /\ Open(import[j])
      BY <1>6, <1>9, <2>1
    <3>2. document[SerialOf(import[j])] = None /\ SerialOf(import[j]) # s
      BY <1>4, <3>1 DEF Sound, Serials, me
    <3>3. SerialOf(import[j]) \in Serial
      BY <3>1, OpenFacts, SerialType DEF Open, Shape, SerialOf
    <3>4. \A k \in Importer : k # j /\ Open(import'[k]) => import'[k] = import[k] /\ k # i
      BY <1>6, <1>9
    <3> QED BY <1>9, <3>1, <3>2, <3>3, <3>4 DEF Sound, Serials
  <2>2. ASSUME NEW j \in Importer, import'[j].pc = "link"
        PROVE  document'[import'[j].of] # None /\ document'[import'[j].of].of = import'[j].of
    <3>1. CASE j = i
      <4>1. import'[j].of = s /\ s = me.of
        BY <1>6, <1>9, <2>2, <3>1
      <4>2. e # None /\ e.of = me.of
        BY <1>5, DocumentsAssumption DEF e
      <4> QED BY <1>9, <4>1, <4>2
    <3>2. CASE j # i
      <4>1. import'[j] = import[j] /\ import[j].pc = "link"
        BY <1>9, <2>2, <3>2
      <4>2. document[import[j].of] # None /\ document[import[j].of].of = import[j].of
        BY <4>1 DEF Sound, Serials
      <4>3. import[j].of \in Check
        BY <4>1, OpenFacts DEF Shape
      <4>4. import[j].of \in Serial /\ import[j].of # s
        BY <1>4, <4>2, <4>3, SerialOfCheck, SerialType
      <4> QED BY <1>9, <4>1, <4>2, <4>4
    <3> QED BY <3>1, <3>2
  <2> QED BY <2>1, <2>2 DEF Serials
<1> QED BY <1>10, <1>11, <1>12, <1>13 DEF Sound

\* The document of a check is linked with it.
LEMMA SoundLinks ==
  ASSUME Sound, NEW i \in Importer, Links(i)
  PROVE  Sound'
<1> DEFINE c == import[i].of
           e == [document[c] EXCEPT !.check = c]
<1>1. /\ import[i].pc = "link" /\ product' = product /\ raced' = raced
      /\ document' = [document EXCEPT ![c] = e]
      /\ import' = [import EXCEPT ![i] = Idle]
      /\ answer' = [kind |-> "created", of |-> c]
  BY DEF Links, Ends
<1>2. c \in Check
  BY <1>1, OpenFacts DEF Shape
<1>3. c \in Document /\ Content[c].serial = c /\ c \in Serial
  BY <1>2, SerialOfCheck, SerialType
<1>4. document[c] # None /\ document[c].of = c
  BY <1>1 DEF Sound, Serials
<1>5. document \in [Serial -> Entry \cup {None}] /\ import \in [Importer -> Transaction]
  BY DEF Sound, Tables, Transactions
<1>6. document[c] \in Entry /\ EntryOK(product, c, document[c])
  BY <1>3, <1>4 DEF Sound, Tables
<1>7. e \in Entry /\ e.of = c /\ e.products = document[c].products /\ e.check = c
  BY <1>3, <1>4, <1>6 DEF Entry
<1>8. EntryOK(product, c, e)
  BY <1>4, <1>6, <1>7 DEF EntryOK
<1>9. Shape(Idle) /\ Backed(product, Idle) /\ ~Open(Idle) /\ Idle.pc # "link" /\ DOMAIN Idle.new = {} /\ Idle \in Transaction
  BY IdleShape, NoneIsPartial DEF Idle, Open, Shape
<1>10. /\ import'[i] = Idle /\ \A j \in Importer : j # i => import'[j] = import[j]
       /\ document'[c] = e /\ \A t \in Serial : t # c => document'[t] = document[t]
  BY <1>1, <1>3, <1>5
<1>11. AnswerOK(answer')
  BY <1>1, <1>3 DEF AnswerOK, Kinds
<1> HIDE DEF e
<1>12. Tables'
  <2>1. document' \in [Serial -> Entry \cup {None}]
    BY <1>1, <1>5, <1>7
  <2>2. \A t \in Serial : document'[t] # None => EntryOK(product, t, document'[t])
    BY <1>8, <1>10 DEF Sound, Tables
  <2> QED BY <1>1, <1>11, <2>1, <2>2 DEF Sound, Tables
<1>13. Transactions'
  <2>1. import' \in [Importer -> Transaction]
    BY <1>1, <1>5, <1>9
  <2>2. \A j \in Importer : Shape(import'[j]) /\ Backed(product, import'[j])
    BY <1>9, <1>10 DEF Sound, Transactions
  <2> QED BY <1>1, <2>1, <2>2 DEF Transactions
<1>14. Separate'
  BY <1>9, <1>10 DEF Separate, Sound
<1>15. Serials'
  <2>1. ASSUME NEW j \in Importer, Open(import'[j])
        PROVE  /\ document'[SerialOf(import'[j])] = None
               /\ \A k \in Importer : k # j /\ Open(import'[k]) => SerialOf(import'[k]) # SerialOf(import'[j])
    <3>1. j # i /\ import'[j] = import[j] /\ Open(import[j])
      BY <1>9, <1>10, <2>1
    <3>2. document[SerialOf(import[j])] = None /\ SerialOf(import[j]) # c
      BY <1>4, <3>1 DEF Sound, Serials
    <3>3. SerialOf(import[j]) \in Serial
      BY <3>1, OpenFacts, SerialType DEF Open, Shape, SerialOf
    <3>4. \A k \in Importer : k # j /\ Open(import'[k]) => import'[k] = import[k]
      BY <1>9, <1>10
    <3> HIDE DEF c
    <3> QED BY <1>10, <3>1, <3>2, <3>3, <3>4 DEF Sound, Serials
  <2>2. ASSUME NEW j \in Importer, import'[j].pc = "link"
        PROVE  document'[import'[j].of] # None /\ document'[import'[j].of].of = import'[j].of
    <3>1. j # i /\ import'[j] = import[j] /\ import[j].pc = "link"
      BY <1>9, <1>10, <2>2
    <3>2. document[import[j].of] # None /\ document[import[j].of].of = import[j].of
      BY <3>1 DEF Sound, Serials
    <3>3. import[j].of \in Serial
      BY <3>1, OpenFacts, SerialOfCheck, SerialType DEF Shape
    <3>4. e # None
      BY <1>7, DocumentsAssumption
    <3> HIDE DEF c
    <3> QED BY <1>7, <1>10, <3>1, <3>2, <3>3, <3>4
  <2> QED BY <2>1, <2>2 DEF Serials
<1> QED BY <1>12, <1>13, <1>14, <1>15 DEF Sound

\* Every step keeps it.
LEMMA SoundNext == Sound /\ [DocumentsNext]_documentsVars => Sound'
<1> SUFFICES ASSUME Sound, [DocumentsNext]_documentsVars PROVE Sound'
  OBVIOUS
<1>1. CASE UNCHANGED documentsVars
  BY <1>1 DEF documentsVars, Sound, Tables, Transactions, Separate, Serials
<1>2. CASE DocumentsNext
  <2>1. PICK i \in Importer :
          \/ \E d \in Document : Begins(i, d)
          \/ Refuses(i) \/ Attaches(i) \/ Adds(i) \/ Updates(i) \/ Inserts(i) \/ FlushFails(i)
          \/ Commits(i) \/ CommitFails(i) \/ Links(i) \/ Dies(i)
    BY <1>2 DEF DocumentsNext
  <2>2. CASE \E d \in Document : Begins(i, d)
    BY <2>2, SoundBegins
  <2>3. CASE Refuses(i)
    <3>1. import[i].pc # "idle" /\ Ends(i, "unprocessable") /\ UNCHANGED <<product, document, raced>> /\ "unprocessable" \in Kinds
      BY <2>3 DEF Refuses, Reading, Kinds
    <3> QED BY <3>1, SoundEnds
  <2>4. CASE FlushFails(i)
    <3>1. PICK kind \in Kinds : import[i].pc # "idle" /\ Ends(i, kind) /\ UNCHANGED <<product, document, raced>>
      <4>1. "error" \in Kinds /\ Integrity(import[i].of) \in Kinds
        BY IntegrityKind DEF Kinds
      <4>2. import[i].pc # "idle"
        BY <2>4 DEF FlushFails, Flushing, Finished
      <4> QED BY <2>4, <4>1, <4>2 DEF FlushFails
    <3> QED BY <3>1, SoundEnds
  <2>5. CASE CommitFails(i)
    <3>1. import[i].pc # "idle" /\ Ends(i, Integrity(import[i].of)) /\ UNCHANGED <<product, document, raced>>
      BY <2>5 DEF CommitFails, Finished
    <3> QED BY <3>1, SoundEnds, IntegrityKind
  <2>6. CASE Dies(i)
    <3>1. Shape(Idle) /\ Backed(product, Idle) /\ ~Open(Idle) /\ Idle.pc # "link" /\ DOMAIN Idle.new = {}
      BY IdleShape, NoneIsPartial DEF Idle, Open
    <3>2. AnswerOK(answer')
      BY <2>6 DEF Dies, Sound, Tables
    <3> QED BY <2>6, <3>1, <3>2, SoundAlone DEF Dies
  <2> QED BY <2>1, <2>2, <2>3, <2>4, <2>5, <2>6, SoundAttaches, SoundAdds, SoundUpdates, SoundInserts, SoundCommits, SoundLinks
<1> QED BY <1>1, <1>2

\* Every table and every request keeps its type, however imports overlap.
THEOREM DocumentsAreTyped == DocumentsSpec => []DocumentsTypeOK
  BY SoundInit, SoundNext, SoundType, PTL DEF DocumentsSpec

-----------------------------------------------------------------------------
(* What the objects of a session are good for *)

\* The product p, of that id, is what the row says, unless imports raced for it.
Serves(r, row, id, p) == Named(row, p) /\ (id \notin r => Says(row, p))

\* The products found for the components of a document are what they say.
ServedAll(q, r, d, products) == \A n \in DOMAIN products : Serves(r, Row(Items(d)[n]), products[n], q[products[n]])

Awaited(m) == Row(Items(m.of)[Len(m.products) + 1])

\* What a session has written or will write is proper for the rows q, and, but
\* for races r, adds to them only; its objects are what the commit will leave.
UpToDate(q, r, m) ==
  /\ \A id \in DOMAIN m.new : Canon(m.new[id])
  /\ m.insert # None => Canon(m.insert) /\ m.insert = Awaited(m)
  /\ \A id \in DOMAIN m.filled : Proper(q[id], m.filled[id]) /\ (id \notin r => Lacks(q[id], m.filled[id]))
  /\ \A id \in DOMAIN m.fills :
       /\ Proper(View(q, m)[id], m.fills[id])
       /\ id \notin r => Lacks(View(q, m)[id], m.fills[id])
  /\ \A id \in DOMAIN m.held :
       /\ Canon(m.held[id]) /\ Human(m.held[id]) = Human(View(q, m)[id])
       /\ id \notin r => m.held[id] = Final(q, m)[id]
  /\ ServedAll(Final(q, m), r, m.of, m.products)

Fitting ==
  /\ \A id \in Id : product[id] # None => Canon(product[id])
  /\ \A s \in Serial : document[s] # None => ServedAll(product, raced, document[s].of, document[s].products)
  /\ \A i \in Importer : Open(import[i]) => UpToDate(product, raced, import[i])

\* Everything a session sees is canonical and has one name, and what it sees
\* in an object is what it will leave, but for races.
LEMMA SessionFacts ==
  ASSUME NEW q \in [Id -> Rows \cup {None}], \A k \in Id : q[k] # None => Canon(q[k]),
         NEW m, Shape(m), Backed(q, m), NEW r, UpToDate(q, r, m), NEW id \in Id, There(q, m, id)
  PROVE  /\ View(q, m)[id] \in Rows /\ Final(q, m)[id] \in Rows /\ Held(q, m)[id] \in Rows
         /\ Canon(View(q, m)[id]) /\ Canon(Held(q, m)[id])
         /\ Human(Final(q, m)[id]) = Human(View(q, m)[id]) /\ Human(Held(q, m)[id]) = Human(View(q, m)[id])
         /\ id \notin r => Held(q, m)[id] = Final(q, m)[id]
         /\ q[id] # None => Human(View(q, m)[id]) = Human(q[id])
         /\ q[id] # None /\ id \notin r => Keeps(q[id], View(q, m)[id])
<1> DEFINE D == View(q, m)[id]
           F == Final(q, m)[id]
           H == Held(q, m)[id]
<1>1. /\ D \in Rows /\ F \in Rows /\ H \in Rows /\ Human(F) = Human(D)
      /\ q[id] # None => Human(D) = Human(q[id])
  BY ViewType, FinalType
<1>2. Canon(D) /\ (q[id] # None /\ id \notin r => Keeps(q[id], D))
  <2>1. CASE id \in DOMAIN m.new
    BY <2>1 DEF View, UpToDate, Backed
  <2>2. CASE id \notin DOMAIN m.new /\ id \in DOMAIN m.filled
    <3>1. D = Filled(q[id], m.filled[id]) /\ q[id] \in Rows /\ m.filled[id] \in Fill /\ Canon(q[id])
      BY <2>2, SessionParts DEF View, FilledIf, Backed
    <3>2. Proper(q[id], m.filled[id]) /\ (id \notin r => Lacks(q[id], m.filled[id]))
      BY <2>2 DEF UpToDate
    <3> HIDE DEF D
    <3> QED BY <3>1, <3>2, FilledIsProper
  <2>3. CASE id \notin DOMAIN m.new /\ id \notin DOMAIN m.filled
    BY <2>3 DEF View, FilledIf, Keeps, There
  <2> QED BY <2>1, <2>2, <2>3
<1>3. Canon(H) /\ Human(H) = Human(D) /\ (id \notin r => H = F)
  <2>1. CASE id \in DOMAIN m.held
    <3>1. H = m.held[id]
      BY <2>1 DEF Held
    <3> HIDE DEF H
    <3> QED BY <2>1, <3>1 DEF UpToDate
  <2>2. CASE id \notin DOMAIN m.held
    <3>1. H = D
      BY <2>2 DEF Held
    <3>2. F = D
      BY <2>2 DEF Final, FilledIf, Shape
    <3> QED BY <1>2, <3>1, <3>2
  <2> QED BY <2>1, <2>2
<1> QED BY <1>1, <1>2, <1>3

\* Nothing is stored at first,
LEMMA FittingInit == DocumentsInit => Fitting
<1> SUFFICES ASSUME DocumentsInit PROVE Fitting
  OBVIOUS
<1>1. \A i \in Importer : ~Open(import[i])
  BY DEF DocumentsInit, Idle, Open
<1>2. (\A id \in Id : product[id] = None) /\ \A s \in Serial : document[s] = None
  BY DEF DocumentsInit
<1> QED BY <1>1, <1>2 DEF Fitting

\* A step of one transaction that commits nothing.
LEMMA FittingAlone ==
  ASSUME Sound, Fitting, NEW i \in Importer, NEW m, Open(m) => UpToDate(product, raced, m),
         product' = product, document' = document, raced' = raced, import' = [import EXCEPT ![i] = m]
  PROVE  Fitting'
<1>1. import \in [Importer -> Transaction]
  BY DEF Sound, Transactions
<1>2. import'[i] = m /\ \A j \in Importer : j # i => import'[j] = import[j]
  BY <1>1
<1>3. \A j \in Importer : Open(import'[j]) => UpToDate(product, raced, import'[j])
  BY <1>2 DEF Fitting
<1>4. \A j \in Importer : Open(import[j])' => UpToDate(product, raced, import[j])'
  BY <1>3
<1> QED BY <1>4 DEF Fitting

\* A session that has read nothing is up to date.
LEMMA FittingBegins ==
  ASSUME Sound, Fitting, NEW i \in Importer, NEW d \in Document, Begins(i, d)
  PROVE  Fitting'
<1> DEFINE m == IF document[Content[d].serial] = None THEN [Idle EXCEPT !.pc = "read", !.of = d] ELSE Idle
<1>1. /\ import' = [import EXCEPT ![i] = m]
      /\ product' = product /\ document' = document /\ raced' = raced
  BY DEF Begins
<1>2. /\ m.new = <<>> /\ m.filled = <<>> /\ m.fills = <<>> /\ m.held = <<>> /\ m.products = <<>> /\ m.insert = None
  BY DEF Idle
<1> HIDE DEF m
<1>3. UpToDate(product, raced, m)
  BY <1>2, NoneIsPartial DEF UpToDate, ServedAll
<1> QED BY <1>1, <1>3, FittingAlone

\* A transaction ends without a commit.
LEMMA FittingIdle ==
  ASSUME Sound, Fitting, NEW i \in Importer,
         product' = product, document' = document, raced' = raced, import' = [import EXCEPT ![i] = Idle]
  PROVE  Fitting'
<1>1. ~Open(Idle)
  BY DEF Idle, Open
<1> QED BY <1>1, FittingAlone

\* Of a component that is not refused, no candidate's object conflicts.
LEMMA NoConflict ==
  ASSUME NEW i \in Importer, ~Refused(i), NEW id \in Candidates(i, Row(Current(i)))
  PROVE  ~Conflicting(Memory(i)[id], Row(Current(i)))
  BY DEF Refused

\* What is filled in an object changes what the commit will leave the same way.
LEMMA AttachedFinal ==
  ASSUME Sound, NEW i \in Importer, NEW id \in Id, There(product, import[i], id), NEW f \in Fill,
         NEW m, AttachedTo(i, id, f, m)
  PROVE  /\ View(product, m) = View(product, import[i])
         /\ \A k \in Id : Final(product, m)[k] =
              IF k = id THEN Filled(Final(product, import[i])[id], f) ELSE Final(product, import[i])[k]
<1> DEFINE me == import[i]
           D == View(product, me)
           F == Final(product, me)
<1>1. /\ m.new = me.new /\ m.filled = me.filled
      /\ \A k \in Id : k # id => (k \in DOMAIN m.fills <=> k \in DOMAIN me.fills)
      /\ \A k \in DOMAIN m.fills : k # id => m.fills[k] = me.fills[k]
      /\ IF f = NoFill THEN m.fills = me.fills
         ELSE id \in DOMAIN m.fills /\ m.fills[id] = IF id \in DOMAIN me.fills THEN Filled(me.fills[id], f) ELSE f
  BY DEF AttachedTo
<1>2. View(product, m) = D
  BY <1>1 DEF View
<1>3. Shape(me) /\ Backed(product, me) /\ product \in [Id -> Rows \cup {None}]
  BY OpenFacts
<1>4. D[id] \in Rows /\ F[id] \in Rows /\ (id \in DOMAIN me.fills => me.fills[id] \in Fill)
  <2>1. None \notin Rows
    BY DocumentsAssumption
  <2> QED BY <1>3, <2>1, ViewType, FinalType, SessionParts
<1>5. F[id] = IF id \in DOMAIN me.fills THEN Filled(D[id], me.fills[id]) ELSE D[id]
  BY DEF Final, FilledIf
<1>6. Final(product, m)[id] = IF id \in DOMAIN m.fills THEN Filled(D[id], m.fills[id]) ELSE D[id]
  BY <1>2 DEF Final, FilledIf
<1>7. ASSUME NEW k \in Id, k # id PROVE Final(product, m)[k] = F[k]
  BY <1>1, <1>2, <1>7 DEF Final, FilledIf
<1> HIDE DEF F, D, me
<1>8. Final(product, m)[id] = Filled(F[id], f)
  <2>1. CASE f = NoFill
    BY <1>1, <1>4, <1>5, <1>6, <2>1, NothingFilled
  <2>2. CASE f # NoFill /\ id \in DOMAIN me.fills
    <3>1. Filled(D[id], Filled(me.fills[id], f)) = Filled(Filled(D[id], me.fills[id]), f)
      BY <1>4, <2>2, FilledFill
    <3> QED BY <1>1, <1>5, <1>6, <2>2, <3>1
  <2>3. CASE f # NoFill /\ id \notin DOMAIN me.fills
    BY <1>1, <1>5, <1>6, <2>3
  <2> QED BY <2>1, <2>2, <2>3
<1> QED BY <1>2, <1>7, <1>8 DEF F, D, me

\* A component is attached to what it says, and completes it at most.
LEMMA FittingAttaches ==
  ASSUME Sound, Fitting, NEW i \in Importer, Attaches(i)
  PROVE  Fitting'
<1> DEFINE me == import[i]
           row == Row(Current(i))
           D == View(product, me)
           F == Final(product, me)
<1>1. PICK id \in Matches(i, row), m \in Transaction :
        /\ import' = [import EXCEPT ![i] = m]
        /\ Lacking(Memory(i)[id], row) \in Fill
        /\ AttachedTo(i, id, Lacking(Memory(i)[id], row), m)
  BY AttachesEffect
<1> DEFINE p == Memory(i)[id]
           f == Lacking(p, row)
           G == Final(product, m)
<1>2. Reading(i) /\ ~Refused(i) /\ product' = product /\ document' = document /\ raced' = raced
  BY DEF Attaches
<1>3. id \in Id /\ There(product, me, id) /\ Candidate(D[id], row) /\ Matching(p, row) /\ ~Conflicting(p, row)
      /\ p = Held(product, me)[id] /\ D[id] \in Rows
  BY <1>2, CandidateFacts, NoConflict, OpenFacts
<1>4. /\ row \in Rows /\ Canon(row) /\ me.pc = "read"
      /\ row = Row(Items(me.of)[Len(me.products) + 1])
  BY <1>2, CurrentFacts
<1>5. Shape(me) /\ Backed(product, me) /\ me.products \in Seq(Id) /\ product \in [Id -> Rows \cup {None}]
  BY OpenFacts
<1>6. UpToDate(product, raced, me) /\ \A k \in Id : product[k] # None => Canon(product[k])
  BY <1>4 DEF Fitting, Open
<1>7. /\ p \in Rows /\ Canon(p) /\ Human(p) = Human(D[id]) /\ Human(F[id]) = Human(D[id]) /\ F[id] \in Rows
      /\ id \notin raced => p = F[id]
  BY <1>3, <1>5, <1>6, SessionFacts
<1> HIDE DEF p, row
<1>8. /\ f \in Fill /\ Proper(p, f) /\ Lacks(p, f)
      /\ Says(row, Filled(p, f)) /\ Named(row, Filled(p, f)) /\ Named(row, p)
  <2>1. Named(row, p)
    BY <1>3, <1>7, CandidateNamed
  <2> QED BY <1>3, <1>4, <1>7, <2>1, FilledFits
<1> HIDE DEF f
<1>9. /\ m.pc = "read" /\ m.of = me.of /\ m.products = Append(me.products, id)
      /\ m.insert = me.insert /\ m.new = me.new /\ m.filled = me.filled
      /\ DOMAIN m.held = DOMAIN m.fills \cup {id}
      /\ \A k \in DOMAIN m.held : m.held[k] = IF k = id THEN Filled(p, f) ELSE me.held[k]
      /\ \A k \in Id : k # id => (k \in DOMAIN m.fills <=> k \in DOMAIN me.fills)
      /\ \A k \in DOMAIN m.fills : k # id => m.fills[k] = me.fills[k]
      /\ IF f = NoFill THEN m.fills = me.fills
         ELSE id \in DOMAIN m.fills /\ m.fills[id] = IF id \in DOMAIN me.fills THEN Filled(me.fills[id], f) ELSE f
      /\ DOMAIN m.held \subseteq Id /\ DOMAIN m.fills \subseteq Id
  <2>1. AttachedTo(i, id, f, m)
    BY <1>1 DEF f, p
  <2>2. m.held \in Partial(Rows) /\ m.fills \in Partial(Fill)
    BY DEF Transaction
  <2>3. DOMAIN m.held \subseteq Id /\ DOMAIN m.fills \subseteq Id
    BY <2>2, PartialIs
  <2> QED BY <2>1, <2>3 DEF AttachedTo, p
<1>10. View(product, m) = D /\ \A k \in Id : G[k] = IF k = id THEN Filled(F[id], f) ELSE F[k]
  <2>1. AttachedTo(i, id, f, m)
    BY <1>1 DEF f, p
  <2> QED BY <1>3, <1>8, <2>1, AttachedFinal
<1>11. Filled(p, f) \in Rows /\ Human(Filled(p, f)) = Human(p) /\ Canon(Filled(p, f)) /\ Human(G[id]) = Human(F[id])
  BY <1>3, <1>7, <1>8, <1>10, FilledRow, FilledIsProper
<1> HIDE DEF me, D, F, G
<1>12. UpToDate(product, raced, m)
  <2>1. (\A k \in DOMAIN m.new : Canon(m.new[k])) /\ m.insert = None
        /\ \A k \in DOMAIN m.filled :
             Proper(product[k], m.filled[k]) /\ (k \notin raced => Lacks(product[k], m.filled[k]))
    BY <1>4, <1>5, <1>6, <1>9 DEF UpToDate, Shape
  <2>2. ASSUME NEW k \in DOMAIN m.fills PROVE Proper(D[k], m.fills[k]) /\ (k \notin raced => Lacks(D[k], m.fills[k]))
    <3>1. CASE k \in DOMAIN me.fills /\ (k # id \/ f = NoFill)
      <4>1. m.fills[k] = me.fills[k]
        BY <1>9, <3>1
      <4> QED BY <1>6, <3>1, <4>1 DEF UpToDate, D
    <3>2. CASE k = id /\ f # NoFill /\ id \in DOMAIN me.fills
      <4>1. /\ me.fills[id] \in Fill /\ Proper(D[id], me.fills[id]) /\ (id \notin raced => Lacks(D[id], me.fills[id]))
            /\ F[id] = Filled(D[id], me.fills[id])
        BY <1>3, <1>5, <1>6, <3>2, SessionParts DEF UpToDate, D, F, Final, FilledIf
      <4>2. Proper(D[id], f) /\ (id \notin raced => Lacks(F[id], f))
        BY <1>7, <1>8, ProperByVersion
      <4>3. m.fills[k] = Filled(me.fills[id], f)
        BY <1>9, <3>2
      <4> QED BY <1>3, <1>8, <3>2, <4>1, <4>2, <4>3, FilledTwice
    <3>3. CASE k = id /\ f # NoFill /\ id \notin DOMAIN me.fills
      <4>1. F[id] = D[id] /\ m.fills[k] = f
        BY <1>3, <1>9, <3>3 DEF D, F, Final, FilledIf
      <4> QED BY <1>7, <1>8, <3>3, <4>1, ProperByVersion
    <3>4. k \in DOMAIN me.fills \/ (k = id /\ f # NoFill)
      BY <1>9
    <3> QED BY <3>1, <3>2, <3>3, <3>4
  <2>3. ASSUME NEW k \in DOMAIN m.held
        PROVE  /\ Canon(m.held[k]) /\ Human(m.held[k]) = Human(D[k])
               /\ k \notin raced => m.held[k] = G[k]
    <3>1. CASE k = id
      <4>1. m.held[k] = Filled(p, f) /\ G[k] = Filled(F[id], f)
        BY <1>3, <1>9, <1>10, <3>1
      <4> QED BY <1>7, <1>11, <3>1, <4>1
    <3>2. CASE k # id
      <4>1. k \in DOMAIN me.held /\ m.held[k] = me.held[k] /\ k \in Id
        BY <1>5, <1>9, <3>2 DEF Shape
      <4>2. G[k] = F[k]
        BY <1>10, <3>2, <4>1
      <4> QED BY <1>6, <4>1, <4>2 DEF UpToDate, D, F
    <3> QED BY <3>1, <3>2
  <2>4. ServedAll(G, raced, m.of, m.products)
    <3>1. ASSUME NEW n \in DOMAIN m.products
          PROVE  Serves(raced, Row(Items(me.of)[n]), m.products[n], G[m.products[n]])
      <4>1. CASE n \in DOMAIN me.products /\ m.products[n] = me.products[n]
        <5> DEFINE k == me.products[n]
                   r == Row(Items(me.of)[n])
        <5>1. k \in Id /\ Serves(raced, r, k, F[k])
          BY <1>5, <1>6, <4>1, ElementOfSeq DEF UpToDate, ServedAll, F
        <5>2. CASE k # id
          BY <1>10, <4>1, <5>1, <5>2
        <5>3. CASE k = id
          <6>1. id \notin raced => Keeps(F[id], Filled(F[id], f))
            BY <1>7, <1>8, FilledIsProper
          <6>2. G[id] = Filled(F[id], f)
            BY <1>3, <1>10
          <6> HIDE DEF r, k
          <6>3. Named(r, G[id]) /\ (id \notin raced => Says(r, G[id]))
            BY <1>11, <5>1, <5>3, <6>1, <6>2, FitsKept DEF Serves
          <6>4. Serves(raced, r, id, G[id])
            BY <6>3 DEF Serves
          <6> QED BY <4>1, <5>3, <6>4 DEF r, k
        <5> QED BY <5>2, <5>3
      <4>2. CASE n = Len(me.products) + 1 /\ m.products[n] = id
        <5>1. Named(row, G[id])
          BY <1>7, <1>8, <1>11, FitsKept
        <5>2. id \notin raced => G[id] = Filled(p, f)
          BY <1>3, <1>7, <1>10
        <5> QED BY <1>4, <1>8, <4>2, <5>1, <5>2 DEF Serves
      <4> QED BY <1>3, <1>5, <1>9, <4>1, <4>2, AppendFacts
    <3> QED BY <1>9, <3>1 DEF ServedAll
  <2> QED BY <1>10, <2>1, <2>2, <2>3, <2>4 DEF UpToDate, G
<1> QED BY <1>1, <1>2, <1>12, FittingAlone

\* The row to insert is that of the component.
LEMMA FittingAdds ==
  ASSUME Sound, Fitting, NEW i \in Importer, Adds(i)
  PROVE  Fitting'
<1> DEFINE me == import[i]
<1>1. PICK m \in Transaction :
        /\ import' = [import EXCEPT ![i] = m]
        /\ m.pc = "flush" /\ m.of = me.of /\ m.products = me.products /\ m.held = me.held
        /\ m.fills = me.fills /\ m.new = me.new /\ m.filled = me.filled
        /\ m.insert = Row(Current(i)) /\ Row(Current(i)) \in Rows
  BY AddsEffect
<1>2. Reading(i) /\ product' = product /\ document' = document /\ raced' = raced
  BY DEF Adds
<1>3. me.pc = "read" /\ Canon(m.insert) /\ m.insert = Awaited(m)
  BY <1>1, <1>2, CurrentFacts DEF Awaited
<1>4. UpToDate(product, raced, me)
  BY <1>3 DEF Fitting, Open
<1> HIDE DEF me
<1>5. View(product, m) = View(product, me) /\ Final(product, m) = Final(product, me)
  BY <1>1 DEF View, Final
<1>6. UpToDate(product, raced, m)
  BY <1>1, <1>3, <1>4, <1>5 DEF UpToDate
<1> QED BY <1>1, <1>2, <1>6, FittingAlone

\* An UPDATE moves what is filled in from the object to the row; what the
\* commit will leave stays as it is.
LEMMA FittingUpdates ==
  ASSUME Sound, Fitting, NEW i \in Importer, Updates(i)
  PROVE  Fitting'
<1> DEFINE me == import[i]
           D == View(product, me)
<1>1. PICK t \in Id, m \in Transaction : import' = [import EXCEPT ![i] = m] /\ UpdatedTo(i, t, m)
  BY UpdatesEffect
<1>2. product' = product /\ document' = document /\ raced' = raced /\ Open(me)
  BY FlushingIsOpen DEF Updates, Runs
<1>3. Shape(me) /\ Backed(product, me) /\ product \in [Id -> Rows \cup {None}]
  BY OpenFacts
<1>4. UpToDate(product, raced, me) /\ \A k \in Id : product[k] # None => Canon(product[k])
  BY <1>2 DEF Fitting
<1>5. /\ t \in DOMAIN me.fills
      /\ m.pc = me.pc /\ m.of = me.of /\ m.products = me.products /\ m.held = me.held /\ m.insert = me.insert
      /\ DOMAIN m.fills = DOMAIN me.fills \ {t} /\ \A k \in DOMAIN m.fills : m.fills[k] = me.fills[k]
      /\ DOMAIN m.new = DOMAIN me.new
      /\ \A k \in DOMAIN m.new : m.new[k] = IF k = t THEN Filled(me.new[t], me.fills[t]) ELSE me.new[k]
      /\ DOMAIN m.filled = DOMAIN me.filled \cup ({t} \ DOMAIN me.new)
      /\ \A k \in DOMAIN m.filled : m.filled[k] =
           IF k # t \/ t \in DOMAIN me.new THEN me.filled[k]
           ELSE IF t \in DOMAIN me.filled THEN Filled(me.filled[t], me.fills[t]) ELSE me.fills[t]
  BY <1>1 DEF UpdatedTo
<1> HIDE DEF me
<1>6. /\ me.fills[t] \in Fill /\ There(product, me, t)
      /\ t \in DOMAIN me.filled => me.filled[t] \in Fill
      /\ DOMAIN me.fills \subseteq Id /\ DOMAIN me.held \subseteq Id
  BY <1>3, <1>5, SessionParts DEF Shape, Backed
<1>7. D[t] \in Rows /\ Canon(D[t])
  BY <1>3, <1>4, <1>6, SessionFacts
<1>8. Proper(D[t], me.fills[t]) /\ (t \notin raced => Lacks(D[t], me.fills[t]))
  BY <1>4, <1>5 DEF UpToDate
<1>9. /\ t \in DOMAIN me.new => D[t] = me.new[t]
      /\ t \notin DOMAIN me.new => /\ product[t] \in Rows
                                   /\ D[t] = IF t \in DOMAIN me.filled THEN Filled(product[t], me.filled[t]) ELSE product[t]
  <2>1. t \notin DOMAIN me.new => product[t] \in Rows
    BY <1>3, <1>6 DEF There
  <2> QED BY <2>1 DEF View, FilledIf
<1> HIDE DEF D
<1>10. \A k \in Id : View(product, m)[k] = IF k = t THEN Filled(D[t], me.fills[t]) ELSE D[k]
  <2>1. ASSUME NEW k \in Id, k # t PROVE View(product, m)[k] = D[k]
    BY <1>5, <2>1 DEF View, FilledIf, D
  <2>2. View(product, m)[t] = Filled(D[t], me.fills[t])
    <3>1. CASE t \in DOMAIN me.new
      BY <1>5, <1>9, <3>1 DEF View
    <3>2. CASE t \notin DOMAIN me.new /\ t \in DOMAIN me.filled
      <4>1. View(product, m)[t] = Filled(product[t], Filled(me.filled[t], me.fills[t]))
        BY <1>5, <3>2 DEF View, FilledIf
      <4> QED BY <1>6, <1>9, <3>2, <4>1, FilledFill
    <3>3. CASE t \notin DOMAIN me.new /\ t \notin DOMAIN me.filled
      BY <1>5, <1>9, <3>3 DEF View, FilledIf
    <3> QED BY <3>1, <3>2, <3>3
  <2> QED BY <2>1, <2>2
<1>11. Final(product, m) = Final(product, me)
  <2>1. ASSUME NEW k \in Id PROVE FilledIf(View(product, m)[k], m.fills, k) = FilledIf(View(product, me)[k], me.fills, k)
    <3>1. CASE k = t
      BY <1>5, <1>10, <3>1 DEF FilledIf, D
    <3>2. CASE k # t
      BY <1>5, <1>10, <3>2 DEF FilledIf, D
    <3> QED BY <3>1, <3>2
  <2> QED BY <2>1 DEF Final
<1>12. \A k \in Id : There(product, me, k) => Human(View(product, m)[k]) = Human(D[k])
  BY <1>6, <1>7, <1>10, FilledRow
<1>13. UpToDate(product, raced, m)
  <2>1. ASSUME NEW k \in DOMAIN m.new PROVE Canon(m.new[k])
    BY <1>4, <1>5, <1>6, <1>7, <1>8, <1>9, <2>1, FilledIsProper DEF UpToDate
  <2>2. ASSUME NEW k \in DOMAIN m.filled
        PROVE  Proper(product[k], m.filled[k]) /\ (k \notin raced => Lacks(product[k], m.filled[k]))
    <3>1. CASE k # t \/ t \in DOMAIN me.new
      <4>1. k \in DOMAIN me.filled /\ m.filled[k] = me.filled[k]
        BY <1>5, <3>1
      <4> QED BY <1>4, <4>1 DEF UpToDate
    <3>2. CASE k = t /\ t \notin DOMAIN me.new /\ t \in DOMAIN me.filled
      <4>1. m.filled[k] = Filled(me.filled[t], me.fills[t]) /\ D[t] = Filled(product[t], me.filled[t])
        BY <1>5, <1>9, <3>2
      <4>2. Proper(product[t], me.filled[t]) /\ (t \notin raced => Lacks(product[t], me.filled[t]))
        BY <1>4, <3>2 DEF UpToDate
      <4>3. Human(product[t]) = Human(D[t])
        BY <1>6, <1>9, <3>2, <4>1, FilledRow
      <4>4. Proper(product[t], me.fills[t])
        BY <1>8, <4>3, ProperByVersion
      <4> QED BY <1>6, <1>8, <1>9, <3>2, <4>1, <4>2, <4>4, FilledTwice
    <3>3. CASE k = t /\ t \notin DOMAIN me.new /\ t \notin DOMAIN me.filled
      <4>1. m.filled[k] = me.fills[t] /\ D[t] = product[t]
        BY <1>5, <1>9, <3>3
      <4> QED BY <1>8, <3>3, <4>1
    <3> QED BY <3>1, <3>2, <3>3
  <2>3. ASSUME NEW k \in DOMAIN m.fills
        PROVE  /\ Proper(View(product, m)[k], m.fills[k])
               /\ k \notin raced => Lacks(View(product, m)[k], m.fills[k])
    <3>1. k \in DOMAIN me.fills /\ k # t /\ m.fills[k] = me.fills[k] /\ k \in Id
      BY <1>5, <1>6
    <3>2. View(product, m)[k] = View(product, me)[k]
      BY <1>10, <3>1 DEF D
    <3> QED BY <1>4, <3>1, <3>2 DEF UpToDate
  <2>4. ASSUME NEW k \in DOMAIN m.held
        PROVE  /\ Canon(m.held[k]) /\ Human(m.held[k]) = Human(View(product, m)[k])
               /\ k \notin raced => m.held[k] = Final(product, m)[k]
    <3>1. k \in DOMAIN me.held /\ m.held[k] = me.held[k] /\ k \in Id /\ There(product, me, k)
      BY <1>3, <1>5, <1>6 DEF Backed
    <3>2. Human(View(product, m)[k]) = Human(View(product, me)[k])
      BY <1>12, <3>1 DEF D
    <3> QED BY <1>4, <1>11, <3>1, <3>2 DEF UpToDate
  <2>5. ServedAll(Final(product, m), raced, m.of, m.products)
    BY <1>4, <1>5, <1>11 DEF UpToDate
  <2>6. m.insert # None => Canon(m.insert) /\ m.insert = Awaited(m)
    BY <1>4, <1>5 DEF UpToDate, Awaited
  <2> QED BY <2>1, <2>2, <2>3, <2>4, <2>5, <2>6 DEF UpToDate
<1> QED BY <1>1, <1>2, <1>13, FittingAlone

\* An INSERT adds the row of the component.
LEMMA FittingInserts ==
  ASSUME Sound, Fitting, NEW i \in Importer, Inserts(i)
  PROVE  Fitting'
<1> DEFINE me == import[i]
           D == View(product, me)
<1>1. PICK id \in Id, m \in Transaction : import' = [import EXCEPT ![i] = m] /\ InsertedAs(i, id, m)
  BY InsertsEffect
<1>2. product' = product /\ document' = document /\ raced' = raced /\ me.pc = "flush"
  BY InsertsEffect DEF Inserts
<1>3. Shape(me) /\ Backed(product, me) /\ me.products \in Seq(Id) /\ product \in [Id -> Rows \cup {None}]
  BY OpenFacts
<1>4. UpToDate(product, raced, me)
  BY <1>2 DEF Fitting, Open
<1>5. /\ id \in FreeIds /\ me.insert \in Rows
      /\ me.fills = <<>> /\ m.fills = <<>> /\ m.filled = me.filled
      /\ m.of = me.of /\ m.products = Append(me.products, id) /\ m.insert = None
      /\ DOMAIN m.new = DOMAIN me.new \cup {id}
      /\ \A k \in DOMAIN m.new : m.new[k] = IF k = id THEN me.insert ELSE me.new[k]
      /\ DOMAIN m.held = {id} /\ m.held[id] = me.insert
  BY <1>1 DEF InsertedAs
<1>6. ~There(product, me, id) /\ id \notin DOMAIN me.filled
  BY <1>3, <1>5 DEF FreeIds, There, Backed
<1>7. Canon(me.insert) /\ me.insert = Awaited(me)
  <2>1. me.insert # None
    BY <1>5, DocumentsAssumption
  <2> QED BY <1>4, <2>1 DEF UpToDate
<1> HIDE DEF me
<1>8. DOMAIN me.fills = {} /\ DOMAIN m.fills = {}
  BY <1>5, NoneIsPartial
<1>9. ASSUME NEW k \in Id
      PROVE  /\ View(product, m)[k] = IF k = id THEN me.insert ELSE View(product, me)[k]
             /\ Final(product, m)[k] = View(product, m)[k] /\ Final(product, me)[k] = View(product, me)[k]
  <2>1. View(product, m)[k] = IF k = id THEN me.insert ELSE View(product, me)[k]
    BY <1>5 DEF View
  <2>2. Final(product, m)[k] = View(product, m)[k] /\ Final(product, me)[k] = View(product, me)[k]
    BY <1>8 DEF Final, FilledIf
  <2> QED BY <2>1, <2>2
<1>10. UpToDate(product, raced, m)
  <2>1. \A k \in DOMAIN m.new : Canon(m.new[k])
    BY <1>4, <1>5, <1>7 DEF UpToDate
  <2>2. \A k \in DOMAIN m.filled : Proper(product[k], m.filled[k]) /\ (k \notin raced => Lacks(product[k], m.filled[k]))
    BY <1>4, <1>5 DEF UpToDate
  <2>3. \A k \in DOMAIN m.held :
           /\ Canon(m.held[k]) /\ Human(m.held[k]) = Human(View(product, m)[k])
           /\ k \notin raced => m.held[k] = Final(product, m)[k]
    BY <1>5, <1>7, <1>9
  <2>4. ASSUME NEW n \in DOMAIN m.products
        PROVE  Serves(raced, Row(Items(me.of)[n]), m.products[n], Final(product, m)[m.products[n]])
    <3>1. CASE n \in DOMAIN me.products /\ m.products[n] = me.products[n]
      <4>1. There(product, me, me.products[n]) /\ me.products[n] \in Id
        BY <1>3, <3>1, ElementOfSeq DEF Backed
      <4>2. Final(product, m)[me.products[n]] = Final(product, me)[me.products[n]]
        BY <1>6, <1>9, <4>1
      <4> QED BY <1>4, <3>1, <4>2 DEF UpToDate, ServedAll
    <3>2. CASE n = Len(me.products) + 1 /\ m.products[n] = id
      <4>1. Final(product, m)[id] = me.insert
        BY <1>9
      <4>2. \A row : Serves(raced, row, id, row)
        BY DEF Serves, Named, Says
      <4> QED BY <1>7, <3>2, <4>1, <4>2 DEF Awaited
    <3> QED BY <1>3, <1>5, <3>1, <3>2, AppendFacts
  <2>5. ServedAll(Final(product, m), raced, m.of, m.products)
    BY <1>5, <2>4 DEF ServedAll
  <2> QED BY <1>5, <1>8, <2>1, <2>2, <2>3, <2>5 DEF UpToDate
<1> QED BY <1>1, <1>2, <1>10, FittingAlone

\* What i has changed in rows that another session holds, or has changed too, is
\* raced for.
LEMMA RacedIsChanged ==
  ASSUME Sound, NEW i \in Importer, NEW j \in Importer, j # i, Open(import[j]),
         NEW k \in DOMAIN import[j].held \cup DOMAIN import[j].filled, k \notin raced \cup Races(i)
  PROVE  Db(i)[k] = product[k]
<1>1. Shape(import[i]) /\ Backed(product, import[i]) /\ Shape(import[j]) /\ Backed(product, import[j])
  BY OpenFacts
<1>2. k \in Id
  BY <1>1, SessionParts
<1>3. k \notin DOMAIN import[i].new
  <2>1. k \in DOMAIN import[j].new \/ product[k] # None
    BY <1>1 DEF Backed, There
  <2> QED BY <1>1, <2>1 DEF Sound, Separate, Backed
<1>4. k \notin DOMAIN import[i].filled
  <2>1. j \in InFlight \ {i}
    BY DEF InFlight, Open
  <2> QED BY <1>2, <2>1 DEF Races
<1> QED BY <1>2, <1>3, <1>4 DEF Db, FilledIf

\* So the other sessions stay up to date.
LEMMA OthersUpToDate ==
  ASSUME Sound, Fitting, NEW i \in Importer, NEW j \in Importer, j # i, Open(import[i]), Open(import[j])
  PROVE  UpToDate(Db(i), raced \cup Races(i), import[j])
<1> DEFINE me == import[i]
           m == import[j]
           q == Db(i)
           r == raced \cup Races(i)
<1>1. /\ Shape(me) /\ Backed(product, me) /\ product \in [Id -> Rows \cup {None}]
      /\ q = View(product, me) /\ q \in [Id -> Rows \cup {None}]
      /\ \A k \in Id : q[k] # None <=> There(product, me, k)
  BY OpenFacts
<1>2. Shape(m) /\ Backed(product, m) /\ m.products \in Seq(Id)
  BY OpenFacts
<1>3. /\ UpToDate(product, raced, me) /\ UpToDate(product, raced, m)
      /\ \A k \in Id : product[k] # None => Canon(product[k])
  BY DEF Fitting
<1>4. \A k \in DOMAIN m.held \cup DOMAIN m.filled : k \notin r => q[k] = product[k]
  BY RacedIsChanged
<1>5. \A k \in Id : product[k] # None =>
        /\ q[k] # None /\ Human(q[k]) = Human(product[k])
        /\ k \notin raced => Keeps(product[k], q[k])
  <2>1. ASSUME NEW k \in Id, product[k] # None
        PROVE  q[k] # None /\ Human(q[k]) = Human(product[k]) /\ (k \notin raced => Keeps(product[k], q[k]))
    <3>1. There(product, me, k)
      BY <2>1 DEF There
    <3> QED BY <1>1, <1>3, <2>1, <3>1, SessionFacts
  <2> QED BY <2>1
<1>6. \A k \in Id : There(product, m, k) => There(q, m, k)
  BY <1>5 DEF There
<1>7. \A k \in DOMAIN m.new : q[k] = None
  <2>1. \A k \in DOMAIN m.new : k \notin DOMAIN me.new /\ product[k] = None /\ k \in Id
    BY <1>2, SessionParts DEF Sound, Separate, Backed
  <2> QED BY <1>1, <2>1 DEF There
<1>8. Backed(q, m)
  <2>1. DOMAIN m.held \subseteq Id /\ DOMAIN m.filled \subseteq Id /\ \A n \in DOMAIN m.products : m.products[n] \in Id
    BY <1>2, SessionParts, ElementOfSeq
  <2> QED BY <1>2, <1>5, <1>6, <1>7, <2>1 DEF Backed
<1> HIDE DEF q, m, r, me
<1>9. ASSUME NEW k \in Id, There(product, m, k)
      PROVE  /\ Human(View(q, m)[k]) = Human(View(product, m)[k])
             /\ Human(Final(q, m)[k]) = Human(Final(product, m)[k])
             /\ Human(View(product, m)[k]) = Human(Final(product, m)[k])
  <2>1. Human(View(q, m)[k]) = Human(View(product, m)[k])
    <3>1. CASE k \in DOMAIN m.new
      BY <3>1 DEF View
    <3>2. CASE k \notin DOMAIN m.new
      <4>1. product[k] # None
        BY <1>9, <3>2 DEF There
      <4> QED BY <1>1, <1>2, <1>5, <1>8, <4>1, ViewType
    <3> QED BY <3>1, <3>2
  <2>2. Human(Final(q, m)[k]) = Human(View(q, m)[k]) /\ Human(Final(product, m)[k]) = Human(View(product, m)[k])
    BY <1>1, <1>2, <1>6, <1>8, <1>9, FinalType
  <2> QED BY <2>1, <2>2
<1>10. ASSUME NEW k \in Id, k \in DOMAIN m.new \/ q[k] = product[k]
       PROVE  View(q, m)[k] = View(product, m)[k] /\ Final(q, m)[k] = Final(product, m)[k]
  <2>1. View(q, m)[k] = View(product, m)[k]
    BY <1>10 DEF View
  <2> QED BY <2>1 DEF Final
<1>11. /\ DOMAIN m.held \subseteq Id /\ DOMAIN m.filled \subseteq Id /\ DOMAIN m.fills \subseteq DOMAIN m.held
       /\ \A k \in DOMAIN m.held : There(product, m, k)
       /\ \A k \in DOMAIN m.filled : product[k] # None
       /\ \A n \in DOMAIN m.products : m.products[n] \in Id /\ There(product, m, m.products[n])
  BY <1>2, SessionParts, ElementOfSeq DEF Backed, Shape
<1>12. raced \subseteq r
  BY DEF r
<1>13. \A k \in DOMAIN m.filled : Proper(q[k], m.filled[k]) /\ (k \notin r => Lacks(q[k], m.filled[k]))
  <2>1. ASSUME NEW k \in DOMAIN m.filled PROVE Proper(q[k], m.filled[k])
    <3>1. Proper(product[k], m.filled[k]) /\ Human(product[k]) = Human(q[k])
      BY <1>3, <1>5, <1>11 DEF UpToDate
    <3> QED BY <3>1, ProperByVersion
  <2>2. \A k \in DOMAIN m.filled : k \notin r => Lacks(q[k], m.filled[k])
    BY <1>3, <1>4, <1>12 DEF UpToDate
  <2> QED BY <2>1, <2>2
<1>14. ASSUME NEW k \in DOMAIN m.fills
       PROVE  Proper(View(q, m)[k], m.fills[k]) /\ (k \notin r => Lacks(View(q, m)[k], m.fills[k]))
  <2>1. k \in Id /\ k \in DOMAIN m.held /\ There(product, m, k)
    BY <1>11
  <2>2. Proper(View(product, m)[k], m.fills[k]) /\ (k \notin raced => Lacks(View(product, m)[k], m.fills[k]))
    BY <1>3 DEF UpToDate
  <2>3. k \notin r => View(q, m)[k] = View(product, m)[k]
    BY <1>4, <1>10, <2>1
  <2>4. Proper(View(q, m)[k], m.fills[k])
    BY <1>9, <2>1, <2>2, ProperByVersion
  <2> QED BY <1>12, <2>2, <2>3, <2>4
<1>15. ASSUME NEW k \in DOMAIN m.held
       PROVE  /\ Canon(m.held[k]) /\ Human(m.held[k]) = Human(View(q, m)[k])
              /\ k \notin r => m.held[k] = Final(q, m)[k]
  <2>1. k \in Id /\ There(product, m, k)
    BY <1>11
  <2>2. k \notin r => Final(q, m)[k] = Final(product, m)[k]
    BY <1>4, <1>10, <2>1
  <2> QED BY <1>3, <1>9, <1>12, <2>1, <2>2 DEF UpToDate
<1>16. ASSUME NEW n \in DOMAIN m.products
       PROVE  Serves(r, Row(Items(m.of)[n]), m.products[n], Final(q, m)[m.products[n]])
  <2> DEFINE k == m.products[n]
             row == Row(Items(m.of)[n])
  <2>1. k \in Id /\ There(product, m, k) /\ Serves(raced, row, k, Final(product, m)[k])
    BY <1>3, <1>11 DEF UpToDate, ServedAll
  <2> HIDE DEF k, row
  <2>2. Named(row, Final(q, m)[k])
    BY <1>9, <2>1, FitsKept DEF Serves
  <2>3. ASSUME k \notin r PROVE Says(row, Final(q, m)[k])
    <3>1. Says(row, Final(product, m)[k])
      BY <1>12, <2>1, <2>3 DEF Serves
    <3>2. CASE k \in DOMAIN m.new \/ k \in DOMAIN m.held \cup DOMAIN m.filled
      BY <1>4, <1>10, <2>1, <2>3, <3>1, <3>2
    <3>3. CASE k \notin DOMAIN m.new /\ k \notin DOMAIN m.held \cup DOMAIN m.filled
      <4>1. product[k] # None /\ Keeps(product[k], q[k])
        BY <1>5, <1>12, <2>1, <2>3, <3>3 DEF There
      <4>2. Final(product, m)[k] = product[k] /\ Final(q, m)[k] = q[k]
        BY <1>11, <2>1, <3>3 DEF Final, FilledIf, View
      <4> QED BY <3>1, <4>1, <4>2, FitsKept
    <3> QED BY <3>2, <3>3
  <2> QED BY <2>2, <2>3 DEF Serves, k, row
<1>17. /\ \A k \in DOMAIN m.new : Canon(m.new[k])
       /\ m.insert # None => Canon(m.insert) /\ m.insert = Awaited(m)
  BY <1>3 DEF UpToDate
<1>18. UpToDate(q, r, m)
  BY <1>13, <1>14, <1>15, <1>16, <1>17 DEF UpToDate, ServedAll
<1> QED BY <1>18 DEF q, r, m

\* What is raced for is claimed less of.
LEMMA ServesLess ==
  ASSUME NEW r, NEW s, r \subseteq s, NEW row, NEW id, NEW p, NEW p2,
         Human(p2) = Human(p), id \notin r => Keeps(p, p2), Serves(r, row, id, p)
  PROVE  Serves(s, row, id, p2)
  BY FitsKept DEF Serves

\* A commit keeps it.
LEMMA FittingCommits ==
  ASSUME Sound, Fitting, NEW i \in Importer, Commits(i)
  PROVE  Fitting'
<1> DEFINE me == import[i]
           s == Content[me.of].serial
           e == [of |-> me.of, products |-> me.products, check |-> None]
           m == IF me.of \in Check THEN [Idle EXCEPT !.pc = "link", !.of = me.of] ELSE Idle
           q == Db(i)
           r == raced \cup Races(i)
<1>1. /\ product' = q /\ raced' = r
      /\ document' = [document EXCEPT ![s] = e]
      /\ import' = [import EXCEPT ![i] = m]
      /\ me.pc = "read" /\ me.fills = <<>>
  BY DEF Commits, Ends, Finished
<1>2. ~Open(m)
  BY DEF Open, Idle
<1>3. /\ import \in [Importer -> Transaction] /\ document \in [Serial -> Entry \cup {None}]
      /\ product \in [Id -> Rows \cup {None}]
      /\ q = View(product, me) /\ Shape(me) /\ Backed(product, me) /\ me.products \in Seq(Id)
      /\ \A k \in Id : q[k] # None <=> There(product, me, k)
  BY OpenFacts DEF Sound, Tables, Transactions
<1>4. Open(me) /\ UpToDate(product, raced, me) /\ \A k \in Id : product[k] # None => Canon(product[k])
  BY <1>1 DEF Fitting, Open
<1> HIDE DEF q, m, me, r
<1>5. import'[i] = m /\ \A j \in Importer : j # i => import'[j] = import[j]
  BY <1>1, <1>3
<1>6. \A k \in Id : q[k] # None => Canon(q[k])
  BY <1>3, <1>4, SessionFacts
<1>7. \A k \in Id : Final(product, me)[k] = q[k]
  <2>1. DOMAIN me.fills = {}
    BY <1>1, NoneIsPartial
  <2> QED BY <1>3, <2>1 DEF Final, FilledIf
<1>8. raced \subseteq r
  BY DEF r
<1>9. ASSUME NEW t \in Serial, document'[t] # None
      PROVE  ServedAll(q, r, document'[t].of, document'[t].products)
  <2>1. CASE t = s
    <3>1. document'[t].of = me.of /\ document'[t].products = me.products
      BY <1>1, <1>3, <2>1
    <3>2. ASSUME NEW n \in DOMAIN me.products PROVE Serves(r, Row(Items(me.of)[n]), me.products[n], q[me.products[n]])
      <4>1. me.products[n] \in Id
        BY <1>3, ElementOfSeq
      <4>2. Serves(raced, Row(Items(me.of)[n]), me.products[n], q[me.products[n]])
        BY <1>4, <1>7, <4>1 DEF UpToDate, ServedAll
      <4>3. \A p : Keeps(p, p)
        BY DEF Keeps
      <4> QED BY <1>8, <4>2, <4>3, ServesLess
    <3> QED BY <3>1, <3>2 DEF ServedAll
  <2>2. CASE t # s
    <3>1. document'[t] = document[t] /\ document[t] # None
      BY <1>1, <1>3, <1>9, <2>2
    <3>2. document[t].products \in Seq(Id) /\ \A n \in DOMAIN document[t].products : product[document[t].products[n]] # None
      BY <1>3, <3>1 DEF Sound, Tables, EntryOK, Entry
    <3>3. ServedAll(product, raced, document[t].of, document[t].products)
      BY <3>1 DEF Fitting
    <3> DEFINE w == document[t].products
               d == document[t].of
    <3>4. ASSUME NEW n \in DOMAIN w PROVE Serves(r, Row(Items(d)[n]), w[n], q[w[n]])
      <4>1. w[n] \in Id /\ product[w[n]] # None
        BY <3>2, ElementOfSeq
      <4>2. There(product, me, w[n])
        BY <4>1 DEF There
      <4>3. Human(q[w[n]]) = Human(product[w[n]]) /\ (w[n] \notin raced => Keeps(product[w[n]], q[w[n]]))
        BY <1>3, <1>4, <4>1, <4>2, SessionFacts
      <4>4. Serves(raced, Row(Items(d)[n]), w[n], product[w[n]])
        BY <3>3 DEF ServedAll
      <4> HIDE DEF w, d
      <4> QED BY <1>8, <4>3, <4>4, ServesLess
    <3> QED BY <3>1, <3>4 DEF ServedAll
  <2> QED BY <2>1, <2>2
<1>10. ASSUME NEW j \in Importer, Open(import'[j]) PROVE UpToDate(q, r, import'[j])
  <2>1. j # i /\ import'[j] = import[j] /\ Open(import[j])
    BY <1>2, <1>5, <1>10
  <2> QED BY <1>4, <2>1, OthersUpToDate DEF q, r, me
<1>11. \A k \in Id : product'[k] # None => Canon(product'[k])
  BY <1>1, <1>6
<1>12. \A t \in Serial : document'[t] # None => ServedAll(product', raced', document'[t].of, document'[t].products)
  BY <1>1, <1>9
<1>13. \A j \in Importer : Open(import[j])' => UpToDate(product, raced, import[j])'
  BY <1>1, <1>10
<1> QED BY <1>11, <1>12, <1>13 DEF Fitting

\* The second transaction of a check changes no product.
LEMMA FittingLinks ==
  ASSUME Sound, Fitting, NEW i \in Importer, Links(i)
  PROVE  Fitting'
<1> DEFINE c == import[i].of
<1>1. /\ product' = product /\ raced' = raced /\ import[i].pc = "link"
      /\ document' = [document EXCEPT ![c] = [document[c] EXCEPT !.check = c]]
      /\ import' = [import EXCEPT ![i] = Idle]
  BY DEF Links, Ends
<1>2. ~Open(Idle)
  BY DEF Open, Idle
<1>3. import \in [Importer -> Transaction] /\ document \in [Serial -> Entry \cup {None}]
  BY DEF Sound, Tables, Transactions
<1>4. c \in Serial /\ document[c] # None
  BY <1>1, OpenFacts, SerialOfCheck, SerialType DEF Shape, Sound, Serials
<1>5. document[c] \in Entry
  BY <1>3, <1>4
<1>6. document'[c].of = document[c].of /\ document'[c].products = document[c].products
  BY <1>1, <1>3, <1>4, <1>5 DEF Entry
<1>7. \A t \in Serial : t # c => document'[t] = document[t]
  BY <1>1, <1>3
<1> HIDE DEF c
<1>8. \A t \in Serial : document'[t] # None => ServedAll(product, raced, document'[t].of, document'[t].products)
  BY <1>4, <1>6, <1>7 DEF Fitting
<1>9. \A j \in Importer : Open(import'[j]) => UpToDate(product, raced, import'[j])
  BY <1>1, <1>2, <1>3 DEF Fitting
<1>10. \A j \in Importer : Open(import[j])' => UpToDate(product, raced, import[j])'
  BY <1>1, <1>9
<1> QED BY <1>1, <1>8, <1>10 DEF Fitting

\* A step that is no commit changes no product,
LEMMA CommitsOnly ==
  ASSUME NEW i \in Importer,
         \/ \E d \in Document : Begins(i, d)
         \/ Refuses(i) \/ Attaches(i) \/ Adds(i) \/ Updates(i) \/ Inserts(i) \/ FlushFails(i)
         \/ Commits(i) \/ CommitFails(i) \/ Links(i) \/ Dies(i)
  PROVE  /\ Commits(i) \/ (product' = product /\ raced' = raced)
         /\ Refuses(i) \/ FlushFails(i) \/ CommitFails(i) \/ Dies(i)
              => import' = [import EXCEPT ![i] = Idle] /\ document' = document /\ product' = product /\ raced' = raced
<1>1. Commits(i) \/ (product' = product /\ raced' = raced)
  BY DEF Begins, Refuses, Attaches, Adds, Updates, Inserts, FlushFails, CommitFails, Links, Dies
<1>2. Refuses(i) \/ FlushFails(i) \/ CommitFails(i) \/ Dies(i)
        => import' = [import EXCEPT ![i] = Idle] /\ document' = document /\ product' = product /\ raced' = raced
  BY DEF Refuses, FlushFails, CommitFails, Dies, Ends
<1> QED BY <1>1, <1>2

\* so every step keeps it.
LEMMA FittingNext == Sound /\ Fitting /\ [DocumentsNext]_documentsVars => Fitting'
<1> SUFFICES ASSUME Sound, Fitting, [DocumentsNext]_documentsVars PROVE Fitting'
  OBVIOUS
<1>1. CASE UNCHANGED documentsVars
  BY <1>1 DEF documentsVars, Fitting
<1>2. CASE DocumentsNext
  <2>1. PICK i \in Importer :
          \/ \E d \in Document : Begins(i, d)
          \/ Refuses(i) \/ Attaches(i) \/ Adds(i) \/ Updates(i) \/ Inserts(i) \/ FlushFails(i)
          \/ Commits(i) \/ CommitFails(i) \/ Links(i) \/ Dies(i)
    BY <1>2 DEF DocumentsNext
  <2>2. CASE Refuses(i) \/ FlushFails(i) \/ CommitFails(i) \/ Dies(i)
    BY <2>1, <2>2, CommitsOnly, FittingIdle
  <2> QED BY <2>1, <2>2, FittingBegins, FittingAttaches, FittingAdds, FittingUpdates, FittingInserts, FittingCommits, FittingLinks
<1> QED BY <1>1, <1>2

\* What a commit leaves keeps what was there, but for races.
LEMMA CommitKeeps ==
  ASSUME Sound, Fitting, NEW i \in Importer, Commits(i), NEW id \in Id, product[id] # None
  PROVE  product'[id] # None /\ Human(product'[id]) = Human(product[id])
         /\ (id \notin raced => Keeps(product[id], product'[id]))
<1>1. /\ Shape(import[i]) /\ Backed(product, import[i]) /\ product \in [Id -> Rows \cup {None}]
      /\ product' = View(product, import[i])
      /\ (View(product, import[i])[id] # None <=> There(product, import[i], id))
  BY OpenFacts DEF Commits
<1>2. UpToDate(product, raced, import[i]) /\ \A k \in Id : product[k] # None => Canon(product[k])
  BY DEF Fitting, Open, Commits, Finished
<1>3. There(product, import[i], id)
  BY DEF There
<1> QED BY <1>1, <1>2, <1>3, SessionFacts

-----------------------------------------------------------------------------
(* One product for each name *)

\* The products q that have the name of a row are raced for.
NameTaken(q, r, row) == \A a \in Id : q[a] # None /\ Human(q[a]) = Human(row) => a \in r

\* What a session has inserted and will insert is told apart by name, also from
\* the products there are, but for races.
OwnNames(q, r, m) ==
  /\ \A k \in DOMAIN m.new : NameTaken(q, r, m.new[k])
  /\ \A k, l \in DOMAIN m.new : k # l => Human(m.new[k]) # Human(m.new[l])
  /\ m.insert # None => /\ NameTaken(q, r, m.insert)
                        /\ \A k \in DOMAIN m.new : Human(m.new[k]) # Human(m.insert)

Twins ==
  /\ OneProductPerName
  /\ \A i \in Importer : Open(import[i]) => OwnNames(product, raced, import[i])

\* Nothing is stored at first,
LEMMA TwinsInit == DocumentsInit => Twins
<1> SUFFICES ASSUME DocumentsInit PROVE Twins
  OBVIOUS
<1>1. (\A i \in Importer : ~Open(import[i])) /\ \A id \in Id : product[id] = None
  BY DEF DocumentsInit, Idle, Open
<1> QED BY <1>1 DEF Twins, OneProductPerName

\* A step of one transaction that commits nothing.
LEMMA TwinsAlone ==
  ASSUME Sound, Twins, NEW i \in Importer, NEW m, Open(m) => OwnNames(product, raced, m),
         product' = product, raced' = raced, import' = [import EXCEPT ![i] = m]
  PROVE  Twins'
<1>1. import \in [Importer -> Transaction]
  BY DEF Sound, Transactions
<1>2. import'[i] = m /\ \A j \in Importer : j # i => import'[j] = import[j]
  BY <1>1
<1>3. \A j \in Importer : Open(import'[j]) => OwnNames(product, raced, import'[j])
  BY <1>2 DEF Twins
<1>4. \A j \in Importer : Open(import[j])' => OwnNames(product, raced, import[j])'
  BY <1>3
<1>5. OneProductPerName'
  BY DEF Twins, OneProductPerName
<1> QED BY <1>4, <1>5 DEF Twins

\* A session that is begun has no names.
LEMMA TwinsBegins ==
  ASSUME Sound, Twins, NEW i \in Importer, NEW d \in Document, Begins(i, d)
  PROVE  Twins'
<1> DEFINE m == IF document[Content[d].serial] = None THEN [Idle EXCEPT !.pc = "read", !.of = d] ELSE Idle
<1>1. import' = [import EXCEPT ![i] = m] /\ product' = product /\ raced' = raced
  BY DEF Begins
<1>2. m.new = <<>> /\ m.insert = None
  BY DEF Idle
<1> HIDE DEF m
<1>3. OwnNames(product, raced, m)
  BY <1>2, NoneIsPartial DEF OwnNames
<1> QED BY <1>1, <1>3, TwinsAlone

\* A component that is attached adds no name.
LEMMA TwinsAttaches ==
  ASSUME Sound, Twins, NEW i \in Importer, Attaches(i)
  PROVE  Twins'
<1>1. PICK id \in Matches(i, Row(Current(i))), m \in Transaction :
        /\ import' = [import EXCEPT ![i] = m]
        /\ AttachedTo(i, id, Lacking(Memory(i)[id], Row(Current(i))), m)
  BY AttachesEffect
<1>2. product' = product /\ raced' = raced /\ Open(import[i])
  BY DEF Attaches, Reading, Open
<1>3. m.new = import[i].new /\ m.insert = import[i].insert
  BY <1>1 DEF AttachedTo
<1>4. OwnNames(product, raced, m)
  BY <1>2, <1>3 DEF Twins, OwnNames
<1> QED BY <1>1, <1>2, <1>4, TwinsAlone

\* A name that is about to be inserted is not among what the session sees.
LEMMA TwinsAdds ==
  ASSUME Sound, Fitting, Twins, NEW i \in Importer, Adds(i)
  PROVE  Twins'
<1> DEFINE me == import[i]
           row == Row(Current(i))
           D == View(product, me)
<1>1. PICK m \in Transaction : import' = [import EXCEPT ![i] = m] /\ m.new = me.new /\ m.insert = row
  BY AddsEffect
<1>2. Reading(i) /\ Matches(i, row) = {} /\ product' = product /\ raced' = raced /\ Open(me)
  BY DEF Adds, Reading, Open
<1>3. /\ Shape(me) /\ Backed(product, me) /\ product \in [Id -> Rows \cup {None}]
      /\ Db(i) = D /\ Memory(i) = Held(product, me)
      /\ \A k \in Id : D[k] # None <=> There(product, me, k)
  BY OpenFacts
<1>4. UpToDate(product, raced, me) /\ \A k \in Id : product[k] # None => Canon(product[k])
  BY <1>2 DEF Fitting
<1> HIDE DEF me, row, D
<1>5. ASSUME NEW k \in Id, There(product, me, k) PROVE Human(D[k]) # Human(row)
  <2>1. Human(Held(product, me)[k]) = Human(D[k])
    BY <1>3, <1>4, <1>5, SessionFacts DEF D
  <2>2. Human(D[k]) = Human(row) => k \in Candidates(i, row)
    BY <1>3, <1>5 DEF Candidates, Candidate
  <2>3. Human(D[k]) = Human(row) => k \in Matches(i, row)
    BY <1>3, <2>1, <2>2 DEF Matches, Matching
  <2> QED BY <1>2, <2>3
<1>6. NameTaken(product, raced, row)
  <2>1. ASSUME NEW a \in Id, product[a] # None PROVE Human(product[a]) # Human(row)
    <3>1. There(product, me, a)
      BY <2>1 DEF There
    <3>2. Human(D[a]) = Human(product[a])
      BY <1>3, <1>4, <2>1, <3>1, SessionFacts DEF D
    <3> QED BY <1>5, <3>1, <3>2
  <2> QED BY <2>1 DEF NameTaken
<1>7. \A k \in DOMAIN me.new : Human(me.new[k]) # Human(row)
  <2>1. DOMAIN me.new \subseteq Id
    BY <1>3, SessionParts
  <2>2. \A k \in DOMAIN me.new : There(product, me, k) /\ D[k] = me.new[k]
    BY <2>1 DEF There, D, View
  <2> QED BY <1>5, <2>1, <2>2
<1>8. OwnNames(product, raced, m)
  BY <1>1, <1>2, <1>6, <1>7 DEF Twins, OwnNames, me
<1> QED BY <1>1, <1>2, <1>8, TwinsAlone

\* An UPDATE changes no name.
LEMMA TwinsUpdates ==
  ASSUME Sound, Twins, NEW i \in Importer, Updates(i)
  PROVE  Twins'
<1> DEFINE me == import[i]
<1>1. PICK t \in Id, m \in Transaction : import' = [import EXCEPT ![i] = m] /\ UpdatedTo(i, t, m)
  BY UpdatesEffect
<1>2. product' = product /\ raced' = raced /\ Open(me)
  BY FlushingIsOpen DEF Updates, Runs
<1>3. /\ t \in DOMAIN me.fills /\ m.insert = me.insert /\ DOMAIN m.new = DOMAIN me.new
      /\ \A k \in DOMAIN m.new : m.new[k] = IF k = t THEN Filled(me.new[t], me.fills[t]) ELSE me.new[k]
  BY <1>1 DEF UpdatedTo
<1>4. Shape(me) /\ OwnNames(product, raced, me)
  BY <1>2, OpenFacts DEF Twins
<1> HIDE DEF me
<1>5. \A k \in DOMAIN me.new : Human(m.new[k]) = Human(me.new[k])
  <2>1. me.fills[t] \in Fill /\ \A k \in DOMAIN me.new : me.new[k] \in Rows
    BY <1>3, <1>4, SessionParts
  <2>2. ASSUME NEW k \in DOMAIN me.new PROVE Human(m.new[k]) = Human(me.new[k])
    <3>1. Human(Filled(me.new[k], me.fills[t])) = Human(me.new[k])
      BY <2>1, FilledRow
    <3> QED BY <1>3, <3>1
  <2> QED BY <2>2
<1>6. OwnNames(product, raced, m)
  BY <1>3, <1>4, <1>5 DEF OwnNames, NameTaken
<1> QED BY <1>1, <1>2, <1>6, TwinsAlone

\* An INSERT adds the name that was free.
LEMMA TwinsInserts ==
  ASSUME Sound, Twins, NEW i \in Importer, Inserts(i)
  PROVE  Twins'
<1> DEFINE me == import[i]
<1>1. PICK id \in Id, m \in Transaction : import' = [import EXCEPT ![i] = m] /\ InsertedAs(i, id, m)
  BY InsertsEffect
<1>2. product' = product /\ raced' = raced /\ Open(me)
  BY FlushingIsOpen DEF Inserts, Runs
<1>3. /\ me.insert \in Rows /\ m.insert = None /\ DOMAIN m.new = DOMAIN me.new \cup {id}
      /\ \A k \in DOMAIN m.new : m.new[k] = IF k = id THEN me.insert ELSE me.new[k]
  BY <1>1 DEF InsertedAs
<1>4. me.insert # None
  BY <1>3, DocumentsAssumption
<1>5. OwnNames(product, raced, me)
  BY <1>2 DEF Twins
<1> HIDE DEF me
<1>6. OwnNames(product, raced, m)
  BY <1>3, <1>4, <1>5 DEF OwnNames
<1> QED BY <1>1, <1>2, <1>6, TwinsAlone

\* Of names that are added twice, the one that is committed first is raced for.
LEMMA TwinsCommits ==
  ASSUME Sound, Twins, NEW i \in Importer, Commits(i)
  PROVE  Twins'
<1> DEFINE me == import[i]
           q == Db(i)
           r == raced \cup Races(i)
           m == IF me.of \in Check THEN [Idle EXCEPT !.pc = "link", !.of = me.of] ELSE Idle
<1>1. product' = q /\ raced' = r /\ import' = [import EXCEPT ![i] = m] /\ Open(me)
  BY DEF Commits, Ends, Finished, Open
<1>2. ~Open(m)
  BY DEF Open, Idle
<1>3. /\ import \in [Importer -> Transaction]
      /\ Shape(me) /\ Backed(product, me)
      /\ \A k \in Id : q[k] # None <=> There(product, me, k)
      /\ \A k \in Id : product[k] # None => Human(q[k]) = Human(product[k])
      /\ \A k \in DOMAIN me.new : k \in Id /\ q[k] = me.new[k]
  <2>1. Shape(me) /\ DOMAIN me.new \subseteq Id
    BY OpenFacts, SessionParts
  <2>2. \A k \in DOMAIN me.new : k \in Id /\ q[k] = me.new[k]
    BY <2>1 DEF Db
  <2> QED BY <2>2, OpenFacts DEF Sound, Transactions
<1>4. OwnNames(product, raced, me)
  BY <1>1 DEF Twins
<1>5. raced \subseteq r /\ \A id \in Id : id \in Races(i) => id \in r
  OBVIOUS
<1>6. ASSUME NEW j \in Importer, j # i, Open(import[j]), NEW w,
             w \in {import[j].insert} \cup {import[j].new[k] : k \in DOMAIN import[j].new}, w # None,
             NEW a \in DOMAIN me.new, Human(w) = Human(me.new[a])
      PROVE  a \in Races(i)
  <2>1. j \in InFlight \ {i} /\ a \in Id
    BY <1>3, <1>6 DEF InFlight, Open
  <2> QED BY <1>6, <2>1 DEF Races
<1> HIDE DEF q, r, m, me
<1>7. ASSUME NEW a \in Id, NEW b \in Id, a # b, q[a] # None, q[b] # None, Human(q[a]) = Human(q[b])
      PROVE  {a, b} \cap r # {}
  <2>1. CASE product[a] # None /\ product[b] # None
    <3>1. Human(product[a]) = Human(product[b])
      BY <1>3, <1>7, <2>1
    <3>2. {a, b} \cap raced # {}
      BY <1>7, <2>1, <3>1 DEF Twins, OneProductPerName
    <3> QED BY <1>5, <3>2
  <2>2. CASE product[a] # None /\ product[b] = None
    <3>1. b \in DOMAIN me.new /\ Human(product[a]) = Human(me.new[b])
      BY <1>3, <1>7, <2>2 DEF There
    <3>2. a \in raced
      BY <1>4, <2>2, <3>1 DEF OwnNames, NameTaken
    <3> QED BY <1>5, <3>2
  <2>3. CASE product[b] # None /\ product[a] = None
    <3>1. a \in DOMAIN me.new /\ Human(product[b]) = Human(me.new[a])
      BY <1>3, <1>7, <2>3 DEF There
    <3>2. b \in raced
      BY <1>4, <2>3, <3>1 DEF OwnNames, NameTaken
    <3> QED BY <1>5, <3>2
  <2>4. CASE product[a] = None /\ product[b] = None
    <3>1. a \in DOMAIN me.new /\ b \in DOMAIN me.new /\ Human(me.new[a]) = Human(me.new[b])
      BY <1>3, <1>7, <2>4 DEF There
    <3> QED BY <1>4, <1>7, <3>1 DEF OwnNames
  <2> QED BY <2>1, <2>2, <2>3, <2>4
<1>8. ASSUME NEW j \in Importer, j # i, Open(import[j]), NEW w,
             w \in {import[j].insert} \cup {import[j].new[k] : k \in DOMAIN import[j].new}, w # None,
             NameTaken(product, raced, w)
      PROVE  NameTaken(q, r, w)
  <2>1. ASSUME NEW a \in Id, q[a] # None, Human(q[a]) = Human(w) PROVE a \in r
    <3>1. CASE product[a] # None
      BY <1>3, <1>5, <1>8, <2>1, <3>1 DEF NameTaken
    <3>2. CASE product[a] = None
      <4>1. a \in DOMAIN me.new /\ Human(w) = Human(me.new[a])
        BY <1>3, <2>1, <3>2 DEF There
      <4> QED BY <1>5, <1>6, <1>8, <2>1, <4>1
    <3> QED BY <3>1, <3>2
  <2> QED BY <2>1 DEF NameTaken
<1>9. ASSUME NEW j \in Importer, Open(import'[j]) PROVE OwnNames(q, r, import'[j])
  <2>1. j # i /\ import'[j] = import[j] /\ Open(import[j]) /\ OwnNames(product, raced, import[j])
    BY <1>1, <1>2, <1>3, <1>9 DEF Twins
  <2>2. \A k \in DOMAIN import[j].new : import[j].new[k] # None
    <3>1. \A k \in DOMAIN import[j].new : import[j].new[k] \in Rows
      BY OpenFacts, SessionParts
    <3> QED BY <3>1, DocumentsAssumption
  <2>3. \A k \in DOMAIN import[j].new : NameTaken(q, r, import[j].new[k])
    BY <1>8, <2>1, <2>2 DEF OwnNames
  <2>4. import[j].insert # None => NameTaken(q, r, import[j].insert)
    BY <1>8, <2>1 DEF OwnNames
  <2> QED BY <2>1, <2>3, <2>4 DEF OwnNames
<1>10. OneProductPerName'
  BY <1>1, <1>7 DEF OneProductPerName
<1>11. \A j \in Importer : Open(import[j])' => OwnNames(product, raced, import[j])'
  BY <1>1, <1>9
<1> QED BY <1>10, <1>11 DEF Twins

\* Every step keeps it.
LEMMA TwinsNext == Sound /\ Fitting /\ Twins /\ [DocumentsNext]_documentsVars => Twins'
<1> SUFFICES ASSUME Sound, Fitting, Twins, [DocumentsNext]_documentsVars PROVE Twins'
  OBVIOUS
<1>1. CASE UNCHANGED documentsVars
  BY <1>1 DEF documentsVars, Twins, OneProductPerName
<1>2. CASE DocumentsNext
  <2>1. PICK i \in Importer :
          \/ \E d \in Document : Begins(i, d)
          \/ Refuses(i) \/ Attaches(i) \/ Adds(i) \/ Updates(i) \/ Inserts(i) \/ FlushFails(i)
          \/ Commits(i) \/ CommitFails(i) \/ Links(i) \/ Dies(i)
    BY <1>2 DEF DocumentsNext
  <2>2. ~Open(Idle)
    BY DEF Idle, Open
  <2>3. CASE Refuses(i) \/ FlushFails(i) \/ CommitFails(i) \/ Dies(i)
    BY <2>1, <2>2, <2>3, CommitsOnly, TwinsAlone
  <2>4. CASE Links(i)
    <3>1. product' = product /\ raced' = raced /\ import' = [import EXCEPT ![i] = Idle]
      BY <2>4 DEF Links, Ends
    <3> QED BY <2>2, <3>1, TwinsAlone
  <2> QED BY <2>1, <2>3, <2>4, TwinsBegins, TwinsAttaches, TwinsAdds, TwinsUpdates, TwinsInserts, TwinsCommits
<1> QED BY <1>1, <1>2

-----------------------------------------------------------------------------
(* Documents of checks agree *)

\* The rows that checks make.
CheckRow == {Row(AssetItem(c)) : c \in Check}
            \cup {Row(PackageItem(c, p)) : c \in Check, p \in [name : STRING, version : STRING]}

\* A row of a check says what it is in its PURL, and its version is in it.
LEMMA CheckRowFacts ==
  ASSUME NEW p \in CheckRow, NEW row \in CheckRow
  PROVE  /\ p.purl # None /\ p.cpe = None /\ ~Contradicts(p.purl, p.version)
         /\ Human(p) = Human(row) => p.purl = row.purl
<1> DEFINE T == [name : STRING, version : STRING]
           IsAsset(r, c) == /\ r.type = "OS" /\ r.cpe = None /\ r.version = Tag[c]
                            /\ r.purl = [space |-> "generic", name |-> "eolwatch-host", at |-> Tag[c], install |-> None]
           IsPackage(r, c) == /\ r.type = "LIBRARY" /\ r.cpe = None /\ r.vendor = SupplierOf[Distro[c]]
                              /\ r.purl = [space |-> Distro[c], name |-> r.name, at |-> r.version, install |-> None]
<1>1. ASSUME NEW c \in Check PROVE IsAsset(Row(AssetItem(c)), c)
  <2>1. Tag[c] \in STRING /\ Tag[c] # None
    BY ContentAssumption, DocumentsAssumption
  <2> QED BY <2>1, DocumentsAssumption DEF AssetItem, Row, VersionOf, Canonical
<1>2. ASSUME NEW c \in Check, NEW x \in T PROVE IsPackage(Row(PackageItem(c, x)), c)
  <2> DEFINE u == [space |-> Distro[c], name |-> x.name, at |-> x.version, install |-> OsRelease[c]]
             item == PackageItem(c, x)
             r == Row(item)
  <2>1. x.version \in STRING /\ x.version # None
    BY DocumentsAssumption
  <2>2. Canonical(u, x.version) = [space |-> Distro[c], name |-> x.name, at |-> x.version, install |-> None]
    <3> DEFINE at1 == IF x.version = None /\ x.version # Unknown THEN x.version ELSE x.version
    <3>1. Canonical(u, x.version) = [u EXCEPT !.at = at1, !.install = None]
      BY DEF Canonical
    <3>2. at1 = x.version
      OBVIOUS
    <3> HIDE DEF at1
    <3> QED BY <3>1, <3>2
  <2>3. item.type = "LIBRARY" /\ item.vendor = SupplierOf[Distro[c]] /\ item.name = x.name
        /\ item.version = x.version /\ item.cpe = None /\ item.purl = u
    BY DEF PackageItem
  <2>4. u # None
    <3>1. Distro[c] \in STRING /\ OsRelease[c] \in STRING
      BY ContentAssumption
    <3>2. u \in Purl
      BY <3>1 DEF Purl
    <3> QED BY <3>2, DocumentsAssumption
  <2>5. VersionOf(item) = x.version
    <3>1. u.at = x.version
      OBVIOUS
    <3> HIDE DEF item, u
    <3> QED BY <2>1, <2>3, <2>4, <3>1 DEF VersionOf
  <2> HIDE DEF item, u
  <2>6. /\ r.type = item.type /\ r.vendor = item.vendor /\ r.name = item.name /\ r.version = VersionOf(item)
        /\ r.cpe = item.cpe /\ r.purl = Canonical(u, item.version)
    BY <2>3, <2>4 DEF Row
  <2> HIDE DEF r
  <2>7. IsPackage(r, c)
    BY <2>2, <2>3, <2>5, <2>6
  <2> QED BY <2>7 DEF r, item
<1>3. ASSUME NEW r \in CheckRow PROVE \E c \in Check : IsAsset(r, c) \/ IsPackage(r, c)
  <2> HIDE DEF IsAsset, IsPackage
  <2> QED BY <1>1, <1>2 DEF CheckRow
<1>4. PICK c \in Check : IsAsset(p, c) \/ IsPackage(p, c)
  BY <1>3
<1>5. PICK d \in Check : IsAsset(row, d) \/ IsPackage(row, d)
  BY <1>3
<1>6. p.purl # None /\ p.cpe = None /\ p.purl.at = p.version
  <2>1. CASE IsAsset(p, c)
    <3>1. Tag[c] \in STRING
      BY ContentAssumption
    <3>2. [space |-> "generic", name |-> "eolwatch-host", at |-> Tag[c], install |-> None] \in Purl
      BY <3>1, WordsAssumption DEF Purl
    <3> QED BY <2>1, <3>2, DocumentsAssumption
  <2>2. CASE IsPackage(p, c)
    <3>1. \E x \in T, b \in Check : p = Row(PackageItem(b, x))
      <4>1. ASSUME NEW b \in Check, p = Row(AssetItem(b)) PROVE FALSE
        BY <1>1, <2>2, <4>1
      <4> HIDE DEF IsPackage, IsAsset
      <4> QED BY <4>1 DEF CheckRow
    <3>2. PICK x \in T, b \in Check : p = Row(PackageItem(b, x))
      BY <3>1
    <3>3. p.name = x.name /\ p.version \in STRING /\ p.name \in STRING
      <4>1. x.name \in STRING /\ x.version \in STRING /\ x.version # None
        BY DocumentsAssumption
      <4> QED BY <3>2, <4>1 DEF Row, PackageItem, VersionOf
    <3>4. Distro[c] \in STRING
      BY ContentAssumption
    <3>5. [space |-> Distro[c], name |-> p.name, at |-> p.version, install |-> None] \in Purl
      BY <3>3, <3>4 DEF Purl
    <3>6. p.purl \in Purl /\ p.purl.at = p.version
      BY <2>2, <3>5
    <3> QED BY <2>2, <3>6, DocumentsAssumption
  <2> QED BY <1>4, <2>1, <2>2
<1>7. ASSUME Human(p) = Human(row) PROVE p.purl = row.purl
  <2>1. p.type = row.type /\ p.vendor = row.vendor /\ p.name = row.name /\ p.version = row.version
    BY <1>7 DEF Human
  <2>2. CASE IsAsset(p, c) /\ IsAsset(row, d)
    BY <2>1, <2>2
  <2>3. CASE IsPackage(p, c) /\ IsPackage(row, d)
    <3>1. Distro[c] = Distro[d]
      BY <2>1, <2>3, ContentAssumption
    <3> QED BY <2>1, <2>3, <3>1
  <2> QED BY <1>4, <1>5, <2>1, <2>2, <2>3
<1> QED BY <1>6, <1>7 DEF Contradicts

NoUploads == \A s \in Serial : document[s] # None => document[s].of \in Check

AllOfChecks(q) == \A id \in Id : q[id] # None => q[id] \in CheckRow

\* No two rows are one package,
Distinct(q) == \A a, b \in Id : a # b /\ q[a] # None /\ q[b] # None => q[a].purl # q[b].purl

\* nor are the rows that two sessions have inserted.
Apart(m, n) == \A k \in DOMAIN m.new, l \in DOMAIN n.new : m.new[k].purl # n.new[l].purl

\* The session of a check writes rows of checks and fills in nothing.
Agreed(q, m) ==
  /\ \A k \in DOMAIN m.new : m.new[k] \in CheckRow
  /\ DOMAIN m.filled = {} /\ DOMAIN m.fills = {}
  /\ m.insert # None => m.insert \in CheckRow
  /\ \A id \in DOMAIN m.held : m.held[id] = View(q, m)[id]
  /\ Distinct(View(q, m))

OfCheck(m) == Open(m) /\ m.of \in Check

\* As long as no upload is stored, what checks see is what checks have made.
Agreement ==
  /\ ChecksAgree
  /\ NoUploads =>
       /\ AllOfChecks(product) /\ Distinct(product)
       /\ \A i \in Importer : OfCheck(import[i]) =>
            /\ Agreed(product, import[i])
            /\ \A j \in Importer : j # i /\ OfCheck(import[j]) => Apart(import[i], import[j])

\* What a check reads are its own rows.
LEMMA CheckItems ==
  ASSUME NEW c \in Check, NEW n \in 1..Len(Items(c))
  PROVE  /\ Row(Items(c)[n]) \in CheckRow
         /\ Items(c)[n].purl # None => ~Contradicts(Items(c)[n].purl, Items(c)[n].version)
<1> DEFINE P == Installed[c]
           T == [name : STRING, version : STRING]
           R == [k \in DOMAIN P |-> PackageItem(c, P[k])]
           x == Items(c)[n]
<1>1. P \in Seq(T) /\ DOMAIN P = 1..Len(P) /\ Len(P) \in Nat
  BY ContentAssumption
<1>2. Items(c) = <<AssetItem(c)>> \o R
  BY DEF Items, Content, Document, CheckDocument
<1>3. x = AssetItem(c) \/ \E p \in T : x = PackageItem(c, p)
  <2>1. Len(R) = Len(P) /\ \A k \in 1..Len(P) : R[k] = PackageItem(c, P[k]) /\ P[k] \in T
    <3>1. \A k \in 1..Len(P) : P[k] \in T
      <4> HIDE DEF P, T
      <4> QED BY <1>1, ElementOfSeq
    <3> HIDE DEF P, T
    <3>2. Len(R) = Len(P)
      BY <1>1
    <3> QED BY <1>1, <3>1, <3>2
  <2>2. n = 1 \/ (n # 1 /\ n - 1 \in 1..Len(P) /\ x = R[n - 1])
    <3>1. R \in Seq({R[k] : k \in DOMAIN R})
      <4>1. R \in [1..Len(P) -> {R[k] : k \in DOMAIN R}]
        BY <1>1
      <4> HIDE DEF P, R
      <4> QED BY <1>1, <4>1, SeqDef
    <3>2. <<AssetItem(c)>> \in Seq({AssetItem(c)}) /\ Len(<<AssetItem(c)>>) = 1
      OBVIOUS
    <3> HIDE DEF R, P
    <3>3. Len(Items(c)) = 1 + Len(P)
      BY <1>2, <2>1, <3>1, <3>2
    <3> QED BY <1>1, <1>2, <2>1, <3>1, <3>2, <3>3
  <2>3. n = 1 => x = AssetItem(c)
    BY <1>2
  <2> HIDE DEF x, P, R, T
  <2> QED BY <2>1, <2>2, <2>3
<1>4. \A p \in T : PackageItem(c, p).purl.at = PackageItem(c, p).version
  BY DEF PackageItem
<1>5. AssetItem(c).purl.at = AssetItem(c).version
  BY DEF AssetItem
<1>6. x.purl.at = x.version
  <2> HIDE DEF x, T
  <2> QED BY <1>3, <1>4, <1>5
<1>7. Row(x) \in CheckRow
  <2> HIDE DEF x
  <2> QED BY <1>3 DEF CheckRow
<1> HIDE DEF x
<1>8. ~Contradicts(x.purl, x.version)
  BY <1>6 DEF Contradicts
<1> QED BY <1>7, <1>8 DEF x

\* What the session of a check sees, in rows and in objects.
LEMMA AgreedSees ==
  ASSUME NEW q \in [Id -> Rows \cup {None}], AllOfChecks(q), NEW m, Shape(m), Backed(q, m), Agreed(q, m)
  PROVE  /\ \A id \in Id : View(q, m)[id] = IF id \in DOMAIN m.new THEN m.new[id] ELSE q[id]
         /\ \A id \in Id : Held(q, m)[id] = View(q, m)[id]
         /\ AllOfChecks(View(q, m))
<1>1. DOMAIN m.filled = {} /\ (\A id \in DOMAIN m.held : m.held[id] = View(q, m)[id])
      /\ \A k \in DOMAIN m.new : m.new[k] \in CheckRow
  BY DEF Agreed
<1>2. \A id \in Id : View(q, m)[id] = IF id \in DOMAIN m.new THEN m.new[id] ELSE q[id]
  BY <1>1 DEF View, FilledIf
<1>3. \A id \in Id : Held(q, m)[id] = View(q, m)[id]
  BY <1>1 DEF Held
<1>4. AllOfChecks(View(q, m))
  BY <1>1, <1>2 DEF AllOfChecks
<1> QED BY <1>2, <1>3, <1>4

\* The component that a check reads, among products of checks.
LEMMA CheckReads ==
  ASSUME Sound, Fitting, NEW i \in Importer, Reading(i), import[i].of \in Check,
         AllOfChecks(product), Agreed(product, import[i])
  PROVE  /\ Row(Current(i)) \in CheckRow
         /\ ~Refused(i)
         /\ \A id \in Matches(i, Row(Current(i))) :
              /\ id \in Id /\ Lacking(Memory(i)[id], Row(Current(i))) = NoFill
              /\ Memory(i)[id] \in Rows /\ Memory(i)[id] = View(product, import[i])[id]
<1> DEFINE row == Row(Current(i))
           q == Db(i)
<1>1. Len(import[i].products) + 1 \in 1..Len(Items(import[i].of)) /\ Current(i) = Items(import[i].of)[Len(import[i].products) + 1]
  BY CurrentFacts, LenItems
<1>2. row \in CheckRow /\ (Current(i).purl # None => ~Contradicts(Current(i).purl, Current(i).version))
  BY <1>1, CheckItems
<1>3. row.cpe = None /\ row.purl # None
  BY <1>2, CheckRowFacts
<1>4. /\ Shape(import[i]) /\ Backed(product, import[i]) /\ product \in [Id -> Rows \cup {None}]
      /\ q = View(product, import[i]) /\ Memory(i) = Held(product, import[i])
  BY OpenFacts
<1>5. AllOfChecks(q) /\ Distinct(q) /\ \A id \in Id : Memory(i)[id] = q[id]
  BY <1>4, AgreedSees DEF Agreed
<1>6. UpToDate(product, raced, import[i]) /\ \A k \in Id : product[k] # None => Canon(product[k])
  BY DEF Fitting, Reading, Open
<1>7. \A id \in Candidates(i, row) :
        id \in Id /\ q[id] # None /\ q[id] \in CheckRow /\ Canon(q[id]) /\ Memory(i)[id] = q[id] /\ q[id] \in Rows
  <2>1. ASSUME NEW id \in Candidates(i, row) PROVE id \in Id /\ q[id] # None /\ Canon(q[id]) /\ q[id] \in Rows
    <3>1. id \in Id /\ There(product, import[i], id) /\ q[id] # None
      BY CandidateFacts DEF Candidates
    <3> QED BY <1>4, <1>6, <3>1, SessionFacts
  <2> QED BY <1>5, <2>1 DEF AllOfChecks
<1> HIDE DEF row, q
<1>8. ASSUME NEW id \in Candidates(i, row)
      PROVE  /\ ~Conflicting(q[id], row)
             /\ Matching(q[id], row) => q[id].purl = row.purl
  <2>1. /\ q[id].purl # None /\ q[id].cpe = None /\ ~Contradicts(q[id].purl, q[id].version)
        /\ Human(q[id]) = Human(row) => q[id].purl = row.purl
        /\ Canon(q[id])
    BY <1>2, <1>7, CheckRowFacts
  <2>2. ~SameCpe(q[id], row)
    BY <1>3 DEF SameCpe
  <2>3. SamePurl(q[id], row) <=> q[id].purl = row.purl
    BY <1>3, <2>1 DEF SamePurl, Canon
  <2> QED BY <1>3, <2>1, <2>2, <2>3 DEF Conflicting, Matching, HasIdentifier
<1>9. \A a, b \in Matches(i, row) : a = b
  <2>1. ASSUME NEW a \in Matches(i, row), NEW b \in Matches(i, row) PROVE a = b
    <3>1. /\ a \in Candidates(i, row) /\ Matching(q[a], row)
          /\ b \in Candidates(i, row) /\ Matching(q[b], row)
      BY <1>7, <2>1 DEF Matches
    <3>2. q[a].purl = row.purl /\ q[b].purl = row.purl
      BY <1>8, <3>1
    <3>3. a \in Id /\ b \in Id /\ q[a] # None /\ q[b] # None
      BY <1>7, <3>1
    <3> QED BY <1>5, <3>2, <3>3 DEF Distinct
  <2> QED BY <2>1
<1>10. ~(Cardinality(Matches(i, row)) > 1)
  <2>1. CASE Matches(i, row) = {}
    BY <2>1, FS_EmptySet
  <2>2. CASE Matches(i, row) # {}
    <3>1. PICK a \in Matches(i, row) : TRUE
      BY <2>2
    <3>2. Matches(i, row) = {a}
      BY <1>9, <3>1
    <3> QED BY <3>2, FS_Singleton
  <2> QED BY <2>1, <2>2
<1>11. ~Refused(i)
  BY <1>2, <1>7, <1>8, <1>10 DEF Refused, row
<1>12. ASSUME NEW id \in Matches(i, row) PROVE id \in Id /\ Lacking(Memory(i)[id], row) = NoFill /\ Memory(i)[id] \in Rows
                                               /\ Memory(i)[id] = q[id]
  <2>1. id \in Candidates(i, row)
    BY <1>12 DEF Matches
  <2>2. id \in Id /\ q[id] \in CheckRow /\ Memory(i)[id] = q[id] /\ q[id] \in Rows
    BY <1>7, <2>1
  <2>3. q[id].purl # None
    BY <2>2, <1>2, CheckRowFacts
  <2> QED BY <1>3, <2>2, <2>3 DEF Lacking, NoFill
<1> QED BY <1>2, <1>4, <1>11, <1>12 DEF row, q

\* Checks agree at first.
LEMMA AgreementInit == DocumentsInit => Agreement
<1> SUFFICES ASSUME DocumentsInit PROVE Agreement
  OBVIOUS
<1>1. \A i \in Importer : ~Open(import[i])
  BY DEF DocumentsInit, Idle, Open
<1>2. AllOfChecks(product) /\ Distinct(product) /\ ChecksAgree
  BY DEF DocumentsInit, AllOfChecks, Distinct, ChecksAgree
<1> QED BY <1>1, <1>2 DEF Agreement, OfCheck

\* A step of one transaction that commits nothing and refuses no check.
LEMMA AgreementAlone ==
  ASSUME Sound, Agreement, NEW i \in Importer, NEW m,
         NoUploads /\ AllOfChecks(product) /\ Distinct(product) /\ OfCheck(m) =>
           /\ Agreed(product, m)
           /\ \A j \in Importer : j # i /\ OfCheck(import[j]) => Apart(m, import[j]),
         product' = product, document' = document, import' = [import EXCEPT ![i] = m],
         answer' = answer \/ answer' = None \/ answer'.kind # "unprocessable"
           \/ answer'.of \notin Check \/ ~NoUploads
  PROVE  Agreement'
<1>1. import \in [Importer -> Transaction] /\ document \in [Serial -> Entry \cup {None}]
  BY DEF Sound, Transactions, Tables
<1>2. import'[i] = m /\ \A j \in Importer : j # i => import'[j] = import[j]
  BY <1>1
<1>3. ChecksAgree'
  <2>1. ~NoUploads => \E s \in Stored : document[s].of \in Upload
    BY <1>1 DEF NoUploads, Stored, Entry, Document
  <2> QED BY <2>1 DEF ChecksAgree, Agreement, Stored
<1>4. NoUploads' => NoUploads /\ AllOfChecks(product) /\ Distinct(product) /\ AllOfChecks(product)' /\ Distinct(product)'
  BY DEF Agreement, NoUploads
<1>5. ASSUME NoUploads, AllOfChecks(product), Distinct(product), NEW j \in Importer, OfCheck(import'[j])
      PROVE  Agreed(product, import'[j]) /\ \A k \in Importer : k # j /\ OfCheck(import'[k]) => Apart(import'[j], import'[k])
  <2>1. \A a, b : Apart(a, b) => Apart(b, a)
    BY DEF Apart
  <2>2. CASE j = i
    BY <1>2, <1>5, <2>2
  <2>3. CASE j # i
    BY <1>2, <1>5, <2>1, <2>3 DEF Agreement
  <2> QED BY <2>2, <2>3
<1>6. NoUploads' => \A j \in Importer : OfCheck(import[j])' =>
        /\ Agreed(product, import[j])'
        /\ \A k \in Importer : k # j /\ OfCheck(import[k])' => Apart(import[j], import[k])'
  BY <1>4, <1>5
<1> QED BY <1>3, <1>4, <1>6 DEF Agreement

\* What a check that is open sees.
LEMMA AgreementSays ==
  ASSUME Sound, Agreement, NoUploads, NEW i \in Importer, OfCheck(import[i])
  PROVE  /\ AllOfChecks(product) /\ Distinct(product) /\ Agreed(product, import[i])
         /\ \A j \in Importer : j # i /\ OfCheck(import[j]) => Apart(import[i], import[j])
  BY DEF Agreement

\* No check is refused.
LEMMA AgreementRefuses ==
  ASSUME Sound, Fitting, Agreement, NEW i \in Importer, Refuses(i)
  PROVE  Agreement'
<1>1. /\ Reading(i) /\ Refused(i) /\ import' = [import EXCEPT ![i] = Idle]
      /\ answer' = [kind |-> "unprocessable", of |-> import[i].of]
      /\ product' = product /\ document' = document
  BY DEF Refuses, Ends
<1>2. ~OfCheck(Idle)
  BY DEF OfCheck, Open, Idle
<1>3. import[i].of \notin Check \/ ~NoUploads
  <2> SUFFICES ASSUME import[i].of \in Check, NoUploads PROVE FALSE
    OBVIOUS
  <2>1. OfCheck(import[i])
    BY <1>1 DEF OfCheck, Open, Reading
  <2> QED BY <1>1, <2>1, AgreementSays, CheckReads
<1> QED BY <1>1, <1>2, <1>3, AgreementAlone

\* A check that attaches a component fills in nothing.
LEMMA AgreementAttaches ==
  ASSUME Sound, Fitting, Agreement, NEW i \in Importer, Attaches(i)
  PROVE  Agreement'
<1> DEFINE me == import[i]
           row == Row(Current(i))
<1>1. PICK id \in Matches(i, row), m \in Transaction :
        /\ import' = [import EXCEPT ![i] = m]
        /\ AttachedTo(i, id, Lacking(Memory(i)[id], row), m)
  BY AttachesEffect
<1>2. Reading(i) /\ product' = product /\ document' = document /\ answer' = answer
  BY DEF Attaches
<1>3. m.of = me.of /\ m.insert = me.insert /\ m.new = me.new /\ m.filled = me.filled /\ Open(me)
  BY <1>1, <1>2 DEF AttachedTo, Reading, Open
<1>4. View(product, m) = View(product, me)
  BY <1>3 DEF View
<1>5. ASSUME NoUploads, OfCheck(m)
      PROVE  Agreed(product, m) /\ \A j \in Importer : j # i /\ OfCheck(import[j]) => Apart(m, import[j])
  <2>1. OfCheck(me)
    BY <1>3, <1>5 DEF OfCheck
  <2>2. /\ AllOfChecks(product) /\ Agreed(product, me)
        /\ \A j \in Importer : j # i /\ OfCheck(import[j]) => Apart(me, import[j])
    BY <1>5, <2>1, AgreementSays
  <2>3. Lacking(Memory(i)[id], row) = NoFill /\ Memory(i)[id] \in Rows /\ Memory(i)[id] = View(product, me)[id]
    BY <1>2, <2>1, <2>2, CheckReads DEF OfCheck
  <2>4. m.fills = me.fills /\ DOMAIN m.held = DOMAIN m.fills \cup {id} /\ m.held[id] = Filled(Memory(i)[id], NoFill)
    BY <1>1, <2>3 DEF AttachedTo
  <2>5. DOMAIN m.held = {id} /\ m.held[id] = View(product, m)[id]
    BY <1>4, <2>2, <2>3, <2>4, NothingFilled DEF Agreed
  <2> HIDE DEF me, row
  <2>6. Agreed(product, m)
    BY <1>3, <1>4, <2>2, <2>4, <2>5 DEF Agreed
  <2> QED BY <1>3, <2>2, <2>6 DEF Apart
<1> QED BY <1>1, <1>2, <1>5, AgreementAlone

\* What a check adds is a row of checks.
LEMMA AgreementAdds ==
  ASSUME Sound, Fitting, Agreement, NEW i \in Importer, Adds(i)
  PROVE  Agreement'
<1> DEFINE me == import[i]
<1>1. PICK m \in Transaction :
        /\ import' = [import EXCEPT ![i] = m]
        /\ m.of = me.of /\ m.held = me.held /\ m.fills = me.fills /\ m.new = me.new /\ m.filled = me.filled
        /\ m.insert = Row(Current(i))
  BY AddsEffect
<1>2. Reading(i) /\ Open(me) /\ product' = product /\ document' = document /\ answer' = answer
  BY DEF Adds, Reading, Open
<1>3. View(product, m) = View(product, me)
  BY <1>1 DEF View
<1>4. ASSUME NoUploads, OfCheck(m)
      PROVE  Agreed(product, m) /\ \A j \in Importer : j # i /\ OfCheck(import[j]) => Apart(m, import[j])
  <2>1. OfCheck(me)
    BY <1>1, <1>2, <1>4 DEF OfCheck
  <2>2. /\ AllOfChecks(product) /\ Agreed(product, me)
        /\ \A j \in Importer : j # i /\ OfCheck(import[j]) => Apart(me, import[j])
    BY <1>4, <2>1, AgreementSays
  <2>3. m.insert \in CheckRow
    BY <1>1, <1>2, <2>1, <2>2, CheckReads DEF OfCheck
  <2> HIDE DEF me
  <2> QED BY <1>1, <1>3, <2>2, <2>3 DEF Agreed, Apart
<1> QED BY <1>1, <1>2, <1>4, AgreementAlone

\* A check has nothing to update.
LEMMA AgreementUpdates ==
  ASSUME Sound, Fitting, Agreement, NEW i \in Importer, Updates(i)
  PROVE  Agreement'
<1> DEFINE me == import[i]
<1>1. PICK t \in Id, m \in Transaction : import' = [import EXCEPT ![i] = m] /\ UpdatedTo(i, t, m)
  BY UpdatesEffect
<1>2. Open(me) /\ product' = product /\ document' = document /\ answer' = answer
  BY FlushingIsOpen DEF Updates, Runs
<1>3. t \in DOMAIN me.fills /\ m.of = me.of
  BY <1>1 DEF UpdatedTo
<1>4. ASSUME NoUploads, OfCheck(m) PROVE FALSE
  <2>1. OfCheck(me)
    BY <1>2, <1>3, <1>4 DEF OfCheck
  <2> QED BY <1>3, <1>4, <2>1, AgreementSays DEF Agreed
<1> QED BY <1>1, <1>2, <1>4, AgreementAlone

\* What a check inserts is no package that it sees, or that another inserts:
\* the database would wait or fail.
LEMMA AgreementInserts ==
  ASSUME Sound, Fitting, Agreement, NEW i \in Importer, Inserts(i)
  PROVE  Agreement'
<1> DEFINE me == import[i]
           D == View(product, me)
<1>1. PICK id \in Id, m \in Transaction : import' = [import EXCEPT ![i] = m] /\ InsertedAs(i, id, m)
  BY InsertsEffect
<1>2. /\ Open(me) /\ product' = product /\ document' = document /\ answer' = answer
      /\ BlockedBy(i) = {} /\ ~Violates(i)
  BY FlushingIsOpen DEF Inserts, Runs
<1>3. /\ id \in FreeIds /\ me.insert \in Rows /\ me.fills = <<>> /\ m.fills = <<>> /\ m.filled = me.filled
      /\ m.of = me.of /\ m.insert = None
      /\ DOMAIN m.new = DOMAIN me.new \cup {id}
      /\ \A k \in DOMAIN m.new : m.new[k] = IF k = id THEN me.insert ELSE me.new[k]
      /\ DOMAIN m.held = {id} /\ m.held[id] = me.insert
  BY <1>1 DEF InsertedAs
<1>4. Value(i) = me.insert /\ Target(i) = None
  BY <1>3 DEF Value, Target
<1>5. ASSUME NEW k \in Id, D[k] # None, me.insert.purl # None PROVE D[k].purl # me.insert.purl
  <2>1. Db(i)[k] = D[k] /\ k # None
    BY OpenFacts, DocumentsAssumption
  <2>2. ~Clash(D[k], me.insert)
    BY <1>2, <1>4, <1>5, <2>1 DEF Violates
  <2> QED BY <1>5, <2>2 DEF Clash
<1>6. ASSUME NEW j \in Importer, j # i, Open(import[j]), NEW k \in DOMAIN import[j].new, me.insert.purl # None
      PROVE  import[j].new[k].purl # me.insert.purl
  <2>1. j \in InFlight \ {i}
    BY <1>6 DEF InFlight, Open
  <2>2. k \in Id
    BY OpenFacts, SessionParts
  <2>3. k \in Wrote(j) /\ Db(j)[k] = import[j].new[k]
    BY <2>2 DEF Wrote, Db
  <2>4. ~Clash(import[j].new[k], me.insert)
    BY <1>2, <1>4, <2>1, <2>3 DEF BlockedBy
  <2> QED BY <1>6, <2>4 DEF Clash
<1>7. Shape(me) /\ Backed(product, me) /\ product \in [Id -> Rows \cup {None}] /\ me.insert # None
  BY <1>3, OpenFacts, DocumentsAssumption
<1>8. ASSUME NoUploads, OfCheck(m)
      PROVE  Agreed(product, m) /\ \A j \in Importer : j # i /\ OfCheck(import[j]) => Apart(m, import[j])
  <2>1. OfCheck(me)
    BY <1>2, <1>3, <1>8 DEF OfCheck
  <2>2. /\ AllOfChecks(product) /\ Agreed(product, me)
        /\ \A j \in Importer : j # i /\ OfCheck(import[j]) => Apart(me, import[j])
    BY <1>8, <2>1, AgreementSays
  <2>3. me.insert \in CheckRow /\ DOMAIN me.filled = {} /\ DOMAIN m.fills = {}
    BY <1>3, <1>7, <2>2, NoneIsPartial DEF Agreed
  <2>4. me.insert.purl # None
    BY <2>3, CheckRowFacts
  <2> HIDE DEF me
  <2>5. \A k \in Id : View(product, m)[k] = IF k = id THEN me.insert ELSE D[k]
    BY <1>3, <2>3 DEF View, FilledIf, D
  <2> HIDE DEF D
  <2>6. Distinct(View(product, m))
    <3>1. ASSUME NEW a \in Id, NEW b \in Id, a # b, View(product, m)[a] # None, View(product, m)[b] # None
          PROVE  View(product, m)[a].purl # View(product, m)[b].purl
      <4>1. CASE a = id
        BY <1>5, <2>4, <2>5, <3>1, <4>1
      <4>2. CASE b = id
        BY <1>5, <2>4, <2>5, <3>1, <4>2
      <4>3. CASE a # id /\ b # id
        BY <2>2, <2>5, <3>1, <4>3 DEF Agreed, Distinct, D
      <4> QED BY <4>1, <4>2, <4>3
    <3> QED BY <3>1 DEF Distinct
  <2>7. Agreed(product, m)
    <3>1. \A k \in DOMAIN m.new : m.new[k] \in CheckRow
      BY <1>3, <2>2, <2>3 DEF Agreed
    <3>2. \A k \in DOMAIN m.held : m.held[k] = View(product, m)[k]
      BY <1>3, <2>5
    <3> QED BY <1>3, <2>3, <2>6, <3>1, <3>2 DEF Agreed
  <2>8. ASSUME NEW j \in Importer, j # i, OfCheck(import[j]) PROVE Apart(m, import[j])
    <3>1. Apart(me, import[j]) /\ Open(import[j])
      BY <2>2, <2>8 DEF OfCheck
    <3>2. \A l \in DOMAIN import[j].new : import[j].new[l].purl # me.insert.purl
      BY <1>6, <2>4, <2>8, <3>1
    <3> QED BY <1>3, <3>1, <3>2 DEF Apart
  <2> QED BY <2>7, <2>8
<1> QED BY <1>1, <1>2, <1>8, AgreementAlone

\* What a check commits are rows of checks, and the sessions of others see them
\* beside their own.
LEMMA AgreementCommits ==
  ASSUME Sound, Agreement, NEW i \in Importer, Commits(i)
  PROVE  Agreement'
<1> DEFINE me == import[i]
           s == Content[me.of].serial
           e == [of |-> me.of, products |-> me.products, check |-> None]
           m == IF me.of \in Check THEN [Idle EXCEPT !.pc = "link", !.of = me.of] ELSE Idle
           q == View(product, me)
<1>1. /\ product' = q
      /\ document' = [document EXCEPT ![s] = e]
      /\ import' = [import EXCEPT ![i] = m]
      /\ answer' = answer \/ answer' = [kind |-> "created", of |-> me.of]
      /\ Open(me)
  BY OpenFacts DEF Commits, Ends, Finished, Open
<1>2. ~OfCheck(m)
  BY DEF OfCheck, Open, Idle
<1>3. /\ import \in [Importer -> Transaction] /\ product \in [Id -> Rows \cup {None}] /\ q \in [Id -> Rows \cup {None}]
      /\ document \in [Serial -> Entry \cup {None}]
      /\ Shape(me) /\ Backed(product, me)
  BY OpenFacts DEF Sound, Tables, Transactions
<1>4. me.of \in Document
  BY <1>1, <1>3 DEF Open, Shape
<1>5. s \in Serial /\ document[s] = None
  BY <1>1, <1>4, SerialType DEF Sound, Serials, SerialOf
<1>6. e.of = me.of /\ e # None
  <2>1. me.products \in Seq(Id)
    BY OpenFacts
  <2>2. e \in Entry
    BY <1>4, <2>1 DEF Entry
  <2> QED BY <2>2, DocumentsAssumption
<1> HIDE DEF q, m, e, s
<1>7. document'[s] = e /\ (\A t \in Serial : t # s => document'[t] = document[t])
      /\ import'[i] = m /\ \A j \in Importer : j # i => import'[j] = import[j]
  BY <1>1, <1>3, <1>5
<1>8. NoUploads' => NoUploads /\ OfCheck(me)
  BY <1>1, <1>5, <1>6, <1>7 DEF NoUploads, OfCheck
<1>9. ChecksAgree'
  BY <1>1, <1>5, <1>7 DEF ChecksAgree, Agreement, Stored
<1>10. ASSUME NoUploads'
       PROVE  /\ AllOfChecks(product) /\ Distinct(product) /\ Agreed(product, me)
              /\ \A j \in Importer : j # i /\ OfCheck(import[j]) => Apart(me, import[j])
              /\ \A k \in Id : q[k] = IF k \in DOMAIN me.new THEN me.new[k] ELSE product[k]
              /\ AllOfChecks(q) /\ Distinct(q)
  <2>1. /\ AllOfChecks(product) /\ Distinct(product) /\ Agreed(product, me)
        /\ \A j \in Importer : j # i /\ OfCheck(import[j]) => Apart(me, import[j])
    BY <1>8, <1>10, AgreementSays
  <2> QED BY <1>3, <2>1, AgreedSees DEF q, Agreed
<1> HIDE DEF me
<1>11. ASSUME NoUploads', NEW j \in Importer, OfCheck(import'[j])
       PROVE  /\ Agreed(q, import'[j])
              /\ \A k \in Importer : k # j /\ OfCheck(import'[k]) => Apart(import'[j], import'[k])
  <2> DEFINE n == import[j]
  <2>1. j # i /\ import'[j] = n /\ OfCheck(n)
    BY <1>2, <1>7, <1>11
  <2>2. /\ AllOfChecks(product) /\ Distinct(product) /\ Agreed(product, n)
        /\ \A k \in Importer : k # j /\ OfCheck(import[k]) => Apart(n, import[k])
    BY <1>8, <1>11, <2>1, AgreementSays
  <2>3. Shape(n) /\ Backed(product, n) /\ DOMAIN n.held \subseteq Id
    BY OpenFacts, SessionParts
  <2>4. DOMAIN n.new \cap DOMAIN me.new = {}
    BY <2>1 DEF Sound, Separate, me
  <2>5. Apart(me, n)
    BY <1>10, <1>11, <2>1
  <2> HIDE DEF n
  <2>6. DOMAIN n.filled = {}
    BY <2>2 DEF Agreed
  <2>7. \A k \in Id : /\ View(q, n)[k] = IF k \in DOMAIN n.new THEN n.new[k] ELSE q[k]
                      /\ View(product, n)[k] = IF k \in DOMAIN n.new THEN n.new[k] ELSE product[k]
    BY <2>6 DEF View, FilledIf
  <2>8. Distinct(View(q, n))
    <3>1. ASSUME NEW a \in Id, NEW b \in Id, a # b, View(q, n)[a] # None, View(q, n)[b] # None
          PROVE  View(q, n)[a].purl # View(q, n)[b].purl
      <4>1. CASE a \notin DOMAIN n.new /\ b \notin DOMAIN n.new
        BY <1>10, <1>11, <2>7, <3>1, <4>1 DEF Distinct
      <4>2. CASE a \in DOMAIN n.new /\ b \in DOMAIN me.new
        <5>1. View(q, n)[a] = n.new[a] /\ View(q, n)[b] = me.new[b]
          BY <1>10, <1>11, <2>4, <2>7, <4>2
        <5> QED BY <2>5, <4>2, <5>1 DEF Apart
      <4>3. CASE b \in DOMAIN n.new /\ a \in DOMAIN me.new
        <5>1. View(q, n)[b] = n.new[b] /\ View(q, n)[a] = me.new[a]
          BY <1>10, <1>11, <2>4, <2>7, <4>3
        <5> QED BY <2>5, <4>3, <5>1 DEF Apart
      <4>4. CASE a \notin DOMAIN me.new /\ b \notin DOMAIN me.new
        <5>1. View(q, n)[a] = View(product, n)[a] /\ View(q, n)[b] = View(product, n)[b]
          BY <1>10, <1>11, <2>7, <4>4
        <5> QED BY <2>2, <3>1, <5>1 DEF Agreed, Distinct
      <4> QED BY <2>4, <4>1, <4>2, <4>3, <4>4
    <3> QED BY <3>1 DEF Distinct
  <2>9. \A k \in DOMAIN n.held : n.held[k] = View(q, n)[k]
    <3>1. ASSUME NEW k \in DOMAIN n.held PROVE n.held[k] = View(q, n)[k]
      <4>1. k \in Id /\ n.held[k] = View(product, n)[k] /\ There(product, n, k)
        BY <2>2, <2>3 DEF Agreed, Backed
      <4>2. CASE k \in DOMAIN n.new
        BY <2>7, <4>1, <4>2
      <4>3. CASE k \notin DOMAIN n.new
        <5>1. product[k] # None /\ k \notin DOMAIN me.new
          BY <1>3, <4>1, <4>3 DEF There, Backed
        <5> QED BY <1>10, <1>11, <2>7, <4>1, <4>3, <5>1
      <4> QED BY <4>2, <4>3
    <3> QED BY <3>1
  <2>10. Agreed(q, n)
    BY <2>2, <2>8, <2>9 DEF Agreed
  <2>11. ASSUME NEW k \in Importer, k # j, OfCheck(import'[k]) PROVE Apart(n, import'[k])
    BY <1>2, <1>7, <2>2, <2>11
  <2> QED BY <2>1, <2>10, <2>11
<1>12. NoUploads' => \A j \in Importer : OfCheck(import[j])' =>
         /\ Agreed(product, import[j])'
         /\ \A k \in Importer : k # j /\ OfCheck(import[k])' => Apart(import[j], import[k])'
  BY <1>1, <1>11
<1>13. NoUploads' => AllOfChecks(product)' /\ Distinct(product)'
  BY <1>1, <1>10
<1> QED BY <1>9, <1>12, <1>13 DEF Agreement

\* The second transaction of a check keeps that.
LEMMA AgreementLinks ==
  ASSUME Sound, Agreement, NEW i \in Importer, Links(i)
  PROVE  Agreement'
<1> DEFINE c == import[i].of
<1>1. /\ product' = product /\ import[i].pc = "link"
      /\ document' = [document EXCEPT ![c] = [document[c] EXCEPT !.check = c]]
      /\ import' = [import EXCEPT ![i] = Idle]
      /\ answer' = [kind |-> "created", of |-> c]
  BY DEF Links, Ends
<1>2. ~OfCheck(Idle)
  BY DEF OfCheck, Open, Idle
<1>3. import \in [Importer -> Transaction] /\ document \in [Serial -> Entry \cup {None}]
  BY DEF Sound, Transactions, Tables
<1>4. c \in Check /\ c \in Serial /\ document[c] # None /\ document[c].of = c
  BY <1>1, OpenFacts, SerialOfCheck, SerialType DEF Shape, Sound, Serials
<1>5. document[c] \in Entry
  BY <1>3, <1>4
<1>6. document'[c].of = document[c].of /\ \A t \in Serial : t # c => document'[t] = document[t]
  BY <1>1, <1>3, <1>4, <1>5 DEF Entry
<1>7. import'[i] = Idle /\ \A j \in Importer : j # i => import'[j] = import[j]
  BY <1>1, <1>3
<1> HIDE DEF c
<1>8. NoUploads' => NoUploads
  BY <1>4, <1>6 DEF NoUploads
<1>9. ChecksAgree'
  BY <1>1 DEF ChecksAgree
<1>10. NoUploads => \A j \in Importer : OfCheck(import'[j]) =>
         /\ Agreed(product, import'[j])
         /\ \A k \in Importer : k # j /\ OfCheck(import'[k]) => Apart(import'[j], import'[k])
  BY <1>2, <1>7 DEF Agreement
<1>11. NoUploads' => \A j \in Importer : OfCheck(import[j])' =>
         /\ Agreed(product, import[j])'
         /\ \A k \in Importer : k # j /\ OfCheck(import[k])' => Apart(import[j], import[k])'
  BY <1>1, <1>8, <1>10
<1>12. NoUploads' => AllOfChecks(product)' /\ Distinct(product)'
  BY <1>1, <1>8 DEF Agreement
<1> QED BY <1>9, <1>11, <1>12 DEF Agreement

\* Every step keeps it.
LEMMA AgreementNext == Sound /\ Fitting /\ Agreement /\ [DocumentsNext]_documentsVars => Agreement'
<1> SUFFICES ASSUME Sound, Fitting, Agreement, [DocumentsNext]_documentsVars PROVE Agreement'
  OBVIOUS
<1>1. CASE UNCHANGED documentsVars
  BY <1>1 DEF documentsVars, Agreement, ChecksAgree, Stored, NoUploads
<1>2. CASE DocumentsNext
  <2>1. PICK i \in Importer :
          \/ \E d \in Document : Begins(i, d)
          \/ Refuses(i) \/ Attaches(i) \/ Adds(i) \/ Updates(i) \/ Inserts(i) \/ FlushFails(i)
          \/ Commits(i) \/ CommitFails(i) \/ Links(i) \/ Dies(i)
    BY <1>2 DEF DocumentsNext
  <2>2. CASE \E d \in Document : Begins(i, d)
    <3>1. PICK d \in Document : Begins(i, d)
      BY <2>2
    <3> DEFINE m == IF document[Content[d].serial] = None THEN [Idle EXCEPT !.pc = "read", !.of = d] ELSE Idle
    <3>2. /\ import' = [import EXCEPT ![i] = m] /\ product' = product /\ document' = document
          /\ answer' = None \/ answer' = [kind |-> Integrity(d), of |-> d]
      BY <3>1 DEF Begins
    <3>3. answer' = None \/ answer'.kind # "unprocessable"
      BY <3>2 DEF Integrity
    <3>4. m.new = <<>> /\ m.filled = <<>> /\ m.fills = <<>> /\ m.held = <<>> /\ m.insert = None
      BY DEF Idle
    <3> HIDE DEF m
    <3>5. ASSUME Distinct(product) PROVE Agreed(product, m)
      <4>1. DOMAIN m.new = {} /\ DOMAIN m.filled = {} /\ DOMAIN m.held = {} /\ DOMAIN m.fills = {}
        BY <3>4, NoneIsPartial
      <4>2. Distinct(View(product, m))
        BY <3>5, <4>1 DEF Distinct, View, FilledIf
      <4> QED BY <3>4, <4>1, <4>2 DEF Agreed
    <3>6. \A j : Apart(m, import[j])
      BY <3>4, NoneIsPartial DEF Apart
    <3> QED BY <3>2, <3>3, <3>5, <3>6, AgreementAlone
  <2>3. CASE FlushFails(i) \/ CommitFails(i) \/ Dies(i)
    <3>1. product' = product /\ document' = document /\ import' = [import EXCEPT ![i] = Idle]
      BY <2>3 DEF FlushFails, CommitFails, Dies, Ends
    <3>2. answer' = answer \/ answer'.kind # "unprocessable"
      BY <2>3 DEF FlushFails, CommitFails, Dies, Ends, Integrity
    <3>3. ~OfCheck(Idle)
      BY DEF OfCheck, Open, Idle
    <3> QED BY <3>1, <3>2, <3>3, AgreementAlone
  <2> QED BY <2>1, <2>2, <2>3, AgreementRefuses, AgreementAttaches, AgreementAdds, AgreementUpdates, AgreementInserts,
             AgreementCommits, AgreementLinks
<1> QED BY <1>1, <1>2

-----------------------------------------------------------------------------
(* Products and documents *)

\* What the invariants say of the products.
LEMMA InvariantMeans == Sound /\ Fitting /\ Twins /\ Agreement => DocumentsInv
<1> SUFFICES ASSUME Sound, Fitting, Twins, Agreement PROVE DocumentsInv
  OBVIOUS
<1>1. ComponentFitsProduct
  <2>1. ASSUME NEW s \in Stored, NEW n \in DOMAIN document[s].products
        PROVE  LET row == Row(Items(document[s].of)[n])
                   id  == document[s].products[n]
                   p   == product[id]
               IN /\ p # None
                  /\ row.purl = None /\ row.cpe = None => Human(p) = Human(row)
                  /\ id \notin raced => (row.purl # None => p.purl = row.purl) /\ (row.cpe # None => p.cpe = row.cpe)
    <3>1. s \in Serial /\ document[s] # None
      BY DEF Stored
    <3>2. ServedAll(product, raced, document[s].of, document[s].products) /\ EntryOK(product, s, document[s])
      BY <3>1 DEF Fitting, Sound, Tables
    <3> QED BY <3>2 DEF ServedAll, Serves, Says, Named, EntryOK
  <2> QED BY <2>1 DEF ComponentFitsProduct
<1>2. OneProductPerName /\ ChecksAgree
  BY DEF Twins, Agreement
<1> QED BY <1>1, <1>2, SoundType DEF DocumentsInv

\* The invariants hold together, whatever imports overlap.
LEMMA DocumentsInvariants == DocumentsSpec => [](Sound /\ Fitting /\ Twins /\ Agreement)
<1> DEFINE J == Sound /\ Fitting /\ Twins /\ Agreement
<1>1. DocumentsInit => J
  BY SoundInit, FittingInit, TwinsInit, AgreementInit
<1>2. J /\ [DocumentsNext]_documentsVars => J'
  BY SoundNext, FittingNext, TwinsNext, AgreementNext
<1> HIDE DEF J
<1>3. DocumentsSpec => []J
  BY <1>1, <1>2, PTL DEF DocumentsSpec
<1> QED BY <1>3 DEF J

\* A component is of a product that is what it says, of each name there is one
\* product, and no check is refused as long as only checks are stored: for
\* any number of imports that overlap in any way.  What two of them change
\* at once, and only that, is excepted.
THEOREM ProductsFit == DocumentsSpec => []DocumentsInv
  BY DocumentsInvariants, InvariantMeans, PTL

\* No import takes an identifier from a product, but one that had an older copy
\* of it.
THEOREM IdentifiersAreKept == DocumentsSpec => IdentifiersStay
<1>1. Sound /\ Fitting /\ [DocumentsNext]_documentsVars
        => [\A id \in Id : product[id] # None =>
              /\ product'[id] # None
              /\ id \notin raced => /\ (product[id].purl # None => product'[id].purl = product[id].purl)
                                    /\ (product[id].cpe # None => product'[id].cpe = product[id].cpe)]_product
  <2> SUFFICES ASSUME Sound, Fitting, DocumentsNext, product' # product, NEW id \in Id, product[id] # None
               PROVE  /\ product'[id] # None
                      /\ id \notin raced => /\ (product[id].purl # None => product'[id].purl = product[id].purl)
                                            /\ (product[id].cpe # None => product'[id].cpe = product[id].cpe)
    BY DEF documentsVars
  <2>1. PICK i \in Importer : Commits(i)
    BY CommitsOnly DEF DocumentsNext
  <2> QED BY <2>1, CommitKeeps DEF Keeps
<1> QED BY <1>1, DocumentsInvariants, PTL DEF DocumentsSpec, IdentifiersStay
-----------------------------------------------------------------------------
(* The difference of two documents *)

\* The smaller of two numbers.
LEMMA MinOf ==
  ASSUME NEW a \in Int, NEW b \in Int
  PROVE  Min({a, b}) = IF a <= b THEN a ELSE b
  BY DEF Min

\* What is told apart in a document: suppliers, versions and identities are
\* finitely many, and each occurrence has its own.
LEMMA KindsOf ==
  ASSUME NEW d \in Document
  PROVE  /\ IsFiniteSet(DOMAIN Items(d)) /\ Cardinality(DOMAIN Items(d)) = Len(Items(d))
         /\ IsFiniteSet(Vendors(d)) /\ IsFiniteSet(Identities(d))
         /\ \A n \in DOMAIN Items(d) : /\ Items(d)[n].vendor \in Vendors(d)
                                       /\ Identity(Items(d)[n]) \in Identities(d)
                                       /\ DiffVersion(Items(d)[n]) \in Versions(d, Identity(Items(d)[n]))
<1> DEFINE X == Items(d)
           N == DOMAIN X
<1>1. N = 1..Len(X) /\ Len(X) \in Nat
  BY LenItems
<1>2. IsFiniteSet(N) /\ Cardinality(N) = Len(X)
  <2>1. 1 \in Int /\ Len(X) \in Int
    BY <1>1
  <2> HIDE DEF X
  <2>2. IsFiniteSet(N) /\ Cardinality(N) = IF 1 > Len(X) THEN 0 ELSE Len(X) - 1 + 1
    BY <1>1, <2>1, FS_Interval
  <2> QED BY <1>1, <2>2
<1>3. Elements(X) = {X[n] : n \in N}
  BY DEF Elements
<1> HIDE DEF X, N
<1>4. IsFiniteSet(Elements(X))
  <2> DEFINE f == [n \in N |-> X[n]]
  <2>1. f \in Surjection(N, Elements(X))
    BY <1>3 DEF Surjection
  <2> QED BY <1>2, <2>1, FS_Surjection
<1>5. IsFiniteSet(Vendors(d))
  <2> DEFINE f == [x \in Elements(X) |-> x.vendor]
  <2>1. f \in Surjection(Elements(X), Vendors(d))
    BY DEF Surjection, Vendors, X
  <2> QED BY <1>4, <2>1, FS_Surjection
<1>6. IsFiniteSet(Identities(d))
  <2> DEFINE f == [x \in Elements(X) |-> Identity(x)]
  <2>1. f \in Surjection(Elements(X), Identities(d))
    BY DEF Surjection, Identities, X
  <2> QED BY <1>4, <2>1, FS_Surjection
<1>7. ASSUME NEW n \in N
      PROVE  /\ X[n].vendor \in Vendors(d) /\ Identity(X[n]) \in Identities(d)
             /\ DiffVersion(X[n]) \in Versions(d, Identity(X[n]))
  <2>1. X[n] \in Elements(X)
    BY <1>3
  <2> QED BY <2>1 DEF Vendors, Identities, Versions, X
<1> QED BY <1>2, <1>5, <1>6, <1>7 DEF X, N

\* A component has finitely many versions in a document.
LEMMA VersionsFinite == \A d \in Document : \A k : IsFiniteSet(Versions(d, k))
<1> SUFFICES ASSUME NEW d \in Document, NEW k PROVE IsFiniteSet(Versions(d, k))
  OBVIOUS
<1> DEFINE N == {n \in DOMAIN Items(d) : Identity(Items(d)[n]) = k}
           f == [n \in N |-> DiffVersion(Items(d)[n])]
<1>1. IsFiniteSet(N)
  BY KindsOf, FS_Subset
<1>2. Versions(d, k) = {DiffVersion(Items(d)[n]) : n \in N}
  BY DEF Versions, Elements
<1> HIDE DEF N
<1>3. f \in Surjection(N, Versions(d, k))
  BY <1>2 DEF Surjection
<1> QED BY <1>1, <1>3, FS_Surjection

Total(d, k) == Cardinality({n \in DOMAIN Items(d) : Identity(Items(d)[n]) = k})

\* Occurrences are counted by supplier, by version and by identity.
LEMMA CountedBySupplier ==
  ASSUME NEW d \in Document, NEW k, NEW v, NEW W, IsFiniteSet(W), Vendors(d) \subseteq W
  PROVE  Count(d, k, v) = SumFunctionOnSet([w \in W |-> Copies(d, k, v, w)], W)
<1> DEFINE D == {n \in DOMAIN Items(d) : Identity(Items(d)[n]) = k /\ DiffVersion(Items(d)[n]) = v}
           h == [n \in D |-> Items(d)[n].vendor]
<1>1. IsFiniteSet(D)
  BY KindsOf, FS_Subset
<1>2. \A n \in D : h[n] \in W
  BY KindsOf
<1>3. \A w \in W : Copies(d, k, v, w) = Cardinality({n \in D : h[n] = w})
  <2>1. ASSUME NEW w \in W PROVE Copies(d, k, v, w) = Cardinality({n \in D : h[n] = w})
    <3>1. {n \in DOMAIN Items(d) : LET x == Items(d)[n] IN Identity(x) = k /\ DiffVersion(x) = v /\ x.vendor = w}
            = {n \in D : h[n] = w}
      OBVIOUS
    <3> QED BY <3>1 DEF Copies
  <2> QED BY <2>1
<1>4. Count(d, k, v) = Cardinality(D)
  BY DEF Count
<1> HIDE DEF D, h
<1>5. [w \in W |-> Copies(d, k, v, w)] = [w \in W |-> Cardinality({n \in D : h[n] = w})]
  BY <1>3
<1> QED BY <1>1, <1>2, <1>4, <1>5, SumCount

\* Occurrences of a component, counted version by version.
LEMMA CountedByVersion ==
  ASSUME NEW d \in Document, NEW k, NEW V, IsFiniteSet(V), Versions(d, k) \subseteq V
  PROVE  Total(d, k) = SumFunctionOnSet([v \in V |-> Count(d, k, v)], V)
<1> DEFINE D == {n \in DOMAIN Items(d) : Identity(Items(d)[n]) = k}
           h == [n \in D |-> DiffVersion(Items(d)[n])]
<1>1. IsFiniteSet(D)
  BY KindsOf, FS_Subset
<1>2. \A n \in D : h[n] \in V
  BY KindsOf
<1>3. ASSUME NEW v \in V PROVE Count(d, k, v) = Cardinality({n \in D : h[n] = v})
  <2>1. {n \in DOMAIN Items(d) : Identity(Items(d)[n]) = k /\ DiffVersion(Items(d)[n]) = v} = {n \in D : h[n] = v}
    OBVIOUS
  <2> QED BY <2>1 DEF Count
<1>4. Total(d, k) = Cardinality(D)
  BY DEF Total
<1> HIDE DEF D, h
<1>5. [v \in V |-> Count(d, k, v)] = [v \in V |-> Cardinality({n \in D : h[n] = v})]
  BY <1>3
<1> QED BY <1>1, <1>2, <1>4, <1>5, SumCount

\* A document, counted component by component.
LEMMA CountedByIdentity ==
  ASSUME NEW d \in Document, NEW K, IsFiniteSet(K), Identities(d) \subseteq K
  PROVE  Len(Items(d)) = SumFunctionOnSet([k \in K |-> Total(d, k)], K)
<1> DEFINE D == DOMAIN Items(d)
           h == [n \in D |-> Identity(Items(d)[n])]
<1>1. IsFiniteSet(D) /\ Cardinality(D) = Len(Items(d))
  BY KindsOf
<1>2. \A n \in D : h[n] \in K
  BY KindsOf
<1>3. ASSUME NEW k \in K PROVE Total(d, k) = Cardinality({n \in D : h[n] = k})
  <2>1. {n \in DOMAIN Items(d) : Identity(Items(d)[n]) = k} = {n \in D : h[n] = k}
    OBVIOUS
  <2> QED BY <2>1 DEF Total
<1> HIDE DEF D, h
<1>4. [k \in K |-> Total(d, k)] = [k \in K |-> Cardinality({n \in D : h[n] = k})]
  BY <1>3
<1> QED BY <1>1, <1>2, <1>4, SumCount

\* Counts are numbers, and zero for what does not occur.
LEMMA CountType ==
  ASSUME NEW d \in Document, NEW k, NEW v, NEW w
  PROVE  /\ Copies(d, k, v, w) \in Nat /\ (w \notin Vendors(d) => Copies(d, k, v, w) = 0)
         /\ Count(d, k, v) \in Nat /\ (v \notin Versions(d, k) => Count(d, k, v) = 0)
         /\ Total(d, k) \in Nat
<1> DEFINE C == {n \in DOMAIN Items(d) : LET x == Items(d)[n] IN Identity(x) = k /\ DiffVersion(x) = v /\ x.vendor = w}
           D == {n \in DOMAIN Items(d) : Identity(Items(d)[n]) = k /\ DiffVersion(Items(d)[n]) = v}
           T == {n \in DOMAIN Items(d) : Identity(Items(d)[n]) = k}
<1>1. IsFiniteSet(C) /\ IsFiniteSet(D) /\ IsFiniteSet(T)
  BY KindsOf, FS_Subset
<1>2. w \notin Vendors(d) => C = {}
  BY KindsOf
<1>3. v \notin Versions(d, k) => D = {}
  BY KindsOf
<1>4. Copies(d, k, v, w) = Cardinality(C) /\ Count(d, k, v) = Cardinality(D) /\ Total(d, k) = Cardinality(T)
  BY DEF Copies, Count, Total
<1> HIDE DEF C, D, T
<1> QED BY <1>1, <1>2, <1>3, <1>4, FS_CardinalityType, FS_EmptySet
\* What is the same in both: no more than either has of a version, whichever
\* document is asked first, and all of it if they are one.
LEMMA UnchangedFacts ==
  ASSUME NEW d \in Document, NEW e \in Document, NEW k, NEW v
  PROVE  /\ Unchanged(d, e, k, v) \in Nat
         /\ Unchanged(d, e, k, v) = Unchanged(e, d, k, v)
         /\ Unchanged(d, e, k, v) <= Count(d, k, v)
         /\ d = e => Unchanged(d, e, k, v) = Count(d, k, v)
<1> DEFINE W == Vendors(d) \cup Vendors(e)
           both == [w \in W |-> Min({Copies(d, k, v, w), Copies(e, k, v, w)})]
           mine == [w \in W |-> Copies(d, k, v, w)]
           ofe == [w \in Vendors(e) |-> Min({Copies(d, k, v, w), Copies(e, k, v, w)})]
           ofd == [w \in Vendors(d) |-> Min({Copies(e, k, v, w), Copies(d, k, v, w)})]
<1>1. IsFiniteSet(W) /\ IsFiniteSet(Vendors(d)) /\ IsFiniteSet(Vendors(e))
  BY KindsOf, FS_Union
<1>2. ASSUME NEW w \in W
      PROVE  /\ both[w] \in Nat /\ mine[w] \in Nat /\ both[w] <= mine[w]
             /\ w \notin Vendors(d) \/ w \notin Vendors(e) => both[w] = 0
             /\ d = e => both[w] = mine[w]
  <2> DEFINE a == Copies(d, k, v, w)
             b == Copies(e, k, v, w)
  <2>1. a \in Nat /\ b \in Nat /\ (w \notin Vendors(d) => a = 0) /\ (w \notin Vendors(e) => b = 0)
    BY CountType
  <2>2. both[w] = Min({a, b}) /\ mine[w] = a
    OBVIOUS
  <2>3. d = e => a = b
    OBVIOUS
  <2> HIDE DEF a, b, both, mine
  <2>4. Min({a, b}) = IF a <= b THEN a ELSE b
    BY <2>1, MinOf
  <2> QED BY <2>1, <2>2, <2>3, <2>4
<1>3. Unchanged(d, e, k, v) = SumFunctionOnSet(ofe, Vendors(e))
  BY DEF Unchanged, SumFunction
<1>4. Unchanged(e, d, k, v) = SumFunctionOnSet(ofd, Vendors(d))
  BY DEF Unchanged, SumFunction
<1>5. \A w \in Vendors(e) : both[w] = ofe[w]
  OBVIOUS
<1>6. \A w \in Vendors(d) : both[w] = ofd[w]
  <2>1. \A w : {Copies(d, k, v, w), Copies(e, k, v, w)} = {Copies(e, k, v, w), Copies(d, k, v, w)}
    OBVIOUS
  <2> QED BY <2>1
<1>7. Vendors(d) \in SUBSET W /\ Vendors(e) \in SUBSET W
  OBVIOUS
<1>8. Count(d, k, v) = SumFunctionOnSet(mine, W)
  BY <1>1, <1>7, CountedBySupplier
<1> HIDE DEF W, both, mine, ofe, ofd
<1>9. \A w \in W : both[w] \in Int /\ mine[w] \in Int /\ both[w] <= mine[w] /\ 0 <= both[w]
  BY <1>2
<1>10. SumFunctionOnSet(both, W) = SumFunctionOnSet(ofe, Vendors(e))
  <2>1. SumFunctionOnSet(both, W) = SumFunctionOnSet(both, Vendors(e))
    BY <1>1, <1>2, <1>7, <1>9, SumWithout
  <2> QED BY <1>1, <1>5, <2>1, SumSame
<1>11. SumFunctionOnSet(both, W) = SumFunctionOnSet(ofd, Vendors(d))
  <2>1. SumFunctionOnSet(both, W) = SumFunctionOnSet(both, Vendors(d))
    BY <1>1, <1>2, <1>7, <1>9, SumWithout
  <2> QED BY <1>1, <1>6, <2>1, SumSame
<1>12. SumFunctionOnSet(both, W) \in Nat
  <2> DEFINE zero == [w \in W |-> 0]
  <2>1. \A w \in W : zero[w] \in Int /\ both[w] \in Int /\ zero[w] <= both[w]
    BY <1>9
  <2>2. \A w \in W \ {} : zero[w] = 0
    OBVIOUS
  <2> HIDE DEF zero
  <2>3. SumFunctionOnSet(zero, W) <= SumFunctionOnSet(both, W)
    BY <1>1, <2>1, SumLess
  <2>4. SumFunctionOnSet(zero, W) = SumFunctionOnSet(zero, {})
    BY <1>1, <2>1, <2>2, SumWithout
  <2>5. SumFunctionOnSet(both, W) \in Int
    BY <1>1, <1>9, SumInt
  <2> QED BY <2>3, <2>4, <2>5, SumNone
<1>13. SumFunctionOnSet(both, W) <= SumFunctionOnSet(mine, W)
  BY <1>1, <1>9, SumLess
<1>14. d = e => SumFunctionOnSet(both, W) = SumFunctionOnSet(mine, W)
  BY <1>1, <1>2, SumSame
<1> QED BY <1>3, <1>4, <1>8, <1>10, <1>11, <1>12, <1>13, <1>14

\* Every occurrence of a version is the same in both, rewritten or left.
LEMMA LeftFacts ==
  ASSUME NEW d \in Document, NEW e \in Document, NEW k, NEW v
  PROVE  /\ Rewritten(d, e, k, v) \in Nat
         /\ Rewritten(d, e, k, v) = Rewritten(e, d, k, v)
         /\ Left(d, e, k, v) \in Nat
         /\ Unchanged(d, e, k, v) + Rewritten(d, e, k, v) + Left(d, e, k, v) = Count(d, k, v)
         /\ v \notin Versions(d, k) => Left(d, e, k, v) = 0
<1> DEFINE a == Rest(d, e, k, v)
           b == Rest(e, d, k, v)
           u == Unchanged(d, e, k, v)
           c == Count(d, k, v)
<1>1. a \in Nat /\ b \in Nat
  BY UnchangedFacts, CountType DEF Rest
<1>2. Rewritten(d, e, k, v) = Min({a, b}) /\ Rewritten(e, d, k, v) = Min({b, a}) /\ {a, b} = {b, a}
  BY DEF Rewritten
<1>3. Left(d, e, k, v) = a - Rewritten(d, e, k, v)
  BY DEF Left
<1>4. a = c - u /\ u \in Nat /\ c \in Nat /\ u <= c /\ (v \notin Versions(d, k) => c = 0)
  BY UnchangedFacts, CountType DEF Rest
<1> HIDE DEF a, b, u, c
<1>5. Min({a, b}) = IF a <= b THEN a ELSE b
  BY <1>1, MinOf
<1>6. Rewritten(d, e, k, v) \in Nat /\ Rewritten(d, e, k, v) <= a
  BY <1>1, <1>2, <1>5
<1>7. u + Rewritten(d, e, k, v) + Left(d, e, k, v) = c
  BY <1>1, <1>3, <1>4, <1>6
<1>8. Left(d, e, k, v) \in Nat
  BY <1>1, <1>3, <1>6
<1>9. v \notin Versions(d, k) => Left(d, e, k, v) = 0
  BY <1>4, <1>6, <1>7, <1>8
<1> QED BY <1>2, <1>6, <1>7, <1>8, <1>9 DEF u, c

\* The sums of one component over the versions of either document.
SumU(d, e, k, V) == SumFunctionOnSet([v \in V |-> Unchanged(d, e, k, v)], V)
SumR(d, e, k, V) == SumFunctionOnSet([v \in V |-> Rewritten(d, e, k, v)], V)
SumL(d, e, k) == SumFunctionOnSet([v \in LeftVersions(d, e, k) |-> Left(d, e, k, v)], LeftVersions(d, e, k))

\* What is unchanged, rewritten and left of a component are its occurrences.
LEMMA SumsOfOne ==
  ASSUME NEW d \in Document, NEW e \in Document, NEW k, NEW V, IsFiniteSet(V), Versions(d, k) \subseteq V
  PROVE  /\ SumU(d, e, k, V) \in Int /\ SumR(d, e, k, V) \in Int /\ SumL(d, e, k) \in Int
         /\ SumU(d, e, k, V) = SumU(e, d, k, V) /\ SumR(d, e, k, V) = SumR(e, d, k, V)
         /\ SumU(d, e, k, V) + SumR(d, e, k, V) + SumL(d, e, k) = Total(d, k)
         /\ d = e => SumU(d, e, k, V) = Total(d, k)
<1> DEFINE U == [v \in V |-> Unchanged(d, e, k, v)]
           R == [v \in V |-> Rewritten(d, e, k, v)]
           L == [v \in V |-> Left(d, e, k, v)]
           B == [v \in V |-> Unchanged(d, e, k, v) + Rewritten(d, e, k, v)]
           C == [v \in V |-> Count(d, k, v)]
           T == LeftVersions(d, e, k)
           M == [v \in T |-> Left(d, e, k, v)]
<1>1. T \in SUBSET V /\ IsFiniteSet(T)
  BY VersionsFinite, FS_Subset DEF LeftVersions
<1>2. ASSUME NEW v \in V
      PROVE  /\ U[v] \in Int /\ R[v] \in Int /\ L[v] \in Int /\ B[v] \in Int
             /\ B[v] = U[v] + R[v] /\ C[v] = B[v] + L[v]
             /\ v \notin T => L[v] = 0
             /\ d = e => U[v] = C[v]
  <2>1. /\ Unchanged(d, e, k, v) \in Nat /\ Rewritten(d, e, k, v) \in Nat /\ Left(d, e, k, v) \in Nat
        /\ Unchanged(d, e, k, v) + Rewritten(d, e, k, v) + Left(d, e, k, v) = Count(d, k, v)
        /\ v \notin Versions(d, k) => Left(d, e, k, v) = 0
        /\ d = e => Unchanged(d, e, k, v) = Count(d, k, v)
    BY UnchangedFacts, LeftFacts
  <2>2. v \notin T => Left(d, e, k, v) = 0
    BY <2>1 DEF LeftVersions
  <2>3. /\ U[v] = Unchanged(d, e, k, v) /\ R[v] = Rewritten(d, e, k, v) /\ L[v] = Left(d, e, k, v)
        /\ B[v] = Unchanged(d, e, k, v) + Rewritten(d, e, k, v) /\ C[v] = Count(d, k, v)
    OBVIOUS
  <2> HIDE DEF U, R, L, B, C, T
  <2> QED BY <2>1, <2>2, <2>3
<1>3. \A v \in T : L[v] = M[v]
  BY <1>1
<1>4. U = [v \in V |-> Unchanged(e, d, k, v)] /\ R = [v \in V |-> Rewritten(e, d, k, v)]
  BY UnchangedFacts, LeftFacts
<1>5. Total(d, k) = SumFunctionOnSet(C, V)
  BY CountedByVersion
<1>6. /\ SumU(d, e, k, V) = SumFunctionOnSet(U, V) /\ SumR(d, e, k, V) = SumFunctionOnSet(R, V)
      /\ SumL(d, e, k) = SumFunctionOnSet(M, T)
      /\ SumU(e, d, k, V) = SumFunctionOnSet([v \in V |-> Unchanged(e, d, k, v)], V)
      /\ SumR(e, d, k, V) = SumFunctionOnSet([v \in V |-> Rewritten(e, d, k, v)], V)
  BY DEF SumU, SumR, SumL
<1> HIDE DEF U, R, L, B, C, T, M
<1>7. SumFunctionOnSet(B, V) = SumFunctionOnSet(U, V) + SumFunctionOnSet(R, V)
  BY <1>2, SumPlus
<1>8. SumFunctionOnSet(C, V) = SumFunctionOnSet(B, V) + SumFunctionOnSet(L, V)
  BY <1>2, SumPlus
<1>9. SumFunctionOnSet(L, V) = SumFunctionOnSet(M, T)
  <2>1. SumFunctionOnSet(L, V) = SumFunctionOnSet(L, T)
    BY <1>1, <1>2, SumWithout
  <2> QED BY <1>1, <1>3, <2>1, SumSame
<1>10. SumFunctionOnSet(U, V) \in Int /\ SumFunctionOnSet(R, V) \in Int /\ SumFunctionOnSet(L, V) \in Int
  BY <1>2, SumInt
<1>11. d = e => SumFunctionOnSet(U, V) = SumFunctionOnSet(C, V)
  BY <1>2, SumSame
<1> QED BY <1>4, <1>5, <1>6, <1>7, <1>8, <1>9, <1>10, <1>11

\* The number of updates is a number.
LEMMA UpdatedType == \A d, e \in Document : \A k : Updated(d, e, k) \in Int
<1> SUFFICES ASSUME NEW d \in Document, NEW e \in Document, NEW k PROVE Updated(d, e, k) \in Int
  OBVIOUS
<1>1. \A v, w : Min({Left(d, e, k, v), Left(e, d, k, w)}) \in Int
  <2> SUFFICES ASSUME NEW v, NEW w PROVE Min({Left(d, e, k, v), Left(e, d, k, w)}) \in Int
    OBVIOUS
  <2> DEFINE a == Left(d, e, k, v)
             b == Left(e, d, k, w)
  <2>1. a \in Int /\ b \in Int
    BY LeftFacts
  <2> HIDE DEF a, b
  <2>2. Min({a, b}) \in Int
    BY <2>1, MinOf
  <2> QED BY <2>2 DEF a, b
<1> QED BY <1>1 DEF Updated, UpdatedOf

\* What is counted of one component are its occurrences.
LEMMA DifferenceFacts ==
  ASSUME NEW d \in Document, NEW e \in Document, NEW k
  PROVE  LET x == DifferenceOf(d, e, k)
         IN  /\ x.unchanged \in Int /\ x.changed \in Int /\ x.removed \in Int /\ x.added \in Int
             /\ x.unchanged + x.changed + x.removed = Total(d, k)
             /\ x.unchanged + x.changed + x.added = Total(e, k)
             /\ d = e => x.unchanged = Total(d, k)
<1> DEFINE V == Versions(d, k) \cup Versions(e, k)
           x == DifferenceOf(d, e, k)
           y == Updated(d, e, k)
<1>1. IsFiniteSet(V)
  BY VersionsFinite, FS_Union
<1>2. /\ x.unchanged = SumU(d, e, k, V) /\ x.changed = SumR(d, e, k, V) + y
      /\ x.removed = SumL(d, e, k) - y /\ x.added = SumL(e, d, k) - y
  BY DEF DifferenceOf, SumFunction, SumU, SumR, SumL
<1>3. y \in Int
  BY UpdatedType
<1>4. /\ SumU(d, e, k, V) \in Int /\ SumR(d, e, k, V) \in Int /\ SumL(d, e, k) \in Int /\ SumL(e, d, k) \in Int
      /\ SumU(d, e, k, V) + SumR(d, e, k, V) + SumL(d, e, k) = Total(d, k)
      /\ SumU(d, e, k, V) + SumR(d, e, k, V) + SumL(e, d, k) = Total(e, k)
      /\ d = e => SumU(d, e, k, V) = Total(d, k)
  <2>1. Versions(d, k) \subseteq V /\ Versions(e, k) \subseteq V
    OBVIOUS
  <2> HIDE DEF V
  <2>2. /\ SumU(d, e, k, V) \in Int /\ SumR(d, e, k, V) \in Int /\ SumL(d, e, k) \in Int
        /\ SumU(d, e, k, V) = SumU(e, d, k, V) /\ SumR(d, e, k, V) = SumR(e, d, k, V)
        /\ SumU(d, e, k, V) + SumR(d, e, k, V) + SumL(d, e, k) = Total(d, k)
        /\ d = e => SumU(d, e, k, V) = Total(d, k)
    BY <1>1, <2>1, SumsOfOne
  <2>3. /\ SumL(e, d, k) \in Int
        /\ SumU(e, d, k, V) + SumR(e, d, k, V) + SumL(e, d, k) = Total(e, k)
    BY <1>1, <2>1, SumsOfOne
  <2> QED BY <2>2, <2>3
<1> HIDE DEF V, x, y
<1>5. /\ x.unchanged \in Int /\ x.changed \in Int /\ x.removed \in Int /\ x.added \in Int
      /\ x.unchanged + x.changed + x.removed = Total(d, k)
      /\ x.unchanged + x.changed + x.added = Total(e, k)
      /\ d = e => x.unchanged = Total(d, k)
  BY <1>2, <1>3, <1>4
<1> QED BY <1>5 DEF x

\* The difference of two documents counts every occurrence once.
LEMMA DifferenceAccounts == \A d, e \in Document : AccountsFor(Difference(d, e), d, e)
<1> SUFFICES ASSUME NEW d \in Document, NEW e \in Document PROVE AccountsFor(Difference(d, e), d, e)
  OBVIOUS
<1> DEFINE K == Identities(d) \cup Identities(e)
           of == [k \in K |-> DifferenceOf(d, e, k)]
           u == [k \in K |-> of[k].unchanged]
           c == [k \in K |-> of[k].changed]
           r == [k \in K |-> of[k].removed]
           a == [k \in K |-> of[k].added]
           both == [k \in K |-> u[k] + c[k]]
           td == [k \in K |-> Total(d, k)]
           te == [k \in K |-> Total(e, k)]
           x == Difference(d, e)
<1>1. IsFiniteSet(K)
  BY KindsOf, FS_Union
<1>2. ASSUME NEW k \in K
      PROVE  /\ u[k] \in Int /\ c[k] \in Int /\ r[k] \in Int /\ a[k] \in Int /\ both[k] \in Int
             /\ both[k] = u[k] + c[k] /\ td[k] = both[k] + r[k] /\ te[k] = both[k] + a[k]
             /\ d = e => u[k] = td[k]
  <2> DEFINE y == DifferenceOf(d, e, k)
  <2>1. /\ y.unchanged \in Int /\ y.changed \in Int /\ y.removed \in Int /\ y.added \in Int
        /\ y.unchanged + y.changed + y.removed = Total(d, k)
        /\ y.unchanged + y.changed + y.added = Total(e, k)
        /\ d = e => y.unchanged = Total(d, k)
    BY DifferenceFacts
  <2>2. /\ u[k] = y.unchanged /\ c[k] = y.changed /\ r[k] = y.removed /\ a[k] = y.added
        /\ both[k] = u[k] + c[k] /\ td[k] = Total(d, k) /\ te[k] = Total(e, k)
    OBVIOUS
  <2> HIDE DEF y, u, c, r, a, both, td, te, of, K
  <2> QED BY <2>1, <2>2
<1>3. /\ x.unchanged = SumFunctionOnSet(u, K) /\ x.changed = SumFunctionOnSet(c, K)
      /\ x.removed = SumFunctionOnSet(r, K) /\ x.added = SumFunctionOnSet(a, K)
  BY DEF Difference, SumFunction
<1>4. Len(Items(d)) = SumFunctionOnSet(td, K) /\ Len(Items(e)) = SumFunctionOnSet(te, K)
  <2>1. Identities(d) \subseteq K /\ Identities(e) \subseteq K
    OBVIOUS
  <2> QED BY <1>1, <2>1, CountedByIdentity
<1> HIDE DEF K, of, u, c, r, a, both, td, te, x
<1>5. SumFunctionOnSet(both, K) = SumFunctionOnSet(u, K) + SumFunctionOnSet(c, K)
  BY <1>1, <1>2, SumPlus
<1>6. SumFunctionOnSet(td, K) = SumFunctionOnSet(both, K) + SumFunctionOnSet(r, K)
  BY <1>1, <1>2, SumPlus
<1>7. SumFunctionOnSet(te, K) = SumFunctionOnSet(both, K) + SumFunctionOnSet(a, K)
  BY <1>1, <1>2, SumPlus
<1>8. d = e => SumFunctionOnSet(u, K) = SumFunctionOnSet(td, K)
  BY <1>1, <1>2, SumSame
<1> QED BY <1>3, <1>4, <1>5, <1>6, <1>7, <1>8 DEF AccountsFor, x

\* A comparison of stored documents leaves out no occurrence of a component and
\* counts none twice, however many components, versions and suppliers there
\* are and however imports overlap.
THEOREM ComparisonsAccountForAll == DocumentsSpec => []DiffAccountsForAll
<1>1. Sound => DiffAccountsForAll
  <2> SUFFICES ASSUME Sound, NEW s \in Stored, NEW t \in Stored
               PROVE  AccountsFor(Diff[document[s].of][document[t].of], document[s].of, document[t].of)
    BY DEF DiffAccountsForAll
  <2> DEFINE d == document[s].of
             e == document[t].of
  <2>1. d \in Document /\ e \in Document
    BY DEF Sound, Tables, Stored, Entry
  <2>2. Diff[d][e] = Difference(d, e)
    BY <2>1 DEF Diff
  <2> HIDE DEF d, e
  <2>3. AccountsFor(Diff[d][e], d, e)
    BY <2>1, <2>2, DifferenceAccounts
  <2> QED BY <2>3 DEF d, e
<1> QED BY <1>1, SoundInit, SoundNext, PTL DEF DocumentsSpec

\* No row of a product is lost or renamed, however imports overlap.
NamesStay ==
  [][\A id \in Id : product[id] # None => product'[id] # None /\ Human(product'[id]) = Human(product[id])]_product

\* An import gives a product identifiers at most: never another name, type,
\* supplier or version, also while others run.
THEOREM ProductsKeepTheirNames == DocumentsSpec => NamesStay
<1>1. Sound /\ [DocumentsNext]_documentsVars
        => [\A id \in Id : product[id] # None => product'[id] # None /\ Human(product'[id]) = Human(product[id])]_product
  <2> SUFFICES ASSUME Sound, DocumentsNext, product' # product
               PROVE  \A id \in Id : product[id] # None => product'[id] # None /\ Human(product'[id]) = Human(product[id])
    BY DEF documentsVars
  <2>1. PICK i \in Importer : Commits(i)
    BY CommitsOnly DEF DocumentsNext
  <2> QED BY <2>1, OpenFacts DEF Commits, There
<1> QED BY <1>1, SoundInit, SoundNext, PTL DEF DocumentsSpec, NamesStay
=============================================================================
