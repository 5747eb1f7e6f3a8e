# EOLWatch: specifications and proofs

EOLWatch inspects servers and source trees for known vulnerabilities. An
administrator requests an analysis of an *asset* (a server reached over SSH, an
uploaded source ZIP, a Git repository). A worker process runs Syft and Grype
for it, on the target or locally, and stores an SBOM with its vulnerabilities.
This directory models the parts of the program where the order of events
matters. Paths below are relative to the repository.

## 1. Inventory

| Component | State it keeps | Operations | Where |
| --- | --- | --- | --- |
| Analysis queue | table `analysis_jobs`: status, unique `active_asset_id`, `worker_token`, heartbeat, snapshot of the request | enqueue and retry, cancel, recover, claim, stage, heartbeat, fail, import | `services/analysis_jobs.py`, `worker.py` |
| Analysis executor | per claim: a directory with `manifest.json`, local process groups, remote processes | run a tool, stop it, prove that it stopped, write the receipt | `services/analysis_executor.py` |
| Asset registry | table `assets`: connection settings, credentials, pinned host key | create, update, reset key, delete, purge | `routers/assets.py` |
| Infrastructure collection | table `collection_jobs` and its result; the pinned key of the asset | manual check, daily pass | `services/collector.py`, `services/ssh_auth.py` |
| Upload store | archives named by their digest; rows of `analysis_uploads` that share them | save, extract, purge | `services/analysis_uploads.py` |
| Result import | SBOM, products, components, runs, links | import a scan once per fingerprint; import an SBOM document | `services/analysis.py`, `services/sbom.py` |
| Second opinion | verdicts on links, two caches | `verify_run` after an import or by request | `services/verification.py` |
| Vulnerability actions | revision and VEX status of a link, its history; the draft in a panel of the browser | act, read, save, meet a conflict | `services/vulnerability_actions.py`, `VulnerabilityActions.jsx` |
| Comparison and SBOM diff | none | pure functions over two results | `services/analysis_comparison.py`, `routers/sboms.py` |
| Accounts and audit | users, audit log | log in, change accounts, record changes | `routers/auth.py`, `middleware.py` |
| Backup | a directory of published backups, a block of the crontab | back up, verify, retain, schedule | `scripts/backup-runtime.py` |
| AI advisor | table `ai_summaries`, a cache of plans in memory | summary, triage, second opinion, plan of a check | `services/ai_*.py`, `routers/ai.py` |
| Views, frontend, deployment | none of their own | queries, rendering, migrations | `routers/dashboard.py`, `frontend/`, `alembic/` |

How they meet. API handlers and the worker share nothing but the database and
the artifact directory; there is no message from one to the other. A handler
inserts or changes a row; the worker polls. The worker's executor calls back
into the queue (`set_job_stage`) every five seconds and on each stage, and the
exception that call raises is how a cancellation or a lost lease reaches the
tools. The receipt an executor leaves in its directory is how a later worker
learns that an earlier one cleaned up. The asset's settings are read by the
queue (snapshot, `_check_target`), the collection and the executor, and written
by handlers that hold no lock on them; checks and imports write the host key
back. Runs, links and CVEs are written by imports, verifications and reviews,
each in a transaction of its own, and read by comparisons and the advisor. The
backup reads the database and the archives while all of these go on.

What is hard in it: requests that race for one asset; a cancellation that races
an import; a worker that dies anywhere, or comes back after its job was given
away; a process on a remote server that nobody can see any more; rows that were
read minutes before they are written; checks that are old when they are used;
files and rows that must change together; answers that arrive late or are
stored before they are checked. The `hazards` of `PROJECT.json` list these with
their lines and with the properties that watch them.

What makes each component correct:

* queue and executor: one live job per asset; a cancelled job left nothing
  running and stored nothing; a result comes from the claim that owned the row
  and fits the settings it was collected with; a finished row stays as it is;
  every job ends or asks for the administrator;
* asset registry and collection: secrets fit the mode and each other; the
  pinned key belongs to the address beside it and changes only by a reset; no
  check stays RUNNING but by an error that escapes; the daily pass reaches every
  asset;
* upload store: a registered upload has its archive, an archive its row;
* import and second opinion: importing twice changes nothing, links follow the
  latest run, verdicts only advance;
* SBOM documents: a component's product is the package it names, for ever, but
  where imports raced for it;
* comparison: what it calls removed is gone, what it calls repaired changed;
* actions: one history entry per revision, each answering what its editor saw;
* accounts: two changes of one account keep what the other wrote; what is
  answered is audited;
* backup: what has the name of a backup can be restored, retention keeps enough;
* advisor: only candidates are judged, a prompt is asked once, what was checked
  stays.

## 2. Plan

All modules of the plan are written. The order is that of their weight: what
runs on other machines and can lose data first, what is only shown last.

| # | Module | What it says | Checked | Proved |
| --- | --- | --- | --- | --- |
| 1 | `AnalysisJobs`, `AssetLease` | the queue, the claims' life in the executor, and the promise they keep | `jobs_recovery`, `jobs_queue` | `AnalysisJobsProofs` |
| 2 | `ExecutorCleanup`, `ToolLife` | one run of the executor: process groups, pid file, channel, connection, receipt; `ToolLife` is what it promises and what the queue relies on | `cleanup_runs`, `cleanup_early` | `ExecutorCleanupProofs` |
| 3 | `Collections` | the settings of an asset, three writers of one pinned key, the daily pass | `collections` | `CollectionsProofs` |
| 4 | `Uploads` | archives and rows, saves and purges of several assets, rollback between a file operation and a commit | `uploads_own` | `StorageProofs` |
| 5 | `Findings`, `Comparison` | fingerprints, concurrent imports, links that move, `verify_run` beside them; what a comparison of two runs says | `findings` | `FindingsProofs` |
| 6 | `Reviews` | revisions with history, panels with drafts, roles, audit | `reviews` | `ReviewsProofs` |
| 7 | `Documents` | products and the documents that name them, the diff of two documents | `documents` | `StorageProofs` |
| 8 | `Backup` | publication and retention with crashes, the crontab | `backup` | `BackupProofs` |
| 9 | `Advice` | prompts, stored answers, their check | `advice`, `advice_shown` | `AdviceProofs` |

`Comparison` extends `Findings`, for it reads its tables. `AnalysisJobs` and
`ExecutorCleanup` are composed through `ToolLife`, which both implement. The
pin of a host key by an import is a step of `Collections`, where its competitors
are, and the second opinion after an import one of `Findings`. No module that
has proofs reaches a `RECURSIVE` operator.

## 3. The core: `AnalysisJobs`

### State

One row per `Job` (`status`, `asset`, `active`, `snapshot`, `token`, `run`).
`expired` says that `heartbeat_at` is older than the lease: real time is left
out, and a lease may run out at any moment the code allows it to. `flagged` is
the error code `CANCEL_CLEANUP_REQUIRED`. `target` holds the connection settings
of an asset, one value for the fields of `TARGET_FIELDS` and `monitored`, with
`Off` for an asset that is not monitored. `request` is what an API handler has
read and not yet committed; one that edits an asset has seen the `Rows` that were
there when it looked. `overtaken` remembers the jobs that came between the look of
an edit and its commit. A worker is at a step `pc` of
`process_next_analysis_job`, with the local variables `job_id`, `token` and the
kind of exception it is handling (`how`). Of a claim the model knows the job it
was drawn for, whether the execution started, which processes are alive for it
(`owned`: somebody supervises it; `orphan`: nobody does), whether a cleanup was
not confirmed (`dirty`) and what its `manifest.json` says (`receipt`).

### Actions and code

| Action | Code |
| --- | --- |
| `ReadForEnqueue`, `CommitEnqueue`, `LoseEnqueue` | `enqueue_analysis`: the snapshot and the look for an active job; the INSERT; the `IntegrityError`. A retry is an enqueue with a new snapshot |
| `CancelAnalysis` | `cancel_analysis`, one transaction with the row locked |
| `ReadForUpdate`, `CommitUpdate` | `update_asset`, its check and its commit |
| `Claim`, `RecoverOnly` | `claim_next_analysis_job` with `recover_stale_jobs` before it, one transaction |
| `LeaseExpires` | the passing of time |
| `CheckTarget`, `EnterExecution` | `_check_target`; `set_job_stage(COLLECTING)` and `execution_started = True` |
| `Heartbeat`, `NextStage`, `CallbackRefused` | the callback into `set_job_stage` while the executor runs |
| `StartTool`, `ToolExits`, `HelperLost`, `ExecutionFails`, `StopTool` | `_Run.local`, `_Run.remote` and their `finally` blocks; the helper commands whose failure is ignored |
| `FinishRun` | `_Run.finish`; its own failure replaces the outcome |
| `FinalizeGitSnapshot` | `_finalize_git_snapshot` |
| `StoreStage`, `BeginImport`, `CommitImport`, `RejectImport` | `set_job_stage(IMPORTING)` and the import transaction, which holds the row while it works (`Locked`) |
| `FinishCancellation`, `FailJob` | `_finish_cancellation`; `_fail_job` |
| `Crash` | the worker process dies, or a database error leaves the last `except` |
| `OrphanExits` | a process that nobody watches ends by itself |

Transactions are atomic at their commit. Two are split because other writers
come in between: the handlers that read before they write, and the import. The
import's row lock makes the others wait, as `FOR UPDATE` does (PostgreSQL; on
SQLite the conditional UPDATE takes the writer lock with the same effect).

Left out of these actions: what the tools produce; `verify_run` after the commit,
which writes no job (`Findings`); the pin of a learned host key in the import
(`Collections`); deletion of assets (`Uploads`); the check of an upload row in `_check_target` (a missing upload is
`ExecutionFails` or a failed check).

### The abstract specification: `AssetLease`

It knows nothing of claims, tokens, leases, receipts or processes of a claim.
Each job goes along the edges of its life once, an asset is lent to one live job
at a time, and no process works for a job that is waiting or cancelled.
`AnalysisJobs` implements it under the mapping `Lease`: the phase is computed
from the status and `busy` from the claims that have processes. One recovery
settles many rows at once, so the abstract step moves any set of jobs.

## 4. The executor: `ExecutorCleanup` and `ToolLife`

`ExecutorCleanup` is one call of `execute_analysis`. An input of the kind
`ssh`, `zip` or `git` fixes the list of commands (`Calls`); `at` is the command
made next or being made, `pc` the place in `_Run.local`, `_Run.remote` or
between two commands, `outcome` the exception on its way out. `alive` are the
processes of the current command and `shell` is how far the remote shell that
runs it has come; `left` are the commands that were given up. A remote process is
`forked` until it has called `setsid` and become the tool (`GroupForms`); the shell
writes the pid file without waiting for that, so `_cancel_remote` may look for a
`Group` that is not there yet. `missed` remembers the commands for which it did. `dirty` is the
negation of `cleanup_confirmed`, `receipt` what `manifest.json` says at the end.

| Action | Code |
| --- | --- |
| `Enter`, `Finish` | `_Run.__init__`; the `finally` of `execute_analysis` with `_Run.finish` |
| `CallbackRefuses` | `_Run.heartbeat` when the callback raises before a command is requested |
| `CheckFails`, `Skip`, `ResultReady` | the checks between two commands; commands that are left out; the result |
| `Popen`, `LocalReturns`, `LocalInterrupted` | the body of `_Run.local` |
| `KillGroup`, `WaitLeader`, `ProbeGroup` | its `finally` block: `killpg(SIGKILL)`, `wait`, `killpg(0)` |
| `Request`, `StatusArrives`, `StatusLost`, `RemoteInterrupted` | the body of `_Run.remote` |
| `SettleRemote`, `HuntEnds` | its `finally` block and `_cancel_remote` |
| `EndCall` | the return of either, or its exception, to the caller |
| `Forks`, `Ends`, `GroupForms`, `ShellStep`, `LinkDrops`, `Die`, `LeftEnds` | processes, the shell wrapped around the remote tool, the connection, the death of the worker |

Abstractions. Output and its limits decide only whether a command succeeds, so a
command may do either. `Forking` says that local tools fork (git does); a group
then has a child that may outlive the tool. The remote shell is not counted as
a process: what has to be stopped is the tool it starts or may still start
(`Remains`). The fast checks of `_cancel_remote` on the target are one step,
its wait for the group is another. `Faults` allows everything the code handles
as a failure: connections, signals, files. Process numbers that are used again,
and the transfer of the tool by SFTP, are left out. The analysis that replaces
an empty source scan by an external reference makes no command; it is `Skip` at
the conversion.

`ToolLife` is the part the queue needs of it, for many claims: one supervised
command at a time, a command is given up only in doubt, and the receipt, written
once after the last command, is `confirmed` only when nothing was in doubt. Both
sides are shown to implement it: `AnalysisJobs` under `Life` (run `jobs_queue`,
theorem `ClaimsLiveTheirLife`) and `ExecutorCleanup` for one claim (run
`cleanup_runs`, theorem `RunImplementsLife`). So what the queue assumes of
`StopTool`, `HelperLost` and `FinishRun` allows every run of the executor's code
that `ToolLife` can see. It cannot see the tool of a command that was `missed`
(section 13, finding 1): under the mapping such a tool does not exist, and what the
queue promises of tools (`CancelledMeansStopped`, `NoConcurrentTools`) is promised
of all others.

## 5. The upload store: `Uploads`

The content of an upload is kept once, in a file named by its digest; a row of
`analysis_uploads` says that an asset and a project registered it. A `Source`
stands for a project and a digest, `Sha` gives its digest, `Offers` what is ever
uploaded for an asset. `rows` counts committed rows, `archive` is the directory.
A request `c` is at `pc[c]`, for the asset `at[c]`; in `Saving` and `Purging` it
is inside its transaction and holds the asset's row lock. What a purge has
deleted is seen by others only after its commit, so `rows` changes in
`CommitPurge`, and `doomed` is what its loop has still to look at.

| Action | Code |
| --- | --- |
| `Receive`, `LockForSave`, `AssetGone`, `RejectArchive`, `LinkArchive`, `FindRecord`, `CommitUpload` | `save_upload` and `_persist_upload` |
| `QueueUpload`, `QueueRefused`, `RetryJob`, `FinishJob` | `upload_source` after the save; `retry_job`; the end of the job, which needs the archive to succeed |
| `DeleteAsset` | `delete_asset` without `purge` |
| `BeginPurge`, `KeepArchive`, `FindUnused`, `Unlink`, `CommitPurge` | `delete_asset` with `purge`, the loop of `_purge_history` |
| `Abort`, `Vanish` | an exception, a lost connection or the end of the process, inside and between the transactions |

Abstractions. PostgreSQL (docker-compose.yml:3) at READ COMMITTED: a query sees
what is committed when it runs. Inserting a job takes a key-share lock on its
asset, which waits for the row lock of a save or a purge, so queueing is one
step that needs the lock free; its own looks before the INSERT cannot be
outdated, because rows disappear only with the asset. Jobs are reduced to the
source an unfinished one reads and the sources of failed ones; `AnalysisJobs`
has their life. Left out: temporary files (each request removes its own and
nobody else looks at them), tampering with the directory, what archives contain,
and the rows of other tables a purge deletes.

## 6. Settings, checks and host keys: `Collections`

A *visit* is a check (by hand, or `Daily`, the one of the daily pass) or an
analysis job: it reads the row of an asset (`saw`), becomes visible to
`update_asset` (`open`), connects and perhaps learns a key (`met`), and writes
the key back. `running` counts the rows of `collection_jobs` that say RUNNING.
A request of an administrator is split between its look at what is running and
its commit, as neither locks the asset.

| Action | Code |
| --- | --- |
| `CreateAsset`, `ReadForUpdate`, `CommitUpdate`, `UpdateFails`, `DeleteAsset` | `create_asset`, `update_asset` with `_apply_credentials`, `delete_asset` |
| `CheckReads`, `CheckStarts`, `CheckConnects` | `run_collection`, `connect_ssh`, `PinnedHostKeyPolicy` |
| `CheckSucceeds`, `CheckFails`, `CheckEscapes` | its three ends: the result with the pin, a `CollectionFailure`, any other exception or death |
| `PassBegins`, `PassVisits`, `PassFindsNoAsset`, `PassEnds` | `collect_all_monitored_assets` |
| `SnapshotTarget`, `QueueAnalysis`, `AnalysisConnects`, `ImportReads`, `ImportCommits`, `AnalysisFails` | the job as far as the asset is concerned, with `_check_target` and the pin of the import |
| `Reinstall` | a target gets a new host key |

An UPDATE names the columns that differ from what its transaction read
(`Dirty`), which is what SQLAlchemy sends: a commit over a row that changed
meanwhile mixes two rows. `raced` and `overlapped` record the orders in which
the code promises nothing; every property says where it needs them. Left out:
what checks measure, names and tags of assets.

## 7. Results and second opinions: `Findings`, `Comparison`

A `Result` is a bundle of a scan; `Finds` says what severity it gives each
`Link` (a component of an SBOM and a CVE), so reading and matching reports is
data. `run` are the stored runs, `link` the links all runs of one SBOM share,
which carry the run that found them last and the verdicts of trackers and of
kernel files. An import or a verification holds what it has read (`old`,
`missing`, `cache`, `files`) until its commit, because SQLAlchemy writes the
columns that differ from it and the database refuses what is there already.

| Action | Code |
| --- | --- |
| `ImportReads`, `ImportFlushes`, `ImportCommits`, `ImportRollsBack` | `import_analysis`; the unique columns are `Conflicts` |
| `VerifyReads`, `VerifyAsks`, `VerifyCommits`, `VerifyRollsBack` | `verify_run` with its budget, its two rounds of requests and its caches |
| `TrackerPublishes` | a distribution changes its answer about a CVE |

`Comparison` adds no step. `Comparable` says when `compare_analyses` gives no
warning, `Status` the class of each finding, `WeakIdentity` when packages cannot
be told apart. Left out: severities of several sources, texts, the columns only
pages show.

## 8. Reviews and accounts: `Reviews`

One link, its `history`, some panels, the accounts, and requests on their way:
`sent`, `allowed` (the middleware let it in), `read` (the handler has read),
`committed` (before the audit), `done` (before the answer). `seen` and `chose`
in a request, `known` in a panel record for the properties what the editor looked
at. A connection may break and the API may restart at any point.

| Action | Code |
| --- | --- |
| `ScriptReviews`, `ChangesUser`, `CreatesUser`, `Saves` | requests of the older call, of administrators and of panels |
| `Authenticate`, `Audits`, `AuditFails` | `authenticate_and_audit` before and after the handler |
| `ReadsReview`, `WritesReview` | `record_action`: the row, locked or not, the conditional UPDATE, the entry |
| `ReadsUser`, `WritesUser`, `AddsUser` | `update_user`, `create_user` |
| `OpensPanel`, `ServesReview`, `GetsReview`, `LosesReview`, `Refreshes`, `PicksStatus`, `TypesNote`, `Acknowledges`, `ClosesPanel` | `VulnerabilityActions.jsx`: `loadCurrent`, `adoptLatest`, the form |
| `Answers`, `Disconnects`, `Restarts` | what comes back |

Left out: passwords, access tokens, the list of a component's findings.

## 9. Documents: `Documents`

An import takes the components of a document one by one; each finds, completes
or adds its product (`_normalize_product`). The session has `autoflush=False`
(db.py:16), so three things are kept apart. `Db` is what a query runs on: the rows
that are committed and those this transaction has written. `held` are the objects
the session still holds: those that were modified, and the last one used; what the
query finds is judged by them (`Memory`), as SQLAlchemy does not read an object
again that it holds. `fills` is what was set in an object and not yet written. A
product that is added is written at once (`db.flush`), and everything that was
filled in before goes out first (`Updates`, then `Inserts`); the rest is written
by the commit. A component may therefore not find the product that an earlier
component of its own document has completed in memory; it then adds another one
and the flush fails (`FlushFails`).

A statement waits for a transaction that has written the same row or the same
unique value (`BlockedBy`), fails if that one commits (`Violates`), and two that
wait for each other are a deadlock. An UPDATE sets the columns that were filled
in, whatever the row has in them by now, so two imports that fill in one product
side by side lose one of the two values. `raced` remembers such products, and those
that were added while another import was adding the same (`Races`); the
properties say where they except them, and nothing else is excepted.

| Action | Code |
| --- | --- |
| `Begins`, `Refuses`, `Attaches`, `Adds` | `import_cyclonedx`, `import_spdx`, `import_sbom`, `_normalize_product` |
| `Updates`, `Inserts`, `FlushFails` | the statements of `db.flush` and of the commit |
| `Commits`, `CommitFails` | the end of `import_spdx` and `import_cyclonedx` |
| `Links` | the second commit of `generate_sbom_from_check` |
| `Dies` | the API restarts |

`CheckDocument` is `packages_to_spdx`; `Difference` is `compare_sboms`, which
reads two stored documents and is an operator here. A PURL is its space, name,
version and qualifiers; licenses and hashes are left out, and so are the share
locks of foreign keys, which can only delay. UNKNOWN and N/A are one version.

## 10. Backups: `Backup`

Each run of the script is a process of its own with its directory, `place` is
where that is, `file` how far each of its four files is on the disk. Runs may be
killed, and the machine may lose power: what was not synced is torn or gone,
and a rename that was not synced may be undone.

| Action | Code |
| --- | --- |
| `Starts` to `SyncsRoot`, `Fails`, `FailsAfterRename` | `create_backup`, step by step |
| `ListsBackups`, `ChoosesVictim`, `Unlinks`, `RemovesDirectory`, `RetentionStops` | `retain_backups`, `managed_backup` |
| `InstallReads`, `InstallWrites`, `EditsCrontab` | `install_schedule`, `cron_text`; a person who adds a line anywhere or deletes any, in the managed block too and while an installation is at work |
| `Uploaded`, `Purged`, `PutsNote`, `Killed`, `PowerLoss` | the system in use, a person in the backup directory, faults |

Left out: `pg_dump` and Docker (each works or fails), the content of dumps.

## 11. The advisor: `Advice`

A prompt is `about` a set of subjects (the candidates of a triage, the commands
that fit a server), which is what the target's facts were when the request read
them. The provider may answer anything: in the required form, inside other
text, as prose, about subjects nobody asked about, with a field `counts` of its
own.

| Action | Code |
| --- | --- |
| `Reads`, `Looks`, `Stores` | the contexts; `generate_record`, which looks for the prompt's hash and stores the answer as it came |
| `LooksForPlan`, `PlanAnswered` | `plan` of a check, with `validate_plan` and a cache in memory |
| `EffortRefused`, `Busy`, `Refused` | `_complete_openai` and its attempts |
| `ReturnsTriage`, `RejectsTriage`, `Checks` | `generate_triage`, `validate_triage`, `generate_verify` |
| `TargetChanges`, `Restarts` | everything else that writes what prompts tell; the process dies |

## 12. Runs

Each module has an `MC` module that gives values to its constants. Workers,
clients, claims, importers, slots and requests are interchangeable, so the runs
without liveness use their permutations as symmetry where the module defines one.
`CHECK_DEADLOCK FALSE` everywhere: when all rows the bounds allow have ended, or
no user wants anything, the model has nothing left to do, which is where the
program would wait for a request.

| Run | Instance | What it shows |
| --- | --- | --- |
| `jobs_recovery` | 1 asset, 2 workers, 2 clients of which one enqueues and one edits, 2 jobs and claims, crashes, stalls, SSH and Git, settings that are switched off | the invariant of the proofs; cancelled means stopped; overlap only after giving up; final rows stay; a cancellation is not overtaken; a result fits its target unless an edit overtook the job |
| `jobs_queue` | 1 asset, 2 workers, 2 clients, crashes, no stalls, `FairSpec` | one live job per asset; supervised tools never meet; the queue implements `AssetLease`, its claims `ToolLife`; every job ends or is flagged |
| `cleanup_runs` | all inputs, forking tools, faults, the worker may die, `FairSpec` | the invariant of the proofs; a confirmed receipt means nothing is left but a command that was missed; a refused callback ends the run; the run implements `ToolLife`; a run ends |
| `uploads_own` | 2 assets, one content shared and one not, 2 requests, saves fail anywhere | the invariant of the proofs; purges and jobs exclude each other; an asset's own uploads keep their archives until it goes, and then go with it |
| `collections` | 2 assets, 2 addresses, one reinstalled, a manual check, the daily pass, an analysis, an administrator | the invariant: secrets fit each other, a pinned key fits its address, no check stays RUNNING unless an error escapes; the daily pass skips no asset; a pinned key is only replaced through a reset |
| `findings` | 4 bundles on 3 documents (two claim one namespace), 2 links, 2 imports, a verification, two transactions at a time, 3 runs | one run per bundle with frozen counts; links follow the latest run; verdicts advance; what a comparison calls removed is gone and what it calls repaired has changed |
| `backup` | 3 runs of one project, 2 at once, `--keep 2`, one mishap (a death, a power loss or a note), one upload; the crontab apart, of up to five lines with two of a person's | what has the name of a backup can be restored; retention keeps enough and touches no noted directory; an installation keeps the lines it has read outside its block, in order, and leaves one block |
| `reviews` | 2 users, a panel, 2 requests at a time and in all, no row locks | one chain of reviews; each answers what its editor saw; what is answered is audited; two changes of one account undo nothing of each other |
| `documents` | 7 uploads and 4 checks in any order, the imports of three uploads and of two checks may overlap, two at a time, deaths | but for products that imports raced for: a component's product is the package it names, products are not doubled, identifiers stay; checks agree; diffs account for all occurrences |
| `advice` | 3 requests for a triage, a second opinion or a plan, 2 attempts, the target changes once | the invariant: only candidates are judged, a prompt is asked once; what was checked stays |
| `cleanup_early` | one SSH run without faults and deaths | finding 1 |
| `advice_shown` | as `advice` | finding 2 |

The bounds and why they are enough. Exclusion of jobs concerns one asset, so one
asset with two racing clients meets every conflict; two jobs with two workers
allow a job to be given up and retried while its first worker is still there. A
claim is used once, so there are as many `Token`s as jobs. In `jobs_recovery` an
edit may look before a job is there and commit while it runs; two requests in flight
are of different kinds (`OneOfAKind`, as `jobs_queue` has two that enqueue) and only
the first row is of a repository (`GitFirst`). `MaxJob` ends the
model: a request beyond it is refused in `LoseEnqueue`. `Stalls` is off where
the question is what holds as long as live workers report in time
(`NoConcurrentTools`) and on where it is what holds even then. A run of the
executor is finite without any bound. In `uploads_own` conflicts are between two
requests over one asset or one digest; one asset has two contents, so that the
loop of a purge has more than one turn. In `collections` the asset that moves
between two modes and two addresses (`MCEdits`) is the one that is analysed and
visited by the pass; the other is there to be reached after it and to be
deleted. `MaxStuck = 0` with `Escapes = FALSE` restricts errors that escape to
those of a deleted asset, without which every property about RUNNING rows would be void.
In `findings` three of the four bundles are stored in any run, two on one document,
so links move, and two on documents of which the first package was updated and
the second is gone or has lost its PURL. In `backup` three runs are the least for
retention with `--keep 2`; `MaxAtOnce = 2` lets one remove old backups while the
next is made; two lines of a person are the least that can change their order. `reviews` has two requests, which is what a conflict needs; three
take more than ten million states. `RowLocks = FALSE` is the weaker case, that
of SQLite. In `documents` every order of eleven documents is a run. The sets that
may overlap (`Overlap`) are those whose components meet in one product: an upload
that names a package by its CPE, by its PURL or not at all, beside each other, and
two checks of one package; all eleven side by side are too many. Fills, waits,
clashes, deadlocks and products that are raced for all happen in it. Five lines of a
crontab are a block, a line before it and one behind or inside it. `Attempts = 2` gives a first and a last attempt.

### Fairness

In `ExecutorCleanup`, `FairSpec` assumes that the worker takes its next step,
which every loop of `_Run` does because of its limits (the tool's timeout, the
five seconds of `wait` and of `_cancel_remote`), and that a process that was
sent SIGKILL ends. Nothing is assumed of tools, connections and shells. The
worker may die, which ends the run too.

In `AnalysisJobs`, `FairSpec` assumes that the scheduler goes on polling (`worker.py` schedules the
queue every few seconds with `max_instances=1`), that a handler thread or worker
takes its next step, that a supervised tool meets its timeout (`timeout`
locally and on the target, and the executor's own limit), that an executor,
which has a fixed list of commands, reaches its next stage (strong fairness,
because tools start and end in between), and that time passes for a lease that
nobody renews. Nothing is assumed of users, of failures, of crashes or of
processes nobody supervises. Crashes are allowed at any step and any number of
times; a job survives them because a claim is drawn once and the lease of a dead
worker runs out.

The other modules assume no fairness: what they say is about safety. That a
check ends is not promised by the code, since `recv_exit_status` waits without a
limit (collector.py:384).

### Mutants

Every property of a passing run has a mutant in `PROJECT.json`: an operator
beside the one it would replace, such as a recovery without the cutoff
(`AllRunning`), a cancellation that takes expiry for a proof (`ExpiryIsProof`),
an import that trusts its snapshot (`ImportReadsNothing`), a dump with a snapshot
of its own (`DumpsNow`) or an answer checked against what is stored now
(`CheckedNow`), with which TLC refutes the property under the same configuration.

## 13. Findings

1. *A scan can be confirmed as cleaned up before it starts.* The remote shell runs
   `setsid` in the background and writes its number to the pid file at once
   (analysis_executor.py:217); the child may not have made its process group by
   then. A cancellation at that moment finds the pid file and no such group (line
   315), which `_cancel_remote` takes for a group that has ended: it removes the
   file, answers 0, and the receipt says `cleanup_confirmed`, so the job is
   CANCELLED and its asset is free while the scan starts and runs until its own
   timeout (`ReceiptIsHonest`, run `cleanup_early`). The window is that of one
   fork. What the receipt is worth apart from it is `ReceiptCoversCommands`.
2. *A triage that was not checked is shown.* The answer is committed before it is
   checked (ai_triage.py:155). If nothing in it is about a candidate the request
   fails and the row stays: it is the latest triage, and every further request
   that is not forced finds it and fails. An answer that has `items` and `counts`
   of its own is not checked at all (`ShownTriageIsChecked`, run `advice_shown`).

The models show more of the kind. Their properties are in the modules and take
a configuration with the constants named here:

* *A changed target can receive a result.* `update_asset` checks for an active
  analysis and commits later; neither it nor the import locks the asset.
  `ResultMatchesTarget` fails in the instance of `jobs_recovery`; what is left of it
  is `ResultFitsUnlessOvertaken`.
* *An interrupted Git job keeps its access token.* The recovery that fails it
  does not touch the snapshot; only the worker that ran it would
  (`UsedSecretIsRemoved`, with `Input = {"git"}` and crashes).
* *A job that never executed can wait for a receipt for ever.* A cancellation that
  commits between `_finish_cancellation` and `_fail_job` is acknowledged there as
  though an executor had run (`NoReceiptBeforeExecution`).
* *Cancelling a remote command cannot be confirmed unless it is the scan.* Only
  the scan has a pid file. Any other command, such as the package update query,
  is neither stopped nor provably over, so the job keeps its asset although
  nothing failed (`CancelIsConfirmed`, `Profile = {"ssh"}` without faults; with
  `{"git"}` and `Forking` because a group is probed once, when its tool was reaped).
* *A save can register an archive that is being removed.* The purge of another
  asset holds another lock and has looked for rows before the save committed
  (`UploadHasArchive`, run it with shared content); two purges each see the row that the other is
  about to delete and both keep the archive (`KeepArchive`); a purge that is
  rolled back after `Unlink` has lost its archives (`"purge" \in Faulty`).
* *Overlapping backups may leave none.* Each of two runs keeps its own and
  removes the other's, although "Retention must preserve at least one completed
  backup." (backup-runtime.py:356): `OneBackupStays` with two runs, `Keep = 1`.
* *Two imports at once may give two packages one product.* Each fills in what it
  saw to be missing and writes it later, and the second UPDATE overwrites the first
  (`PackagesAreApart` with the configuration `DocumentsOverlap.cfg`, against the
  comment at sbom.py:201: "distinct known package ecosystems/namespaces must not
  share a product identity accidentally"); and rows without a supplier may be
  doubled, as the unique key of models.py:34 does not compare them.
* *A document may fail on its own product.* An identifier that one of its components
  has filled in is not found by the next one, which adds a product with the same
  identifier and fails at the flush (sbom.py:177, 212; db.py:16). An upload answers
  that as a duplicate.
* *Two web analyses by one scanner and one database are called incomparable.*
  `scanner_db` says it returns only the descriptor of the database
  (analysis_comparison.py:25) but leaves in it what the analysis stored beside it,
  such as the verification with its time and the host. As soon as a verification is
  written into one of two runs, the comparison says that their databases differ
  (`SameDatabaseIsComparable`, configuration `ComparisonDatabase.cfg`).
* *An installation of the schedule drops a person's lines* that stand inside its
  block (backup-runtime.py:442), and those written between its reading and its
  writing.
* *The last administrator is not kept.* `update_user` refuses only that one switches
  his own account off (routers/auth.py:82): two administrators can switch each other
  off in overlapping requests, and one can demote himself.
* *A host key can be overwritten by a check that overlaps another visit.* Both found
  no key; each writes the one it met, also when the target was installed anew in
  between and the two differ, although a changed key is refused everywhere else
  (ssh_auth.py:60). `overlapped` marks the assets in which this happened, and
  `KeyAcceptedOnce` excepts them.
* *A check's document may be refused for ever.* Two architectures of one package
  give one edge twice (`EdgesAreUnique`), which the endpoint answers with 500; an
  upload that says a dependency twice is answered as a duplicate (409). A crash
  between the two commits of `generate_sbom_from_check` leaves a document without its check,
  and the next attempt is a duplicate.
* *A verification whose second round was not begun is not marked partial*
  (`VerifyAsks`: `begun`; verification.py:308).
* *The provider may be asked twice* for one prompt by requests that overlap, and
  when the last attempt is refused for its `reasoning_effort` no further one is
  made without it (`EffortRefused`).

A related consequence the model shows is documented behaviour rather than a
disagreement: a worker that dies after its claim and before the executor leaves
no receipt, so a cancellation of that job stays with the administrator
(docs/ANALYSIS_CANCELLATION.md, last list).

## 14. Proofs

### `AnalysisJobsProofs`

The theorems hold for every value of the constants that satisfies
`ConstantsAssumption`: any sets of assets, settings, workers, clients and claims,
any number of jobs, with or without crashes and stalls. TLAPS checks them to the
last leaf.

| Theorem | Property |
| --- | --- |
| `Invariance` | `IInv` |
| `TypeCorrect` | `TypeOK` |
| `Exclusion` | `AssetExclusive` |
| `CancellationIsHonest` | `CancelledMeansStopped` |
| `ResultsAreOwned` | `ResultOnlyBySuccess` |
| `SecretsAreDropped` | `SuccessKeepsNoSecret` |
| `OverlapIsOld` | `OverlapOnlyAfterGivingUp` |
| `ToolsDoNotMeet` (assumes `Stalls = FALSE`) | `NoConcurrentTools` |
| `TerminalForever` | `TerminalIsFinal` |
| `CancellationWins` | `CancelIsNeverOvertaken` |
| `QueueImplementsLease` | `ImplementsLease` |
| `ClaimsLiveTheirLife` | `ImplementsLife` |
| `ResultsFitTheirTarget` | `ResultFitsUnlessOvertaken` |

The inductive invariant. None of the properties is inductive by itself:
exclusion needs to know that `active_asset_id` follows the status; that a
cancelled row has no processes needs the history of its claim. `IInv` adds to
the types: what a row says of itself and that a job is claimed once (`RowInv`);
that a worker works for the job its token was drawn for and that its import
holds the row (`WorkerInv`); that a process belongs to a claim that entered the
executor, and is supervised by that claim's worker or else left the claim dirty
(`ToolInv`); that a confirmed receipt or a CANCELLED row is the end of the
processes, and that there is no receipt and no CANCELLED row while the worker has
not closed its run (`StopInv`); what a worker on its way to the import already has (`ResultInv`);
and, without stalls, that a worker owns its row until it has left its tools
(`LeaseInv`). `jobs_recovery` checks `IInv` with TLC.

The argument. Many actions do the same thing to a row, a worker or a claim, so
the proof first reduces each action to an *edge*: a row stays, is enqueued, is
claimed, moves within its claim or is settled (`RowEdges`); a worker's step is
one of a few shapes (`WorkerEdges`); the processes of a claim change only in its
executor, by a crash or by their own end (`ExecEdges`). Each part of the
invariant is then preserved by each edge (`RowStep`, `WorkersStep`, `ToolStep`,
`StopStep`, `ResultStep`, `LeaseStep`), and `InvStep` puts them together. The
refinement uses the same edges: each is an edge of `AssetLease`, and its two
invariants are consequences of `RowInv` and `StopInv`.

For `ToolLife`, a claim is new until its executor is entered, open while its
worker is at its tools and over afterwards (`LifeOf`). `LifeFrame`, `LifeOpens` and
`LifeEnds` say what the steps of workers do to that, `LifeSteps` and
`LifeEndings` what a step has to do to count as one of `ToolLife`'s, and
`LifeNext` assigns every action to one of them. It needs that a worker has its
token for itself (`WorkerInv`), and that there is no receipt before the executor
closes (`StopInv`), for a receipt is written once. With
`RunImplementsLife` below, the queue and the executor's code meet at one
specification that both are proved to implement.

`ResultMatchesTarget` fails as soon as a request to enqueue comes between the look
and the commit of `update_asset`; the jobs of which that is true are `overtaken`,
and `ResultsFitTheirTarget` is about all others, for any number of clients. Its
invariant (`TargetInv`) says that an edit has seen only rows that were there, none of
them live in its asset, and that a worker about to commit a result has a row
whose settings are those of the asset, unless it was overtaken (`HeldRow`,
`CommitBegins`, `SeenStep`).

Only model-checked: `EveryRequestSettles` (liveness) and the findings.

### `ExecutorCleanupProofs`

For any set of inputs, with or without forking tools, faults and deaths:

| Theorem | Property |
| --- | --- |
| `Invariance` | `IInv` |
| `TypeCorrect` | `TypeOK` |
| `ReceiptsAreProof` | `ReceiptCoversCommands` |
| `RefusalsPropagate` | `RefusalEndsRun` |
| `RunImplementsLife` | `ImplementsLife` |

`ReceiptIsHonest` is false (finding 1). What holds, that a receipt covers every
command that was not `missed`, is not inductive: it needs that processes and a
shell exist only while a command is made and that a status means that the tool ended
(`CommandInv`), and that whatever remains when a command ends is in doubt and
stays so until the receipt, or was missed (`DoubtInv`). `CommandStep` and `DoubtStep` prove one
case per group of actions. That a command's number stays inside the list
(`CountsStep`) uses only that the lists are finite sequences (`CallsType`). For
the refinement, `LifeSteps` and `LifeEndings` say what a step has to do to count
as each step of `ToolLife`; `LifeNext` assigns every action to one of them, and
giving a command up is allowed there because of `DoubtInv`.

Only model-checked: `RunEnds`, and the findings.

### `StorageProofs`: uploads

This module has the theorems of the two stores that keep what comes in:
`Uploads` and, below, `Documents`. For any sets of assets, sources and requests:

| Theorem | Property | Assumed |
| --- | --- | --- |
| `Invariance` | `IInv` | |
| `TypeCorrect` | `TypeOK` | |
| `Reuse` | `OneRowPerSource` | |
| `PurgeIsAlone` | `NoJobUnderPurge` | |
| `UploadsAreKept` | `OwnUploadHasArchive` | `"purge" \notin Faulty` |
| `OriginalsAreFound` | `JobsFindOriginal` | `"purge" \notin Faulty` |
| `PurgesAreComplete` | `PurgeRemovesUploads` | `"unlink" \notin Faulty` |

`IInv` says who holds which lock (`LockInv`), that what a save found is still so
when it commits (`FoundInv`), that jobs are about registered rows (`JobInv`) and
that sources stay with the asset they were offered for (`OfferInv`). The last
three theorems are about `Own` content, which no other asset is given: for it the
lock on the asset is a lock on the archive, so a purge and a save in progress
never meet over it (`OthersDiffer`), whatever happens to content that is shared.
`LinkInv` carries the archive of a save from the link to the commit; `DoneInv`
says that what a purge has looked at is gone. The assumptions are the faults that
break the property: the rollback of a purge that has removed files, and a
removal that fails and is ignored.

### `StorageProofs`: documents

For any documents, checks, packages and number of requests, and however the
imports overlap:

| Theorem | Property |
| --- | --- |
| `DocumentsAreTyped` | `DocumentsTypeOK` |
| `ProductsFit` | `DocumentsInv` |
| `IdentifiersAreKept` | `IdentifiersStay` |
| `ProductsKeepTheirNames` | `NamesStay` |
| `ComparisonsAccountForAll` | `DiffAccountsForAll` |

Nothing is assumed of the order of imports: the bound `Overlap` is not used. Where
two imports race for a product the properties except it (`raced`), and the code
does go wrong there (section 13). The invariant has four parts.

* `Sound`: tables and sessions keep their types. A session's products are there or
  its own, it has open what it must, and no two have one serial; so every component
  of a stored document has a product, and the right number of them.
* `Fitting`: every stored component is served by its product (`Serves`), and a
  session is up to date (`UpToDate`): what it is going to leave (`Final`, its rows
  with all its fills written) serves what it has attached, and, for a product
  nobody raced for, what its object says is what it is going to leave and what it
  fills in is still missing. This is what makes the delay of the fills harmless. It rests on
  `MatchAgrees`: a candidate that neither conflicts nor is refused says of
  the package what the component says, and on `FilledFits`: a product that is
  completed fits all it fitted before. When another import commits,
  what it has written is either held by nobody or raced for (`OthersUpToDate`,
  `RacedIsChanged`).
* `Twins`: two products of one name were raced for; a session that adds one has
  seen the name free, or another is adding it too and the commit will say so.
* `Agreement`: as long as only checks gave documents, every product is what some
  check would make of it (`AllOfChecks`), because their components name a supplier or
  none as the distribution demands, and two checks that name one product agree on it,
  also side by side.

`IdentifiersStay` follows from `Fitting`, as only a commit writes products
(`CommitKeeps`). `ProductsKeepTheirNames` says that no row is deleted and none changes its type,
supplier, name or version.

`ComparisonsAccountForAll` is about sums over documents. The provers cannot
instantiate the library's induction theorems, which take an operator, so the
module proves induction over finite sets for sets (`Induction`, `SubsetInduction`, from the
well-foundedness of the naturals) and from that what `SumFunction` does when an element is
added (`SumPlus`, `SumRemove`), what it bounds (`SumLess`), and that
counting the occurrences by a key counts each once (`SumCount`). The rest is
arithmetic: `CountedByVersion` and `CountedByIdentity` divide a document into
its versions and components, and `DifferenceAccounts` puts what is unchanged,
rewritten, updated and left together again.

### `CollectionsProofs`

For any assets, addresses, forms, checks and analyses:

| Theorem | Property |
| --- | --- |
| `Invariance` | `IInv` (with `CredentialsFit`, `PinFitsAddress`, `RunningIsAlive`) |
| `TypeCorrect` | `TypeOK` |
| `KeysAreKept` | `KeyAcceptedOnce` |
| `PassIsComplete` | `PassSkipsNoOne` |

Three facts make the invariant inductive. `WorkIsSeen`: a check at work has a
RUNNING row, so a request that looks for one finds it. `SeenKeepsAddress`: while
a visit can be seen no request holds its asset, whose address is the one the
visit read. `PinIsLast`: where a key is pinned nobody is about to write another,
but in an overlap. A row that says RUNNING is counted, so the proof has a small
theory of counting (`WorkCount`, `CountsUp`, `CountsDown`) over the finite set of
checks. A visit has its own part of the invariant (`VisitParts`): a step of one
visit has to keep only its own part and what the others say of the row
(`VisitStep`). Both ways of writing a key, by a check and by an import, are one
lemma, `PinsStep`, and the commit of a form is `AppliedFits`: what
`_apply_credentials` leaves fits.

### `ReviewsProofs`

For any panels, accounts, reviews, scripts and numbers of requests, with and
without row locks:

| Theorem | Property |
| --- | --- |
| `Invariance` | `IInv` (with `HistoryIsAChain`, `EveryReviewIsInformed`, `UntouchedStatusStays`) |
| `Informed` | `EveryReviewIsInformed` |
| `AccountsKeepChanges` | `ChangesUndoNothing` |
| `Audited` | `AuditFollowsChanges` |

`RequestInv` and `PanelInv` say that whatever a panel shows and a request carries
was once the review of the link. The reviews that ever were (`Shown`) only grow,
so both are kept by every step of somebody else (`FitsOn`), and a revision names
one review, so a conditional UPDATE that names the revision names what the
editor saw (`ReviewedFacts`). `AuditFollowsChanges` is not inductive: a change
that is not yet audited is owed by a request that is still there. The proof counts
the requests that owe an entry and those that have still to be answered
(`CountFacts`, with one lemma per kind of step), for which `Slot` has to be finite.
An account changes by one commit of one request (`UsersChange`), which writes the
fields that differ from what it has read. A field has two values, so where another
request has changed it meanwhile nothing is written that undoes that
(`UndoesNothing`).

### `FindingsProofs`

For any results, links, documents, answers of trackers and numbers of runs:

| Theorem | Property |
| --- | --- |
| `Invariance` | `IInv` (with `OneRunPerBundle`, `CountsAreFrozen`) |
| `Advance` | `VerdictsAdvance` |
| `Links` | `LinksFollowRuns` |
| `Removed` | `RemovedIsGone` |
| `Disappearance` | `DisappearanceIsAChange` |

Nothing is deleted from these tables, so what a transaction holds stays true
while others commit (`ImportStandsOn`, `VerifyStandsOn`); steps that write no
table are `ImportMoves` and `VerifyMoves`. What a commit does to one link is
`RelinkedFacts` and `JudgedFacts`. The properties of links need more than
that: as long as no two transactions have overlapped (`~raced`), what one has
read is what is stored (`Alone`, `ReadsStand`), and only then is a verdict that
was reached never replaced by an older one. Beside an overlap they fail, which
is why they say where they need it. `Removed` follows from what `WeakIdentity`
refuses. `Disappearance` needs `ScannerAssumption` about what is outside this code: a
scanner with one database says of the same packages in the same versions the
same. `FindingsAssumption` says that a component, and so a link, is of one
document (the key of `components` has `sbom_id`) and that bundles with one
fingerprint have one content.

### `BackupProofs`

For any number of runs, projects, deaths, power losses, notes and uploads:

| Theorem | Property |
| --- | --- |
| `Invariance` | `IInv` (with `BackupIsRestorable`, `NoLeftovers`) |
| `Retention` | `RetentionKeeps` |
| `Schedule` | `ScheduleKeepsLines` |

A run writes only in its own directory until it removes others (`OwnStep`), so
the steps that make a backup keep the invariant if they keep what it says of
their own run: how far the directory is when the program is at a step
(`PlacesFit`), which files are written, synced and whole by then (`FilesFit`). `Making`,
`WrittenStep`, `SyncedStep` and `MovesOn` are that argument for every kind of
step. A loss of power is allowed to tear all that was not synced (`LossFacts`), so
what may be published had to be synced before. That retention keeps enough is a
fact about orders: of the backups of a project ahead of one that goes, `Keep`
have fewer than `Keep` ahead of them and stay (`RankLemma`, by the finiteness of
the set of backups). It holds when the list is made (`ListKeeps`) and through every choice
and removal (`ChoiceKeeps`, `RemovalKeeps`), as long as nobody else comes in
between (`KeepsEnough`, `Alone`).

`Schedule` is for any lines and a crontab of any length, edited anywhere, in the
block too. `InBlock` and `Outside` say by positions which lines are of the block,
the scan of the code says it by going through them; `ScanKeeps` shows that both
agree and that the lines kept are those outside, in order. The scan is a fold, whose
existence and recursion the module proves by induction over sets of numbers
(`FoldExists`, `FoldMore`, `ScanLaws`). Nothing has to be known of the text but its
type (`CronInv`): an installation that reads a malformed block is refused. The
theorem does not say that a person's line inside the block is kept; it is dropped.

### `AdviceProofs`

For any requests, prompts, answers and numbers of attempts:

| Theorem | Property |
| --- | --- |
| `Invariance` | `IInv` |
| `TypeCorrect` | `TypeOK` |
| `OnlyCandidates` | `OnlyCandidatesAreJudged` |
| `AskedOnce` | `AskedOncePerPrompt` |
| `CheckedForGood` | `CheckedStays` |

`RowsFitRequests` says that a request which is checking has the row of its own
prompt, as it came or as another request has checked it; `LookedBefore` that one
that asks has looked and found nothing. Most steps change one request and keep
the rows (`ApartFacts`, `ApartStep`); the others are a look (`LooksStep`), the
storing of an answer (`StoresStep`), its check (`ChecksStep`) and a restart. A
second check of a row changes nothing because checking is idempotent
(`CheckedFacts`), which is all of `CheckedForGood`.

### Assumptions

Every module names what it assumes of its constants (`ConstantsAssumption`,
`ExecutorAssumption`, and so on); each is evaluated by TLC for the instance it
checks. They are types, that a special value (`None`, `Keep`, `Gone`) is none of
the ordinary ones, that the sets that are counted are finite, and the facts about
data that are named above: what the scanner and the parsers deliver (`ContentAssumption` of `Documents`:
lists of components with their fields, and one supplier for one distribution) and
that what the code writes itself is text (`WordsAssumption`). No theorem assumes a bound: `MaxMishaps`,
`MaxRequests` and their like may be any number.

### What is only model-checked

* *Liveness* (`EveryRequestSettles`, `RunEnds`) is out of reach of the proof system, as is `ENABLED`.
* *The findings*, and what the configurations of section 13 show: they are
  counterexamples.

## 15. Not modelled, and why

Every module of the plan is written. Left out are parts whose order of steps
does not matter or which decide nothing:

* the transfer of tools to a target by SFTP, and the content of archives, SBOM
  documents and dumps, which work or fail here;
* the rows of other tables that a purge deletes, inside one transaction;
* passwords and access tokens (`services/auth.py`), which keep no state between
  requests;
* the text of comparison reports, the breakdown by CVE, the package updates, the
  library reference of the advisor, and the wording of its prompts;
* read-only views, the dashboard, the PDF, the schemas of the API;
* the frontend except `VulnerabilityActions.jsx`, the only page that keeps a
  draft while the server changes;
* migrations, settings, deployment and one-off scripts.
