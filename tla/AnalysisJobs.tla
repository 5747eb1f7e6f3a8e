---------------------------- MODULE AnalysisJobs ----------------------------
(***************************************************************************)
(* The durable analysis queue: the analysis_jobs table, the API handlers   *)
(* that insert and cancel rows, the worker that claims a row, runs the     *)
(* tools and imports their result, and the recovery that replaces a        *)
(* worker that stopped reporting.                                          *)
(*                                                                         *)
(* One action is one database transaction or one step of the executor      *)
(* between two of them.  A transaction that holds a row lock across other  *)
(* reads (the import) is two actions, and every other writer of the row    *)
(* waits for it (Locked).  What the executor does inside one tool call is  *)
(* the module ExecutorCleanup, and ToolLife is where the two meet; here a  *)
(* claim has at most one supervised tool ("owned") and any number of       *)
(* processes nobody supervises any more ("orphan").                        *)
(***************************************************************************)
EXTENDS Naturals, FiniteSets

CONSTANTS
  Asset,      \* registered targets
  Target,     \* values of an asset's connection settings (TARGET_FIELDS)
  Off,        \* the value of Target that stands for "not monitored"
  Worker,     \* worker processes, each polling with max_instances=1
  Client,     \* API requests that may be in flight at once
  Token,      \* the uuid4 values drawn by claims
  Input,      \* input types a request may use, of {"ssh", "zip", "git"}
  MaxJob,     \* bound: rows the table may get
  NoAsset, NoToken,
  Crashes,    \* workers may die between any two steps
  Stalls      \* a live worker may stop reporting for longer than the lease

ASSUME ConstantsAssumption ==
  /\ MaxJob \in Nat
  /\ Input \subseteq {"ssh", "zip", "git"}
  /\ NoAsset \notin Asset
  /\ NoToken \notin Token
  /\ Crashes \in BOOLEAN
  /\ Stalls \in BOOLEAN

Job == 1..MaxJob

Running  == {"COLLECTING", "SCANNING", "IMPORTING"}
Claimed  == Running \union {"CANCEL_REQUESTED"}
Active   == Claimed \union {"QUEUED"}
Terminal == {"SUCCESS", "FAILED", "CANCELLED"}

Snapshot == {s \in [input : Input \union {"none"}, target : Target \union {Off}, secret : BOOLEAN] :
               s.secret => s.input = "git"}
Request  == [op : {"none"}]
              \union [op : {"enqueue"}, asset : Asset, snapshot : Snapshot]
              \union [op : {"update"}, asset : Asset, target : Target, jobs : SUBSET Job]

VARIABLES
  status,     \* analysis_jobs.status, "ABSENT" before the row exists
  asset,      \* analysis_jobs.asset_id
  active,     \* analysis_jobs.active_asset_id (unique)
  snapshot,   \* analysis_jobs.asset_snapshot
  token,      \* analysis_jobs.worker_token
  expired,    \* heartbeat_at of a claimed row is older than the lease
  flagged,    \* error_code is CANCEL_CLEANUP_REQUIRED
  run,        \* analysis_run_id: the claim whose result was stored
  target,     \* assets.ip_address, ssh_port, ssh_username, ssh_auth, monitored
  overtaken,  \* history: jobs whose settings an edit changed that had looked before they were there
  request,    \* what an API handler has read and not yet committed
  pc, job, mine, how,   \* process_next_analysis_job: step, job_id, token, exception
  issued,     \* the job a token was drawn for, 0 while it was not drawn
  started,    \* tokens whose execution_started was set
  tools,      \* processes alive on behalf of a token
  dirty,      \* tokens whose _Run.cleanup_confirmed became False
  receipt     \* manifest.json of a token: cleanup_confirmed with finished_at

rows    == <<status, asset, active, snapshot, token, expired, flagged, run>>
workers == <<pc, job, mine, how>>
execs   == <<issued, started, tools, dirty, receipt>>
vars    == <<rows, target, overtaken, request, workers, execs>>

NoRequest  == [op |-> "none"]
NoSnapshot == [input |-> "none", target |-> Off, secret |-> FALSE]

Init ==
  /\ status   = [j \in Job |-> "ABSENT"]
  /\ asset    = [j \in Job |-> NoAsset]
  /\ active   = [j \in Job |-> NoAsset]
  /\ snapshot = [j \in Job |-> NoSnapshot]
  /\ token    = [j \in Job |-> NoToken]
  /\ expired  = [j \in Job |-> FALSE]
  /\ flagged  = [j \in Job |-> FALSE]
  /\ run      = [j \in Job |-> NoToken]
  /\ target \in [Asset -> Target \ {Off}]
  /\ overtaken = {}
  /\ request  = [c \in Client |-> NoRequest]
  /\ pc       = [w \in Worker |-> "idle"]
  /\ job      = [w \in Worker |-> 0]
  /\ mine     = [w \in Worker |-> NoToken]
  /\ how      = [w \in Worker |-> "ok"]
  /\ issued   = [t \in Token |-> 0]
  /\ started  = {}
  /\ tools    = [t \in Token |-> {}]
  /\ dirty    = {}
  /\ receipt  = [t \in Token |-> "none"]

-----------------------------------------------------------------------------
(* Rows *)

\* The import transaction of some worker holds the row of job j.
Locked(j) == \E w \in Worker : pc[w] = "commit" /\ job[w] = j

\* The worker's token still matches a row of the given statuses.
OwnsRow(w, statuses) ==
  /\ token[job[w]] = mine[w]
  /\ status[job[w]] \in statuses

\* Mutant: the receipt is looked for, what it says is not.
ReceiptExists(j) == token[j] # NoToken /\ receipt[token[j]] # "none"

\* _cleanup_confirmed: a receipt exists and says that everything stopped.
CleanupConfirmed(j) == token[j] # NoToken /\ receipt[token[j]] = "confirmed"

\* A final row lets go of the asset and of its worker.
Settle(j, final) ==
  /\ status'  = [status EXCEPT ![j] = final]
  /\ active'  = [active EXCEPT ![j] = NoAsset]
  /\ token'   = [token EXCEPT ![j] = NoToken]
  /\ expired' = [expired EXCEPT ![j] = FALSE]
  /\ flagged' = [flagged EXCEPT ![j] = FALSE]

\* _acknowledge_cancellation of a CANCEL_REQUESTED row.
Acknowledge(j, noExecution) ==
  \/ /\ noExecution \/ CleanupConfirmed(j)
     /\ Settle(j, "CANCELLED")
  \/ /\ ~(noExecution \/ CleanupConfirmed(j))
     /\ flagged' = [flagged EXCEPT ![j] = TRUE]
     /\ UNCHANGED <<status, active, token, expired>>

-----------------------------------------------------------------------------
(* API requests *)

\* enqueue_analysis up to the INSERT: the snapshot of the asset, and no active
\* job of the asset was seen (else that job, or a 409, is the answer).  A retry
\* takes the input of a FAILED job of the asset and snapshots the asset anew.
ReadForEnqueue(c) ==
  /\ request[c] = NoRequest
  /\ \E a \in Asset, i \in Input, s \in BOOLEAN :
       /\ i = "ssh" => target[a] # Off
       /\ s => i = "git"
       /\ \A j \in Job : active[j] # a
       /\ request' = [request EXCEPT ![c] =
            [op |-> "enqueue", asset |-> a,
             snapshot |-> [input |-> i, target |-> target[a], secret |-> s]]]
  /\ UNCHANGED <<rows, target, overtaken, workers, execs>>

IsNextId(j) ==
  /\ status[j] = "ABSENT"
  /\ \A k \in 1..(j - 1) : status[k] # "ABSENT"

\* Mutant: active_asset_id without its unique constraint.
CommitEnqueueAnyway(c) ==
  /\ request[c].op = "enqueue"
  /\ \E j \in Job :
       /\ IsNextId(j)
       /\ status'   = [status EXCEPT ![j] = "QUEUED"]
       /\ asset'    = [asset EXCEPT ![j] = request[c].asset]
       /\ active'   = [active EXCEPT ![j] = request[c].asset]
       /\ snapshot' = [snapshot EXCEPT ![j] = request[c].snapshot]
  /\ request' = [request EXCEPT ![c] = NoRequest]
  /\ UNCHANGED <<token, expired, flagged, run, target, overtaken, workers, execs>>

\* The INSERT commits unless another row has the asset's unique active_asset_id.
CommitEnqueue(c) ==
  /\ request[c].op = "enqueue"
  /\ \A j \in Job : active[j] # request[c].asset
  /\ \E j \in Job :
       /\ IsNextId(j)
       /\ status'   = [status EXCEPT ![j] = "QUEUED"]
       /\ asset'    = [asset EXCEPT ![j] = request[c].asset]
       /\ active'   = [active EXCEPT ![j] = request[c].asset]
       /\ snapshot' = [snapshot EXCEPT ![j] = request[c].snapshot]
  /\ request' = [request EXCEPT ![c] = NoRequest]
  /\ UNCHANGED <<token, expired, flagged, run, target, overtaken, workers, execs>>

\* IntegrityError: the winner's job is the answer.  (Also where MaxJob ends the model.)
LoseEnqueue(c) ==
  /\ request[c].op = "enqueue"
  /\ \/ \E j \in Job : active[j] = request[c].asset
     \/ \A j \in Job : status[j] # "ABSENT"
  /\ request' = [request EXCEPT ![c] = NoRequest]
  /\ UNCHANGED <<rows, target, overtaken, workers, execs>>

\* The rows a request can see now.
Rows == {j \in Job : status[j] # "ABSENT"}

\* Mutant: update_asset does not look for an active analysis.
ReadForUpdateAnyway(c) ==
  /\ request[c] = NoRequest
  /\ \E a \in Asset, v \in Target :
       /\ v # target[a]
       /\ request' = [request EXCEPT ![c] = [op |-> "update", asset |-> a, target |-> v, jobs |-> Rows]]
  /\ UNCHANGED <<rows, target, overtaken, workers, execs>>

\* update_asset: the check that no analysis is active ...
ReadForUpdate(c) ==
  /\ request[c] = NoRequest
  /\ \E a \in Asset, v \in Target :
       /\ v # target[a]
       /\ \A j \in Job : asset[j] = a => active[j] = NoAsset
       /\ request' = [request EXCEPT ![c] = [op |-> "update", asset |-> a, target |-> v, jobs |-> Rows]]
  /\ UNCHANGED <<rows, target, overtaken, workers, execs>>

\* ... and the commit of the new settings.
CommitUpdate(c) ==
  /\ request[c].op = "update"
  /\ target'  = [target EXCEPT ![request[c].asset] = request[c].target]
  /\ overtaken' = overtaken \union {j \in Job \ request[c].jobs : active[j] = request[c].asset}
  /\ request' = [request EXCEPT ![c] = NoRequest]
  /\ UNCHANGED <<rows, workers, execs>>

\* Mutant: the row is read without FOR UPDATE.
CancelWithoutLock(j) ==
  /\ \/ /\ status[j] = "QUEUED"
        /\ Settle(j, "CANCELLED")
     \/ /\ status[j] \in Running
        /\ status'  = [status EXCEPT ![j] = "CANCEL_REQUESTED"]
        /\ flagged' = [flagged EXCEPT ![j] = FALSE]
        /\ UNCHANGED <<active, token, expired>>
  /\ UNCHANGED <<asset, snapshot, run, target, overtaken, request, workers, execs>>

\* cancel_analysis; a row in another status is returned or refused unchanged.
CancelAnalysis(j) ==
  /\ ~Locked(j)
  /\ \/ /\ status[j] = "QUEUED"
        /\ Settle(j, "CANCELLED")
     \/ /\ status[j] \in Running
        /\ status'  = [status EXCEPT ![j] = "CANCEL_REQUESTED"]
        /\ flagged' = [flagged EXCEPT ![j] = FALSE]
        /\ UNCHANGED <<active, token, expired>>
  /\ UNCHANGED <<asset, snapshot, run, target, overtaken, request, workers, execs>>

-----------------------------------------------------------------------------
(* Claim and recovery *)

Rest(w) ==
  /\ pc'   = [pc EXCEPT ![w] = "idle"]
  /\ job'  = [job EXCEPT ![w] = 0]
  /\ mine' = [mine EXCEPT ![w] = NoToken]
  /\ how'  = [how EXCEPT ![w] = "ok"]

\* Mutants: a recovery without the cutoff, one that forgets cancellations, and
\* one that takes the expiry for a proof that the tools stopped.
AllRunning    == {j \in Job : status[j] \in Running}
NoStaleCancel == {}
ExpiryIsProof == {j \in Job : status[j] = "CANCEL_REQUESTED" /\ expired[j]}

Interrupted == {j \in Job : status[j] \in Running /\ expired[j]}
StaleCancel == {j \in Job : status[j] = "CANCEL_REQUESTED" /\ expired[j]}
Cleaned     == {j \in StaleCancel : CleanupConfirmed(j)}
Oldest      == {j \in Job : /\ status[j] = "QUEUED"
                            /\ \A k \in Job : status[k] = "QUEUED" => j <= k}

\* recover_stale_jobs together with the claim of the rows in `claim` (at most
\* one) for token t: one transaction.  The UPDATE of interrupted rows waits for
\* an import that holds one of them.
RecoverAndClaim(claim, t) ==
  /\ \A j \in Interrupted : ~Locked(j)
  /\ status' = [j \in Job |-> CASE j \in Interrupted -> "FAILED"
                                [] j \in Cleaned     -> "CANCELLED"
                                [] j \in claim       -> "COLLECTING"
                                [] OTHER             -> status[j]]
  /\ active' = [j \in Job |-> IF j \in Interrupted \union Cleaned THEN NoAsset ELSE active[j]]
  /\ token'  = [j \in Job |-> IF j \in Interrupted \union Cleaned THEN NoToken
                              ELSE IF j \in claim THEN t ELSE token[j]]
  /\ expired' = [j \in Job |-> expired[j] /\ j \notin Interrupted \union Cleaned]
  /\ flagged' = [j \in Job |-> \/ flagged[j] /\ j \notin Cleaned
                               \/ j \in StaleCancel \ Cleaned]
  /\ UNCHANGED <<asset, snapshot, run, target, overtaken, request>>

\* claim_next_analysis_job finding the oldest QUEUED row.
Claim(w) ==
  /\ pc[w] = "idle"
  /\ \E j \in Oldest, t \in Token :
       /\ issued[t] = 0
       /\ RecoverAndClaim({j}, t)
       /\ pc'     = [pc EXCEPT ![w] = "check"]
       /\ job'    = [job EXCEPT ![w] = j]
       /\ mine'   = [mine EXCEPT ![w] = t]
       /\ issued' = [issued EXCEPT ![t] = j]
  /\ UNCHANGED <<how, started, tools, dirty, receipt>>

\* claim_next_analysis_job with nothing queued still commits the recovery.
RecoverOnly(w) ==
  /\ pc[w] = "idle"
  /\ Oldest = {}
  /\ Interrupted \union StaleCancel # {}
  /\ RecoverAndClaim({}, NoToken)
  /\ UNCHANGED <<workers, execs>>

\* The lease of a claimed row runs out: nobody has reported for it, because its
\* worker died, or stalls, or because a CANCEL_REQUESTED row gets no heartbeat.
LeaseExpires(j) ==
  /\ status[j] \in Claimed
  /\ ~expired[j]
  /\ \/ Stalls
     \/ status[j] = "CANCEL_REQUESTED"
     \/ \A w \in Worker : mine[w] # token[j]
  /\ expired' = [expired EXCEPT ![j] = TRUE]
  /\ UNCHANGED <<status, asset, active, snapshot, token, flagged, run, target, overtaken, request, workers, execs>>

-----------------------------------------------------------------------------
(* process_next_analysis_job *)

\* Mutants: a stage update that only looks for a cancellation, and one that
\* takes a CANCEL_REQUESTED row for its own.
NotCancelled(w)  == status[job[w]] # "CANCEL_REQUESTED"
OwnsClaimed(w)   == OwnsRow(w, Claimed)

MayRun(w) == OwnsRow(w, Running)

\* Mutant: the caller gets the status instead of the exception.
RefusalByStatus(w) == status[job[w]]

\* What set_job_stage raises when its UPDATE matched no row.
Refusal(w) == IF OwnsRow(w, {"CANCEL_REQUESTED"}) THEN "cancel" ELSE "lost"

\* Continue outside the executor with outcome h.
Proceed(w, h) ==
  IF h = "lost"
    THEN Rest(w)
    ELSE /\ pc'  = [pc EXCEPT ![w] = IF h = "ok" THEN "store" ELSE "settle"]
         /\ how' = [how EXCEPT ![w] = h]
         /\ UNCHANGED <<job, mine>>

\* The UPDATE of set_job_stage when it matches.
RecordStage(w, stage) ==
  /\ MayRun(w)
  /\ status'  = [status EXCEPT ![job[w]] = stage]
  /\ expired' = [expired EXCEPT ![job[w]] = FALSE]

\* _check_target: only an SSH target can have changed under a live snapshot.
TargetMatches(j) ==
  snapshot[j].input = "ssh" => target[asset[j]] = snapshot[j].target

CheckTarget(w) ==
  /\ pc[w] = "check"
  /\ \/ /\ TargetMatches(job[w])
        /\ pc' = [pc EXCEPT ![w] = "enter"]
        /\ UNCHANGED <<job, mine, how>>
     \/ /\ ~TargetMatches(job[w])
        /\ Proceed(w, "error")
  /\ UNCHANGED <<rows, target, overtaken, request, execs>>

\* set_job_stage(COLLECTING) and execution_started = True.
EnterExecution(w) ==
  /\ pc[w] = "enter"
  /\ \/ /\ RecordStage(w, "COLLECTING")
        /\ pc' = [pc EXCEPT ![w] = "run"]
        /\ started' = started \union {mine[w]}
        /\ UNCHANGED <<job, mine, how>>
     \/ /\ ~MayRun(w)
        /\ Proceed(w, Refusal(w))
        /\ UNCHANGED <<status, expired, started>>
  /\ UNCHANGED <<asset, active, snapshot, token, flagged, run, target, overtaken, request, issued, tools, dirty, receipt>>

Supervised(w) == "owned" \in tools[mine[w]]

\* The callback every five seconds while tools run.
Heartbeat(w) ==
  /\ pc[w] = "run"
  /\ RecordStage(w, status[job[w]])
  /\ UNCHANGED <<asset, active, snapshot, token, flagged, run, target, overtaken, request, workers, execs>>

\* The callback on a stage transition, made between two tools.  After IMPORTING
\* execute_analysis has its result and only its finally block is left.
NextStage(w) ==
  /\ pc[w] = "run"
  /\ ~Supervised(w)
  /\ \/ /\ status[job[w]] = "COLLECTING"
        /\ RecordStage(w, "SCANNING")
        /\ UNCHANGED pc
     \/ /\ status[job[w]] = "SCANNING"
        /\ RecordStage(w, "IMPORTING")
        /\ pc' = [pc EXCEPT ![w] = "close"]
  /\ UNCHANGED <<asset, active, snapshot, token, flagged, run, target, overtaken, request, job, mine, how, execs>>

\* A command starts; heartbeat() only asks the database every five seconds, so
\* a worker that lost its row may still start one.
StartTool(w) ==
  /\ pc[w] = "run"
  /\ ~Supervised(w)
  /\ tools' = [tools EXCEPT ![mine[w]] = @ \union {"owned"}]
  /\ UNCHANGED <<rows, target, overtaken, request, workers, issued, started, dirty, receipt>>

ToolExits(w) ==
  /\ pc[w] = "run"
  /\ Supervised(w)
  /\ tools' = [tools EXCEPT ![mine[w]] = @ \ {"owned"}]
  /\ UNCHANGED <<rows, target, overtaken, request, workers, issued, started, dirty, receipt>>

\* The tool could not be confirmed stopped: cleanup_confirmed = False.
Abandon(w) ==
  /\ tools' = [tools EXCEPT ![mine[w]] = (@ \ {"owned"}) \union {"orphan"}]
  /\ dirty' = dirty \union {mine[w]}

\* A helper command (host facts, package updates, second scanner) is given up
\* without confirmation, and the run goes on.
HelperLost(w) ==
  /\ pc[w] = "run"
  /\ Supervised(w)
  /\ Abandon(w)
  /\ UNCHANGED <<rows, target, overtaken, request, workers, issued, started, receipt>>

\* Mutant: the receipt is written while the tool still runs.
AbortUnstopped(w, h) ==
  /\ pc[w] = "run"
  /\ how' = [how EXCEPT ![w] = h]
  /\ pc' = [pc EXCEPT ![w] = "close"]
  /\ UNCHANGED <<rows, target, overtaken, request, job, mine, execs>>

\* An exception leaves execute_analysis.
AbortRun(w, h) ==
  /\ pc[w] = "run"
  /\ how' = [how EXCEPT ![w] = h]
  /\ pc' = [pc EXCEPT ![w] = IF Supervised(w) THEN "stop" ELSE "close"]
  /\ UNCHANGED <<rows, target, overtaken, request, job, mine, execs>>

\* The callback raised: the row was cancelled or is another's.
CallbackRefused(w) == AbortRun(w, Refusal(w)) /\ ~MayRun(w)

\* A tool, the connection or a check of its output failed.
ExecutionFails(w) == AbortRun(w, "error")

\* The finally blocks of _Run.local and _Run.remote.
StopTool(w) ==
  /\ pc[w] = "stop"
  /\ \/ /\ tools' = [tools EXCEPT ![mine[w]] = @ \ {"owned"}]
        /\ UNCHANGED dirty
     \/ Abandon(w)
  /\ pc' = [pc EXCEPT ![w] = "close"]
  /\ UNCHANGED <<rows, target, overtaken, request, job, mine, how, issued, started, receipt>>

\* Mutant: a receipt that could not be written is ignored.
FinishRunQuietly(w) ==
  /\ pc[w] = "close"
  /\ \E written \in BOOLEAN :
       /\ receipt' = IF written
                       THEN [receipt EXCEPT ![mine[w]] =
                               IF mine[w] \in dirty THEN "unconfirmed" ELSE "confirmed"]
                       ELSE receipt
       /\ IF snapshot[job[w]].input = "git"
            THEN pc' = [pc EXCEPT ![w] = "scrub"] /\ UNCHANGED <<job, mine, how>>
            ELSE Proceed(w, how[w])
  /\ UNCHANGED <<rows, target, overtaken, request, issued, started, tools, dirty>>

\* _Run.finish writes the receipt.  When that fails its OSError replaces
\* whatever execute_analysis was about to return or raise.
FinishRun(w) ==
  /\ pc[w] = "close"
  /\ \E written \in BOOLEAN :
       LET h == IF written THEN how[w] ELSE "error" IN
       /\ receipt' = IF written
                       THEN [receipt EXCEPT ![mine[w]] =
                               IF mine[w] \in dirty THEN "unconfirmed" ELSE "confirmed"]
                       ELSE receipt
       /\ IF snapshot[job[w]].input = "git"
            THEN /\ pc'  = [pc EXCEPT ![w] = "scrub"]
                 /\ how' = [how EXCEPT ![w] = h]
                 /\ UNCHANGED <<job, mine>>
            ELSE Proceed(w, h)
  /\ UNCHANGED <<rows, target, overtaken, request, issued, started, tools, dirty>>

\* Mutant: only the worker's copy of the snapshot loses the token.
FinalizeInMemory(w) ==
  /\ pc[w] = "scrub"
  /\ Proceed(w, how[w])
  /\ UNCHANGED <<rows, target, overtaken, request, execs>>

\* _finalize_git_snapshot: drop the one-time token where the row is still ours.
FinalizeGitSnapshot(w) ==
  /\ pc[w] = "scrub"
  /\ snapshot' = IF token[job[w]] = mine[w]
                   THEN [snapshot EXCEPT ![job[w]].secret = FALSE]
                   ELSE snapshot
  /\ Proceed(w, how[w])
  /\ UNCHANGED <<status, asset, active, token, expired, flagged, run, target, overtaken, request, execs>>

\* set_job_stage(IMPORTING).
StoreStage(w) ==
  /\ pc[w] = "store"
  /\ \/ /\ RecordStage(w, "IMPORTING")
        /\ pc' = [pc EXCEPT ![w] = "import"]
        /\ UNCHANGED <<job, mine, how>>
     \/ /\ ~MayRun(w)
        /\ Proceed(w, Refusal(w))
        /\ UNCHANGED <<status, expired>>
  /\ UNCHANGED <<asset, active, snapshot, token, flagged, run, target, overtaken, request, execs>>

\* The import transaction takes the row, re-reads ownership and the target ...
BeginImport(w) ==
  /\ pc[w] = "import"
  /\ \/ /\ MayRun(w) /\ TargetMatches(job[w])
        /\ pc' = [pc EXCEPT ![w] = "commit"]
        /\ UNCHANGED <<job, mine, how>>
     \/ /\ MayRun(w) /\ ~TargetMatches(job[w])
        /\ Proceed(w, "error")
     \/ /\ ~MayRun(w)
        /\ Proceed(w, Refusal(w))
  /\ UNCHANGED <<rows, target, overtaken, request, execs>>

\* ... and commits the result together with the final status.
CommitImport(w) ==
  /\ pc[w] = "commit"
  /\ Settle(job[w], "SUCCESS")
  /\ run' = [run EXCEPT ![job[w]] = mine[w]]
  /\ Rest(w)
  /\ UNCHANGED <<asset, snapshot, target, overtaken, request, execs>>

\* import_analysis raises: the transaction rolls back.
RejectImport(w) ==
  /\ pc[w] = "commit"
  /\ Proceed(w, "error")
  /\ UNCHANGED <<rows, target, overtaken, request, execs>>

\* _finish_cancellation, called for a cancellation and first for any error.
FinishCancellation(w) ==
  /\ pc[w] = "settle"
  /\ \/ /\ OwnsRow(w, {"CANCEL_REQUESTED"})
        /\ Acknowledge(job[w], mine[w] \notin started)
        /\ Rest(w)
     \/ /\ ~OwnsRow(w, {"CANCEL_REQUESTED"})
        /\ IF how[w] = "error"
             THEN pc' = [pc EXCEPT ![w] = "fail"] /\ UNCHANGED <<job, mine, how>>
             ELSE Rest(w)
        /\ UNCHANGED <<status, active, token, expired, flagged>>
  /\ UNCHANGED <<asset, snapshot, run, target, overtaken, request, execs>>

\* _fail_job.
FailJob(w) ==
  /\ pc[w] = "fail"
  /\ \/ /\ OwnsRow(w, {"CANCEL_REQUESTED"})
        /\ Acknowledge(job[w], FALSE)
     \/ /\ MayRun(w)
        /\ Settle(job[w], "FAILED")
     \/ /\ ~OwnsRow(w, Claimed)
        /\ UNCHANGED <<status, active, token, expired, flagged>>
  /\ Rest(w)
  /\ UNCHANGED <<asset, snapshot, run, target, overtaken, request, execs>>

\* The worker process dies, or an exception (the database is down) escapes the
\* last except clause; an open transaction rolls back, and what it was
\* running may die with it or go on (a process on the target does).
Crash(w) ==
  /\ Crashes
  /\ pc[w] # "idle"
  /\ Rest(w)
  /\ IF Supervised(w)
       THEN \E left \in {{}, {"orphan"}} :
              tools' = [tools EXCEPT ![mine[w]] = (@ \ {"owned"}) \union left]
       ELSE UNCHANGED tools
  /\ UNCHANGED <<rows, target, overtaken, request, issued, started, dirty, receipt>>

\* `timeout` ends a process nobody supervises.
OrphanExits(t) ==
  /\ "orphan" \in tools[t]
  /\ tools' = [tools EXCEPT ![t] = @ \ {"orphan"}]
  /\ UNCHANGED <<rows, target, overtaken, request, workers, issued, started, dirty, receipt>>

-----------------------------------------------------------------------------
HandlerStep(c) ==
  ReadForEnqueue(c) \/ CommitEnqueue(c) \/ LoseEnqueue(c) \/ ReadForUpdate(c) \/ CommitUpdate(c)

ExecutorStep(w) ==
  \/ Heartbeat(w) \/ NextStage(w) \/ StartTool(w) \/ ToolExits(w) \/ HelperLost(w)
  \/ CallbackRefused(w) \/ ExecutionFails(w) \/ StopTool(w) \/ FinishRun(w)

WorkerStep(w) ==
  \/ Claim(w) \/ RecoverOnly(w) \/ CheckTarget(w) \/ EnterExecution(w) \/ ExecutorStep(w)
  \/ FinalizeGitSnapshot(w) \/ StoreStage(w) \/ BeginImport(w) \/ CommitImport(w)
  \/ RejectImport(w) \/ FinishCancellation(w) \/ FailJob(w) \/ Crash(w)

Next ==
  \/ \E c \in Client : HandlerStep(c)
  \/ \E j \in Job : CancelAnalysis(j) \/ LeaseExpires(j)
  \/ \E w \in Worker : WorkerStep(w)
  \/ \E t \in Token : OrphanExits(t)

Spec == Init /\ [][Next]_vars

\* The scheduler polls for ever, a handler thread or a worker between two
\* waits goes on, a supervised tool meets its timeout, an executor has finitely
\* many commands (NextStage is reached although tools start in between), and
\* time passes for a lease.  Users, failures and crashes owe nothing.
Fairness ==
  /\ \A w \in Worker :
       /\ WF_vars(Claim(w) \/ RecoverOnly(w))
       /\ WF_vars(CheckTarget(w) \/ EnterExecution(w))
       /\ WF_vars(CallbackRefused(w))
       /\ WF_vars(ToolExits(w) \/ HelperLost(w))
       /\ SF_vars(NextStage(w))
       /\ WF_vars(StopTool(w) \/ FinishRun(w) \/ FinalizeGitSnapshot(w) \/ StoreStage(w)
                    \/ BeginImport(w) \/ CommitImport(w) \/ FinishCancellation(w) \/ FailJob(w))
  /\ \A j \in Job : WF_vars(LeaseExpires(j))

FairSpec == Spec /\ Fairness

-----------------------------------------------------------------------------
(* Safety *)

RowsTyped ==
  /\ status   \in [Job -> {"ABSENT"} \union Active \union Terminal]
  /\ asset    \in [Job -> Asset \union {NoAsset}]
  /\ active   \in [Job -> Asset \union {NoAsset}]
  /\ snapshot \in [Job -> Snapshot]
  /\ token    \in [Job -> Token \union {NoToken}]
  /\ expired  \in [Job -> BOOLEAN]
  /\ flagged  \in [Job -> BOOLEAN]
  /\ run      \in [Job -> Token \union {NoToken}]

WorkersTyped ==
  /\ pc   \in [Worker -> {"idle", "check", "enter", "run", "stop", "close", "scrub",
                          "store", "import", "commit", "settle", "fail"}]
  /\ job  \in [Worker -> Job \union {0}]
  /\ mine \in [Worker -> Token \union {NoToken}]
  /\ how  \in [Worker -> {"ok", "cancel", "lost", "error"}]

ExecsTyped ==
  /\ issued  \in [Token -> Job \union {0}]
  /\ started \subseteq Token
  /\ tools   \in [Token -> SUBSET {"owned", "orphan"}]
  /\ dirty   \subseteq Token
  /\ receipt \in [Token -> {"none", "confirmed", "unconfirmed"}]

\* Every variable holds what its column, file or local of the code may hold.
TypeOK ==
  /\ RowsTyped
  /\ WorkersTyped
  /\ ExecsTyped
  /\ target  \in [Asset -> Target]
  /\ overtaken \subseteq Job
  /\ request \in [Client -> Request]

\* An asset has at most one live job, from the request to the confirmed end,
\* whatever requests, workers and recoveries do (enqueue_analysis:191-204).
AssetExclusive ==
  \A j, k \in Job : status[j] \in Active /\ status[k] \in Active /\ asset[j] = asset[k] => j = k

\* A cancelled job left nothing running: no process of its claim is alive once
\* the row says CANCELLED (ANALYSIS_CANCELLATION.md, _acknowledge_cancellation).
CancelledMeansStopped ==
  \A t \in Token : issued[t] # 0 /\ status[issued[t]] = "CANCELLED" => tools[t] = {}

\* A result is stored for exactly the successful jobs, and by the claim whose
\* tools were all seen to end or were given up in the receipt of that claim.
ResultOnlyBySuccess ==
  \A j \in Job :
    /\ status[j] = "SUCCESS" <=> run[j] # NoToken
    /\ run[j] # NoToken => /\ issued[run[j]] = j
                           /\ receipt[run[j]] # "none"
                           /\ "owned" \notin tools[run[j]]

\* Without stalls no two claims supervise tools on one asset: a live worker is
\* fenced only after it left its tools.
NoConcurrentTools ==
  \A t, u \in Token :
    "owned" \in tools[t] /\ "owned" \in tools[u] /\ asset[issued[t]] = asset[issued[u]] => t = u

\* Two claims with processes on one asset: the older one was given up as FAILED
\* or ended with an unconfirmed helper, never as CANCELLED and never while its row is active.
OverlapOnlyAfterGivingUp ==
  \A t, u \in Token :
    /\ t # u /\ tools[t] # {} /\ tools[u] # {}
    /\ asset[issued[t]] = asset[issued[u]]
    => \E v \in {t, u} : status[issued[v]] \in {"FAILED", "SUCCESS"}

\* A finished row never changes its status or result again.
TerminalIsFinal ==
  [][\A j \in Job : status[j] \in Terminal => status'[j] = status[j] /\ run'[j] = run[j]]_vars

\* A cancellation that was accepted is never overtaken by a result or a failure.
CancelIsNeverOvertaken ==
  [][\A j \in Job : status[j] = "CANCEL_REQUESTED"
       => status'[j] \in {"CANCEL_REQUESTED", "CANCELLED"}]_vars

\* A result is attributed to the connection settings it was collected with: an
\* SSH job succeeds only while its asset still has the settings of its snapshot
\* (test_changed_target_cannot_receive_results_from_old_connection), but for an
\* edit that looked before the job was queued and was committed while it was
\* live (update_asset:138).
ResultFitsUnlessOvertaken ==
  [][\A j \in Job : status[j] # "SUCCESS" /\ status'[j] = "SUCCESS"
                    => TargetMatches(j)' \/ j \in overtaken]_vars

\* The one-time access token of a Git request is gone from the stored snapshot
\* of every job whose result was stored (_finalize_git_snapshot).
SuccessKeepsNoSecret ==
  \A j \in Job : status[j] = "SUCCESS" => ~snapshot[j].secret

-----------------------------------------------------------------------------
(* The inductive invariant *)

\* What a row says of itself, and that a job is claimed at most once: the
\* columns active_asset_id, worker_token and analysis_run_id follow the status.
RowInv ==
  /\ \A j \in Job :
       /\ active[j] = (IF status[j] \in Active THEN asset[j] ELSE NoAsset)
       /\ status[j] \in Active => asset[j] \in Asset
       /\ token[j] # NoToken <=> status[j] \in Claimed
       /\ token[j] # NoToken => issued[token[j]] = j
       /\ expired[j] => status[j] \in Claimed
  /\ \A j, k \in Job : active[j] = active[k] /\ active[j] # NoAsset => j = k
  /\ \A t \in Token : issued[t] # 0 => status[issued[t]] \notin {"ABSENT", "QUEUED"}
  /\ \A t, u \in Token : issued[t] = issued[u] /\ issued[t] # 0 => t = u

\* A worker that is not idle works for the job its own token was drawn for.
WorkerInv ==
  /\ \A w \in Worker :
       /\ pc[w] = "idle" => mine[w] = NoToken
       /\ pc[w] # "idle" => mine[w] \in Token /\ job[w] \in Job /\ issued[mine[w]] = job[w]
       /\ pc[w] = "commit" => OwnsRow(w, Running)
  /\ \A v, w \in Worker : mine[v] = mine[w] /\ mine[v] # NoToken => v = w

\* Every process belongs to a claim that entered the executor, and a supervised
\* one to the worker that supervises it; only a dirty claim has others, until
\* its worker is gone.
ToolInv ==
  /\ \A t \in Token :
       /\ t \notin started => tools[t] = {} /\ receipt[t] = "none"
       /\ t \in started => issued[t] # 0
       /\ "owned" \in tools[t] => \E w \in Worker : mine[w] = t /\ pc[w] \in {"run", "stop"}
  /\ \A w \in Worker :
       /\ pc[w] \in {"check", "enter"} => mine[w] \notin started
       /\ pc[w] \in {"run", "stop", "close", "scrub", "store", "import", "commit"} => mine[w] \in started
       /\ pc[w] \in {"run", "stop", "close"} /\ mine[w] \notin dirty => "orphan" \notin tools[mine[w]]

\* Steps of a worker whose executor has not closed.
BeforeReceipt == {"check", "enter", "run", "stop", "close"}

\* A confirmed receipt, and a CANCELLED row, are the end of the claim's processes;
\* there is no receipt before the executor has closed.
StopInv ==
  /\ \A t \in Token :
       \/ receipt[t] = "confirmed"
       \/ issued[t] # 0 /\ status[issued[t]] = "CANCELLED"
       => tools[t] = {}
  /\ \A w \in Worker :
       pc[w] \in BeforeReceipt
       => receipt[mine[w]] = "none" /\ status[job[w]] # "CANCELLED"

\* A result comes from a claim with a receipt and without a token in its
\* snapshot, and that claim has no worker left.
ResultInv ==
  /\ \A w \in Worker :
       /\ pc[w] \in {"store", "import", "commit"} =>
            /\ receipt[mine[w]] # "none"
            /\ token[job[w]] = mine[w] => ~snapshot[job[w]].secret
       /\ pc[w] = "scrub" /\ how[w] = "ok" => receipt[mine[w]] # "none"
  /\ \A j \in Job :
       /\ status[j] = "SUCCESS" <=> run[j] # NoToken
       /\ status[j] = "SUCCESS" =>
            /\ issued[run[j]] = j /\ receipt[run[j]] # "none" /\ ~snapshot[j].secret
            /\ \A w \in Worker : mine[w] # run[j]

\* Where nobody stalls, a worker owns its row until it has left its tools.
LeaseInv ==
  Stalls \/ \A w \in Worker :
    pc[w] \in BeforeReceipt
    => OwnsRow(w, Claimed) /\ (status[job[w]] \in Running => ~expired[job[w]])

IInv == TypeOK /\ RowInv /\ WorkerInv /\ ToolInv /\ StopInv /\ ResultInv /\ LeaseInv

-----------------------------------------------------------------------------
(* What the sources say and these steps do not keep; see the README *)

\* The test named above, whatever requests cross.
ResultMatchesTarget ==
  [][\A j \in Job : status[j] # "SUCCESS" /\ status'[j] = "SUCCESS" => TargetMatches(j)']_vars

\* "Used once by the worker for the clone, then removed from the stored
\* snapshot" (analysis_jobs.py:137), for every job that ended after it ran.
UsedSecretIsRemoved ==
  \A t \in started : status[issued[t]] \in Terminal => ~snapshot[issued[t]].secret

\* test_cancel_before_executor_needs_no_process_receipt: a job whose execution
\* never started does not wait for the receipt of one.
NoReceiptBeforeExecution ==
  \A j \in Job : flagged[j] => \E t \in started : issued[t] = j

-----------------------------------------------------------------------------
(* Liveness and refinement *)

\* Every queued job reaches a final status, or the flag that hands it to the
\* administrator; with crashes too, since the lease of a dead worker runs out.
EveryRequestSettles ==
  \A j \in Job : status[j] = "QUEUED" ~> (status[j] \in Terminal \/ flagged[j])

Phase(j) ==
  CASE status[j] = "ABSENT"           -> "unborn"
    [] status[j] = "QUEUED"           -> "waiting"
    [] status[j] \in Running          -> "working"
    [] status[j] = "CANCEL_REQUESTED" -> "stopping"
    [] status[j] = "SUCCESS"          -> "succeeded"
    [] status[j] = "FAILED"           -> "failed"
    [] status[j] = "CANCELLED"        -> "cancelled"

Lease == INSTANCE AssetLease WITH
  phase <- [j \in Job |-> Phase(j)],
  place <- asset,
  busy  <- {issued[t] : t \in {u \in Token : tools[u] # {}}}

\* The queue keeps the promise of AssetLease.
ImplementsLease == Lease!Spec

Life == INSTANCE ToolLife WITH
  Run <- Token,
  phase <- [t \in Token |->
              IF t \notin started THEN "new"
              ELSE IF \E w \in Worker : mine[w] = t /\ pc[w] \in {"run", "stop", "close"}
                THEN "open" ELSE "over"]

\* What this module says of the processes of its claims is what ToolLife says,
\* and ExecutorCleanup implements ToolLife with the steps of the code.
ImplementsLife == Life!Spec
=============================================================================
