------------------------- MODULE AnalysisJobsProofs -------------------------
(***************************************************************************)
(* Proofs about AnalysisJobs, for any number of assets, workers, requests, *)
(* claims and jobs.                                                        *)
(***************************************************************************)
EXTENDS AnalysisJobs, TLAPS

-----------------------------------------------------------------------------
(* Types *)

\* What the helpers shared by several handlers do to the types.
LEMMA RefusalType == \A w \in Worker : Refusal(w) \in {"cancel", "lost"}
  BY DEF Refusal

\* A worker that goes on keeps its types,
LEMMA ProceedType ==
  ASSUME WorkersTyped, NEW w \in Worker, NEW h \in {"ok", "cancel", "lost", "error"}, Proceed(w, h)
  PROVE  WorkersTyped'
<1>1. CASE h = "lost"
  BY <1>1 DEF Proceed, Rest, WorkersTyped
<1>2. CASE h # "lost"
  BY <1>2 DEF Proceed, WorkersTyped
<1> QED BY <1>1, <1>2

\* and so does one that rests.
LEMMA RestType == ASSUME WorkersTyped, NEW w \in Worker, Rest(w) PROVE WorkersTyped'
  BY DEF Rest, WorkersTyped

\* A worker that leaves its tools behind.
LEMMA AbandonType ==
  ASSUME ExecsTyped, NEW w \in Worker, Abandon(w), UNCHANGED <<issued, started, receipt>>,
         mine[w] \in Token
  PROVE  ExecsTyped'
<1>1. (tools[mine[w]] \ {"owned"}) \union {"orphan"} \in SUBSET {"owned", "orphan"}
  BY DEF ExecsTyped
<1> QED BY <1>1 DEF Abandon, ExecsTyped

\* A row that is settled keeps its type,
LEMMA SettleType ==
  ASSUME RowsTyped, NEW j, NEW final \in Terminal, Settle(j, final),
         UNCHANGED <<asset, snapshot, run>>
  PROVE  RowsTyped'
  BY DEF RowsTyped, Settle

\* and so does one whose cancellation is acknowledged,
LEMMA AcknowledgeType ==
  ASSUME RowsTyped, NEW j, NEW b \in BOOLEAN, Acknowledge(j, b),
         UNCHANGED <<asset, snapshot, run>>
  PROVE  RowsTyped'
<1>1. CASE Settle(j, "CANCELLED")
  BY <1>1, SettleType DEF Terminal
<1>2. CASE flagged' = [flagged EXCEPT ![j] = TRUE] /\ UNCHANGED <<status, active, token, expired>>
  BY <1>2 DEF RowsTyped
<1> QED BY <1>1, <1>2 DEF Acknowledge

\* and all that a recovery goes through.
LEMMA RecoverType ==
  ASSUME RowsTyped, NEW claim, NEW t \in Token \union {NoToken}, RecoverAndClaim(claim, t)
  PROVE  RowsTyped'
<1>1. status' \in [Job -> {"ABSENT"} \union Active \union Terminal]
  BY DEF RecoverAndClaim, RowsTyped, Active, Claimed, Running, Terminal
<1>2. /\ active' \in [Job -> Asset \union {NoAsset}]
      /\ token'  \in [Job -> Token \union {NoToken}]
  BY DEF RecoverAndClaim, RowsTyped
<1>3. /\ expired' \in [Job -> BOOLEAN]
      /\ flagged' \in [Job -> BOOLEAN]
  BY DEF RecoverAndClaim, RowsTyped
<1> QED BY <1>1, <1>2, <1>3 DEF RecoverAndClaim, RowsTyped

\* A snapshot without its secret is a snapshot.
LEMMA ScrubType ==
  ASSUME RowsTyped, NEW j
  PROVE  [snapshot EXCEPT ![j].secret = FALSE] \in [Job -> Snapshot]
<1>1. ASSUME NEW s \in Snapshot PROVE [s EXCEPT !.secret = FALSE] \in Snapshot
  BY DEF Snapshot
<1> QED BY <1>1 DEF RowsTyped

\* A step changes rows, workers and processes within their types.  A worker
\* that is not idle holds a token (WorkerInv), which the types alone do not say.
LEMMA TypeStep ==
  ASSUME TypeOK, WorkerInv, [Next]_vars PROVE TypeOK'
<1> USE ConstantsAssumption DEF TypeOK
<1>1. CASE UNCHANGED vars
  BY <1>1 DEF vars, rows, workers, execs, RowsTyped, WorkersTyped, ExecsTyped
<1>2. ASSUME NEW c \in Client, HandlerStep(c) PROVE TypeOK'
  <2>1. UNCHANGED <<workers, execs>>
    BY <1>2 DEF HandlerStep, ReadForEnqueue, CommitEnqueue, LoseEnqueue, ReadForUpdate, CommitUpdate
  <2>2. WorkersTyped' /\ ExecsTyped'
    BY <2>1 DEF workers, execs, WorkersTyped, ExecsTyped
  <2>3. CASE ReadForEnqueue(c)
    BY <2>2, <2>3 DEF ReadForEnqueue, Request, Snapshot, RowsTyped, rows
  <2>4. CASE CommitEnqueue(c)
    BY <2>2, <2>4 DEF CommitEnqueue, RowsTyped, Request, NoRequest, Active
  <2>5. CASE LoseEnqueue(c)
    BY <2>2, <2>5 DEF LoseEnqueue, RowsTyped, rows, Request, NoRequest
  <2>6. CASE ReadForUpdate(c)
    BY <2>2, <2>6 DEF ReadForUpdate, Rows, RowsTyped, rows, Request
  <2>7. CASE CommitUpdate(c)
    BY <2>2, <2>7 DEF CommitUpdate, RowsTyped, rows, Request, NoRequest
  <2> QED BY <1>2, <2>3, <2>4, <2>5, <2>6, <2>7 DEF HandlerStep
<1>3. ASSUME NEW j \in Job, CancelAnalysis(j) PROVE TypeOK'
  <2>1. WorkersTyped' /\ ExecsTyped' /\ UNCHANGED <<target, overtaken, request>>
    BY <1>3 DEF CancelAnalysis, workers, execs, WorkersTyped, ExecsTyped
  <2>2. RowsTyped'
    BY <1>3, SettleType DEF CancelAnalysis, RowsTyped, Active, Claimed, Terminal
  <2> QED BY <2>1, <2>2
<1>4. ASSUME NEW j \in Job, LeaseExpires(j) PROVE TypeOK'
  BY <1>4 DEF LeaseExpires, workers, execs, RowsTyped, WorkersTyped, ExecsTyped
<1>5. ASSUME NEW w \in Worker, WorkerStep(w) PROVE TypeOK'
  <2> USE DEF rows, workers, execs
  <2>1. CASE Claim(w) \/ RecoverOnly(w)
    <3>1. RowsTyped'
      BY <2>1, RecoverType DEF Claim, RecoverOnly
    <3>2. WorkersTyped' /\ ExecsTyped' /\ UNCHANGED <<target, overtaken, request>>
      BY <2>1 DEF Claim, RecoverOnly, RecoverAndClaim, Oldest, WorkersTyped, ExecsTyped
    <3> QED BY <3>1, <3>2
  <2>2. CASE CheckTarget(w)
    BY <2>2, ProceedType DEF CheckTarget, RowsTyped, WorkersTyped, ExecsTyped
  <2>3. CASE EnterExecution(w)
    <3>1. WorkersTyped' /\ UNCHANGED <<target, overtaken, request>>
      BY <2>3, ProceedType, RefusalType DEF EnterExecution, WorkersTyped
    <3>2. RowsTyped'
      BY <2>3 DEF EnterExecution, RecordStage, RowsTyped, Active, Claimed, Running
    <3>3. ExecsTyped'
      BY <2>3 DEF EnterExecution, WorkerInv, ExecsTyped
    <3> QED BY <3>1, <3>2, <3>3
  <2>4. CASE Heartbeat(w)
    BY <2>4 DEF Heartbeat, RecordStage, RowsTyped, WorkersTyped, ExecsTyped
  <2>5. CASE NextStage(w)
    BY <2>5 DEF NextStage, RecordStage, RowsTyped, WorkersTyped, ExecsTyped, Active, Claimed, Running
  <2>6. CASE StartTool(w)
    BY <2>6 DEF StartTool, RowsTyped, WorkersTyped, ExecsTyped
  <2>7. CASE ToolExits(w)
    BY <2>7 DEF ToolExits, RowsTyped, WorkersTyped, ExecsTyped
  <2>8. CASE HelperLost(w)
    BY <2>8, AbandonType DEF HelperLost, RowsTyped, WorkersTyped, WorkerInv
  <2>9. CASE CallbackRefused(w) \/ ExecutionFails(w)
    BY <2>9, RefusalType DEF CallbackRefused, ExecutionFails, AbortRun, RowsTyped, WorkersTyped, ExecsTyped
  <2>10. CASE StopTool(w)
    <3>1. RowsTyped' /\ WorkersTyped' /\ UNCHANGED <<target, overtaken, request>>
      BY <2>10 DEF StopTool, RowsTyped, WorkersTyped
    <3>2. CASE Abandon(w)
      BY <2>10, <3>1, <3>2, AbandonType DEF StopTool, WorkerInv
    <3>3. CASE tools' = [tools EXCEPT ![mine[w]] = @ \ {"owned"}] /\ UNCHANGED dirty
      BY <2>10, <3>1, <3>3 DEF StopTool, ExecsTyped
    <3> QED BY <2>10, <3>2, <3>3 DEF StopTool
  <2>11. CASE FinishRun(w)
    <3>1. RowsTyped' /\ ExecsTyped' /\ UNCHANGED <<target, overtaken, request>>
      BY <2>11 DEF FinishRun, RowsTyped, ExecsTyped
    <3>2. PICK h \in {how[w], "error"} :
             \/ Proceed(w, h)
             \/ pc' = [pc EXCEPT ![w] = "scrub"] /\ how' = [how EXCEPT ![w] = h] /\ UNCHANGED <<job, mine>>
      BY <2>11 DEF FinishRun
    <3>3. h \in {"ok", "cancel", "lost", "error"}
      BY DEF WorkersTyped
    <3>4. WorkersTyped'
      BY <3>2, <3>3, ProceedType DEF WorkersTyped
    <3> QED BY <3>1, <3>4
  <2>12. CASE FinalizeGitSnapshot(w)
    <3>1. ExecsTyped' /\ UNCHANGED <<target, overtaken, request>>
      BY <2>12 DEF FinalizeGitSnapshot, ExecsTyped
    <3>2. how[w] \in {"ok", "cancel", "lost", "error"}
      BY DEF WorkersTyped
    <3>3. WorkersTyped'
      BY <2>12, <3>2, ProceedType DEF FinalizeGitSnapshot
    <3>4. RowsTyped'
      BY <2>12, ScrubType DEF FinalizeGitSnapshot, RowsTyped
    <3> QED BY <3>1, <3>3, <3>4
  <2>13. CASE StoreStage(w)
    <3>1. WorkersTyped' /\ ExecsTyped' /\ UNCHANGED <<target, overtaken, request>>
      BY <2>13, ProceedType, RefusalType DEF StoreStage, WorkersTyped, ExecsTyped
    <3>2. RowsTyped'
      BY <2>13 DEF StoreStage, RecordStage, RowsTyped, Active, Claimed, Running
    <3> QED BY <3>1, <3>2
  <2>14. CASE BeginImport(w)
    BY <2>14, ProceedType, RefusalType DEF BeginImport, RowsTyped, WorkersTyped, ExecsTyped
  <2>15. CASE CommitImport(w)
    BY <2>15, RestType DEF CommitImport, Settle, RowsTyped, WorkersTyped, ExecsTyped, Terminal
  <2>16. CASE RejectImport(w)
    BY <2>16, ProceedType DEF RejectImport, RowsTyped, ExecsTyped
  <2>17. CASE FinishCancellation(w)
    <3>1. ExecsTyped' /\ UNCHANGED <<target, overtaken, request>>
      BY <2>17 DEF FinishCancellation, ExecsTyped
    <3>2. WorkersTyped'
      BY <2>17, RestType DEF FinishCancellation, WorkersTyped
    <3>3. RowsTyped'
      BY <2>17, AcknowledgeType DEF FinishCancellation, RowsTyped
    <3> QED BY <3>1, <3>2, <3>3
  <2>18. CASE FailJob(w)
    <3>1. WorkersTyped' /\ ExecsTyped' /\ UNCHANGED <<target, overtaken, request>>
      BY <2>18, RestType DEF FailJob, ExecsTyped
    <3>2. RowsTyped'
      BY <2>18, AcknowledgeType, SettleType DEF FailJob, RowsTyped, Terminal
    <3> QED BY <3>1, <3>2
  <2>19. CASE Crash(w)
    <3>1. RowsTyped' /\ WorkersTyped' /\ UNCHANGED <<target, overtaken, request>>
      BY <2>19, RestType DEF Crash, RowsTyped
    <3>2. ExecsTyped'
      BY <2>19 DEF Crash, Supervised, WorkerInv, ExecsTyped
    <3> QED BY <3>1, <3>2
  <2> QED BY <1>5, <2>1, <2>2, <2>3, <2>4, <2>5, <2>6, <2>7, <2>8, <2>9, <2>10, <2>11, <2>12,
             <2>13, <2>14, <2>15, <2>16, <2>17, <2>18, <2>19 DEF WorkerStep, ExecutorStep
<1>6. ASSUME NEW t \in Token, OrphanExits(t) PROVE TypeOK'
  BY <1>6 DEF OrphanExits, rows, workers, RowsTyped, WorkersTyped, ExecsTyped
<1> QED BY <1>1, <1>2, <1>3, <1>4, <1>5, <1>6 DEF Next

-----------------------------------------------------------------------------
(* What one step may do to one row *)

\* The row keeps everything the invariants read, except the snapshot.
Stays(j) ==
  /\ status'[j] = status[j] /\ asset'[j] = asset[j] /\ active'[j] = active[j]
  /\ token'[j] = token[j] /\ run'[j] = run[j]
  /\ expired'[j] => expired[j] \/ status[j] \in Claimed

Enqueued(j) ==
  /\ status[j] = "ABSENT" /\ status'[j] = "QUEUED"
  /\ asset'[j] \in Asset /\ active'[j] = asset'[j]
  /\ token'[j] = token[j] /\ run'[j] = run[j] /\ expired'[j] = expired[j]
  /\ \A k \in Job : active[k] # asset'[j] /\ (k # j => active'[k] = active[k])

ClaimedNow(j) ==
  /\ status[j] = "QUEUED" /\ status'[j] = "COLLECTING"
  /\ asset'[j] = asset[j] /\ active'[j] = active[j] /\ run'[j] = run[j]
  /\ expired'[j] = expired[j]
  /\ token'[j] \in Token /\ issued'[token'[j]] = j

Moved(j) ==
  /\ status[j] \in Running /\ status'[j] \in Claimed
  /\ asset'[j] = asset[j] /\ active'[j] = active[j] /\ token'[j] = token[j] /\ run'[j] = run[j]

Settled(j) ==
  /\ \/ status[j] \in {"QUEUED", "CANCEL_REQUESTED"} /\ status'[j] = "CANCELLED" /\ run'[j] = run[j]
     \/ status[j] \in Running /\ status'[j] = "FAILED" /\ run'[j] = run[j]
     \/ status[j] \in Running /\ status'[j] = "SUCCESS" /\ run'[j] = token[j]
  /\ asset'[j] = asset[j] /\ active'[j] = NoAsset /\ token'[j] = NoToken /\ ~expired'[j]

RowEdge(j) == Stays(j) \/ Enqueued(j) \/ ClaimedNow(j) \/ Moved(j) \/ Settled(j)

\* Settle moves one live row and leaves the others alone.
LEMMA SettleEdge ==
  ASSUME TypeOK, NEW j \in Job, NEW final, Settle(j, final), UNCHANGED <<asset, run>>,
         \/ status[j] \in {"QUEUED", "CANCEL_REQUESTED"} /\ final = "CANCELLED"
         \/ status[j] \in Running /\ final = "FAILED"
  PROVE  \A k \in Job : RowEdge(k)
  BY DEF Settle, RowEdge, Stays, Settled, TypeOK, RowsTyped

\* An acknowledgement goes along an edge of the row.
LEMMA AcknowledgeEdge ==
  ASSUME TypeOK, NEW j \in Job, NEW b \in BOOLEAN, Acknowledge(j, b), UNCHANGED <<asset, run>>,
         status[j] = "CANCEL_REQUESTED"
  PROVE  \A k \in Job : RowEdge(k)
  BY SettleEdge DEF Acknowledge, RowEdge, Stays

\* So does a stage that is recorded,
LEMMA RecordStageEdge ==
  ASSUME TypeOK, NEW w \in Worker, NEW stage \in Running, RecordStage(w, stage),
         UNCHANGED <<asset, active, token, run>>
  PROVE  \A k \in Job : RowEdge(k)
  BY DEF RecordStage, MayRun, OwnsRow, RowEdge, Stays, Moved, Claimed, TypeOK, RowsTyped

\* and a recovery with the claim behind it.
LEMMA RecoverEdge ==
  ASSUME TypeOK, RowInv, NEW claim \in SUBSET Job, NEW t, RecoverAndClaim(claim, t),
         \A j \in claim : status[j] = "QUEUED" /\ t \in Token /\ issued'[t] = j
  PROVE  \A k \in Job : RowEdge(k)
<1> SUFFICES ASSUME NEW k \in Job PROVE RowEdge(k)
  OBVIOUS
<1> USE DEF RecoverAndClaim, TypeOK, RowsTyped
<1>1. CASE k \in Interrupted
  <2>1. status[k] \in Running /\ k \in Interrupted \union Cleaned
    BY <1>1 DEF Interrupted
  <2>2. status'[k] = "FAILED" /\ active'[k] = NoAsset /\ token'[k] = NoToken
    BY <1>1, <2>1 DEF Interrupted, Cleaned, StaleCancel, Running
  <2>3. ~expired'[k]
    BY <2>1
  <2> QED BY <2>1, <2>2, <2>3 DEF RowEdge, Settled
<1>2. CASE k \in Cleaned
  BY <1>2 DEF Interrupted, Cleaned, StaleCancel, Running, RowEdge, Settled
<1>3. CASE k \in claim
  BY <1>3 DEF Interrupted, Cleaned, StaleCancel, Running, RowEdge, ClaimedNow
<1>4. CASE k \notin Interrupted \union Cleaned \union claim
  BY <1>4 DEF RowEdge, Stays
<1> QED BY <1>1, <1>2, <1>3, <1>4

\* Rows change only along these edges, whoever takes the step.
LEMMA RowEdges ==
  ASSUME TypeOK, RowInv, WorkerInv, [Next]_vars
  PROVE  \A j \in Job : RowEdge(j)
<1>0. ASSUME UNCHANGED <<status, asset, active, token, run, expired>> PROVE \A j \in Job : RowEdge(j)
  BY <1>0 DEF RowEdge, Stays
<1>1. CASE UNCHANGED vars
  BY <1>0, <1>1 DEF vars, rows
<1>2. ASSUME NEW c \in Client, HandlerStep(c) PROVE \A j \in Job : RowEdge(j)
  <2>1. CASE CommitEnqueue(c)
    BY <2>1 DEF CommitEnqueue, IsNextId, Request, RowEdge, Stays, Enqueued, TypeOK, RowsTyped
  <2>2. CASE ~CommitEnqueue(c)
    BY <1>0, <1>2, <2>2 DEF HandlerStep, ReadForEnqueue, LoseEnqueue, ReadForUpdate, CommitUpdate, rows
  <2> QED BY <2>1, <2>2
<1>3. ASSUME NEW k \in Job, CancelAnalysis(k) PROVE \A j \in Job : RowEdge(j)
  <2>1. CASE Settle(k, "CANCELLED") /\ status[k] = "QUEUED"
    BY <1>3, <2>1, SettleEdge DEF CancelAnalysis
  <2>2. CASE status[k] \in Running /\ UNCHANGED <<active, token, expired>>
             /\ status' = [status EXCEPT ![k] = "CANCEL_REQUESTED"]
    BY <1>3, <2>2 DEF CancelAnalysis, RowEdge, Stays, Moved, Claimed, TypeOK, RowsTyped
  <2> QED BY <1>3, <2>1, <2>2 DEF CancelAnalysis
<1>4. ASSUME NEW k \in Job, LeaseExpires(k) PROVE \A j \in Job : RowEdge(j)
  BY <1>4 DEF LeaseExpires, RowEdge, Stays, TypeOK, RowsTyped
<1>5. ASSUME NEW w \in Worker, WorkerStep(w) PROVE \A j \in Job : RowEdge(j)
  <2>1. CASE Claim(w)
    <3>1. PICK k \in Oldest, t \in Token : RecoverAndClaim({k}, t) /\ issued' = [issued EXCEPT ![t] = k]
      BY <2>1 DEF Claim
    <3>2. k \in Job /\ status[k] = "QUEUED" /\ issued'[t] = k
      BY <3>1 DEF Oldest, TypeOK, ExecsTyped
    <3> QED BY <3>1, <3>2, RecoverEdge
  <2>2. CASE RecoverOnly(w)
    BY <2>2, RecoverEdge DEF RecoverOnly
  <2>3. CASE EnterExecution(w)
    BY <2>3, <1>0, RecordStageEdge DEF EnterExecution, Running
  <2>4. CASE Heartbeat(w)
    BY <2>4, RecordStageEdge DEF Heartbeat, RecordStage, MayRun, OwnsRow
  <2>5. CASE NextStage(w)
    BY <2>5, RecordStageEdge DEF NextStage, Running
  <2>6. CASE FinalizeGitSnapshot(w)
    BY <2>6, <1>0 DEF FinalizeGitSnapshot
  <2>7. CASE StoreStage(w)
    BY <2>7, <1>0, RecordStageEdge DEF StoreStage, Running
  <2>8. CASE CommitImport(w)
    <3>1. job[w] \in Job /\ status[job[w]] \in Running /\ token[job[w]] = mine[w]
      BY <2>8 DEF CommitImport, WorkerInv, OwnsRow
    <3> QED BY <2>8, <3>1 DEF CommitImport, Settle, RowEdge, Stays, Settled, TypeOK, RowsTyped
  <2>9. CASE FinishCancellation(w)
    <3>1. job[w] \in Job
      BY <2>9 DEF FinishCancellation, WorkerInv
    <3> QED BY <2>9, <3>1, <1>0, AcknowledgeEdge DEF FinishCancellation, OwnsRow
  <2>10. CASE FailJob(w)
    <3>1. job[w] \in Job
      BY <2>10 DEF FailJob, WorkerInv
    <3> QED BY <2>10, <3>1, <1>0, AcknowledgeEdge, SettleEdge DEF FailJob, MayRun, OwnsRow
  <2>11. CASE \/ CheckTarget(w) \/ StartTool(w) \/ ToolExits(w) \/ HelperLost(w)
              \/ CallbackRefused(w) \/ ExecutionFails(w) \/ StopTool(w) \/ FinishRun(w)
              \/ BeginImport(w) \/ RejectImport(w) \/ Crash(w)
    BY <2>11, <1>0 DEF CheckTarget, StartTool, ToolExits, HelperLost, CallbackRefused, ExecutionFails,
         AbortRun, StopTool, FinishRun, BeginImport, RejectImport, Crash, rows
  <2> QED BY <1>5, <2>1, <2>2, <2>3, <2>4, <2>5, <2>6, <2>7, <2>8, <2>9, <2>10, <2>11
          DEF WorkerStep, ExecutorStep
<1>6. ASSUME NEW t \in Token, OrphanExits(t) PROVE \A j \in Job : RowEdge(j)
  BY <1>0, <1>6 DEF OrphanExits, rows
<1> QED BY <1>1, <1>2, <1>3, <1>4, <1>5, <1>6 DEF Next

\* A token is drawn once, for a row that was queued.
IssuedEdge(t) ==
  \/ issued'[t] = issued[t]
  \/ /\ issued[t] = 0 /\ issued'[t] \in Job
     /\ status[issued'[t]] = "QUEUED" /\ status'[issued'[t]] = "COLLECTING"
     /\ token'[issued'[t]] = t

\* A token is drawn once, for one job.
LEMMA IssuedEdges ==
  ASSUME TypeOK, RowInv, [Next]_vars
  PROVE  \A t \in Token : IssuedEdge(t)
<1>1. ASSUME NEW w \in Worker, Claim(w) PROVE \A t \in Token : IssuedEdge(t)
  <2>1. PICK j \in Oldest, u \in Token :
          RecoverAndClaim({j}, u) /\ issued' = [issued EXCEPT ![u] = j] /\ issued[u] = 0
    BY <1>1 DEF Claim
  <2>2. j \in Job /\ status[j] = "QUEUED"
    BY <2>1 DEF Oldest
  <2>3. status'[j] = "COLLECTING" /\ token'[j] = u
    BY <2>1, <2>2 DEF RecoverAndClaim, Interrupted, Cleaned, StaleCancel, Running, TypeOK, RowsTyped
  <2> QED BY <2>1, <2>2, <2>3 DEF IssuedEdge, TypeOK, ExecsTyped
<1>2. ASSUME UNCHANGED issued PROVE \A t \in Token : IssuedEdge(t)
  BY <1>2 DEF IssuedEdge
<1>3. CASE UNCHANGED vars
  BY <1>2, <1>3 DEF vars, execs
<1>4. ASSUME NEW c \in Client, HandlerStep(c) PROVE UNCHANGED issued
  BY <1>4 DEF HandlerStep, ReadForEnqueue, CommitEnqueue, LoseEnqueue, ReadForUpdate, CommitUpdate, execs
<1>5. ASSUME NEW j \in Job, CancelAnalysis(j) \/ LeaseExpires(j) PROVE UNCHANGED issued
  BY <1>5 DEF CancelAnalysis, LeaseExpires, execs
<1>6. ASSUME NEW w \in Worker, WorkerStep(w), ~Claim(w) PROVE UNCHANGED issued
  BY <1>6 DEF WorkerStep, ExecutorStep, RecoverOnly, CheckTarget, EnterExecution, Heartbeat, NextStage,
       StartTool, ToolExits, HelperLost, CallbackRefused, ExecutionFails, AbortRun, StopTool, FinishRun,
       FinalizeGitSnapshot, StoreStage, BeginImport, CommitImport, RejectImport, FinishCancellation,
       FailJob, Crash, execs
<1>7. ASSUME NEW t \in Token, OrphanExits(t) PROVE UNCHANGED issued
  BY <1>7 DEF OrphanExits
<1> QED BY <1>1, <1>2, <1>3, <1>4, <1>5, <1>6, <1>7 DEF Next

\* The columns of a row follow its status, active_asset_id is unique and a job
\* is claimed at most once: kept by every step.
LEMMA RowStep ==
  ASSUME TypeOK, RowInv, WorkerInv, TypeOK', [Next]_vars
  PROVE  RowInv'
<1>1. \A j \in Job : RowEdge(j)
  BY RowEdges
<1>2. \A t \in Token : IssuedEdge(t)
  BY IssuedEdges
<1> USE ConstantsAssumption DEF Running, Claimed, Active
<1>3. 0 \notin Job
  BY DEF Job
<1>4. ASSUME NEW j \in Job
      PROVE  /\ active'[j] = (IF status'[j] \in Active THEN asset'[j] ELSE NoAsset)
             /\ status'[j] \in Active => asset'[j] \in Asset
             /\ token'[j] # NoToken <=> status'[j] \in Claimed
             /\ expired'[j] => status'[j] \in Claimed
  BY <1>1, <1>4 DEF RowEdge, Stays, Enqueued, ClaimedNow, Moved, Settled, RowInv, TypeOK, RowsTyped
<1>5. ASSUME NEW j \in Job, token'[j] # NoToken PROVE issued'[token'[j]] = j
  <2>1. CASE ClaimedNow(j)
    BY <2>1 DEF ClaimedNow
  <2>2. CASE token'[j] = token[j]
    <3>1. token[j] \in Token /\ issued[token[j]] = j
      BY <1>5, <2>2 DEF RowInv, TypeOK, RowsTyped
    <3> QED BY <1>2, <1>3, <2>2, <3>1 DEF IssuedEdge
  <2> QED BY <1>1, <1>5, <2>1, <2>2 DEF RowEdge, Stays, Enqueued, Moved, Settled
<1>6. ASSUME NEW j \in Job, NEW k \in Job, active'[j] = active'[k], active'[j] # NoAsset PROVE j = k
  <2>1. ASSUME NEW i \in Job PROVE active'[i] \in {active[i], NoAsset} \/ Enqueued(i)
    BY <1>1 DEF RowEdge, Stays, ClaimedNow, Moved, Settled
  <2>2. CASE Enqueued(j) \/ Enqueued(k)
    BY <1>6, <2>1, <2>2 DEF Enqueued
  <2>3. CASE ~Enqueued(j) /\ ~Enqueued(k)
    BY <1>6, <2>1, <2>3 DEF RowInv
  <2> QED BY <2>2, <2>3
<1>7. ASSUME NEW t \in Token, issued'[t] # 0 PROVE status'[issued'[t]] \notin {"ABSENT", "QUEUED"}
  <2>1. CASE issued'[t] = issued[t]
    <3>1. issued[t] \in Job /\ status[issued[t]] \notin {"ABSENT", "QUEUED"}
      BY <1>7, <2>1 DEF RowInv, TypeOK, ExecsTyped
    <3> QED BY <1>1, <2>1, <3>1 DEF RowEdge, Stays, Enqueued, ClaimedNow, Moved, Settled
  <2>2. CASE issued'[t] # issued[t]
    BY <1>2, <2>2 DEF IssuedEdge
  <2> QED BY <2>1, <2>2
<1>8. ASSUME NEW t \in Token, NEW u \in Token, issued'[t] = issued'[u], issued'[t] # 0 PROVE t = u
  BY <1>2, <1>8 DEF IssuedEdge, RowInv
<1> QED BY <1>4, <1>5, <1>6, <1>7, <1>8 DEF RowInv

-----------------------------------------------------------------------------
(* What one step may do to one worker *)

Claims(w) ==
  /\ pc[w] = "idle" /\ pc'[w] = "check"
  /\ mine'[w] \in Token /\ issued[mine'[w]] = 0
  /\ job'[w] \in Job /\ issued'[mine'[w]] = job'[w]
  /\ \A v \in Worker : v # w => mine'[v] = mine[v]

Rests(w) == pc'[w] = "idle" /\ mine'[w] = NoToken

Goes(w) ==
  /\ job'[w] = job[w] /\ mine'[w] = mine[w]
  /\ pc[w] = "idle" <=> pc'[w] = "idle"
  /\ pc'[w] = "commit" /\ pc[w] # "commit" => MayRun(w) /\ UNCHANGED rows

WorkerEdge(w) == Claims(w) \/ Rests(w) \/ Goes(w)

\* What a worker may do next: it goes on,
LEMMA ProceedEdge ==
  ASSUME WorkersTyped, NEW w \in Worker, NEW h, Proceed(w, h), pc[w] # "idle"
  PROVE  \A v \in Worker : WorkerEdge(v)
  BY DEF Proceed, Rest, WorkersTyped, WorkerEdge, Rests, Goes

\* it rests,
LEMMA RestEdge ==
  ASSUME WorkersTyped, NEW w \in Worker, Rest(w)
  PROVE  \A v \in Worker : WorkerEdge(v)
  BY DEF Rest, WorkersTyped, WorkerEdge, Rests, Goes

\* or it moves to another step with the same job.
LEMMA GoEdge ==
  ASSUME WorkersTyped, NEW w \in Worker, UNCHANGED <<job, mine>>, pc[w] # "idle",
         NEW next, pc' = [pc EXCEPT ![w] = next], next \notin {"idle", "commit"}
  PROVE  \A v \in Worker : WorkerEdge(v)
  BY DEF WorkersTyped, WorkerEdge, Goes

\* Every step moves every worker along these edges.
LEMMA WorkerEdges ==
  ASSUME TypeOK, RowInv, WorkerInv, [Next]_vars
  PROVE  \A v \in Worker : WorkerEdge(v)
<1> USE DEF TypeOK
<1>0. ASSUME UNCHANGED <<pc, job, mine>> PROVE \A v \in Worker : WorkerEdge(v)
  BY <1>0 DEF WorkerEdge, Goes
<1>1. CASE UNCHANGED vars
  BY <1>0, <1>1 DEF vars, workers
<1>2. ASSUME NEW c \in Client, HandlerStep(c) PROVE \A v \in Worker : WorkerEdge(v)
  BY <1>0, <1>2 DEF HandlerStep, ReadForEnqueue, CommitEnqueue, LoseEnqueue, ReadForUpdate, CommitUpdate, workers
<1>3. ASSUME NEW j \in Job, CancelAnalysis(j) \/ LeaseExpires(j) PROVE \A v \in Worker : WorkerEdge(v)
  BY <1>0, <1>3 DEF CancelAnalysis, LeaseExpires, workers
<1>4. ASSUME NEW t \in Token, OrphanExits(t) PROVE \A v \in Worker : WorkerEdge(v)
  BY <1>0, <1>4 DEF OrphanExits, workers
<1>5. ASSUME NEW w \in Worker, WorkerStep(w) PROVE \A v \in Worker : WorkerEdge(v)
  <2>1. CASE Claim(w)
    BY <2>1 DEF Claim, Oldest, WorkersTyped, ExecsTyped, WorkerEdge, Claims, Goes
  <2>2. CASE \/ RecoverOnly(w) \/ Heartbeat(w) \/ StartTool(w) \/ ToolExits(w) \/ HelperLost(w)
    BY <1>0, <2>2 DEF RecoverOnly, Heartbeat, StartTool, ToolExits, HelperLost, workers
  <2>3. CASE CheckTarget(w) \/ EnterExecution(w) \/ StoreStage(w)
    BY <2>3, GoEdge, ProceedEdge DEF CheckTarget, EnterExecution, StoreStage
  <2>4. CASE NextStage(w)
    BY <1>0, <2>4, GoEdge DEF NextStage
  <2>5. CASE CallbackRefused(w) \/ ExecutionFails(w) \/ StopTool(w)
    BY <2>5, GoEdge DEF CallbackRefused, ExecutionFails, AbortRun, StopTool
  <2>6. CASE FinishRun(w)
    BY <2>6, GoEdge, ProceedEdge DEF FinishRun
  <2>7. CASE FinalizeGitSnapshot(w) \/ RejectImport(w)
    BY <2>7, ProceedEdge DEF FinalizeGitSnapshot, RejectImport
  <2>8. CASE BeginImport(w)
    <3>1. CASE MayRun(w) /\ pc' = [pc EXCEPT ![w] = "commit"] /\ UNCHANGED <<job, mine, how>>
      BY <2>8, <3>1 DEF BeginImport, WorkersTyped, WorkerEdge, Goes
    <3> QED BY <2>8, <3>1, ProceedEdge DEF BeginImport
  <2>9. CASE CommitImport(w) \/ FailJob(w) \/ Crash(w)
    BY <2>9, RestEdge DEF CommitImport, FailJob, Crash
  <2>10. CASE FinishCancellation(w)
    BY <2>10, RestEdge, GoEdge DEF FinishCancellation
  <2> QED BY <1>5, <2>1, <2>2, <2>3, <2>4, <2>5, <2>6, <2>7, <2>8, <2>9, <2>10
          DEF WorkerStep, ExecutorStep
<1> QED BY <1>1, <1>2, <1>3, <1>4, <1>5 DEF Next

\* Nobody else touches a row that an import transaction holds.
LEMMA LockHolds ==
  ASSUME TypeOK, RowInv, WorkerInv, [Next]_vars,
         NEW w \in Worker, pc[w] = "commit", pc'[w] = "commit"
  PROVE  /\ status'[job[w]] \in Running
         /\ token'[job[w]] = mine[w]
<1> DEFINE k == job[w]
<1>1. /\ k \in Job /\ mine[w] \in Token
      /\ status[k] \in Running /\ token[k] = mine[w] /\ Locked(k)
  BY DEF WorkerInv, OwnsRow, Locked
<1> HIDE DEF k
<1>2. ASSUME RowEdge(k), ~Settled(k), status'[k] # "CANCEL_REQUESTED"
      PROVE  status'[k] \in Running /\ token'[k] = mine[w]
  BY <1>1, <1>2 DEF RowEdge, Stays, Enqueued, ClaimedNow, Moved, Running, Claimed
<1>3. RowEdge(k)
  BY <1>1, RowEdges
<1>4. ASSUME status'[k] = status[k] PROVE status'[k] \in Running /\ token'[k] = mine[w]
  BY <1>1, <1>2, <1>3, <1>4 DEF Settled, Running
<1>5. CASE UNCHANGED status
  BY <1>4, <1>5 DEF k
<1>6. ASSUME NEW c \in Client, HandlerStep(c) PROVE status'[k] = status[k]
  BY <1>1, <1>6 DEF HandlerStep, ReadForEnqueue, CommitEnqueue, LoseEnqueue, ReadForUpdate, CommitUpdate,
       rows, IsNextId, Running, TypeOK, RowsTyped
<1>7. ASSUME NEW j \in Job, CancelAnalysis(j) PROVE status'[k] = status[k]
  BY <1>1, <1>7 DEF CancelAnalysis, Settle, TypeOK, RowsTyped
<1>8. ASSUME NEW v \in Worker, WorkerStep(v), ~UNCHANGED status
      PROVE  \/ status'[k] = status[k]
             \/ status'[k] \in Running /\ token'[k] = mine[w]
  <2>1. CASE Claim(v) \/ RecoverOnly(v)
    <3>1. ASSUME NEW claim \in SUBSET Job, NEW t, RecoverAndClaim(claim, t),
                 \A j \in claim : status[j] = "QUEUED"
          PROVE  status'[k] = status[k]
      BY <1>1, <3>1 DEF RecoverAndClaim, Cleaned, StaleCancel, Running
    <3>2. CASE Claim(v)
      BY <3>1, <3>2 DEF Claim, Oldest
    <3>3. CASE RecoverOnly(v)
      BY <3>1, <3>3 DEF RecoverOnly
    <3> QED BY <2>1, <3>2, <3>3
  <2>2. ASSUME NEW stage \in Running, RecordStage(v, stage), UNCHANGED token
        PROVE  status'[k] \in Running /\ token'[k] = mine[w]
    BY <1>1, <2>2 DEF RecordStage, TypeOK, RowsTyped
  <2>3. CASE EnterExecution(v) \/ Heartbeat(v) \/ NextStage(v) \/ StoreStage(v)
    <3>1. UNCHANGED token /\ \E stage \in Running : RecordStage(v, stage)
      BY <1>8, <2>3 DEF EnterExecution, Heartbeat, NextStage, StoreStage, RecordStage, MayRun, OwnsRow, Running
    <3> QED BY <2>2, <3>1
  <2>4. ASSUME job[v] = k, token[k] = mine[v] PROVE v = w
    BY <1>1, <2>4, ConstantsAssumption DEF WorkerInv
  <2>5. CASE CommitImport(v)
    <3>1. v # w
      BY <2>5 DEF CommitImport, Rest, TypeOK, WorkersTyped
    <3>2. job[v] # k
      BY <2>4, <2>5, <3>1 DEF CommitImport, WorkerInv, OwnsRow
    <3> QED BY <1>1, <2>5, <3>2 DEF CommitImport, Settle, TypeOK, RowsTyped
  <2>6. CASE FinishCancellation(v) \/ FailJob(v)
    <3>1. v # w
      BY <2>6 DEF FinishCancellation, FailJob
    <3>2. OwnsRow(v, {"CANCEL_REQUESTED"}) \/ MayRun(v)
      BY <1>8, <2>6 DEF FinishCancellation, FailJob
    <3>3. job[v] # k
      BY <2>4, <3>1, <3>2 DEF MayRun, OwnsRow
    <3> QED BY <1>1, <2>6, <3>3 DEF FinishCancellation, FailJob, Acknowledge, Settle, TypeOK, RowsTyped
  <2> QED BY <1>8, <2>1, <2>3, <2>5, <2>6 DEF WorkerStep, ExecutorStep, CheckTarget, StartTool, ToolExits,
          HelperLost, CallbackRefused, ExecutionFails, AbortRun, StopTool, FinishRun, FinalizeGitSnapshot,
          BeginImport, RejectImport, Crash, rows
<1> QED BY <1>4, <1>5, <1>6, <1>7, <1>8 DEF Next, vars, rows, LeaseExpires, OrphanExits, k

\* Workers keep a token of their own and the row of an open import.
LEMMA WorkersStep ==
  ASSUME TypeOK, RowInv, WorkerInv, TypeOK', [Next]_vars
  PROVE  WorkerInv'
<1>1. \A w \in Worker : WorkerEdge(w)
  BY WorkerEdges
<1>2. \A t \in Token : IssuedEdge(t)
  BY IssuedEdges
<1> USE ConstantsAssumption
<1>3. 0 \notin Job
  BY DEF Job
<1>4. ASSUME NEW w \in Worker
      PROVE  /\ pc'[w] = "idle" => mine'[w] = NoToken
             /\ pc'[w] # "idle" => mine'[w] \in Token /\ job'[w] \in Job /\ issued'[mine'[w]] = job'[w]
  BY <1>1, <1>2, <1>3 DEF WorkerEdge, Claims, Rests, Goes, IssuedEdge, WorkerInv
<1>5. ASSUME NEW w \in Worker, pc'[w] = "commit" PROVE OwnsRow(w, Running)'
  <2>1. Goes(w)
    BY <1>1, <1>5 DEF WorkerEdge, Claims, Rests
  <2>2. CASE pc[w] = "commit"
    BY <1>5, <2>1, <2>2, LockHolds DEF Goes, OwnsRow
  <2>3. CASE pc[w] # "commit"
    BY <1>5, <2>1, <2>3 DEF Goes, MayRun, OwnsRow, rows
  <2> QED BY <2>2, <2>3
<1>6. ASSUME NEW v \in Worker, NEW w \in Worker, mine'[v] = mine'[w], mine'[v] # NoToken PROVE v = w
  <2>1. ASSUME NEW x \in Worker, mine[x] # NoToken PROVE mine[x] \in Token /\ issued[mine[x]] # 0
    BY <1>3, <2>1 DEF WorkerInv
  <2>2. CASE Claims(v) \/ Claims(w)
    BY <1>6, <2>1, <2>2 DEF Claims
  <2>3. CASE ~Claims(v) /\ ~Claims(w)
    BY <1>1, <1>6, <2>3 DEF WorkerEdge, Rests, Goes, WorkerInv
  <2> QED BY <2>2, <2>3
<1> QED BY <1>4, <1>5, <1>6 DEF WorkerInv

-----------------------------------------------------------------------------
(* Processes *)

\* Steps that leave the processes and the workers alone.
LEMMA Bystanders ==
  ASSUME Next
  PROVE  \/ UNCHANGED <<workers, execs>>
         \/ \E w \in Worker : WorkerStep(w) /\ ~RecoverOnly(w) /\ ~Heartbeat(w)
         \/ \E t \in Token : OrphanExits(t)
<1>1. ASSUME NEW c \in Client, HandlerStep(c) PROVE UNCHANGED <<workers, execs>>
  BY <1>1 DEF HandlerStep, ReadForEnqueue, CommitEnqueue, LoseEnqueue, ReadForUpdate, CommitUpdate
<1>2. ASSUME NEW j \in Job, CancelAnalysis(j) \/ LeaseExpires(j) PROVE UNCHANGED <<workers, execs>>
  BY <1>2 DEF CancelAnalysis, LeaseExpires
<1>3. ASSUME NEW w \in Worker, RecoverOnly(w) \/ Heartbeat(w) PROVE UNCHANGED <<workers, execs>>
  BY <1>3 DEF RecoverOnly, Heartbeat
<1> QED BY <1>1, <1>2, <1>3 DEF Next

\* A worker that is not idle has a token, and only it has that token.
LEMMA OwnToken ==
  ASSUME WorkerInv, NEW w \in Worker, pc[w] # "idle"
  PROVE  /\ mine[w] \in Token /\ mine[w] # NoToken /\ job[w] \in Job /\ issued[mine[w]] = job[w]
         /\ \A v \in Worker : mine[v] = mine[w] => v = w
  BY ConstantsAssumption DEF WorkerInv

\* Every process keeps a claim, and a supervised one its worker.
LEMMA ToolStep ==
  ASSUME TypeOK, RowInv, WorkerInv, ToolInv, [Next]_vars
  PROVE  ToolInv'
<1> USE DEF TypeOK, WorkersTyped, ExecsTyped, ToolInv
<1>1. CASE UNCHANGED <<workers, execs>>
  BY <1>1 DEF workers, execs
<1>2. ASSUME NEW t \in Token, OrphanExits(t) PROVE ToolInv'
  BY <1>2 DEF OrphanExits, workers
<1>3. ASSUME NEW w \in Worker, WorkerStep(w), ~RecoverOnly(w), ~Heartbeat(w) PROVE ToolInv'
  <2>1. CASE Claim(w)
    BY <2>1, ConstantsAssumption DEF Claim, WorkerInv, Job
  <2> SUFFICES ASSUME pc[w] # "idle" PROVE ToolInv'
    BY <1>3, <2>1 DEF WorkerStep, ExecutorStep, CheckTarget, EnterExecution, NextStage, StartTool, ToolExits,
         HelperLost, CallbackRefused, ExecutionFails, AbortRun, StopTool, FinishRun, FinalizeGitSnapshot,
         StoreStage, BeginImport, CommitImport, RejectImport, FinishCancellation, FailJob, Crash
  <2>2. /\ mine[w] \in Token
        /\ \A v \in Worker : mine[v] = mine[w] => v = w
    BY OwnToken
  <2>3. ASSUME UNCHANGED execs, Rest(w), pc[w] \notin {"run", "stop"} PROVE ToolInv'
    BY <2>2, <2>3, ConstantsAssumption DEF Rest, execs
  <2>4. ASSUME UNCHANGED execs, NEW h, Proceed(w, h), pc[w] \notin {"run", "stop"},
               h = "ok" => mine[w] \in started
        PROVE  ToolInv'
    BY <2>2, <2>3, <2>4 DEF Proceed, execs
  <2>5. CASE CheckTarget(w)
    BY <2>4, <2>5 DEF CheckTarget, execs
  <2>6. CASE EnterExecution(w)
    <3>1. CASE ~MayRun(w)
      BY <2>4, <2>6, <3>1 DEF EnterExecution, RecordStage, Refusal, execs
    <3>2. CASE MayRun(w)
      <4>1. pc[w] = "enter" /\ pc' = [pc EXCEPT ![w] = "run"] /\ started' = started \union {mine[w]}
            /\ UNCHANGED <<job, mine, how, issued, tools, dirty, receipt>>
        BY <2>6, <3>2 DEF EnterExecution
      <4>2. issued[mine[w]] # 0
        BY OwnToken, ConstantsAssumption DEF Job
      <4> QED BY <2>2, <4>1, <4>2
    <3> QED BY <3>1, <3>2
  <2>7. CASE NextStage(w)
    BY <2>2, <2>7 DEF NextStage, Supervised, execs
  <2>8. CASE StartTool(w)
    BY <2>2, <2>8 DEF StartTool, workers
  <2>9. CASE ToolExits(w)
    BY <2>2, <2>9 DEF ToolExits, workers
  <2>10. CASE HelperLost(w)
    BY <2>2, <2>10 DEF HelperLost, Abandon, workers
  <2>11. CASE CallbackRefused(w) \/ ExecutionFails(w)
    BY <2>2, <2>11 DEF CallbackRefused, ExecutionFails, AbortRun, Supervised, execs
  <2>12. CASE StopTool(w)
    BY <2>2, <2>12 DEF StopTool, Abandon
  <2>13. CASE FinishRun(w)
    BY <2>2, <2>13, ConstantsAssumption DEF FinishRun, Proceed, Rest
  <2>14. CASE FinalizeGitSnapshot(w)
    BY <2>4, <2>14 DEF FinalizeGitSnapshot
  <2>15. CASE StoreStage(w)
    BY <2>2, <2>4, <2>15 DEF StoreStage, Refusal, execs
  <2>16. CASE BeginImport(w)
    BY <2>2, <2>4, <2>16 DEF BeginImport, Refusal, execs
  <2>17. CASE CommitImport(w) \/ FailJob(w)
    BY <2>3, <2>17 DEF CommitImport, FailJob
  <2>18. CASE RejectImport(w)
    BY <2>4, <2>18 DEF RejectImport
  <2>19. CASE FinishCancellation(w)
    BY <2>2, <2>3, <2>19 DEF FinishCancellation, execs
  <2>20. CASE Crash(w)
    BY <2>2, <2>20, ConstantsAssumption DEF Crash, Rest, Supervised
  <2> QED BY <1>3, <2>1, <2>5, <2>6, <2>7, <2>8, <2>9, <2>10, <2>11, <2>12, <2>13, <2>14, <2>15, <2>16,
             <2>17, <2>18, <2>19, <2>20 DEF WorkerStep, ExecutorStep
<1> QED BY <1>1, <1>2, <1>3, Bystanders DEF vars

\* Processes are added, and receipts written, only by the worker of the claim
\* while it is at its tools.
ToolEdge(t) ==
  \/ tools'[t] \subseteq tools[t]
  \/ \E w \in Worker : mine[w] = t /\ pc[w] \in {"run", "stop"}

ReceiptEdge(t) ==
  \/ receipt'[t] = receipt[t]
  \/ /\ receipt'[t] # "none"
     /\ receipt'[t] = "confirmed" => t \notin dirty
     /\ tools'[t] = tools[t]
     /\ \E w \in Worker : mine[w] = t /\ pc[w] = "close" /\ pc'[w] \notin BeforeReceipt

\* Nobody comes back to the tools from behind them.
EarlyEdge(w) ==
  pc'[w] \in BeforeReceipt =>
    \/ Claims(w)
    \/ pc[w] \in BeforeReceipt /\ job'[w] = job[w] /\ mine'[w] = mine[w]

\* Every step moves tools and receipts along theirs.
LEMMA ExecEdges ==
  ASSUME TypeOK, RowInv, WorkerInv, ToolInv, [Next]_vars
  PROVE  /\ \A t \in Token : ToolEdge(t) /\ ReceiptEdge(t)
         /\ \A w \in Worker : EarlyEdge(w)
<1> DEFINE Goal == /\ \A t \in Token : ToolEdge(t) /\ ReceiptEdge(t)
                   /\ \A w \in Worker : EarlyEdge(w)
<1> USE DEF TypeOK, WorkersTyped, ExecsTyped, ToolEdge, ReceiptEdge, EarlyEdge, BeforeReceipt
<1>1. CASE UNCHANGED <<workers, execs>>
  BY <1>1 DEF workers, execs
<1>2. ASSUME NEW t \in Token, OrphanExits(t) PROVE Goal
  BY <1>2 DEF OrphanExits, workers
<1>3. ASSUME NEW w \in Worker, WorkerStep(w), ~RecoverOnly(w), ~Heartbeat(w) PROVE Goal
  <2>1. CASE Claim(w)
    <3>1. Claims(w)
      BY <2>1 DEF Claim, Claims, Oldest
    <3>2. \A v \in Worker : v # w => pc'[v] = pc[v] /\ job'[v] = job[v] /\ mine'[v] = mine[v]
      BY <2>1 DEF Claim
    <3>3. UNCHANGED <<tools, receipt>>
      BY <2>1 DEF Claim
    <3> QED BY <3>1, <3>2, <3>3
  <2>2. ASSUME UNCHANGED execs, Rest(w) PROVE Goal
    BY <2>2 DEF Rest, execs
  <2>3. ASSUME UNCHANGED execs, NEW h, Proceed(w, h) PROVE Goal
    BY <2>2, <2>3 DEF Proceed, execs
  <2>4. CASE \/ CheckTarget(w) \/ StoreStage(w) \/ BeginImport(w) \/ RejectImport(w) \/ FinalizeGitSnapshot(w)
    BY <2>3, <2>4 DEF CheckTarget, StoreStage, BeginImport, RejectImport, FinalizeGitSnapshot, execs
  <2>5. CASE EnterExecution(w)
    BY <2>5, <2>3 DEF EnterExecution, execs
  <2>6. CASE NextStage(w) \/ CallbackRefused(w) \/ ExecutionFails(w)
    BY <2>6 DEF NextStage, CallbackRefused, ExecutionFails, AbortRun, execs
  <2>7. CASE StartTool(w) \/ ToolExits(w) \/ HelperLost(w)
    BY <2>7 DEF StartTool, ToolExits, HelperLost, Abandon, workers
  <2>8. CASE StopTool(w)
    BY <2>8 DEF StopTool, Abandon
  <2>9. CASE FinishRun(w)
    BY <2>9 DEF FinishRun, Proceed, Rest
  <2>10. CASE CommitImport(w) \/ FailJob(w)
    BY <2>2, <2>10 DEF CommitImport, FailJob
  <2>11. CASE FinishCancellation(w)
    BY <2>2, <2>11 DEF FinishCancellation, execs
  <2>12. CASE Crash(w)
    <3>1. mine[w] \in Token /\ \A v \in Worker : mine[v] = mine[w] => v = w
      BY <2>12, OwnToken DEF Crash
    <3>2. Supervised(w) => pc[w] \in {"run", "stop"}
      BY <3>1 DEF Supervised, ToolInv
    <3> QED BY <2>12, <3>1, <3>2 DEF Crash, Rest
  <2> QED BY <1>3, <2>1, <2>4, <2>5, <2>6, <2>7, <2>8, <2>9, <2>10, <2>11, <2>12 DEF WorkerStep, ExecutorStep
<1> QED BY <1>1, <1>2, <1>3, Bystanders DEF vars

\* No process of job j is alive and no worker of it is at its tools.
Quiet(j) ==
  /\ \A t \in Token : issued[t] = j => tools[t] = {}
  /\ \A w \in Worker : pc[w] # "idle" /\ job[w] = j => pc[w] \notin BeforeReceipt

\* A confirmed receipt quietens its job: the receipt is of the job's only claim.
LEMMA ConfirmedQuiet ==
  ASSUME TypeOK, RowInv, WorkerInv, StopInv, NEW j \in Job, CleanupConfirmed(j)
  PROVE  Quiet(j)
<1>1. token[j] \in Token /\ issued[token[j]] = j /\ receipt[token[j]] = "confirmed" /\ j # 0
  BY ConstantsAssumption DEF CleanupConfirmed, RowInv, TypeOK, RowsTyped, Job
<1>2. \A t \in Token : issued[t] = j => t = token[j]
  BY <1>1 DEF RowInv
<1>3. ASSUME NEW w \in Worker, pc[w] # "idle", job[w] = j PROVE mine[w] = token[j]
  BY <1>2, <1>3, OwnToken
<1> QED BY <1>1, <1>2, <1>3 DEF Quiet, StopInv

\* A row turns CANCELLED only when its job is quiet: it was never claimed, or its
\* receipt is confirmed, or its worker gave up before the executor was entered.
LEMMA CancelledQuiet ==
  ASSUME TypeOK, RowInv, WorkerInv, ToolInv, StopInv, [Next]_vars,
         NEW j \in Job, status'[j] = "CANCELLED", status[j] # "CANCELLED"
  PROVE  Quiet(j)
<1> USE DEF TypeOK, RowsTyped
<1>1. status[j] \in {"QUEUED", "CANCEL_REQUESTED"}
  BY RowEdges DEF RowEdge, Stays, Enqueued, ClaimedNow, Moved, Settled, Claimed, Running
<1>2. CASE status[j] = "QUEUED"
  <2>0. j # 0
    BY ConstantsAssumption DEF Job
  <2>1. ASSUME NEW t \in Token, issued[t] = j PROVE FALSE
    <3>1. status[issued[t]] \notin {"ABSENT", "QUEUED"}
      BY <2>0, <2>1 DEF RowInv
    <3> QED BY <1>2, <2>1, <3>1
  <2> QED BY <2>1, OwnToken DEF Quiet
<1>3. CASE status[j] = "CANCEL_REQUESTED"
  <2>1. ASSUME NEW w \in Worker, OwnsRow(w, {"CANCEL_REQUESTED"}), Acknowledge(job[w], mine[w] \notin started),
               pc[w] = "settle"
        PROVE  Quiet(j)
    <3>1. job[w] = j
      BY <1>3, <2>1 DEF Acknowledge, Settle
    <3>2. CASE mine[w] \in started
      BY <2>1, <1>3, <3>1, <3>2, ConfirmedQuiet DEF Acknowledge
    <3>3. CASE mine[w] \notin started
      <4>1. mine[w] \in Token /\ issued[mine[w]] = j /\ j # 0
        BY <2>1, <3>1, OwnToken, ConstantsAssumption DEF Job
      <4>2. \A t \in Token : issued[t] = j => t = mine[w]
        BY <4>1 DEF RowInv
      <4>3. \A v \in Worker : pc[v] # "idle" /\ job[v] = j => v = w
        BY <2>1, <4>2, OwnToken
      <4> QED BY <2>1, <3>3, <4>1, <4>2, <4>3 DEF Quiet, ToolInv, BeforeReceipt
    <3> QED BY <3>2, <3>3
  <2>2. ASSUME NEW claim, NEW t, RecoverAndClaim(claim, t) PROVE Quiet(j)
    <3>1. j \in Cleaned
      BY <1>3, <2>2 DEF RecoverAndClaim, Interrupted, Running
    <3> QED BY <3>1, ConfirmedQuiet DEF Cleaned
  <2>3. ASSUME NEW c \in Client, HandlerStep(c) PROVE FALSE
    BY <1>3, <2>3 DEF HandlerStep, ReadForEnqueue, CommitEnqueue, LoseEnqueue, ReadForUpdate, CommitUpdate, rows
  <2>4. ASSUME NEW k \in Job, CancelAnalysis(k) \/ LeaseExpires(k) PROVE FALSE
    BY <1>3, <2>4 DEF CancelAnalysis, Settle, LeaseExpires, Running
  <2>5. ASSUME NEW w \in Worker, WorkerStep(w) PROVE Quiet(j)
    <3>1. CASE Claim(w) \/ RecoverOnly(w)
      BY <2>2, <3>1 DEF Claim, RecoverOnly
    <3>2. CASE FinishCancellation(w)
      BY <1>3, <2>1, <3>2 DEF FinishCancellation
    <3>3. CASE FailJob(w)
      <4>1. OwnsRow(w, {"CANCEL_REQUESTED"}) /\ Acknowledge(job[w], FALSE)
        BY <1>3, <3>3 DEF FailJob, Settle, MayRun, OwnsRow, Running
      <4>2. job[w] = j /\ CleanupConfirmed(j)
        BY <1>3, <4>1 DEF Acknowledge, Settle
      <4> QED BY <4>2, ConfirmedQuiet
    <3>4. CASE \/ EnterExecution(w) \/ Heartbeat(w) \/ NextStage(w) \/ StoreStage(w) \/ CommitImport(w)
      BY <1>3, <3>4 DEF EnterExecution, Heartbeat, NextStage, StoreStage, CommitImport, RecordStage, MayRun,
           OwnsRow, Settle, Running
    <3>5. CASE \/ CheckTarget(w) \/ StartTool(w) \/ ToolExits(w) \/ HelperLost(w) \/ CallbackRefused(w)
               \/ ExecutionFails(w) \/ StopTool(w) \/ FinishRun(w) \/ FinalizeGitSnapshot(w)
               \/ BeginImport(w) \/ RejectImport(w) \/ Crash(w)
      BY <1>3, <3>5 DEF CheckTarget, StartTool, ToolExits, HelperLost, CallbackRefused, ExecutionFails,
           AbortRun, StopTool, FinishRun, FinalizeGitSnapshot, BeginImport, RejectImport, Crash, rows
    <3> QED BY <2>5, <3>1, <3>2, <3>3, <3>4, <3>5 DEF WorkerStep, ExecutorStep
  <2>6. ASSUME UNCHANGED status PROVE FALSE
    BY <1>3, <2>6
  <2> QED BY <2>3, <2>4, <2>5, <2>6 DEF Next, OrphanExits, vars, rows
<1> QED BY <1>1, <1>2, <1>3

\* Confirmed receipts and CANCELLED rows stay the end of the claim's processes.
LEMMA StopStep ==
  ASSUME TypeOK, RowInv, WorkerInv, ToolInv, StopInv, [Next]_vars
  PROVE  StopInv'
<1>1. /\ \A t \in Token : ToolEdge(t) /\ ReceiptEdge(t)
      /\ \A w \in Worker : EarlyEdge(w)
  BY ExecEdges
<1>2. \A j \in Job : RowEdge(j)
  BY RowEdges
<1>3. \A t \in Token : IssuedEdge(t)
  BY IssuedEdges
<1>4. 0 \notin Job
  BY ConstantsAssumption DEF Job
<1>5. ASSUME NEW t \in Token, tools[t] = {},
             \A w \in Worker : mine[w] = t => pc[w] \notin BeforeReceipt
      PROVE  tools'[t] = {}
  BY <1>1, <1>5 DEF ToolEdge, BeforeReceipt
<1>6. ASSUME NEW w \in Worker, pc[w] \in BeforeReceipt
      PROVE  pc[w] # "idle"
  BY <1>6 DEF BeforeReceipt
<1>7. ASSUME NEW t \in Token, receipt'[t] = "confirmed" PROVE tools'[t] = {}
  <2>1. CASE receipt[t] = "confirmed"
    BY <1>5, <2>1 DEF StopInv
  <2>2. CASE receipt[t] # "confirmed"
    <3>1. t \notin dirty /\ tools'[t] = tools[t] /\ \E w \in Worker : mine[w] = t /\ pc[w] = "close"
      BY <1>1, <1>7, <2>2 DEF ReceiptEdge
    <3>2. PICK w \in Worker : mine[w] = t /\ pc[w] = "close"
      BY <3>1
    <3>3. "orphan" \notin tools[t]
      BY <3>1, <3>2 DEF ToolInv
    <3>4. "owned" \notin tools[t]
      BY <3>2, OwnToken DEF ToolInv
    <3> QED BY <3>1, <3>3, <3>4 DEF TypeOK, ExecsTyped
  <2> QED BY <2>1, <2>2
<1>8. ASSUME NEW t \in Token, issued'[t] # 0, status'[issued'[t]] = "CANCELLED" PROVE tools'[t] = {}
  <2>1. issued'[t] = issued[t] /\ issued[t] \in Job
    BY <1>3, <1>8 DEF IssuedEdge, TypeOK, ExecsTyped
  <2>2. CASE status[issued[t]] = "CANCELLED"
    <3>1. \A w \in Worker : mine[w] = t => pc[w] \notin BeforeReceipt
      BY <1>6, <2>2, OwnToken DEF StopInv
    <3>2. tools[t] = {}
      BY <1>4, <2>1, <2>2 DEF StopInv
    <3> QED BY <1>5, <3>1, <3>2
  <2>3. CASE status[issued[t]] # "CANCELLED"
    BY <1>5, <1>6, <1>8, <2>1, <2>3, OwnToken, CancelledQuiet DEF Quiet
  <2> QED BY <2>2, <2>3
<1>9. ASSUME NEW w \in Worker, pc'[w] \in BeforeReceipt
      PROVE  receipt'[mine'[w]] = "none" /\ status'[job'[w]] # "CANCELLED"
  <2>1. CASE Claims(w)
    <3>1. mine'[w] \notin started /\ receipt[mine'[w]] = "none"
      BY <2>1 DEF Claims, ToolInv
    <3>2. receipt'[mine'[w]] = "none"
      <4>1. \A v \in Worker : mine[v] # mine'[w] \/ pc[v] = "idle"
        BY <1>4, <2>1, OwnToken DEF Claims
      <4> QED BY <1>1, <2>1, <3>1, <4>1 DEF ReceiptEdge, Claims
    <3>3. status'[job'[w]] = "COLLECTING"
      BY <1>3, <1>4, <2>1 DEF Claims, IssuedEdge
    <3> QED BY <3>2, <3>3
  <2>2. CASE pc[w] \in BeforeReceipt /\ job'[w] = job[w] /\ mine'[w] = mine[w]
    <3>1. /\ mine[w] \in Token /\ job[w] \in Job /\ \A v \in Worker : mine[v] = mine[w] => v = w
          /\ receipt[mine[w]] = "none" /\ status[job[w]] # "CANCELLED"
      BY <1>6, <2>2, OwnToken DEF StopInv
    <3>2. receipt'[mine[w]] = "none"
      BY <1>1, <1>9, <3>1 DEF ReceiptEdge
    <3>3. status'[job[w]] # "CANCELLED"
      BY <1>6, <2>2, <3>1, CancelledQuiet DEF Quiet
    <3> QED BY <2>2, <3>2, <3>3
  <2> QED BY <1>1, <1>9, <2>1, <2>2 DEF EarlyEdge
<1> QED BY <1>7, <1>8, <1>9 DEF StopInv

-----------------------------------------------------------------------------
(* Results *)

\* A snapshot changes when its row is made and when it loses its secret.
SnapshotEdge(j) ==
  snapshot'[j] = snapshot[j] \/ status[j] = "ABSENT" \/ ~snapshot'[j].secret

\* How a worker gets behind its tools with a result in hand.
Late == {"store", "import", "commit"}

LateEdge(w) ==
  /\ pc'[w] \in Late =>
       /\ job'[w] = job[w] /\ mine'[w] = mine[w] /\ pc[w] # "idle"
       /\ \/ pc[w] \in Late
          \/ pc[w] = "scrub" /\ how[w] = "ok" /\ (token[job[w]] = mine[w] => ~snapshot'[job[w]].secret)
          \/ pc[w] = "close" /\ receipt'[mine[w]] # "none" /\ ~snapshot[job[w]].secret
  /\ pc'[w] = "scrub" /\ how'[w] = "ok" =>
       /\ mine'[w] = mine[w] /\ pc[w] # "idle"
       /\ (pc[w] = "scrub" /\ how[w] = "ok") \/ receipt'[mine[w]] # "none"

\* Every step moves snapshots and results along theirs.
LEMMA ResultEdges ==
  ASSUME TypeOK, WorkerInv, [Next]_vars
  PROVE  /\ \A j \in Job : SnapshotEdge(j)
         /\ \A w \in Worker : LateEdge(w)
<1> DEFINE Goal == (\A j \in Job : SnapshotEdge(j)) /\ (\A w \in Worker : LateEdge(w))
<1> USE DEF TypeOK, WorkersTyped, SnapshotEdge, LateEdge, Late
<1>1. CASE UNCHANGED vars
  BY <1>1 DEF vars, rows, workers
<1>2. ASSUME NEW c \in Client, HandlerStep(c) PROVE Goal
  <2>1. UNCHANGED workers
    BY <1>2 DEF HandlerStep, ReadForEnqueue, CommitEnqueue, LoseEnqueue, ReadForUpdate, CommitUpdate
  <2>2. \A j \in Job : snapshot'[j] = snapshot[j] \/ status[j] = "ABSENT"
    BY <1>2 DEF HandlerStep, ReadForEnqueue, CommitEnqueue, IsNextId, LoseEnqueue, ReadForUpdate, CommitUpdate,
         rows, RowsTyped
  <2> QED BY <2>1, <2>2 DEF workers
<1>3. ASSUME NEW k \in Job, CancelAnalysis(k) \/ LeaseExpires(k) PROVE Goal
  BY <1>3 DEF CancelAnalysis, LeaseExpires, workers
<1>4. ASSUME NEW t \in Token, OrphanExits(t) PROVE Goal
  BY <1>4 DEF OrphanExits, rows, workers
<1>5. ASSUME NEW w \in Worker, WorkerStep(w) PROVE Goal
  <2>1. ASSUME UNCHANGED snapshot, Rest(w) PROVE Goal
    BY <2>1 DEF Rest
  <2>2. ASSUME UNCHANGED snapshot, NEW h, Proceed(w, h), h # "ok" PROVE Goal
    BY <2>1, <2>2 DEF Proceed
  <2>3. CASE Claim(w) \/ RecoverOnly(w) \/ Heartbeat(w)
    BY <2>3 DEF Claim, RecoverOnly, Heartbeat, RecoverAndClaim, workers
  <2>4. CASE CheckTarget(w) \/ EnterExecution(w) \/ StoreStage(w) \/ BeginImport(w) \/ RejectImport(w)
    BY <2>4, <2>2 DEF CheckTarget, EnterExecution, StoreStage, BeginImport, RejectImport, Refusal, rows
  <2>5. CASE NextStage(w) \/ CallbackRefused(w) \/ ExecutionFails(w) \/ StopTool(w)
    BY <2>5 DEF NextStage, CallbackRefused, ExecutionFails, AbortRun, StopTool, rows
  <2>6. CASE StartTool(w) \/ ToolExits(w) \/ HelperLost(w)
    BY <2>6 DEF StartTool, ToolExits, HelperLost, rows, workers
  <2>7. CASE FinishRun(w)
    <3>1. mine[w] \in Token /\ job[w] \in Job
      BY <2>7, OwnToken DEF FinishRun
    <3>2. snapshot[job[w]].input # "git" => ~snapshot[job[w]].secret
      BY <3>1 DEF RowsTyped, Snapshot
    <3>3. UNCHANGED snapshot
      BY <2>7 DEF FinishRun, rows
    <3>4. \A v \in Worker : v # w => pc'[v] = pc[v] /\ job'[v] = job[v] /\ mine'[v] = mine[v] /\ how'[v] = how[v]
      BY <2>7 DEF FinishRun, Proceed, Rest
    <3>5. LateEdge(w)
      BY <2>7, <3>1, <3>2 DEF FinishRun, Proceed, Rest, ExecsTyped
    <3>6. \A v \in Worker : v # w => LateEdge(v)
      BY <3>3, <3>4
    <3> QED BY <3>3, <3>5, <3>6
  <2>8. CASE FinalizeGitSnapshot(w)
    <3>1. job[w] \in Job
      BY <2>8, OwnToken DEF FinalizeGitSnapshot
    <3>2. \A j \in Job : SnapshotEdge(j)
      BY <2>8, <3>1 DEF FinalizeGitSnapshot, RowsTyped, Snapshot
    <3>3. token[job[w]] = mine[w] => ~snapshot'[job[w]].secret
      BY <2>8, <3>1 DEF FinalizeGitSnapshot, RowsTyped, Snapshot
    <3>4. LateEdge(w)
      BY <2>8, <3>3 DEF FinalizeGitSnapshot, Proceed, Rest
    <3>5. \A v \in Worker : v # w => LateEdge(v)
      BY <2>8 DEF FinalizeGitSnapshot, Proceed, Rest
    <3> QED BY <3>2, <3>4, <3>5
  <2>9. CASE CommitImport(w) \/ FailJob(w) \/ Crash(w)
    BY <2>9, <2>1 DEF CommitImport, FailJob, Crash, rows
  <2>10. CASE FinishCancellation(w)
    BY <2>10, <2>1 DEF FinishCancellation
  <2> QED BY <1>5, <2>3, <2>4, <2>5, <2>6, <2>7, <2>8, <2>9, <2>10 DEF WorkerStep, ExecutorStep
<1> QED BY <1>1, <1>2, <1>3, <1>4, <1>5 DEF Next

\* A result is stored by the import of the worker that owns the row.
LEMMA SuccessBy ==
  ASSUME TypeOK, WorkerInv, [Next]_vars, NEW j \in Job, run'[j] # run[j]
  PROVE  \E w \in Worker : pc[w] = "commit" /\ job[w] = j /\ mine[w] = token[j] /\ CommitImport(w)
<1>1. ASSUME UNCHANGED run PROVE FALSE
  BY <1>1
<1>2. ASSUME NEW c \in Client, HandlerStep(c) PROVE FALSE
  BY <1>1, <1>2 DEF HandlerStep, ReadForEnqueue, CommitEnqueue, LoseEnqueue, ReadForUpdate, CommitUpdate, rows
<1>3. ASSUME NEW k \in Job, CancelAnalysis(k) \/ LeaseExpires(k) PROVE FALSE
  BY <1>1, <1>3 DEF CancelAnalysis, LeaseExpires
<1>4. ASSUME NEW w \in Worker, WorkerStep(w)
      PROVE  pc[w] = "commit" /\ job[w] = j /\ mine[w] = token[j] /\ CommitImport(w)
  <2>1. CASE CommitImport(w)
    BY <2>1 DEF CommitImport, WorkerInv, OwnsRow, TypeOK, RowsTyped
  <2>2. CASE ~CommitImport(w)
    BY <1>1, <1>4, <2>2 DEF WorkerStep, ExecutorStep, Claim, RecoverOnly, RecoverAndClaim, CheckTarget,
         EnterExecution, Heartbeat, NextStage, StartTool, ToolExits, HelperLost, CallbackRefused,
         ExecutionFails, AbortRun, StopTool, FinishRun, FinalizeGitSnapshot, StoreStage, BeginImport,
         RejectImport, FinishCancellation, FailJob, Crash, rows
  <2> QED BY <2>1, <2>2
<1> QED BY <1>1, <1>2, <1>3, <1>4 DEF Next, OrphanExits, vars, rows

\* Every stored result keeps its claim, its receipt and its clean snapshot.
LEMMA ResultStep ==
  ASSUME TypeOK, RowInv, WorkerInv, ToolInv, ResultInv, TypeOK', RowInv', WorkerInv', [Next]_vars
  PROVE  ResultInv'
<1>1. \A t \in Token : receipt[t] # "none" => receipt'[t] # "none"
  BY ExecEdges DEF ReceiptEdge
<1>2. /\ \A j \in Job : SnapshotEdge(j)
      /\ \A w \in Worker : LateEdge(w)
  BY ResultEdges
<1>3. \A j \in Job : RowEdge(j)
  BY RowEdges
<1>4. \A t \in Token : IssuedEdge(t)
  BY IssuedEdges
<1>5. 0 \notin Job /\ NoToken \notin Token
  BY ConstantsAssumption DEF Job
<1>6. ASSUME NEW w \in Worker, pc[w] # "idle", mine'[w] = mine[w], job'[w] = job[w]
      PROVE  /\ status[job[w]] # "ABSENT" /\ status[job[w]] # "QUEUED"
             /\ token'[job[w]] = mine[w] => token[job[w]] = mine[w]
  <2>1. mine[w] \in Token /\ job[w] \in Job /\ issued[mine[w]] = job[w]
    BY <1>6, OwnToken
  <2>2. status[job[w]] \notin {"ABSENT", "QUEUED"}
    BY <1>5, <2>1 DEF RowInv
  <2> QED BY <1>3, <1>5, <2>1, <2>2 DEF RowEdge, Stays, Enqueued, ClaimedNow, Moved, Settled
<1>7. ASSUME NEW w \in Worker, pc'[w] \in Late
      PROVE  receipt'[mine'[w]] # "none" /\ (token'[job'[w]] = mine'[w] => ~snapshot'[job'[w]].secret)
  <2>1. /\ job'[w] = job[w] /\ mine'[w] = mine[w] /\ pc[w] # "idle"
        /\ mine[w] \in Token /\ job[w] \in Job
    BY <1>2, <1>7, OwnToken DEF LateEdge
  <2>2. receipt'[mine[w]] # "none"
    BY <1>1, <1>2, <1>7, <2>1 DEF LateEdge, Late, ResultInv
  <2>3. ASSUME token'[job[w]] = mine[w] PROVE ~snapshot'[job[w]].secret
    <3>1. token[job[w]] = mine[w] /\ status[job[w]] # "ABSENT"
      BY <1>6, <2>1, <2>3
    <3>2. ~snapshot[job[w]].secret => ~snapshot'[job[w]].secret
      BY <1>2, <2>1, <3>1 DEF SnapshotEdge
    <3> QED BY <1>2, <1>7, <2>1, <3>1, <3>2 DEF LateEdge, Late, ResultInv
  <2> QED BY <2>1, <2>2, <2>3
<1>8. ASSUME NEW w \in Worker, pc'[w] = "scrub", how'[w] = "ok" PROVE receipt'[mine'[w]] # "none"
  <2>1. /\ mine'[w] = mine[w] /\ mine[w] \in Token
        /\ (pc[w] = "scrub" /\ how[w] = "ok") \/ receipt'[mine[w]] # "none"
    BY <1>2, <1>8, OwnToken DEF LateEdge
  <2> QED BY <1>1, <2>1 DEF ResultInv
<1>9. ASSUME NEW j \in Job PROVE status'[j] = "SUCCESS" <=> run'[j] # NoToken
  BY <1>3, <1>9 DEF RowEdge, Stays, Enqueued, ClaimedNow, Moved, Settled, Claimed, Running, RowInv, ResultInv
<1>10. ASSUME NEW j \in Job, status'[j] = "SUCCESS"
       PROVE  /\ issued'[run'[j]] = j /\ receipt'[run'[j]] # "none" /\ ~snapshot'[j].secret
              /\ \A w \in Worker : mine'[w] # run'[j]
  <2>1. run'[j] \in Token
    BY <1>9, <1>10 DEF TypeOK, RowsTyped
  <2>2. CASE run'[j] = run[j]
    <3>1. /\ status[j] = "SUCCESS" /\ issued[run[j]] = j /\ receipt[run[j]] # "none"
          /\ ~snapshot[j].secret /\ \A w \in Worker : mine[w] # run[j]
      BY <1>9, <1>10, <2>2 DEF ResultInv
    <3>2. issued'[run[j]] = j
      BY <1>4, <1>5, <2>1, <2>2, <3>1 DEF IssuedEdge
    <3>3. \A w \in Worker : mine'[w] # run[j]
      BY <1>5, <2>1, <2>2, <3>1, WorkerEdges DEF WorkerEdge, Claims, Rests, Goes
    <3> QED BY <1>1, <1>2, <2>1, <2>2, <3>1, <3>2, <3>3 DEF SnapshotEdge
  <2>3. CASE run'[j] # run[j]
    <3>1. PICK w \in Worker : pc[w] = "commit" /\ job[w] = j /\ mine[w] = token[j] /\ CommitImport(w)
      BY <2>3, SuccessBy
    <3>2. /\ mine[w] \in Token /\ issued[mine[w]] = j
          /\ \A v \in Worker : mine[v] = mine[w] => v = w
      BY <3>1, OwnToken
    <3>3. run'[j] = mine[w]
      BY <3>1 DEF CommitImport, TypeOK, RowsTyped
    <3>4. UNCHANGED <<issued, receipt, snapshot>>
      BY <3>1 DEF CommitImport, execs
    <3>5. receipt[mine[w]] # "none" /\ ~snapshot[j].secret
      BY <3>1 DEF ResultInv
    <3>6. \A v \in Worker : mine'[v] # mine[w]
      BY <1>5, <3>1, <3>2 DEF CommitImport, Rest, TypeOK, WorkersTyped
    <3> QED BY <3>2, <3>3, <3>4, <3>5, <3>6
  <2> QED BY <2>2, <2>3
<1> QED BY <1>7, <1>8, <1>9, <1>10 DEF ResultInv, Late

\* A claimed row is settled by its own worker, or by a recovery that found the
\* lease expired and, for a cancelled row, the receipt confirmed.
LEMMA SettledBy ==
  ASSUME TypeOK, WorkerInv, [Next]_vars, NEW j \in Job, status[j] \in Claimed, Settled(j)
  PROVE  \/ status[j] \in Running /\ expired[j]
         \/ CleanupConfirmed(j)
         \/ \E w \in Worker : /\ pc[w] \in {"commit", "settle", "fail"}
                            /\ job[w] = j /\ mine[w] = token[j]
<1> USE DEF Running, Claimed, Settled
<1>1. status'[j] # status[j]
  OBVIOUS
<1>2. ASSUME NEW c \in Client, HandlerStep(c) PROVE FALSE
  BY <1>1, <1>2 DEF HandlerStep, ReadForEnqueue, CommitEnqueue, IsNextId, LoseEnqueue, ReadForUpdate,
       CommitUpdate, rows, TypeOK, RowsTyped
<1>3. ASSUME NEW k \in Job, CancelAnalysis(k) \/ LeaseExpires(k) PROVE FALSE
  BY <1>1, <1>3 DEF CancelAnalysis, Settle, LeaseExpires, TypeOK, RowsTyped
<1>4. ASSUME NEW w \in Worker, WorkerStep(w)
      PROVE  \/ status[j] \in Running /\ expired[j]
             \/ CleanupConfirmed(j)
             \/ pc[w] \in {"commit", "settle", "fail"} /\ job[w] = j /\ mine[w] = token[j]
  <2>1. ASSUME NEW claim, NEW t, RecoverAndClaim(claim, t), \A k \in claim : status[k] = "QUEUED"
        PROVE  (status[j] \in Running /\ expired[j]) \/ CleanupConfirmed(j)
    <3>1. j \in Interrupted \union Cleaned
      BY <1>1, <2>1 DEF RecoverAndClaim
    <3> QED BY <3>1 DEF Interrupted, Cleaned
  <2>2. CASE Claim(w) \/ RecoverOnly(w)
    <3>1. CASE Claim(w)
      BY <2>1, <3>1 DEF Claim, Oldest
    <3>2. CASE RecoverOnly(w)
      BY <2>1, <3>2 DEF RecoverOnly
    <3> QED BY <2>2, <3>1, <3>2
  <2>3. CASE CommitImport(w)
    BY <1>1, <2>3 DEF CommitImport, Settle, WorkerInv, OwnsRow, TypeOK, RowsTyped
  <2>4. CASE FinishCancellation(w) \/ FailJob(w)
    BY <1>1, <2>4 DEF FinishCancellation, FailJob, Acknowledge, Settle, MayRun, OwnsRow, TypeOK, RowsTyped
  <2>5. CASE EnterExecution(w) \/ Heartbeat(w) \/ NextStage(w) \/ StoreStage(w)
    <3>1. status'[j] = status[j] \/ status'[j] \in Running
      BY <2>5 DEF EnterExecution, Heartbeat, NextStage, StoreStage, RecordStage, MayRun, OwnsRow, TypeOK, RowsTyped
    <3> QED BY <1>1, <3>1
  <2>6. CASE \/ CheckTarget(w) \/ StartTool(w) \/ ToolExits(w) \/ HelperLost(w) \/ CallbackRefused(w)
             \/ ExecutionFails(w) \/ StopTool(w) \/ FinishRun(w) \/ FinalizeGitSnapshot(w)
             \/ BeginImport(w) \/ RejectImport(w) \/ Crash(w)
    BY <1>1, <2>6 DEF CheckTarget, StartTool, ToolExits, HelperLost, CallbackRefused, ExecutionFails,
         AbortRun, StopTool, FinishRun, FinalizeGitSnapshot, BeginImport, RejectImport, Crash, rows
  <2> QED BY <1>4, <2>2, <2>3, <2>4, <2>5, <2>6 DEF WorkerStep, ExecutorStep
<1> QED BY <1>1, <1>2, <1>3, <1>4 DEF Next, OrphanExits, vars, rows

\* Without stalls the lease of a running row runs out only when its worker is gone.
LEMMA ExpiredBy ==
  ASSUME TypeOK, [Next]_vars, ~Stalls, NEW j \in Job, status[j] \in Running, ~expired[j], expired'[j]
  PROVE  \A w \in Worker : mine[w] # token[j]
<1>1. ASSUME expired'[j] = expired[j] PROVE FALSE
  BY <1>1
<1>2. ASSUME NEW k \in Job, LeaseExpires(k) PROVE \A w \in Worker : mine[w] # token[j]
  BY <1>2 DEF LeaseExpires, Running, TypeOK, RowsTyped
<1>3. ASSUME NEW c \in Client, HandlerStep(c) PROVE FALSE
  BY <1>1, <1>3 DEF HandlerStep, ReadForEnqueue, CommitEnqueue, LoseEnqueue, ReadForUpdate, CommitUpdate, rows
<1>4. ASSUME NEW k \in Job, CancelAnalysis(k) PROVE FALSE
  BY <1>4 DEF CancelAnalysis, Settle, TypeOK, RowsTyped
<1>5. ASSUME NEW w \in Worker, WorkerStep(w) PROVE FALSE
  <2>1. CASE Claim(w) \/ RecoverOnly(w)
    BY <2>1 DEF Claim, RecoverOnly, RecoverAndClaim
  <2>2. CASE EnterExecution(w) \/ Heartbeat(w) \/ NextStage(w) \/ StoreStage(w)
    BY <2>2 DEF EnterExecution, Heartbeat, NextStage, StoreStage, RecordStage, TypeOK, RowsTyped
  <2>3. CASE FinishCancellation(w) \/ FailJob(w) \/ CommitImport(w)
    BY <2>3 DEF FinishCancellation, FailJob, CommitImport, Acknowledge, Settle, TypeOK, RowsTyped
  <2>4. CASE \/ CheckTarget(w) \/ StartTool(w) \/ ToolExits(w) \/ HelperLost(w) \/ CallbackRefused(w)
             \/ ExecutionFails(w) \/ StopTool(w) \/ FinishRun(w) \/ FinalizeGitSnapshot(w)
             \/ BeginImport(w) \/ RejectImport(w) \/ Crash(w)
    BY <2>4 DEF CheckTarget, StartTool, ToolExits, HelperLost, CallbackRefused, ExecutionFails,
         AbortRun, StopTool, FinishRun, FinalizeGitSnapshot, BeginImport, RejectImport, Crash, rows
  <2> QED BY <1>5, <2>1, <2>2, <2>3, <2>4 DEF WorkerStep, ExecutorStep
<1> QED BY <1>1, <1>2, <1>3, <1>4, <1>5 DEF Next, OrphanExits, vars, rows

\* Without stalls, a worker loses its row only when it is cancelled and quiet.
LEMMA LeaseStep ==
  ASSUME TypeOK, RowInv, WorkerInv, ToolInv, StopInv, LeaseInv, [Next]_vars
  PROVE  LeaseInv'
<1> SUFFICES ASSUME ~Stalls, NEW w \in Worker, pc'[w] \in BeforeReceipt
             PROVE  /\ token'[job'[w]] = mine'[w] /\ status'[job'[w]] \in Claimed
                    /\ status'[job'[w]] \in Running => ~expired'[job'[w]]
  BY DEF LeaseInv, OwnsRow
<1> USE DEF Running, Claimed
<1>1. 0 \notin Job
  BY ConstantsAssumption DEF Job
<1>2. CASE Claims(w)
  <2>1. /\ job'[w] \in Job /\ status[job'[w]] = "QUEUED" /\ status'[job'[w]] = "COLLECTING"
        /\ token'[job'[w]] = mine'[w]
    BY <1>1, <1>2, IssuedEdges DEF Claims, IssuedEdge
  <2>2. ~expired'[job'[w]]
    BY <2>1, RowEdges DEF RowEdge, Stays, Enqueued, ClaimedNow, Moved, Settled, RowInv
  <2> QED BY <2>1, <2>2
<1>3. CASE pc[w] \in BeforeReceipt /\ job'[w] = job[w] /\ mine'[w] = mine[w]
  <2> DEFINE j == job[w]
  <2>1. /\ j \in Job /\ mine[w] \in Token /\ issued[mine[w]] = j
        /\ token[j] = mine[w] /\ status[j] \in Claimed /\ (status[j] \in Running => ~expired[j])
        /\ receipt[mine[w]] # "confirmed"
    BY <1>3, OwnToken DEF LeaseInv, OwnsRow, StopInv, BeforeReceipt
  <2>2. Stays(j) \/ Moved(j) \/ Settled(j)
    BY <2>1, RowEdges DEF RowEdge, Enqueued, ClaimedNow
  <2> HIDE DEF j
  <2>3. ~Settled(j)
    <3>1. \A v \in Worker : mine[v] = mine[w] => v = w
      BY <1>3, OwnToken DEF BeforeReceipt
    <3>2. pc[w] \notin {"commit", "settle", "fail"}
      BY <1>3 DEF BeforeReceipt
    <3>3. ~CleanupConfirmed(j)
      BY <2>1 DEF CleanupConfirmed
    <3> QED BY <2>1, <3>1, <3>2, <3>3, SettledBy
  <2>4. ASSUME status'[j] \in Running PROVE ~expired'[j]
    <3>1. status[j] \in Running
      BY <2>2, <2>3, <2>4 DEF Stays, Moved
    <3> QED BY <2>1, <3>1, ExpiredBy
  <2> QED BY <1>3, <2>1, <2>2, <2>3, <2>4 DEF Stays, Moved, j
<1> QED BY <1>2, <1>3, ExecEdges DEF EarlyEdge

-----------------------------------------------------------------------------
(* The inductive invariant and what follows from it *)

\* The invariant holds at first.
LEMMA InvInit == Init => IInv
<1> SUFFICES ASSUME Init PROVE IInv
  OBVIOUS
<1> USE ConstantsAssumption DEF Init, Running, Claimed, Active
<1>1. RowsTyped /\ target \in [Asset -> Target]
  BY DEF RowsTyped, NoSnapshot, Snapshot
<1>2. WorkersTyped /\ request \in [Client -> Request]
  BY DEF WorkersTyped, Request, NoRequest
<1>3. ExecsTyped
  BY DEF ExecsTyped
<1>4. RowInv /\ WorkerInv
  BY DEF RowInv, WorkerInv
<1>5. ToolInv /\ StopInv
  BY DEF ToolInv, StopInv, BeforeReceipt
<1>6. ResultInv /\ LeaseInv
  BY DEF ResultInv, LeaseInv, BeforeReceipt
<1> QED BY <1>1, <1>2, <1>3, <1>4, <1>5, <1>6 DEF IInv, TypeOK

\* Every step keeps it.
LEMMA InvStep == IInv /\ [Next]_vars => IInv'
<1> SUFFICES ASSUME IInv, [Next]_vars PROVE IInv'
  OBVIOUS
<1> USE DEF IInv
<1>1. TypeOK'
  BY TypeStep
<1>2. RowInv'
  BY <1>1, RowStep
<1>3. WorkerInv'
  BY <1>1, WorkersStep
<1>4. ToolInv' /\ StopInv'
  BY ToolStep, StopStep
<1>5. ResultInv'
  BY <1>1, <1>2, <1>3, ResultStep
<1>6. LeaseInv'
  BY LeaseStep
<1> QED BY <1>1, <1>2, <1>3, <1>4, <1>5, <1>6

\* The invariant that the results below follow from: rows, workers, processes,
\* receipts and results stay consistent with each other in every reachable state.
THEOREM Invariance == Spec => []IInv
  BY InvInit, InvStep, PTL DEF Spec

\* The queue's variables always have their types.
THEOREM TypeCorrect == Spec => []TypeOK
  BY Invariance, PTL DEF IInv

\* The live rows of an asset are one row.
LEMMA ExclusiveFromInv == IInv => AssetExclusive
  BY ConstantsAssumption DEF IInv, RowInv, AssetExclusive

\* However requests, retries, workers and recoveries interleave, an asset has at
\* most one live job: the unique active_asset_id is kept exactly as long as the
\* job is live.
THEOREM Exclusion == Spec => []AssetExclusive
  BY Invariance, ExclusiveFromInv, PTL

\* What StopInv says of cancelled rows.
LEMMA StoppedFromInv == IInv => CancelledMeansStopped
  BY DEF IInv, StopInv, CancelledMeansStopped

\* A row says CANCELLED only when no process of its claim is alive, and none
\* appears later, with crashes, stalls and unconfirmed helpers.
THEOREM CancellationIsHonest == Spec => []CancelledMeansStopped
  BY Invariance, StoppedFromInv, PTL

\* What ResultInv says of rows and their secrets.
LEMMA ResultFromInv == IInv => ResultOnlyBySuccess /\ SuccessKeepsNoSecret
<1> SUFFICES ASSUME IInv PROVE ResultOnlyBySuccess /\ SuccessKeepsNoSecret
  OBVIOUS
<1>1. ASSUME NEW j \in Job, run[j] # NoToken PROVE "owned" \notin tools[run[j]]
  <2>1. run[j] \in Token /\ \A w \in Worker : mine[w] # run[j]
    BY <1>1 DEF IInv, ResultInv, TypeOK, RowsTyped
  <2> QED BY <2>1 DEF IInv, ToolInv
<1> QED BY <1>1 DEF IInv, ResultInv, ResultOnlyBySuccess, SuccessKeepsNoSecret

\* Results are stored for exactly the successful jobs, each by the claim of the
\* job, after its receipt was written and its tools were left.
THEOREM ResultsAreOwned == Spec => []ResultOnlyBySuccess
  BY Invariance, ResultFromInv, PTL

\* No successful job keeps the one-time token of its request.
THEOREM SecretsAreDropped == Spec => []SuccessKeepsNoSecret
  BY Invariance, ResultFromInv, PTL

\* A claim with a process alive is that of a job that was claimed and not cancelled.
LEMMA AliveJob ==
  ASSUME IInv, NEW t \in Token, tools[t] # {}
  PROVE  /\ issued[t] \in Job
         /\ status[issued[t]] \in Claimed \union {"SUCCESS", "FAILED"}
<1>1. issued[t] \in Job
  BY DEF IInv, ToolInv, TypeOK, ExecsTyped
<1>2. status[issued[t]] \notin {"ABSENT", "QUEUED", "CANCELLED"}
  BY <1>1, ConstantsAssumption DEF IInv, RowInv, StopInv, Job
<1> QED BY <1>1, <1>2 DEF IInv, TypeOK, RowsTyped, Active, Terminal

\* Tools of two claims on one asset mean that one was given up.
LEMMA OverlapFromInv == IInv => OverlapOnlyAfterGivingUp
<1> SUFFICES ASSUME IInv, NEW t \in Token, NEW u \in Token, tools[t] # {}, tools[u] # {},
                    asset[issued[t]] = asset[issued[u]],
                    status[issued[t]] \in Claimed, status[issued[u]] \in Claimed
             PROVE  t = u
  BY AliveJob DEF OverlapOnlyAfterGivingUp
<1>1. issued[t] \in Job /\ issued[u] \in Job
  BY AliveJob
<1>2. issued[t] = issued[u]
  BY <1>1, ExclusiveFromInv DEF AssetExclusive, Active
<1> QED BY <1>1, <1>2, ConstantsAssumption DEF IInv, RowInv, Job

\* Processes of two claims meet on one asset only where one of the jobs was given
\* up as FAILED or finished with an unconfirmed helper.
THEOREM OverlapIsOld == Spec => []OverlapOnlyAfterGivingUp
  BY Invariance, OverlapFromInv, PTL

\* Where live workers report in time, no two claims supervise tools on one asset,
\* crashes included.
THEOREM ToolsDoNotMeet ==
  ASSUME Stalls = FALSE
  PROVE  Spec => []NoConcurrentTools
<1>1. IInv => NoConcurrentTools
  <2> SUFFICES ASSUME IInv, NEW t \in Token, NEW u \in Token, "owned" \in tools[t], "owned" \in tools[u],
                      asset[issued[t]] = asset[issued[u]]
               PROVE  t = u
    BY DEF NoConcurrentTools
  <2>1. ASSUME NEW x \in Token, "owned" \in tools[x]
        PROVE  issued[x] \in Job /\ status[issued[x]] \in Active
    <3>1. PICK w \in Worker : mine[w] = x /\ pc[w] \in {"run", "stop"}
      BY <2>1 DEF IInv, ToolInv
    <3>2. issued[x] = job[w] /\ job[w] \in Job
      BY <3>1 DEF IInv, WorkerInv
    <3> QED BY <3>1, <3>2 DEF IInv, LeaseInv, BeforeReceipt, OwnsRow, Active
  <2>2. issued[t] = issued[u]
    BY <2>1, ExclusiveFromInv DEF AssetExclusive
  <2> QED BY <2>1, <2>2, ConstantsAssumption DEF IInv, RowInv, Job
<1> QED BY <1>1, Invariance, PTL

\* A finished row never changes its status or its result.
THEOREM TerminalForever == Spec => TerminalIsFinal
<1>1. IInv /\ [Next]_vars =>
        [\A j \in Job : status[j] \in Terminal => status'[j] = status[j] /\ run'[j] = run[j]]_vars
  BY RowEdges DEF IInv, RowEdge, Stays, Enqueued, ClaimedNow, Moved, Settled, Running, Terminal
<1> QED BY <1>1, Invariance, PTL DEF Spec, TerminalIsFinal

\* An accepted cancellation ends in CANCELLED or not at all.
THEOREM CancellationWins == Spec => CancelIsNeverOvertaken
<1>1. IInv /\ [Next]_vars =>
        [\A j \in Job : status[j] = "CANCEL_REQUESTED" => status'[j] \in {"CANCEL_REQUESTED", "CANCELLED"}]_vars
  BY RowEdges DEF IInv, RowEdge, Stays, Enqueued, ClaimedNow, Moved, Settled, Running
<1> QED BY <1>1, Invariance, PTL DEF Spec, CancelIsNeverOvertaken

-----------------------------------------------------------------------------
(* The queue implements AssetLease *)

PhaseOf == [j \in Job |-> Phase(j)]
BusyJobs == {issued[t] : t \in {u \in Token : tools[u] # {}}}

\* The phase of a row, by its status.
LEMMA PhaseValue ==
  ASSUME RowsTyped, NEW j \in Job
  PROVE  /\ Phase(j) \in Lease!Phase
         /\ Phase(j) = "unborn" <=> status[j] = "ABSENT"
         /\ Phase(j) = "waiting" <=> status[j] = "QUEUED"
         /\ Phase(j) = "working" <=> status[j] \in Running
         /\ Phase(j) = "stopping" <=> status[j] = "CANCEL_REQUESTED"
         /\ Phase(j) = "succeeded" <=> status[j] = "SUCCESS"
         /\ Phase(j) = "failed" <=> status[j] = "FAILED"
         /\ Phase(j) = "cancelled" <=> status[j] = "CANCELLED"
<1>1. status[j] \in {"ABSENT", "QUEUED", "COLLECTING", "SCANNING", "IMPORTING", "CANCEL_REQUESTED",
                     "SUCCESS", "FAILED", "CANCELLED"}
  BY DEF RowsTyped, Active, Claimed, Running, Terminal
<1> QED BY <1>1 DEF Phase, Lease!Phase, Running

\* The queue begins as the lease does.
LEMMA LeaseInit == Init => Lease!Init
<1> SUFFICES ASSUME Init PROVE Lease!Init
  OBVIOUS
<1>1. \A j \in Job : status[j] = "ABSENT"
  BY DEF Init
<1>2. \A j \in Job : Phase(j) = "unborn"
  BY <1>1, InvInit, PhaseValue DEF IInv, TypeOK
<1> QED BY <1>2 DEF Init, Lease!Init

\* Tools that work belong to a phase that allows it.
LEMMA LeaseSilent == IInv => Lease!Silent
<1> SUFFICES ASSUME IInv, NEW j \in BusyJobs
             PROVE  PhaseOf[j] \notin {"unborn", "waiting", "cancelled"}
  BY DEF Lease!Silent, PhaseOf, BusyJobs
<1>1. PICK t \in Token : tools[t] # {} /\ j = issued[t]
  BY DEF BusyJobs
<1>2. j \in Job /\ status[j] \in Claimed \union {"SUCCESS", "FAILED"}
  BY <1>1, AliveJob
<1> QED BY <1>2, PhaseValue DEF PhaseOf, IInv, TypeOK, Claimed, Running

\* An asset is leased once.
LEMMA LeaseExclusive == IInv => Lease!Exclusive
<1> SUFFICES ASSUME IInv, NEW j \in Job, NEW k \in Job, PhaseOf[j] \in Lease!Live, PhaseOf[k] \in Lease!Live,
                    asset[j] = asset[k]
             PROVE  j = k
  BY DEF Lease!Exclusive, PhaseOf
<1>1. status[j] \in Active /\ status[k] \in Active
  BY PhaseValue DEF PhaseOf, Lease!Live, IInv, TypeOK, Active, Claimed
<1> QED BY <1>1, ExclusiveFromInv DEF AssetExclusive

LeaseTypes ==
  /\ PhaseOf \in [Job -> Lease!Phase]
  /\ asset \in [Job -> Asset \union {NoAsset}]
  /\ BusyJobs \in SUBSET Job

\* The mapped variables have the types of the lease.
LEMMA LeaseTyped == IInv => LeaseTypes
  BY PhaseValue, AliveJob DEF LeaseTypes, PhaseOf, BusyJobs, IInv, TypeOK, RowsTyped

\* A job moves along the edges of its life.
LEMMA LeaseEdge ==
  ASSUME RowsTyped, RowsTyped', NEW j \in Job, RowEdge(j)
  PROVE  /\ PhaseOf'[j] # PhaseOf[j] => <<PhaseOf[j], PhaseOf'[j]>> \in Lease!Edge
         /\ asset'[j] # asset[j] => PhaseOf[j] = "unborn" /\ PhaseOf'[j] = "waiting"
<1> USE DEF Phase, PhaseOf, Running, Claimed, Lease!Edge
<1>1. CASE Stays(j)
  BY <1>1 DEF Stays, RowsTyped, Active, Terminal
<1>2. CASE Enqueued(j)
  BY <1>2 DEF Enqueued
<1>3. CASE ClaimedNow(j)
  BY <1>3 DEF ClaimedNow
<1>4. CASE Moved(j)
  BY <1>4 DEF Moved
<1>5. CASE Settled(j)
  BY <1>5 DEF Settled
<1> QED BY <1>1, <1>2, <1>3, <1>4, <1>5 DEF RowEdge

\* Every step of the queue is a step of the lease, or none.
LEMMA LeaseNext == IInv /\ IInv' /\ [Next]_vars => Lease!Next
<1>1. IInv' => LeaseTypes'
  BY LeaseTyped, PTL
<1>2. IInv' => Lease!Exclusive' /\ Lease!Silent'
  BY LeaseExclusive, LeaseSilent, PTL
<1>3. ASSUME IInv, IInv', [Next]_vars, NEW j \in Job
      PROVE  /\ PhaseOf'[j] # PhaseOf[j] => <<PhaseOf[j], PhaseOf'[j]>> \in Lease!Edge
             /\ asset'[j] # asset[j] => PhaseOf[j] = "unborn" /\ PhaseOf'[j] = "waiting"
  BY <1>3, RowEdges, LeaseEdge DEF IInv, TypeOK
<1> QED BY <1>1, <1>2, <1>3 DEF Lease!Next, LeaseTypes, PhaseOf, BusyJobs

\* The queue keeps the promise of AssetLease: a job lives its life once, an
\* asset is lent to one live job, and a cancelled job is silent for good.
THEOREM QueueImplementsLease == Spec => ImplementsLease
  BY LeaseInit, LeaseNext, Invariance, PTL DEF Spec, ImplementsLease, Lease!Spec

-----------------------------------------------------------------------------
(* The claims of the queue live the life of ToolLife *)

\* Steps of a worker whose executor is open, and how far a claim has come.
AtTools == {"run", "stop", "close"}
LifeOf(t) ==
  IF t \notin started THEN "new"
  ELSE IF \E w \in Worker : mine[w] = t /\ pc[w] \in {"run", "stop", "close"} THEN "open" ELSE "over"
LifePhase == [t \in Token |-> LifeOf(t)]

\* A worker at its tools has an open claim of its own, which has no receipt.
LEMMA LifeFacts ==
  ASSUME IInv, NEW w \in Worker, pc[w] \in AtTools
  PROVE  /\ mine[w] \in Token /\ mine[w] \in started /\ LifePhase[mine[w]] = "open"
         /\ \A v \in Worker : mine[v] = mine[w] => v = w
         /\ receipt[mine[w]] = "none"
<1>1. pc[w] # "idle" /\ pc[w] \in BeforeReceipt
  BY DEF AtTools, BeforeReceipt
<1>2. mine[w] \in Token /\ \A v \in Worker : mine[v] = mine[w] => v = w
  BY <1>1, OwnToken DEF IInv
<1>3. mine[w] \in started
  BY DEF AtTools, IInv, ToolInv
<1>4. receipt[mine[w]] = "none"
  BY <1>1 DEF IInv, StopInv
<1> QED BY <1>2, <1>3, <1>4 DEF LifePhase, LifeOf, AtTools

\* No claim opens or ends while no worker comes to its tools or leaves them.
LEMMA LifeFrame ==
  ASSUME UNCHANGED started,
         \A v \in Worker : pc[v] \in AtTools \/ pc'[v] \in AtTools =>
                             mine'[v] = mine[v] /\ pc[v] \in AtTools /\ pc'[v] \in AtTools
  PROVE  LifePhase' = LifePhase
<1>1. ASSUME NEW t \in Token PROVE LifeOf(t)' = LifeOf(t)
  BY DEF LifeOf, AtTools
<1> QED BY <1>1 DEF LifePhase

\* A worker that leaves its tools ends its claim and no other.
LEMMA LifeEnds ==
  ASSUME IInv, NEW w \in Worker, pc[w] \in AtTools, pc'[w] \notin AtTools, UNCHANGED started,
         \A v \in Worker \ {w} : pc'[v] = pc[v] /\ mine'[v] = mine[v]
  PROVE  LifePhase' = [LifePhase EXCEPT ![mine[w]] = "over"]
<1>1. mine[w] \in Token /\ mine[w] \in started /\ \A v \in Worker : mine[v] = mine[w] => v = w
  BY LifeFacts
<1>2. ASSUME NEW t, t = mine[w] PROVE LifeOf(t)' = "over"
  <2>1. ASSUME NEW v \in Worker, mine'[v] = mine[w], pc'[v] \in AtTools PROVE FALSE
    <3>1. v # w
      BY <2>1
    <3> QED BY <1>1, <2>1, <3>1
  <2> QED BY <1>1, <1>2, <2>1 DEF LifeOf, AtTools
<1>3. ASSUME NEW t \in Token \ {mine[w]} PROVE LifeOf(t)' = LifeOf(t)
  BY <1>1, <1>3 DEF LifeOf, AtTools
<1> QED BY <1>1, <1>2, <1>3 DEF LifePhase

\* An executor that is entered opens its claim and no other.
LEMMA LifeOpens ==
  ASSUME IInv, NEW w \in Worker, pc[w] = "enter", pc'[w] = "run", mine' = mine,
         started' = started \union {mine[w]}, \A v \in Worker \ {w} : pc'[v] = pc[v]
  PROVE  /\ mine[w] \in Token /\ LifePhase[mine[w]] = "new"
         /\ LifePhase' = [LifePhase EXCEPT ![mine[w]] = "open"]
<1>1. mine[w] \in Token /\ mine[w] \notin started /\ \A v \in Worker : mine[v] = mine[w] => v = w
  BY OwnToken DEF IInv, ToolInv
<1>2. LifeOf(mine[w]) = "new"
  BY <1>1 DEF LifeOf
<1>3. ASSUME NEW t, t = mine[w] PROVE LifeOf(t)' = "open"
  BY <1>3 DEF LifeOf
<1>4. ASSUME NEW t \in Token \ {mine[w]} PROVE LifeOf(t)' = LifeOf(t)
  BY <1>1, <1>4 DEF LifeOf
<1>5. LifeOf(mine[w])' = "open"
  BY <1>3
<1> QED BY <1>1, <1>2, <1>4, <1>5 DEF LifePhase

\* Nothing happens to a claim.
LEMMA LifeStutters ==
  ASSUME LifePhase' = LifePhase, UNCHANGED <<tools, dirty, receipt>>
  PROVE  UNCHANGED Life!vars
  BY DEF LifePhase, LifeOf, Life!vars

\* What a step has to do to be one of ToolLife's.
LEMMA LifeSteps ==
  ASSUME NEW c \in Token
  PROVE  /\ /\ LifePhase[c] = "new" /\ LifePhase' = [LifePhase EXCEPT ![c] = "open"]
            /\ UNCHANGED <<tools, dirty, receipt>>
            => Life!Open(c)
         /\ /\ LifePhase[c] = "open" /\ LifePhase' = LifePhase /\ UNCHANGED <<dirty, receipt>>
            /\ tools' = [tools EXCEPT ![c] = @ \union {"owned"}]
            => Life!Start(c)
         /\ /\ LifePhase[c] = "open" /\ LifePhase' = LifePhase /\ UNCHANGED <<dirty, receipt>>
            /\ tools' = [tools EXCEPT ![c] = @ \ {"owned"}]
            => Life!Exit(c)
         /\ /\ LifePhase[c] = "open" /\ LifePhase' = LifePhase /\ UNCHANGED receipt
            /\ tools' = [tools EXCEPT ![c] = (@ \ {"owned"}) \union {"orphan"}] /\ dirty' = dirty \union {c}
            => Life!GiveUp(c)
         /\ /\ LifePhase' = LifePhase /\ tools' = [tools EXCEPT ![c] = @ \ {"orphan"}]
            /\ UNCHANGED <<dirty, receipt>>
            => Life!OrphanEnds(c)
  BY DEF LifePhase, LifeOf, Life!Open, Life!Start, Life!Exit, Life!GiveUp, Life!OrphanEnds

\* The same for the steps that end a claim.
LEMMA LifeEndings ==
  ASSUME NEW c \in Token, LifePhase[c] = "open", LifePhase' = [LifePhase EXCEPT ![c] = "over"]
  PROVE  /\ /\ "owned" \notin tools[c] /\ UNCHANGED <<tools, dirty>>
            /\ \E r \in {"none", IF c \in dirty THEN "unconfirmed" ELSE "confirmed"} :
                  receipt' = [receipt EXCEPT ![c] = r]
            => Life!Close(c)
         /\ /\ UNCHANGED <<dirty, receipt>>
            /\ \E left \in {{}, {"orphan"}} : tools' = [tools EXCEPT ![c] = (@ \ {"owned"}) \union left]
            => Life!Die(c)
  BY DEF LifePhase, LifeOf, Life!Close, Life!Die

\* At first no claim has begun.
LEMMA LifeInit == Init => Life!Init
<1> SUFFICES ASSUME Init PROVE Life!Init
  OBVIOUS
<1> QED BY DEF Init, Life!Init

\* Each step of the queue is a step of one claim's life, or of none.
LEMMA LifeNext == IInv /\ [Next]_vars => [Life!Next]_(Life!vars)
<1> SUFFICES ASSUME IInv, [Next]_vars PROVE Life!Next \/ UNCHANGED Life!vars
  OBVIOUS
<1> DEFINE Lives == \/ UNCHANGED Life!vars
                    \/ \E c \in Token : \/ Life!Open(c) \/ Life!Start(c) \/ Life!Exit(c) \/ Life!Doubt(c)
                                         \/ Life!GiveUp(c) \/ Life!Close(c) \/ Life!Die(c) \/ Life!OrphanEnds(c)
<1> SUFFICES Lives
  BY DEF Life!Next
<1>0. WorkersTyped /\ ExecsTyped
  BY DEF IInv, TypeOK
<1>1. ASSUME UNCHANGED <<workers, execs>> PROVE Lives
  <2>1. LifePhase' = LifePhase
    BY <1>1, LifeFrame DEF workers, execs
  <2> QED BY <1>1, <2>1, LifeStutters DEF execs
<1>2. ASSUME NEW t \in Token, OrphanExits(t) PROVE Lives
  <2>1. LifePhase' = LifePhase
    BY <1>2, LifeFrame DEF OrphanExits, workers
  <2> QED BY <1>2, <2>1, LifeSteps DEF OrphanExits
<1>3. ASSUME NEW w \in Worker, WorkerStep(w), ~RecoverOnly(w), ~Heartbeat(w) PROVE Lives
  \* away from the tools, and at them without a new process or an end
  <2>1. ASSUME UNCHANGED execs, pc[w] \notin AtTools, pc'[w] \notin AtTools,
               \A v \in Worker \ {w} : pc'[v] = pc[v] /\ mine'[v] = mine[v]
        PROVE  Lives
    <3>1. LifePhase' = LifePhase
      BY <2>1, LifeFrame DEF execs
    <3> QED BY <2>1, <3>1, LifeStutters DEF execs
  <2>2. ASSUME UNCHANGED started, pc[w] \in AtTools, pc'[w] \in AtTools, UNCHANGED mine,
               \A v \in Worker \ {w} : pc'[v] = pc[v]
        PROVE  LifePhase' = LifePhase
    BY <2>2, LifeFrame
  <2>3. ASSUME UNCHANGED execs, NEW h, Proceed(w, h), pc[w] \notin AtTools PROVE Lives
    BY <1>0, <2>1, <2>3 DEF Proceed, Rest, AtTools, WorkersTyped
  <2>4. ASSUME UNCHANGED execs, Rest(w), pc[w] \notin AtTools PROVE Lives
    BY <1>0, <2>1, <2>4 DEF Rest, AtTools, WorkersTyped
  <2>5. CASE Claim(w)
    <3>1. /\ pc[w] = "idle" /\ UNCHANGED <<started, tools, dirty, receipt>>
          /\ pc'[w] = "check" /\ \A v \in Worker \ {w} : pc'[v] = pc[v] /\ mine'[v] = mine[v]
      BY <1>0, <2>5 DEF Claim, WorkersTyped
    <3>2. LifePhase' = LifePhase
      BY <3>1, LifeFrame DEF AtTools
    <3> QED BY <3>1, <3>2, LifeStutters
  <2>6. CASE CheckTarget(w)
    BY <1>0, <2>1, <2>3, <2>6 DEF CheckTarget, AtTools, WorkersTyped
  <2>7. CASE EnterExecution(w)
    <3>1. CASE ~MayRun(w)
      BY <2>3, <2>7, <3>1 DEF EnterExecution, RecordStage, AtTools, execs
    <3>2. CASE MayRun(w)
      <4>1. /\ pc[w] = "enter" /\ pc' = [pc EXCEPT ![w] = "run"] /\ started' = started \union {mine[w]}
            /\ UNCHANGED <<mine, tools, dirty, receipt>>
        BY <2>7, <3>2 DEF EnterExecution
      <4>2. pc'[w] = "run" /\ \A v \in Worker \ {w} : pc'[v] = pc[v]
        BY <1>0, <4>1 DEF WorkersTyped
      <4> QED BY <4>1, <4>2, LifeOpens, LifeSteps
    <3> QED BY <3>1, <3>2
  <2>8. CASE NextStage(w) \/ CallbackRefused(w) \/ ExecutionFails(w)
    <3>1. /\ pc[w] \in AtTools /\ pc'[w] \in AtTools /\ UNCHANGED <<mine, execs>>
          /\ \A v \in Worker \ {w} : pc'[v] = pc[v]
      BY <1>0, <2>8 DEF NextStage, CallbackRefused, ExecutionFails, AbortRun, AtTools, WorkersTyped
    <3> QED BY <2>2, <3>1, LifeStutters DEF execs
  <2>9. CASE StartTool(w) \/ ToolExits(w) \/ HelperLost(w) \/ StopTool(w)
    <3>1. /\ pc[w] \in AtTools /\ pc'[w] \in AtTools /\ UNCHANGED <<mine, started, receipt>>
          /\ \A v \in Worker \ {w} : pc'[v] = pc[v]
      BY <1>0, <2>9 DEF StartTool, ToolExits, HelperLost, StopTool, AtTools, WorkersTyped, workers
    <3>2. mine[w] \in Token /\ LifePhase[mine[w]] = "open" /\ LifePhase' = LifePhase
      BY <2>2, <3>1, LifeFacts
    <3>3. \/ UNCHANGED dirty /\ tools' = [tools EXCEPT ![mine[w]] = @ \union {"owned"}]
          \/ UNCHANGED dirty /\ tools' = [tools EXCEPT ![mine[w]] = @ \ {"owned"}]
          \/ /\ dirty' = dirty \union {mine[w]}
             /\ tools' = [tools EXCEPT ![mine[w]] = (@ \ {"owned"}) \union {"orphan"}]
      BY <2>9 DEF StartTool, ToolExits, HelperLost, StopTool, Abandon
    <3> QED BY <3>1, <3>2, <3>3, LifeSteps
  <2>10. CASE FinishRun(w)
    <3>1. /\ pc[w] = "close" /\ UNCHANGED <<started, tools, dirty>>
          /\ \/ receipt' = receipt
             \/ receipt' = [receipt EXCEPT ![mine[w]] = IF mine[w] \in dirty THEN "unconfirmed" ELSE "confirmed"]
      BY <2>10 DEF FinishRun
    <3>2. pc'[w] \notin AtTools /\ \A v \in Worker \ {w} : pc'[v] = pc[v] /\ mine'[v] = mine[v]
      BY <1>0, <2>10 DEF FinishRun, Proceed, Rest, AtTools, WorkersTyped
    <3>3. /\ mine[w] \in Token /\ LifePhase[mine[w]] = "open" /\ receipt[mine[w]] = "none"
          /\ \A v \in Worker : mine[v] = mine[w] => v = w
      BY <3>1, LifeFacts DEF AtTools
    <3>4. "owned" \notin tools[mine[w]]
      BY <3>1, <3>3 DEF IInv, ToolInv
    <3>5. LifePhase' = [LifePhase EXCEPT ![mine[w]] = "over"]
      BY <3>1, <3>2, LifeEnds DEF AtTools
    <3>6. receipt' = receipt => receipt' = [receipt EXCEPT ![mine[w]] = "none"]
      BY <1>0, <3>3 DEF ExecsTyped
    <3> QED BY <3>1, <3>3, <3>4, <3>5, <3>6, LifeEndings
  <2>11. CASE FinalizeGitSnapshot(w) \/ RejectImport(w)
    BY <2>3, <2>11 DEF FinalizeGitSnapshot, RejectImport, AtTools
  <2>12. CASE StoreStage(w) \/ BeginImport(w)
    BY <1>0, <2>1, <2>3, <2>12 DEF StoreStage, BeginImport, AtTools, WorkersTyped
  <2>13. CASE CommitImport(w) \/ FailJob(w)
    BY <2>4, <2>13 DEF CommitImport, FailJob, AtTools
  <2>14. CASE FinishCancellation(w)
    BY <1>0, <2>1, <2>4, <2>14 DEF FinishCancellation, AtTools, WorkersTyped
  <2>15. CASE Crash(w)
    <3>1. /\ pc[w] # "idle" /\ UNCHANGED <<started, dirty, receipt>> /\ pc'[w] = "idle"
          /\ \A v \in Worker \ {w} : pc'[v] = pc[v] /\ mine'[v] = mine[v]
      BY <1>0, <2>15 DEF Crash, Rest, WorkersTyped
    <3>2. mine[w] \in Token /\ \A v \in Worker : mine[v] = mine[w] => v = w
      BY <3>1, OwnToken DEF IInv
    <3>3. CASE pc[w] \in AtTools
      <4>1. LifePhase[mine[w]] = "open" /\ LifePhase' = [LifePhase EXCEPT ![mine[w]] = "over"]
        BY <3>1, <3>3, LifeFacts, LifeEnds DEF AtTools
      <4>2. \E left \in {{}, {"orphan"}} : tools' = [tools EXCEPT ![mine[w]] = (@ \ {"owned"}) \union left]
        <5>1. CASE Supervised(w)
          BY <2>15, <5>1 DEF Crash
        <5>2. CASE ~Supervised(w)
          <6>1. tools' = tools /\ tools[mine[w]] = (tools[mine[w]] \ {"owned"}) \union {}
            BY <2>15, <5>2 DEF Crash, Supervised
          <6> QED BY <1>0, <3>2, <6>1 DEF ExecsTyped
        <5> QED BY <5>1, <5>2
      <4> QED BY <3>1, <3>2, <4>1, <4>2, LifeEndings
    <3>4. CASE pc[w] \notin AtTools
      <4>1. ~Supervised(w)
        BY <3>2, <3>4 DEF Supervised, IInv, ToolInv, AtTools
      <4>2. UNCHANGED tools
        BY <2>15, <4>1 DEF Crash
      <4>3. LifePhase' = LifePhase
        BY <3>1, <3>4, LifeFrame DEF AtTools
      <4> QED BY <3>1, <4>2, <4>3, LifeStutters
    <3> QED BY <3>3, <3>4
  <2> QED BY <1>3, <2>5, <2>6, <2>7, <2>8, <2>9, <2>10, <2>11, <2>12, <2>13, <2>14, <2>15
          DEF WorkerStep, ExecutorStep
<1> QED BY <1>1, <1>2, <1>3, Bystanders DEF vars

\* What the queue says of the processes of its claims is the life that ToolLife
\* promises, which is what the executor's own steps implement.
THEOREM ClaimsLiveTheirLife == Spec => ImplementsLife
  BY LifeInit, LifeNext, Invariance, PTL DEF Spec, ImplementsLife, Life!Spec

-----------------------------------------------------------------------------
(* Results and settings *)

\* An edit has seen only rows that are there, none of them live in its asset, and
\* what is about to be committed fits the settings, or an edit overtook it.
TargetInv ==
  /\ \A c \in Client : request[c].op = "update" =>
       \A j \in request[c].jobs :
         /\ status[j] # "ABSENT"
         /\ asset[j] = request[c].asset => active[j] = NoAsset
  /\ \A w \in Worker : pc[w] = "commit" => TargetMatches(job[w]) \/ job[w] \in overtaken

\* A row that an import holds keeps the settings it was made with.
LEMMA HeldRow ==
  ASSUME IInv, [Next]_vars, NEW w \in Worker, pc[w] = "commit"
  PROVE  /\ job[w] \in Job /\ asset[job[w]] \in Asset /\ active[job[w]] = asset[job[w]]
         /\ active[job[w]] # NoAsset
         /\ asset'[job[w]] = asset[job[w]]
         /\ snapshot'[job[w]].input = snapshot[job[w]].input
         /\ snapshot'[job[w]].target = snapshot[job[w]].target
<1> DEFINE k == job[w]
<1>1. k \in Job /\ status[k] \in Running
  BY OwnToken DEF IInv, WorkerInv, OwnsRow
<1>2. status[k] \in Active /\ status[k] # "ABSENT"
  BY <1>1 DEF Active, Claimed, Running
<1> HIDE DEF k
<1>3. active[k] = asset[k] /\ asset[k] \in Asset /\ active[k] # NoAsset
  BY <1>1, <1>2, ConstantsAssumption DEF IInv, RowInv
<1>4. asset'[k] = asset[k]
  BY <1>1, <1>2, RowEdges DEF IInv, RowEdge, Stays, Enqueued, ClaimedNow, Moved, Settled, Running
<1>5. snapshot'[k].input = snapshot[k].input /\ snapshot'[k].target = snapshot[k].target
  <2>0. snapshot \in [Job -> Snapshot]
    BY DEF IInv, TypeOK, RowsTyped
  <2>1. ASSUME NEW c \in Client, CommitEnqueue(c) PROVE snapshot'[k] = snapshot[k]
    BY <1>1, <1>2, <2>0, <2>1 DEF CommitEnqueue, IsNextId
  <2>2. ASSUME NEW v \in Worker, FinalizeGitSnapshot(v)
        PROVE  snapshot'[k].input = snapshot[k].input /\ snapshot'[k].target = snapshot[k].target
    <3>1. ASSUME NEW j \in Job, snapshot' = [snapshot EXCEPT ![j].secret = FALSE] 
          PROVE  snapshot'[k].input = snapshot[k].input /\ snapshot'[k].target = snapshot[k].target
      BY <1>1, <2>0, <3>1 DEF Snapshot
    <3>2. job[v] \in Job
      BY <2>2, OwnToken DEF FinalizeGitSnapshot, IInv
    <3> QED BY <2>2, <3>1, <3>2 DEF FinalizeGitSnapshot
  <2>3. CASE UNCHANGED snapshot
    BY <2>3
  <2>4. ASSUME NEW c \in Client, HandlerStep(c), ~CommitEnqueue(c) PROVE UNCHANGED snapshot
    BY <2>4 DEF HandlerStep, ReadForEnqueue, LoseEnqueue, ReadForUpdate, CommitUpdate, rows
  <2>5. ASSUME NEW j \in Job, CancelAnalysis(j) \/ LeaseExpires(j) PROVE UNCHANGED snapshot
    BY <2>5 DEF CancelAnalysis, LeaseExpires
  <2>6. ASSUME NEW v \in Worker, WorkerStep(v), ~FinalizeGitSnapshot(v) PROVE UNCHANGED snapshot
    BY <2>6 DEF WorkerStep, ExecutorStep, Claim, RecoverOnly, RecoverAndClaim, CheckTarget, EnterExecution,
         Heartbeat, NextStage, StartTool, ToolExits, HelperLost, CallbackRefused, ExecutionFails, AbortRun,
         StopTool, FinishRun, StoreStage, BeginImport, CommitImport, RejectImport, FinishCancellation,
         FailJob, Crash, rows
  <2> QED BY <2>1, <2>2, <2>3, <2>4, <2>5, <2>6 DEF Next, OrphanExits, vars, rows
<1> QED BY <1>1, <1>3, <1>4, <1>5 DEF k

\* Only a commit of a request changes settings or requests; only a read begins one.
LEMMA HandlerEdges ==
  ASSUME IInv, [Next]_vars
  PROVE  \/ UNCHANGED <<target, overtaken, request>>
         \/ \E c \in Client : HandlerStep(c)
<1>1. ASSUME NEW j \in Job, CancelAnalysis(j) \/ LeaseExpires(j) PROVE UNCHANGED <<target, overtaken, request>>
  BY <1>1 DEF CancelAnalysis, LeaseExpires
<1>2. ASSUME NEW v \in Worker, WorkerStep(v) PROVE UNCHANGED <<target, overtaken, request>>
  BY <1>2 DEF WorkerStep, ExecutorStep, Claim, RecoverOnly, RecoverAndClaim, CheckTarget, EnterExecution,
       Heartbeat, NextStage, StartTool, ToolExits, HelperLost, CallbackRefused, ExecutionFails, AbortRun,
       StopTool, FinishRun, FinalizeGitSnapshot, StoreStage, BeginImport, CommitImport, RejectImport,
       FinishCancellation, FailJob, Crash
<1> QED BY <1>1, <1>2 DEF Next, OrphanExits, vars

\* A row that is there stays, and is not made live again or moved.
LEMMA SeenRow ==
  ASSUME IInv, [Next]_vars, NEW j \in Job, status[j] # "ABSENT"
  PROVE  /\ status'[j] # "ABSENT"
         /\ asset'[j] = asset[j]
         /\ active[j] = NoAsset => active'[j] = NoAsset
<1>0. status \in [Job -> {"ABSENT"} \union Active \union Terminal]
  BY DEF IInv, TypeOK, RowsTyped
<1>1. RowEdge(j) /\ ~Enqueued(j)
  BY RowEdges DEF IInv, Enqueued
<1>2. RowInv'
  BY InvStep DEF IInv
<1>3. status'[j] # "ABSENT" /\ asset'[j] = asset[j]
  BY <1>0, <1>1 DEF RowEdge, Stays, ClaimedNow, Moved, Settled, Active, Claimed, Running, Terminal
<1>4. ASSUME active[j] = NoAsset PROVE active'[j] = NoAsset
  <2>1. status[j] \notin Active
    BY <1>4, ConstantsAssumption DEF IInv, RowInv
  <2>2. status'[j] \notin Active
    BY <1>1, <2>1 DEF RowEdge, Stays, ClaimedNow, Moved, Settled, Active, Claimed, Running
  <2> QED BY <1>2, <2>2 DEF RowInv
<1> QED BY <1>3, <1>4

\* An import transaction begins with settings that fit.
LEMMA CommitBegins ==
  ASSUME IInv, [Next]_vars, NEW w \in Worker, pc[w] # "commit", pc'[w] = "commit"
  PROVE  job'[w] = job[w] /\ TargetMatches(job[w]) /\ UNCHANGED <<rows, target>>
<1>0. WorkersTyped
  BY DEF IInv, TypeOK
<1>1. ASSUME UNCHANGED pc PROVE FALSE
  BY <1>1
<1>2. ASSUME NEW v \in Worker, NEW next, pc' = [pc EXCEPT ![v] = next], next # "commit" PROVE FALSE
  BY <1>0, <1>2 DEF WorkersTyped
<1>3. ASSUME NEW v \in Worker, NEW h, Proceed(v, h) PROVE FALSE
  BY <1>2, <1>3 DEF Proceed, Rest
<1>4. ASSUME NEW v \in Worker, WorkerStep(v), ~BeginImport(v) PROVE FALSE
  <2>1. CASE \/ Claim(v) \/ CheckTarget(v) \/ EnterExecution(v) \/ NextStage(v) \/ CallbackRefused(v)
             \/ ExecutionFails(v) \/ StopTool(v)
    BY <1>1, <1>2, <1>3, <2>1 DEF Claim, CheckTarget, EnterExecution, NextStage, CallbackRefused,
         ExecutionFails, AbortRun, StopTool
  <2>2. CASE FinishRun(v) \/ FinalizeGitSnapshot(v) \/ StoreStage(v) \/ RejectImport(v)
    BY <1>2, <1>3, <2>2 DEF FinishRun, FinalizeGitSnapshot, StoreStage, RejectImport
  <2>3. CASE CommitImport(v) \/ FinishCancellation(v) \/ FailJob(v) \/ Crash(v)
    BY <1>2, <2>3 DEF CommitImport, FinishCancellation, FailJob, Crash, Rest
  <2>4. CASE RecoverOnly(v) \/ Heartbeat(v) \/ StartTool(v) \/ ToolExits(v) \/ HelperLost(v)
    BY <1>1, <2>4 DEF RecoverOnly, Heartbeat, StartTool, ToolExits, HelperLost, workers
  <2> QED BY <1>4, <2>1, <2>2, <2>3, <2>4 DEF WorkerStep, ExecutorStep
<1>5. PICK v \in Worker : BeginImport(v)
  BY <1>1, <1>4, Bystanders DEF vars, workers, OrphanExits
<1>6. MayRun(v) /\ TargetMatches(job[v]) /\ pc' = [pc EXCEPT ![v] = "commit"] /\ UNCHANGED job
  BY <1>3, <1>5 DEF BeginImport
<1>7. v = w
  BY <1>0, <1>6 DEF WorkersTyped
<1> QED BY <1>5, <1>6, <1>7 DEF BeginImport

\* What an edit has seen stays seen.
LEMMA SeenStep ==
  ASSUME IInv, TargetInv, [Next]_vars, NEW c \in Client, request'[c].op = "update", NEW j \in request'[c].jobs
  PROVE  status'[j] # "ABSENT" /\ (asset'[j] = request'[c].asset => active'[j] = NoAsset)
<1>0. request \in [Client -> Request] /\ asset \in [Job -> Asset \union {NoAsset}]
  BY DEF IInv, TypeOK, RowsTyped
<1>1. CASE request'[c] = request[c]
  <2>1. request[c].op = "update" /\ j \in request[c].jobs
    BY <1>1
  <2>2. j \in Job
    BY <1>0, <2>1 DEF Request
  <2>3. status[j] # "ABSENT" /\ (asset[j] = request[c].asset => active[j] = NoAsset)
    BY <2>1 DEF TargetInv
  <2> QED BY <1>1, <2>2, <2>3, SeenRow
<1>2. CASE request'[c] # request[c]
  <2>1. PICK d \in Client : HandlerStep(d)
    BY <1>2, HandlerEdges
  <2>2. ASSUME request' = [request EXCEPT ![d] = NoRequest] PROVE FALSE
    BY <1>0, <1>2, <2>2 DEF NoRequest
  <2>3. ~ReadForEnqueue(d)
    <3>1. ASSUME NEW r, r.op = "enqueue", request' = [request EXCEPT ![d] = r] PROVE FALSE
      BY <1>0, <1>2, <3>1
    <3>2. ASSUME ReadForEnqueue(d) PROVE \E r : r.op = "enqueue" /\ request' = [request EXCEPT ![d] = r]
      BY <3>2 DEF ReadForEnqueue
    <3> QED BY <3>1, <3>2
  <2>4. ReadForUpdate(d)
    BY <2>1, <2>2, <2>3 DEF HandlerStep, CommitEnqueue, LoseEnqueue, CommitUpdate
  <2>5. PICK a \in Asset, v \in Target :
          /\ \A i \in Job : asset[i] = a => active[i] = NoAsset
          /\ request' = [request EXCEPT ![d] = [op |-> "update", asset |-> a, target |-> v, jobs |-> Rows]]
    BY <2>4 DEF ReadForUpdate
  <2>6. request'[c].asset = a /\ request'[c].jobs = Rows
    BY <1>0, <1>2, <2>5
  <2>7. UNCHANGED <<status, asset, active>>
    BY <2>4 DEF ReadForUpdate, rows
  <2> QED BY <2>5, <2>6, <2>7 DEF Rows
<1> QED BY <1>1, <1>2

\* Settings change under a live row only by an edit that overtakes it.
LEMMA SettingsStep ==
  ASSUME IInv, TargetInv, [Next]_vars, NEW k \in Job, asset[k] \in Asset, active[k] = asset[k], active[k] # NoAsset
  PROVE  target'[asset[k]] = target[asset[k]] \/ k \in overtaken'
<1>0. request \in [Client -> Request] /\ target \in [Asset -> Target]
  BY DEF IInv, TypeOK
<1>1. CASE UNCHANGED target
  BY <1>1
<1>2. ASSUME NEW c \in Client, CommitUpdate(c), request[c].asset # asset[k]
      PROVE  target'[asset[k]] = target[asset[k]]
  BY <1>0, <1>2 DEF CommitUpdate
<1>3. ASSUME NEW c \in Client, CommitUpdate(c), request[c].asset = asset[k]
      PROVE  k \in overtaken'
  <2>1. request[c].op = "update" /\ k \notin request[c].jobs
    BY <1>3 DEF CommitUpdate, TargetInv
  <2> QED BY <1>3, <2>1 DEF CommitUpdate
<1>4. ASSUME NEW c \in Client, HandlerStep(c), ~CommitUpdate(c) PROVE UNCHANGED target
  BY <1>4 DEF HandlerStep, ReadForEnqueue, CommitEnqueue, LoseEnqueue, ReadForUpdate
<1> QED BY <1>1, <1>2, <1>3, <1>4, HandlerEdges

\* What was overtaken stays so.
LEMMA OvertakenStays ==
  ASSUME IInv, [Next]_vars PROVE overtaken \subseteq overtaken'
  BY HandlerEdges DEF HandlerStep, ReadForEnqueue, CommitEnqueue, LoseEnqueue, ReadForUpdate, CommitUpdate

\* Every step keeps both.
LEMMA TargetStep ==
  ASSUME IInv, IInv', TargetInv, [Next]_vars
  PROVE  TargetInv'
<1>2. ASSUME NEW w \in Worker, pc'[w] = "commit" PROVE TargetMatches(job[w])' \/ job'[w] \in overtaken'
  <2>1. CASE pc[w] # "commit"
    BY <1>2, <2>1, CommitBegins DEF TargetMatches, rows
  <2>2. CASE pc[w] = "commit"
    <3> DEFINE k == job[w]
    <3>1. /\ k \in Job /\ asset[k] \in Asset /\ active[k] = asset[k] /\ active[k] # NoAsset
          /\ asset'[k] = asset[k]
          /\ snapshot'[k].input = snapshot[k].input /\ snapshot'[k].target = snapshot[k].target
      BY <2>2, HeldRow
    <3>2. job'[w] = k
      BY <1>2, WorkerEdges DEF IInv, WorkerEdge, Claims, Rests, Goes
    <3>3. target'[asset[k]] = target[asset[k]] \/ k \in overtaken'
      BY <3>1, SettingsStep
    <3>4. TargetMatches(k) \/ k \in overtaken
      BY <2>2 DEF TargetInv
    <3> QED BY <3>1, <3>2, <3>3, <3>4, OvertakenStays DEF TargetMatches
  <2> QED BY <2>1, <2>2
<1> QED BY <1>2, SeenStep DEF TargetInv

\* A result is attributed to the settings it was collected with, unless an edit
\* that had looked before the job was queued overtook it: the second look of the
\* import, and the refusal of edits that see the job, leave no other way.
THEOREM ResultsFitTheirTarget == Spec => ResultFitsUnlessOvertaken
<1>1. Init => TargetInv
  BY DEF Init, TargetInv, NoRequest
<1>2. IInv /\ IInv' /\ TargetInv /\ [Next]_vars => TargetInv'
  BY TargetStep
<1>3. IInv /\ IInv' /\ TargetInv /\ [Next]_vars =>
        [\A j \in Job : status[j] # "SUCCESS" /\ status'[j] = "SUCCESS" => TargetMatches(j)' \/ j \in overtaken]_vars
  <2> SUFFICES ASSUME IInv, IInv', TargetInv, [Next]_vars,
                      NEW j \in Job, status[j] # "SUCCESS", status'[j] = "SUCCESS"
               PROVE  TargetMatches(j)' \/ j \in overtaken
    OBVIOUS
  <2>1. PICK w \in Worker : CommitImport(w) /\ job[w] = j
    <3>1. run[j] = NoToken /\ run'[j] # NoToken
      BY DEF IInv, ResultInv
    <3> QED BY <3>1, SuccessBy DEF IInv
  <2>2. TargetMatches(j) \/ j \in overtaken
    BY <2>1 DEF CommitImport, TargetInv
  <2> QED BY <2>1, <2>2 DEF CommitImport, TargetMatches
<1> QED BY <1>1, <1>2, <1>3, Invariance, PTL DEF Spec, ResultFitsUnlessOvertaken
=============================================================================
