-------------------------- MODULE MCAnalysisJobs --------------------------
EXTENDS AnalysisJobs, TLC
Symmetry == Permutations(Token) \union Permutations(Worker) \union Permutations(Client)

(* Bounds of jobs_recovery *)

\* Only the first row is of a Git repository, the rows after it are of SSH targets.
GitFirst ==
  /\ \A j \in Job : snapshot[j].input = "git" => j = 1
  /\ \A c \in Client : request[c].op = "enqueue" /\ request[c].snapshot.input = "git" => status[1] = "ABSENT"

\* Of two requests in flight one enqueues and one edits; jobs_queue has two that enqueue.
OneOfAKind ==
  \A c, d \in Client : request[c].op = request[d].op /\ request[c].op # "none" => c = d
===========================================================================
