--------------------------- MODULE ExecutorCleanup ---------------------------
(***************************************************************************)
(* One run of execute_analysis and the commands it makes: process groups   *)
(* on the worker (_Run.local), commands over SSH (_Run.remote), and the    *)
(* one remote scan that has a pid file by which it can be killed           *)
(* (_cancel_remote).  The question is what the receipt is worth.           *)
(*                                                                         *)
(* On the worker, the group of a command is the tool ("leader") and what   *)
(* it forks ("child").  On the target, a shell forks a process ("forked")  *)
(* that makes a group of its own and becomes the tool ("tool"); the shell  *)
(* does not wait for that before it writes the pid file, and in the end it *)
(* reports the exit status over the channel.  Output, its limits and its   *)
(* checks are left out: a command may succeed or fail.                     *)
(***************************************************************************)
EXTENDS Naturals, Sequences

CONSTANTS
  Profile,   \* the inputs to analyse, of {"ssh", "zip", "git"}
  Forking,   \* tools on the worker fork (git does)
  Faults,    \* connections drop, signals fail, files cannot be written
  Crashes    \* the worker may die between any two steps

ASSUME ExecutorAssumption ==
  /\ Profile \subseteq {"ssh", "zip", "git"}
  /\ Forking \in BOOLEAN
  /\ Faults \in BOOLEAN
  /\ Crashes \in BOOLEAN

\* A command: where it runs, whether the analysis goes on when it fails, and
\* whether it may be skipped.
Call == [kind : {"local", "plain", "grouped"}, helper : BOOLEAN, optional : BOOLEAN]

Local    == [kind |-> "local", helper |-> FALSE, optional |-> FALSE]
Plain    == [kind |-> "plain", helper |-> FALSE, optional |-> FALSE]
Grouped  == [kind |-> "grouped", helper |-> FALSE, optional |-> FALSE]
Helper   == [Plain EXCEPT !.helper = TRUE]
Convert  == [Local EXCEPT !.optional = TRUE]
Second   == [Local EXCEPT !.helper = TRUE, !.optional = TRUE]

\* The commands of execute_analysis in their order.  Over SSH: the versions of
\* the two tools, architecture, distribution, the installed tool before and
\* after its transfer, the scan, host facts, package updates; then, for every
\* input, conversion, Grype and the second scanner.
Calls(p) ==
  CASE p = "ssh" -> <<Local, Local, Plain, Plain, Plain, Plain, Grouped, Helper, Helper, Local, Local, Second>>
    [] p = "zip" -> <<Local, Local, Local, Convert, Local, Second>>
    [] p = "git" -> <<Local, Local, Local, Local, Local, Convert, Local, Second>>

VARIABLES
  profile,   \* input_type of the snapshot
  pc,        \* where execute_analysis is
  at,        \* the command it makes next, or makes
  outcome,   \* "ok", or the exception: "cancel", "tool" (AnalysisExecutionError), "io"
  alive,     \* processes of the command that is being made
  killed,    \* its group was sent SIGKILL
  shell,     \* how far the shell of a remote command is
  channel,   \* the worker has the command's channel
  link,      \* the SSH connection: "up" or "down"
  left,      \* commands that were given up and may still be running
  missed,    \* history: commands whose group was looked for before it was there
  dirty,     \* not run.cleanup_confirmed
  receipt    \* manifest.json: "none", "confirmed" or "unconfirmed", once finished

command == <<alive, killed, shell, channel>>
vars    == <<profile, pc, at, outcome, command, link, left, missed, dirty, receipt>>

Init ==
  /\ profile \in Profile
  /\ pc = "start"
  /\ at = 1
  /\ outcome = "ok"
  /\ alive = {} /\ killed = FALSE
  /\ shell = "none" /\ channel = FALSE
  /\ link = "up"
  /\ left = {} /\ missed = {}
  /\ dirty = FALSE
  /\ receipt = "none"

\* The call being made.
This == Calls(profile)[at]

Raise(o, next) == outcome' = o /\ pc' = next

-----------------------------------------------------------------------------
(* execute_analysis between two commands *)

\* _Run.__init__ makes the directory and the first manifest.
Enter ==
  /\ pc = "start"
  /\ \/ Raise("ok", "between")
     \/ Faults /\ Raise("io", "over")
  /\ UNCHANGED <<profile, at, command, link, left, missed, dirty, receipt>>

\* The callback refuses, at a stage or in front of a command.
CallbackRefuses ==
  /\ pc = "between"
  /\ Raise("cancel", "close")
  /\ UNCHANGED <<profile, at, command, link, left, missed, dirty, receipt>>

\* An output is unusable, the connection cannot be made, a file not written.
CheckFails ==
  /\ pc = "between"
  /\ \E o \in {"tool", "io"} : Raise(o, "close")
  /\ UNCHANGED <<profile, at, command, link, left, missed, dirty, receipt>>

\* Mutant: the command after the one that is skipped is lost.
SkipTwo ==
  /\ pc = "between"
  /\ at <= Len(Calls(profile))
  /\ This.optional
  /\ at' = at + 2
  /\ UNCHANGED <<profile, pc, outcome, command, link, left, missed, dirty, receipt>>

\* A conversion after the AI reference, a second scanner that is not installed.
Skip ==
  /\ pc = "between"
  /\ at <= Len(Calls(profile))
  /\ This.optional
  /\ at' = at + 1
  /\ UNCHANGED <<profile, pc, outcome, command, link, left, missed, dirty, receipt>>

ResultReady ==
  /\ pc = "between"
  /\ at > Len(Calls(profile))
  /\ pc' = "close"
  /\ UNCHANGED <<profile, at, outcome, command, link, left, missed, dirty, receipt>>

-----------------------------------------------------------------------------
(* _Run.local *)

Popen ==
  /\ pc = "between"
  /\ at <= Len(Calls(profile))
  /\ This.kind = "local"
  /\ \/ alive' = {"leader"} /\ pc' = "poll" /\ UNCHANGED outcome
     \/ Faults /\ Raise("tool", "end") /\ UNCHANGED alive
  /\ UNCHANGED <<profile, at, killed, shell, channel, link, left, missed, dirty, receipt>>

\* The loop sees the tool's return code, or a refused callback, a timeout, an
\* output that is too large.
LocalReturns ==
  /\ pc = "poll"
  /\ "leader" \notin alive
  /\ \E o \in {"ok", "tool"} : Raise(o, "kill")
  /\ UNCHANGED <<profile, at, command, link, left, missed, dirty, receipt>>

LocalInterrupted ==
  /\ pc = "poll"
  /\ \E o \in {"cancel", "tool"} : Raise(o, "kill")
  /\ UNCHANGED <<profile, at, command, link, left, missed, dirty, receipt>>

\* os.killpg(SIGKILL); a group that is gone is fine.
KillGroup ==
  /\ pc = "kill"
  /\ \/ killed' = (alive # {}) /\ UNCHANGED dirty
     \/ Faults /\ alive # {} /\ dirty' = TRUE /\ UNCHANGED killed
  /\ pc' = "wait"
  /\ UNCHANGED <<profile, at, outcome, alive, shell, channel, link, left, missed, receipt>>

\* process.wait(timeout=5).
WaitLeader ==
  /\ pc = "wait"
  /\ \/ "leader" \notin alive /\ UNCHANGED dirty
     \/ Faults /\ "leader" \in alive /\ dirty' = TRUE
  /\ pc' = "probe"
  /\ UNCHANGED <<profile, at, outcome, command, link, left, missed, receipt>>

\* Mutant: the group is not looked at once more.
TrustKill ==
  /\ pc = "probe"
  /\ pc' = "end"
  /\ UNCHANGED <<profile, at, outcome, command, link, left, missed, dirty, receipt>>

\* os.killpg(0): only a group that is gone is clean.
ProbeGroup ==
  /\ pc = "probe"
  /\ dirty' = (dirty \/ alive # {})
  /\ pc' = "end"
  /\ UNCHANGED <<profile, at, outcome, command, link, left, missed, receipt>>

-----------------------------------------------------------------------------
(* _Run.remote and _cancel_remote *)

\* exec_command: the channel, or an exception that does not tell whether the
\* target got the request.
Request ==
  /\ pc = "between"
  /\ at <= Len(Calls(profile))
  /\ This.kind # "local"
  /\ \/ /\ link = "up"
        /\ shell' = "starting" /\ channel' = TRUE
        /\ pc' = "watch" /\ UNCHANGED outcome
     \/ /\ Faults
        /\ shell' \in {"none"} \union (IF link = "up" THEN {"starting"} ELSE {})
        /\ Raise("io", "settle") /\ UNCHANGED channel
  /\ UNCHANGED <<profile, at, alive, killed, link, left, missed, dirty, receipt>>

\* The exit status came over the channel: `completed`.
StatusArrives ==
  /\ pc = "watch"
  /\ shell = "gone"
  /\ \E o \in {"ok", "tool"} : Raise(o, "end")
  /\ UNCHANGED <<profile, at, command, link, left, missed, dirty, receipt>>

\* Mutant: the status -1 of a closed channel counts as a return code.
LostIsCompleted ==
  /\ pc = "watch"
  /\ link = "down" /\ shell # "gone"
  /\ Raise("tool", "end")
  /\ UNCHANGED <<profile, at, command, link, left, missed, dirty, receipt>>

\* The channel closed without one: paramiko answers -1.
StatusLost ==
  /\ pc = "watch"
  /\ link = "down" /\ shell # "gone"
  /\ Raise("tool", "settle")
  /\ UNCHANGED <<profile, at, command, link, left, missed, dirty, receipt>>

RemoteInterrupted ==
  /\ pc = "watch"
  /\ \E o \in {"cancel", "tool", "io"} :
       /\ o = "io" => Faults
       /\ Raise(o, "settle")
  /\ UNCHANGED <<profile, at, command, link, left, missed, dirty, receipt>>

StatusKnown == channel /\ shell = "gone"

\* The pid file is there from the moment the shell wrote it until it removes it.
PidFile == This.kind = "grouped" /\ shell = "recorded"

\* The group the pid file names: a process that was forked but has not called
\* setsid yet is still in the shell's.
Group == alive \ {"forked"}

\* The finally block: a known status, or a group that the pid file finds and
\* that is gone or can be killed.  One that is not there yet counts as gone.
SettleRemote ==
  /\ pc = "settle"
  /\ \/ /\ StatusKnown \/ (PidFile /\ link = "up" /\ Group = {})
        /\ missed' = missed \union (IF "forked" \in alive THEN {at} ELSE {})
        /\ pc' = "end" /\ UNCHANGED <<killed, dirty>>
     \/ /\ ~StatusKnown /\ PidFile /\ link = "up" /\ Group # {}
        /\ killed' = TRUE
        /\ pc' = "hunt" /\ UNCHANGED <<missed, dirty>>
     \/ /\ ~StatusKnown
        /\ ~PidFile \/ link = "down" \/ Faults
        /\ dirty' = TRUE
        /\ pc' = "end" /\ UNCHANGED <<missed, killed>>
  /\ UNCHANGED <<profile, at, outcome, alive, shell, channel, link, left, receipt>>

\* Mutant: the answer is waited for without a deadline.
HuntForever ==
  /\ pc = "hunt"
  /\ alive = {} /\ link = "up"
  /\ pc' = "end"
  /\ UNCHANGED <<profile, at, outcome, command, link, left, missed, dirty, receipt>>

\* The shell loop that waits for the group to vanish, and the answer to it.
HuntEnds ==
  /\ pc = "hunt"
  /\ \/ alive = {} /\ link = "up" /\ UNCHANGED dirty
     \/ Faults /\ dirty' = TRUE
  /\ pc' = "end"
  /\ UNCHANGED <<profile, at, outcome, command, link, left, missed, receipt>>

-----------------------------------------------------------------------------
(* The end of a command and of the run *)

\* Processes nobody looks at any more, or a shell that has yet to start one.
Remains == alive # {} \/ shell = "starting"

Forget ==
  /\ alive' = {} /\ killed' = FALSE
  /\ shell' = "none" /\ channel' = FALSE
  /\ left' = IF Remains THEN left \union {at} ELSE left

\* The caller goes on after success and after a helper's AnalysisExecutionError.
GoesOn == outcome = "ok" \/ (outcome = "tool" /\ This.helper)

\* Mutant: a helper swallows whatever is raised.
EndCallQuietly ==
  /\ pc = "end"
  /\ Forget
  /\ IF outcome = "ok" \/ This.helper
       THEN at' = at + 1 /\ Raise("ok", "between")
       ELSE pc' = "close" /\ UNCHANGED <<at, outcome>>
  /\ UNCHANGED <<profile, link, missed, dirty, receipt>>

EndCall ==
  /\ pc = "end"
  /\ Forget
  /\ \/ GoesOn /\ at' = at + 1 /\ Raise("ok", "between")
     \/ ~GoesOn /\ pc' = "close" /\ UNCHANGED <<at, outcome>>
     \/ Faults /\ Raise("io", "close") /\ UNCHANGED at   \* self.save()
  /\ UNCHANGED <<profile, link, missed, dirty, receipt>>

\* client.close() and _Run.finish; when the receipt cannot be written the error
\* is what execute_analysis raises.
Finish ==
  /\ pc = "close"
  /\ \/ /\ receipt' = IF dirty THEN "unconfirmed" ELSE "confirmed"
        /\ pc' = "over" /\ UNCHANGED outcome
     \/ Faults /\ Raise("io", "over") /\ UNCHANGED receipt
  /\ UNCHANGED <<profile, at, command, link, left, missed, dirty>>

-----------------------------------------------------------------------------
(* The environment *)

Busy == {"poll", "kill", "wait", "probe", "watch", "settle", "hunt", "end"}

\* A tool on the worker forks.
Forks ==
  /\ Forking /\ "leader" \in alive /\ ~killed
  /\ alive' = alive \union {"child"}
  /\ UNCHANGED <<profile, pc, at, outcome, killed, shell, channel, link, left, missed, dirty, receipt>>

\* A process ends, by itself or by the signal.
Ends ==
  /\ \E p \in alive : alive' = alive \ {p}
  /\ UNCHANGED <<profile, pc, at, outcome, killed, shell, channel, link, left, missed, dirty, receipt>>

\* The child of the shell gets its group (setsid) and becomes the tool.
GroupForms ==
  /\ "forked" \in alive
  /\ alive' = {"tool"}
  /\ UNCHANGED <<profile, pc, at, outcome, killed, shell, channel, link, left, missed, dirty, receipt>>

\* The shell forks, writes the pid file, waits, removes it, ends; its status
\* reaches the worker while there is a connection.
ShellStep ==
  /\ \/ shell = "starting" /\ alive' = {"forked"} /\ shell' = "started"
     \/ shell = "started" /\ shell' = "recorded" /\ UNCHANGED alive
     \/ shell = "recorded" /\ alive = {} /\ shell' = "cleared" /\ UNCHANGED alive
     \/ shell = "cleared" /\ link = "up" /\ shell' = "gone" /\ UNCHANGED alive
  /\ UNCHANGED <<profile, pc, at, outcome, killed, channel, link, left, missed, dirty, receipt>>

\* _connect comes after the two versions.
Connected == profile = "ssh" /\ at > 2

LinkDrops ==
  /\ Faults
  /\ Connected
  /\ pc \notin {"start", "over", "dead"}
  /\ link = "up"
  /\ link' = "down"
  /\ UNCHANGED <<profile, pc, at, outcome, command, left, missed, dirty, receipt>>

\* The worker dies: what it was running is on its own.
Die ==
  /\ Crashes
  /\ pc \notin {"start", "over", "dead"}
  /\ pc' = "dead"
  /\ Forget
  /\ UNCHANGED <<profile, at, outcome, link, missed, dirty, receipt>>

\* A command that was given up ends (on the target, by its `timeout`).
LeftEnds ==
  /\ \E i \in left : left' = left \ {i}
  /\ UNCHANGED <<profile, pc, at, outcome, command, link, missed, dirty, receipt>>

-----------------------------------------------------------------------------
Between == Enter \/ CallbackRefuses \/ CheckFails \/ Skip \/ ResultReady
OnWorker == Popen \/ LocalReturns \/ LocalInterrupted \/ KillGroup \/ WaitLeader \/ ProbeGroup
OnTarget == Request \/ StatusArrives \/ StatusLost \/ RemoteInterrupted \/ SettleRemote \/ HuntEnds
Environment == Forks \/ Ends \/ GroupForms \/ ShellStep \/ LinkDrops \/ Die \/ LeftEnds

Next == Between \/ OnWorker \/ OnTarget \/ EndCall \/ Finish \/ Environment

Spec == Init /\ [][Next]_vars

\* The worker goes on, every loop of it has a time limit, and a process that
\* was killed ends, as does the shell that waited for it.
Fairness ==
  /\ WF_vars(Between \/ OnWorker \/ OnTarget \/ EndCall \/ Finish)
  /\ WF_vars(Ends /\ killed)

FairSpec == Spec /\ Fairness

-----------------------------------------------------------------------------
TypeOK ==
  /\ profile \in Profile
  /\ pc \in Busy \union {"start", "between", "close", "over", "dead"}
  /\ at \in 1..(Len(Calls(profile)) + 1)
  /\ outcome \in {"ok", "cancel", "tool", "io"}
  /\ alive \subseteq {"leader", "child", "forked", "tool"}
  /\ killed \in BOOLEAN
  /\ shell \in {"none", "starting", "started", "recorded", "cleared", "gone"}
  /\ channel \in BOOLEAN
  /\ link \in {"up", "down"}
  /\ left \subseteq 1..Len(Calls(profile))
  /\ missed \subseteq 1..Len(Calls(profile))
  /\ dirty \in BOOLEAN
  /\ receipt \in {"none", "confirmed", "unconfirmed"}

\* A confirmed receipt is a proof: nothing the run started is alive, on the
\* worker or on the target, or can still start (_Run.finish, _cleanup_confirmed).
ReceiptIsHonest == receipt = "confirmed" => left = {} /\ ~Remains

\* What the code keeps of it: all that can be alive under a confirmed receipt is
\* a command whose pid file was there before its group (_cancel_remote:315).
ReceiptCoversCommands == receipt = "confirmed" => left \subseteq missed /\ ~Remains

\* A refused callback ends the run: no command is made after it, although the
\* helpers swallow errors of their own (execute_analysis:693-704, 777).
RefusalEndsRun == [][outcome = "cancel" => pc' # "between"]_vars

\* A run comes to its receipt, or its worker dies.
RunEnds == <>(pc \in {"over", "dead"})

Phase == CASE pc = "start" -> "new" [] pc \in {"over", "dead"} -> "over" [] OTHER -> "open"
Tools == (IF pc \in Busy THEN {"owned"} ELSE {}) \union (IF left \ missed # {} THEN {"orphan"} ELSE {})

Life == INSTANCE ToolLife WITH
  Run     <- {1},
  phase   <- [c \in {1} |-> Phase],
  tools   <- [c \in {1} |-> Tools],
  dirty   <- {c \in {1} : dirty},
  receipt <- [c \in {1} |-> receipt]

\* But for the commands it missed, the run is the life of a claim as the queue
\* knows it.
ImplementsLife == Life!Spec

-----------------------------------------------------------------------------
(* The inductive invariant *)

\* The shell and the processes of a command: they exist while the command is
\* made, and the shell reports only after the tool ended.
CommandInv ==
  /\ pc \in Busy => at \in 1..Len(Calls(profile))
  /\ pc \notin Busy => alive = {} /\ shell = "none"
  /\ pc \in {"poll", "kill", "wait", "probe"} => shell = "none"
  /\ pc = "hunt" => shell \in {"recorded", "cleared", "gone"}
  /\ "leader" \in alive => shell = "none"
  /\ shell \in {"cleared", "gone"} => alive = {}

\* Whatever remains of a command is in doubt when the command ends, for good,
\* or was missed.
DoubtInv ==
  /\ pc = "end" /\ Remains => dirty \/ at \in missed
  /\ left \ missed # {} /\ pc # "dead" => dirty
  /\ receipt # "none" => pc = "over"
  /\ receipt = "confirmed" => ~dirty

IInv == TypeOK /\ CommandInv /\ DoubtInv

-----------------------------------------------------------------------------
(* What the documentation says and these steps do not keep; see the README *)

\* A cancelled run cleans up its tools and confirms it, when nothing fails
\* (docs/ANALYSIS_CANCELLATION.md, second paragraph).
CancelIsConfirmed == pc = "over" /\ outcome = "cancel" => receipt = "confirmed"
=============================================================================
