----------------------- MODULE ExecutorCleanupProofs -----------------------
(***************************************************************************)
(* Proofs about ExecutorCleanup: what a confirmed receipt is worth, for    *)
(* every input, with any failures and with the worker dying anywhere.      *)
(***************************************************************************)
EXTENDS ExecutorCleanup, SequenceTheorems, TLAPS

\* The lists of commands are finite sequences of commands.
LEMMA CallsType == \A p \in Profile : Calls(p) \in Seq(Call)
<1>1. Local \in Call /\ Plain \in Call /\ Grouped \in Call
  BY DEF Local, Plain, Grouped, Call
<1>2. Helper \in Call /\ Convert \in Call /\ Second \in Call
  BY <1>1 DEF Helper, Convert, Second, Local, Plain, Call
<1> HIDE DEF Call
<1>3. ASSUME NEW p \in {"ssh", "zip", "git"} PROVE Calls(p) \in Seq(Call)
  <2>1. CASE p = "ssh"
    BY <1>1, <1>2, <2>1 DEF Calls
  <2>2. CASE p = "zip"
    BY <1>1, <1>2, <2>2 DEF Calls
  <2>3. CASE p = "git"
    BY <1>1, <1>2, <2>3 DEF Calls
  <2> QED BY <2>1, <2>2, <2>3
<1> QED BY <1>3, ExecutorAssumption

\* The commands of an input are a finite list.
LEMMA LenType == \A p \in Profile : Len(Calls(p)) \in Nat
<1> TAKE p \in Profile
<1>1. Calls(p) \in Seq(Call)
  BY CallsType
<1> QED BY <1>1, LenProperties

\* TypeOK in two parts: what counts commands, and the rest.
Counts ==
  /\ at \in 1..(Len(Calls(profile)) + 1)
  /\ left \subseteq 1..Len(Calls(profile))
  /\ missed \subseteq 1..Len(Calls(profile))

Values ==
  /\ profile \in Profile
  /\ pc \in Busy \union {"start", "between", "close", "over", "dead"}
  /\ outcome \in {"ok", "cancel", "tool", "io"}
  /\ alive \subseteq {"leader", "child", "forked", "tool"}
  /\ killed \in BOOLEAN
  /\ shell \in {"none", "starting", "started", "recorded", "cleared", "gone"}
  /\ channel \in BOOLEAN
  /\ link \in {"up", "down"}
  /\ dirty \in BOOLEAN
  /\ receipt \in {"none", "confirmed", "unconfirmed"}

\* The two halves of the type invariant.
LEMMA TypeParts == TypeOK <=> Counts /\ Values
  BY DEF TypeOK, Counts, Values

\* Every step keeps the values of the variables in their sets,
LEMMA ValuesStep == Values /\ [Next]_vars => Values'
<1> SUFFICES ASSUME Values, [Next]_vars PROVE Values'
  OBVIOUS
<1> USE DEF Values, Raise, Busy, command
<1>1. CASE UNCHANGED vars
  BY <1>1 DEF vars
<1>2. CASE Enter
  BY <1>2 DEF Enter
<1>3. CASE CallbackRefuses
  BY <1>3 DEF CallbackRefuses
<1>4. CASE CheckFails
  BY <1>4 DEF CheckFails
<1>5. CASE Skip
  BY <1>5 DEF Skip
<1>6. CASE ResultReady
  BY <1>6 DEF ResultReady
<1>7. CASE Popen
  BY <1>7 DEF Popen
<1>8. CASE LocalReturns
  BY <1>8 DEF LocalReturns
<1>9. CASE LocalInterrupted
  BY <1>9 DEF LocalInterrupted
<1>10. CASE KillGroup
  BY <1>10 DEF KillGroup
<1>11. CASE WaitLeader
  BY <1>11 DEF WaitLeader
<1>12. CASE ProbeGroup
  BY <1>12 DEF ProbeGroup
<1>13. CASE Request
  BY <1>13 DEF Request
<1>14. CASE StatusArrives
  BY <1>14 DEF StatusArrives
<1>15. CASE StatusLost
  BY <1>15 DEF StatusLost
<1>16. CASE RemoteInterrupted
  BY <1>16 DEF RemoteInterrupted
<1>17. CASE SettleRemote
  BY <1>17 DEF SettleRemote
<1>18. CASE HuntEnds
  BY <1>18 DEF HuntEnds
<1>19. CASE EndCall
  BY <1>19 DEF EndCall, Forget
<1>20. CASE Finish
  BY <1>20 DEF Finish
<1>21. CASE Forks
  BY <1>21 DEF Forks
<1>22. CASE Ends
  BY <1>22 DEF Ends
<1>23. CASE ShellStep
  <2>1. alive' = alive \/ alive' = {"forked"}
    BY <1>23 DEF ShellStep
  <2>2. shell' \in {"started", "recorded", "cleared", "gone"}
    BY <1>23 DEF ShellStep
  <2>3. UNCHANGED <<profile, pc, outcome, killed, channel, link, dirty, receipt>>
    BY <1>23 DEF ShellStep
  <2>4. alive' \subseteq {"leader", "child", "forked", "tool"}
    <3>1. "forked" \in {"leader", "child", "forked", "tool"} /\ alive \subseteq {"leader", "child", "forked", "tool"}
      OBVIOUS
    <3> HIDE DEF Values
    <3> QED BY <2>1, <3>1
  <2> QED BY <2>2, <2>3, <2>4
<1>24. CASE LinkDrops
  BY <1>24 DEF LinkDrops
<1>25. CASE Die
  BY <1>25 DEF Die, Forget
<1>26. CASE LeftEnds
  BY <1>26 DEF LeftEnds
<1>27. CASE GroupForms
  BY <1>27 DEF GroupForms
<1> QED BY <1>1, <1>2, <1>3, <1>4, <1>5, <1>6, <1>7, <1>8, <1>9, <1>10, <1>11, <1>12, <1>13, <1>14, <1>15, <1>16, <1>17, <1>18, <1>19, <1>20, <1>21, <1>22, <1>23, <1>24, <1>25, <1>26, <1>27
     DEF Next, Between, OnWorker, OnTarget, Environment

\* and the number of the command inside the list.
LEMMA CountsStep == TypeOK /\ CommandInv /\ [Next]_vars => Counts'
<1> SUFFICES ASSUME TypeOK, CommandInv, [Next]_vars PROVE Counts'
  OBVIOUS
<1>1. profile' = profile
  BY DEF Next, vars, Between, Enter, CallbackRefuses, CheckFails, Skip, ResultReady,
         OnWorker, Popen, LocalReturns, LocalInterrupted, KillGroup, WaitLeader, ProbeGroup,
         OnTarget, Request, StatusArrives, StatusLost, RemoteInterrupted, SettleRemote, HuntEnds,
         EndCall, Finish, Environment, Forks, Ends, GroupForms, ShellStep, LinkDrops, LeftEnds, Die
<1> DEFINE N == Len(Calls(profile))
<1>2. N \in Nat /\ N' = N
  BY <1>1, LenType DEF TypeOK
<1>3. at \in 1..(N + 1) /\ left \subseteq 1..N /\ missed \subseteq 1..N /\ (pc \in Busy => at \in 1..N)
  BY DEF TypeOK, CommandInv
<1>4. (at' \in 1..(N + 1)) /\ (left' \subseteq 1..N) /\ (missed' \subseteq 1..N)
  <2> HIDE DEF N
  <2>1. CASE UNCHANGED <<at, left, missed>>
    BY <1>3, <2>1
  <2>2. CASE Skip
    <3>1. at <= N
      BY <2>2 DEF Skip, N
    <3> QED BY <1>2, <1>3, <2>2, <3>1 DEF Skip
  <2>3. CASE EndCall
    <3>1. pc \in Busy /\ (at' = at \/ at' = at + 1) /\ left' \subseteq left \union {at} /\ missed' = missed
      BY <2>3 DEF EndCall, Forget, Busy
    <3> QED BY <1>2, <1>3, <3>1
  <2>4. CASE Die
    <3>1. at' = at /\ missed' = missed /\ (left' = left \/ (Remains /\ left' = left \union {at}))
      BY <2>4 DEF Die, Forget
    <3>2. Remains => pc \in Busy
      BY DEF Remains, CommandInv
    <3> QED BY <1>2, <1>3, <3>1, <3>2
  <2>5. CASE LeftEnds
    BY <1>3, <2>5 DEF LeftEnds
  <2>6. CASE SettleRemote
    <3>1. pc \in Busy /\ UNCHANGED <<at, left>> /\ missed' \subseteq missed \union {at}
      BY <2>6 DEF SettleRemote, Busy
    <3> QED BY <1>3, <3>1
  <2> QED BY <2>1, <2>2, <2>3, <2>4, <2>5, <2>6 DEF Next, vars, Between, Enter, CallbackRefuses, CheckFails, ResultReady,
         OnWorker, Popen, LocalReturns, LocalInterrupted, KillGroup, WaitLeader, ProbeGroup,
         OnTarget, Request, StatusArrives, StatusLost, RemoteInterrupted, HuntEnds,
         Finish, Environment, Forks, Ends, GroupForms, ShellStep, LinkDrops
<1> QED BY <1>2, <1>4 DEF Counts

\* Every step keeps the types.
LEMMA TypeStep == TypeOK /\ CommandInv /\ [Next]_vars => TypeOK'
<1> SUFFICES ASSUME TypeOK, CommandInv, [Next]_vars PROVE TypeOK'
  OBVIOUS
<1>1. Counts' /\ Values'
  BY TypeParts, CountsStep, ValuesStep
<1> QED BY <1>1 DEF TypeOK, Counts, Values

\* Every step keeps the shell and the processes of a command together.
LEMMA CommandStep == TypeOK /\ CommandInv /\ [Next]_vars => CommandInv'
<1> SUFFICES ASSUME TypeOK, CommandInv, [Next]_vars PROVE CommandInv'
  OBVIOUS
<1> USE DEF CommandInv, Raise, Busy, command
<1>0. at \in Nat /\ at >= 1 /\ Len(Calls(profile)) \in Nat
  BY LenType DEF TypeOK
<1>1. CASE UNCHANGED vars
  BY <1>1 DEF vars
<1>2. CASE Between
  BY <1>2 DEF Between, Enter, CallbackRefuses, CheckFails, Skip, ResultReady
<1>3. CASE OnWorker
  BY <1>0, <1>3 DEF OnWorker, Popen, LocalReturns, LocalInterrupted, KillGroup, WaitLeader, ProbeGroup
<1>4. CASE OnTarget
  <2>1. CASE Request
    BY <1>0, <2>1 DEF Request
  <2>2. CASE StatusArrives \/ StatusLost \/ RemoteInterrupted \/ HuntEnds
    BY <2>2 DEF StatusArrives, StatusLost, RemoteInterrupted, HuntEnds
  <2>3. CASE SettleRemote
    BY <2>3 DEF SettleRemote, PidFile, Group
  <2> QED BY <1>4, <2>1, <2>2, <2>3 DEF OnTarget
<1>5. CASE EndCall
  BY <1>5 DEF EndCall, Forget
<1>6. CASE Finish
  BY <1>6 DEF Finish
<1>7. CASE Environment
  <2>1. CASE Die
    BY <2>1 DEF Die, Forget
  <2>2. CASE Forks
    BY <2>2 DEF Forks
  <2>3. CASE Ends \/ GroupForms \/ LinkDrops \/ LeftEnds
    BY <2>3 DEF Ends, GroupForms, LinkDrops, LeftEnds
  <2>4. CASE ShellStep
    BY <2>4 DEF ShellStep
  <2> QED BY <1>7, <2>1, <2>2, <2>3, <2>4 DEF Environment
<1> QED BY <1>1, <1>2, <1>3, <1>4, <1>5, <1>6, <1>7 DEF Next

\* What remains of a command is in doubt, and stays so.
LEMMA DoubtStep == IInv /\ [Next]_vars => DoubtInv'
<1> SUFFICES ASSUME TypeOK, CommandInv, DoubtInv, [Next]_vars PROVE DoubtInv'
  BY DEF IInv
<1> USE DEF DoubtInv, Raise, Remains, Busy, command
<1>1. CASE UNCHANGED vars
  BY <1>1 DEF vars
<1>2. CASE Between
  BY <1>2 DEF Between, Enter, CallbackRefuses, CheckFails, Skip, ResultReady
<1>3. CASE OnWorker
  BY <1>3 DEF OnWorker, Popen, LocalReturns, LocalInterrupted, KillGroup, WaitLeader, ProbeGroup, CommandInv, TypeOK
<1>4. CASE OnTarget
  <2>1. CASE Request \/ StatusArrives \/ StatusLost \/ RemoteInterrupted \/ HuntEnds
    BY <2>1 DEF Request, StatusArrives, StatusLost, RemoteInterrupted, HuntEnds, CommandInv, TypeOK
  <2>2. CASE SettleRemote
    <3>1. pc = "settle" /\ UNCHANGED <<at, alive, shell, left, receipt>>
      BY <2>2 DEF SettleRemote
    <3>2. pc' \in {"hunt", "end"} /\ missed \subseteq missed' /\ (dirty => dirty')
      BY <2>2 DEF SettleRemote
    <3>3. pc' = "end" /\ Remains => dirty' \/ at \in missed'
      <4>1. CASE (StatusKnown \/ (PidFile /\ link = "up" /\ Group = {})) /\ missed' = missed \union (IF "forked" \in alive THEN {at} ELSE {})
        BY <4>1 DEF StatusKnown, PidFile, Group, CommandInv
      <4>2. CASE pc' = "hunt"
        BY <4>2
      <4>3. CASE dirty'
        BY <4>3
      <4> QED BY <2>2, <4>1, <4>2, <4>3 DEF SettleRemote
    <3> QED BY <3>1, <3>2, <3>3
  <2> QED BY <1>4, <2>1, <2>2 DEF OnTarget
<1>5. CASE EndCall
  BY <1>5 DEF EndCall, Forget, TypeOK
<1>6. CASE Finish
  BY <1>6 DEF Finish, TypeOK
<1>7. CASE Environment
  <2>1. CASE Die
    BY <2>1 DEF Die, Forget, CommandInv
  <2>2. CASE Forks \/ Ends \/ GroupForms \/ LinkDrops \/ LeftEnds
    BY <2>2 DEF Forks, Ends, GroupForms, LinkDrops, LeftEnds
  <2>3. CASE ShellStep
    BY <2>3 DEF ShellStep, CommandInv
  <2> QED BY <1>7, <2>1, <2>2, <2>3 DEF Environment
<1> QED BY <1>1, <1>2, <1>3, <1>4, <1>5, <1>6, <1>7 DEF Next

\* The invariant holds at first.
LEMMA InvInit == Init => IInv
<1> SUFFICES ASSUME Init PROVE IInv
  OBVIOUS
<1>1. Len(Calls(profile)) \in Nat
  BY LenType DEF Init
<1>2. Counts
  BY <1>1 DEF Init, Counts
<1>3. Values
  BY DEF Init, Values
<1>4. CommandInv /\ DoubtInv
  BY DEF Init, CommandInv, DoubtInv, Remains, Busy
<1> QED BY <1>2, <1>3, <1>4, TypeParts DEF IInv

\* Every step keeps it.
LEMMA InvStep == IInv /\ [Next]_vars => IInv'
  BY TypeStep, CommandStep, DoubtStep DEF IInv

\* The inductive invariant of a run.
THEOREM Invariance == Spec => []IInv
  BY InvInit, InvStep, PTL DEF Spec

\* What a receipt that says confirmed covers is a part of what DoubtInv says.
LEMMA CoversFromInv == IInv => ReceiptCoversCommands
  BY DEF IInv, CommandInv, DoubtInv, ReceiptCoversCommands, Remains, Busy

\* Every variable of a run keeps its type.
THEOREM TypeCorrect == Spec => []TypeOK
  BY Invariance, PTL DEF IInv

\* A confirmed receipt proves that nothing the run started is alive, which is
\* what _cleanup_confirmed takes it for, but for a remote scan whose pid file was
\* there before its group (_cancel_remote).
THEOREM ReceiptsAreProof == Spec => []ReceiptCoversCommands
  BY Invariance, CoversFromInv, PTL

\* A refused callback is never swallowed on the way out (execute_analysis).
THEOREM RefusalsPropagate == Spec => RefusalEndsRun
<1>1. Init => ~(outcome = "cancel")
  BY DEF Init
<1> DEFINE Out == outcome = "cancel" => pc \in {"kill", "wait", "probe", "settle", "hunt", "end", "close", "over", "dead"}
<1>2. Init => Out
  BY DEF Init
<1>3. Out /\ [Next]_vars => Out' /\ (outcome = "cancel" => pc' # "between")
  <2> SUFFICES ASSUME Out, [Next]_vars PROVE Out' /\ (outcome = "cancel" => pc' # "between")
    OBVIOUS
  <2> USE DEF Raise
  <2>1. CASE UNCHANGED vars
    BY <2>1 DEF vars
  <2>2. CASE Between
    BY <2>2 DEF Between, Enter, CallbackRefuses, CheckFails, Skip, ResultReady
  <2>3. CASE OnWorker
    BY <2>3 DEF OnWorker, Popen, LocalReturns, LocalInterrupted, KillGroup, WaitLeader, ProbeGroup
  <2>4. CASE OnTarget
    BY <2>4 DEF OnTarget, Request, StatusArrives, StatusLost, RemoteInterrupted, SettleRemote, HuntEnds
  <2>5. CASE EndCall \/ Finish
    BY <2>5 DEF EndCall, GoesOn, Finish
  <2>6. CASE Environment
    BY <2>6 DEF Environment, Forks, Ends, GroupForms, ShellStep, LinkDrops, Die, LeftEnds
  <2> QED BY <2>1, <2>2, <2>3, <2>4, <2>5, <2>6 DEF Next
<1> QED BY <1>2, <1>3, PTL DEF Spec, RefusalEndsRun
-----------------------------------------------------------------------------
(* Refinement of ToolLife *)

\* The run begins as a life does.
LEMMA LifeInit == Init => Life!Init
  BY DEF Init, Life!Init, Phase, Tools, Busy

\* What a step of the run has to do for each step of the life.
LEMMA LifeSteps ==
  /\ UNCHANGED <<Phase, Tools, dirty, receipt>> => UNCHANGED Life!vars
  /\ Phase = "new" /\ Phase' \in {"open", "over"} /\ UNCHANGED <<Tools, dirty, receipt>> => Life!Open(1)
  /\ Phase = "open" /\ Tools' = Tools \union {"owned"} /\ UNCHANGED <<Phase, dirty, receipt>> => Life!Start(1)
  /\ Phase = "open" /\ Tools' = Tools \ {"owned"} /\ UNCHANGED <<Phase, dirty, receipt>> => Life!Exit(1)
  /\ Phase = "open" /\ dirty' = TRUE /\ UNCHANGED <<Phase, Tools, receipt>> => Life!Doubt(1)
  /\ Tools' = Tools \ {"orphan"} /\ UNCHANGED <<Phase, dirty, receipt>> => Life!OrphanEnds(1)
<1>1. UNCHANGED <<Phase, Tools, dirty, receipt>> => UNCHANGED Life!vars
  BY DEF Life!vars
<1>2. Phase = "new" /\ Phase' \in {"open", "over"} /\ UNCHANGED <<Tools, dirty, receipt>> => Life!Open(1)
  <2> SUFFICES ASSUME Phase = "new", Phase' \in {"open", "over"}, UNCHANGED <<Tools, dirty, receipt>>
               PROVE  Life!Open(1)
    OBVIOUS
  <2>1. [c \in {1} |-> Phase'] = [[c \in {1} |-> Phase] EXCEPT ![1] = Phase']
    OBVIOUS
  <2>2. [c \in {1} |-> Phase][1] = "new"
    OBVIOUS
  <2>3. \E p \in {"open", "over"} : [c \in {1} |-> Phase'] = [[c \in {1} |-> Phase] EXCEPT ![1] = p]
    BY <2>1
  <2> QED BY <2>2, <2>3 DEF Life!Open
<1>3. Phase = "open" /\ Tools' = Tools \union {"owned"} /\ UNCHANGED <<Phase, dirty, receipt>> => Life!Start(1)
  BY DEF Life!Start
<1>4. Phase = "open" /\ Tools' = Tools \ {"owned"} /\ UNCHANGED <<Phase, dirty, receipt>> => Life!Exit(1)
  BY DEF Life!Exit
<1>5. Phase = "open" /\ dirty' = TRUE /\ UNCHANGED <<Phase, Tools, receipt>> => Life!Doubt(1)
  BY DEF Life!Doubt
<1>6. Tools' = Tools \ {"orphan"} /\ UNCHANGED <<Phase, dirty, receipt>> => Life!OrphanEnds(1)
  BY DEF Life!OrphanEnds
<1> QED BY <1>1, <1>2, <1>3, <1>4, <1>5, <1>6

\* The steps that give up, and those that close.
LEMMA LifeEndings ==
  /\ /\ Phase = "open" /\ UNCHANGED <<Phase, receipt>>
     /\ dirty' = TRUE /\ Tools' = (Tools \ {"owned"}) \union {"orphan"}
     => Life!GiveUp(1)
  /\ /\ Phase = "open" /\ Phase' = "over" /\ "owned" \notin Tools /\ UNCHANGED <<Tools, dirty>>
     /\ receipt' \in {"none", IF dirty THEN "unconfirmed" ELSE "confirmed"}
     => Life!Close(1)
  /\ /\ Phase = "open" /\ Phase' = "over" /\ UNCHANGED <<dirty, receipt>>
     /\ Tools' \in {Tools \ {"owned"}, (Tools \ {"owned"}) \union {"orphan"}}
     => Life!Die(1)
<1>1. ASSUME Phase = "open", UNCHANGED <<Phase, receipt>>, dirty' = TRUE,
             Tools' = (Tools \ {"owned"}) \union {"orphan"}
      PROVE  Life!GiveUp(1)
  BY <1>1 DEF Life!GiveUp
<1>2. ASSUME Phase = "open", Phase' = "over", "owned" \notin Tools, UNCHANGED <<Tools, dirty>>,
             receipt' \in {"none", IF dirty THEN "unconfirmed" ELSE "confirmed"}
      PROVE  Life!Close(1)
  BY <1>2 DEF Life!Close
<1>3. ASSUME Phase = "open", Phase' = "over", UNCHANGED <<dirty, receipt>>,
             Tools' \in {Tools \ {"owned"}, (Tools \ {"owned"}) \union {"orphan"}}
      PROVE  Life!Die(1)
  BY <1>3 DEF Life!Die
<1> QED BY <1>1, <1>2, <1>3

\* Every step of the run is a step of the life, or none.
LEMMA LifeNext == IInv /\ [Next]_vars => [Life!Next]_(Life!vars)
<1> SUFFICES ASSUME IInv, [Next]_vars PROVE [Life!Next]_(Life!vars)
  OBVIOUS
<1>0. \/ UNCHANGED Life!vars
      \/ Life!Open(1) \/ Life!Start(1) \/ Life!Exit(1) \/ Life!Doubt(1) \/ Life!GiveUp(1)
      \/ Life!Close(1) \/ Life!Die(1) \/ Life!OrphanEnds(1)
  <2> USE DEF Busy, Raise, command, Phase, Tools
  <2>1. CASE UNCHANGED vars
    BY <2>1, LifeSteps DEF vars
  <2>2. CASE Enter
    BY <2>2, LifeSteps DEF Enter
  <2>3. CASE CallbackRefuses \/ CheckFails \/ Skip \/ ResultReady
    BY <2>3, LifeSteps DEF CallbackRefuses, CheckFails, Skip, ResultReady
  <2>4. CASE Popen \/ Request
    <3>1. Phase = "open" /\ Tools' = Tools \union {"owned"} /\ UNCHANGED <<Phase, dirty, receipt>>
      BY <2>4 DEF Popen, Request
    <3> QED BY <3>1, LifeSteps
  <2>5. CASE LocalReturns \/ LocalInterrupted \/ StatusArrives \/ StatusLost \/ RemoteInterrupted
    BY <2>5, LifeSteps DEF LocalReturns, LocalInterrupted, StatusArrives, StatusLost, RemoteInterrupted
  <2>6. CASE KillGroup \/ WaitLeader \/ ProbeGroup \/ HuntEnds \/ (SettleRemote /\ missed' = missed)
    <3>1. Phase = "open" /\ UNCHANGED <<Phase, Tools, receipt>>
      BY <2>6 DEF KillGroup, WaitLeader, ProbeGroup, SettleRemote, HuntEnds
    <3>2. dirty' = dirty \/ dirty' = TRUE
      BY <2>6 DEF KillGroup, WaitLeader, ProbeGroup, SettleRemote, HuntEnds, IInv, TypeOK
    <3> QED BY <3>1, <3>2, LifeSteps
  <2>12. CASE SettleRemote /\ missed' # missed
    <3>1. UNCHANGED <<Phase, dirty, receipt>>
      BY <2>12 DEF SettleRemote
    <3>2. pc \in Busy /\ pc' \in Busy /\ left' = left /\ missed \subseteq missed'
      BY <2>12 DEF SettleRemote
    <3>3. Tools' = Tools \/ Tools' = Tools \ {"orphan"}
      BY <3>2
    <3> QED BY <3>1, <3>3, LifeSteps
  <2>7. CASE EndCall
    <3>1. Phase = "open" /\ UNCHANGED <<Phase, dirty, receipt>> /\ pc' \notin Busy
      BY <2>7 DEF EndCall, Forget
    <3>2. CASE Remains /\ at \notin missed
      <4>1. dirty = TRUE /\ left' \ missed' # {}
        BY <2>7, <3>2 DEF EndCall, Forget, IInv, DoubtInv, TypeOK
      <4>2. Tools' = (Tools \ {"owned"}) \union {"orphan"}
        BY <3>1, <4>1
      <4> QED BY <3>1, <4>1, <4>2, LifeEndings
    <3>3. CASE ~Remains \/ at \in missed
      <4>0. left' \ missed' = left \ missed
        BY <2>7, <3>3 DEF EndCall, Forget
      <4>1. Tools' = Tools \ {"owned"}
        BY <2>7, <3>1, <4>0 DEF EndCall, Forget
      <4> QED BY <3>1, <4>1, LifeSteps
    <3> QED BY <3>2, <3>3
  <2>8. CASE Finish
    <3>1. Phase = "open" /\ Phase' = "over" /\ "owned" \notin Tools /\ UNCHANGED <<Tools, dirty>>
      BY <2>8 DEF Finish
    <3>2. receipt = "none" /\ receipt' \in {"none", IF dirty THEN "unconfirmed" ELSE "confirmed"}
      BY <2>8 DEF Finish, IInv, DoubtInv
    <3> QED BY <3>1, <3>2, LifeEndings
  <2>9. CASE Forks \/ Ends \/ GroupForms \/ ShellStep \/ LinkDrops
    BY <2>9, LifeSteps DEF Forks, Ends, GroupForms, ShellStep, LinkDrops
  <2>10. CASE Die
    <3>1. Phase = "open" /\ Phase' = "over" /\ UNCHANGED <<dirty, receipt>>
      BY <2>10 DEF Die, IInv, TypeOK
    <3>2. pc' \notin Busy /\ missed' = missed /\ (left' = left \/ left' = left \union {at})
      BY <2>10 DEF Die, Forget
    <3>3. Tools' \in {Tools \ {"owned"}, (Tools \ {"owned"}) \union {"orphan"}}
      BY <3>2
    <3> QED BY <3>1, <3>3, LifeEndings
  <2>11. CASE LeftEnds
    <3>1. UNCHANGED <<Phase, dirty, receipt>>
      BY <2>11 DEF LeftEnds
    <3>2. Tools' = Tools \/ Tools' = Tools \ {"orphan"}
      BY <2>11 DEF LeftEnds
    <3> QED BY <3>1, <3>2, LifeSteps
  <2> QED BY <2>1, <2>2, <2>3, <2>4, <2>5, <2>6, <2>7, <2>8, <2>9, <2>10, <2>11, <2>12
       DEF Next, Between, OnWorker, OnTarget, Environment
<1> QED BY <1>0 DEF Life!Next

\* The run of an executor is the life of a claim as the queue models it
\* (AnalysisJobs implements the same module).
THEOREM RunImplementsLife == Spec => ImplementsLife
  BY LifeInit, LifeNext, Invariance, PTL DEF Spec, ImplementsLife, Life!Spec
=============================================================================
