------------------------------ MODULE ToolLife ------------------------------
(***************************************************************************)
(* What a claim's executor promises about the processes it starts, whatever *)
(* they are and wherever they run: one supervised command at a time, a     *)
(* command is given up only in doubt, and the receipt, written once at the *)
(* end, is "confirmed" only when nothing was ever in doubt.                *)
(***************************************************************************)
CONSTANT Run

VARIABLES
  phase,    \* "new", "open" while the executor runs, "over"
  tools,    \* {}, with "owned" while a command is supervised, with "orphan" for others
  dirty,    \* claims in doubt
  receipt   \* "none", "confirmed" or "unconfirmed"

Init ==
  /\ phase   = [c \in Run |-> "new"]
  /\ tools   = [c \in Run |-> {}]
  /\ dirty   = {}
  /\ receipt = [c \in Run |-> "none"]

\* The executor is entered; creating its directory may fail.
Open(c) ==
  /\ phase[c] = "new"
  /\ \E p \in {"open", "over"} : phase' = [phase EXCEPT ![c] = p]
  /\ UNCHANGED <<tools, dirty, receipt>>

Start(c) ==
  /\ phase[c] = "open"
  /\ tools' = [tools EXCEPT ![c] = @ \union {"owned"}]
  /\ UNCHANGED <<phase, dirty, receipt>>

Exit(c) ==
  /\ phase[c] = "open"
  /\ tools' = [tools EXCEPT ![c] = @ \ {"owned"}]
  /\ UNCHANGED <<phase, dirty, receipt>>

Doubt(c) ==
  /\ phase[c] = "open"
  /\ dirty' = dirty \union {c}
  /\ UNCHANGED <<phase, tools, receipt>>

GiveUp(c) ==
  /\ phase[c] = "open"
  /\ dirty' = dirty \union {c}
  /\ tools' = [tools EXCEPT ![c] = (@ \ {"owned"}) \union {"orphan"}]
  /\ UNCHANGED <<phase, receipt>>

\* The receipt, or none when it cannot be written.
Close(c) ==
  /\ phase[c] = "open"
  /\ "owned" \notin tools[c]
  /\ phase' = [phase EXCEPT ![c] = "over"]
  /\ \E r \in {"none", IF c \in dirty THEN "unconfirmed" ELSE "confirmed"} :
       receipt' = [receipt EXCEPT ![c] = r]
  /\ UNCHANGED <<tools, dirty>>

\* The worker dies; its command dies with it or is left behind.
Die(c) ==
  /\ phase[c] = "open"
  /\ phase' = [phase EXCEPT ![c] = "over"]
  /\ \E left \in {{}, {"orphan"}} :
       tools' = [tools EXCEPT ![c] = (@ \ {"owned"}) \union left]
  /\ UNCHANGED <<dirty, receipt>>

OrphanEnds(c) ==
  /\ tools' = [tools EXCEPT ![c] = @ \ {"orphan"}]
  /\ UNCHANGED <<phase, dirty, receipt>>

Next ==
  \E c \in Run :
    \/ Open(c) \/ Start(c) \/ Exit(c) \/ Doubt(c) \/ GiveUp(c)
    \/ Close(c) \/ Die(c) \/ OrphanEnds(c)

vars == <<phase, tools, dirty, receipt>>

Spec == Init /\ [][Next]_vars
=============================================================================
