------------------------------- MODULE Advice -------------------------------
(***************************************************************************)
(* What the AI advisor is asked about one target and what is kept of its   *)
(* answers.  A request reads what is stored about the target, looks for an *)
(* answer to the very same prompt, asks the provider if there is none, and *)
(* keeps the answer in ai_summaries; a triage and a second opinion are     *)
(* checked only after that, in a transaction of their own.  A check of a   *)
(* server asks for a plan in the same way, but checks it first and keeps   *)
(* it in the memory of the process.  Requests run beside each other, the   *)
(* target changes under them, and the process may die between two steps.   *)
(***************************************************************************)
EXTENDS Naturals, Sequences

CONSTANTS
  Request,      \* requests, each made once
  Kind,         \* what is asked for
  Subject,      \* what a prompt is about: candidates, commands that fit the server
  Stray,        \* any claim about something else, or a verdict that does not exist
  Attempts,     \* OPENAI_ATTEMPTS; 1 with the other provider
  Effort,       \* reasoning_effort is configured
  Answers,      \* what the provider may answer, of Text
  MaxChanges,   \* bound: changes of the target
  None

Fact  == SUBSET Subject
Claim == Subject \cup {Stray}

\* An answer is the JSON object it should be, holds one somewhere, or is prose.
\* counts: the object has counts beside its items, as a checked triage has.
Text == {t \in [form : {"object", "fenced", "prose"}, says : SUBSET Claim, counts : BOOLEAN] :
           t.form = "prose" => t.says = {} /\ ~t.counts}
NoText == [form |-> "prose", says |-> {}, counts |-> FALSE]

ASSUME AdviceAssumption ==
  /\ Kind \subseteq {"summary", "triage", "verify", "plan"} /\ Stray \notin Subject
  /\ Attempts \in Nat \ {0} /\ Effort \in BOOLEAN /\ MaxChanges \in Nat
  /\ None \notin Kind /\ Answers \subseteq Text

VARIABLES
  facts,     \* what is stored about the target, as far as a prompt tells it
  rows,      \* ai_summaries, in the order of id and of generated_at
  plans,     \* _plan_cache; {} is no plan
  request,
  changes    \* history: changes of the target

vars == <<facts, rows, plans, request, changes>>

\* seen only records how many rows there were when the request looked, forced
\* that it did not want to, raw that nobody has checked the text yet.
Row == [kind : Kind \ {"plan"}, about : Fact, text : Text, forced : BOOLEAN, seen : Nat, raw : BOOLEAN]

RequestType ==
  [pc : {"idle", "read", "asking", "stored", "answered", "refused"}, kind : Kind \cup {None}, force : BOOLEAN,
   about : Fact, attempt : 0 .. Attempts - 1, effort : BOOLEAN, seen : Nat, row : Nat, text : Text]

Waiting == [pc |-> "idle", kind |-> None, force |-> FALSE, about |-> {}, attempt |-> 0, effort |-> Effort,
            seen |-> 0, row |-> 0, text |-> NoText]

Init ==
  /\ facts \in Fact /\ rows = <<>> /\ plans = [f \in Fact |-> {}]
  /\ request = [r \in Request |-> Waiting] /\ changes = 0

\* A request that is over keeps nothing but, if it succeeded, its answer.
Refuses(r) == request' = [request EXCEPT ![r] = [Waiting EXCEPT !.pc = "refused"]]
At(pc, r, i, text) ==
  [pc |-> pc, kind |-> request[r].kind, force |-> FALSE, about |-> request[r].about, attempt |-> 0,
   effort |-> Effort, seen |-> 0, row |-> i, text |-> text]
Returns(r, text) == request' = [request EXCEPT ![r] = At("answered", r, 0, text)]

-----------------------------------------------------------------------------
\* Scans, checks, reviews and second opinions change what prompts tell.
TargetChanges ==
  /\ changes < MaxChanges /\ changes' = changes + 1
  /\ \E f \in Fact \ {facts} : facts' = f
  /\ UNCHANGED <<rows, plans, request>>

\* The context is read.  A triage without candidates is refused at once.
Reads(r, kind, force) ==
  /\ request[r].pc = "idle" /\ (kind = "plan" => ~force)
  /\ \/ kind = "triage" /\ facts = {} /\ Refuses(r)
     \/ /\ kind # "triage" \/ facts # {}
        /\ request' = [request EXCEPT ![r].pc = "read", ![r].kind = kind, ![r].force = force, ![r].about = facts]
  /\ UNCHANGED <<facts, rows, plans, changes>>

\* The rows that answer the prompt of r.
\* Mutant: any answer of the kind will do.
CachedByKind(r) == {i \in DOMAIN rows : rows[i].kind = request[r].kind}
\* Mutant: only the latest answer of the kind is looked at.
CachedLatest(r) ==
  {i \in DOMAIN rows : /\ rows[i].kind = request[r].kind /\ rows[i].about = request[r].about
                       /\ \A j \in i + 1 .. Len(rows) : rows[j].kind # rows[i].kind}
Cached(r) == {i \in DOMAIN rows : rows[i].kind = request[r].kind /\ rows[i].about = request[r].about}

\* With an answer in hand: a summary is returned, the others are still checked.
Holds(r, i, text) ==
  IF request[r].kind = "summary" THEN Returns(r, text)
  ELSE request' = [request EXCEPT ![r] = At("stored", r, i, text)]

Looks(r) ==
  /\ request[r].pc = "read" /\ request[r].kind # "plan"
  /\ \/ /\ request[r].force \/ Cached(r) = {}
        /\ request' = [request EXCEPT ![r].pc = "asking", ![r].seen = Len(rows)]
     \/ \E i \in Cached(r) : /\ ~request[r].force /\ \A j \in Cached(r) : j <= i
                             /\ Holds(r, i, rows[i].text)
  /\ UNCHANGED <<facts, rows, plans, changes>>

Plan(commands) == [form |-> "object", says |-> commands, counts |-> FALSE]

LooksForPlan(r) ==
  /\ request[r].pc = "read" /\ request[r].kind = "plan"
  /\ \/ plans[request[r].about] # {} /\ Returns(r, Plan(plans[request[r].about]))
     \/ plans[request[r].about] = {} /\ request' = [request EXCEPT ![r].pc = "asking"]
  /\ UNCHANGED <<facts, rows, plans, changes>>

-----------------------------------------------------------------------------
\* The provider.  A request that fails leaves nothing; a check that gets no plan
\* goes on with the rules.
Last(r)  == request[r].attempt = Attempts - 1
Fails(r) == IF request[r].kind = "plan" THEN Returns(r, Plan({})) ELSE Refuses(r)

\* The field for the effort is refused, and left out from now on.  It is one of
\* the attempts: the last of them is not made again.
EffortRefused(r) ==
  /\ request[r].pc = "asking" /\ request[r].effort
  /\ IF Last(r) THEN Fails(r)
     ELSE request' = [request EXCEPT ![r].effort = FALSE, ![r].attempt = @ + 1]
  /\ UNCHANGED <<facts, rows, plans, changes>>

\* Too busy, for a while.
Busy(r) ==
  /\ request[r].pc = "asking"
  /\ IF Last(r) THEN Fails(r) ELSE request' = [request EXCEPT ![r].attempt = @ + 1]
  /\ UNCHANGED <<facts, rows, plans, changes>>

\* No key, no such model, no connection, an empty answer, a refusal.
Refused(r) ==
  /\ request[r].pc = "asking" /\ Fails(r)
  /\ UNCHANGED <<facts, rows, plans, changes>>

\* The answer is kept as it came.
Stores(r, text) ==
  LET me == request[r]
  IN  /\ me.pc = "asking" /\ me.kind # "plan"
      /\ rows' = Append(rows, [kind |-> me.kind, about |-> me.about, text |-> text, forced |-> me.force,
                               seen |-> me.seen, raw |-> TRUE])
      /\ Holds(r, Len(rows) + 1, text)
      /\ UNCHANGED <<facts, plans, changes>>

\* validate_plan: only commands of the catalog for this system, or the rules.
PlanAnswered(r, text) ==
  LET me == request[r]
      commands == text.says \cap me.about
  IN  /\ me.pc = "asking" /\ me.kind = "plan"
      /\ plans' = [plans EXCEPT ![me.about] = IF commands = {} THEN @ ELSE commands]
      /\ Returns(r, Plan(commands))
      /\ UNCHANGED <<facts, rows, changes>>

-----------------------------------------------------------------------------
\* validate_triage, and what generate_verify makes of its answer: what is said
\* of something else is dropped.
\* Mutant: against what is stored now.
CheckedNow(me) == [form |-> "object", says |-> me.text.says \cap facts, counts |-> me.kind = "triage"]
Checked(me) == [form |-> "object", says |-> me.text.says \cap me.about, counts |-> me.kind = "triage"]

\* What is taken for a triage that was checked before.
Counted(text) == text.form = "object" /\ text.counts

ReturnsTriage(r) ==
  /\ request[r].pc = "stored" /\ request[r].kind = "triage" /\ Counted(request[r].text)
  /\ Returns(r, request[r].text)
  /\ UNCHANGED <<facts, rows, plans, changes>>

\* Nothing is left of it: the request fails, the row stays.
RejectsTriage(r) ==
  /\ request[r].pc = "stored" /\ request[r].kind = "triage" /\ ~Counted(request[r].text)
  /\ Checked(request[r]).says = {} /\ Refuses(r)
  /\ UNCHANGED <<facts, rows, plans, changes>>

Checks(r) ==
  /\ request[r].pc = "stored"
  /\ request[r].kind = "triage" => ~Counted(request[r].text) /\ Checked(request[r]).says # {}
  /\ rows' = [rows EXCEPT ![request[r].row].text = Checked(request[r]), ![request[r].row].raw = FALSE]
  /\ Returns(r, Checked(request[r]))
  /\ UNCHANGED <<facts, plans, changes>>

\* The process dies and starts again.
UnderWay(r) == request[r].pc \in {"read", "asking", "stored"}

Restarts ==
  /\ \E r \in Request : UnderWay(r)
  /\ request' = [r \in Request |-> IF UnderWay(r) THEN [Waiting EXCEPT !.pc = "refused"] ELSE request[r]]
  /\ plans' = [f \in Fact |-> {}]
  /\ UNCHANGED <<facts, rows, changes>>

-----------------------------------------------------------------------------
Asking(r) == \/ \E kind \in Kind, force \in BOOLEAN : Reads(r, kind, force)
             \/ Looks(r) \/ LooksForPlan(r)
Answering(r) == \/ EffortRefused(r) \/ Busy(r) \/ Refused(r)
                \/ \E text \in Answers : Stores(r, text) \/ PlanAnswered(r, text)
Checking(r) == ReturnsTriage(r) \/ RejectsTriage(r) \/ Checks(r)

Next == \/ \E r \in Request : Asking(r) \/ Answering(r) \/ Checking(r)
        \/ TargetChanges \/ Restarts

Spec == Init /\ [][Next]_vars

-----------------------------------------------------------------------------
\* Every variable has its type.
TypeOK ==
  /\ facts \in Fact /\ rows \in Seq(Row) /\ plans \in [Fact -> Fact] /\ changes \in Nat
  /\ request \in [Request -> RequestType]

\* A request that has its row has the answer to its own prompt there, as it came
\* or as somebody has checked it since (ai_triage.py:155, ai_triage.py:201).
HasItsRow(me) ==
  /\ me.kind \in {"triage", "verify"} /\ me.row \in DOMAIN rows
  /\ rows[me.row].kind = me.kind /\ rows[me.row].about = me.about
  /\ rows[me.row].raw \/ rows[me.row].text = Checked(me)
  /\ rows[me.row].raw => rows[me.row].text = me.text
RowsFitRequests == \A r \in Request : request[r].pc = "stored" => HasItsRow(request[r])

\* A request that is under way looked for its prompt when there was none.
Looked(me) ==
  /\ me.pc \notin {"idle", "refused"} => me.kind \in Kind
  /\ me.pc = "asking" /\ me.kind # "plan" =>
       /\ me.seen <= Len(rows)
       /\ ~me.force => \A i \in 1 .. me.seen : rows[i].kind # me.kind \/ rows[i].about # me.about
LookedBefore == \A r \in Request : Looked(request[r])

\* What was checked says nothing but what the prompt was about, so that checking
\* it again changes nothing, however the target changed while the provider was
\* asked; what a caller gets was checked, or came with counts of its own
\* (ai_triage.py:158).
OnlyCandidatesAreJudged ==
  /\ \A i \in DOMAIN rows : ~rows[i].raw => /\ rows[i].text = Checked(rows[i])
                                            /\ rows[i].kind = "triage" => rows[i].text.says # {}
  /\ \A f \in Fact : plans[f] \subseteq f
  /\ \A r \in Request :
       request[r].pc = "answered" /\ request[r].kind # "summary" =>
         \/ request[r].text.says \subseteq request[r].about
         \/ request[r].kind = "triage" /\ Counted(request[r].text)

\* The provider is asked once for a prompt: a second answer that nobody forced
\* belongs to a request that looked before the first was stored
\* (ai_advisor.py:324).
AskedOncePerPrompt ==
  \A i, j \in DOMAIN rows :
    i < j /\ rows[i].kind = rows[j].kind /\ rows[i].about = rows[j].about /\ ~rows[j].forced => rows[j].seen < i

\* The invariant of the proofs.
IInv == TypeOK /\ RowsFitRequests /\ LookedBefore /\ OnlyCandidatesAreJudged /\ AskedOncePerPrompt

\* Rows are never removed or moved to another prompt, and what was checked once
\* never changes, though two requests may check one row (ai_triage.py:169).
CheckedStays ==
  [][\A i \in DOMAIN rows : /\ i \in DOMAIN rows' /\ rows'[i].kind = rows[i].kind /\ rows'[i].about = rows[i].about
                            /\ ~rows[i].raw => rows'[i] = rows[i]]_vars

\* The latest triage, which the page shows, was checked: docs/API.md:31 gives it
\* counts, which the page reads (ai_triage.py:154-171, App.jsx:547).
ShownTriageIsChecked ==
  \A i \in DOMAIN rows :
    rows[i].kind = "triage" /\ (\A j \in i + 1 .. Len(rows) : rows[j].kind # "triage")
      => ~rows[i].raw \/ \E r \in Request : request[r].pc = "stored" /\ request[r].row = i
=============================================================================
