---------------------------- MODULE AdviceProofs ----------------------------
(***************************************************************************)
(* Proofs about Advice, for any requests, prompts and answers.             *)
(***************************************************************************)
EXTENDS Advice, TLAPS

\* What the checks of an answer rely on.
LEMMA TextFacts ==
  /\ NoText \in Text
  /\ \A commands \in Fact : Plan(commands) \in Text /\ Plan(commands).says = commands
  /\ \A t \in Text : t.form \in {"object", "fenced", "prose"} /\ t.says \subseteq Claim /\ t.counts \in BOOLEAN
  BY DEF NoText, Text, Fact, Claim, Plan

\* A request that waits is a request.
LEMMA WaitingFacts == Waiting \in RequestType /\ Waiting.pc = "idle" /\ Waiting.kind = None
  BY AdviceAssumption, TextFacts DEF Waiting, RequestType, Fact

\* What a check leaves says nothing but what the prompt was about.
LEMMA CheckedFacts ==
  ASSUME NEW me \in RequestType
  PROVE  /\ Checked(me) \in Text /\ Checked(me).says \subseteq me.about
         /\ Checked(me).says = me.text.says \cap me.about /\ Checked(me).form = "object"
  BY TextFacts DEF Checked, Text, RequestType, Fact, Claim

\* An answer is added after those that are stored, which stay.
LEMMA AppendFacts ==
  ASSUME rows \in Seq(Row), NEW new \in Row, rows' = Append(rows, new)
  PROVE  /\ rows' \in Seq(Row) /\ Len(rows') = Len(rows) + 1 /\ rows'[Len(rows) + 1] = new
         /\ DOMAIN rows = 1 .. Len(rows) /\ DOMAIN rows' = 1 .. Len(rows) + 1 /\ Len(rows) \in Nat
         /\ \A i \in DOMAIN rows : rows'[i] = rows[i]
  OBVIOUS

\* A request changes alone, to one that is refused, returned, or still checked.
LEMMA RefusesFacts ==
  ASSUME request \in [Request -> RequestType], NEW r \in Request, Refuses(r)
  PROVE  /\ request' \in [Request -> RequestType] /\ request'[r].pc = "refused" /\ request'[r].kind = None
         /\ \A q \in Request \ {r} : request'[q] = request[q]
  BY WaitingFacts DEF Refuses, RequestType

\* The request that has its text and its row.
LEMMA AtFacts ==
  ASSUME request \in [Request -> RequestType], NEW r \in Request, NEW i \in Nat, NEW text \in Text,
         NEW pc \in {"answered", "stored"}
  PROVE  /\ At(pc, r, i, text) \in RequestType
         /\ At(pc, r, i, text).pc = pc /\ At(pc, r, i, text).row = i /\ At(pc, r, i, text).kind = request[r].kind
         /\ At(pc, r, i, text).about = request[r].about /\ At(pc, r, i, text).text = text
  BY AdviceAssumption DEF At, RequestType

\* A request returns its text to its caller.
LEMMA ReturnsFacts ==
  ASSUME request \in [Request -> RequestType], NEW r \in Request, NEW text \in Text, Returns(r, text)
  PROVE  /\ request' \in [Request -> RequestType]
         /\ request'[r].pc = "answered" /\ request'[r].kind = request[r].kind
         /\ request'[r].about = request[r].about /\ request'[r].text = text
         /\ \A q \in Request \ {r} : request'[q] = request[q]
  BY AtFacts DEF Returns

\* A request goes on with the row it found or stored.
LEMMA HoldsFacts ==
  ASSUME request \in [Request -> RequestType], NEW r \in Request, NEW i \in Nat, NEW text \in Text, Holds(r, i, text)
  PROVE  /\ request' \in [Request -> RequestType]
         /\ request'[r].pc = IF request[r].kind = "summary" THEN "answered" ELSE "stored"
         /\ request'[r].pc = "stored" => request'[r].row = i
         /\ request'[r].kind = request[r].kind
         /\ request'[r].about = request[r].about /\ request'[r].text = text
         /\ \A q \in Request \ {r} : request'[q] = request[q]
<1>1. CASE request[r].kind = "summary"
  BY <1>1, ReturnsFacts DEF Holds
<1>2. CASE request[r].kind # "summary"
  BY <1>2, AtFacts DEF Holds
<1> QED BY <1>1, <1>2

\* A request begins with what is stored about its target.
LEMMA ReadsFacts ==
  ASSUME TypeOK, NEW r \in Request, NEW kind \in Kind, NEW force \in BOOLEAN, Reads(r, kind, force)
  PROVE  /\ request' \in [Request -> RequestType] /\ UNCHANGED <<facts, rows, plans, changes>>
         /\ \/ request'[r].pc = "refused"
            \/ request'[r].pc = "read" /\ request'[r].kind = kind
         /\ \A q \in Request \ {r} : request'[q] = request[q]
<1>1. CASE Refuses(r)
  <2>1. UNCHANGED <<facts, rows, plans, changes>>
    BY DEF Reads
  <2> QED BY <1>1, <2>1, RefusesFacts DEF TypeOK
<1>2. CASE request' = [request EXCEPT ![r].pc = "read", ![r].kind = kind, ![r].force = force, ![r].about = facts]
  <2>1. [request[r] EXCEPT !.pc = "read", !.kind = kind, !.force = force, !.about = facts] \in RequestType
    BY DEF RequestType, TypeOK
  <2>2. request'[r] = [request[r] EXCEPT !.pc = "read", !.kind = kind, !.force = force, !.about = facts]
    BY <1>2 DEF TypeOK
  <2> QED BY <1>2, <2>1, <2>2 DEF TypeOK, RequestType, Reads
<1> QED BY <1>1, <1>2 DEF Reads

\* Nothing was found, and the provider is going to be asked.
LEMMA AsksFacts ==
  ASSUME TypeOK, NEW r \in Request, NEW n \in Nat,
         request' = [request EXCEPT ![r].pc = "asking", ![r].seen = n]
  PROVE  /\ request' \in [Request -> RequestType] /\ request'[r].pc = "asking" /\ request'[r].seen = n
         /\ request'[r].kind = request[r].kind /\ request'[r].about = request[r].about
         /\ request'[r].force = request[r].force
         /\ \A q \in Request \ {r} : request'[q] = request[q]
<1>1. [request[r] EXCEPT !.pc = "asking", !.seen = n] \in RequestType
  BY DEF RequestType, TypeOK
<1>2. request'[r] = [request[r] EXCEPT !.pc = "asking", !.seen = n]
  BY DEF TypeOK
<1> QED BY <1>1, <1>2 DEF TypeOK, RequestType

\* A plan is found, or the provider is going to be asked.
LEMMA LooksForPlanFacts ==
  ASSUME TypeOK, NEW r \in Request, LooksForPlan(r)
  PROVE  /\ request' \in [Request -> RequestType] /\ UNCHANGED <<facts, rows, plans, changes>>
         /\ request[r].pc = "read" /\ request[r].kind = "plan"
         /\ \/ request'[r].pc = "asking" /\ request'[r].kind = "plan"
            \/ /\ request'[r].pc = "answered" /\ request'[r].kind = "plan"
               /\ request'[r].about = request[r].about /\ request'[r].text.says = plans[request[r].about]
         /\ \A q \in Request \ {r} : request'[q] = request[q]
<1>1. plans[request[r].about] \in Fact
  BY DEF TypeOK, RequestType
<1>2. CASE Returns(r, Plan(plans[request[r].about]))
  BY <1>1, <1>2, TextFacts, ReturnsFacts DEF LooksForPlan, TypeOK
<1>3. CASE request' = [request EXCEPT ![r].pc = "asking"]
  <2>1. [request[r] EXCEPT !.pc = "asking"] \in RequestType
    BY DEF RequestType, TypeOK
  <2>2. request'[r] = [request[r] EXCEPT !.pc = "asking"]
    BY <1>3 DEF TypeOK
  <2> QED BY <1>3, <2>1, <2>2 DEF LooksForPlan, TypeOK, RequestType
<1> QED BY <1>2, <1>3 DEF LooksForPlan

\* A row in store is found for its prompt.
LEMMA FoundFacts ==
  ASSUME TypeOK, NEW r \in Request, NEW i \in Cached(r)
  PROVE  /\ i \in Nat /\ i \in DOMAIN rows /\ rows[i].text \in Text
         /\ rows[i].kind = request[r].kind /\ rows[i].about = request[r].about
<1>1. rows \in Seq(Row) /\ i \in DOMAIN rows
  BY DEF TypeOK, Cached
<1>2. rows[i] \in Row /\ i \in Nat
  BY <1>1
<1> QED BY <1>1, <1>2 DEF Cached, Row

\* A request that fails is refused; a plan falls back to no commands.
LEMMA FailsFacts ==
  ASSUME request \in [Request -> RequestType], NEW r \in Request, Fails(r)
  PROVE  /\ request' \in [Request -> RequestType]
         /\ \/ request'[r].pc = "refused"
            \/ request'[r].pc = "answered" /\ request'[r].kind = request[r].kind /\ request'[r].text.says = {}
         /\ \A q \in Request \ {r} : request'[q] = request[q]
<1>1. {} \in Fact
  BY DEF Fact
<1>2. Plan({}) \in Text /\ Plan({}).says = {}
  BY <1>1, TextFacts
<1>3. CASE request[r].kind = "plan"
  BY <1>2, <1>3, ReturnsFacts DEF Fails
<1>4. CASE request[r].kind # "plan"
  BY <1>4, RefusesFacts DEF Fails
<1> QED BY <1>3, <1>4

\* The provider's refusals, which keep the request or fail it.
LEMMA RetriesFacts ==
  ASSUME request \in [Request -> RequestType], NEW r \in Request, EffortRefused(r) \/ Busy(r) \/ Refused(r)
  PROVE  /\ request' \in [Request -> RequestType] /\ request[r].pc = "asking"
         /\ \/ request'[r].pc = "refused"
            \/ request'[r].pc = "answered" /\ request'[r].kind = request[r].kind /\ request'[r].text.says = {}
            \/ /\ request'[r].pc = "asking" /\ request'[r].kind = request[r].kind
               /\ request'[r].about = request[r].about /\ request'[r].force = request[r].force
               /\ request'[r].seen = request[r].seen
         /\ \A q \in Request \ {r} : request'[q] = request[q]
         /\ UNCHANGED <<facts, rows, plans, changes>>
<1>1. CASE Fails(r)
  BY <1>1, FailsFacts DEF EffortRefused, Busy, Refused
<1>2. CASE ~Fails(r)
  BY <1>2, AdviceAssumption DEF EffortRefused, Busy, Refused, RequestType, Last
<1> QED BY <1>1, <1>2

-----------------------------------------------------------------------------
\* The steps that keep the rows.
Apart(r) ==
  \/ \E kind \in Kind, force \in BOOLEAN : Reads(r, kind, force)
  \/ LooksForPlan(r)
  \/ EffortRefused(r) \/ Busy(r) \/ Refused(r)
  \/ \E text \in Answers : PlanAnswered(r, text)
  \/ ReturnsTriage(r) \/ RejectsTriage(r)

\* Where they bring their request.
Fair(me) == \/ me.text.says \subseteq me.about
            \/ me.kind = "triage" /\ Counted(me.text)
Goes(me, next) ==
  \/ next.pc = "refused"
  \/ next.pc = "read" /\ next.kind \in Kind
  \/ next.pc = "asking" /\ next.kind = "plan" /\ next.kind = me.kind
  \/ /\ next.pc = "asking" /\ me.pc = "asking" /\ next.kind = me.kind
     /\ next.about = me.about /\ next.force = me.force /\ next.seen = me.seen
  \/ next.pc = "answered" /\ next.kind = me.kind /\ Fair(next)
Alone(r) == \A q \in Request \ {r} : request'[q] = request[q]

\* Every one of them goes there alone, and keeps the plans about their servers.
LEMMA ApartFacts ==
  ASSUME TypeOK, OnlyCandidatesAreJudged, LookedBefore, NEW r \in Request, Apart(r)
  PROVE  /\ TypeOK' /\ UNCHANGED rows /\ Alone(r)
         /\ request[r].pc \notin {"idle", "refused"} \/ request'[r].pc \in {"read", "refused"}
         /\ Goes(request[r], request'[r])
         /\ \A f \in Fact : plans'[f] \subseteq f
<1> DEFINE Same == UNCHANGED <<facts, rows, plans, changes>>
<1>1. Same => UNCHANGED rows /\ (\A f \in Fact : plans'[f] \subseteq f)
  BY DEF OnlyCandidatesAreJudged
<1>2. Same /\ request' \in [Request -> RequestType] => TypeOK'
  BY DEF TypeOK
<1>3. request[r] \in RequestType /\ request[r].text \in Text
  BY DEF TypeOK, RequestType
<1> DEFINE Goal == /\ TypeOK' /\ UNCHANGED rows /\ Alone(r) /\ Goes(request[r], request'[r])
                   /\ request[r].pc \notin {"idle", "refused"} \/ request'[r].pc \in {"read", "refused"}
                   /\ \A f \in Fact : plans'[f] \subseteq f
<1>4. ASSUME NEW kind \in Kind, NEW force \in BOOLEAN, Reads(r, kind, force) PROVE Goal
  BY <1>1, <1>2, <1>4, ReadsFacts DEF Alone, Goes
<1>5. CASE LooksForPlan(r)
  <2>1. plans[request[r].about] \subseteq request[r].about
    BY <1>3 DEF OnlyCandidatesAreJudged, RequestType
  <2>2. Same /\ Alone(r) /\ request' \in [Request -> RequestType] /\ request[r].pc = "read"
    BY <1>5, LooksForPlanFacts DEF Alone
  <2>3. Goes(request[r], request'[r])
    BY <2>1, <1>5, LooksForPlanFacts DEF Goes, Fair
  <2> QED BY <2>2, <2>3, <1>1, <1>2
<1>6. CASE EffortRefused(r) \/ Busy(r) \/ Refused(r)
  <2>1. Same /\ Alone(r) /\ request' \in [Request -> RequestType] /\ request[r].pc = "asking"
    BY <1>6, RetriesFacts DEF Alone, TypeOK
  <2>2. Goes(request[r], request'[r])
    BY <1>6, RetriesFacts DEF Goes, Fair, TypeOK
  <2> QED BY <2>1, <2>2, <1>1, <1>2
<1>7. ASSUME NEW text \in Answers, PlanAnswered(r, text) PROVE Goal
  <2> DEFINE commands == text.says \cap request[r].about
  <2>1. text \in Text /\ request[r].about \in Fact /\ commands \in Fact /\ commands \subseteq request[r].about
    BY <1>3, AdviceAssumption DEF RequestType, Fact
  <2>2. /\ request[r].pc = "asking" /\ Returns(r, Plan(commands)) /\ UNCHANGED <<facts, rows, changes>>
        /\ plans' = [plans EXCEPT ![request[r].about] = IF commands = {} THEN @ ELSE commands]
    BY <1>7 DEF PlanAnswered
  <2>3. plans' \in [Fact -> Fact] /\ \A f \in Fact : plans'[f] \subseteq f
    BY <2>1, <2>2 DEF OnlyCandidatesAreJudged, TypeOK
  <2>4. Plan(commands) \in Text /\ Plan(commands).says = commands
    BY <2>1, TextFacts
  <2> HIDE DEF commands
  <2>5. /\ request' \in [Request -> RequestType] /\ request'[r].pc = "answered"
        /\ request'[r].kind = request[r].kind /\ request'[r].about = request[r].about
        /\ request'[r].text = Plan(commands) /\ \A q \in Request \ {r} : request'[q] = request[q]
    BY <2>2, <2>4, ReturnsFacts DEF TypeOK
  <2>6. Goes(request[r], request'[r]) /\ Alone(r)
    BY <2>1, <2>4, <2>5 DEF Goes, Fair, Alone
  <2> QED BY <2>2, <2>3, <2>5, <2>6 DEF TypeOK
<1>8. CASE ReturnsTriage(r)
  <2>1. Returns(r, request[r].text) /\ Same /\ request[r].pc = "stored" /\ Counted(request[r].text)
        /\ request[r].kind = "triage"
    BY <1>8 DEF ReturnsTriage
  <2> QED BY <2>1, <1>1, <1>2, <1>3, ReturnsFacts DEF TypeOK, Alone, Goes, Fair
<1>9. CASE RejectsTriage(r)
  <2>1. Refuses(r) /\ Same /\ request[r].pc = "stored"
    BY <1>9 DEF RejectsTriage
  <2>2. Alone(r) /\ request' \in [Request -> RequestType] /\ request'[r].pc = "refused"
    BY <2>1, RefusesFacts DEF TypeOK, Alone
  <2> QED BY <2>1, <2>2, <1>1, <1>2 DEF Goes
<1> QED BY <1>4, <1>5, <1>6, <1>7, <1>8, <1>9 DEF Apart

\* A step that keeps the rows keeps the invariant.
LEMMA ApartStep ==
  ASSUME IInv, NEW r \in Request, Apart(r)
  PROVE  IInv'
<1>1. /\ TypeOK' /\ UNCHANGED rows /\ Alone(r) /\ Goes(request[r], request'[r])
      /\ request[r].pc \notin {"idle", "refused"} \/ request'[r].pc \in {"read", "refused"}
      /\ \A f \in Fact : plans'[f] \subseteq f
  BY ApartFacts DEF IInv
<1>2. RowsFitRequests'
  <2>1. ASSUME NEW q \in Request, request'[q].pc = "stored" PROVE HasItsRow(request[q])'
    <3>1. request'[q] = request[q]
      BY <1>1, <2>1 DEF Goes, Alone
    <3> QED BY <1>1, <2>1, <3>1 DEF IInv, RowsFitRequests, HasItsRow, Checked
  <2> QED BY <2>1 DEF RowsFitRequests
<1>3. LookedBefore'
  <2>1. ASSUME NEW q \in Request PROVE Looked(request[q])'
    <3>1. Looked(request[q])
      BY DEF IInv, LookedBefore
    <3>2. CASE q = r
      BY <1>1, <3>1, <3>2 DEF Goes, Looked
    <3>3. CASE q # r
      BY <1>1, <3>1, <3>3 DEF Alone, Looked
    <3> QED BY <3>2, <3>3
  <2> QED BY <2>1 DEF LookedBefore
<1>4. OnlyCandidatesAreJudged'
  BY <1>1 DEF IInv, OnlyCandidatesAreJudged, Alone, Goes, Fair
<1>5. AskedOncePerPrompt'
  BY <1>1 DEF IInv, AskedOncePerPrompt
<1> QED BY <1>1, <1>2, <1>3, <1>4, <1>5 DEF IInv

-----------------------------------------------------------------------------
\* A look finds nothing, or the answer to the very prompt.
LEMMA LooksStep ==
  ASSUME IInv, NEW r \in Request, Looks(r)
  PROVE  IInv'
<1>1. TypeOK /\ LookedBefore /\ rows \in Seq(Row) /\ Len(rows) \in Nat /\ DOMAIN rows = 1 .. Len(rows)
  BY DEF IInv, TypeOK
<1>2. request[r].pc = "read" /\ request[r].kind \in Kind \ {"plan"} /\ UNCHANGED <<facts, rows, plans, changes>>
  BY <1>1 DEF Looks, LookedBefore, Looked
<1>3. CASE /\ request[r].force \/ Cached(r) = {}
           /\ request' = [request EXCEPT ![r].pc = "asking", ![r].seen = Len(rows)]
  <2>1. /\ request' \in [Request -> RequestType] /\ request'[r].pc = "asking" /\ request'[r].seen = Len(rows)
        /\ request'[r].kind = request[r].kind /\ request'[r].about = request[r].about
        /\ request'[r].force = request[r].force
        /\ \A q \in Request \ {r} : request'[q] = request[q]
    BY <1>1, <1>3, AsksFacts
  <2>2. ~request[r].force =>
          \A i \in 1 .. Len(rows) : rows[i].kind # request[r].kind \/ rows[i].about # request[r].about
    BY <1>1, <1>3 DEF Cached
  <2>3. LookedBefore'
    <3>1. ASSUME NEW q \in Request PROVE Looked(request[q])'
      <4>1. CASE q = r
        BY <1>1, <1>2, <2>1, <2>2, <4>1 DEF Looked
      <4>2. CASE q # r
        BY <1>1, <1>2, <2>1, <4>2 DEF Looked, LookedBefore
      <4> QED BY <4>1, <4>2
    <3> QED BY <3>1 DEF LookedBefore
  <2>4. RowsFitRequests'
    BY <1>2, <2>1 DEF IInv, RowsFitRequests, HasItsRow, Checked
  <2> QED BY <1>2, <2>1, <2>3, <2>4 DEF IInv, TypeOK, OnlyCandidatesAreJudged, AskedOncePerPrompt
<1>4. ASSUME NEW i \in Cached(r), Holds(r, i, rows[i].text) PROVE IInv'
  <2>1. /\ i \in Nat /\ i \in DOMAIN rows /\ rows[i].text \in Text
        /\ rows[i].kind = request[r].kind /\ rows[i].about = request[r].about /\ rows[i] \in Row
    BY <1>1, FoundFacts
  <2>2. /\ request' \in [Request -> RequestType]
        /\ request'[r].pc = IF request[r].kind = "summary" THEN "answered" ELSE "stored"
        /\ request'[r].pc = "stored" => request'[r].row = i
        /\ request'[r].kind = request[r].kind
        /\ request'[r].about = request[r].about /\ request'[r].text = rows[i].text
        /\ \A q \in Request \ {r} : request'[q] = request[q]
    BY <1>1, <1>4, <2>1, HoldsFacts DEF TypeOK
  <2>3. RowsFitRequests'
    <3>1. ASSUME NEW q \in Request, request'[q].pc = "stored" PROVE HasItsRow(request[q])'
      <4>1. CASE q = r
        <5>1. request[r].kind \in {"triage", "verify"}
          BY <1>2, <2>2, <3>1, <4>1, AdviceAssumption
        <5>2. request'[r].row = i /\ request'[r].text = rows[i].text
          BY <2>2, <3>1, <4>1
        <5>3. ~rows[i].raw => rows[i].text = Checked(request'[r])
            BY <2>1, <2>2, <5>1, <5>2 DEF IInv, OnlyCandidatesAreJudged, Checked
        <5> QED BY <1>2, <2>1, <2>2, <4>1, <5>1, <5>2, <5>3 DEF HasItsRow
      <4>2. CASE q # r
        BY <1>2, <2>2, <3>1, <4>2 DEF IInv, RowsFitRequests, HasItsRow, Checked
      <4> QED BY <4>1, <4>2
    <3> QED BY <3>1 DEF RowsFitRequests
  <2>4. LookedBefore'
    BY <1>1, <1>2, <2>2 DEF LookedBefore, Looked
  <2>5. OnlyCandidatesAreJudged'
    BY <1>2, <2>2 DEF IInv, OnlyCandidatesAreJudged
  <2> QED BY <1>2, <2>2, <2>3, <2>4, <2>5 DEF IInv, TypeOK, AskedOncePerPrompt
<1> QED BY <1>3, <1>4 DEF Looks

\* The answer is added to the end, for the request that asked for it.
LEMMA StoresStep ==
  ASSUME IInv, NEW r \in Request, NEW text \in Answers, Stores(r, text)
  PROVE  IInv'
<1>1. TypeOK /\ LookedBefore /\ RowsFitRequests /\ text \in Text /\ Len(rows) + 1 \in Nat /\ request[r] \in RequestType
  BY AdviceAssumption DEF IInv, TypeOK
<1> DEFINE new == [kind |-> request[r].kind, about |-> request[r].about, text |-> text,
                   forced |-> request[r].force, seen |-> request[r].seen, raw |-> TRUE]
<1>2. /\ request[r].pc = "asking" /\ request[r].kind \in Kind \ {"plan"}
      /\ rows' = Append(rows, new) /\ Holds(r, Len(rows) + 1, text) /\ UNCHANGED <<facts, plans, changes>>
  BY <1>1 DEF Stores, LookedBefore, Looked
<1>3. new \in Row
  BY <1>1, <1>2 DEF Row, RequestType
<1>4. new.kind = request[r].kind /\ new.about = request[r].about /\ new.text = text /\ new.raw
      /\ new.forced = request[r].force /\ new.seen = request[r].seen
  OBVIOUS
<1> HIDE DEF new
<1>5. /\ rows' \in Seq(Row) /\ Len(rows') = Len(rows) + 1 /\ rows'[Len(rows) + 1] = new
      /\ DOMAIN rows = 1 .. Len(rows) /\ DOMAIN rows' = 1 .. Len(rows) + 1 /\ Len(rows) \in Nat
      /\ \A i \in DOMAIN rows : i \in DOMAIN rows' /\ rows'[i] = rows[i]
  BY <1>1, <1>2, <1>3, AppendFacts DEF TypeOK
<1>6. /\ request' \in [Request -> RequestType]
      /\ request'[r].pc = IF request[r].kind = "summary" THEN "answered" ELSE "stored"
      /\ request'[r].pc = "stored" => request'[r].row = Len(rows) + 1
      /\ request'[r].kind = request[r].kind
      /\ request'[r].about = request[r].about /\ request'[r].text = text
      /\ \A q \in Request \ {r} : request'[q] = request[q]
  BY <1>1, <1>2, HoldsFacts DEF TypeOK
<1>7. RowsFitRequests'
  <2>1. ASSUME NEW q \in Request, request'[q].pc = "stored" PROVE HasItsRow(request[q])'
    <3>1. CASE q = r
      <4>1. request[r].kind \in {"triage", "verify"} /\ request'[r].row = Len(rows) + 1
        BY <1>2, <1>6, <2>1, <3>1, AdviceAssumption
      <4> QED BY <1>4, <1>5, <1>6, <3>1, <4>1 DEF HasItsRow
    <3>2. CASE q # r
      <4>1. request'[q] = request[q] /\ HasItsRow(request[q])
        BY <1>1, <1>6, <2>1, <3>2 DEF RowsFitRequests
      <4> QED BY <1>5, <4>1 DEF HasItsRow, Checked
    <3> QED BY <3>1, <3>2
  <2> QED BY <2>1 DEF RowsFitRequests
<1>8. LookedBefore'
  <2>1. ASSUME NEW q \in Request PROVE Looked(request[q])'
    <3>1. CASE q = r
      BY <1>2, <1>6, <3>1 DEF Looked
    <3>2. CASE q # r
      <4>1. request'[q] = request[q] /\ Looked(request[q]) /\ request[q].seen \in Nat
        BY <1>1, <1>6, <3>2 DEF LookedBefore, TypeOK, RequestType
      <4> QED BY <1>5, <4>1 DEF Looked
    <3> QED BY <3>1, <3>2
  <2> QED BY <2>1 DEF LookedBefore
<1>9. OnlyCandidatesAreJudged'
  <2>1. \A i \in DOMAIN rows' : ~rows'[i].raw => i \in DOMAIN rows /\ rows'[i] = rows[i]
    BY <1>4, <1>5
  <2>2. \A q \in Request : request'[q].pc = "answered" /\ request'[q].kind # "summary" => request'[q] = request[q]
    BY <1>6
  <2> QED BY <1>2, <2>1, <2>2 DEF IInv, OnlyCandidatesAreJudged, Checked
<1>10. AskedOncePerPrompt'
  <2> SUFFICES ASSUME NEW i \in DOMAIN rows', NEW j \in DOMAIN rows', i < j, rows'[i].kind = rows'[j].kind,
                      rows'[i].about = rows'[j].about, ~rows'[j].forced
               PROVE  rows'[j].seen < i
    BY DEF AskedOncePerPrompt
  <2>1. CASE j \in DOMAIN rows
    BY <1>5, <2>1 DEF IInv, AskedOncePerPrompt
  <2>2. CASE j \notin DOMAIN rows
    <3>1. rows'[j] = new /\ i \in 1 .. Len(rows) /\ rows'[i] = rows[i]
      BY <1>5, <2>2
    <3>2. ~(i \in 1 .. request[r].seen)
      BY <1>1, <1>2, <1>4, <3>1 DEF LookedBefore, Looked
    <3> QED BY <1>1, <1>4, <3>1, <3>2 DEF RequestType
  <2> QED BY <2>1, <2>2
<1> QED BY <1>2, <1>5, <1>6, <1>7, <1>8, <1>9, <1>10 DEF IInv, TypeOK

\* A checked answer replaces what was stored, for its own prompt.
LEMMA ChecksFacts ==
  ASSUME IInv, NEW r \in Request, Checks(r)
  PROVE  /\ request[r].pc = "stored" /\ HasItsRow(request[r]) /\ UNCHANGED <<facts, plans, changes>>
         /\ request[r].kind = "triage" => Checked(request[r]).says # {}
         /\ Checked(request[r]) \in Text /\ Checked(request[r]).says \subseteq request[r].about
         /\ rows' \in Seq(Row) /\ DOMAIN rows' = DOMAIN rows /\ Len(rows') = Len(rows) /\ DOMAIN rows = 1 .. Len(rows)
         /\ rows'[request[r].row] \in Row /\ rows[request[r].row] \in Row
         /\ \A i \in DOMAIN rows : /\ rows'[i].kind = rows[i].kind /\ rows'[i].about = rows[i].about
                                   /\ rows'[i].forced = rows[i].forced /\ rows'[i].seen = rows[i].seen
                                   /\ i # request[r].row => rows'[i] = rows[i]
         /\ rows'[request[r].row].text = Checked(request[r]) /\ ~rows'[request[r].row].raw
         /\ request' \in [Request -> RequestType]
         /\ request'[r].pc = "answered" /\ request'[r].kind = request[r].kind
         /\ request'[r].about = request[r].about /\ request'[r].text = Checked(request[r])
         /\ \A q \in Request \ {r} : request'[q] = request[q]
<1>1. TypeOK /\ RowsFitRequests /\ request[r] \in RequestType
  BY DEF IInv, TypeOK
<1>2. /\ request[r].pc = "stored" /\ UNCHANGED <<facts, plans, changes>> /\ Returns(r, Checked(request[r]))
      /\ request[r].kind = "triage" => Checked(request[r]).says # {}
  BY DEF Checks
<1>3. HasItsRow(request[r])
  BY <1>1, <1>2 DEF RowsFitRequests
<1>4. Checked(request[r]) \in Text /\ Checked(request[r]).says \subseteq request[r].about
  BY <1>1, CheckedFacts
<1>5. rows \in Seq(Row) /\ request[r].row \in DOMAIN rows /\ rows[request[r].row] \in Row
  BY <1>1, <1>3 DEF HasItsRow, TypeOK
<1> DEFINE new == [rows[request[r].row] EXCEPT !.text = Checked(request[r]), !.raw = FALSE]
<1>6. /\ new \in Row /\ new.text = Checked(request[r]) /\ ~new.raw /\ new.kind = rows[request[r].row].kind
      /\ new.about = rows[request[r].row].about /\ new.forced = rows[request[r].row].forced
      /\ new.seen = rows[request[r].row].seen
  BY <1>4, <1>5 DEF Row
<1>7. rows' = [rows EXCEPT ![request[r].row] = new]
  BY <1>5 DEF Checks
<1> HIDE DEF new
<1>8. /\ rows' \in Seq(Row) /\ DOMAIN rows' = DOMAIN rows /\ Len(rows') = Len(rows) /\ rows'[request[r].row] = new
      /\ DOMAIN rows = 1 .. Len(rows) /\ \A i \in DOMAIN rows \ {request[r].row} : rows'[i] = rows[i]
  BY <1>5, <1>6, <1>7
<1>9. /\ request' \in [Request -> RequestType]
      /\ request'[r].pc = "answered" /\ request'[r].kind = request[r].kind
      /\ request'[r].about = request[r].about /\ request'[r].text = Checked(request[r])
      /\ \A q \in Request \ {r} : request'[q] = request[q]
  BY <1>1, <1>2, <1>4, ReturnsFacts DEF TypeOK
<1> QED BY <1>2, <1>3, <1>4, <1>5, <1>6, <1>8, <1>9

\* A check keeps the invariant: the row it writes is the one the request has.
LEMMA ChecksStep ==
  ASSUME IInv, NEW r \in Request, Checks(r)
  PROVE  IInv'
<1> DEFINE row == request[r].row
<1>1. /\ request[r].pc = "stored" /\ HasItsRow(request[r]) /\ UNCHANGED <<facts, plans, changes>>
      /\ request[r].kind = "triage" => Checked(request[r]).says # {}
      /\ Checked(request[r]) \in Text /\ Checked(request[r]).says \subseteq request[r].about
      /\ rows' \in Seq(Row) /\ DOMAIN rows' = DOMAIN rows /\ Len(rows') = Len(rows) /\ DOMAIN rows = 1 .. Len(rows)
      /\ \A i \in DOMAIN rows : /\ rows'[i].kind = rows[i].kind /\ rows'[i].about = rows[i].about
                                /\ rows'[i].forced = rows[i].forced /\ rows'[i].seen = rows[i].seen
                                /\ i # row => rows'[i] = rows[i]
      /\ rows'[row].text = Checked(request[r]) /\ ~rows'[row].raw
      /\ request' \in [Request -> RequestType]
      /\ request'[r].pc = "answered" /\ request'[r].kind = request[r].kind
      /\ request'[r].about = request[r].about /\ request'[r].text = Checked(request[r])
      /\ \A q \in Request \ {r} : request'[q] = request[q]
  BY ChecksFacts
<1> HIDE DEF row
<1>2. RowsFitRequests'
  <2>1. ASSUME NEW q \in Request, request'[q].pc = "stored" PROVE HasItsRow(request[q])'
    <3>1. q # r
      BY <1>1, <2>1
    <3>2. request'[q] = request[q] /\ HasItsRow(request[q])
      BY <1>1, <2>1, <3>1 DEF IInv, RowsFitRequests
    <3>3. CASE request[q].row = row
      <4>1. request[q].kind = request[r].kind /\ request[q].about = request[r].about
        BY <1>1, <3>2, <3>3 DEF HasItsRow, row
      <4>2. Checked(request[q]) = Checked(request[r])
        <5>1. rows[row].raw => request[q].text = request[r].text
          BY <1>1, <3>2, <3>3 DEF HasItsRow, row
        <5>2. ~rows[row].raw => Checked(request[q]) = Checked(request[r])
          BY <1>1, <3>2, <3>3 DEF HasItsRow, row
        <5> QED BY <4>1, <5>1, <5>2 DEF Checked
      <4> QED BY <1>1, <3>2, <3>3, <4>2 DEF HasItsRow, Checked
    <3>4. CASE request[q].row # row
      BY <1>1, <3>2, <3>4 DEF HasItsRow, Checked
    <3> QED BY <3>3, <3>4
  <2> QED BY <2>1 DEF RowsFitRequests
<1>3. LookedBefore'
  <2>1. ASSUME NEW q \in Request PROVE Looked(request[q])'
    <3>1. CASE q = r
      BY <1>1, <3>1 DEF IInv, LookedBefore, Looked
    <3>2. CASE q # r
      <4>1. request'[q] = request[q] /\ Looked(request[q]) /\ request[q].seen \in Nat
        BY <1>1, <3>2 DEF IInv, LookedBefore, TypeOK, RequestType
      <4> QED BY <1>1, <4>1 DEF Looked
    <3> QED BY <3>1, <3>2
  <2> QED BY <2>1 DEF LookedBefore
<1>4. rows'[row] = rows'[row] /\ row \in DOMAIN rows /\ rows'[row].about = request[r].about
      /\ rows'[row].kind = request[r].kind
  BY <1>1 DEF HasItsRow, row
<1>5. rows'[row].text = Checked(rows'[row])
  <2>1. Checked(request[r]).says = request[r].text.says \cap request[r].about
    BY CheckedFacts DEF IInv, TypeOK
  <2>2. Checked(request[r]).says \cap request[r].about = Checked(request[r]).says
    BY <2>1
  <2> QED BY <1>1, <1>4, <2>1, <2>2 DEF Checked
<1>6. OnlyCandidatesAreJudged'
  <2>1. ASSUME NEW i \in DOMAIN rows', ~rows'[i].raw
        PROVE  rows'[i].text = Checked(rows'[i]) /\ (rows'[i].kind = "triage" => rows'[i].text.says # {})
    BY <1>1, <1>4, <1>5, <2>1 DEF IInv, OnlyCandidatesAreJudged
  <2>2. ASSUME NEW q \in Request, request'[q].pc = "answered", request'[q].kind # "summary"
        PROVE  \/ request'[q].text.says \subseteq request'[q].about
               \/ request'[q].kind = "triage" /\ Counted(request'[q].text)
    BY <1>1, <2>2 DEF IInv, OnlyCandidatesAreJudged
  <2> QED BY <1>1, <2>1, <2>2 DEF IInv, OnlyCandidatesAreJudged, Checked, Counted
<1>7. AskedOncePerPrompt'
  BY <1>1 DEF IInv, AskedOncePerPrompt
<1> QED BY <1>1, <1>2, <1>3, <1>6, <1>7 DEF IInv, TypeOK

\* A restart forgets the requests and the plans, and keeps the rows.
LEMMA RestartsStep ==
  ASSUME IInv, Restarts
  PROVE  IInv'
<1>1. request' \in [Request -> RequestType]
  BY WaitingFacts DEF IInv, TypeOK, Restarts, RequestType
<1>2. \A q \in Request : request'[q].pc = "refused" \/ request'[q] = request[q]
  BY DEF Restarts, Waiting
<1>3. /\ UNCHANGED <<facts, rows, changes>> /\ plans' \in [Fact -> Fact]
      /\ \A f \in Fact : plans'[f] = {}
  BY DEF Restarts, Fact
<1>4. RowsFitRequests' /\ LookedBefore'
  BY <1>2, <1>3 DEF IInv, RowsFitRequests, HasItsRow, Checked, LookedBefore, Looked
<1>5. OnlyCandidatesAreJudged'
  BY <1>2, <1>3 DEF IInv, OnlyCandidatesAreJudged, Checked
<1> QED BY <1>1, <1>3, <1>4, <1>5 DEF IInv, TypeOK, AskedOncePerPrompt

\* The invariant holds at first, when no row is stored.
LEMMA InitInv == Init => IInv
  BY AdviceAssumption, WaitingFacts
     DEF Init, IInv, TypeOK, Row, RowsFitRequests, LookedBefore, Looked, OnlyCandidatesAreJudged, AskedOncePerPrompt, Fact

\* Every step keeps the invariant.
LEMMA StepInv == IInv /\ [Next]_vars => IInv'
<1> SUFFICES ASSUME IInv, [Next]_vars PROVE IInv'
  OBVIOUS
<1>0. CASE UNCHANGED vars
  BY <1>0 DEF vars, IInv, TypeOK, RowsFitRequests, HasItsRow, Checked, LookedBefore, Looked, OnlyCandidatesAreJudged,
              AskedOncePerPrompt, Counted
<1>1. CASE TargetChanges
  BY <1>1 DEF TargetChanges, IInv, TypeOK, RowsFitRequests, HasItsRow, Checked, LookedBefore, Looked,
              OnlyCandidatesAreJudged, AskedOncePerPrompt, Counted
<1>2. ASSUME NEW r \in Request, Apart(r) PROVE IInv'
  BY <1>2, ApartStep
<1>3. ASSUME NEW r \in Request, Looks(r) PROVE IInv'
  BY <1>3, LooksStep
<1>4. ASSUME NEW r \in Request, NEW text \in Answers, Stores(r, text) PROVE IInv'
  BY <1>4, StoresStep
<1>5. ASSUME NEW r \in Request, Checks(r) PROVE IInv'
  BY <1>5, ChecksStep
<1>6. CASE Restarts
  BY <1>6, RestartsStep
<1> QED BY <1>0, <1>1, <1>2, <1>3, <1>4, <1>5, <1>6 DEF Next, Asking, Answering, Checking, Apart

\* The invariant holds for any requests beside each other.
THEOREM Invariance == Spec => []IInv
  BY InitInv, StepInv, PTL DEF Spec

\* Every variable keeps its type.
THEOREM TypeCorrect == Spec => []TypeOK
<1>1. IInv => TypeOK
  BY DEF IInv
<1> QED BY <1>1, Invariance, PTL

\* What was checked, and what a check of a server runs, is about its own prompt,
\* however the target changes meanwhile.
THEOREM OnlyCandidates == Spec => []OnlyCandidatesAreJudged
<1>1. IInv => OnlyCandidatesAreJudged
  BY DEF IInv
<1> QED BY <1>1, Invariance, PTL

\* A prompt is asked again only by force or by requests that overlap.
THEOREM AskedOnce == Spec => []AskedOncePerPrompt
<1>1. IInv => AskedOncePerPrompt
  BY DEF IInv
<1> QED BY <1>1, Invariance, PTL

-----------------------------------------------------------------------------
\* A step as CheckedStays wants it.
RowsStay ==
  \A i \in DOMAIN rows : /\ i \in DOMAIN rows' /\ rows'[i].kind = rows[i].kind /\ rows'[i].about = rows[i].about
                         /\ ~rows[i].raw => rows'[i] = rows[i]

\* Checking a row twice says the same twice.
LEMMA StayStep == IInv /\ [Next]_vars => RowsStay
<1> SUFFICES ASSUME IInv, [Next]_vars PROVE RowsStay
  OBVIOUS
<1>1. CASE UNCHANGED rows
  BY <1>1 DEF RowsStay
<1>2. ASSUME NEW r \in Request, NEW text \in Answers, Stores(r, text) PROVE RowsStay
  <2> DEFINE new == [kind |-> request[r].kind, about |-> request[r].about, text |-> text,
                     forced |-> request[r].force, seen |-> request[r].seen, raw |-> TRUE]
  <2>1. rows' = Append(rows, new) /\ rows \in Seq(Row)
    BY <1>2 DEF Stores, IInv, TypeOK
  <2> HIDE DEF new
  <2>2. \A i \in DOMAIN rows : i \in DOMAIN rows' /\ rows'[i] = rows[i]
    BY <2>1
  <2> QED BY <2>2 DEF RowsStay
<1>3. ASSUME NEW r \in Request, Checks(r) PROVE RowsStay
  <2> DEFINE row == request[r].row
  <2>1. HasItsRow(request[r]) /\ rows'[row].text = Checked(request[r]) /\ ~rows'[row].raw
    BY <1>3, ChecksFacts
  <2>2. rows'[row] \in Row /\ rows[row] \in Row
    BY <1>3, ChecksFacts
  <2>3. \A i \in DOMAIN rows : /\ i \in DOMAIN rows' /\ rows'[i].kind = rows[i].kind /\ rows'[i].about = rows[i].about
                               /\ rows'[i].forced = rows[i].forced /\ rows'[i].seen = rows[i].seen
                               /\ i # row => rows'[i] = rows[i]
    BY <1>3, ChecksFacts
  <2>4. row \in DOMAIN rows /\ (~rows[row].raw => rows[row].text = Checked(request[r]))
    BY <2>1 DEF HasItsRow
  <2> HIDE DEF row
  <2>5. ~rows[row].raw => rows'[row] = rows[row]
    BY <2>1, <2>2, <2>3, <2>4 DEF Row
  <2> QED BY <2>3, <2>5 DEF RowsStay
<1>4. ASSUME NEW r \in Request, Apart(r) PROVE UNCHANGED rows
  BY <1>4, ApartFacts DEF IInv
<1>5. UNCHANGED vars \/ TargetChanges \/ Restarts \/ (\E r \in Request : Looks(r)) => UNCHANGED rows
  BY DEF vars, TargetChanges, Restarts, Looks
<1> QED BY <1>1, <1>2, <1>3, <1>4, <1>5 DEF Next, Asking, Answering, Checking, Apart

\* An answer that was checked once stays as it is.
THEOREM CheckedForGood == Spec => CheckedStays
<1>1. IInv /\ [Next]_vars => [RowsStay]_vars
  BY StayStep
<1> QED BY <1>1, Invariance, PTL DEF Spec, CheckedStays, RowsStay
=============================================================================
