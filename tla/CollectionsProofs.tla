------------------------- MODULE CollectionsProofs -------------------------
(***************************************************************************)
(* Proofs about Collections, for any assets, forms, checks and analyses,   *)
(* and with errors that escape.                                            *)
(***************************************************************************)
EXTENDS Collections, FiniteSetTheorems, TLAPS

VisitType   == [pc : {"idle", "read", "open", "met", "reloaded"}, on : Asset,
                saw : Row \cup {Unborn}, key : Key \cup {None}]
RequestType == [pc : {"idle", "read"}, on : Asset, saw : Row \cup {Unborn}, form : Edit \cup {None}]

\* What CredentialsFit says of one row.
Fits(r) ==
  /\ r.auth # "private_key" => r.pem = None
  /\ r.auth = "key" => r.pw = None
  /\ r.auth = "password" => r.pw # None
  /\ r.auth = "private_key" => r.pem # None /\ Opens(r.pem, r.pw)

-----------------------------------------------------------------------------
(* Rows, visits and requests *)

\* What rows hold.
LEMMA RowFacts ==
  ASSUME NEW r \in Row
  PROVE  /\ r # Unborn /\ r # Gone
         /\ r.addr \in Addr /\ r.auth \in Auth /\ r.pw \in Password \cup {None} /\ r.pem \in Pem \cup {None}
         /\ r.pin \in Key \cup {None} /\ r.monitored \in BOOLEAN
  BY CollectionsAssumption DEF Row

\* Keys are pairs of an address and a generation, never None.
LEMMA KeyFacts ==
  /\ None \notin Key
  /\ \A d \in Addr : \A n \in 1..MaxGen[d] : <<d, n>> \in Key /\ <<d, n>>[1] = d
  BY CollectionsAssumption DEF Key

\* Visits and requests that are not under way.
LEMMA IdleFacts ==
  /\ Idle \in VisitType /\ Idle.pc = "idle" /\ Idle.key = None
  /\ NoUpdate \in RequestType /\ NoUpdate.pc = "idle"
<1>1. (CHOOSE a \in Asset : TRUE) \in Asset
  BY CollectionsAssumption
<1> QED BY <1>1 DEF Idle, NoUpdate, VisitType, RequestType

\* TypeOK with the names given above.
LEMMA TypeFacts ==
  TypeOK <=> /\ row \in [Asset -> Row \cup {Unborn, Gone}]
             /\ running \in [Asset -> Nat]
             /\ visit \in [Visit -> VisitType]
             /\ request \in [Admin -> RequestType]
             /\ hostKey \in [Addr -> Nat] /\ \A d \in Addr : hostKey[d] \in 1..MaxGen[d]
             /\ todo \subseteq Asset /\ pass \in {"idle", "running"}
             /\ mishap \in BOOLEAN
             /\ raced \in [Asset -> BOOLEAN]
             /\ overlapped \in [Asset -> BOOLEAN]
  BY DEF TypeOK, VisitType, RequestType

\* A row as a form asks for it, column by column.
LEMMA AppliedFacts ==
  ASSUME NEW r \in Row, NEW e \in Edit
  PROVE  /\ Applied(r, e) \in Row
         /\ Applied(r, e).addr = e.addr /\ Applied(r, e).auth = e.auth
         /\ Applied(r, e).pw = IF e.auth = "key" THEN None ELSE IF e.pw # None THEN e.pw ELSE r.pw
         /\ Applied(r, e).pem = IF e.auth # "private_key" THEN None ELSE IF e.pem # None THEN e.pem ELSE r.pem
         /\ Applied(r, e).pin = IF e.reset \/ e.addr # r.addr THEN None ELSE r.pin
  BY DEF Applied, Row, Edit

\* A form that is not refused leaves credentials that fit.
LEMMA AppliedFits ==
  ASSUME NEW r \in Row, NEW e \in Edit, Acceptable(r, e), Fits(r)
  PROVE  Fits(Applied(r, e))
<1> DEFINE new == Applied(r, e)
<1>1. /\ new.auth = e.auth
      /\ new.pw = IF e.auth = "key" THEN None ELSE IF e.pw # None THEN e.pw ELSE r.pw
      /\ new.pem = IF e.auth # "private_key" THEN None ELSE IF e.pem # None THEN e.pem ELSE r.pem
  BY AppliedFacts
<1>2. r.auth \in Auth /\ e.auth \in Auth
  BY DEF Row, Edit
<1> HIDE DEF new
<1>3. Fits(new)
  BY <1>1, <1>2 DEF Fits, Acceptable, Opens, Auth
<1> QED BY <1>3 DEF new

\* Over the row that was read, an update leaves the row the form asks for;
\* over another one, it still sets no key.
LEMMA UpdateFacts ==
  ASSUME NEW r \in Row, NEW e \in Edit, NEW now \in Row, NEW new,
         new = [f \in DOMAIN r |-> IF f \in Dirty(r, e) THEN Applied(r, e)[f] ELSE now[f]]
  PROVE  /\ new \in Row
         /\ new.pin \in {None, now.pin}
         /\ now = r => new = Applied(r, e)
<1> DEFINE asked == Applied(r, e)
<1>1. /\ asked \in Row
      /\ asked.pin \in {None, r.pin}
  BY AppliedFacts
<1>2. DOMAIN r = {"addr", "auth", "pw", "pem", "pin", "monitored"}
      /\ DOMAIN asked = {"addr", "auth", "pw", "pem", "pin", "monitored"}
  BY <1>1 DEF Row
<1>3. \A f \in DOMAIN r : f \notin Dirty(r, e) => asked[f] = r[f]
  BY DEF Dirty
<1>4. "pin" \in Dirty(r, e) => asked.pin # r.pin
  BY DEF Dirty
<1>5. new = [f \in DOMAIN r |-> IF f \in Dirty(r, e) THEN asked[f] ELSE now[f]]
  OBVIOUS
<1> HIDE DEF asked
<1>6. /\ new.addr \in {asked.addr, now.addr} /\ new.auth \in {asked.auth, now.auth}
      /\ new.pw \in {asked.pw, now.pw} /\ new.pem \in {asked.pem, now.pem}
      /\ new.pin = IF "pin" \in Dirty(r, e) THEN asked.pin ELSE now.pin
      /\ new.monitored \in {asked.monitored, now.monitored}
  BY <1>2, <1>5
<1>7. new = [addr |-> new.addr, auth |-> new.auth, pw |-> new.pw, pem |-> new.pem, pin |-> new.pin,
             monitored |-> new.monitored]
  BY <1>2, <1>5
<1>8. new \in Row
  <2>1. /\ new.addr \in Addr /\ new.auth \in Auth /\ new.pw \in Password \cup {None}
        /\ new.pem \in Pem \cup {None} /\ new.pin \in Key \cup {None} /\ new.monitored \in BOOLEAN
    BY <1>1, <1>6 DEF Row
  <2> QED BY <1>7, <2>1 DEF Row
<1>9. ASSUME now = r PROVE new = asked
  <2>1. \A f \in DOMAIN r : new[f] = asked[f]
    BY <1>3, <1>5, <1>9
  <2> QED BY <1>2, <1>5, <2>1, <1>1, <1>8 DEF Row
<1> QED BY <1>1, <1>4, <1>6, <1>8, <1>9 DEF asked

-----------------------------------------------------------------------------
(* One visit changes, in one of five ways *)

\* A visit goes on.
LEMMA MoveFacts ==
  ASSUME visit \in [Visit -> VisitType], NEW v \in Visit,
         NEW pc \in {"idle", "read", "open", "met", "reloaded"}, Move(v, pc)
  PROVE  /\ visit' \in [Visit -> VisitType]
         /\ visit'[v].pc = pc /\ visit'[v].on = visit[v].on
         /\ visit'[v].saw = visit[v].saw /\ visit'[v].key = visit[v].key
         /\ \A w \in Visit \ {v} : visit'[w] = visit[w]
<1>1. [visit[v] EXCEPT !.pc = pc] \in VisitType
  BY DEF VisitType
<1>2. visit' = [visit EXCEPT ![v] = [visit[v] EXCEPT !.pc = pc]]
  BY DEF Move
<1> QED BY <1>1, <1>2 DEF VisitType

\* A visit ends.
LEMMA LeaveFacts ==
  ASSUME visit \in [Visit -> VisitType], NEW v \in Visit, Leave(v)
  PROVE  /\ visit' \in [Visit -> VisitType]
         /\ visit'[v].pc = "idle" /\ visit'[v].key = None
         /\ \A w \in Visit \ {v} : visit'[w] = visit[w]
  BY IdleFacts DEF Leave

\* A visit reads its row.
LEMMA ReadsFacts ==
  ASSUME TypeOK, NEW v \in Visit, NEW a \in Asset, Reads(v, a)
  PROVE  /\ visit' \in [Visit -> VisitType] /\ row[a] \in Row
         /\ visit[v].pc = "idle"
         /\ visit'[v].pc = "read" /\ visit'[v].on = a /\ visit'[v].saw = row[a] /\ visit'[v].key = None
         /\ \A w \in Visit \ {v} : visit'[w] = visit[w]
<1>1. row[a] \in Row
  BY DEF Reads, Exists
<1>2. [pc |-> "read", on |-> a, saw |-> row[a], key |-> None] \in VisitType
  BY <1>1 DEF VisitType
<1> QED BY <1>1, <1>2, TypeFacts DEF Reads

\* A visit connects: a key it learns is of the address it connected to.
LEMMA ConnectsFacts ==
  ASSUME TypeOK, NEW v \in Visit, visit[v].saw \in Row, Connects(v)
  PROVE  /\ visit' \in [Visit -> VisitType] /\ visit[v].pc = "open"
         /\ visit'[v].pc = "met" /\ visit'[v].on = visit[v].on /\ visit'[v].saw = visit[v].saw
         /\ visit'[v].key # None => visit'[v].key[1] = visit[v].saw.addr
         /\ \A w \in Visit \ {v} : visit'[w] = visit[w]
<1> DEFINE k == <<visit[v].saw.addr, hostKey[visit[v].saw.addr]>>
           new == IF visit[v].saw.auth # "key" /\ visit[v].saw.pin = None THEN k ELSE None
<1>1. k \in Key /\ k[1] = visit[v].saw.addr
  BY KeyFacts, RowFacts, TypeFacts
<1>2. visit[v] \in VisitType
  BY TypeFacts
<1>3. new \in Key \cup {None} /\ (new # None => new[1] = visit[v].saw.addr)
  BY <1>1
<1>4. visit' = [visit EXCEPT ![v].pc = "met", ![v].key = new] /\ visit[v].pc = "open"
  BY DEF Connects
<1> HIDE DEF new
<1>5. [visit[v] EXCEPT !.pc = "met", !.key = new] \in VisitType
  BY <1>2, <1>3 DEF VisitType
<1>6. visit'[v] = [visit[v] EXCEPT !.pc = "met", !.key = new]
  BY <1>4, TypeFacts
<1>7. visit'[v].key = new /\ visit'[v].pc = "met" /\ visit'[v].on = visit[v].on /\ visit'[v].saw = visit[v].saw
  BY <1>2, <1>6 DEF VisitType
<1> QED BY <1>3, <1>4, <1>5, <1>6, <1>7, TypeFacts

\* An import reads the row anew, at the same address.
LEMMA ImportReadsFacts ==
  ASSUME TypeOK, NEW v \in Visit, ImportReads(v)
  PROVE  /\ visit' \in [Visit -> VisitType] /\ visit[v].pc = "met"
         /\ row[visit[v].on] \in Row /\ row[visit[v].on].addr = visit[v].saw.addr
         /\ visit'[v].pc = "reloaded" /\ visit'[v].on = visit[v].on /\ visit'[v].saw = row[visit[v].on]
         /\ visit'[v].key = visit[v].key
         /\ \A w \in Visit \ {v} : visit'[w] = visit[w]
<1>1. visit[v] \in VisitType
  BY TypeFacts
<1>2. row[visit[v].on] \in Row /\ row[visit[v].on].addr = visit[v].saw.addr /\ visit[v].pc = "met"
  BY DEF ImportReads, TargetMatches, Exists
<1>3. [visit[v] EXCEPT !.pc = "reloaded", !.saw = row[visit[v].on]] \in VisitType
  BY <1>1, <1>2 DEF VisitType
<1>4. visit'[v] = [visit[v] EXCEPT !.pc = "reloaded", !.saw = row[visit[v].on]]
  BY TypeFacts DEF ImportReads
<1>5. /\ visit'[v].pc = "reloaded" /\ visit'[v].on = visit[v].on /\ visit'[v].saw = row[visit[v].on]
      /\ visit'[v].key = visit[v].key
  BY <1>1, <1>4 DEF VisitType
<1> QED BY <1>2, <1>3, <1>4, <1>5, TypeFacts DEF ImportReads

\* What a visit that is done does to its row: nothing but the key changes.
LEMMA PinsFacts ==
  ASSUME TypeOK, NEW v \in Visit, Exists(visit[v].on), Pins(v)
  PROVE  LET a == visit[v].on
             first == visit[v].key # None /\ visit[v].saw.pin = None
         IN  /\ row' \in [Asset -> Row \cup {Unborn, Gone}]
             /\ \A b \in Asset \ {a} : row'[b] = row[b]
             /\ row[a] \in Row /\ row'[a] \in Row
             /\ row'[a].addr = row[a].addr /\ row'[a].auth = row[a].auth
             /\ row'[a].pw = row[a].pw /\ row'[a].pem = row[a].pem
             /\ row'[a].pin = IF first THEN visit[v].key ELSE row[a].pin
             /\ overlapped' \in [Asset -> BOOLEAN]
             /\ \A b \in Asset : overlapped[b] => overlapped'[b]
             /\ first /\ ~overlapped'[a] => \A w \in Visit \ {v} : ~MayPin(w, a)
<1> DEFINE a == visit[v].on
           first == visit[v].key # None /\ visit[v].saw.pin = None
           met == IF first THEN visit[v].key ELSE row[a].pin
<1>1. visit[v] \in VisitType /\ a \in Asset
  BY TypeFacts DEF VisitType
<1>2. row[a] \in Row /\ row \in [Asset -> Row \cup {Unborn, Gone}] /\ overlapped \in [Asset -> BOOLEAN]
  BY TypeFacts DEF Exists
<1>3. met \in Key \cup {None}
  BY <1>1, <1>2, RowFacts DEF VisitType
<1>4. /\ row' = [row EXCEPT ![a].pin = met]
      /\ overlapped' = [overlapped EXCEPT ![a] = @ \/ (first /\ \E w \in Visit \ {v} : MayPin(w, a))]
  BY DEF Pins
<1> HIDE DEF met, first, a
<1>5. /\ [row[a] EXCEPT !.pin = met] \in Row
      /\ [row[a] EXCEPT !.pin = met].addr = row[a].addr /\ [row[a] EXCEPT !.pin = met].auth = row[a].auth
      /\ [row[a] EXCEPT !.pin = met].pw = row[a].pw /\ [row[a] EXCEPT !.pin = met].pem = row[a].pem
      /\ [row[a] EXCEPT !.pin = met].pin = met
  BY <1>2, <1>3 DEF Row
<1>6. /\ row' \in [Asset -> Row \cup {Unborn, Gone}]
      /\ \A b \in Asset \ {a} : row'[b] = row[b]
      /\ row'[a] = [row[a] EXCEPT !.pin = met]
  BY <1>1, <1>2, <1>4, <1>5
<1>7. /\ overlapped' \in [Asset -> BOOLEAN]
      /\ \A b \in Asset : overlapped[b] => overlapped'[b]
      /\ first /\ ~overlapped'[a] => \A w \in Visit \ {v} : ~MayPin(w, a)
  <2> DEFINE both == first /\ \E w \in Visit \ {v} : MayPin(w, a)
  <2>1. overlapped' = [overlapped EXCEPT ![a] = overlapped[a] \/ both]
    BY <1>4
  <2>2. overlapped' \in [Asset -> BOOLEAN]
    <3> HIDE DEF both
    <3>1. (overlapped[a] \/ both) \in BOOLEAN
      OBVIOUS
    <3> QED BY <1>2, <2>1, <3>1
  <2>3. overlapped'[a] = (overlapped[a] \/ both) /\ \A b \in Asset \ {a} : overlapped'[b] = overlapped[b]
    <3> HIDE DEF both
    <3> QED BY <1>1, <1>2, <2>1
  <2> QED BY <2>2, <2>3
<1> QED BY <1>2, <1>5, <1>6, <1>7 DEF met, first, a

-----------------------------------------------------------------------------
(* Counting the checks at work *)

\* When one visit changes, the number of checks at work changes by one or not
\* at all.
LEMMA WorkCount ==
  ASSUME NEW v \in Visit, \A w \in Visit \ {v} : visit'[w] = visit[w], NEW a \in Asset
  PROVE  /\ Cardinality(AtWork(a)) \in Nat /\ Cardinality(AtWork(a)') \in Nat
         /\ (v \in AtWork(a)' <=> v \in AtWork(a)) => AtWork(a)' = AtWork(a)
         /\ v \in AtWork(a)' /\ v \notin AtWork(a) => Cardinality(AtWork(a)') = Cardinality(AtWork(a)) + 1
         /\ v \notin AtWork(a)' /\ v \in AtWork(a) => Cardinality(AtWork(a)) = Cardinality(AtWork(a)') + 1
<1> DEFINE A == AtWork(a)
           B == AtWork(a)'
<1>1. A \subseteq Check /\ B \subseteq Check
  BY DEF AtWork
<1>2. IsFiniteSet(A) /\ IsFiniteSet(B)
  BY <1>1, CollectionsAssumption, FS_Subset
<1>3. \A w \in Check \ {v} : w \in B <=> w \in A
  BY DEF AtWork, Visit
<1> HIDE DEF A, B
<1>4. Cardinality(A) \in Nat /\ Cardinality(B) \in Nat
  BY <1>2, FS_CardinalityType
<1>5. (v \in B <=> v \in A) => B = A
  BY <1>1, <1>3
<1>6. ASSUME v \in B, v \notin A PROVE Cardinality(B) = Cardinality(A) + 1
  <2>1. B = A \cup {v}
    BY <1>1, <1>3, <1>6
  <2> QED BY <1>2, <1>6, <2>1, FS_AddElement
<1>7. ASSUME v \notin B, v \in A PROVE Cardinality(A) = Cardinality(B) + 1
  <2>1. A = B \cup {v}
    BY <1>1, <1>3, <1>7
  <2> QED BY <1>2, <1>7, <2>1, FS_AddElement
<1> QED BY <1>4, <1>5, <1>6, <1>7 DEF A, B

\* A check at work is counted.
LEMMA WorkIsCounted ==
  ASSUME NEW v \in Check, NEW a \in Asset, visit[v].on = a, visit[v].pc \in {"open", "met"}
  PROVE  Cardinality(AtWork(a)) >= 1
<1>1. v \in AtWork(a) /\ AtWork(a) \subseteq Check
  BY DEF AtWork
<1>2. IsFiniteSet(AtWork(a))
  BY <1>1, CollectionsAssumption, FS_Subset
<1>3. Cardinality(AtWork(a)) \in Nat /\ Cardinality(AtWork(a)) # 0
  BY <1>1, <1>2, FS_CardinalityType, FS_EmptySet
<1> QED BY <1>3

\* Nobody begins or ends to work.
LEMMA CountsKept ==
  ASSUME IInv, NEW v \in Visit, \A w \in Visit \ {v} : visit'[w] = visit[w], row' = row,
         running' = running, mishap => mishap', \A a \in Asset : v \in AtWork(a)' <=> v \in AtWork(a)
  PROVE  RunningIsAlive' /\ WorkIsSeen'
<1>1. \A a \in Asset : AtWork(a)' = AtWork(a)
  BY WorkCount
<1>2. \A a \in Asset : Exists(a)' <=> Exists(a)
  BY DEF Exists
<1>3. RunningIsAlive /\ WorkIsSeen
  BY DEF IInv
<1> QED BY <1>1, <1>2, <1>3 DEF RunningIsAlive, WorkIsSeen

\* A check begins to work, and its row is counted.
LEMMA CountsUp ==
  ASSUME IInv, NEW v \in Visit, \A w \in Visit \ {v} : visit'[w] = visit[w], row' = row,
         NEW b \in Asset, Exists(b), running' = [running EXCEPT ![b] = @ + 1], mishap => mishap',
         \A a \in Asset : v \notin AtWork(a), \A a \in Asset : v \in AtWork(a)' <=> a = b
  PROVE  RunningIsAlive' /\ WorkIsSeen'
<1>1. \A a \in Asset \ {b} : AtWork(a)' = AtWork(a)
  BY WorkCount
<1>2. Cardinality(AtWork(b)') = Cardinality(AtWork(b)) + 1 /\ Cardinality(AtWork(b)) \in Nat
  BY WorkCount
<1>3. \A a \in Asset : Exists(a)' <=> Exists(a)
  BY DEF Exists
<1>4. RunningIsAlive /\ WorkIsSeen /\ running \in [Asset -> Nat]
  BY TypeFacts DEF IInv
<1>5. running'[b] = running[b] + 1 /\ \A a \in Asset \ {b} : running'[a] = running[a]
  BY <1>4
<1>6. RunningIsAlive'
  BY <1>1, <1>2, <1>3, <1>4, <1>5 DEF RunningIsAlive
<1>7. WorkIsSeen'
  BY <1>1, <1>2, <1>3, <1>4, <1>5 DEF WorkIsSeen
<1> QED BY <1>6, <1>7

\* A check ends, and its row is no longer RUNNING.
LEMMA CountsDown ==
  ASSUME IInv, NEW v \in Check, \A w \in Visit \ {v} : visit'[w] = visit[w],
         \A a \in Asset : Exists(a)' <=> Exists(a),
         NEW b \in Asset, visit[v].on = b, visit[v].pc \in {"open", "met"}, visit'[v].pc = "idle",
         Exists(b), running' = [running EXCEPT ![b] = @ - 1], mishap => mishap'
  PROVE  RunningIsAlive' /\ WorkIsSeen' /\ running' \in [Asset -> Nat]
<1>1. \A a \in Asset : v \notin AtWork(a)'
  BY DEF AtWork
<1>2. \A a \in Asset : v \in AtWork(a) <=> a = b
  BY DEF AtWork
<1>3. \A a \in Asset \ {b} : AtWork(a)' = AtWork(a)
  BY <1>1, <1>2, WorkCount DEF Visit
<1>4. Cardinality(AtWork(b)) = Cardinality(AtWork(b)') + 1 /\ Cardinality(AtWork(b)') \in Nat
  BY <1>1, <1>2, WorkCount DEF Visit
<1>5. RunningIsAlive /\ WorkIsSeen /\ running \in [Asset -> Nat]
  BY TypeFacts DEF IInv
<1>6. running[b] >= Cardinality(AtWork(b))
  BY <1>5 DEF WorkIsSeen
<1>7. /\ running'[b] = running[b] - 1 /\ \A a \in Asset \ {b} : running'[a] = running[a]
      /\ running' \in [Asset -> Nat]
  BY <1>4, <1>5, <1>6
<1>8. RunningIsAlive'
  BY <1>3, <1>4, <1>5, <1>7 DEF RunningIsAlive
<1>9. WorkIsSeen'
  BY <1>3, <1>4, <1>5, <1>6, <1>7 DEF WorkIsSeen
<1> QED BY <1>7, <1>8, <1>9

-----------------------------------------------------------------------------
(* What the invariant says of one visit *)

VisitFits(v) ==
  /\ visit[v].pc # "idle" => visit[v].saw \in Row /\ row[visit[v].on] # Unborn
  /\ visit[v].key # None => visit[v].pc # "idle" /\ visit[v].key[1] = visit[v].saw.addr
  /\ visit[v].pc = "reloaded" => v \in Analysis

SeenFits(v) ==
  visit[v].pc \in {"open", "met", "reloaded"} /\ Exists(visit[v].on) /\ ~raced[visit[v].on] =>
    /\ row[visit[v].on].addr = visit[v].saw.addr
    /\ \A u \in Admin : ~(request[u].pc = "read" /\ request[u].on = visit[v].on)

PinFits(v) ==
  \A a \in Asset : Exists(a) /\ ~overlapped[a] /\ row[a].pin # None => ~MayPin(v, a)

\* The parts of the invariant about visits, one visit at a time.
LEMMA VisitParts ==
  /\ VisitsHold <=> \A v \in Visit : VisitFits(v)
  /\ SeenKeepsAddress <=> \A v \in Visit : SeenFits(v)
  /\ PinIsLast <=> \A v \in Visit : PinFits(v)
BY DEF VisitsHold, SeenKeepsAddress, PinIsLast, VisitFits, SeenFits, PinFits

\* A step of one visit that leaves the rows alone keeps the invariant if what
\* the invariant says of this visit and of the counts holds afterwards.
LEMMA VisitStep ==
  ASSUME IInv, NEW v \in Visit, \A w \in Visit \ {v} : visit'[w] = visit[w],
         row' = row, request' = request, overlapped' = overlapped, \A a \in Asset : raced[a] => raced'[a],
         TypeOK', RunningIsAlive', WorkIsSeen', VisitFits(v)', SeenFits(v)', PinFits(v)'
  PROVE  IInv'
<1>1. \A a \in Asset : Exists(a)' <=> Exists(a)
  BY DEF Exists
<1>2. \A w \in Visit : VisitFits(w) /\ SeenFits(w) /\ PinFits(w)
  BY VisitParts DEF IInv
<1>3. ASSUME NEW w \in Visit \ {v} PROVE VisitFits(w)' /\ SeenFits(w)' /\ PinFits(w)'
  <2>1. visit'[w] = visit[w] /\ visit[w].on \in Asset
    BY TypeFacts DEF IInv, VisitType
  <2>2. VisitFits(w)'
    BY <1>2, <1>3, <2>1 DEF VisitFits
  <2>3. SeenFits(w)'
    BY <1>1, <1>2, <1>3, <2>1 DEF SeenFits
  <2>4. PinFits(w)'
    BY <1>1, <1>2, <1>3, <2>1 DEF PinFits, MayPin
  <2> QED BY <2>2, <2>3, <2>4
<1>4. VisitsHold' /\ SeenKeepsAddress' /\ PinIsLast'
  BY <1>3 DEF VisitsHold, SeenKeepsAddress, PinIsLast, VisitFits, SeenFits, PinFits
<1>5. CredentialsFit' /\ PinFitsAddress' /\ RequestsHold'
  BY <1>1 DEF IInv, CredentialsFit, PinFitsAddress, RequestsHold
<1> QED BY <1>4, <1>5 DEF IInv

\* A step of one visit that is no check at work before or after, or both, and
\* counts nothing.
LEMMA QuietVisitStep ==
  ASSUME IInv, NEW v \in Visit, visit' \in [Visit -> VisitType],
         \A w \in Visit \ {v} : visit'[w] = visit[w],
         UNCHANGED <<row, running, request, hostKey, overlapped>>,
         todo' \subseteq Asset, pass' \in {"idle", "running"}, mishap' \in BOOLEAN, mishap => mishap',
         raced' \in [Asset -> BOOLEAN], \A a \in Asset : raced[a] => raced'[a],
         \A a \in Asset : v \in AtWork(a)' <=> v \in AtWork(a),
         VisitFits(v)', SeenFits(v)', PinFits(v)'
  PROVE  IInv'
<1>1. TypeOK'
  BY TypeFacts DEF IInv, TypeOK, VisitType
<1>2. RunningIsAlive' /\ WorkIsSeen'
  BY CountsKept
<1> QED BY <1>1, <1>2, VisitStep

-----------------------------------------------------------------------------
(* The steps of visits *)

\* A visit reads the row of its asset.
LEMMA ReadsStep ==
  ASSUME IInv, NEW v \in Visit, NEW a \in Asset, Reads(v, a),
         UNCHANGED <<row, running, request, hostKey, pass, history>>, todo' \subseteq todo
  PROVE  IInv'
<1>1. TypeOK /\ todo \subseteq Asset /\ pass \in {"idle", "running"} /\ mishap \in BOOLEAN
      /\ raced \in [Asset -> BOOLEAN]
  BY TypeFacts DEF IInv
<1>2. /\ visit' \in [Visit -> VisitType] /\ row[a] \in Row /\ visit[v].pc = "idle"
      /\ visit'[v].pc = "read" /\ visit'[v].on = a /\ visit'[v].saw = row[a] /\ visit'[v].key = None
      /\ \A w \in Visit \ {v} : visit'[w] = visit[w]
  BY <1>1, ReadsFacts
<1>3. \A b \in Asset : v \in AtWork(b)' <=> v \in AtWork(b)
  BY <1>2 DEF AtWork
<1>4. VisitFits(v)' /\ SeenFits(v)'
  BY <1>2, RowFacts DEF VisitFits, SeenFits
<1>5. PinFits(v)'
  BY <1>2 DEF PinFits, MayPin
<1> QED BY <1>1, <1>2, <1>3, <1>4, <1>5, QuietVisitStep DEF history

\* What is known of a visit that becomes visible.
LEMMA StartsFacts ==
  ASSUME IInv, NEW v \in Visit, Starts(v), UNCHANGED <<row, request, overlapped>>
  PROVE  /\ visit' \in [Visit -> VisitType] /\ visit[v].pc = "read"
         /\ visit'[v].pc = "open" /\ visit'[v].on = visit[v].on
         /\ visit[v].on \in Asset /\ Exists(visit[v].on)
         /\ \A w \in Visit \ {v} : visit'[w] = visit[w]
         /\ raced' \in [Asset -> BOOLEAN] /\ \A a \in Asset : raced[a] => raced'[a]
         /\ VisitFits(v)' /\ SeenFits(v)' /\ PinFits(v)'
<1> DEFINE a == visit[v].on
           late == row[a] # visit[v].saw \/ \E u \in Admin : request[u].pc = "read" /\ request[u].on = a
<1>1. visit \in [Visit -> VisitType] /\ a \in Asset /\ raced \in [Asset -> BOOLEAN]
  BY TypeFacts DEF IInv, VisitType
<1>2. Move(v, "open") /\ visit[v].pc = "read" /\ Exists(a)
  BY DEF Starts
<1>3. /\ visit' \in [Visit -> VisitType] /\ visit'[v].pc = "open" /\ visit'[v].on = visit[v].on
      /\ visit'[v].saw = visit[v].saw /\ visit'[v].key = visit[v].key
      /\ \A w \in Visit \ {v} : visit'[w] = visit[w]
  BY <1>1, <1>2, MoveFacts
<1>4. raced' = [raced EXCEPT ![a] = raced[a] \/ late]
  BY DEF Starts
<1>5. raced' \in [Asset -> BOOLEAN] /\ raced'[a] = (raced[a] \/ late) /\ \A b \in Asset : raced[b] => raced'[b]
  <2> HIDE DEF late, a
  <2>1. (raced[a] \/ late) \in BOOLEAN
    OBVIOUS
  <2> QED BY <1>1, <1>4, <2>1
<1>6. VisitFits(v) /\ PinFits(v)
  BY VisitParts DEF IInv
<1>7. VisitFits(v)'
  BY <1>2, <1>3, <1>6 DEF VisitFits
<1>8. SeenFits(v)'
  BY <1>3, <1>5 DEF SeenFits
<1>9. PinFits(v)'
  BY <1>2, <1>3, <1>6 DEF PinFits, MayPin, Exists
<1> QED BY <1>1, <1>2, <1>3, <1>5, <1>7, <1>8, <1>9

\* A check stores its row and is counted.
LEMMA CheckStartsStep ==
  ASSUME IInv, NEW v \in Check, CheckStarts(v)
  PROVE  IInv'
<1> DEFINE a == visit[v].on
<1>1. v \in Visit /\ Starts(v) /\ UNCHANGED <<row, request, overlapped, hostKey, todo, pass, mishap>>
      /\ running' = [running EXCEPT ![a] = @ + 1]
  BY DEF CheckStarts, Visit, pools
<1>2. /\ visit' \in [Visit -> VisitType] /\ visit[v].pc = "read"
      /\ visit'[v].pc = "open" /\ visit'[v].on = visit[v].on
      /\ a \in Asset /\ Exists(a)
      /\ \A w \in Visit \ {v} : visit'[w] = visit[w]
      /\ raced' \in [Asset -> BOOLEAN] /\ \A b \in Asset : raced[b] => raced'[b]
      /\ VisitFits(v)' /\ SeenFits(v)' /\ PinFits(v)'
  BY <1>1, StartsFacts
<1>3. /\ \A b \in Asset : v \notin AtWork(b)
      /\ \A b \in Asset : v \in AtWork(b)' <=> b = a
  BY <1>2 DEF AtWork
<1>4. RunningIsAlive' /\ WorkIsSeen'
  BY <1>1, <1>2, <1>3, CountsUp
<1>5. running' \in [Asset -> Nat]
  BY <1>1, <1>2, TypeFacts DEF IInv
<1>6. TypeOK'
  BY <1>1, <1>2, <1>5, TypeFacts DEF IInv, TypeOK, VisitType
<1> QED BY <1>1, <1>2, <1>4, <1>6, VisitStep

\* A job is queued.
LEMMA QueueAnalysisStep ==
  ASSUME IInv, NEW v \in Analysis, QueueAnalysis(v)
  PROVE  IInv'
<1>1. v \in Visit /\ v \notin Check /\ Starts(v)
      /\ UNCHANGED <<row, running, request, overlapped, hostKey, todo, pass, mishap>>
  BY CollectionsAssumption DEF QueueAnalysis, Visit, pools
<1>2. /\ visit' \in [Visit -> VisitType]
      /\ \A w \in Visit \ {v} : visit'[w] = visit[w]
      /\ raced' \in [Asset -> BOOLEAN] /\ \A b \in Asset : raced[b] => raced'[b]
      /\ VisitFits(v)' /\ SeenFits(v)' /\ PinFits(v)'
  BY <1>1, StartsFacts
<1>3. \A b \in Asset : v \in AtWork(b)' <=> v \in AtWork(b)
  BY <1>1 DEF AtWork
<1>4. todo \subseteq Asset /\ pass \in {"idle", "running"} /\ mishap \in BOOLEAN
  BY TypeFacts DEF IInv
<1> QED BY <1>1, <1>2, <1>3, <1>4, QuietVisitStep

\* A visit connects, and may learn a key.
LEMMA ConnectsStep ==
  ASSUME IInv, NEW v \in Visit, Connects(v), UNCHANGED <<row, running, request, hostKey, pools, history>>
  PROVE  IInv'
<1>1. TypeOK /\ todo \subseteq Asset /\ pass \in {"idle", "running"} /\ mishap \in BOOLEAN
      /\ raced \in [Asset -> BOOLEAN] /\ visit[v].on \in Asset
  BY TypeFacts DEF IInv, VisitType
<1>2. VisitFits(v) /\ SeenFits(v) /\ PinFits(v)
  BY VisitParts DEF IInv
<1>3. visit[v].pc = "open"
  BY DEF Connects
<1>4. visit[v].saw \in Row
  BY <1>2, <1>3 DEF VisitFits
<1>5. /\ visit' \in [Visit -> VisitType] /\ visit[v].pc = "open"
      /\ visit'[v].pc = "met" /\ visit'[v].on = visit[v].on /\ visit'[v].saw = visit[v].saw
      /\ visit'[v].key # None => visit'[v].key[1] = visit[v].saw.addr
      /\ \A w \in Visit \ {v} : visit'[w] = visit[w]
  BY <1>1, <1>4, ConnectsFacts
<1>6. \A b \in Asset : v \in AtWork(b)' <=> v \in AtWork(b)
  BY <1>5 DEF AtWork
<1>7. VisitFits(v)'
  BY <1>2, <1>5 DEF VisitFits
<1>8. SeenFits(v)'
  BY <1>2, <1>5 DEF SeenFits, Exists, history
<1>9. PinFits(v)'
  BY <1>2, <1>5 DEF PinFits, MayPin, Exists, history
<1> QED BY <1>1, <1>5, <1>6, <1>7, <1>8, <1>9, QuietVisitStep DEF pools, history

\* The import has the row as it is now.
LEMMA ImportReadsStep ==
  ASSUME IInv, NEW v \in Analysis, ImportReads(v)
  PROVE  IInv'
<1>1. TypeOK /\ todo \subseteq Asset /\ pass \in {"idle", "running"} /\ mishap \in BOOLEAN
      /\ raced \in [Asset -> BOOLEAN]
  BY TypeFacts DEF IInv
<1>2. v \in Visit /\ v \notin Check /\ UNCHANGED <<row, running, request, hostKey, pools, history>>
  BY CollectionsAssumption DEF Visit, ImportReads
<1>3. /\ visit' \in [Visit -> VisitType] /\ visit[v].pc = "met"
      /\ row[visit[v].on] \in Row /\ row[visit[v].on].addr = visit[v].saw.addr
      /\ visit'[v].pc = "reloaded" /\ visit'[v].on = visit[v].on /\ visit'[v].saw = row[visit[v].on]
      /\ visit'[v].key = visit[v].key
      /\ \A w \in Visit \ {v} : visit'[w] = visit[w]
  BY <1>1, <1>2, ImportReadsFacts
<1>4. VisitFits(v) /\ SeenFits(v)
  BY <1>2, VisitParts DEF IInv
<1>5. \A b \in Asset : v \in AtWork(b)' <=> v \in AtWork(b)
  BY <1>2 DEF AtWork
<1>6. VisitFits(v)'
  BY <1>2, <1>3, <1>4, RowFacts DEF VisitFits
<1>7. SeenFits(v)'
  BY <1>2, <1>3, <1>4 DEF SeenFits, Exists, history
<1>8. PinFits(v)'
  BY <1>2, <1>3 DEF PinFits, MayPin
<1> QED BY <1>1, <1>2, <1>3, <1>5, <1>6, <1>7, <1>8, QuietVisitStep DEF pools, history

\* What the invariant says of a visit that is over.
LEMMA LeftFits ==
  ASSUME NEW v \in Visit, visit'[v].pc = "idle", visit'[v].key = None
  PROVE  VisitFits(v)' /\ SeenFits(v)' /\ PinFits(v)'
BY DEF VisitFits, SeenFits, PinFits, MayPin

\* A check fails, and its row says so.
LEMMA CheckFailsStep ==
  ASSUME IInv, NEW v \in Check, CheckFails(v)
  PROVE  IInv'
<1> DEFINE a == visit[v].on
<1>1. /\ v \in Visit /\ visit[v].pc \in {"open", "met"} /\ Exists(a) /\ Leave(v)
      /\ running' = [running EXCEPT ![a] = @ - 1]
      /\ UNCHANGED <<row, request, hostKey, todo, pass, mishap, raced, overlapped>>
  BY DEF CheckFails, Visit, pools, history
<1>2. TypeOK /\ a \in Asset /\ visit \in [Visit -> VisitType]
  BY <1>1, TypeFacts DEF IInv, VisitType
<1>3. /\ visit' \in [Visit -> VisitType] /\ visit'[v].pc = "idle" /\ visit'[v].key = None
      /\ \A w \in Visit \ {v} : visit'[w] = visit[w]
  BY <1>1, <1>2, LeaveFacts
<1>4. \A b \in Asset : Exists(b)' <=> Exists(b)
  BY <1>1 DEF Exists
<1>5. RunningIsAlive' /\ WorkIsSeen' /\ running' \in [Asset -> Nat]
  BY <1>1, <1>2, <1>3, <1>4, CountsDown
<1>6. TypeOK'
  BY <1>1, <1>2, <1>3, <1>5, TypeFacts DEF TypeOK, VisitType
<1>7. VisitFits(v)' /\ SeenFits(v)' /\ PinFits(v)'
  BY <1>1, <1>3, LeftFits
<1> QED BY <1>1, <1>3, <1>5, <1>6, <1>7, VisitStep

\* An error escapes: the row stays RUNNING, and somebody knows why.
LEMMA CheckEscapesStep ==
  ASSUME IInv, NEW v \in Check, CheckEscapes(v)
  PROVE  IInv'
<1>1. /\ v \in Visit /\ Leave(v) /\ mishap' = TRUE
      /\ UNCHANGED <<row, running, request, hostKey, raced, overlapped>>
  BY DEF CheckEscapes, Visit
<1>2. TypeOK /\ visit \in [Visit -> VisitType] /\ WorkIsSeen
  BY TypeFacts DEF IInv
<1>3. /\ visit' \in [Visit -> VisitType] /\ visit'[v].pc = "idle" /\ visit'[v].key = None
      /\ \A w \in Visit \ {v} : visit'[w] = visit[w]
  BY <1>1, <1>2, LeaveFacts
<1>4. pass' \in {"idle", "running"} /\ todo' \subseteq Asset
  BY <1>2, TypeFacts DEF CheckEscapes, pools
<1>5. TypeOK'
  BY <1>1, <1>2, <1>3, <1>4, TypeFacts DEF TypeOK, VisitType
<1>6. RunningIsAlive'
  BY <1>1 DEF RunningIsAlive
<1>7. ASSUME NEW a \in Asset
      PROVE  Cardinality(AtWork(a)') \in Nat /\ Cardinality(AtWork(a)) \in Nat
             /\ Cardinality(AtWork(a)') <= Cardinality(AtWork(a))
  <2>1. v \notin AtWork(a)'
    BY <1>3 DEF AtWork
  <2> QED BY <1>1, <1>3, <2>1, WorkCount
<1>8. running \in [Asset -> Nat]
  BY <1>2, TypeFacts
<1>9. WorkIsSeen'
  BY <1>1, <1>2, <1>7, <1>8 DEF WorkIsSeen, Exists
<1>10. VisitFits(v)' /\ SeenFits(v)' /\ PinFits(v)'
  BY <1>1, <1>3, LeftFits
<1> QED BY <1>1, <1>3, <1>5, <1>6, <1>9, <1>10, VisitStep

\* An analysis fails.
LEMMA AnalysisFailsStep ==
  ASSUME IInv, NEW v \in Analysis, AnalysisFails(v)
  PROVE  IInv'
<1>1. v \in Visit /\ v \notin Check /\ Leave(v) /\ UNCHANGED <<row, running, request, hostKey, pools, history>>
  BY CollectionsAssumption DEF AnalysisFails, Visit
<1>2. /\ TypeOK /\ visit \in [Visit -> VisitType] /\ todo \subseteq Asset /\ pass \in {"idle", "running"}
      /\ mishap \in BOOLEAN /\ raced \in [Asset -> BOOLEAN]
  BY TypeFacts DEF IInv
<1>3. /\ visit' \in [Visit -> VisitType] /\ visit'[v].pc = "idle" /\ visit'[v].key = None
      /\ \A w \in Visit \ {v} : visit'[w] = visit[w]
  BY <1>1, <1>2, LeaveFacts
<1>4. \A b \in Asset : v \in AtWork(b)' <=> v \in AtWork(b)
  BY <1>1 DEF AtWork
<1>5. VisitFits(v)' /\ SeenFits(v)' /\ PinFits(v)'
  BY <1>1, <1>3, LeftFits
<1> QED BY <1>1, <1>2, <1>3, <1>4, <1>5, QuietVisitStep DEF pools, history

\* A visit that is done pins the key it learned, if its row had none: the key
\* is of the address, which nobody changed, and nobody else is about to write one.
LEMMA PinsStep ==
  ASSUME IInv, NEW v \in Visit, visit[v].pc \in {"met", "reloaded"}, Exists(visit[v].on), Pins(v), Leave(v),
         request' = request, raced' = raced, TypeOK', RunningIsAlive', WorkIsSeen'
  PROVE  IInv'
<1> DEFINE a == visit[v].on
           first == visit[v].key # None /\ visit[v].saw.pin = None
<1>1. /\ TypeOK /\ a \in Asset /\ visit \in [Visit -> VisitType]
      /\ VisitFits(v) /\ SeenFits(v)
  BY TypeFacts, VisitParts DEF IInv, VisitType
<1>2. /\ \A b \in Asset \ {a} : row'[b] = row[b]
      /\ row[a] \in Row /\ row'[a] \in Row
      /\ row'[a].addr = row[a].addr /\ row'[a].auth = row[a].auth
      /\ row'[a].pw = row[a].pw /\ row'[a].pem = row[a].pem
      /\ row'[a].pin = IF first THEN visit[v].key ELSE row[a].pin
      /\ \A b \in Asset : overlapped[b] => overlapped'[b]
      /\ first /\ ~overlapped'[a] => \A w \in Visit \ {v} : ~MayPin(w, a)
  BY <1>1, PinsFacts
<1>3. /\ visit'[v].pc = "idle" /\ visit'[v].key = None
      /\ \A w \in Visit \ {v} : visit'[w] = visit[w]
  BY <1>1, LeaveFacts
<1> HIDE DEF first
<1>4. \A b \in Asset : Exists(b)' <=> Exists(b)
  BY <1>2 DEF Exists
<1>5. CredentialsFit'
  <2> SUFFICES ASSUME NEW b \in Asset, Exists(b)', ~raced'[b] PROVE Fits(row'[b])
    BY DEF CredentialsFit, Fits
  <2>1. Fits(row[b])
    BY <1>4 DEF IInv, CredentialsFit, Fits
  <2> QED BY <2>1, <1>2 DEF Fits
<1>6. PinFitsAddress'
  <2> SUFFICES ASSUME NEW b \in Asset, Exists(b)', ~raced'[b], row'[b].pin # None
               PROVE  row'[b].pin[1] = row'[b].addr
    BY DEF PinFitsAddress
  <2>1. PinFitsAddress /\ Exists(b) /\ ~raced[b]
    BY <1>4 DEF IInv
  <2>2. CASE b # a \/ ~first
    BY <2>1, <2>2, <1>2 DEF PinFitsAddress
  <2>3. CASE b = a /\ first
    <3>1. visit[v].key[1] = visit[v].saw.addr
      BY <2>3, <1>1 DEF VisitFits, first
    <3>2. row[a].addr = visit[v].saw.addr
      BY <2>1, <2>3, <1>1 DEF SeenFits
    <3> QED BY <2>3, <3>1, <3>2, <1>2
  <2> QED BY <2>2, <2>3
<1>7. \A b \in Asset : row[b] # Unborn => row'[b] # Unborn
  BY <1>2, RowFacts
<1>8. RequestsHold'
  <2>1. \A u \in Admin : request[u].on \in Asset
    BY <1>1, TypeFacts DEF RequestType
  <2> QED BY <2>1, <1>7 DEF IInv, RequestsHold
<1>9. ASSUME NEW w \in Visit PROVE VisitFits(w)' /\ SeenFits(w)' /\ PinFits(w)'
  <2>1. CASE w = v
    BY <2>1, <1>3, LeftFits
  <2>2. CASE w # v
    <3>1. visit'[w] = visit[w] /\ visit[w].on \in Asset
      BY <2>2, <1>1, <1>3 DEF VisitType
    <3>2. VisitFits(w) /\ SeenFits(w) /\ PinFits(w)
      BY VisitParts DEF IInv
    <3>3. VisitFits(w)'
      BY <3>1, <3>2, <1>7 DEF VisitFits
    <3>4. SeenFits(w)'
      BY <3>1, <3>2, <1>2, <1>4 DEF SeenFits
    <3>5. PinFits(w)'
      <4> SUFFICES ASSUME NEW b \in Asset, Exists(b), ~overlapped'[b], row'[b].pin # None, MayPin(w, b)
                   PROVE  FALSE
        BY <3>1, <1>4 DEF PinFits, MayPin
      <4>1. CASE b # a \/ ~first
        BY <4>1, <3>2, <1>2 DEF PinFits
      <4>2. CASE b = a /\ first
        BY <4>2, <2>2, <1>2
      <4> QED BY <4>1, <4>2
    <3> QED BY <3>3, <3>4, <3>5
  <2> QED BY <2>1, <2>2
<1>10. VisitsHold' /\ SeenKeepsAddress' /\ PinIsLast'
  BY <1>9 DEF VisitsHold, SeenKeepsAddress, PinIsLast, VisitFits, SeenFits, PinFits
<1> QED BY <1>5, <1>6, <1>8, <1>10 DEF IInv

\* A check succeeds.
LEMMA CheckSucceedsStep ==
  ASSUME IInv, NEW v \in Check, CheckSucceeds(v)
  PROVE  IInv'
<1> DEFINE a == visit[v].on
<1>1. /\ v \in Visit /\ visit[v].pc = "met" /\ Exists(a) /\ Pins(v) /\ Leave(v)
      /\ running' = [running EXCEPT ![a] = @ - 1]
      /\ UNCHANGED <<request, hostKey, todo, pass, mishap, raced>>
  BY DEF CheckSucceeds, Visit, pools
<1>2. TypeOK /\ a \in Asset /\ visit \in [Visit -> VisitType]
  BY <1>1, TypeFacts DEF IInv, VisitType
<1>3. /\ visit' \in [Visit -> VisitType] /\ visit'[v].pc = "idle"
      /\ \A w \in Visit \ {v} : visit'[w] = visit[w]
  BY <1>1, <1>2, LeaveFacts
<1>4. /\ row' \in [Asset -> Row \cup {Unborn, Gone}] /\ overlapped' \in [Asset -> BOOLEAN]
      /\ \A b \in Asset \ {a} : row'[b] = row[b]
      /\ row[a] \in Row /\ row'[a] \in Row
  BY <1>1, <1>2, PinsFacts
<1>5. \A b \in Asset : Exists(b)' <=> Exists(b)
  BY <1>4 DEF Exists
<1>6. RunningIsAlive' /\ WorkIsSeen' /\ running' \in [Asset -> Nat]
  BY <1>1, <1>2, <1>3, <1>5, CountsDown
<1>7. TypeOK'
  BY <1>1, <1>2, <1>3, <1>4, <1>6, TypeFacts DEF TypeOK, VisitType
<1> QED BY <1>1, <1>6, <1>7, PinsStep

\* An import commits.
LEMMA ImportCommitsStep ==
  ASSUME IInv, NEW v \in Analysis, ImportCommits(v)
  PROVE  IInv'
<1> DEFINE a == visit[v].on
<1>1. /\ v \in Visit /\ v \notin Check /\ visit[v].pc = "reloaded" /\ Exists(a) /\ Pins(v) /\ Leave(v)
      /\ UNCHANGED <<running, request, hostKey, todo, pass, mishap, raced>>
  BY CollectionsAssumption DEF ImportCommits, Visit, pools
<1>2. TypeOK /\ a \in Asset /\ visit \in [Visit -> VisitType] /\ RunningIsAlive /\ WorkIsSeen
  BY <1>1, TypeFacts DEF IInv, VisitType
<1>3. /\ visit' \in [Visit -> VisitType] /\ visit'[v].pc = "idle"
      /\ \A w \in Visit \ {v} : visit'[w] = visit[w]
  BY <1>1, <1>2, LeaveFacts
<1>4. /\ row' \in [Asset -> Row \cup {Unborn, Gone}] /\ overlapped' \in [Asset -> BOOLEAN]
      /\ \A b \in Asset \ {a} : row'[b] = row[b]
      /\ row[a] \in Row /\ row'[a] \in Row
  BY <1>1, <1>2, PinsFacts
<1>5. \A b \in Asset : Exists(b)' <=> Exists(b)
  BY <1>4 DEF Exists
<1>6. \A b \in Asset : AtWork(b)' = AtWork(b)
  <2>1. \A b \in Asset : v \notin AtWork(b)' /\ v \notin AtWork(b)
    BY <1>1 DEF AtWork
  <2> QED BY <1>1, <1>3, <2>1, WorkCount
<1>7. RunningIsAlive' /\ WorkIsSeen'
  BY <1>1, <1>2, <1>5, <1>6 DEF RunningIsAlive, WorkIsSeen
<1>8. TypeOK'
  BY <1>1, <1>2, <1>3, <1>4, TypeFacts DEF TypeOK, VisitType
<1> QED BY <1>1, <1>7, <1>8, PinsStep

-----------------------------------------------------------------------------
(* The steps of requests, and those that only move the pass or a target *)

\* Rows, visits and requests stay.
LEMMA QuietStep ==
  ASSUME IInv, UNCHANGED <<row, running, visit, request, raced, overlapped>>, TypeOK', mishap => mishap'
  PROVE  IInv'
<1>1. \A a \in Asset : AtWork(a)' = AtWork(a) /\ (Exists(a)' <=> Exists(a))
  BY DEF AtWork, Exists
<1>2. \A v \in Visit, a \in Asset : MayPin(v, a)' <=> MayPin(v, a)
  BY DEF MayPin
<1>3. RunningIsAlive' /\ WorkIsSeen'
  BY <1>1 DEF IInv, RunningIsAlive, WorkIsSeen
<1>4. CredentialsFit' /\ PinFitsAddress' /\ RequestsHold' /\ VisitsHold'
  BY <1>1 DEF IInv, CredentialsFit, PinFitsAddress, RequestsHold, VisitsHold
<1>5. SeenKeepsAddress'
  <2>1. \A v \in Visit : visit[v].on \in Asset
    BY TypeFacts DEF IInv, VisitType
  <2> QED BY <1>1, <2>1 DEF IInv, SeenKeepsAddress
<1>6. PinIsLast'
  BY <1>1, <1>2 DEF IInv, PinIsLast
<1> QED BY <1>3, <1>4, <1>5, <1>6 DEF IInv

\* Only a request moves: to one that holds a row nobody works with, or away.
LEMMA RequestStep ==
  ASSUME IInv, NEW u \in Admin, request' \in [Admin -> RequestType],
         UNCHANGED <<row, running, visit, hostKey, pools, history>>,
         \A t \in Admin \ {u} : request'[t] = request[t],
         request'[u].pc = "read" =>
           /\ row[request'[u].on] # Unborn /\ request'[u].saw \in Row /\ request'[u].form \in Edit
           /\ Acceptable(request'[u].saw, request'[u].form)
           /\ \A v \in Visit : ~(visit[v].on = request'[u].on /\ visit[v].pc \in {"open", "met", "reloaded"})
  PROVE  IInv'
<1>1. UNCHANGED <<row, running, visit, hostKey, todo, pass, mishap, raced, overlapped>>
  BY DEF pools, history
<1>2. TypeOK'
  BY <1>1, TypeFacts DEF IInv, TypeOK, VisitType, RequestType
<1>3. \A a \in Asset : AtWork(a)' = AtWork(a) /\ (Exists(a)' <=> Exists(a))
  BY <1>1 DEF AtWork, Exists
<1>4. \A v \in Visit, a \in Asset : MayPin(v, a)' <=> MayPin(v, a)
  BY <1>1 DEF MayPin
<1>5. RunningIsAlive' /\ WorkIsSeen'
  BY <1>1, <1>3 DEF IInv, RunningIsAlive, WorkIsSeen
<1>6. CredentialsFit' /\ PinFitsAddress' /\ VisitsHold'
  BY <1>1, <1>3 DEF IInv, CredentialsFit, PinFitsAddress, VisitsHold
<1>7. RequestsHold'
  BY <1>1 DEF IInv, RequestsHold
<1>8. SeenKeepsAddress'
  <2>1. \A v \in Visit : visit[v].on \in Asset
    BY TypeFacts DEF IInv, VisitType
  <2> QED BY <1>1, <1>3, <2>1 DEF IInv, SeenKeepsAddress
<1>9. PinIsLast'
  BY <1>1, <1>3, <1>4 DEF IInv, PinIsLast
<1> QED BY <1>2, <1>5, <1>6, <1>7, <1>8, <1>9 DEF IInv

\* update_asset reads an asset that no visit can be seen at.
LEMMA ReadForUpdateStep ==
  ASSUME IInv, NEW u \in Admin, NEW a \in Asset, NEW e \in Edits[a], ReadForUpdate(u, a, e)
  PROVE  IInv'
<1>1. row[a] \in Row /\ e \in Edit
  BY CollectionsAssumption DEF ReadForUpdate, Exists
<1>2. [pc |-> "read", on |-> a, saw |-> row[a], form |-> e] \in RequestType
  BY <1>1 DEF RequestType
<1>3. /\ request' = [request EXCEPT ![u] = [pc |-> "read", on |-> a, saw |-> row[a], form |-> e]]
      /\ Acceptable(row[a], e) /\ ~Analysing(a) /\ running[a] = 0
      /\ UNCHANGED <<row, running, visit, hostKey, pools, history>>
  BY DEF ReadForUpdate
<1>4. request \in [Admin -> RequestType]
  BY TypeFacts DEF IInv
<1>5. /\ request' \in [Admin -> RequestType]
      /\ request'[u] = [pc |-> "read", on |-> a, saw |-> row[a], form |-> e]
      /\ \A t \in Admin \ {u} : request'[t] = request[t]
  BY <1>2, <1>3, <1>4
<1>6. ASSUME NEW v \in Visit, visit[v].on = a, visit[v].pc \in {"open", "met", "reloaded"} PROVE FALSE
  <2>1. CASE v \in Analysis
    BY <1>3, <1>6, <2>1 DEF Analysing
  <2>2. CASE v \in Check
    <3>1. visit[v].pc # "reloaded"
      BY <2>2, CollectionsAssumption DEF IInv, VisitsHold
    <3>2. Cardinality(AtWork(a)) >= 1
      BY <1>6, <2>2, <3>1, WorkIsCounted
    <3>3. running[a] >= Cardinality(AtWork(a))
      BY <1>1 DEF IInv, WorkIsSeen, Exists
    <3>4. Cardinality(AtWork(a)) \in Nat
      <4>1. AtWork(a) \subseteq Check
        BY DEF AtWork
      <4> QED BY <4>1, CollectionsAssumption, FS_Subset, FS_CardinalityType
    <3> QED BY <1>3, <3>2, <3>3, <3>4
  <2> QED BY <2>1, <2>2 DEF Visit
<1>7. row[a] # Unborn
  BY <1>1, RowFacts
<1> QED BY <1>1, <1>3, <1>5, <1>6, <1>7, RequestStep

\* update_asset fails.
LEMMA UpdateFailsStep ==
  ASSUME IInv, NEW u \in Admin, UpdateFails(u)
  PROVE  IInv'
<1>1. request' = [request EXCEPT ![u] = NoUpdate] /\ UNCHANGED <<row, running, visit, hostKey, pools, history>>
  BY DEF UpdateFails
<1>2. request \in [Admin -> RequestType]
  BY TypeFacts DEF IInv
<1>3. /\ request' \in [Admin -> RequestType] /\ request'[u].pc = "idle"
      /\ \A t \in Admin \ {u} : request'[t] = request[t]
  BY <1>1, <1>2, IdleFacts
<1> QED BY <1>1, <1>3, RequestStep

\* update_asset commits: over the row it read, or the asset counts as raced.
LEMMA CommitUpdateStep ==
  ASSUME IInv, NEW u \in Admin, CommitUpdate(u)
  PROVE  IInv'
<1> DEFINE a == request[u].on
           r == request[u].saw
           e == request[u].form
           new == [f \in DOMAIN r |-> IF f \in Dirty(r, e) THEN Applied(r, e)[f] ELSE row[a][f]]
           late == row[a] # r
<1>1. /\ request[u].pc = "read" /\ Exists(a)
      /\ row' = [row EXCEPT ![a] = new]
      /\ raced' = [raced EXCEPT ![a] = raced[a] \/ late]
      /\ request' = [request EXCEPT ![u] = NoUpdate]
      /\ UNCHANGED <<running, visit, hostKey, todo, pass, mishap, overlapped>>
  BY DEF CommitUpdate, pools
<1>2. /\ request \in [Admin -> RequestType] /\ row \in [Asset -> Row \cup {Unborn, Gone}]
      /\ raced \in [Asset -> BOOLEAN] /\ a \in Asset /\ row[a] \in Row
  BY <1>1, TypeFacts DEF IInv, RequestType, Exists
<1>3. r \in Row /\ e \in Edit /\ Acceptable(r, e)
  BY <1>1 DEF IInv, RequestsHold
<1>4. /\ new \in Row /\ new.pin \in {None, row[a].pin}
      /\ row[a] = r => new = Applied(r, e)
  BY <1>2, <1>3, UpdateFacts
<1> HIDE DEF new, late
<1>5. /\ row' \in [Asset -> Row \cup {Unborn, Gone}] /\ row'[a] = new
      /\ \A b \in Asset \ {a} : row'[b] = row[b]
  BY <1>1, <1>2, <1>4
<1>6. /\ raced' \in [Asset -> BOOLEAN] /\ raced'[a] = (raced[a] \/ late)
      /\ \A b \in Asset \ {a} : raced'[b] = raced[b]
  <2>1. (raced[a] \/ late) \in BOOLEAN
    OBVIOUS
  <2> HIDE DEF a
  <2> QED BY <1>1, <1>2, <2>1
<1>7. /\ request' \in [Admin -> RequestType] /\ request'[u].pc = "idle"
      /\ \A t \in Admin \ {u} : request'[t] = request[t]
  BY <1>1, <1>2, IdleFacts
<1>8. \A b \in Asset : Exists(b)' <=> Exists(b)
  BY <1>2, <1>4, <1>5 DEF Exists
<1>9. \A b \in Asset : AtWork(b)' = AtWork(b)
  BY <1>1 DEF AtWork
<1>10. TypeOK'
  BY <1>1, <1>5, <1>6, <1>7, TypeFacts DEF IInv, TypeOK, VisitType, RequestType
<1>11. ASSUME ~raced'[a] PROVE new = Applied(r, e) /\ row[a] = r /\ ~raced[a]
  BY <1>4, <1>6, <1>11 DEF late
<1>12. CredentialsFit'
  <2> SUFFICES ASSUME NEW b \in Asset, Exists(b)', ~raced'[b] PROVE Fits(row'[b])
    BY DEF CredentialsFit, Fits
  <2>1. ~raced[b] => Fits(row[b])
    BY <1>8 DEF IInv, CredentialsFit, Fits
  <2>2. CASE b # a
    BY <2>1, <2>2, <1>5, <1>6
  <2>3. CASE b = a
    <3>1. new = Applied(r, e) /\ Fits(r)
      BY <2>1, <2>3, <1>11
    <3> QED BY <3>1, <2>3, <1>3, <1>5, AppliedFits
  <2> QED BY <2>2, <2>3
<1>13. PinFitsAddress'
  <2> SUFFICES ASSUME NEW b \in Asset, Exists(b)', ~raced'[b], row'[b].pin # None
               PROVE  row'[b].pin[1] = row'[b].addr
    BY DEF PinFitsAddress
  <2>1. PinFitsAddress /\ Exists(b)
    BY <1>8 DEF IInv
  <2>2. CASE b # a
    BY <2>1, <2>2, <1>5, <1>6 DEF PinFitsAddress
  <2>3. CASE b = a
    <3>1. new = Applied(r, e) /\ row[a] = r /\ ~raced[a]
      BY <2>3, <1>11
    <3>2. new.addr = e.addr /\ new.pin = IF e.reset \/ e.addr # r.addr THEN None ELSE r.pin
      BY <3>1, <1>3, AppliedFacts
    <3>3. new.addr = r.addr /\ new.pin = r.pin /\ r.pin # None
      BY <2>3, <3>2, <1>5
    <3>4. r.pin[1] = r.addr
      BY <2>1, <2>3, <3>1, <3>3 DEF PinFitsAddress
    <3> QED BY <2>3, <3>3, <3>4, <1>5
  <2> QED BY <2>2, <2>3
<1>14. RunningIsAlive' /\ WorkIsSeen'
  BY <1>1, <1>8, <1>9 DEF IInv, RunningIsAlive, WorkIsSeen
<1>15. \A b \in Asset : row[b] # Unborn => row'[b] # Unborn
  BY <1>4, <1>5, RowFacts
<1>16. RequestsHold'
  <2>1. \A t \in Admin : request[t].on \in Asset
    BY <1>2 DEF RequestType
  <2> QED BY <2>1, <1>7, <1>15 DEF IInv, RequestsHold
<1>17. ASSUME NEW v \in Visit PROVE VisitFits(v)' /\ SeenFits(v)' /\ PinFits(v)'
  <2>1. visit'[v] = visit[v] /\ visit[v].on \in Asset
    BY <1>1, TypeFacts DEF IInv, VisitType
  <2>2. VisitFits(v) /\ SeenFits(v) /\ PinFits(v)
    BY VisitParts DEF IInv
  <2>3. VisitFits(v)'
    BY <2>1, <2>2, <1>15 DEF VisitFits
  <2>4. SeenFits(v)'
    <3>1. CASE visit[v].on = a
      BY <3>1, <2>1, <2>2, <1>1, <1>8, <1>11 DEF SeenFits
    <3>2. CASE visit[v].on # a
      BY <3>2, <2>1, <2>2, <1>5, <1>6, <1>7, <1>8 DEF SeenFits
    <3> QED BY <3>1, <3>2
  <2>5. PinFits(v)'
    <3> SUFFICES ASSUME NEW b \in Asset, Exists(b), ~overlapped[b], row'[b].pin # None PROVE ~MayPin(v, b)
      BY <2>1, <1>1, <1>8 DEF PinFits, MayPin
    <3>1. row[b].pin # None
      BY <1>4, <1>5
    <3> QED BY <3>1, <2>2 DEF PinFits
  <2> QED BY <2>3, <2>4, <2>5
<1>18. VisitsHold' /\ SeenKeepsAddress' /\ PinIsLast'
  BY <1>17 DEF VisitsHold, SeenKeepsAddress, PinIsLast, VisitFits, SeenFits, PinFits
<1> QED BY <1>10, <1>12, <1>13, <1>14, <1>16, <1>18 DEF IInv

\* An asset is registered: no visit and no request is about it.
LEMMA CreateAssetStep ==
  ASSUME IInv, NEW a \in Asset, NEW e \in Edits[a], CreateAsset(a, e)
  PROVE  IInv'
<1> DEFINE blank == [addr |-> e.addr, auth |-> "key", pw |-> None, pem |-> None, pin |-> None,
                     monitored |-> e.monitored]
           new == Applied(blank, e)
<1>1. e \in Edit
  BY CollectionsAssumption
<1>2. blank \in Row /\ Fits(blank)
  BY <1>1 DEF Row, Edit, Auth, Fits
<1>3. /\ row[a] = Unborn /\ Acceptable(blank, e) /\ row' = [row EXCEPT ![a] = new]
      /\ UNCHANGED <<running, visit, request, hostKey, todo, pass, mishap, raced, overlapped>>
  BY DEF CreateAsset, pools, history
<1>4. new \in Row /\ Fits(new) /\ new.pin = None
  BY <1>1, <1>2, <1>3, AppliedFacts, AppliedFits
<1> HIDE DEF new, blank
<1>5. row \in [Asset -> Row \cup {Unborn, Gone}] /\ visit \in [Visit -> VisitType]
      /\ request \in [Admin -> RequestType]
  BY TypeFacts DEF IInv
<1>6. /\ row' \in [Asset -> Row \cup {Unborn, Gone}] /\ row'[a] = new
      /\ \A b \in Asset \ {a} : row'[b] = row[b]
  BY <1>3, <1>4, <1>5
<1>7. TypeOK'
  BY <1>3, <1>6, TypeFacts DEF IInv, TypeOK, VisitType, RequestType
<1>8. \A b \in Asset : AtWork(b)' = AtWork(b)
  BY <1>3 DEF AtWork
<1>9. /\ \A b \in Asset \ {a} : Exists(b)' <=> Exists(b)
      /\ ~Exists(a)
  BY <1>3, <1>6, RowFacts DEF Exists
<1>10. \A v \in Visit : visit[v].pc # "idle" => visit[v].on # a
  BY <1>3 DEF IInv, VisitsHold
<1>11. running[a] = 0 /\ Cardinality(AtWork(a)) = 0
  <2>1. AtWork(a) = {}
    BY <1>10 DEF AtWork, Visit
  <2> QED BY <2>1, <1>9, FS_EmptySet DEF IInv, WorkIsSeen
<1>12. CredentialsFit'
  <2> SUFFICES ASSUME NEW b \in Asset, Exists(b)', ~raced'[b] PROVE Fits(row'[b])
    BY DEF CredentialsFit, Fits
  <2>1. b # a => Fits(row[b])
    BY <1>3, <1>9 DEF IInv, CredentialsFit, Fits
  <2> QED BY <2>1, <1>4, <1>6
<1>13. PinFitsAddress'
  BY <1>3, <1>4, <1>6, <1>9 DEF IInv, PinFitsAddress
<1>14. RunningIsAlive' /\ WorkIsSeen'
  BY <1>3, <1>8, <1>9, <1>11 DEF IInv, RunningIsAlive, WorkIsSeen
<1>15. \A b \in Asset : row[b] # Unborn => row'[b] # Unborn
  BY <1>3, <1>6
<1>16. RequestsHold'
  <2>1. \A t \in Admin : request[t].on \in Asset
    BY <1>5 DEF RequestType
  <2> QED BY <2>1, <1>3, <1>15 DEF IInv, RequestsHold
<1>17. ASSUME NEW v \in Visit PROVE VisitFits(v)' /\ SeenFits(v)' /\ PinFits(v)'
  <2>1. visit'[v] = visit[v] /\ visit[v].on \in Asset
    BY <1>3, <1>5 DEF VisitType
  <2>2. VisitFits(v) /\ SeenFits(v) /\ PinFits(v)
    BY VisitParts DEF IInv
  <2>3. VisitFits(v)'
    BY <2>1, <2>2, <1>15 DEF VisitFits
  <2>4. SeenFits(v)'
    BY <2>1, <2>2, <1>3, <1>6, <1>9, <1>10 DEF SeenFits
  <2>5. PinFits(v)'
    BY <2>1, <2>2, <1>3, <1>4, <1>6, <1>9 DEF PinFits, MayPin
  <2> QED BY <2>3, <2>4, <2>5
<1>18. VisitsHold' /\ SeenKeepsAddress' /\ PinIsLast'
  BY <1>17 DEF VisitsHold, SeenKeepsAddress, PinIsLast, VisitFits, SeenFits, PinFits
<1> QED BY <1>7, <1>12, <1>13, <1>14, <1>16, <1>18 DEF IInv

\* An asset is deleted with its rows; a check of it may still be at work.
LEMMA DeleteAssetStep ==
  ASSUME IInv, NEW a \in Asset, DeleteAsset(a)
  PROVE  IInv'
<1>1. /\ Exists(a) /\ row' = [row EXCEPT ![a] = Gone] /\ running' = [running EXCEPT ![a] = 0]
      /\ UNCHANGED <<visit, request, hostKey, todo, pass, mishap, raced, overlapped>>
  BY DEF DeleteAsset, pools, history
<1>2. row \in [Asset -> Row \cup {Unborn, Gone}] /\ running \in [Asset -> Nat]
      /\ visit \in [Visit -> VisitType] /\ request \in [Admin -> RequestType]
  BY TypeFacts DEF IInv
<1>3. /\ row' \in [Asset -> Row \cup {Unborn, Gone}] /\ row'[a] = Gone
      /\ \A b \in Asset \ {a} : row'[b] = row[b]
      /\ running' \in [Asset -> Nat] /\ running'[a] = 0
      /\ \A b \in Asset \ {a} : running'[b] = running[b]
  BY <1>1, <1>2
<1>4. TypeOK'
  BY <1>1, <1>3, TypeFacts DEF IInv, TypeOK, VisitType, RequestType
<1>5. \A b \in Asset : Exists(b)' <=> Exists(b) /\ b # a
  BY <1>3, CollectionsAssumption DEF Exists
<1>6. \A b \in Asset : AtWork(b)' = AtWork(b)
  BY <1>1 DEF AtWork
<1>7. CredentialsFit' /\ PinFitsAddress'
  BY <1>1, <1>3, <1>5 DEF IInv, CredentialsFit, PinFitsAddress
<1>8. RunningIsAlive' /\ WorkIsSeen'
  BY <1>1, <1>3, <1>5, <1>6 DEF IInv, RunningIsAlive, WorkIsSeen
<1>9. \A b \in Asset : row[b] # Unborn => row'[b] # Unborn
  BY <1>3, CollectionsAssumption
<1>10. RequestsHold'
  <2>1. \A t \in Admin : request[t].on \in Asset
    BY <1>2 DEF RequestType
  <2> QED BY <2>1, <1>1, <1>9 DEF IInv, RequestsHold
<1>11. ASSUME NEW v \in Visit PROVE VisitFits(v)' /\ SeenFits(v)' /\ PinFits(v)'
  <2>1. visit'[v] = visit[v] /\ visit[v].on \in Asset
    BY <1>1, <1>2 DEF VisitType
  <2>2. VisitFits(v) /\ SeenFits(v) /\ PinFits(v)
    BY VisitParts DEF IInv
  <2>3. VisitFits(v)' /\ SeenFits(v)'
    BY <2>1, <2>2, <1>1, <1>3, <1>5, <1>9 DEF VisitFits, SeenFits
  <2>4. PinFits(v)'
    BY <2>1, <2>2, <1>1, <1>3, <1>5 DEF PinFits, MayPin
  <2> QED BY <2>3, <2>4
<1>12. VisitsHold' /\ SeenKeepsAddress' /\ PinIsLast'
  BY <1>11 DEF VisitsHold, SeenKeepsAddress, PinIsLast, VisitFits, SeenFits, PinFits
<1> QED BY <1>4, <1>7, <1>8, <1>10, <1>12 DEF IInv

\* A target is installed again, or the daily pass moves without a visit.
LEMMA QuietSteps ==
  ASSUME IInv,
         \/ \E d \in Addr : Reinstall(d)
         \/ PassBegins
         \/ PassEnds
         \/ \E a \in Asset : PassFindsNoAsset(a)
  PROVE  IInv'
<1>1. /\ UNCHANGED <<row, running, visit, request, raced, overlapped>>
      /\ mishap' \in BOOLEAN /\ (mishap => mishap')
      /\ todo' \subseteq Asset /\ pass' \in {"idle", "running"}
  BY TypeFacts DEF IInv, Reinstall, PassBegins, PassEnds, PassFindsNoAsset, pools, history
<1>2. hostKey' \in [Addr -> Nat] /\ \A d \in Addr : hostKey'[d] \in 1..MaxGen[d]
  <2>1. hostKey \in [Addr -> Nat] /\ \A d \in Addr : hostKey[d] \in 1..MaxGen[d]
    BY TypeFacts DEF IInv
  <2>2. CASE UNCHANGED hostKey
    BY <2>1, <2>2
  <2>3. ASSUME NEW d \in Addr, Reinstall(d) PROVE hostKey' \in [Addr -> Nat] /\ \A c \in Addr : hostKey'[c] \in 1..MaxGen[c]
    <3>1. MaxGen[d] \in Nat /\ hostKey[d] \in 1..MaxGen[d] /\ hostKey[d] < MaxGen[d]
          /\ hostKey' = [hostKey EXCEPT ![d] = @ + 1]
      BY <2>1, <2>3, CollectionsAssumption DEF Reinstall
    <3>2. hostKey[d] + 1 \in Nat /\ hostKey[d] + 1 \in 1..MaxGen[d]
      BY <3>1
    <3> QED BY <2>1, <3>1, <3>2
  <2> QED BY <2>2, <2>3 DEF PassBegins, PassEnds, PassFindsNoAsset
<1>3. TypeOK'
  BY <1>1, <1>2, TypeFacts DEF IInv, TypeOK, VisitType, RequestType
<1> QED BY <1>1, <1>3, QuietStep

-----------------------------------------------------------------------------
(* The theorems *)

\* The invariant holds at first.
LEMMA InitInv == Init => IInv
<1> SUFFICES ASSUME Init PROVE IInv
  OBVIOUS
<1>1. \A v \in Visit : visit[v].pc = "idle" /\ visit[v].key = None
  BY IdleFacts DEF Init
<1>2. \A u \in Admin : request[u].pc = "idle"
  BY IdleFacts DEF Init
<1>3. \A a \in Asset : ~Exists(a)
  BY RowFacts DEF Init, Exists
<1>4. visit \in [Visit -> VisitType] /\ request \in [Admin -> RequestType]
  BY IdleFacts DEF Init
<1>5. hostKey \in [Addr -> Nat] /\ \A d \in Addr : hostKey[d] \in 1..MaxGen[d]
  BY CollectionsAssumption DEF Init
<1>6. TypeOK
  BY <1>4, <1>5 DEF Init, TypeOK, VisitType, RequestType
<1>7. CredentialsFit /\ PinFitsAddress /\ RunningIsAlive /\ RequestsHold /\ VisitsHold
  BY <1>1, <1>2, <1>3 DEF CredentialsFit, PinFitsAddress, RunningIsAlive, RequestsHold, VisitsHold
<1>8. WorkIsSeen /\ SeenKeepsAddress /\ PinIsLast
  BY <1>1, <1>3 DEF WorkIsSeen, SeenKeepsAddress, PinIsLast, Init
<1> QED BY <1>6, <1>7, <1>8 DEF IInv

\* Every step keeps the invariant.
LEMMA StepInv == IInv /\ [Next]_vars => IInv'
<1> SUFFICES ASSUME IInv, [Next]_vars PROVE IInv'
  OBVIOUS
<1>1. CASE UNCHANGED vars
  <2>1. TypeOK'
    BY <1>1, TypeFacts DEF IInv, TypeOK, VisitType, RequestType, vars
  <2> QED BY <1>1, <2>1, QuietStep DEF vars
<1>2. CASE \E a \in Asset : DeleteAsset(a) \/ \E e \in Edits[a] : CreateAsset(a, e)
  BY <1>2, DeleteAssetStep, CreateAssetStep
<1>3. CASE \E u \in Admin : \/ \E a \in Asset : \E e \in Edits[a] : ReadForUpdate(u, a, e)
                            \/ CommitUpdate(u) \/ UpdateFails(u)
  BY <1>3, ReadForUpdateStep, CommitUpdateStep, UpdateFailsStep
<1>4. CASE \E d \in Addr : Reinstall(d)
  BY <1>4, QuietSteps
<1>5. ASSUME NEW v \in Check, CheckStep(v) PROVE IInv'
  <2>1. CASE CheckConnects(v)
    BY <2>1, ConnectsStep DEF CheckConnects, Visit
  <2> QED BY <1>5, <2>1, CheckStartsStep, CheckFailsStep, CheckSucceedsStep, CheckEscapesStep DEF CheckStep
<1>6. ASSUME NEW v \in Check, NEW a \in Asset, CheckReads(v, a) PROVE IInv'
  BY <1>6, ReadsStep DEF CheckReads, Visit, pools
<1>7. ASSUME NEW v \in Analysis, AnalysisStep(v) PROVE IInv'
  <2>1. CASE AnalysisConnects(v)
    BY <2>1, ConnectsStep DEF AnalysisConnects, Visit
  <2> QED BY <1>7, <2>1, QueueAnalysisStep, ImportReadsStep, ImportCommitsStep, AnalysisFailsStep DEF AnalysisStep
<1>8. ASSUME NEW v \in Analysis, NEW a \in Scanned, SnapshotTarget(v, a) PROVE IInv'
  BY <1>8, ReadsStep, CollectionsAssumption DEF SnapshotTarget, Visit, pools
<1>9. CASE PassBegins
  BY <1>9, QuietSteps
<1>10. CASE PassStep
  <2>1. ASSUME NEW a \in Asset, PassVisits(a) PROVE IInv'
    BY <2>1, ReadsStep DEF PassVisits, Visit, Check
  <2> QED BY <1>10, <2>1, QuietSteps DEF PassStep
<1> QED BY <1>1, <1>2, <1>3, <1>4, <1>5, <1>6, <1>7, <1>8, <1>9, <1>10 DEF Next

\* The invariant of the model (IInv): secrets fit each other, a pinned key
\* fits its address, and no check stays RUNNING without one at work.
THEOREM Invariance == Spec => []IInv
BY InitInv, StepInv, PTL DEF Spec

\* Types are kept.
THEOREM TypeCorrect == Spec => []TypeOK
<1>1. IInv => TypeOK
  BY DEF IInv
<1> QED BY <1>1, Invariance, PTL

\* A pinned key is only replaced through a reset, unless two visits that both
\* found none overlap (KeyAcceptedOnce; ssh_auth.py:60).
THEOREM KeysAreKept == Spec => KeyAcceptedOnce
<1> DEFINE Kept == \A a \in Asset : row[a] \in Row /\ row'[a] \in Row /\ row[a].pin # None /\ ~overlapped[a] =>
                     row'[a].pin \in {None, row[a].pin}
<1>1. ASSUME IInv, NEW v \in Visit, Pins(v), Exists(visit[v].on),
             visit[v].pc = (IF v \in Check THEN "met" ELSE "reloaded")
      PROVE  Kept
  <2> DEFINE b == visit[v].on
             first == visit[v].key # None /\ visit[v].saw.pin = None
  <2>1. /\ \A a \in Asset \ {b} : row'[a] = row[a]
        /\ row'[b].pin = IF first THEN visit[v].key ELSE row[b].pin
    BY <1>1, PinsFacts DEF IInv
  <2>2. first => MayPin(v, b)
    BY <1>1, CollectionsAssumption DEF MayPin
  <2>3. \A a \in Asset : Exists(a) /\ ~overlapped[a] /\ row[a].pin # None => ~MayPin(v, a)
    BY <1>1 DEF IInv, PinIsLast
  <2> HIDE DEF first, b
  <2> QED BY <2>1, <2>2, <2>3 DEF Exists
<1>2. ASSUME IInv, NEW u \in Admin, CommitUpdate(u) PROVE Kept
  <2> DEFINE b == request[u].on
             r == request[u].saw
             e == request[u].form
             new == [f \in DOMAIN r |-> IF f \in Dirty(r, e) THEN Applied(r, e)[f] ELSE row[b][f]]
  <2>1. row' = [row EXCEPT ![b] = new] /\ request[u].pc = "read" /\ Exists(b)
    BY <1>2 DEF CommitUpdate
  <2>2. r \in Row /\ e \in Edit /\ row[b] \in Row /\ row \in [Asset -> Row \cup {Unborn, Gone}]
    BY <1>2, <2>1, TypeFacts DEF IInv, RequestsHold, Exists
  <2>3. new.pin \in {None, row[b].pin}
    BY <2>2, UpdateFacts
  <2> HIDE DEF new, b
  <2>4. \A a \in Asset : row'[a] = IF a = b THEN new ELSE row[a]
    BY <2>1, <2>2
  <2> QED BY <2>3, <2>4
<1>3. ASSUME IInv, NEW a \in Asset, DeleteAsset(a) \/ \E e \in Edits[a] : CreateAsset(a, e) PROVE Kept
  <2>1. row \in [Asset -> Row \cup {Unborn, Gone}]
    BY <1>3, TypeFacts DEF IInv
  <2>2. \A b \in Asset \ {a} : row'[b] = row[b]
    BY <1>3, <2>1 DEF DeleteAsset, CreateAsset
  <2>3. row[a] = Unborn \/ row'[a] = Gone
    BY <1>3, <2>1 DEF DeleteAsset, CreateAsset
  <2> QED BY <2>2, <2>3, RowFacts
<1>4. ASSUME row' = row PROVE Kept
  BY <1>4
<1>5. IInv /\ [Next]_vars => [Kept]_vars
  <2> SUFFICES ASSUME IInv, [Next]_vars PROVE Kept
    OBVIOUS
  <2> HIDE DEF Kept
  <2>1. ASSUME NEW v \in Check, CheckStep(v) PROVE Kept
    <3>1. CASE CheckSucceeds(v)
      <4>1. v \in Visit /\ visit[v].pc = "met" /\ Exists(visit[v].on) /\ Pins(v)
        BY <3>1 DEF CheckSucceeds, Visit
      <4> QED BY <2>1, <4>1, <1>1
    <3> QED BY <2>1, <3>1, <1>4 DEF CheckStep, CheckStarts, CheckConnects, CheckFails, CheckEscapes
  <2>2. ASSUME NEW v \in Analysis, AnalysisStep(v) PROVE Kept
    <3>1. CASE ImportCommits(v)
      <4>1. v \in Visit /\ visit[v].pc = "reloaded" /\ Exists(visit[v].on) /\ Pins(v)
        BY <3>1 DEF ImportCommits, Visit
      <4> QED BY <2>2, <4>1, <1>1, CollectionsAssumption
    <3> QED BY <2>2, <3>1, <1>4 DEF AnalysisStep, QueueAnalysis, AnalysisConnects, ImportReads, AnalysisFails
  <2>3. CASE UNCHANGED vars
    BY <2>3, <1>4 DEF vars
  <2>4. CASE \E a \in Asset : DeleteAsset(a) \/ \E e \in Edits[a] : CreateAsset(a, e)
    BY <2>4, <1>3
  <2>5. CASE \E u \in Admin : \/ \E a \in Asset : \E e \in Edits[a] : ReadForUpdate(u, a, e)
                              \/ CommitUpdate(u) \/ UpdateFails(u)
    BY <2>5, <1>2, <1>4 DEF ReadForUpdate, UpdateFails
  <2>6. CASE \E v \in Check : CheckStep(v) \/ \E a \in Asset : CheckReads(v, a)
    BY <2>6, <2>1, <1>4 DEF CheckReads
  <2>7. CASE \E v \in Analysis : AnalysisStep(v) \/ \E a \in Scanned : SnapshotTarget(v, a)
    BY <2>7, <2>2, <1>4 DEF SnapshotTarget
  <2>8. CASE (\E d \in Addr : Reinstall(d)) \/ PassBegins \/ PassStep
    BY <2>8, <1>4 DEF Reinstall, PassBegins, PassStep, PassEnds, PassVisits, PassFindsNoAsset
  <2> QED BY <2>3, <2>4, <2>5, <2>6, <2>7, <2>8 DEF Next
<1>6. [][Kept]_vars => KeyAcceptedOnce
  BY PTL DEF KeyAcceptedOnce
<1> QED BY <1>5, <1>6, Invariance, PTL DEF Spec

\* Only an error that escapes keeps the daily pass from an asset
\* (PassSkipsNoOne; worker.py:14).
THEOREM PassIsComplete == Spec => PassSkipsNoOne
<1>1. [Next]_vars => [pass = "running" /\ pass' = "idle" /\ ~mishap' => todo = {}]_vars
  BY DEF Next, vars, pools, history, DeleteAsset, CreateAsset, ReadForUpdate, CommitUpdate, UpdateFails, Reinstall,
         CheckStep, CheckStarts, CheckConnects, CheckFails, CheckSucceeds, CheckEscapes, CheckReads, AnalysisStep,
         QueueAnalysis, AnalysisConnects, ImportReads, ImportCommits, AnalysisFails, SnapshotTarget, PassBegins,
         PassStep, PassEnds, PassVisits, PassFindsNoAsset
<1> QED BY <1>1, PTL DEF Spec, PassSkipsNoOne

=============================================================================
