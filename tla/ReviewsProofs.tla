--------------------------- MODULE ReviewsProofs ---------------------------
(***************************************************************************)
(* Proofs about Reviews, for any users, panels, requests at once, statuses *)
(* and orders, with row locks and without.                                 *)
(***************************************************************************)
EXTENDS Reviews, FiniteSetTheorems, SequenceTheorems, TLAPS

Entry == [from : Row, to : Row, by : User, seen : Row \cup {None}, chose : BOOLEAN]

-----------------------------------------------------------------------------
(* The parts of the invariant, for one request and for one panel *)

\* Carries and Holds, over a given set of reviews that were shown.
CarriesIn(S, r) ==
  /\ r.kind \in {"action", "vex"} => /\ r.status \in Status
                                     /\ r.kind = "vex" => r.seen = None
  /\ r.kind \in {"user", "create"} => r.whom \in User /\ r.to \in Account /\ r.seen = None
  /\ r.seen # None => /\ r.seen \in S /\ r.expected = r.seen.rev /\ r.vex = r.seen.vex
                      /\ ~r.chose => r.status = r.seen.status
  /\ r.seen = None => r.chose

HoldsIn(S, r) ==
  /\ r.kind \in {"action", "vex"} => r.before \in S /\ r.expected \in {None, r.before.rev}
  /\ r.kind = "user" => r.before \in Account /\ ~(r.whom = r.by /\ ~r.to.active)

ReqFits(S, us, r) ==
  r # Free => /\ CarriesIn(S, r)
              /\ us[r.by] # None
              /\ r.at = "read" => HoldsIn(S, r) /\ r.kind # "create"
              /\ (r.at = "read" /\ r.kind = "user") => us[r.whom] # None

PanelFits(S, us, p, h) ==
  h.open => /\ us[EditorOf[p]] # None
            /\ h.known \in S /\ h.rev = h.known.rev
            /\ h.conflict = None => h.current = h.known
            /\ h.conflict # None => h.conflict \in S
            /\ ~h.touched => h.status = h.known.status
            /\ h.load.at = "read" => h.load.row \in S

\* The invariants say this of every request and panel.
LEMMA Parts ==
  /\ RequestInv <=> \A s \in Slot : ReqFits(Shown, users, request[s])
  /\ PanelInv <=> \A p \in Editor : PanelFits(Shown, users, p, panel[p])
<1>1. RequestInv <=> \A s \in Slot : ReqFits(Shown, users, request[s])
  BY DEF RequestInv, ReqFits, Carries, CarriesIn, Holds, HoldsIn
<1>2. PanelInv <=> \A p \in Editor : PanelFits(Shown, users, p, panel[p])
  BY DEF PanelInv, PanelFits
<1> QED BY <1>1, <1>2

\* And so in the next state.
LEMMA PartsNext ==
  /\ RequestInv' <=> \A s \in Slot : ReqFits(Shown', users', request'[s])
  /\ PanelInv' <=> \A p \in Editor : PanelFits(Shown', users', p, panel'[p])
<1>1. RequestInv' <=> \A s \in Slot : ReqFits(Shown', users', request'[s])
  BY DEF RequestInv, ReqFits, Carries, CarriesIn, Holds, HoldsIn
<1>2. PanelInv' <=> \A p \in Editor : PanelFits(Shown', users', p, panel'[p])
  BY DEF PanelInv, PanelFits
<1> QED BY <1>1, <1>2

\* What fits still fits when more was shown and more accounts are there.
LEMMA FitsOn ==
  ASSUME NEW S, NEW T, S \subseteq T, NEW us, NEW vs, \A u \in User : us[u] # None => vs[u] # None
  PROVE  /\ \A r \in RequestType \cup {Free} : ReqFits(S, us, r) => ReqFits(T, vs, r)
         /\ \A p \in Editor, h \in PanelType \cup {Closed} : PanelFits(S, us, p, h) => PanelFits(T, vs, p, h)
<1>1. ASSUME NEW r \in RequestType \cup {Free}, ReqFits(S, us, r) PROVE ReqFits(T, vs, r)
  <2> SUFFICES ASSUME r # Free PROVE ReqFits(T, vs, r)
    BY DEF ReqFits
  <2>1. r \in RequestType
    BY <1>1
  <2>2. /\ CarriesIn(S, r) /\ us[r.by] # None
        /\ r.at = "read" => HoldsIn(S, r) /\ r.kind # "create"
        /\ (r.at = "read" /\ r.kind = "user") => us[r.whom] # None
    BY <1>1 DEF ReqFits
  <2>3. CarriesIn(T, r)
    BY <2>2 DEF CarriesIn
  <2>4. HoldsIn(S, r) => HoldsIn(T, r)
    BY DEF HoldsIn
  <2>5. r.by \in User /\ (r.kind = "user" => r.whom \in User)
    BY <2>1, <2>2 DEF RequestType, CarriesIn
  <2> QED BY <2>2, <2>3, <2>4, <2>5 DEF ReqFits
<1>2. ASSUME NEW p \in Editor, NEW h \in PanelType \cup {Closed}, PanelFits(S, us, p, h)
      PROVE  PanelFits(T, vs, p, h)
  <2>1. EditorOf[p] \in User
    BY ReviewsAssumption
  <2> QED BY <1>2, <2>1 DEF PanelFits
<1> QED BY <1>1, <1>2

-----------------------------------------------------------------------------
(* What was shown *)

\* TypeOK with the names given above.
LEMMA TypeFacts ==
  TypeOK <=> /\ row \in Row /\ users \in [User -> Account \cup {None}]
             /\ history \in Seq(Entry)
             /\ request \in [Slot -> RequestType \cup {Free}]
             /\ panel \in [Editor -> PanelType \cup {Closed}]
             /\ audit \in Nat /\ changed \in Nat /\ answered \in Nat /\ sent \in 0..MaxRequests
  BY DEF TypeOK, Entry

\* The reviews that were shown are told apart by their revisions.
LEMMA ShownFacts ==
  ASSUME TypeOK, HistoryIsAChain
  PROVE  /\ Shown \subseteq Row
         /\ row \in Shown
         /\ \A x, y \in Shown : x.rev = y.rev => x = y
<1>1. row \in Row /\ history \in Seq(Entry)
  BY TypeFacts
<1>2. \A i \in DOMAIN history : i \in 1..Len(history) /\ history[i] \in Entry
  BY <1>1
<1>3. \A i \in DOMAIN history : history[i].from \in Row /\ history[i].from.rev = i - 1
  BY <1>2 DEF Entry, HistoryIsAChain
<1>4. row.rev = Len(history) /\ Len(history) \in Nat
  BY <1>1 DEF HistoryIsAChain
<1>5. \A i \in DOMAIN history : i - 1 # row.rev
  BY <1>2, <1>4
<1>6. \A i, j \in DOMAIN history : i - 1 = j - 1 => i = j
  BY <1>2
<1> QED BY <1>1, <1>3, <1>5, <1>6 DEF Shown

\* Rows, accounts and None are told apart.
LEMMA RowFacts ==
  /\ \A r \in Row : /\ r # None /\ r.rev \in Nat /\ r.status \in Status /\ r.vex \in Vex
                    /\ r.rev # None /\ r.vex # Keep
  /\ \A a \in Account : a # None /\ a.role \in {"ADMIN", "VIEWER"} /\ a.active \in BOOLEAN
<1>1. ASSUME NEW r \in Row
      PROVE  /\ r # None /\ r.rev \in Nat /\ r.status \in Status /\ r.vex \in Vex
             /\ r.rev # None /\ r.vex # Keep
  <2>1. r.rev \in Nat /\ r.status \in Status /\ r.vex \in Vex
    BY DEF Row
  <2> QED BY <2>1, ReviewsAssumption
<1>2. ASSUME NEW a \in Account PROVE a # None /\ a.role \in {"ADMIN", "VIEWER"} /\ a.active \in BOOLEAN
  BY ReviewsAssumption DEF Account
<1> QED BY <1>1, <1>2

\* A step that leaves the review alone, and takes no account away, keeps the
\* invariant if the requests and the panels it changes fit.
LEMMA StepFrame ==
  ASSUME IInv, TypeOK', UNCHANGED <<row, history>>,
         \A u \in User : users[u] # None => users'[u] # None,
         \A s \in Slot : request'[s] = request[s] \/ ReqFits(Shown, users', request'[s]),
         \A p \in Editor : panel'[p] = panel[p] \/ PanelFits(Shown, users', p, panel'[p])
  PROVE  IInv'
<1>1. HistoryIsAChain' /\ EveryReviewIsInformed' /\ UntouchedStatusStays'
  BY DEF IInv, HistoryIsAChain, EveryReviewIsInformed, UntouchedStatusStays
<1>2. Shown' = Shown
  BY DEF Shown
<1>3. request \in [Slot -> RequestType \cup {Free}] /\ panel \in [Editor -> PanelType \cup {Closed}]
  BY TypeFacts DEF IInv
<1>4. \A s \in Slot : ReqFits(Shown, users, request[s])
  BY Parts DEF IInv
<1>5. \A p \in Editor : PanelFits(Shown, users, p, panel[p])
  BY Parts DEF IInv
<1>6. \A s \in Slot : ReqFits(Shown', users', request'[s])
  BY <1>2, <1>3, <1>4, FitsOn
<1>7. \A p \in Editor : PanelFits(Shown', users', p, panel'[p])
  BY <1>2, <1>3, <1>5, FitsOn
<1> QED BY <1>1, <1>6, <1>7, PartsNext DEF IInv

-----------------------------------------------------------------------------
(* One request changes *)

\* Two requests that carry the same, however far each has come.
Same(q, r) ==
  /\ q.kind = r.kind /\ q.by = r.by /\ q.expected = r.expected /\ q.status = r.status /\ q.vex = r.vex
  /\ q.whom = r.whom /\ q.to = r.to /\ q.before = r.before /\ q.seen = r.seen /\ q.chose = r.chose

\* A request that is not free has every field, each of its type.
LEMMA RequestFacts ==
  ASSUME NEW r \in RequestType \cup {Free}, r # Free
  PROVE  /\ r \in RequestType
         /\ r.at \in {"sent", "allowed", "read", "committed", "done"}
         /\ r.kind \in {"action", "vex", "user", "create"}
         /\ r.by \in User /\ r.for \in Editor \cup {None} /\ r.expected \in Nat \cup {None}
         /\ r.status \in Status \cup {None} /\ r.vex \in Vex \cup {Keep} /\ r.whom \in User \cup {None}
         /\ r.to \in Account \cup {None} /\ r.before \in Row \cup Account \cup {None}
         /\ r.code \in {200, 401, 403, 404, 409, 422, 500}
         /\ r.seen \in Row \cup {None} /\ r.chose \in BOOLEAN
  BY DEF RequestType

\* No request is Free by where it stands.
LEMMA FreeFacts ==
  /\ Free.at = "free"
  /\ \A r \in RequestType : r # Free
  BY DEF Free, RequestType

\* What a request carries still fits when it is not in the middle of a change.
LEMMA SameFits ==
  ASSUME NEW S, NEW us, NEW r \in RequestType, NEW q \in RequestType,
         ReqFits(S, us, r), Same(q, r), q.at # "read" \/ r.at = "read"
  PROVE  ReqFits(S, us, q)
<1>1. r # Free /\ q # Free
  BY FreeFacts
<1> QED BY <1>1 DEF ReqFits, Same, CarriesIn, HoldsIn

\* A request moves on.
LEMMA MovesFacts ==
  ASSUME request \in [Slot -> RequestType \cup {Free}], NEW s \in Slot, request[s] # Free,
         NEW at \in {"sent", "allowed", "read", "committed", "done"}, Moves(s, at)
  PROVE  /\ request' \in [Slot -> RequestType \cup {Free}]
         /\ request'[s] \in RequestType /\ Same(request'[s], request[s])
         /\ request'[s].at = at /\ request'[s].for = request[s].for /\ request'[s].code = request[s].code
         /\ \A t \in Slot \ {s} : request'[t] = request[t]
<1>1. request[s] \in RequestType
  OBVIOUS
<1> DEFINE q == [request[s] EXCEPT !.at = at]
<1>2. /\ q \in RequestType /\ Same(q, request[s]) /\ q.at = at
      /\ q.for = request[s].for /\ q.code = request[s].code
  BY <1>1 DEF RequestType, Same
<1>3. request' = [request EXCEPT ![s] = q]
  BY DEF Moves
<1> HIDE DEF q
<1> QED BY <1>2, <1>3

\* A request is answered.
LEMMA EndsFacts ==
  ASSUME request \in [Slot -> RequestType \cup {Free}], NEW s \in Slot, request[s] # Free,
         NEW code \in {200, 401, 403, 404, 409, 422, 500}, Ends(s, code)
  PROVE  /\ request' \in [Slot -> RequestType \cup {Free}]
         /\ request'[s] \in RequestType /\ Same(request'[s], request[s])
         /\ request'[s].at = "done" /\ request'[s].code = code
         /\ \A t \in Slot \ {s} : request'[t] = request[t]
<1>1. request[s] \in RequestType
  OBVIOUS
<1> DEFINE q0 == [request[s] EXCEPT !.at = "done"]
           q == [q0 EXCEPT !.code = code]
<1>2. q0 \in RequestType /\ Same(q0, request[s]) /\ q0.at = "done"
  BY <1>1 DEF RequestType, Same
<1> DEFINE once == [request EXCEPT ![s] = q0]
<1>3. request' = [once EXCEPT ![s] = [once[s] EXCEPT !.code = code]] /\ once[s] = q0
  BY DEF Ends
<1> HIDE DEF q0
<1>4. q \in RequestType /\ Same(q, q0) /\ q.at = q0.at /\ q.code = code
  BY <1>2 DEF RequestType, Same
<1>5. request' = [request EXCEPT ![s] = q]
  <2>1. request' = [once EXCEPT ![s] = q]
    BY <1>3
  <2> HIDE DEF q
  <2>2. DOMAIN request' = DOMAIN request /\ request'[s] = q /\ \A t \in Slot \ {s} : request'[t] = request[t]
    BY <2>1
  <2>3. request' \in [Slot -> RequestType \cup {Free}]
    BY <1>4, <2>1
  <2> QED BY <2>2, <2>3
<1> HIDE DEF q
<1>6. Same(q, request[s])
  BY <1>2, <1>4 DEF Same
<1> QED BY <1>2, <1>4, <1>5, <1>6

\* A handler has read what it will change.
LEMMA TakesFacts ==
  ASSUME request \in [Slot -> RequestType \cup {Free}], NEW s \in Slot, request[s] # Free,
         NEW before \in Row \cup Account,
         request' = [request EXCEPT ![s].at = "read", ![s].before = before]
  PROVE  /\ request' \in [Slot -> RequestType \cup {Free}]
         /\ request'[s] \in RequestType
         /\ request'[s].at = "read" /\ request'[s].before = before
         /\ request'[s].kind = request[s].kind /\ request'[s].by = request[s].by
         /\ request'[s].expected = request[s].expected /\ request'[s].status = request[s].status
         /\ request'[s].vex = request[s].vex /\ request'[s].whom = request[s].whom
         /\ request'[s].to = request[s].to /\ request'[s].seen = request[s].seen
         /\ request'[s].chose = request[s].chose
         /\ \A t \in Slot \ {s} : request'[t] = request[t]
<1>1. request[s] \in RequestType
  OBVIOUS
<1> DEFINE r == request[s]
           q0 == [r EXCEPT !.at = "read"]
           q == [q0 EXCEPT !.before = before]
<1>2. q0 \in RequestType /\ Same(q0, r) /\ q0.at = "read"
  BY <1>1 DEF RequestType, Same
<1>3. request' = [[request EXCEPT ![s] = q0] EXCEPT ![s].before = before]
  OBVIOUS
<1> HIDE DEF q0
<1>4. /\ q \in RequestType /\ q.at = q0.at /\ q.before = before
      /\ q.kind = q0.kind /\ q.by = q0.by /\ q.expected = q0.expected /\ q.status = q0.status
      /\ q.vex = q0.vex /\ q.whom = q0.whom /\ q.to = q0.to /\ q.seen = q0.seen /\ q.chose = q0.chose
  BY <1>2 DEF RequestType
<1>5. request' = [request EXCEPT ![s] = q]
  BY <1>3
<1> HIDE DEF q
<1> QED BY <1>2, <1>4, <1>5 DEF Same

\* A request is sent.
LEMMA SendsFacts ==
  ASSUME TypeOK, NEW s \in Slot, NEW r \in RequestType, Sends(s, r)
  PROVE  /\ request' \in [Slot -> RequestType \cup {Free}]
         /\ request'[s] = r /\ sent' \in 0..MaxRequests
         /\ request[s] = Free
         /\ \A t \in Slot \ {s} : request'[t] = request[t]
  BY ReviewsAssumption DEF Sends, TypeOK

\* A quiet step of a request: nothing but requests changes, each of them
\* carries what it did, and none begins to change anything.
LEMMA RequestFrame ==
  ASSUME IInv, UNCHANGED <<row, history, users, panel>>, sent' \in 0..MaxRequests,
         audit' \in Nat, changed' \in Nat, answered' \in Nat,
         request' \in [Slot -> RequestType \cup {Free}],
         \A s \in Slot : request'[s] = request[s] \/ ReqFits(Shown, users, request'[s])
  PROVE  IInv'
<1>1. TypeOK'
  BY DEF IInv, TypeOK
<1> QED BY <1>1, StepFrame

\* One request carries on.
LEMMA SameFrame ==
  ASSUME IInv, UNCHANGED <<row, history, users, panel, sent>>,
         audit' \in Nat, changed' \in Nat, answered' \in Nat,
         request' \in [Slot -> RequestType \cup {Free}],
         NEW s \in Slot, request[s] # Free, request'[s] \in RequestType, Same(request'[s], request[s]),
         request'[s].at # "read", \A t \in Slot \ {s} : request'[t] = request[t]
  PROVE  IInv'
<1>1. /\ request \in [Slot -> RequestType \cup {Free}] /\ sent \in 0..MaxRequests
      /\ ReqFits(Shown, users, request[s])
  BY TypeFacts, Parts DEF IInv
<1>2. ReqFits(Shown, users, request'[s])
  BY <1>1, SameFits
<1> QED BY <1>1, <1>2, RequestFrame

-----------------------------------------------------------------------------
(* One panel changes *)

\* A panel that is open has every field, each of its type.
LEMMA PanelFacts ==
  ASSUME NEW h \in PanelType \cup {Closed}, h.open
  PROVE  /\ h \in PanelType
         /\ h.open = TRUE /\ h.current \in Row /\ h.known \in Row /\ h.rev \in Nat /\ h.status \in Status
         /\ h.ready \in BOOLEAN /\ h.conflict \in Row \cup {None} /\ h.touched \in BOOLEAN
         /\ h.typed \in BOOLEAN /\ h.saving \in {"no", "request", "refresh"}
         /\ h.load \in {NoLoad, [at |-> "asked"]} \cup [at : {"read"}, row : Row]
<1>1. h # Closed
  BY DEF Closed
<1> QED BY <1>1 DEF PanelType

\* adoptLatest, field by field.
LEMMA AdoptFacts ==
  ASSUME NEW h \in PanelType, NEW latest \in Row
  PROVE  /\ Adopt(h, latest) \in PanelType
         /\ Adopt(h, latest).current = latest /\ Adopt(h, latest).known = h.known
         /\ Adopt(h, latest).rev = latest.rev /\ Adopt(h, latest).conflict = None
         /\ Adopt(h, latest).status = IF h.touched THEN h.status ELSE latest.status
         /\ Adopt(h, latest).touched = h.touched /\ Adopt(h, latest).typed = h.typed
         /\ Adopt(h, latest).load = h.load
<1> DEFINE status == IF h.touched THEN h.status ELSE latest.status
           h1 == [h EXCEPT !.status = status]
           h2 == [h1 EXCEPT !.rev = latest.rev]
           h3 == [h2 EXCEPT !.current = latest]
           h4 == [h3 EXCEPT !.conflict = None]
           h5 == [h4 EXCEPT !.ready = TRUE]
<1>1. latest.rev \in Nat /\ latest.status \in Status /\ status \in Status
  BY DEF Row, PanelType
<1>2. h5 = Adopt(h, latest)
  BY DEF Adopt
<1> HIDE DEF status
<1>3. /\ h1 \in PanelType /\ h1.status = status /\ h1.known = h.known
      /\ h1.touched = h.touched /\ h1.typed = h.typed /\ h1.load = h.load
  BY <1>1 DEF PanelType
<1> HIDE DEF h1
<1>4. /\ h2 \in PanelType /\ h2.status = status /\ h2.known = h.known /\ h2.rev = latest.rev
      /\ h2.touched = h.touched /\ h2.typed = h.typed /\ h2.load = h.load
  BY <1>1, <1>3 DEF PanelType
<1> HIDE DEF h2
<1>5. /\ h3 \in PanelType /\ h3.status = status /\ h3.known = h.known /\ h3.rev = latest.rev
      /\ h3.touched = h.touched /\ h3.typed = h.typed /\ h3.load = h.load /\ h3.current = latest
  BY <1>4 DEF PanelType
<1> HIDE DEF h3
<1>6. /\ h4 \in PanelType /\ h4.status = status /\ h4.known = h.known /\ h4.rev = latest.rev
      /\ h4.touched = h.touched /\ h4.typed = h.typed /\ h4.load = h.load /\ h4.current = latest
      /\ h4.conflict = None
  BY <1>5 DEF PanelType
<1> HIDE DEF h4
<1>7. /\ h5 \in PanelType /\ h5.status = status /\ h5.known = h.known /\ h5.rev = latest.rev
      /\ h5.touched = h.touched /\ h5.typed = h.typed /\ h5.load = h.load /\ h5.current = latest
      /\ h5.conflict = None
  BY <1>6 DEF PanelType
<1> HIDE DEF h5
<1> QED BY <1>2, <1>7 DEF status

\* A load is over.
LEMMA SettledFacts ==
  ASSUME NEW h \in PanelType
  PROVE  /\ Settled(h) \in PanelType /\ Settled(h).load = NoLoad
         /\ Settled(h).current = h.current /\ Settled(h).known = h.known /\ Settled(h).rev = h.rev
         /\ Settled(h).status = h.status /\ Settled(h).ready = h.ready /\ Settled(h).conflict = h.conflict
         /\ Settled(h).touched = h.touched /\ Settled(h).typed = h.typed
  BY DEF Settled, PanelType

\* One field of an open panel changes, and it still is an open panel.
LEMMA FieldFacts ==
  ASSUME NEW h \in PanelType
  PROVE  /\ \A x \in {"no", "request", "refresh"} : [h EXCEPT !.saving = x] \in PanelType
         /\ \A x \in {NoLoad, [at |-> "asked"]} \cup [at : {"read"}, row : Row] : [h EXCEPT !.load = x] \in PanelType
         /\ \A x \in Row : [h EXCEPT !.known = x] \in PanelType
         /\ \A x \in BOOLEAN : [h EXCEPT !.ready = x] \in PanelType
         /\ \A x \in BOOLEAN : [h EXCEPT !.typed = x] \in PanelType
  BY DEF PanelType

\* A step of one panel keeps the invariant if the panel still fits.
LEMMA PanelFrame ==
  ASSUME IInv, UNCHANGED <<row, history, users, request, counts, sent>>, NEW p \in Editor,
         NEW h \in PanelType \cup {Closed}, panel' = [panel EXCEPT ![p] = h], PanelFits(Shown, users, p, h)
  PROVE  IInv'
<1>1. panel \in [Editor -> PanelType \cup {Closed}]
  BY TypeFacts DEF IInv
<1>2. panel' \in [Editor -> PanelType \cup {Closed}] /\ panel'[p] = h
      /\ \A q \in Editor \ {p} : panel'[q] = panel[q]
  BY <1>1
<1>3. TypeOK'
  BY <1>2 DEF IInv, TypeOK, counts
<1> QED BY <1>2, <1>3, StepFrame

\* A panel that is closed fits anything.
LEMMA ClosedFacts ==
  /\ ~Closed.open /\ Closed \in PanelType \cup {Closed}
  /\ \A S, us : \A p \in Editor : PanelFits(S, us, p, Closed)
  BY DEF Closed, PanelFits

\* What loadCurrent makes of a review that was shown: adopted, the panel is at
\* it; over a draft of another revision, only a conflict shows it.
LEMMA ReceivedFits ==
  ASSUME NEW S \in SUBSET Row, \A x, y \in S : x.rev = y.rev => x = y,
         NEW us, NEW p \in Editor, NEW h \in PanelType, PanelFits(S, us, p, h),
         NEW latest \in S, NEW known, known = IF h.touched \/ h.typed THEN h.known ELSE latest
  PROVE  /\ [Settled(Received(h, latest)) EXCEPT !.known = known] \in PanelType
         /\ PanelFits(S, us, p, [Settled(Received(h, latest)) EXCEPT !.known = known])
<1> DEFINE got == Received(h, latest)
           done == Settled(got)
           new == [done EXCEPT !.known = known]
<1>1. /\ h.open = TRUE /\ h.current \in Row /\ h.known \in Row /\ h.rev \in Nat /\ h.status \in Status
      /\ h.touched \in BOOLEAN /\ h.typed \in BOOLEAN /\ h.conflict \in Row \cup {None}
  BY DEF PanelType
<1>2. /\ us[EditorOf[p]] # None /\ h.known \in S /\ h.rev = h.known.rev
      /\ ~h.touched => h.status = h.known.status
  BY <1>1 DEF PanelFits
<1>3. known \in S
  BY <1>2
<1>4. latest # None /\ latest \in Row
  BY RowFacts
<1>5. /\ got \in PanelType /\ got.known = h.known /\ got.touched = h.touched
      /\ got.rev = known.rev
      /\ got.conflict = None => got.current = known
      /\ got.conflict # None => got.conflict \in S
      /\ ~got.touched => got.status = known.status
  <2>1. CASE latest.rev # h.rev /\ (h.touched \/ h.typed)
    <3> DEFINE h1 == [h EXCEPT !.current = latest]
               h2 == [h1 EXCEPT !.ready = TRUE]
               h3 == [h2 EXCEPT !.conflict = latest]
    <3>1. got = h3
      BY <2>1 DEF Received
    <3>2. h1 \in PanelType /\ h1.known = h.known /\ h1.touched = h.touched /\ h1.rev = h.rev /\ h1.status = h.status
      BY <1>4 DEF PanelType
    <3> HIDE DEF h1
    <3>3. h2 \in PanelType /\ h2.known = h.known /\ h2.touched = h.touched /\ h2.rev = h.rev /\ h2.status = h.status
      BY <3>2 DEF PanelType
    <3> HIDE DEF h2
    <3>4. /\ h3 \in PanelType /\ h3.known = h.known /\ h3.touched = h.touched /\ h3.rev = h.rev
          /\ h3.status = h.status /\ h3.conflict = latest
      BY <1>4, <3>3 DEF PanelType
    <3> HIDE DEF h3
    <3> QED BY <1>2, <1>4, <2>1, <3>1, <3>4
  <2>2. CASE ~(latest.rev # h.rev /\ (h.touched \/ h.typed))
    <3>1. got = Adopt(h, latest)
      BY <2>2 DEF Received
    <3>2. known = latest
      BY <1>2, <2>2
    <3>3. /\ got \in PanelType /\ got.known = h.known /\ got.touched = h.touched /\ got.rev = latest.rev
          /\ got.current = latest /\ got.conflict = None
          /\ ~h.touched => got.status = latest.status
      BY <1>4, <3>1, AdoptFacts
    <3> HIDE DEF got
    <3> QED BY <3>2, <3>3
  <2> QED BY <2>1, <2>2
<1> HIDE DEF got
<1>6. /\ done \in PanelType /\ done.load = NoLoad /\ done.current = got.current /\ done.rev = got.rev
      /\ done.status = got.status /\ done.conflict = got.conflict /\ done.touched = got.touched
  BY <1>5, SettledFacts
<1> HIDE DEF done
<1>7. /\ new \in PanelType /\ new.load = done.load /\ new.current = done.current /\ new.rev = done.rev
      /\ new.status = done.status /\ new.conflict = done.conflict /\ new.touched = done.touched
      /\ new.known = known
  BY <1>3, <1>6 DEF PanelType
<1> HIDE DEF new
<1>8. NoLoad.at # "read"
  BY DEF NoLoad
<1>9. PanelFits(S, us, p, new)
  BY <1>2, <1>3, <1>5, <1>6, <1>7, <1>8 DEF PanelFits
<1> QED BY <1>7, <1>9 DEF new, done, got

-----------------------------------------------------------------------------
(* Requests that are sent *)

\* The type invariant, part by part, and what fits.
LEMMA StateFacts ==
  ASSUME IInv
  PROVE  /\ TypeOK /\ row \in Row /\ users \in [User -> Account \cup {None}] /\ history \in Seq(Entry)
         /\ request \in [Slot -> RequestType \cup {Free}] /\ panel \in [Editor -> PanelType \cup {Closed}]
         /\ audit \in Nat /\ changed \in Nat /\ answered \in Nat /\ sent \in 0..MaxRequests
         /\ \A s \in Slot : ReqFits(Shown, users, request[s])
         /\ \A p \in Editor : PanelFits(Shown, users, p, panel[p])
         /\ Shown \subseteq Row /\ row \in Shown
         /\ \A x, y \in Shown : x.rev = y.rev => x = y
  BY TypeFacts, Parts, ShownFacts DEF IInv

\* A new request names its account, and nothing else.
LEMMA AskedFacts ==
  ASSUME NEW kind \in {"action", "vex", "user", "create"}, NEW by \in User, NEW for \in Editor \cup {None}
  PROVE  /\ Asked(kind, by, for) \in RequestType /\ Asked(kind, by, for).at = "sent"
         /\ Asked(kind, by, for).kind = kind /\ Asked(kind, by, for).by = by
         /\ Asked(kind, by, for).seen = None /\ Asked(kind, by, for).chose
  BY ReviewsAssumption DEF Asked, RequestType

\* A request that was sent fits if it carries what it should.
LEMMA SentFits ==
  ASSUME IInv, NEW s \in Slot, NEW r \in RequestType, Sends(s, r), r.at = "sent", users[r.by] # None,
         CarriesIn(Shown, r), UNCHANGED <<row, history, users, panel, counts>>
  PROVE  IInv'
<1>1. /\ request' \in [Slot -> RequestType \cup {Free}] /\ request'[s] = r /\ sent' \in 0..MaxRequests
      /\ \A t \in Slot \ {s} : request'[t] = request[t]
  BY SendsFacts DEF IInv
<1>2. ReqFits(Shown, users, r)
  BY DEF ReqFits
<1>3. audit' \in Nat /\ changed' \in Nat /\ answered' \in Nat
  BY StateFacts DEF counts
<1> QED BY <1>1, <1>2, <1>3, RequestFrame DEF counts

\* A script's review.
LEMMA ScriptReviewsStep ==
  ASSUME IInv, NEW s \in Slot, NEW u \in User, NEW call \in Calls, ScriptReviews(s, u, call)
  PROVE  IInv'
<1> DEFINE r0 == Asked("vex", u, None)
           r1 == [r0 EXCEPT !.expected = call.expected]
           r2 == [r1 EXCEPT !.status = call.status]
           r3 == [r2 EXCEPT !.vex = call.vex]
<1>1. call.expected \in Nat \cup {None} /\ call.status \in Status /\ call.vex \in Vex \cup {Keep}
  BY ReviewsAssumption
<1>2. r0 \in RequestType /\ r0.at = "sent" /\ r0.kind = "vex" /\ r0.by = u /\ r0.seen = None /\ r0.chose
  BY AskedFacts
<1>3. Sends(s, r3) /\ users[u] # None /\ UNCHANGED <<row, history, users, panel, counts>>
  BY DEF ScriptReviews
<1> HIDE DEF r0
<1>4. r1 \in RequestType /\ r1.at = "sent" /\ r1.kind = "vex" /\ r1.by = u /\ r1.seen = None /\ r1.chose
  BY <1>1, <1>2 DEF RequestType
<1> HIDE DEF r1
<1>5. /\ r2 \in RequestType /\ r2.at = "sent" /\ r2.kind = "vex" /\ r2.by = u /\ r2.seen = None /\ r2.chose
      /\ r2.status = call.status
  BY <1>1, <1>4 DEF RequestType
<1> HIDE DEF r2
<1>6. /\ r3 \in RequestType /\ r3.at = "sent" /\ r3.kind = "vex" /\ r3.by = u /\ r3.seen = None /\ r3.chose
      /\ r3.status = call.status
  BY <1>1, <1>5 DEF RequestType
<1> HIDE DEF r3
<1>7. CarriesIn(Shown, r3)
  BY <1>1, <1>6 DEF CarriesIn
<1> QED BY <1>3, <1>6, <1>7, SentFits

\* What an administrator asks for an account to be.
LEMMA OrderedFacts ==
  ASSUME NEW kind \in {"user", "create"}, NEW u \in User, NEW order \in Orders,
         NEW r, r = [Asked(kind, u, None) EXCEPT !.whom = order.whom, !.to = order.to]
  PROVE  r \in RequestType /\ r.at = "sent" /\ r.by = u /\ CarriesIn(Shown, r)
<1> DEFINE r0 == Asked(kind, u, None)
           r1 == [r0 EXCEPT !.whom = order.whom]
           r2 == [r1 EXCEPT !.to = order.to]
<1>1. order.whom \in User /\ order.to \in Account
  BY ReviewsAssumption
<1>2. r0 \in RequestType /\ r0.at = "sent" /\ r0.kind = kind /\ r0.by = u /\ r0.seen = None /\ r0.chose
  BY AskedFacts
<1>3. r = r2
  OBVIOUS
<1> HIDE DEF r0
<1>4. /\ r1 \in RequestType /\ r1.at = "sent" /\ r1.kind = kind /\ r1.by = u /\ r1.seen = None /\ r1.chose
      /\ r1.whom = order.whom
  BY <1>1, <1>2 DEF RequestType
<1> HIDE DEF r1
<1>5. /\ r2 \in RequestType /\ r2.at = "sent" /\ r2.kind = kind /\ r2.by = u /\ r2.seen = None /\ r2.chose
      /\ r2.whom = order.whom /\ r2.to = order.to
  BY <1>1, <1>4 DEF RequestType
<1> HIDE DEF r2
<1> QED BY <1>1, <1>3, <1>5 DEF CarriesIn

\* A change of an account.
LEMMA ChangesUserStep ==
  ASSUME IInv, NEW s \in Slot, NEW u \in User, NEW order \in Orders, ChangesUser(s, u, order)
  PROVE  IInv'
<1> DEFINE r == [Asked("user", u, None) EXCEPT !.whom = order.whom, !.to = order.to]
<1>1. Sends(s, r) /\ users[u] # None /\ UNCHANGED <<row, history, users, panel, counts>>
  BY DEF ChangesUser
<1>2. r \in RequestType /\ r.at = "sent" /\ r.by = u /\ CarriesIn(Shown, r)
  BY OrderedFacts
<1> HIDE DEF r
<1> QED BY <1>1, <1>2, SentFits

\* A new account.
LEMMA CreatesUserStep ==
  ASSUME IInv, NEW s \in Slot, NEW u \in User, NEW order \in Orders, CreatesUser(s, u, order)
  PROVE  IInv'
<1> DEFINE r == [Asked("create", u, None) EXCEPT !.whom = order.whom, !.to = order.to]
<1>1. Sends(s, r) /\ users[u] # None /\ UNCHANGED <<row, history, users, panel, counts>>
  BY DEF CreatesUser
<1>2. r \in RequestType /\ r.at = "sent" /\ r.by = u /\ CarriesIn(Shown, r)
  BY OrderedFacts
<1> HIDE DEF r
<1> QED BY <1>1, <1>2, SentFits

-----------------------------------------------------------------------------
(* Requests that are served *)

\* Who is it, and may he change anything?
LEMMA AuthenticateStep ==
  ASSUME IInv, NEW s \in Slot, Authenticate(s)
  PROVE  IInv'
<1>1. /\ request[s] # Free /\ UNCHANGED <<row, history, users, panel, sent>>
      /\ audit' = audit /\ changed' = changed /\ answered' = answered
      /\ Ends(s, 401) \/ Ends(s, 403) \/ Moves(s, "allowed")
  BY FreeFacts DEF Authenticate, counts
<1>2. /\ request' \in [Slot -> RequestType \cup {Free}] /\ request'[s] \in RequestType
      /\ Same(request'[s], request[s]) /\ request'[s].at # "read"
      /\ \A t \in Slot \ {s} : request'[t] = request[t]
  BY <1>1, StateFacts, EndsFacts, MovesFacts
<1> QED BY <1>1, <1>2, StateFacts, SameFrame

\* record_action up to its UPDATE.
LEMMA ReadsReviewStep ==
  ASSUME IInv, NEW s \in Slot, ReadsReview(s)
  PROVE  IInv'
<1>1. /\ request[s] # Free /\ request[s].kind \in {"action", "vex"}
      /\ UNCHANGED <<row, history, users, panel, sent>>
      /\ audit' = audit /\ changed' = changed /\ answered' = answered
  BY FreeFacts DEF ReadsReview, counts, Reviewing
<1>2. CASE Ends(s, 403) \/ Ends(s, 409)
  <2>1. /\ request' \in [Slot -> RequestType \cup {Free}] /\ request'[s] \in RequestType
        /\ Same(request'[s], request[s]) /\ request'[s].at # "read"
        /\ \A t \in Slot \ {s} : request'[t] = request[t]
    BY <1>1, <1>2, StateFacts, EndsFacts
  <2> QED BY <1>1, <2>1, StateFacts, SameFrame
<1>3. CASE Accepts(s) /\ request' = [request EXCEPT ![s].at = "read", ![s].before = row]
  <2> DEFINE q == request'[s]
  <2>1. /\ request' \in [Slot -> RequestType \cup {Free}] /\ q \in RequestType
        /\ q.at = "read" /\ q.before = row
        /\ q.kind = request[s].kind /\ q.by = request[s].by /\ q.expected = request[s].expected
        /\ q.status = request[s].status /\ q.vex = request[s].vex /\ q.whom = request[s].whom
        /\ q.to = request[s].to /\ q.seen = request[s].seen /\ q.chose = request[s].chose
        /\ \A t \in Slot \ {s} : request'[t] = request[t]
    BY <1>1, <1>3, StateFacts, TakesFacts
  <2>2. ReqFits(Shown, users, request[s]) /\ row \in Shown
    BY StateFacts
  <2>3. request[s].expected \in {None, row.rev}
    BY <1>3 DEF Accepts
  <2> HIDE DEF q
  <2>4. CarriesIn(Shown, q) /\ users[q.by] # None
    BY <1>1, <2>1, <2>2 DEF ReqFits, CarriesIn
  <2>5. HoldsIn(Shown, q)
    BY <1>1, <2>1, <2>2, <2>3 DEF HoldsIn
  <2>6. ReqFits(Shown, users, q)
    BY <1>1, <2>1, <2>4, <2>5 DEF ReqFits
  <2>7. ReqFits(Shown, users', request'[s])
    BY <1>1, <2>6 DEF q
  <2> QED BY <1>1, <2>1, <2>7, StateFacts, RequestFrame
<1> QED BY <1>2, <1>3 DEF ReadsReview

\* update_user up to what it writes.
LEMMA ReadsUserStep ==
  ASSUME IInv, NEW s \in Slot, ReadsUser(s)
  PROVE  IInv'
<1>1. /\ request[s] # Free /\ request[s].kind = "user"
      /\ UNCHANGED <<row, history, users, panel, sent>>
      /\ audit' = audit /\ changed' = changed /\ answered' = answered
  BY FreeFacts DEF ReadsUser, counts
<1>2. CASE Ends(s, 404) \/ Ends(s, 422)
  <2>1. /\ request' \in [Slot -> RequestType \cup {Free}] /\ request'[s] \in RequestType
        /\ Same(request'[s], request[s]) /\ request'[s].at # "read"
        /\ \A t \in Slot \ {s} : request'[t] = request[t]
    BY <1>1, <1>2, StateFacts, EndsFacts
  <2> QED BY <1>1, <2>1, StateFacts, SameFrame
<1>3. CASE /\ users[request[s].whom] # None /\ ~Suicidal(s)
           /\ request' = [request EXCEPT ![s].at = "read", ![s].before = users[request[s].whom]]
  <2> DEFINE q == request'[s]
             now == users[request[s].whom]
  <2>1. ReqFits(Shown, users, request[s]) /\ request[s].whom \in User
    BY <1>1, StateFacts DEF ReqFits, CarriesIn
  <2>2. now \in Account
    BY <1>3, <2>1, StateFacts
  <2>3. /\ request' \in [Slot -> RequestType \cup {Free}] /\ q \in RequestType
        /\ q.at = "read" /\ q.before = now
        /\ q.kind = request[s].kind /\ q.by = request[s].by /\ q.expected = request[s].expected
        /\ q.status = request[s].status /\ q.vex = request[s].vex /\ q.whom = request[s].whom
        /\ q.to = request[s].to /\ q.seen = request[s].seen /\ q.chose = request[s].chose
        /\ \A t \in Slot \ {s} : request'[t] = request[t]
    BY <1>1, <1>3, <2>2, StateFacts, TakesFacts
  <2>4. ~(request[s].whom = request[s].by /\ ~request[s].to.active)
    BY <1>3 DEF Suicidal
  <2> HIDE DEF q
  <2>5. CarriesIn(Shown, q) /\ users[q.by] # None
    BY <1>1, <2>1, <2>3 DEF ReqFits, CarriesIn
  <2>6. HoldsIn(Shown, q)
    BY <1>1, <2>2, <2>3, <2>4 DEF HoldsIn
  <2>7. ReqFits(Shown, users, q)
    BY <1>1, <1>3, <2>3, <2>5, <2>6 DEF ReqFits
  <2>8. ReqFits(Shown, users', request'[s])
    BY <1>1, <2>7 DEF q
  <2> QED BY <1>1, <2>3, <2>8, StateFacts, RequestFrame
<1> QED BY <1>2, <1>3 DEF ReadsUser

\* A step that writes accounts keeps the invariant if it keeps accounts.
LEMMA UserFrame ==
  ASSUME IInv, UNCHANGED <<row, history, panel, audit, answered, sent>>, changed' = changed + 1,
         users' \in [User -> Account \cup {None}], \A u \in User : users[u] # None => users'[u] # None,
         NEW s \in Slot, request[s] # Free, Moves(s, "committed")
  PROVE  IInv'
<1>1. /\ request' \in [Slot -> RequestType \cup {Free}] /\ request'[s] \in RequestType
      /\ Same(request'[s], request[s]) /\ request'[s].at # "read"
      /\ \A t \in Slot \ {s} : request'[t] = request[t]
  BY StateFacts, MovesFacts
<1>2. ReqFits(Shown, users, request[s]) /\ request[s] \in RequestType
  BY StateFacts
<1>3. ReqFits(Shown, users, request'[s])
  BY <1>1, <1>2, SameFits
<1>4. ReqFits(Shown, users', request'[s])
  BY <1>1, <1>3, FitsOn
<1>5. changed' \in Nat
  BY StateFacts
<1>6. TypeOK'
  BY <1>1, <1>5 DEF IInv, TypeOK
<1> QED BY <1>1, <1>4, <1>6, StepFrame

\* What update_user writes is an account.
LEMMA WrittenFacts ==
  ASSUME IInv, NEW s \in Slot, WritesUser(s)
  PROVE  /\ request[s].whom \in User /\ users[request[s].whom] \in Account /\ request[s] # Free
         /\ request[s].by \in User /\ ~(request[s].whom = request[s].by /\ ~request[s].to.active)
         /\ users'[request[s].whom] \in Account
         /\ request[s].before \in Account /\ request[s].to \in Account
         /\ \A f \in {"role", "active"} :
              users'[request[s].whom][f] = IF request[s].to[f] # request[s].before[f]
                                             THEN request[s].to[f] ELSE users[request[s].whom][f]
         /\ \A u \in User \ {request[s].whom} : users'[u] = users[u]
         /\ users' \in [User -> Account \cup {None}]
<1> DEFINE r == request[s]
           now == users[r.whom]
           new == [f \in {"role", "active"} |-> IF r.to[f] # r.before[f] THEN r.to[f] ELSE now[f]]
<1>1. /\ r.at = "read" /\ r.kind = "user" /\ users' = [users EXCEPT ![r.whom] = new]
  BY DEF WritesUser
<1>2. r # Free /\ r \in RequestType
  BY <1>1, FreeFacts, StateFacts
<1>3. ReqFits(Shown, users, r)
  BY StateFacts
<1>4. /\ r.whom \in User /\ r.to \in Account /\ r.before \in Account /\ r.by \in User
      /\ ~(r.whom = r.by /\ ~r.to.active) /\ now # None
  BY <1>1, <1>2, <1>3, RequestFacts DEF ReqFits, CarriesIn, HoldsIn
<1>5. now \in Account
  BY <1>4, StateFacts
<1> HIDE DEF now
<1>6. new = [role |-> new.role, active |-> new.active]
  OBVIOUS
<1>7. new.role \in {r.to.role, now.role} /\ new.active \in {r.to.active, now.active}
  OBVIOUS
<1>8. new.role \in {"ADMIN", "VIEWER"} /\ new.active \in BOOLEAN
  BY <1>4, <1>5, <1>7 DEF Account
<1>9. new \in Account
  BY <1>6, <1>8 DEF Account
<1>11. \A f \in {"role", "active"} : new[f] = IF r.to[f] # r.before[f] THEN r.to[f] ELSE now[f]
  OBVIOUS
<1> HIDE DEF new
<1>10. /\ users'[r.whom] = new /\ \A u \in User \ {r.whom} : users'[u] = users[u]
       /\ users' \in [User -> Account \cup {None}]
  BY <1>1, <1>4, <1>9, StateFacts
<1> QED BY <1>2, <1>4, <1>5, <1>9, <1>10, <1>11 DEF now

\* update_user commits.
LEMMA WritesUserStep ==
  ASSUME IInv, NEW s \in Slot, WritesUser(s)
  PROVE  IInv'
<1>1. /\ changed' = changed + 1 /\ Moves(s, "committed")
      /\ UNCHANGED <<row, history, panel, audit, answered, sent>>
  BY DEF WritesUser
<1>2. /\ request[s] # Free /\ users' \in [User -> Account \cup {None}]
      /\ \A u \in User : users[u] # None => users'[u] # None
  BY WrittenFacts, RowFacts
<1> QED BY <1>1, <1>2, UserFrame

\* create_user commits, or the name is taken.
LEMMA AddsUserStep ==
  ASSUME IInv, NEW s \in Slot, AddsUser(s)
  PROVE  IInv'
<1> DEFINE r == request[s]
<1>1. r.at = "allowed" /\ r.kind = "create" /\ UNCHANGED <<row, history, panel, audit, answered, sent>>
  BY DEF AddsUser
<1>2. r # Free /\ ReqFits(Shown, users, r)
  BY <1>1, FreeFacts, StateFacts
<1>3. r.whom \in User /\ r.to \in Account
  BY <1>1, <1>2 DEF ReqFits, CarriesIn
<1>4. CASE users[r.whom] # None /\ Ends(s, 409) /\ UNCHANGED <<users, changed>>
  <2>1. /\ request' \in [Slot -> RequestType \cup {Free}] /\ request'[s] \in RequestType
        /\ Same(request'[s], request[s]) /\ request'[s].at # "read"
        /\ \A t \in Slot \ {s} : request'[t] = request[t]
    BY <1>2, <1>4, StateFacts, EndsFacts
  <2> QED BY <1>1, <1>2, <1>4, <2>1, StateFacts, SameFrame
<1>5. CASE /\ users[r.whom] = None /\ users' = [users EXCEPT ![r.whom] = r.to]
           /\ changed' = changed + 1 /\ Moves(s, "committed")
  <2>1. /\ users' \in [User -> Account \cup {None}]
        /\ \A u \in User : users[u] # None => users'[u] # None
    BY <1>3, <1>5, StateFacts, RowFacts
  <2> QED BY <1>1, <1>2, <1>5, <2>1, UserFrame
<1> QED BY <1>4, <1>5 DEF AddsUser

\* The middleware's second transaction, or its failure.
LEMMA AuditsStep ==
  ASSUME IInv, NEW s \in Slot, Audits(s) \/ AuditFails(s)
  PROVE  IInv'
<1>1. /\ request[s] # Free /\ UNCHANGED <<row, history, users, panel, sent>>
      /\ audit' \in {audit, audit + 1} /\ changed' = changed /\ answered' = answered
      /\ Ends(s, 200) \/ Ends(s, 500)
  BY FreeFacts DEF Audits, AuditFails, counts
<1>2. /\ request' \in [Slot -> RequestType \cup {Free}] /\ request'[s] \in RequestType
      /\ Same(request'[s], request[s]) /\ request'[s].at # "read"
      /\ \A t \in Slot \ {s} : request'[t] = request[t]
  BY <1>1, StateFacts, EndsFacts
<1>3. audit' \in Nat /\ changed' \in Nat /\ answered' \in Nat
  BY <1>1, StateFacts
<1> QED BY <1>1, <1>2, <1>3, SameFrame

\* What the UPDATE of record_action writes over the row that was read: the
\* next review, with what the request carries.
LEMMA ReviewedFacts ==
  ASSUME IInv, NEW s \in Slot, WritesReview(s), Unchanged(s)
  PROVE  /\ request[s] # Free /\ request[s] \in RequestType
         /\ request[s].before = row
         /\ Reviewed(s) \in Row /\ Reviewed(s).rev = row.rev + 1
         /\ request[s].seen # None => /\ request[s].seen = row /\ Reviewed(s).vex = row.vex
                                      /\ ~request[s].chose => Reviewed(s).status = row.status
         /\ ~request[s].chose => request[s].seen # None
<1> DEFINE r == request[s]
           vex == IF r.vex = Keep THEN r.before.vex ELSE r.vex
<1>1. r.at = "read" /\ r.kind \in {"action", "vex"}
  BY DEF WritesReview, Reviewing
<1>2. r # Free /\ r \in RequestType
  BY <1>1, FreeFacts, StateFacts
<1>3. CarriesIn(Shown, r) /\ HoldsIn(Shown, r)
  BY <1>1, <1>2, StateFacts DEF ReqFits
<1>4. r.before \in Shown /\ r.expected \in {None, r.before.rev} /\ r.status \in Status
  BY <1>1, <1>3 DEF CarriesIn, HoldsIn
<1>5. r.before = row
  BY <1>4, StateFacts DEF Unchanged
<1>6. row.rev \in Nat /\ row.vex \in Vex /\ row \in Row
  BY StateFacts, RowFacts
<1>7. Reviewed(s) = [rev |-> row.rev + 1, status |-> r.status, vex |-> vex]
  BY <1>5 DEF Reviewed
<1>8. r.vex \in Vex \cup {Keep}
  BY <1>2 DEF RequestType
<1>9. vex \in Vex
  BY <1>5, <1>6, <1>8
<1>10. Reviewed(s) \in Row /\ Reviewed(s).rev = row.rev + 1 /\ Reviewed(s).status = r.status /\ Reviewed(s).vex = vex
  BY <1>4, <1>6, <1>7, <1>9 DEF Row
<1>11. ASSUME r.seen # None
       PROVE  r.seen = row /\ vex = row.vex /\ (~r.chose => r.status = row.status)
  <2>1. r.seen \in Shown /\ r.expected = r.seen.rev /\ r.vex = r.seen.vex /\ (~r.chose => r.status = r.seen.status)
    BY <1>3, <1>11 DEF CarriesIn
  <2>2. r.expected # None
    BY <2>1, StateFacts, RowFacts
  <2>3. r.seen = row
    BY <1>4, <1>5, <2>1, <2>2, StateFacts
  <2>4. r.vex = row.vex /\ r.vex # Keep
    BY <1>6, <2>1, <2>3, RowFacts
  <2> QED BY <2>1, <2>3, <2>4
<1>12. ~r.chose => r.seen # None
  BY <1>3 DEF CarriesIn
<1> HIDE DEF vex
<1> QED BY <1>2, <1>5, <1>10, <1>11, <1>12

\* record_action commits: one link more in the chain.
LEMMA ReviewedStep ==
  ASSUME IInv, NEW s \in Slot, WritesReview(s), Unchanged(s)
  PROVE  IInv'
<1> DEFINE r == request[s]
           new == Reviewed(s)
           entry == [from |-> r.before, to |-> new, by |-> r.by, seen |-> r.seen, chose |-> r.chose]
<1>1. /\ row' = new /\ history' = Append(history, entry) /\ changed' = changed + 1 /\ Moves(s, "committed")
      /\ UNCHANGED <<users, panel, audit, answered, sent>>
  BY DEF WritesReview
<1>2. /\ r # Free /\ r \in RequestType /\ r.before = row /\ new \in Row /\ new.rev = row.rev + 1
      /\ r.seen # None => /\ r.seen = row /\ new.vex = row.vex
                          /\ ~r.chose => new.status = row.status
      /\ ~r.chose => r.seen # None
  BY ReviewedFacts
<1>3. r.by \in User /\ r.seen \in Row \cup {None} /\ r.chose \in BOOLEAN
  BY <1>2 DEF RequestType
<1> HIDE DEF new
<1>4. /\ entry \in Entry /\ entry.from = row /\ entry.to = new /\ entry.seen = r.seen /\ entry.chose = r.chose
  BY <1>2, <1>3, StateFacts DEF Entry
<1> HIDE DEF entry
<1>5. history \in Seq(Entry) /\ Len(history) \in Nat
  BY StateFacts
<1>6. /\ history' \in Seq(Entry) /\ Len(history') = Len(history) + 1
      /\ DOMAIN history = 1..Len(history) /\ DOMAIN history' = 1..(Len(history) + 1)
      /\ \A i \in 1..Len(history) : history'[i] = history[i]
      /\ history'[Len(history) + 1] = entry
  BY <1>1, <1>4, <1>5
<1>7. /\ row.rev = Len(history)
      /\ \A i \in 1..Len(history) :
           /\ history[i].from.rev = i - 1 /\ history[i].to.rev = i
           /\ history[i].to = IF i = Len(history) THEN row ELSE history[i + 1].from
  BY <1>6 DEF IInv, HistoryIsAChain
<1>8. HistoryIsAChain'
  <2>1. row'.rev = Len(history')
    BY <1>1, <1>2, <1>6, <1>7
  <2>2. ASSUME NEW i \in 1..(Len(history) + 1)
        PROVE  /\ history'[i].from.rev = i - 1 /\ history'[i].to.rev = i
               /\ history'[i].to = IF i = Len(history') THEN row' ELSE history'[i + 1].from
    <3>1. CASE i = Len(history) + 1
      <4>1. history'[i] = entry /\ i = Len(history')
        BY <1>6, <3>1
      <4>2. entry.from.rev = Len(history) /\ entry.to.rev = Len(history) + 1 /\ entry.to = row'
        BY <1>1, <1>2, <1>4, <1>7
      <4>3. i - 1 = Len(history)
        BY <1>5, <3>1
      <4> QED BY <3>1, <4>1, <4>2, <4>3
    <3>2. CASE i = Len(history) /\ i # Len(history) + 1
      <4>1. i \in 1..Len(history) /\ i + 1 = Len(history) + 1
        BY <1>5, <3>2
      <4> QED BY <1>4, <1>6, <1>7, <3>2, <4>1
    <3>3. CASE i # Len(history) /\ i # Len(history) + 1
      <4>1. i \in 1..Len(history) /\ i + 1 \in 1..Len(history)
        BY <1>5, <3>3
      <4> QED BY <1>6, <1>7, <3>3, <4>1
    <3> QED BY <3>1, <3>2, <3>3
  <2> QED BY <1>6, <2>1, <2>2 DEF HistoryIsAChain
<1>9. EveryReviewIsInformed'
  <2>1. ASSUME NEW i \in 1..(Len(history) + 1), history'[i].seen # None
        PROVE  history'[i].from = history'[i].seen /\ history'[i].to.vex = history'[i].from.vex
    <3>1. CASE i = Len(history) + 1
      BY <1>2, <1>4, <1>6, <2>1, <3>1
    <3>2. CASE i # Len(history) + 1
      <4>1. i \in 1..Len(history)
        BY <1>5, <3>2
      <4> QED BY <1>6, <2>1, <4>1 DEF IInv, EveryReviewIsInformed
    <3> QED BY <3>1, <3>2
  <2> QED BY <1>6, <2>1 DEF EveryReviewIsInformed
<1>10. UntouchedStatusStays'
  <2>1. ASSUME NEW i \in 1..(Len(history) + 1), ~history'[i].chose
        PROVE  history'[i].to.status = history'[i].from.status
    <3>1. CASE i = Len(history) + 1
      BY <1>2, <1>4, <1>6, <2>1, <3>1
    <3>2. CASE i # Len(history) + 1
      <4>1. i \in 1..Len(history)
        BY <1>5, <3>2
      <4> QED BY <1>6, <2>1, <4>1 DEF IInv, UntouchedStatusStays
    <3> QED BY <3>1, <3>2
  <2> QED BY <1>6, <2>1 DEF UntouchedStatusStays
<1>11. Shown \subseteq Shown'
  <2>1. row \in Shown'
    <3>1. Len(history) + 1 \in DOMAIN history' /\ history'[Len(history) + 1].from = row
      BY <1>4, <1>5, <1>6
    <3> QED BY <3>1 DEF Shown
  <2>2. \A i \in DOMAIN history : history[i].from \in Shown'
    <3>1. \A i \in DOMAIN history : i \in DOMAIN history' /\ history'[i].from = history[i].from
      BY <1>5, <1>6
    <3> QED BY <3>1 DEF Shown
  <2> QED BY <2>1, <2>2 DEF Shown
<1>12. /\ request' \in [Slot -> RequestType \cup {Free}] /\ request'[s] \in RequestType
       /\ Same(request'[s], r) /\ request'[s].at # "read"
       /\ \A t \in Slot \ {s} : request'[t] = request[t]
  BY <1>1, <1>2, StateFacts, MovesFacts
<1>13. \A t \in Slot : ReqFits(Shown, users, request'[t])
  BY <1>2, <1>12, StateFacts, SameFits
<1>14. \A t \in Slot : ReqFits(Shown', users', request'[t])
  BY <1>1, <1>11, <1>12, <1>13, FitsOn
<1>15. \A p \in Editor : PanelFits(Shown', users', p, panel'[p])
  <2>1. \A p \in Editor : PanelFits(Shown, users, p, panel[p]) /\ panel[p] \in PanelType \cup {Closed}
    BY StateFacts
  <2> QED BY <1>1, <1>11, <2>1, FitsOn
<1>16. changed' \in Nat
  BY <1>1, StateFacts
<1>17. TypeOK'
  BY <1>1, <1>2, <1>6, <1>12, <1>16, StateFacts DEF TypeOK, Entry
<1> QED BY <1>8, <1>9, <1>10, <1>14, <1>15, <1>17, PartsNext DEF IInv

\* The UPDATE of record_action, whatever it finds.
LEMMA WritesReviewStep ==
  ASSUME IInv, NEW s \in Slot, WritesReview(s)
  PROVE  IInv'
<1>1. CASE ~Unchanged(s)
  <2>1. /\ request[s] # Free /\ UNCHANGED <<row, history, changed, users, panel, audit, answered, sent>>
        /\ Ends(s, 409)
    BY <1>1, FreeFacts DEF WritesReview
  <2>2. /\ request' \in [Slot -> RequestType \cup {Free}] /\ request'[s] \in RequestType
        /\ Same(request'[s], request[s]) /\ request'[s].at # "read"
        /\ \A t \in Slot \ {s} : request'[t] = request[t]
    BY <2>1, StateFacts, EndsFacts
  <2> QED BY <2>1, <2>2, StateFacts, SameFrame
<1> QED BY <1>1, ReviewedStep

-----------------------------------------------------------------------------
(* Panels *)

\* A panel opens over a line that was shown.
LEMMA OpensPanelStep ==
  ASSUME IInv, NEW p \in Editor, NEW finding \in Shown, OpensPanel(p, finding)
  PROVE  IInv'
<1> DEFINE h == [open |-> TRUE, current |-> finding, known |-> finding, rev |-> finding.rev,
                 status |-> finding.status, ready |-> FALSE, conflict |-> None, touched |-> FALSE,
                 typed |-> FALSE, saving |-> "no", load |-> [at |-> "asked"]]
<1>1. finding \in Row /\ finding.rev \in Nat /\ finding.status \in Status
  BY StateFacts, RowFacts
<1>2. h \in PanelType
  BY <1>1 DEF PanelType
<1>3. /\ panel' = [panel EXCEPT ![p] = h] /\ users[EditorOf[p]] # None
      /\ UNCHANGED <<row, history, users, request, counts, sent>>
  BY DEF OpensPanel, ActiveAdmin
<1>4. PanelFits(Shown, users, p, h)
  BY <1>3 DEF PanelFits
<1> HIDE DEF h
<1> QED BY <1>2, <1>3, <1>4, PanelFrame

\* A panel is left: what it asked for goes on without it.
LEMMA ClosesPanelStep ==
  ASSUME IInv, NEW p \in Editor, ClosesPanel(p)
  PROVE  IInv'
<1>1. /\ panel' = [panel EXCEPT ![p] = Closed] /\ request' = Forget(p)
      /\ UNCHANGED <<row, history, users, counts, sent>>
  BY DEF ClosesPanel
<1>2. \A s \in Slot : request[s] # Free => /\ [request[s] EXCEPT !.for = None] \in RequestType
                                           /\ Same([request[s] EXCEPT !.for = None], request[s])
                                           /\ [request[s] EXCEPT !.for = None].at = request[s].at
  BY StateFacts DEF RequestType, Same
<1>3. \A s \in Slot : request'[s] \in {request[s], [request[s] EXCEPT !.for = None]}
                      /\ (request[s] = Free => request'[s] = Free)
  BY <1>1 DEF Forget
<1>4. \A s \in Slot : request'[s] \in RequestType \cup {Free}
  BY <1>2, <1>3, StateFacts
<1>5. request' \in [Slot -> RequestType \cup {Free}]
  BY <1>1, <1>4 DEF Forget
<1>6. \A s \in Slot : request'[s] = request[s] \/ ReqFits(Shown, users, request'[s])
  <2>1. ASSUME NEW s \in Slot, request'[s] # request[s] PROVE ReqFits(Shown, users, request'[s])
    <3>1. /\ request[s] # Free /\ request[s] \in RequestType /\ request'[s] \in RequestType
          /\ Same(request'[s], request[s]) /\ request'[s].at = request[s].at
      BY <1>2, <1>3, <2>1, StateFacts
    <3> QED BY <3>1, StateFacts, SameFits
  <2> QED BY <2>1
<1>7. /\ panel' \in [Editor -> PanelType \cup {Closed}]
      /\ \A q \in Editor : panel'[q] = panel[q] \/ PanelFits(Shown, users, q, panel'[q])
  BY <1>1, StateFacts, ClosedFacts
<1>8. TypeOK'
  BY <1>1, <1>5, <1>7 DEF IInv, TypeOK, counts
<1> QED BY <1>1, <1>6, <1>7, <1>8, StepFrame

\* One field of a panel that no part of the invariant is about.
LEMMA FieldFits ==
  ASSUME NEW S, NEW us, NEW p, NEW h \in PanelType, PanelFits(S, us, p, h)
  PROVE  /\ \A x : PanelFits(S, us, p, [h EXCEPT !.saving = x])
         /\ \A x : PanelFits(S, us, p, [h EXCEPT !.ready = x])
         /\ \A x : PanelFits(S, us, p, [h EXCEPT !.typed = x])
         /\ PanelFits(S, us, p, [h EXCEPT !.load = [at |-> "asked"]])
         /\ \A x \in S : PanelFits(S, us, p, [h EXCEPT !.load = [at |-> "read", row |-> x]])
  BY DEF PanelFits, PanelType

\* A load is over, whatever became of it.
LEMMA SettledFits ==
  ASSUME NEW S, NEW us, NEW p, NEW h \in PanelType, PanelFits(S, us, p, h)
  PROVE  PanelFits(S, us, p, Settled(h))
<1>1. NoLoad.at # "read"
  BY DEF NoLoad
<1>2. h.open = TRUE
  BY DEF PanelType
<1> DEFINE done == Settled(h)
<1>3. /\ done \in PanelType /\ done.load = NoLoad
      /\ done.current = h.current /\ done.known = h.known /\ done.rev = h.rev
      /\ done.status = h.status /\ done.ready = h.ready /\ done.conflict = h.conflict
      /\ done.touched = h.touched /\ done.typed = h.typed
  BY SettledFacts
<1> HIDE DEF done
<1>4. PanelFits(S, us, p, done)
  BY <1>1, <1>2, <1>3 DEF PanelFits
<1> QED BY <1>4 DEF done

\* Every step of one panel, but for opening, closing and saving.
LEMMA BrowsesStep ==
  ASSUME IInv, NEW p \in Editor,
         \/ ServesReview(p) \/ GetsReview(p) \/ LosesReview(p) \/ Refreshes(p)
         \/ \E status \in Status : PicksStatus(p, status)
         \/ TypesNote(p) \/ Acknowledges(p)
  PROVE  IInv'
<1> DEFINE h == panel[p]
<1>1. h.open /\ UNCHANGED <<row, history, users, request, counts, sent>>
  BY DEF ServesReview, GetsReview, LosesReview, Refreshes, PicksStatus, TypesNote, Acknowledges, Editable
<1>2. h \in PanelType /\ PanelFits(Shown, users, p, h)
  BY <1>1, StateFacts, PanelFacts
<1>3. /\ Shown \in SUBSET Row /\ row \in Shown /\ row \in Row
      /\ \A x, y \in Shown : x.rev = y.rev => x = y
  BY StateFacts
<1>4. CASE ServesReview(p)
  <2> DEFINE load == [at |-> "read", row |-> row]
             new == [h EXCEPT !.load = load]
  <2>1. panel' = [panel EXCEPT ![p] = new]
    BY <1>4 DEF ServesReview
  <2>2. load \in {NoLoad, [at |-> "asked"]} \cup [at : {"read"}, row : Row]
    BY <1>3
  <2>3. new \in PanelType /\ PanelFits(Shown, users, p, new)
    BY <1>2, <1>3, <2>2, FieldFacts, FieldFits
  <2> HIDE DEF new
  <2> QED BY <1>1, <2>1, <2>3, PanelFrame
<1>5. CASE GetsReview(p)
  <2> DEFINE latest == h.load.row
             known == IF Drafting(p) THEN h.known ELSE latest
             got == Settled(Received(h, latest))
             new == [got EXCEPT !.known = known]
  <2>1. h.load.at = "read" /\ latest \in Shown
    BY <1>1, <1>2, <1>5 DEF GetsReview, PanelFits
  <2>2. panel' = [panel EXCEPT ![p] = [got EXCEPT !.known = IF Drafting(p) THEN @ ELSE latest]]
    BY <1>5 DEF GetsReview
  <2>3. got \in PanelType /\ got.known = h.known
    <3>1. Received(h, latest) \in PanelType /\ Received(h, latest).known = h.known
      <4>1. latest \in Row
        BY <1>3, <2>1
      <4>2. CASE latest.rev # h.rev /\ (h.touched \/ h.typed)
        <5> DEFINE h1 == [h EXCEPT !.current = latest]
                   h2 == [h1 EXCEPT !.ready = TRUE]
        <5>1. h1 \in PanelType /\ h1.known = h.known
          BY <1>2, <4>1 DEF PanelType
        <5>2. Received(h, latest) = [h2 EXCEPT !.conflict = latest]
          BY <4>2 DEF Received
        <5> HIDE DEF h1
        <5>3. h2 \in PanelType /\ h2.known = h.known
          BY <5>1 DEF PanelType
        <5> HIDE DEF h2
        <5> QED BY <4>1, <5>2, <5>3 DEF PanelType
      <4>3. CASE ~(latest.rev # h.rev /\ (h.touched \/ h.typed))
        BY <1>2, <4>1, <4>3, AdoptFacts DEF Received
      <4> QED BY <4>2, <4>3
    <3> QED BY <3>1, SettledFacts
  <2> HIDE DEF got
  <2>4. [got EXCEPT !.known = IF Drafting(p) THEN @ ELSE latest] = new
    BY <2>3 DEF PanelType
  <2>5. known = IF h.touched \/ h.typed THEN h.known ELSE latest
    BY DEF Drafting
  <2> HIDE DEF known
  <2>6. new \in PanelType /\ PanelFits(Shown, users, p, new)
    BY <1>2, <1>3, <2>1, <2>5, ReceivedFits DEF got
  <2> HIDE DEF new
  <2> QED BY <1>1, <2>2, <2>4, <2>6, PanelFrame
<1>6. CASE LosesReview(p)
  <2> DEFINE failed == [h EXCEPT !.ready = FALSE]
             new == Settled(failed)
  <2>1. panel' = [panel EXCEPT ![p] = new]
    BY <1>6 DEF LosesReview
  <2>2. failed \in PanelType /\ PanelFits(Shown, users, p, failed)
    BY <1>2, FieldFacts, FieldFits
  <2> HIDE DEF failed
  <2>3. new \in PanelType /\ PanelFits(Shown, users, p, new)
    BY <2>2, SettledFacts, SettledFits
  <2> HIDE DEF new
  <2> QED BY <1>1, <2>1, <2>3, PanelFrame
<1>7. CASE Refreshes(p)
  <2> DEFINE new == [h EXCEPT !.load = [at |-> "asked"]]
  <2>1. panel' = [panel EXCEPT ![p] = new]
    BY <1>7 DEF Refreshes
  <2>2. new \in PanelType /\ PanelFits(Shown, users, p, new)
    BY <1>2, FieldFacts, FieldFits
  <2> HIDE DEF new
  <2> QED BY <1>1, <2>1, <2>2, PanelFrame
<1>8. CASE \E status \in Status : PicksStatus(p, status)
  <2>1. PICK status \in Status : PicksStatus(p, status)
    BY <1>8
  <2> DEFINE picked == [h EXCEPT !.status = status]
             new == [picked EXCEPT !.touched = TRUE]
             once == [panel EXCEPT ![p] = picked]
  <2>2. panel' = [once EXCEPT ![p] = [once[p] EXCEPT !.touched = TRUE]] /\ once[p] = picked
    BY <2>1, StateFacts DEF PicksStatus
  <2>3. /\ picked \in PanelType /\ picked.known = h.known /\ picked.rev = h.rev /\ picked.current = h.current
        /\ picked.conflict = h.conflict /\ picked.load = h.load
    BY <1>2 DEF PanelType
  <2> HIDE DEF picked
  <2>4. /\ new \in PanelType /\ new.known = h.known /\ new.rev = h.rev /\ new.current = h.current
        /\ new.conflict = h.conflict /\ new.load = h.load /\ new.touched
    BY <2>3 DEF PanelType
  <2>5. panel' = [once EXCEPT ![p] = new]
    BY <2>2
  <2> HIDE DEF new
  <2>6. panel' = [panel EXCEPT ![p] = new]
    <3>1. DOMAIN panel' = DOMAIN panel /\ panel'[p] = new /\ \A q \in Editor \ {p} : panel'[q] = panel[q]
      BY <2>5, StateFacts
    <3>2. panel' \in [Editor -> PanelType \cup {Closed}]
      BY <2>3, <2>4, <2>5, StateFacts
    <3> QED BY <3>1, <3>2, StateFacts
  <2>7. PanelFits(Shown, users, p, new)
    BY <1>1, <1>2, <2>4 DEF PanelFits
  <2> QED BY <1>1, <2>4, <2>6, <2>7, PanelFrame
<1>9. CASE TypesNote(p)
  <2> DEFINE new == [h EXCEPT !.typed = TRUE]
  <2>1. panel' = [panel EXCEPT ![p] = new]
    BY <1>9 DEF TypesNote
  <2>2. new \in PanelType /\ PanelFits(Shown, users, p, new)
    BY <1>2, FieldFacts, FieldFits
  <2> HIDE DEF new
  <2> QED BY <1>1, <2>1, <2>2, PanelFrame
<1>10. CASE Acknowledges(p)
  <2> DEFINE latest == h.conflict
             adopted == Adopt(h, latest)
             new == [adopted EXCEPT !.known = latest]
  <2>1. panel' = [panel EXCEPT ![p] = new] /\ latest # None
    BY <1>10 DEF Acknowledges
  <2>2. latest \in Shown /\ latest \in Row
    BY <1>1, <1>2, <1>3, <2>1 DEF PanelFits
  <2>3. /\ adopted \in PanelType
        /\ adopted.current = latest /\ adopted.rev = latest.rev /\ adopted.conflict = None
        /\ adopted.status = IF h.touched THEN h.status ELSE latest.status
        /\ adopted.touched = h.touched /\ adopted.load = h.load
    BY <1>2, <2>2, AdoptFacts
  <2> HIDE DEF adopted
  <2>4. /\ new \in PanelType /\ new.known = latest
        /\ new.current = latest /\ new.rev = latest.rev /\ new.conflict = None
        /\ new.status = IF h.touched THEN h.status ELSE latest.status
        /\ new.touched = h.touched /\ new.load = h.load
    BY <2>2, <2>3 DEF PanelType
  <2> HIDE DEF new
  <2>5. PanelFits(Shown, users, p, new)
    BY <1>1, <1>2, <2>2, <2>4 DEF PanelFits
  <2> QED BY <1>1, <2>1, <2>4, <2>5, PanelFrame
<1> QED BY <1>4, <1>5, <1>6, <1>7, <1>8, <1>9, <1>10

\* A panel saves: what it sends names the review its editor began from.
LEMMA SavesStep ==
  ASSUME IInv, NEW p \in Editor, NEW s \in Slot, Saves(p, s)
  PROVE  IInv'
<1> DEFINE h == panel[p]
           r0 == Asked("action", EditorOf[p], p)
           r1 == [r0 EXCEPT !.expected = h.rev]
           r2 == [r1 EXCEPT !.status = h.status]
           r3 == [r2 EXCEPT !.vex = h.current.vex]
           r4 == [r3 EXCEPT !.seen = h.known]
           r5 == [r4 EXCEPT !.chose = h.touched]
           new == [h EXCEPT !.saving = "request"]
<1>1. /\ h.open /\ h.conflict = None
      /\ Sends(s, r5) /\ panel' = [panel EXCEPT ![p] = new]
      /\ UNCHANGED <<row, history, users, counts>>
  BY DEF Saves, Editable
<1>2. h \in PanelType /\ PanelFits(Shown, users, p, h)
  BY <1>1, StateFacts, PanelFacts
<1>3. /\ h.rev \in Nat /\ h.status \in Status /\ h.touched \in BOOLEAN
      /\ users[EditorOf[p]] # None /\ h.known \in Shown /\ h.known \in Row
      /\ h.rev = h.known.rev /\ h.current = h.known /\ (~h.touched => h.status = h.known.status)
  BY <1>1, <1>2, PanelFacts DEF PanelFits
<1>4. h.current.vex \in Vex /\ h.known # None
  BY <1>3, RowFacts
<1>5. r0 \in RequestType /\ r0.at = "sent" /\ r0.kind = "action" /\ r0.by = EditorOf[p]
  BY ReviewsAssumption, AskedFacts
<1>6. new \in PanelType /\ PanelFits(Shown, users, p, new)
  BY <1>2, FieldFacts, FieldFits
<1> HIDE DEF r0, new
<1>7. r1 \in RequestType /\ r1.at = "sent" /\ r1.kind = "action" /\ r1.by = EditorOf[p] /\ r1.expected = h.rev
  BY <1>3, <1>5 DEF RequestType
<1> HIDE DEF r1
<1>8. /\ r2 \in RequestType /\ r2.at = "sent" /\ r2.kind = "action" /\ r2.by = EditorOf[p] /\ r2.expected = h.rev
      /\ r2.status = h.status
  BY <1>3, <1>7 DEF RequestType
<1> HIDE DEF r2
<1>9. /\ r3 \in RequestType /\ r3.at = "sent" /\ r3.kind = "action" /\ r3.by = EditorOf[p] /\ r3.expected = h.rev
      /\ r3.status = h.status /\ r3.vex = h.current.vex
  BY <1>4, <1>8 DEF RequestType
<1> HIDE DEF r3
<1>10. /\ r4 \in RequestType /\ r4.at = "sent" /\ r4.kind = "action" /\ r4.by = EditorOf[p] /\ r4.expected = h.rev
       /\ r4.status = h.status /\ r4.vex = h.current.vex /\ r4.seen = h.known
  BY <1>3, <1>9 DEF RequestType
<1> HIDE DEF r4
<1>11. /\ r5 \in RequestType /\ r5.at = "sent" /\ r5.kind = "action" /\ r5.by = EditorOf[p] /\ r5.expected = h.rev
       /\ r5.status = h.status /\ r5.vex = h.current.vex /\ r5.seen = h.known /\ r5.chose = h.touched
  BY <1>3, <1>10 DEF RequestType
<1> HIDE DEF r5
<1>12. CarriesIn(Shown, r5)
  BY <1>3, <1>4, <1>11 DEF CarriesIn
<1>13. ReqFits(Shown, users, r5)
  BY <1>3, <1>11, <1>12 DEF ReqFits
<1>14. /\ request' \in [Slot -> RequestType \cup {Free}] /\ request'[s] = r5 /\ sent' \in 0..MaxRequests
       /\ \A q \in Slot \ {s} : request'[q] = request[q]
  BY <1>1, <1>11, SendsFacts DEF IInv
<1>15. /\ panel' \in [Editor -> PanelType \cup {Closed}] /\ panel'[p] = new
       /\ \A q \in Editor \ {p} : panel'[q] = panel[q]
  BY <1>1, <1>6, StateFacts
<1>16. TypeOK'
  BY <1>1, <1>14, <1>15 DEF IInv, TypeOK, counts
<1>17. users' = users
  BY <1>1
<1> QED BY <1>1, <1>6, <1>13, <1>14, <1>15, <1>16, <1>17, StepFrame

\* A panel hears of its request: it closes, looks again, or may save again.
\* A panel that was left stays closed.
LEMMA ToldFits ==
  ASSUME NEW S, NEW us, NEW p \in Editor, NEW h \in PanelType \cup {Closed}, PanelFits(S, us, p, h)
  PROVE  /\ \A x \in {"no", "request", "refresh"} :
              /\ [h EXCEPT !.saving = x] \in PanelType \cup {Closed}
              /\ PanelFits(S, us, p, [h EXCEPT !.saving = x])
         /\ [h EXCEPT !.saving = "refresh", !.load = [at |-> "asked"]] \in PanelType \cup {Closed}
         /\ PanelFits(S, us, p, [h EXCEPT !.saving = "refresh", !.load = [at |-> "asked"]])
<1>1. CASE h = Closed
  <2>1. \A x : [Closed EXCEPT !.saving = x] = Closed
    BY DEF Closed
  <2>2. [Closed EXCEPT !.load = [at |-> "asked"]] = Closed
    BY DEF Closed
  <2>3. [h EXCEPT !.saving = "refresh", !.load = [at |-> "asked"]] = Closed
    BY <1>1, <2>1, <2>2
  <2> QED BY <1>1, <2>1, <2>3, ClosedFacts
<1>2. CASE h \in PanelType
  <2> DEFINE asked == [h EXCEPT !.saving = "refresh"]
  <2>1. /\ \A x \in {"no", "request", "refresh"} : [h EXCEPT !.saving = x] \in PanelType
        /\ \A x : PanelFits(S, us, p, [h EXCEPT !.saving = x])
    BY <1>2, FieldFacts, FieldFits
  <2>2. asked \in PanelType /\ PanelFits(S, us, p, asked)
    BY <2>1
  <2> HIDE DEF asked
  <2>3. /\ [asked EXCEPT !.load = [at |-> "asked"]] \in PanelType
        /\ PanelFits(S, us, p, [asked EXCEPT !.load = [at |-> "asked"]])
    BY <2>2, FieldFacts, FieldFits
  <2> QED BY <2>1, <2>3 DEF asked
<1> QED BY <1>1, <1>2

\* The answer arrives.
LEMMA AnswersStep ==
  ASSUME IInv, NEW s \in Slot, Answers(s)
  PROVE  IInv'
<1> DEFINE p == request[s].for
           h == panel[p]
<1>1. /\ request[s].at = "done" /\ request' = [request EXCEPT ![s] = Free]
      /\ answered' = answered + (IF request[s].code = 200 THEN 1 ELSE 0)
      /\ UNCHANGED <<row, history, users, audit, changed, sent>>
  BY DEF Answers
<1>2. request[s] # Free /\ p \in Editor \cup {None}
  BY <1>1, FreeFacts, StateFacts, RequestFacts
<1>3. /\ request' \in [Slot -> RequestType \cup {Free}]
      /\ \A q \in Slot : request'[q] = request[q] \/ request'[q] = Free
  BY <1>1, StateFacts
<1>4. \A q \in Slot : request'[q] = request[q] \/ ReqFits(Shown, users', request'[q])
  BY <1>3 DEF ReqFits
<1>5. answered' \in Nat
  BY <1>1, StateFacts
<1>6. /\ panel' \in [Editor -> PanelType \cup {Closed}]
      /\ \A q \in Editor : panel'[q] = panel[q] \/ PanelFits(Shown, users, q, panel'[q])
  <2>1. CASE p = None
    BY <2>1, StateFacts DEF Answers
  <2>2. CASE p # None
    <3>1. p \in Editor /\ h \in PanelType \cup {Closed} /\ PanelFits(Shown, users, p, h)
      BY <1>2, <2>2, StateFacts
    <3>2. PICK x \in PanelType \cup {Closed} : panel' = [panel EXCEPT ![p] = x] /\ PanelFits(Shown, users, p, x)
      <4>1. CASE request[s].code = 200
        <5>1. panel' = [panel EXCEPT ![p] = Closed]
          BY <2>2, <4>1 DEF Answers
        <5> QED BY <3>1, <5>1, ClosedFacts
      <4>2. CASE request[s].code = 409
        <5> DEFINE x == [h EXCEPT !.saving = "refresh", !.load = [at |-> "asked"]]
                   one == [h EXCEPT !.saving = "refresh"]
                   once == [panel EXCEPT ![p] = one]
        <5>1. panel' = [panel EXCEPT ![p].saving = "refresh", ![p].load = [at |-> "asked"]]
          BY <2>2, <4>2 DEF Answers
        <5>2. panel' = [once EXCEPT ![p] = [once[p] EXCEPT !.load = [at |-> "asked"]]] /\ once[p] = one
          BY <3>1, <5>1, StateFacts
        <5>3. panel' = [once EXCEPT ![p] = x]
          BY <5>2
        <5>4. x \in PanelType \cup {Closed} /\ PanelFits(Shown, users, p, x) /\ one \in PanelType \cup {Closed}
          BY <3>1, ToldFits
        <5> HIDE DEF x, one
        <5>5. DOMAIN panel' = Editor /\ panel'[p] = x /\ \A q \in Editor \ {p} : panel'[q] = panel[q]
          BY <3>1, <5>3, StateFacts
        <5>6. panel' \in [Editor -> PanelType \cup {Closed}]
          BY <3>1, <5>3, <5>4, StateFacts
        <5>7. panel' = [panel EXCEPT ![p] = x]
          BY <3>1, <5>4, <5>5, <5>6, StateFacts
        <5> QED BY <5>4, <5>7
      <4>3. CASE request[s].code \notin {200, 409}
        <5> DEFINE x == [h EXCEPT !.saving = "no"]
        <5>1. panel' = [panel EXCEPT ![p] = x]
          BY <2>2, <4>3 DEF Answers
        <5>2. x \in PanelType \cup {Closed} /\ PanelFits(Shown, users, p, x)
          BY <3>1, ToldFits
        <5> HIDE DEF x
        <5> QED BY <5>1, <5>2
      <4> QED BY <4>1, <4>2, <4>3
    <3> QED BY <3>1, <3>2, StateFacts
  <2> QED BY <2>1, <2>2
<1>7. TypeOK'
  BY <1>1, <1>3, <1>5, <1>6 DEF IInv, TypeOK
<1>8. \A q \in Editor : panel'[q] = panel[q] \/ PanelFits(Shown, users', q, panel'[q])
  BY <1>1, <1>6
<1> QED BY <1>1, <1>4, <1>7, <1>8, StepFrame

\* A connection breaks.
LEMMA DisconnectsStep ==
  ASSUME IInv, NEW s \in Slot, Disconnects(s)
  PROVE  IInv'
<1> DEFINE p == request[s].for
           q == [request[s] EXCEPT !.for = None]
           x == [panel[p] EXCEPT !.saving = "no"]
<1>1. /\ request[s] # Free /\ p # None /\ request' = [request EXCEPT ![s] = q]
      /\ panel' = [panel EXCEPT ![p] = x]
      /\ UNCHANGED <<row, history, users, counts, sent>>
  BY DEF Disconnects
<1>2. p \in Editor /\ request[s] \in RequestType
  BY <1>1, StateFacts, RequestFacts
<1>3. q \in RequestType /\ Same(q, request[s]) /\ q.at = request[s].at
  BY <1>2 DEF RequestType, Same
<1>4. x \in PanelType \cup {Closed} /\ PanelFits(Shown, users, p, x)
  BY <1>2, StateFacts, ToldFits
<1> HIDE DEF q, x
<1>5. ReqFits(Shown, users, q)
  BY <1>2, <1>3, StateFacts, SameFits
<1>6. /\ request' \in [Slot -> RequestType \cup {Free}]
      /\ \A t \in Slot : request'[t] = request[t] \/ ReqFits(Shown, users', request'[t])
  BY <1>1, <1>3, <1>5, StateFacts
<1>7. /\ panel' \in [Editor -> PanelType \cup {Closed}]
      /\ \A e \in Editor : panel'[e] = panel[e] \/ PanelFits(Shown, users', e, panel'[e])
  BY <1>1, <1>2, <1>4, StateFacts
<1>8. TypeOK'
  BY <1>1, <1>6, <1>7 DEF IInv, TypeOK, counts
<1> QED BY <1>1, <1>6, <1>7, <1>8, StepFrame

\* The API starts again.
LEMMA RestartsStep ==
  ASSUME IInv, Restarts
  PROVE  IInv'
<1>1. /\ request' = [s \in Slot |-> Free]
      /\ panel' = [p \in Editor |-> IF panel[p].open /\ panel[p].saving = "request"
                                      THEN [panel[p] EXCEPT !.saving = "no"] ELSE panel[p]]
      /\ UNCHANGED <<row, history, users, counts, sent>>
  BY DEF Restarts
<1>2. /\ request' \in [Slot -> RequestType \cup {Free}]
      /\ \A t \in Slot : ReqFits(Shown, users', request'[t])
  BY <1>1 DEF ReqFits
<1>3. \A p \in Editor : /\ [panel[p] EXCEPT !.saving = "no"] \in PanelType \cup {Closed}
                        /\ PanelFits(Shown, users, p, [panel[p] EXCEPT !.saving = "no"])
  BY StateFacts, ToldFits
<1>4. \A p \in Editor : panel'[p] = panel[p] \/ panel'[p] = [panel[p] EXCEPT !.saving = "no"]
  BY <1>1
<1>5. /\ \A p \in Editor : panel'[p] \in PanelType \cup {Closed}
      /\ \A p \in Editor : panel'[p] = panel[p] \/ PanelFits(Shown, users', p, panel'[p])
  BY <1>1, <1>3, <1>4, StateFacts
<1>6. panel' \in [Editor -> PanelType \cup {Closed}]
  BY <1>1, <1>5
<1>7. TypeOK'
  BY <1>1, <1>2, <1>6 DEF IInv, TypeOK, counts
<1> QED BY <1>1, <1>2, <1>5, <1>7, StepFrame

-----------------------------------------------------------------------------
(* The invariant *)

\* The invariant holds at the start.
LEMMA InitInv == Init => IInv
<1> SUFFICES ASSUME Init PROVE IInv
  OBVIOUS
<1>1. row = [rev |-> 0, status |-> "AFFECTED", vex |-> None] /\ history = <<>>
  BY DEF Init
<1>2. row \in Row /\ row.rev = 0
  BY <1>1, ReviewsAssumption DEF Row
<1>3. [role |-> "ADMIN", active |-> TRUE] \in Account
  BY DEF Account
<1>4. users \in [User -> Account \cup {None}]
  BY <1>3 DEF Init
<1>5. history \in Seq(Entry) /\ Len(history) = 0 /\ DOMAIN history = {}
  BY <1>1
<1>6. TypeOK
  BY <1>2, <1>4, <1>5, ReviewsAssumption DEF Init, TypeOK, Entry
<1>7. HistoryIsAChain /\ EveryReviewIsInformed /\ UntouchedStatusStays
  BY <1>2, <1>5 DEF HistoryIsAChain, EveryReviewIsInformed, UntouchedStatusStays
<1>8. RequestInv
  BY DEF Init, RequestInv
<1>9. PanelInv
  BY DEF Init, PanelInv, Closed
<1> QED BY <1>6, <1>7, <1>8, <1>9 DEF IInv

\* Every step keeps it.
LEMMA StepInv == IInv /\ [Next]_vars => IInv'
<1> SUFFICES ASSUME IInv, [Next]_vars PROVE IInv'
  OBVIOUS
<1>1. CASE Sending
  BY <1>1, ScriptReviewsStep, ChangesUserStep, CreatesUserStep DEF Sending
<1>2. CASE Serving
  BY <1>2, AuthenticateStep, ReadsReviewStep, WritesReviewStep, ReadsUserStep, WritesUserStep, AddsUserStep,
     AuditsStep, AnswersStep, DisconnectsStep DEF Serving
<1>3. CASE Browsing
  BY <1>3, OpensPanelStep, ClosesPanelStep, BrowsesStep, SavesStep DEF Browsing
<1>4. CASE Restarts
  BY <1>4, RestartsStep
<1>5. CASE UNCHANGED vars
  <2>1. UNCHANGED <<row, history, users, request, panel, audit, changed, answered, sent>>
    BY <1>5 DEF vars
  <2>2. TypeOK'
    BY <2>1 DEF IInv, TypeOK
  <2> QED BY <2>1, <2>2, StepFrame
<1> QED BY <1>1, <1>2, <1>3, <1>4, <1>5 DEF Next

\* The invariant of the proofs: the history is one chain that ends in the row,
\* and every request and panel carries what it was shown
\* (vulnerability_actions.py:76).
THEOREM Invariance == Spec => []IInv
  BY InitInv, StepInv, PTL DEF Spec

\* What a panel saves answers the very review its editor began from or
\* acknowledged, and leaves the justification alone (VulnerabilityActions.jsx:81).
THEOREM Informed == Spec => []EveryReviewIsInformed
<1>1. IInv => EveryReviewIsInformed
  BY DEF IInv
<1> QED BY <1>1, Invariance, PTL

-----------------------------------------------------------------------------
(* Accounts *)

\* Accounts change where update_user or create_user commits.
LEMMA UsersChange ==
  ASSUME [Next]_vars, users' # users
  PROVE  \E s \in Slot : WritesUser(s) \/ AddsUser(s)
<1>1. ~Sending /\ ~Browsing /\ ~Restarts /\ vars' # vars
  BY DEF Sending, ScriptReviews, ChangesUser, CreatesUser, Browsing, OpensPanel, ClosesPanel, ServesReview,
         GetsReview, LosesReview, Refreshes, PicksStatus, TypesNote, Acknowledges, Saves, Restarts, vars
<1>2. Serving
  BY <1>1 DEF Next
<1> QED BY <1>2 DEF Serving, Authenticate, ReadsReview, WritesReview, ReadsUser, Audits, AuditFails, Answers,
                    Disconnects

\* A column takes one of two values: what is written over another value, and
\* differs from what was read, replaces what was read.
LEMMA UndoesNothing ==
  ASSUME IInv, [Next]_vars, NEW u \in User, users[u] # None
  PROVE  /\ users'[u] # None
         /\ \A f \in {"role", "active"} : users'[u][f] # users[u][f] =>
              \E s \in Slot : /\ request[s].at = "read" /\ request[s].kind = "user"
                             /\ request[s].whom = u
                             /\ request[s].before[f] = users[u][f] /\ request[s].to[f] = users'[u][f]
<1>1. CASE users' = users
  BY <1>1
<1>2. CASE users' # users
  <2>1. PICK s \in Slot : WritesUser(s) \/ AddsUser(s)
    BY <1>2, UsersChange
  <2> DEFINE r == request[s]
  <2>2. CASE AddsUser(s)
    <3>1. users' = users \/ (users[r.whom] = None /\ users' = [users EXCEPT ![r.whom] = r.to])
      BY <2>2 DEF AddsUser
    <3>2. users'[u] = users[u]
      BY <3>1, StateFacts
    <3> QED BY <3>2
  <2>3. CASE WritesUser(s) /\ r.whom # u
    <3>1. users'[u] = users[u]
      BY <2>3, WrittenFacts
    <3> QED BY <3>1
  <2>4. CASE WritesUser(s) /\ r.whom = u
    <3>1. r.at = "read" /\ r.kind = "user"
      BY <2>4 DEF WritesUser
    <3>2. users[u] \in Account /\ users'[u] \in Account /\ r.to \in Account /\ r.before \in Account
      BY <2>4, WrittenFacts
    <3>3. users'[u] # None
      BY <3>2, ReviewsAssumption
    <3>4. ASSUME NEW f \in {"role", "active"}, users'[u][f] # users[u][f]
          PROVE  r.before[f] = users[u][f] /\ r.to[f] = users'[u][f]
      <4>1. users'[u][f] = IF r.to[f] # r.before[f] THEN r.to[f] ELSE users[u][f]
        BY <2>4, WrittenFacts
      <4>2. r.to[f] # r.before[f] /\ users'[u][f] = r.to[f]
        BY <3>4, <4>1
      <4>3. CASE f = "role"
        BY <3>2, <3>4, <4>2, <4>3 DEF Account
      <4>4. CASE f = "active"
        BY <3>2, <3>4, <4>2, <4>4 DEF Account
      <4> QED BY <4>3, <4>4
    <3> QED BY <2>4, <3>1, <3>3, <3>4
  <2> QED BY <2>1, <2>2, <2>3, <2>4
<1> QED BY <1>1, <1>2

\* Requests of several administrators that overlap on one account do not undo
\* each other (update_user writes the columns that differ from what it read).
THEOREM AccountsKeepChanges == Spec => ChangesUndoNothing
<1>1. IInv /\ [Next]_vars =>
        [\A u \in User : users[u] # None =>
           /\ users'[u] # None
           /\ \A f \in {"role", "active"} : users'[u][f] # users[u][f] =>
                \E s \in Slot : /\ request[s].at = "read" /\ request[s].kind = "user"
                               /\ request[s].whom = u
                               /\ request[s].before[f] = users[u][f] /\ request[s].to[f] = users'[u][f]]_vars
  BY UndoesNothing
<1> QED BY <1>1, Invariance, PTL DEF Spec, ChangesUndoNothing

-----------------------------------------------------------------------------
(* What is audited, and who is told *)

\* Requests whose change is committed and not audited yet, and requests whose
\* change is audited and whose caller was not told yet.
Owing == {s \in Slot : request[s].at = "committed"}
Told  == {s \in Slot : request[s].at = "done" /\ request[s].code = 200}

\* Each change that is committed is audited once at most, and each audited
\* change is told once at most.
AuditInv ==
  /\ IsFiniteSet(Owing) /\ IsFiniteSet(Told)
  /\ answered + Cardinality(Told) <= audit
  /\ audit + Cardinality(Owing) <= changed

\* Sets of slots are finite, and count.
LEMMA SlotCount ==
  ASSUME NEW S \in SUBSET Slot
  PROVE  IsFiniteSet(S) /\ Cardinality(S) \in Nat
<1>1. IsFiniteSet(S)
  BY ReviewsAssumption, FS_Subset
<1> QED BY <1>1, FS_CardinalityType

\* A smaller set counts less.
LEMMA FewerCount ==
  ASSUME NEW S \in SUBSET Slot, NEW T \in SUBSET S
  PROVE  Cardinality(T) <= Cardinality(S)
  BY SlotCount, FS_Subset

\* One slot more, or one fewer.
LEMMA OneMoreCount ==
  ASSUME NEW S \in SUBSET Slot, NEW T \in SUBSET Slot, NEW s \in Slot, S \subseteq T \cup {s}
  PROVE  Cardinality(S) <= Cardinality(T) + 1
<1>1. IsFiniteSet(T) /\ Cardinality(T) \in Nat /\ T \cup {s} \in SUBSET Slot
  BY SlotCount
<1>2. Cardinality(T \cup {s}) <= Cardinality(T) + 1
  BY <1>1, FS_AddElement
<1>3. Cardinality(S) <= Cardinality(T \cup {s}) /\ Cardinality(S) \in Nat /\ Cardinality(T \cup {s}) \in Nat
  BY <1>1, FewerCount, SlotCount
<1> QED BY <1>1, <1>2, <1>3

\* A slot less counts one less.
LEMMA OneFewerCount ==
  ASSUME NEW S \in SUBSET Slot, NEW T \in SUBSET Slot, NEW s \in T, S \subseteq T \ {s}
  PROVE  Cardinality(S) + 1 <= Cardinality(T)
<1>1. IsFiniteSet(T) /\ Cardinality(T) \in Nat
  BY SlotCount
<1>2. Cardinality(T \ {s}) = Cardinality(T) - 1
  BY <1>1, FS_RemoveElement
<1>3. Cardinality(S) <= Cardinality(T \ {s}) /\ Cardinality(S) \in Nat /\ Cardinality(T \ {s}) \in Nat
  BY FewerCount, SlotCount
<1> QED BY <1>1, <1>2, <1>3

\* The counters, and what is owed, as numbers.
LEMMA CountFacts ==
  ASSUME IInv
  PROVE  /\ Owing \in SUBSET Slot /\ Told \in SUBSET Slot
         /\ Cardinality(Owing) \in Nat /\ Cardinality(Told) \in Nat
         /\ audit \in Nat /\ changed \in Nat /\ answered \in Nat
  BY SlotCount, StateFacts DEF Owing, Told

\* In the next state too.
LEMMA CountFactsNext ==
  /\ Owing' \in SUBSET Slot /\ Told' \in SUBSET Slot
  /\ IsFiniteSet(Owing') /\ IsFiniteSet(Told') /\ Cardinality(Owing') \in Nat /\ Cardinality(Told') \in Nat
<1>1. Owing' \in SUBSET Slot /\ Told' \in SUBSET Slot
  BY DEF Owing, Told
<1> QED BY <1>1, SlotCount

\* A step that commits, audits and tells nothing.
LEMMA CountFrame ==
  ASSUME IInv, AuditInv, UNCHANGED counts, Owing' \subseteq Owing, Told' \subseteq Told
  PROVE  AuditInv'
<1>1. Cardinality(Owing') <= Cardinality(Owing) /\ Cardinality(Told') <= Cardinality(Told)
  BY CountFacts, FewerCount
<1> QED BY <1>1, CountFacts, CountFactsNext DEF AuditInv, counts

\* A request that goes on to a place where nothing is owed.
LEMMA CountPassed ==
  ASSUME IInv, AuditInv, UNCHANGED counts, NEW s \in Slot, request'[s].at # "committed",
         request'[s].at # "done" \/ request'[s].code # 200, \A t \in Slot \ {s} : request'[t] = request[t]
  PROVE  AuditInv'
<1>1. Owing' \subseteq Owing /\ Told' \subseteq Told
  BY DEF Owing, Told
<1> QED BY <1>1, CountFrame

\* A commit is one change more, and one more to audit.
LEMMA CountCommitted ==
  ASSUME IInv, AuditInv, NEW s \in Slot, changed' = changed + 1, UNCHANGED <<audit, answered>>,
         request'[s].at = "committed", \A t \in Slot \ {s} : request'[t] = request[t]
  PROVE  AuditInv'
<1>1. Owing' \subseteq Owing \cup {s} /\ Told' \subseteq Told
  BY DEF Owing, Told
<1>2. Cardinality(Owing') <= Cardinality(Owing) + 1 /\ Cardinality(Told') <= Cardinality(Told)
  BY <1>1, CountFacts, CountFactsNext, OneMoreCount, FewerCount
<1> QED BY <1>2, CountFacts, CountFactsNext DEF AuditInv

\* An audit is one fewer to audit, and one more to tell.
LEMMA CountAudited ==
  ASSUME IInv, AuditInv, NEW s \in Slot, audit' = audit + 1, UNCHANGED <<changed, answered>>,
         request[s].at = "committed", request'[s].at = "done",
         \A t \in Slot \ {s} : request'[t] = request[t]
  PROVE  AuditInv'
<1>1. Owing' \subseteq Owing \ {s} /\ s \in Owing /\ Told' \subseteq Told \cup {s}
  BY DEF Owing, Told
<1>2. Cardinality(Owing') + 1 <= Cardinality(Owing) /\ Cardinality(Told') <= Cardinality(Told) + 1
  BY <1>1, CountFacts, CountFactsNext, OneMoreCount, OneFewerCount
<1> QED BY <1>2, CountFacts, CountFactsNext DEF AuditInv

\* An answer is one fewer to tell, if it tells of a change.
LEMMA CountAnswered ==
  ASSUME IInv, AuditInv, NEW s \in Slot, Answers(s)
  PROVE  AuditInv'
<1>1. /\ request[s].at = "done" /\ request'[s] = Free /\ \A t \in Slot \ {s} : request'[t] = request[t]
      /\ UNCHANGED <<audit, changed>>
      /\ answered' = answered + (IF request[s].code = 200 THEN 1 ELSE 0)
  BY StateFacts DEF Answers
<1>2. CASE request[s].code = 200
  <2>1. Owing' \subseteq Owing /\ Told' \subseteq Told \ {s} /\ s \in Told
    BY <1>1, <1>2, FreeFacts DEF Owing, Told
  <2>2. Cardinality(Owing') <= Cardinality(Owing) /\ Cardinality(Told') + 1 <= Cardinality(Told)
    BY <2>1, CountFacts, CountFactsNext, FewerCount, OneFewerCount
  <2> QED BY <1>1, <1>2, <2>2, CountFacts, CountFactsNext DEF AuditInv
<1>3. CASE request[s].code # 200
  <2>1. UNCHANGED counts
    BY <1>1, <1>3, StateFacts DEF counts
  <2> QED BY <1>1, <2>1, FreeFacts, CountPassed
<1> QED BY <1>2, <1>3

\* A request that is sent owes nothing yet.
LEMMA CountSent ==
  ASSUME IInv, AuditInv, UNCHANGED counts, NEW s \in Slot, NEW r \in RequestType, r.at = "sent", Sends(s, r)
  PROVE  AuditInv'
<1>1. request'[s] = r /\ \A t \in Slot \ {s} : request'[t] = request[t]
  BY SendsFacts DEF IInv
<1> QED BY <1>1, CountPassed

\* Requests that are sent.
LEMMA CountSending ==
  ASSUME IInv, AuditInv, Sending
  PROVE  AuditInv'
<1>1. PICK s \in Slot, u \in User :
        \/ \E call \in Calls : ScriptReviews(s, u, call)
        \/ \E order \in Orders : ChangesUser(s, u, order) \/ CreatesUser(s, u, order)
  BY DEF Sending
<1>2. UNCHANGED counts
  BY <1>1 DEF ScriptReviews, ChangesUser, CreatesUser
<1>3. CASE \E call \in Calls : ScriptReviews(s, u, call)
  <2>1. PICK call \in Calls : ScriptReviews(s, u, call)
    BY <1>3
  <2> DEFINE r0 == Asked("vex", u, None)
             r == [r0 EXCEPT !.expected = call.expected, !.status = call.status, !.vex = call.vex]
  <2>2. request'[s] = r
    BY <2>1, StateFacts DEF ScriptReviews, Sends
  <2>3. \A t \in Slot \ {s} : request'[t] = request[t]
    BY <2>1, StateFacts DEF ScriptReviews, Sends
  <2>4. r.at = r0.at
    BY DEF Asked
  <2>5. r0.at = "sent"
    BY DEF Asked
  <2> HIDE DEF r
  <2> QED BY <1>2, <2>2, <2>3, <2>4, <2>5, CountPassed
<1>4. CASE \E order \in Orders : ChangesUser(s, u, order) \/ CreatesUser(s, u, order)
  <2>1. PICK order \in Orders : ChangesUser(s, u, order) \/ CreatesUser(s, u, order)
    BY <1>4
  <2>2. \E r \in RequestType : Sends(s, r) /\ r.at = "sent"
    <3>1. CASE ChangesUser(s, u, order)
      <4> DEFINE r == [Asked("user", u, None) EXCEPT !.whom = order.whom, !.to = order.to]
      <4>1. Sends(s, r)
        BY <3>1 DEF ChangesUser
      <4>2. r \in RequestType /\ r.at = "sent" /\ r.by = u /\ CarriesIn(Shown, r)
        BY OrderedFacts
      <4> HIDE DEF r
      <4> QED BY <4>1, <4>2
    <3>2. CASE CreatesUser(s, u, order)
      <4> DEFINE r == [Asked("create", u, None) EXCEPT !.whom = order.whom, !.to = order.to]
      <4>1. Sends(s, r)
        BY <3>2 DEF CreatesUser
      <4>2. r \in RequestType /\ r.at = "sent" /\ r.by = u /\ CarriesIn(Shown, r)
        BY OrderedFacts
      <4> HIDE DEF r
      <4> QED BY <4>1, <4>2
    <3> QED BY <2>1, <3>1, <3>2
  <2> QED BY <1>2, <2>2, CountSent
<1> QED BY <1>1, <1>3, <1>4

\* Requests that are served.
LEMMA CountServing ==
  ASSUME IInv, AuditInv, Serving
  PROVE  AuditInv'
<1>1. PICK s \in Slot : \/ Authenticate(s) \/ ReadsReview(s) \/ WritesReview(s) \/ ReadsUser(s) \/ WritesUser(s)
                        \/ AddsUser(s) \/ Audits(s) \/ AuditFails(s) \/ Answers(s) \/ Disconnects(s)
  BY DEF Serving
<1>2. CASE Answers(s)
  BY <1>2, CountAnswered
<1>3. CASE Disconnects(s)
  <2>1. UNCHANGED counts /\ request' = [request EXCEPT ![s].for = None]
    BY <1>3 DEF Disconnects
  <2>2. request'[s].at = request[s].at /\ request'[s].code = request[s].code
    <3>1. request[s] \in RequestType
      BY <1>3, StateFacts DEF Disconnects
    <3> QED BY <2>1, <3>1, StateFacts DEF RequestType
  <2>3. \A t \in Slot \ {s} : request'[t] = request[t]
    BY <2>1, StateFacts
  <2>4. Owing' \subseteq Owing /\ Told' \subseteq Told
    BY <2>2, <2>3 DEF Owing, Told
  <2> QED BY <2>1, <2>4, CountFrame
<1>4. CASE Audits(s)
  <2>1. /\ request[s].at = "committed" /\ audit' = audit + 1 /\ Ends(s, 200)
        /\ UNCHANGED <<changed, answered>>
    BY <1>4 DEF Audits
  <2>2. request'[s].at = "done" /\ \A t \in Slot \ {s} : request'[t] = request[t]
    BY <2>1, FreeFacts, StateFacts, EndsFacts
  <2> QED BY <2>1, <2>2, CountAudited
<1>5. CASE \/ \E code \in {401, 403, 404, 409, 422, 500} : Ends(s, code) /\ request[s] # Free /\ UNCHANGED counts
           \/ Moves(s, "allowed") /\ request[s] # Free /\ UNCHANGED counts
  <2>1. /\ request'[s].at # "committed" /\ (request'[s].at # "done" \/ request'[s].code # 200)
        /\ UNCHANGED counts /\ \A t \in Slot \ {s} : request'[t] = request[t]
    BY <1>5, StateFacts, EndsFacts, MovesFacts
  <2> QED BY <2>1, CountPassed
<1>6. CASE /\ \E before \in Row \cup Account : request' = [request EXCEPT ![s].at = "read", ![s].before = before]
           /\ request[s] # Free /\ UNCHANGED counts
  <2>1. /\ request'[s].at = "read" /\ UNCHANGED counts
        /\ \A t \in Slot \ {s} : request'[t] = request[t]
    BY <1>6, StateFacts, TakesFacts
  <2> QED BY <2>1, CountPassed
<1>7. CASE Moves(s, "committed") /\ request[s] # Free /\ changed' = changed + 1 /\ UNCHANGED <<audit, answered>>
  <2>1. request'[s].at = "committed" /\ \A t \in Slot \ {s} : request'[t] = request[t]
    BY <1>7, StateFacts, MovesFacts
  <2> QED BY <1>7, <2>1, CountCommitted
<1>8. CASE Authenticate(s)
  BY <1>5, <1>8, FreeFacts DEF Authenticate
<1>9. CASE ReadsReview(s)
  <2>1. request[s] # Free /\ UNCHANGED counts /\ row \in Row \cup Account
    BY <1>9, FreeFacts, StateFacts DEF ReadsReview
  <2>2. CASE Ends(s, 403) \/ Ends(s, 409)
    BY <1>5, <2>1, <2>2
  <2>3. CASE request' = [request EXCEPT ![s].at = "read", ![s].before = row]
    BY <1>6, <2>1, <2>3
  <2> QED BY <1>9, <2>2, <2>3 DEF ReadsReview
<1>10. CASE WritesReview(s)
  BY <1>5, <1>7, <1>10, FreeFacts DEF WritesReview, counts
<1>11. CASE ReadsUser(s)
  <2>1. CASE Ends(s, 404) \/ Ends(s, 422)
    BY <1>5, <1>11, <2>1, FreeFacts DEF ReadsUser
  <2>2. CASE /\ users[request[s].whom] # None
             /\ request' = [request EXCEPT ![s].at = "read", ![s].before = users[request[s].whom]]
    <3>1. request[s] # Free /\ request[s].kind = "user" /\ UNCHANGED counts
      BY <1>11, FreeFacts DEF ReadsUser
    <3>2. request[s].whom \in User
      BY <3>1, StateFacts DEF ReqFits, CarriesIn
    <3>3. users[request[s].whom] \in Row \cup Account
      BY <2>2, <3>2, StateFacts
    <3> QED BY <1>6, <2>2, <3>1, <3>3
  <2> QED BY <1>11, <2>1, <2>2 DEF ReadsUser
<1>12. CASE WritesUser(s)
  BY <1>7, <1>12, FreeFacts DEF WritesUser
<1>13. CASE AddsUser(s)
  BY <1>5, <1>7, <1>13, FreeFacts DEF AddsUser, counts
<1>14. CASE AuditFails(s)
  BY <1>5, <1>14, FreeFacts DEF AuditFails
<1> QED BY <1>1, <1>2, <1>3, <1>4, <1>8, <1>9, <1>10, <1>11, <1>12, <1>13, <1>14

\* Panels.
LEMMA CountBrowsing ==
  ASSUME IInv, AuditInv, Browsing
  PROVE  AuditInv'
<1>1. PICK p \in Editor :
        \/ \E finding \in Shown : OpensPanel(p, finding)
        \/ ClosesPanel(p) \/ ServesReview(p) \/ GetsReview(p) \/ LosesReview(p) \/ Refreshes(p)
        \/ \E status \in Status : PicksStatus(p, status)
        \/ TypesNote(p) \/ Acknowledges(p) \/ \E s \in Slot : Saves(p, s)
  BY DEF Browsing
<1>2. CASE \E s \in Slot : Saves(p, s)
  <2>1. PICK s \in Slot : Saves(p, s)
    BY <1>2
  <2>2. /\ UNCHANGED counts /\ request[s] = Free
        /\ request' = [request EXCEPT ![s] = [Asked("action", EditorOf[p], p) EXCEPT
                         !.expected = panel[p].rev, !.status = panel[p].status, !.vex = panel[p].current.vex,
                         !.seen = panel[p].known, !.chose = panel[p].touched]]
    BY <2>1 DEF Saves, Sends
  <2>3. request'[s].at = Asked("action", EditorOf[p], p).at
    BY <2>2, StateFacts DEF Asked
  <2>4. request'[s].at = "sent" /\ \A t \in Slot \ {s} : request'[t] = request[t]
    BY <2>2, <2>3, StateFacts DEF Asked
  <2> QED BY <2>2, <2>4, CountPassed
<1>3. CASE ClosesPanel(p)
  <2>1. UNCHANGED counts /\ request' = Forget(p)
    BY <1>3 DEF ClosesPanel
  <2>2. \A s \in Slot : request'[s].at = request[s].at /\ request'[s].code = request[s].code
    <3>1. ASSUME NEW s \in Slot PROVE request'[s].at = request[s].at /\ request'[s].code = request[s].code
      <4>1. CASE request[s] = Free \/ request[s].for # p
        BY <2>1, <4>1 DEF Forget
      <4>2. CASE request[s] # Free /\ request[s].for = p
        <5>1. request[s] \in RequestType /\ request'[s] = [request[s] EXCEPT !.for = None]
          BY <2>1, <4>2, StateFacts DEF Forget
        <5> QED BY <5>1 DEF RequestType
      <4> QED BY <4>1, <4>2
    <3> QED BY <3>1
  <2>3. Owing' \subseteq Owing /\ Told' \subseteq Told
    BY <2>2 DEF Owing, Told
  <2> QED BY <2>1, <2>3, CountFrame
<1>4. CASE UNCHANGED <<request, counts>>
  <2>1. Owing' = Owing /\ Told' = Told
    BY <1>4 DEF Owing, Told
  <2> QED BY <1>4, <2>1, CountFrame
<1> QED BY <1>1, <1>2, <1>3, <1>4 DEF OpensPanel, ServesReview, GetsReview, LosesReview, Refreshes, PicksStatus,
                                      TypesNote, Acknowledges

\* A restart leaves nothing to audit and nobody to tell.
LEMMA CountRestarts ==
  ASSUME IInv, AuditInv, Restarts
  PROVE  AuditInv'
<1>1. Owing' \subseteq Owing /\ Told' \subseteq Told
  BY FreeFacts DEF Restarts, Owing, Told
<1> QED BY <1>1, CountFrame DEF Restarts

\* Nothing is audited that was not changed, and nobody is told of a change
\* that is not audited (middleware.py:40: only what succeeded is audited,
\* and before the answer).
THEOREM Audited == Spec => []AuditFollowsChanges
<1>1. Init => AuditInv
  <2> SUFFICES ASSUME Init PROVE AuditInv
    OBVIOUS
  <2>1. Owing = {} /\ Told = {} /\ audit = 0 /\ changed = 0 /\ answered = 0
    BY FreeFacts DEF Init, Owing, Told
  <2> QED BY <2>1, FS_EmptySet DEF AuditInv
<1>2. IInv /\ AuditInv /\ [Next]_vars => AuditInv'
  <2> SUFFICES ASSUME IInv, AuditInv, [Next]_vars PROVE AuditInv'
    OBVIOUS
  <2>1. CASE UNCHANGED vars
    <3>1. UNCHANGED counts /\ Owing' = Owing /\ Told' = Told
      BY <2>1 DEF vars, counts, Owing, Told
    <3> QED BY <3>1, CountFrame
  <2> QED BY <2>1, CountSending, CountServing, CountBrowsing, CountRestarts DEF Next
<1>3. IInv /\ AuditInv => AuditFollowsChanges
  BY CountFacts DEF AuditInv, AuditFollowsChanges
<1> QED BY <1>1, <1>2, <1>3, Invariance, PTL DEF Spec
=============================================================================
