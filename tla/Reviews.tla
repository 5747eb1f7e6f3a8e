------------------------------ MODULE Reviews ------------------------------
(***************************************************************************)
(* The review of one finding (a component and a CVE) by several accounts:  *)
(* panels of browsers that show the review, keep a draft and save it under *)
(* the revision they accepted; scripts that still use the older call; the  *)
(* administrators' changes of accounts; and the way of each such request   *)
(* through the middleware (who is it, may he change anything), the handler *)
(* (one transaction that changes and attributes), the middleware again (a  *)
(* second transaction that audits) and back, if it gets back.  Handlers    *)
(* run in threads: anything may happen between two of their statements.    *)
(***************************************************************************)
EXTENDS Naturals, Sequences, FiniteSets

CONSTANTS
  User, Admin,     \* users, and the one ensure_admin creates
  Editor,          \* panels
  EditorOf,        \* who is logged in at each of them
  Slot,            \* requests under way at once
  Status,          \* values of vex_status
  Vex,             \* justification and response, which a panel sends back
  Calls,           \* what scripts send to the older call
  Orders,          \* what administrators want accounts to be
  RowLocks,        \* FOR UPDATE locks the row (PostgreSQL) or is ignored
  MaxRequests,     \* bound: requests that change something
  None, Keep       \* no value; a field that was not given

Row     == [rev : Nat, status : Status, vex : Vex]
Account == [role : {"ADMIN", "VIEWER"}, active : BOOLEAN]

ASSUME ReviewsAssumption ==
  /\ IsFiniteSet(Slot)
  /\ Admin \in User /\ EditorOf \in [Editor -> User]
  /\ MaxRequests \in Nat /\ RowLocks \in BOOLEAN
  /\ "AFFECTED" \in Status /\ None \in Vex
  /\ {None, Keep} \cap (User \cup Editor \cup Status \cup Nat) = {} /\ Keep \notin Vex /\ None # Keep
  /\ None \notin Row \cup Account
  /\ Calls \subseteq [expected : Nat \cup {None}, status : Status, vex : Vex \cup {Keep}]
  /\ Orders \subseteq [whom : User, to : Account]

VARIABLES
  row,      \* component_vulnerabilities: the review as it stands
  history,  \* vulnerability_actions
  users,    \* users
  request,  \* what each request is doing
  panel,    \* what each panel shows and holds
  audit,    \* CHANGE entries in audit_logs
  changed,  \* history: changes that were committed
  answered, \* history: callers that were told their change is made
  sent      \* requests sent so far

counts   == <<audit, changed, answered>>
vars == <<row, history, users, request, panel, audit, changed, answered, sent>>

Free     == [at |-> "free"]
NoLoad   == [at |-> "idle"]
Closed   == [open |-> FALSE]

ActiveAdmin(u) == users[u] # None /\ users[u].active /\ users[u].role = "ADMIN"

\* The API starts over a database whose administrator ensure_admin created, now
\* or when it first started; nobody is logged in.
Init ==
  /\ row = [rev |-> 0, status |-> "AFFECTED", vex |-> None] /\ history = <<>>
  /\ users \in [User -> {None, [role |-> "ADMIN", active |-> TRUE]}] /\ ActiveAdmin(Admin)
  /\ request = [s \in Slot |-> Free]
  /\ panel = [p \in Editor |-> Closed]
  /\ audit = 0 /\ changed = 0 /\ answered = 0 /\ sent = 0

-----------------------------------------------------------------------------
\* Requests.  seen and chose only record, for the properties, which review the
\* editor answers and whether he chose the status.
Sends(s, r) ==
  /\ request[s] = Free /\ sent < MaxRequests /\ sent' = sent + 1
  /\ request' = [request EXCEPT ![s] = r]

Asked(kind, by, for) ==
  [at |-> "sent", kind |-> kind, by |-> by, for |-> for, expected |-> None, status |-> None, vex |-> None,
   whom |-> None, to |-> None, before |-> None, code |-> 200, seen |-> None, chose |-> TRUE]

Moves(s, at) == request' = [request EXCEPT ![s].at = at]
Ends(s, code) == request' = [request EXCEPT ![s].at = "done", ![s].code = code]

ScriptReviews(s, u, call) ==
  /\ users[u] # None
  /\ Sends(s, [Asked("vex", u, None) EXCEPT !.expected = call.expected, !.status = call.status, !.vex = call.vex])
  /\ UNCHANGED <<row, history, users, panel, counts>>

ChangesUser(s, u, order) ==
  /\ users[u] # None
  /\ Sends(s, [Asked("user", u, None) EXCEPT !.whom = order.whom, !.to = order.to])
  /\ UNCHANGED <<row, history, users, panel, counts>>

CreatesUser(s, u, order) ==
  /\ users[u] # None /\ order.to.active
  /\ Sends(s, [Asked("create", u, None) EXCEPT !.whom = order.whom, !.to = order.to])
  /\ UNCHANGED <<row, history, users, panel, counts>>

\* authenticate_and_audit, on the way in.  A token expires at any time; it
\* outlives anything else, but whether its owner is active, and what he may
\* do, is read again with each request.
Authenticate(s) ==
  LET u == users[request[s].by]
  IN  /\ request[s].at = "sent"
      /\ \/ Ends(s, 401)
         \/ u.active /\ u.role # "ADMIN" /\ Ends(s, 403)
         \/ u.active /\ u.role = "ADMIN" /\ Moves(s, "allowed")
      /\ UNCHANGED <<row, history, users, panel, counts, sent>>

\* record_action up to its UPDATE.  The older call need not name a revision.
Reviewing(s) == request[s].kind \in {"action", "vex"}
Locked(s)    == RowLocks /\ \E t \in Slot \ {s} : request[t].at = "read" /\ Reviewing(t)
Accepts(s)   == request[s].expected \in {None, row.rev}

ReadsReview(s) ==
  /\ request[s].at = "allowed" /\ Reviewing(s)
  /\ \/ ~ActiveAdmin(request[s].by) /\ Ends(s, 403)
     \/ /\ ActiveAdmin(request[s].by) /\ ~Locked(s)
        /\ \/ Accepts(s) /\ request' = [request EXCEPT ![s].at = "read", ![s].before = row]
           \/ ~Accepts(s) /\ Ends(s, 409)
  /\ UNCHANGED <<row, history, users, panel, counts, sent>>

\* Its UPDATE, which asks for the revision once more, with the entry in the
\* history.  A field that was not given keeps its value.
\* Mutant: a field that was not given is written all the same.
ReviewedClears(s) ==
  [rev |-> request[s].before.rev + 1, status |-> request[s].status, vex |-> request[s].vex]
Reviewed(s) ==
  [rev |-> request[s].before.rev + 1, status |-> request[s].status,
   vex |-> IF request[s].vex = Keep THEN request[s].before.vex ELSE request[s].vex]
\* Mutant: the UPDATE does not ask for the revision.
UnchangedUnasked(s) == TRUE
Unchanged(s) == row.rev = request[s].before.rev

WritesReview(s) ==
  /\ request[s].at = "read" /\ Reviewing(s)
  /\ \/ /\ Unchanged(s)
        /\ row' = Reviewed(s)
        /\ history' = Append(history, [from |-> request[s].before, to |-> Reviewed(s), by |-> request[s].by,
                                       seen |-> request[s].seen, chose |-> request[s].chose])
        /\ changed' = changed + 1 /\ Moves(s, "committed")
     \/ ~Unchanged(s) /\ Ends(s, 409) /\ UNCHANGED <<row, history, changed>>
  /\ UNCHANGED <<users, panel, audit, answered, sent>>

\* update_user and create_user.  The only change nobody may make is to
\* deactivate himself.  What is written is what differs from what was read.
Suicidal(s) == request[s].whom = request[s].by /\ ~request[s].to.active

ReadsUser(s) ==
  /\ request[s].at = "allowed" /\ request[s].kind = "user"
  /\ \/ users[request[s].whom] = None /\ Ends(s, 404)
     \/ users[request[s].whom] # None /\ Suicidal(s) /\ Ends(s, 422)
     \/ /\ users[request[s].whom] # None /\ ~Suicidal(s)
        /\ request' = [request EXCEPT ![s].at = "read", ![s].before = users[request[s].whom]]
  /\ UNCHANGED <<row, history, users, panel, counts, sent>>

\* Mutant: the whole account is written, as it was asked for.
WritesUserWhole(s) ==
  LET r == request[s]
  IN  /\ r.at = "read" /\ r.kind = "user"
      /\ users' = [users EXCEPT ![r.whom] = r.to]
      /\ changed' = changed + 1 /\ Moves(s, "committed")
      /\ UNCHANGED <<row, history, panel, audit, answered, sent>>

WritesUser(s) ==
  LET r == request[s]
  IN  /\ r.at = "read" /\ r.kind = "user"
      /\ users' = [users EXCEPT ![r.whom] = [f \in {"role", "active"} |->
                     IF r.to[f] # r.before[f] THEN r.to[f] ELSE @[f]]]
      /\ changed' = changed + 1 /\ Moves(s, "committed")
      /\ UNCHANGED <<row, history, panel, audit, answered, sent>>

AddsUser(s) ==
  LET r == request[s]
  IN  /\ r.at = "allowed" /\ r.kind = "create"
      /\ \/ /\ users[r.whom] = None /\ users' = [users EXCEPT ![r.whom] = r.to]
            /\ changed' = changed + 1 /\ Moves(s, "committed")
         \/ users[r.whom] # None /\ Ends(s, 409) /\ UNCHANGED <<users, changed>>
      /\ UNCHANGED <<row, history, panel, audit, answered, sent>>

\* authenticate_and_audit, on the way out: only what succeeded is audited.
Audits(s) ==
  /\ request[s].at = "committed" /\ audit' = audit + 1 /\ Ends(s, 200)
  /\ UNCHANGED <<row, history, users, panel, changed, answered, sent>>

\* Mutant: a failing audit is swallowed.
AuditFailsQuietly(s) ==
  /\ request[s].at = "committed" /\ Ends(s, 200)
  /\ UNCHANGED <<row, history, users, panel, counts, sent>>

AuditFails(s) ==
  /\ request[s].at = "committed" /\ Ends(s, 500)
  /\ UNCHANGED <<row, history, users, panel, counts, sent>>

-----------------------------------------------------------------------------
\* A panel.  It opens over a line of a list that may be old, and asks for the
\* review at once.  touched and typed are dirty.current; known only records
\* what the editor began from, or acknowledged since.
Shown == {row} \cup {history[i].from : i \in DOMAIN history}

OpensPanel(p, finding) ==
  /\ ~panel[p].open /\ ActiveAdmin(EditorOf[p])
  /\ panel' = [panel EXCEPT ![p] =
       [open |-> TRUE, current |-> finding, known |-> finding, rev |-> finding.rev, status |-> finding.status,
        ready |-> FALSE, conflict |-> None, touched |-> FALSE, typed |-> FALSE,
        saving |-> "no", load |-> [at |-> "asked"]]]
  /\ UNCHANGED <<row, history, users, request, counts, sent>>

\* Leaving aborts what is under way here; the server is not stopped by that.
Forget(p) == [s \in Slot |-> IF request[s] # Free /\ request[s].for = p
                               THEN [request[s] EXCEPT !.for = None] ELSE request[s]]

ClosesPanel(p) ==
  /\ panel[p].open
  /\ panel' = [panel EXCEPT ![p] = Closed]
  /\ request' = Forget(p)
  /\ UNCHANGED <<row, history, users, counts, sent>>

ServesReview(p) ==
  /\ panel[p].open /\ panel[p].load.at = "asked"
  /\ panel' = [panel EXCEPT ![p].load = [at |-> "read", row |-> row]]
  /\ UNCHANGED <<row, history, users, request, counts, sent>>

\* adoptLatest, over what the panel holds.
\* Mutant: the form keeps the status it has.
AdoptKeepsStatus(held, latest) ==
  [held EXCEPT !.rev = latest.rev, !.current = latest, !.conflict = None, !.ready = TRUE]

Adopt(held, latest) ==
  [held EXCEPT !.status = IF held.touched THEN @ ELSE latest.status, !.rev = latest.rev,
               !.current = latest, !.conflict = None, !.ready = TRUE]

\* What loadCurrent makes of an answer.
\* Mutant: a draft is moved to the new revision unasked.
ReceivedOverDraft(held, latest) == Adopt(held, latest)

Received(held, latest) ==
  IF latest.rev # held.rev /\ (held.touched \/ held.typed)
    THEN [held EXCEPT !.current = latest, !.ready = TRUE, !.conflict = latest]
    ELSE Adopt(held, latest)

Settled(held) == [held EXCEPT !.load = NoLoad, !.saving = IF @ = "refresh" THEN "no" ELSE @]

Drafting(p) == panel[p].touched \/ panel[p].typed

GetsReview(p) ==
  /\ panel[p].open /\ panel[p].load.at = "read"
  /\ LET latest == panel[p].load.row
         got    == Settled(Received(panel[p], latest))
     IN  panel' = [panel EXCEPT ![p] = [got EXCEPT !.known = IF Drafting(p) THEN @ ELSE latest]]
  /\ UNCHANGED <<row, history, users, request, counts, sent>>

LosesReview(p) ==
  /\ panel[p].open /\ panel[p].load.at # "idle"
  /\ panel' = [panel EXCEPT ![p] = Settled([@ EXCEPT !.ready = FALSE])]
  /\ UNCHANGED <<row, history, users, request, counts, sent>>

Refreshes(p) ==
  /\ panel[p].open /\ panel[p].load.at = "idle" /\ panel[p].saving = "no"
  /\ panel' = [panel EXCEPT ![p].load = [at |-> "asked"]]
  /\ UNCHANGED <<row, history, users, request, counts, sent>>

Editable(p) == panel[p].open /\ panel[p].ready /\ panel[p].saving = "no"

PicksStatus(p, status) ==
  /\ Editable(p)
  /\ panel' = [panel EXCEPT ![p].status = status, ![p].touched = TRUE]
  /\ UNCHANGED <<row, history, users, request, counts, sent>>

TypesNote(p) ==
  /\ Editable(p) /\ ~panel[p].typed /\ panel' = [panel EXCEPT ![p].typed = TRUE]
  /\ UNCHANGED <<row, history, users, request, counts, sent>>

Acknowledges(p) ==
  /\ Editable(p) /\ panel[p].conflict # None
  /\ panel' = [panel EXCEPT ![p] = [Adopt(@, @.conflict) EXCEPT !.known = panel[p].conflict]]
  /\ UNCHANGED <<row, history, users, request, counts, sent>>

Saves(p, s) ==
  LET held == panel[p]
  IN  /\ Editable(p) /\ held.load.at = "idle" /\ held.conflict = None /\ held.typed
      /\ Sends(s, [Asked("action", EditorOf[p], p) EXCEPT
                     !.expected = held.rev, !.status = held.status, !.vex = held.current.vex,
                     !.seen = held.known, !.chose = held.touched])
      /\ panel' = [panel EXCEPT ![p].saving = "request"]
      /\ UNCHANGED <<row, history, users, counts>>

-----------------------------------------------------------------------------
\* The answer.  A panel closes on success; a conflict makes it look again; any
\* other failure leaves the form as it is.
Answers(s) ==
  LET p == request[s].for
  IN  /\ request[s].at = "done" /\ request' = [request EXCEPT ![s] = Free]
      /\ answered' = answered + (IF request[s].code = 200 THEN 1 ELSE 0)
      /\ \/ p = None /\ UNCHANGED panel
         \/ /\ p # None /\ request[s].code = 200
            /\ panel' = [panel EXCEPT ![p] = Closed]
         \/ /\ p # None /\ request[s].code = 409
            /\ panel' = [panel EXCEPT ![p].saving = "refresh", ![p].load = [at |-> "asked"]]
         \/ /\ p # None /\ request[s].code \notin {200, 409}
            /\ panel' = [panel EXCEPT ![p].saving = "no"]
      /\ UNCHANGED <<row, history, users, audit, changed, sent>>

\* A connection breaks; the request goes on without its caller.
Disconnects(s) ==
  /\ request[s] # Free /\ request[s].for # None
  /\ request' = [request EXCEPT ![s].for = None]
  /\ panel' = [panel EXCEPT ![request[s].for].saving = "no"]
  /\ UNCHANGED <<row, history, users, counts, sent>>

\* The API dies and starts again.  Open transactions are rolled back; whoever
\* waits gets an error.  ensure_admin finds its account and leaves it alone.
Restarts ==
  /\ \E s \in Slot : request[s] # Free
  /\ request' = [s \in Slot |-> Free]
  /\ panel' = [p \in Editor |-> IF panel[p].open /\ panel[p].saving = "request"
                                  THEN [panel[p] EXCEPT !.saving = "no"] ELSE panel[p]]
  /\ UNCHANGED <<row, history, users, counts, sent>>

-----------------------------------------------------------------------------
Sending ==
  \E s \in Slot, u \in User :
    \/ \E call \in Calls : ScriptReviews(s, u, call)
    \/ \E order \in Orders : ChangesUser(s, u, order) \/ CreatesUser(s, u, order)

Serving ==
  \E s \in Slot : \/ Authenticate(s) \/ ReadsReview(s) \/ WritesReview(s) \/ ReadsUser(s) \/ WritesUser(s)
                  \/ AddsUser(s) \/ Audits(s) \/ AuditFails(s) \/ Answers(s) \/ Disconnects(s)

Browsing ==
  \E p \in Editor :
    \/ \E finding \in Shown : OpensPanel(p, finding)
    \/ ClosesPanel(p) \/ ServesReview(p) \/ GetsReview(p) \/ LosesReview(p) \/ Refreshes(p)
    \/ \E status \in Status : PicksStatus(p, status)
    \/ TypesNote(p) \/ Acknowledges(p) \/ \E s \in Slot : Saves(p, s)

Next == Sending \/ Serving \/ Browsing \/ Restarts

Spec == Init /\ [][Next]_vars

-----------------------------------------------------------------------------
RequestType ==
  [at : {"sent", "allowed", "read", "committed", "done"}, kind : {"action", "vex", "user", "create"},
   by : User, for : Editor \cup {None}, expected : Nat \cup {None}, status : Status \cup {None},
   vex : Vex \cup {Keep}, whom : User \cup {None}, to : Account \cup {None},
   before : Row \cup Account \cup {None}, code : {200, 401, 403, 404, 409, 422, 500},
   seen : Row \cup {None}, chose : BOOLEAN]

PanelType ==
  [open : {TRUE}, current : Row, known : Row, rev : Nat, status : Status, ready : BOOLEAN,
   conflict : Row \cup {None}, touched : BOOLEAN, typed : BOOLEAN, saving : {"no", "request", "refresh"},
   load : {NoLoad, [at |-> "asked"]} \cup [at : {"read"}, row : Row]]

\* Every variable has its type.
TypeOK ==
  /\ row \in Row /\ users \in [User -> Account \cup {None}]
  /\ history \in Seq([from : Row, to : Row, by : User, seen : Row \cup {None}, chose : BOOLEAN])
  /\ request \in [Slot -> RequestType \cup {Free}]
  /\ panel \in [Editor -> PanelType \cup {Closed}]
  /\ audit \in Nat /\ changed \in Nat /\ answered \in Nat /\ sent \in 0..MaxRequests

\* The history is one chain: each review starts from what the last one left,
\* raises the revision by one, and the row is where the chain ends, whoever
\* wrote beside whom (vulnerability_actions.py:76).
HistoryIsAChain ==
  /\ row.rev = Len(history)
  /\ \A i \in DOMAIN history :
       /\ history[i].from.rev = i - 1 /\ history[i].to.rev = i
       /\ history[i].to = IF i = Len(history) THEN row ELSE history[i + 1].from

\* What a panel saves answers the very review its editor began his draft from
\* or acknowledged since, and leaves the justification as it stands, however
\* loads, conflicts, failures and other reviews crossed
\* (VulnerabilityActions.jsx:81).
EveryReviewIsInformed ==
  \A i \in DOMAIN history :
    history[i].seen # None => /\ history[i].from = history[i].seen
                              /\ history[i].to.vex = history[i].from.vex

\* An editor who only wrote a note does not change the status
\* (VULNERABILITY_ACTIONS.md: what was not edited keeps the latest value).
UntouchedStatusStays ==
  \A i \in DOMAIN history : ~history[i].chose => history[i].to.status = history[i].from.status

\* What a request carries: an account that is there, a change nobody may refuse,
\* a review the panel saw; what a handler has read was the row once.
Carries(r) ==
  /\ r.kind \in {"action", "vex"} => /\ r.status \in Status
                                     /\ r.kind = "vex" => r.seen = None
  /\ r.kind \in {"user", "create"} => r.whom \in User /\ r.to \in Account /\ r.seen = None
  /\ r.seen # None => /\ r.seen \in Shown /\ r.expected = r.seen.rev /\ r.vex = r.seen.vex
                      /\ ~r.chose => r.status = r.seen.status
  /\ r.seen = None => r.chose

Holds(r) ==
  /\ r.kind \in {"action", "vex"} => r.before \in Shown /\ r.expected \in {None, r.before.rev}
  /\ r.kind = "user" => r.before \in Account /\ ~(r.whom = r.by /\ ~r.to.active)

RequestInv ==
  \A s \in Slot : request[s] # Free =>
    /\ Carries(request[s]) /\ users[request[s].by] # None
    /\ request[s].at = "read" => Holds(request[s]) /\ request[s].kind # "create"
    /\ request[s].at = "read" /\ request[s].kind = "user" => users[request[s].whom] # None

\* A panel holds one review, under the revision it will name: what the editor
\* began from.  Only an open conflict shows another.
PanelInv ==
  \A p \in Editor : panel[p].open =>
    /\ users[EditorOf[p]] # None
    /\ panel[p].known \in Shown /\ panel[p].rev = panel[p].known.rev
    /\ panel[p].conflict = None => panel[p].current = panel[p].known
    /\ panel[p].conflict # None => panel[p].conflict \in Shown
    /\ ~panel[p].touched => panel[p].status = panel[p].known.status
    /\ panel[p].load.at = "read" => panel[p].load.row \in Shown

\* The invariant of the proofs.
IInv == TypeOK /\ HistoryIsAChain /\ EveryReviewIsInformed /\ UntouchedStatusStays /\ RequestInv /\ PanelInv

\* Nothing is audited that was not changed, and nobody is told of a change
\* that is not audited.  (A change can be committed and never audited.)
AuditFollowsChanges == answered <= audit /\ audit <= changed

\* No request undoes what another one did to the account while it ran: a role or
\* an activity changes only by a request that asks for the change and read the
\* value that goes (auth.py:80-89: what is written is what differs).
ChangesUndoNothing ==
  [][\A u \in User : users[u] # None =>
       /\ users'[u] # None
       /\ \A f \in {"role", "active"} : users'[u][f] # users[u][f] =>
            \E s \in Slot : /\ request[s].at = "read" /\ request[s].kind = "user"
                           /\ request[s].whom = u
                           /\ request[s].before[f] = users[u][f] /\ request[s].to[f] = users'[u][f]]_vars
=============================================================================
