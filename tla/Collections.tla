---------------------------- MODULE Collections ----------------------------
(***************************************************************************)
(* The SSH settings of an asset and those who connect with them: checks    *)
(* started by hand or by the daily pass of the worker, and analysis jobs.  *)
(* A visit reads the row of the asset, works on the target for minutes,    *)
(* and may then write the host key it met into the row; update_asset       *)
(* changes the same row in a read and a commit of its own.  Nothing locks  *)
(* the row: update_asset only looks for unfinished visits.                 *)
(*                                                                         *)
(* The job of an analysis is AnalysisJobs' subject and only starts and     *)
(* ends here.  What a check measures is left out, its outcome is not.      *)
(***************************************************************************)
EXTENDS Naturals, FiniteSets

CONSTANTS
  Asset,
  Addr,      \* address and port of a target
  Password, Pem,
  Needs,     \* the passphrase each private key needs, or None
  Edits,     \* the forms administrators send for each asset
  Manual,    \* checks of requests that run at once
  Daily,     \* the check of the worker's daily pass
  Analysis,  \* analysis jobs that run at once
  Admin,     \* requests of update_asset that run at once
  MaxGen,    \* bound: host keys an address ever has
  ByHand,    \* bound: the assets checked by hand
  Scanned,   \* bound: the assets analyses are requested for
  MaxStuck,  \* bound: RUNNING rows that errors leave on an asset
  Erasable,  \* bound: the assets that may be deleted
  Escapes,   \* whether checks may also end by other errors than those
             \* of a deleted asset
  None, Unborn, Gone

Check == Manual \cup {Daily}
Visit == Check \cup Analysis
Auth  == {"key", "password", "private_key"}
Key   == UNION {{d} \X (1..MaxGen[d]) : d \in Addr}
Row   == [addr : Addr, auth : Auth, pw : Password \cup {None},
          pem : Pem \cup {None}, pin : Key \cup {None}, monitored : BOOLEAN]
Edit  == [addr : Addr, auth : Auth, pw : Password \cup {None},
          pem : Pem \cup {None}, reset : BOOLEAN, monitored : BOOLEAN]

ASSUME CollectionsAssumption ==
  /\ Needs \in [Pem -> Password \cup {None}]
  /\ MaxGen \in [Addr -> Nat \ {0}]
  /\ Edits \in [Asset -> SUBSET Edit]
  /\ Daily \notin Manual
  /\ Check \cap Analysis = {}
  /\ IsFiniteSet(Check) /\ Asset # {}
  /\ Scanned \subseteq Asset /\ ByHand \subseteq Asset
  /\ None \notin Password \cup Pem \cup Key
  /\ Unborn \notin Row /\ Gone \notin Row /\ Unborn # Gone
  /\ Erasable \subseteq Asset /\ Escapes \in BOOLEAN

VARIABLES
  row,        \* assets
  running,    \* rows of collection_jobs that say RUNNING, counted by asset
  visit,      \* where each visit is, the row it read, the key it learned
  request,    \* where each update_asset is, the row it read, its form
  hostKey,    \* the generation of the key the target at an address has
  todo, pass, \* the assets the daily pass still has to check
  mishap,     \* history: a check ended by another error than CollectionFailure
  raced,      \* history: a visit began while the row was being changed, or
              \* an update committed over a row it had not read
  overlapped  \* history: a key was pinned while another visit, about to write
              \* one too, had a row without a key

pools   == <<todo, pass>>
history == <<mishap, raced, overlapped>>
vars    == <<row, running, visit, request, hostKey, todo, pass, mishap, raced, overlapped>>

Exists(a) == row[a] \in Row
Opens(k, p) == Needs[k] \in {None, p}

Idle     == [pc |-> "idle", on |-> CHOOSE a \in Asset : TRUE, saw |-> Unborn, key |-> None]
NoUpdate == [pc |-> "idle", on |-> CHOOSE a \in Asset : TRUE, saw |-> Unborn, form |-> None]

Init ==
  /\ row = [a \in Asset |-> Unborn]
  /\ running = [a \in Asset |-> 0]
  /\ visit = [v \in Visit |-> Idle]
  /\ request = [u \in Admin |-> NoUpdate]
  /\ hostKey = [d \in Addr |-> 1]
  /\ todo = {} /\ pass = "idle"
  /\ mishap = FALSE
  /\ raced = [a \in Asset |-> FALSE]
  /\ overlapped = [a \in Asset |-> FALSE]

-----------------------------------------------------------------------------
(* create_asset, update_asset, delete_asset *)

\* Mutants: the credentials of the other mode are kept; the key of the old
\* address is kept.
AppliedKeepsPem(r, e) ==
  [r EXCEPT !.addr = e.addr, !.auth = e.auth, !.monitored = e.monitored,
            !.pw = IF e.pw # None THEN e.pw ELSE @,
            !.pem = IF e.pem # None THEN e.pem ELSE @,
            !.pin = IF e.reset \/ e.addr # r.addr THEN None ELSE @]
AppliedKeepsPin(r, e) ==
  [r EXCEPT !.addr = e.addr, !.auth = e.auth, !.monitored = e.monitored,
            !.pw = IF e.auth = "key" THEN None ELSE IF e.pw # None THEN e.pw ELSE @,
            !.pem = IF e.auth # "private_key" THEN None
                    ELSE IF e.pem # None THEN e.pem ELSE @,
            !.pin = IF e.reset THEN None ELSE @]

\* The row as the request leaves it: what the mode does not need is dropped,
\* the host key with the address it belongs to.
Applied(r, e) ==
  [r EXCEPT !.addr = e.addr, !.auth = e.auth, !.monitored = e.monitored,
            !.pw = IF e.auth = "key" THEN None ELSE IF e.pw # None THEN e.pw ELSE @,
            !.pem = IF e.auth # "private_key" THEN None
                    ELSE IF e.pem # None THEN e.pem ELSE @,
            !.pin = IF e.reset \/ e.addr # r.addr THEN None ELSE @]

\* Not 422: a new key has to open, with the new or the stored passphrase; a
\* new passphrase has to open the stored key.
Acceptable(r, e) ==
  LET pw  == IF e.pw # None THEN e.pw ELSE r.pw
      pem == IF e.pem # None THEN e.pem ELSE r.pem
  IN /\ e.pem # None => Opens(e.pem, pw)
     /\ e.auth = "password" => pw # None
     /\ e.auth = "private_key" => /\ pem # None
                                  /\ e.pem = None /\ e.pw # None => Opens(pem, e.pw)

\* The columns the UPDATE names: those that differ from the row that was
\* read, and secrets that were given, for they are encrypted anew.
Dirty(r, e) ==
  LET new == Applied(r, e)
  IN {f \in DOMAIN r : new[f] # r[f]}
     \cup {f \in {"pw", "pem"} : e[f] # None /\ new[f] # None}

TouchesConnection(r, e) ==
  e.pw # None \/ e.pem # None \/ e.reset
    \/ e.addr # r.addr \/ e.auth # r.auth \/ e.monitored # r.monitored

Analysing(a) == \E v \in Analysis : visit[v].on = a /\ visit[v].pc \in {"open", "met", "reloaded"}

CreateAsset(a, e) ==
  /\ row[a] = Unborn
  /\ LET blank == [addr |-> e.addr, auth |-> "key", pw |-> None, pem |-> None,
                   pin |-> None, monitored |-> e.monitored]
     IN Acceptable(blank, e) /\ row' = [row EXCEPT ![a] = Applied(blank, e)]
  /\ UNCHANGED <<running, visit, request, hostKey, pools, history>>

\* Mutant: no look at what is running.
ReadForUpdateBlind(u, a, e) ==
  /\ request[u].pc = "idle" /\ Exists(a) /\ Acceptable(row[a], e) /\ TouchesConnection(row[a], e)
  /\ request' = [request EXCEPT ![u] = [pc |-> "read", on |-> a, saw |-> row[a], form |-> e]]
  /\ UNCHANGED <<row, running, visit, hostKey, pools, history>>

\* Everything up to the commit; refused requests change nothing, and forms
\* that touch none of these columns write none.
ReadForUpdate(u, a, e) ==
  /\ request[u].pc = "idle" /\ Exists(a) /\ Acceptable(row[a], e)
  /\ TouchesConnection(row[a], e) /\ ~Analysing(a) /\ running[a] = 0
  /\ request' = [request EXCEPT ![u] = [pc |-> "read", on |-> a, saw |-> row[a], form |-> e]]
  /\ UNCHANGED <<row, running, visit, hostKey, pools, history>>

CommitUpdate(u) ==
  LET a == request[u].on
      r == request[u].saw
      e == request[u].form
  IN /\ request[u].pc = "read" /\ Exists(a)
     /\ row' = [row EXCEPT ![a] = [f \in DOMAIN r |->
                  IF f \in Dirty(r, e) THEN Applied(r, e)[f] ELSE row[a][f]]]
     /\ raced' = [raced EXCEPT ![a] = @ \/ row[a] # r]
     /\ request' = [request EXCEPT ![u] = NoUpdate]
     /\ UNCHANGED <<running, visit, hostKey, pools, mishap, overlapped>>

\* The tag is taken, or the row is gone.
UpdateFails(u) ==
  /\ request[u].pc = "read"
  /\ request' = [request EXCEPT ![u] = NoUpdate]
  /\ UNCHANGED <<row, running, visit, hostKey, pools, history>>

\* With purge; a running check does not count as history in progress.
DeleteAsset(a) ==
  /\ a \in Erasable /\ Exists(a) /\ ~Analysing(a)
  /\ row' = [row EXCEPT ![a] = Gone]
  /\ running' = [running EXCEPT ![a] = 0]
  /\ UNCHANGED <<visit, request, hostKey, pools, history>>

\* The target is installed again.
Reinstall(d) ==
  /\ hostKey[d] < MaxGen[d]
  /\ hostKey' = [hostKey EXCEPT ![d] = @ + 1]
  /\ UNCHANGED <<row, running, visit, request, pools, history>>

-----------------------------------------------------------------------------
(* Connecting *)

Move(v, pc) == visit' = [visit EXCEPT ![v].pc = pc]
Leave(v)    == visit' = [visit EXCEPT ![v] = Idle]

\* A visit takes the row of a as it is.
Reads(v, a) ==
  /\ visit[v].pc = "idle" /\ Exists(a)
  /\ visit' = [visit EXCEPT ![v] = [pc |-> "read", on |-> a, saw |-> row[a], key |-> None]]

\* The visit becomes visible to update_asset.
Starts(v) ==
  LET a == visit[v].on
  IN /\ visit[v].pc = "read" /\ Exists(a)
     /\ Move(v, "open")
     /\ raced' = [raced EXCEPT ![a] = @ \/ row[a] # visit[v].saw \/
                    \E u \in Admin : request[u].pc = "read" /\ request[u].on = a]

\* The modes with credentials of their own pin the key: the first is learned,
\* another one is refused.  The management key trusts known_hosts instead.
Connects(v) ==
  LET r == visit[v].saw
      k == <<r.addr, hostKey[r.addr]>>
  IN /\ visit[v].pc = "open"
     /\ r.auth = "password" => r.pw # None
     /\ r.auth = "private_key" => r.pem # None /\ Opens(r.pem, r.pw)
     /\ r.auth # "key" => r.pin \in {None, k}
     /\ visit' = [visit EXCEPT ![v].pc = "met",
                    ![v].key = IF r.auth # "key" /\ r.pin = None THEN k ELSE None]

\* A row without a key that w has read and writes back to.
MayPin(w, a) ==
  /\ visit[w].on = a
  /\ visit[w].pc \in IF w \in Check THEN {"read", "open", "met"} ELSE {"reloaded"}
  /\ visit[w].saw.pin = None

\* What the row becomes when a visit is done.
Pins(v) ==
  LET a == visit[v].on
      first == visit[v].key # None /\ visit[v].saw.pin = None
  IN /\ row' = [row EXCEPT ![a].pin = IF first THEN visit[v].key ELSE @]
     /\ overlapped' = [overlapped EXCEPT ![a] = @ \/ (first /\ \E w \in Visit \ {v} : MayPin(w, a))]

-----------------------------------------------------------------------------
(* run_collection *)

\* The checks whose rows say RUNNING.
AtWork(a) == {v \in Check : visit[v].on = a /\ visit[v].pc \in {"open", "met"}}

CheckReads(v, a) ==
  /\ v \in Manual /\ a \in ByHand
  /\ Reads(v, a)
  /\ UNCHANGED <<row, running, request, hostKey, pools, history>>

CheckStarts(v) ==
  /\ Starts(v)
  /\ running' = [running EXCEPT ![visit[v].on] = @ + 1]
  /\ UNCHANGED <<row, request, hostKey, pools, mishap, overlapped>>

CheckConnects(v) ==
  /\ Connects(v)
  /\ UNCHANGED <<row, running, request, hostKey, pools, history>>

\* Mutant: the status of a failed check is not committed.
CheckFailsUnsaved(v) ==
  /\ visit[v].pc \in {"open", "met"} /\ Exists(visit[v].on)
  /\ Leave(v)
  /\ UNCHANGED <<row, running, request, hostKey, pools, history>>

\* Mutant: the row is written whether it is still there or not.
CheckFailsAnyway(v) ==
  /\ visit[v].pc \in {"open", "met"}
  /\ running' = [running EXCEPT ![visit[v].on] = @ - 1]
  /\ Leave(v)
  /\ UNCHANGED <<row, request, hostKey, pools, history>>

\* Mutant: the failure is passed on to the caller, which has no handler.
CheckFailsLoudly(v) ==
  /\ visit[v].pc \in {"open", "met"} /\ Exists(visit[v].on)
  /\ running' = [running EXCEPT ![visit[v].on] = @ - 1]
  /\ Leave(v)
  /\ IF v = Daily THEN pass' = "idle" /\ todo' = {}
     ELSE UNCHANGED pools
  /\ UNCHANGED <<row, request, hostKey, history>>

\* A required command fails, output that is no number, the connection is
\* refused or lost: a CollectionFailure, stored in the row of the job.
CheckFails(v) ==
  /\ visit[v].pc \in {"open", "met"} /\ Exists(visit[v].on)
  /\ running' = [running EXCEPT ![visit[v].on] = @ - 1]
  /\ Leave(v)
  /\ UNCHANGED <<row, request, hostKey, pools, history>>

CheckSucceeds(v) ==
  /\ visit[v].pc = "met" /\ Exists(visit[v].on)
  /\ Pins(v)
  /\ running' = [running EXCEPT ![visit[v].on] = @ - 1]
  /\ Leave(v)
  /\ UNCHANGED <<request, hostKey, pools, mishap, raced>>

\* No handler for the error, or the process dies: the row stays RUNNING, and
\* the pass of the worker ends with the check.
CheckEscapes(v) ==
  /\ visit[v].pc # "idle"
  /\ Escapes \/ ~Exists(visit[v].on)
  /\ running[visit[v].on] < MaxStuck + Cardinality(AtWork(visit[v].on))
  /\ Leave(v)
  /\ mishap' = TRUE
  /\ IF v = Daily THEN pass' = "idle" /\ todo' = {}
     ELSE UNCHANGED pools
  /\ UNCHANGED <<row, running, request, hostKey, raced, overlapped>>

-----------------------------------------------------------------------------
(* collect_all_monitored_assets *)

PassBegins ==
  /\ pass = "idle"
  /\ pass' = "running"
  /\ todo' = {a \in Asset : Exists(a) /\ row[a].monitored}
  /\ UNCHANGED <<row, running, visit, request, hostKey, history>>

PassVisits(a) ==
  /\ pass = "running" /\ a \in todo
  /\ Reads(Daily, a)
  /\ todo' = todo \ {a}
  /\ UNCHANGED <<row, running, request, hostKey, pass, history>>

\* run_collection raises ASSET_NOT_FOUND itself, and nobody catches it.
PassFindsNoAsset(a) ==
  /\ pass = "running" /\ a \in todo /\ visit[Daily].pc = "idle" /\ ~Exists(a)
  /\ pass' = "idle" /\ todo' = {}
  /\ mishap' = TRUE
  /\ UNCHANGED <<row, running, visit, request, hostKey, raced, overlapped>>

PassEnds ==
  /\ pass = "running" /\ todo = {} /\ visit[Daily].pc = "idle"
  /\ pass' = "idle"
  /\ UNCHANGED <<row, running, visit, request, hostKey, todo, history>>

-----------------------------------------------------------------------------
(* An analysis job of the server kind *)

SnapshotTarget(v, a) ==
  /\ Reads(v, a) /\ row[a].monitored
  /\ UNCHANGED <<row, running, request, hostKey, pools, history>>

\* The unique column lets one job at a time be active.
QueueAnalysis(v) ==
  /\ ~Analysing(visit[v].on)
  /\ Starts(v)
  /\ UNCHANGED <<row, running, request, hostKey, pools, mishap, overlapped>>

\* _check_target: every TARGET_FIELD as in the snapshot.
TargetMatches(v) ==
  /\ Exists(visit[v].on)
  /\ \A f \in {"addr", "auth"} : row[visit[v].on][f] = visit[v].saw[f]
  /\ row[visit[v].on].monitored

AnalysisConnects(v) ==
  /\ Connects(v) /\ TargetMatches(v)
  /\ UNCHANGED <<row, running, request, hostKey, pools, history>>

\* Mutant: the import trusts the snapshot.
ImportReadsNothing(v) ==
  /\ visit[v].pc = "met" /\ TargetMatches(v)
  /\ Move(v, "reloaded")
  /\ UNCHANGED <<row, running, request, hostKey, pools, history>>

\* The import reads the asset for the check and has it until it commits.
ImportReads(v) ==
  /\ visit[v].pc = "met" /\ TargetMatches(v)
  /\ visit' = [visit EXCEPT ![v].pc = "reloaded", ![v].saw = row[visit[v].on]]
  /\ UNCHANGED <<row, running, request, hostKey, pools, history>>

ImportCommits(v) ==
  /\ visit[v].pc = "reloaded" /\ Exists(visit[v].on)
  /\ Pins(v)
  /\ Leave(v)
  /\ UNCHANGED <<running, request, hostKey, pools, mishap, raced>>

AnalysisFails(v) ==
  /\ visit[v].pc # "idle"
  /\ Leave(v)
  /\ UNCHANGED <<row, running, request, hostKey, pools, history>>

-----------------------------------------------------------------------------
CheckStep(v) == CheckStarts(v) \/ CheckConnects(v) \/ CheckFails(v) \/ CheckSucceeds(v) \/ CheckEscapes(v)

AnalysisStep(v) == QueueAnalysis(v) \/ AnalysisConnects(v) \/ ImportReads(v) \/ ImportCommits(v) \/ AnalysisFails(v)

PassStep == PassEnds \/ \E a \in Asset : PassVisits(a) \/ PassFindsNoAsset(a)

Next ==
  \/ \E a \in Asset : DeleteAsset(a) \/ \E e \in Edits[a] : CreateAsset(a, e)
  \/ \E u \in Admin : \/ \E a \in Asset : \E e \in Edits[a] : ReadForUpdate(u, a, e)
                      \/ CommitUpdate(u) \/ UpdateFails(u)
  \/ \E d \in Addr : Reinstall(d)
  \/ \E v \in Check : CheckStep(v) \/ \E a \in Asset : CheckReads(v, a)
  \/ \E v \in Analysis : AnalysisStep(v) \/ \E a \in Scanned : SnapshotTarget(v, a)
  \/ PassBegins \/ PassStep

Spec == Init /\ [][Next]_vars

-----------------------------------------------------------------------------
(* Properties *)

\* Every variable keeps its type; a RUNNING row is counted for every check
\* that works.
TypeOK ==
  /\ row \in [Asset -> Row \cup {Unborn, Gone}]
  /\ running \in [Asset -> Nat]
  /\ visit \in [Visit -> [pc : {"idle", "read", "open", "met", "reloaded"}, on : Asset,
                          saw : Row \cup {Unborn}, key : Key \cup {None}]]
  /\ request \in [Admin -> [pc : {"idle", "read"}, on : Asset,
                            saw : Row \cup {Unborn}, form : Edit \cup {None}]]
  /\ hostKey \in [Addr -> Nat] /\ \A d \in Addr : hostKey[d] \in 1..MaxGen[d]
  /\ todo \subseteq Asset /\ pass \in {"idle", "running"}
  /\ mishap \in BOOLEAN
  /\ raced \in [Asset -> BOOLEAN]
  /\ overlapped \in [Asset -> BOOLEAN]

\* An asset that is in use and was not changed in a race has what its mode
\* needs and nothing else, and its passphrase opens its key, whatever forms
\* were sent one after another (_apply_credentials).
CredentialsFit ==
  \A a \in Asset : Exists(a) /\ ~raced[a] =>
    /\ row[a].auth # "private_key" => row[a].pem = None
    /\ row[a].auth = "key" => row[a].pw = None
    /\ row[a].auth = "password" => row[a].pw # None
    /\ row[a].auth = "private_key" => row[a].pem # None /\ Opens(row[a].pem, row[a].pw)

\* The pinned key was met at the address of the row: an old visit never pins
\* the key of the address before, and a change of the address never keeps it
\* (assets.py:146, collector.py:484, analysis_jobs.py:355).
PinFitsAddress ==
  \A a \in Asset : Exists(a) /\ ~raced[a] /\ row[a].pin # None => row[a].pin[1] = row[a].addr

\* While no check escaped, every RUNNING row has its check at work, so the
\* settings of the asset are not locked for ever (collector.py:480).
RunningIsAlive ==
  mishap \/ \A a \in Asset : Exists(a) =>
    running[a] = Cardinality(AtWork(a))

\* A request holds a row that was there and a form that suits it; a visit holds a
\* row too, and a key of its address; only imports reload.
RequestsHold ==
  \A u \in Admin : request[u].pc = "read" =>
    /\ row[request[u].on] # Unborn
    /\ request[u].saw \in Row /\ request[u].form \in Edit /\ Acceptable(request[u].saw, request[u].form)

VisitsHold ==
  \A v \in Visit :
    /\ visit[v].pc # "idle" => visit[v].saw \in Row /\ row[visit[v].on] # Unborn
    /\ visit[v].key # None => visit[v].pc # "idle" /\ visit[v].key[1] = visit[v].saw.addr
    /\ visit[v].pc = "reloaded" => v \in Analysis

\* A check at work has a RUNNING row, so update_asset sees it; while a visit can
\* be seen, no request holds its asset, whose address stays what it read.
WorkIsSeen ==
  \A a \in Asset : IF Exists(a) THEN running[a] >= Cardinality(AtWork(a)) ELSE running[a] = 0

SeenKeepsAddress ==
  \A v \in Visit :
    LET a == visit[v].on
    IN  visit[v].pc \in {"open", "met", "reloaded"} /\ Exists(a) /\ ~raced[a] =>
          /\ row[a].addr = visit[v].saw.addr
          /\ \A u \in Admin : ~(request[u].pc = "read" /\ request[u].on = a)

\* Where a key is pinned, nobody is about to write one, but in an overlap.
PinIsLast ==
  \A a \in Asset : Exists(a) /\ ~overlapped[a] /\ row[a].pin # None => \A v \in Visit : ~MayPin(v, a)

\* The invariant of the proofs.
IInv ==
  /\ TypeOK /\ CredentialsFit /\ PinFitsAddress /\ RunningIsAlive
  /\ RequestsHold /\ VisitsHold /\ WorkIsSeen /\ SeenKeepsAddress /\ PinIsLast

\* A target that cannot be checked does not keep the daily pass from the
\* assets after it: only an error that escapes ends a pass early
\* (worker.py:14).
PassSkipsNoOne == [][pass = "running" /\ pass' = "idle" /\ ~mishap' => todo = {}]_vars

\* A pinned key is not replaced by another one but through a reset, as
\* PinnedHostKeyPolicy promises (ssh_auth.py:60), however the target was
\* installed again and however visits interleave: only a check that read the
\* row before the key was pinned, or an import between its read and its
\* commit, can replace it.
KeyAcceptedOnce ==
  [][\A a \in Asset : row[a] \in Row /\ row'[a] \in Row /\ row[a].pin # None /\ ~overlapped[a] =>
       row'[a].pin \in {None, row[a].pin}]_vars

=============================================================================
