------------------------- MODULE OpportunityReview -------------------------
(***************************************************************************)
(* The review of opportunities: human and system transitions, ownership,   *)
(* evidence overrides, cost-bounded batches, promotion to a full scan and  *)
(* rescoring (opportunity_review/services.py and two endpoints of          *)
(* main.py), beside the scan pipeline that moves the same rows.            *)
(*                                                                         *)
(* A mutation is a database transaction of three steps here: Load reads    *)
(* the rows, checks them and keeps the writes it wants (a plan); Enter     *)
(* takes the advisory lock of the audit log and reads the head of the      *)
(* chain; Commit writes the plan and the audit event together.  Nothing    *)
(* locks the opportunity row, so a plan may be out of date when it is      *)
(* written.  The pipeline works on the copy of the opportunity its session *)
(* loaded when the scan started.                                           *)
(***************************************************************************)
EXTENDS Naturals, Sequences, FiniteSets, OpportunityStates

CONSTANTS
    Opps,          \* opportunities
    Cost,          \* estimated uncached cost of a scan of each opportunity
    Batches,       \* batch plans
    Requests,      \* web requests that can be in flight
    Targets,       \* evidence fields an override can interpret
    ReviewTargets, \* states reviewers ask for
    Budgets,       \* aggregate budgets and approvals they declare
    MaxVersion,    \* bound on review versions of an opportunity
    MaxScans,      \* bound on scan rows
    MaxOverrides,  \* bound on override rows
    MaxEvents,     \* bound on audit events
    Events,        \* "fail", "partial": outcomes of a scan; "abort": a
                   \* request dies; "sync", "direct": scans that api_scan
                   \* runs itself, or queues without a review
    None

ASSUME ReviewConstants ==
    /\ IsFiniteSet(Opps)
    /\ Cost \in [Opps -> Nat]
    /\ MaxVersion \in Nat
    /\ Budgets \subseteq Nat
    /\ None \notin Requests \cup Batches \cup Budgets

VARIABLES
    opp,        \* opportunities rows; a review row is added with every new version
    overrides,  \* evidence_overrides rows, by id
    batch,      \* batch_scan_plans rows with their items
    scans,      \* scan_runs rows, by id
    audit,      \* audit_events rows: the event each one is linked to, and
                \* whether it is the second one of its transaction
    lock,       \* holder of the advisory lock
    req,        \* the plan of each request
    contested,  \* history: opportunities and batches about which two requests
                \* were under way at the same time
    revived     \* history: opportunities of which a worker queued a failed scan
                \* again when another one was active or about to be queued

vars == <<opp, overrides, batch, scans, audit, lock, req, contested, revived>>
-----------------------------------------------------------------------------
OpportunityRow ==
    [status : OppStates, version : Nat, owner : BOOLEAN, approved : BOOLEAN]
OverrideRow == [target : Targets, reverses : Nat]
BatchRow ==
    [status : {"planned", "confirmed", "queued"}, profile : {"testing", "full"},
     items : SUBSET Opps, budget : Budgets, approved : Budgets \cup {None}]
ASSUME NoneIsNoRow == None \notin BatchRow
ScanRow ==
    [opp : Opps, profile : {"testing", "full"}, batch : Batches \cup {None},
     reviewed : BOOLEAN,            \* queued by a batch or a promotion
     manual : Requests \cup {None}, \* the request that runs a synchronous scan
     status : {"queued", "running", "completed", "failed", "quarantined"},
     evidence : {"complete", "partial", "fail", None}, \* its newest full score
     gate : BOOLEAN,        \* evidence_quality of its own outputs does not fail
     held : BOOLEAN,        \* failed, and its worker has one transaction to go
     finished : Nat,        \* its place in the order of completed_at, 0 before
     copy : OpportunityRow \cup {None}] \* the opportunity in the pipeline's session
\* What a request that has loaded its rows will write: moves of opportunities,
\* an owner, a row of overrides or of a batch, scans to queue, a new score.
MoveRow == [from : OppStates, to : OppStates, version : 0..MaxVersion]
Moves == UNION {[S -> MoveRow] : S \in SUBSET Opps}
Scores == [scan : Nat, full : BOOLEAN, evidence : {"complete", "partial", "fail"}]
PlanRow ==
    [at : {"loaded", "entered", "scanning", "queueing"}, head : Nat, events : {1, 2},
     moves : Moves, owner : BOOLEAN, override : OverrideRow \cup {None},
     batch : Batches \cup {None}, row : BatchRow \cup {None},
     queue : SUBSET Opps, profile : {"testing", "full", None},
     rescore : Scores \cup {None}]

Init ==
    /\ opp = [o \in Opps |-> [status |-> "discovered", version |-> 0, owner |-> FALSE,
                              approved |-> FALSE]]
    /\ overrides = <<>>
    /\ batch = [b \in Batches |-> None]
    /\ scans = <<>>
    /\ audit = <<>>
    /\ lock = None
    /\ req = [r \in Requests |-> None]
    /\ contested = {}
    /\ revived = {}

\* The sum of the values of a function to numbers: how many units they are.
Total(f) == Cardinality(UNION {{x} \X (1..f[x]) : x \in DOMAIN f})
Estimate(items) == Total([o \in items |-> Cost[o]])
ActiveScans(items) ==
    {i \in DOMAIN scans : scans[i].opp \in items /\ scans[i].status \in {"queued", "running"}}
Completed(o, profile) ==
    {i \in DOMAIN scans : scans[i].opp = o /\ scans[i].profile = profile
                          /\ scans[i].status = "completed"}
\* The scan with the highest id, and the one that completed last.
Last(ids) == {i \in ids : \A j \in ids : j <= i}
Newest(ids) == {i \in ids : \A j \in ids : scans[j].finished <= scans[i].finished}
-----------------------------------------------------------------------------
(* Plans: what a request that has loaded its rows will write.              *)

\* transition of the copy of an opportunity row to a state.
Move(copy, to) == [from |-> copy.status, to |-> to, version |-> copy.version + 1]

NoMoves == [o \in {} |-> None]
NoPlan ==
    [at |-> "loaded", head |-> 0, events |-> 1, moves |-> NoMoves, owner |-> FALSE, override |-> None,
     batch |-> None, row |-> None, queue |-> {}, profile |-> None, rescore |-> None]

\* The opportunities and batches a plan is about.
Subjects(p) ==
    DOMAIN p.moves \cup p.queue \cup ({p.batch} \ {None})
        \cup (IF p.rescore = None THEN {} ELSE {scans[p.rescore.scan].opp})
\* Those some request is about: one that loaded its rows and has not ended, or
\* one that runs the pipeline itself.
UnderWay ==
    (UNION {Subjects(req[r]) : r \in {q \in Requests : req[q] # None}})
        \cup {scans[i].opp : i \in {j \in DOMAIN scans : scans[j].status = "running"
                                                          /\ scans[j].manual # None}}

Load(r, plan) ==
    /\ \A o \in DOMAIN plan.moves : plan.moves[o].version <= MaxVersion
    /\ Len(scans) + Cardinality(plan.queue) <= MaxScans
    /\ req' = [req EXCEPT ![r] = plan]
    /\ contested' = contested \cup (Subjects(plan) \cap UnderWay)
    /\ UNCHANGED <<opp, overrides, batch, scans, audit, lock, revived>>

\* Mutant of Complete: an approval needs no owner.
MutCompleteNoOwner(o) ==
    \E i \in Newest(Completed(o, "full")) : scans[i].evidence = "complete" /\ scans[i].gate
\* approval_completeness: an owner, and a complete score and an evidence gate
\* that did not fail, both of the full scan completed last.
Complete(o) ==
    /\ opp[o].owner
    /\ \E i \in Newest(Completed(o, "full")) :
          scans[i].evidence = "complete" /\ scans[i].gate

\* The request may name an owner, which completeness does not look at yet.
LoadTransition(r, o, to, owner) ==
    /\ to \in AllowedTransitions[opp[o].status]
    /\ to = "approved_for_property" => Complete(o)
    /\ Load(r, [NoPlan EXCEPT !.moves = [x \in {o} |-> Move(opp[o], to)],
                              !.owner = owner])

LoadOwner(r, o) ==
    Load(r, [NoPlan EXCEPT !.moves = [x \in {o} |-> Move(opp[o], opp[o].status)],
                           !.owner = TRUE])

Reversed(i) == \E j \in DOMAIN overrides : overrides[j].reverses = i
\* _active_override: an application of the field that no row reverses.
ActiveOverride(t) ==
    \E i \in DOMAIN overrides :
        overrides[i].target = t /\ overrides[i].reverses = 0 /\ ~Reversed(i)

LoadApply(r, t) ==
    /\ Len(overrides) < MaxOverrides
    /\ ~ActiveOverride(t)
    /\ Load(r, [NoPlan EXCEPT !.override = [target |-> t, reverses |-> 0]])

LoadReverse(r, i) ==
    /\ i \in DOMAIN overrides /\ Len(overrides) < MaxOverrides
    /\ overrides[i].reverses = 0 /\ ~Reversed(i)
    /\ Load(r, [NoPlan EXCEPT !.override = [target |-> overrides[i].target, reverses |-> i]])

\* The states create_batch_plan accepts for a profile.
Eligible(profile) ==
    {"preliminary_review", "needs_more_evidence"}
        \cup (IF profile = "testing" THEN {"discovered", "prefilter_review"} ELSE {})

LoadCreateBatch(r, b, items, profile, budget) ==
    /\ batch[b] = None /\ items # {}
    /\ \A o \in items : opp[o].status \in Eligible(profile)
    /\ Estimate(items) <= budget
    /\ Load(r, [NoPlan EXCEPT
            !.batch = b,
            !.row = [status |-> "planned", profile |-> profile, items |-> items,
                     budget |-> budget, approved |-> None],
            !.moves = IF profile = "full" THEN NoMoves
                      ELSE [o \in items |-> Move(opp[o], "testing_planned")]])

\* Mutant of Confirmable: the approval is not compared with the plan's budget.
MutConfirmAboveBudget(b, amount) ==
    batch[b] # None /\ batch[b].status = "planned" /\ Estimate(batch[b].items) <= amount
\* The checks of confirm_batch on the approved amount.
Confirmable(b, amount) ==
    /\ batch[b] # None
    /\ batch[b].status = "planned"
    /\ Estimate(batch[b].items) <= amount
    /\ amount <= batch[b].budget

LoadConfirm(r, b, amount) ==
    LET items == IF batch[b] = None THEN {} ELSE batch[b].items
    IN  /\ Confirmable(b, amount)
        /\ batch[b].profile = "full" =>
              \A o \in items : "full_scan_approved" \in AllowedTransitions[opp[o].status]
        /\ Load(r, [NoPlan EXCEPT
                !.batch = b,
                !.row = [batch[b] EXCEPT !.status = "confirmed", !.approved = amount],
                !.moves = IF batch[b].profile = "testing" THEN NoMoves
                          ELSE [o \in items |-> Move(opp[o], "full_scan_approved")]])

\* Mutant of Free: a queued scan that no worker has claimed does not count.
MutFreeIfNotRunning(items) == \A i \in ActiveScans(items) : scans[i].status = "queued"
\* No opportunity of the set has a queued or running scan.
Free(items) == ActiveScans(items) = {}

LoadQueueBatch(r, b) ==
    /\ batch[b] # None /\ batch[b].status = "confirmed"
    /\ Estimate(batch[b].items) <= batch[b].approved
    /\ Free(batch[b].items)
    /\ Load(r, [NoPlan EXCEPT !.batch = b, !.row = [batch[b] EXCEPT !.status = "queued"],
                              !.queue = batch[b].items, !.profile = batch[b].profile])

LoadPromote(r, o) ==
    /\ Free({o})
    /\ \E source \in Last(Completed(o, "testing")) : scans[source].gate
    /\ "full_scan_approved" \in AllowedTransitions[opp[o].status]
    /\ Load(r, [NoPlan EXCEPT !.moves = [x \in {o} |-> Move(opp[o], "full_scan_approved")],
                              !.queue = {o}, !.profile = "full"])

\* The review state that evidence of a profile calls for.
ReviewState(profile, evidence) ==
    CASE evidence = "fail" -> "needs_more_evidence"
      [] evidence # "fail" /\ profile = "testing" -> "preliminary_review"
      [] evidence = "partial" /\ profile = "full" -> "needs_more_evidence"
      [] evidence = "complete" /\ profile = "full" -> "full_review"

\* api_opportunity_rescore: the evidence stored last is scored again, and the
\* score is recorded for the newest scan, whatever became of that one; an
\* approval only gives way to missing evidence.
LoadRescore(r, o, evidence) ==
    \E stored \in Newest(Completed(o, "testing") \cup Completed(o, "full")),
       newest \in Last({k \in DOMAIN scans : scans[k].opp = o}) :
        LET profile == scans[stored].profile
            to == ReviewState(profile, evidence)
            moves == opp[o].status # "approved_for_property" \/ to = "needs_more_evidence"
        IN  /\ moves => CanTransition(opp[o].status, to)
            /\ Load(r, [NoPlan EXCEPT
                    !.rescore = [scan |-> newest, full |-> profile = "full",
                                 evidence |-> evidence],
                    !.moves = IF moves /\ to # opp[o].status
                              THEN [x \in {o} |-> Move(opp[o], to)] ELSE NoMoves])

\* _queue_scan as far as its commit: a testing scan moves the opportunity, and
\* nobody looks for another active scan of it.
LoadDirect(r, o, profile, events) ==
    /\ "direct" \in Events
    /\ Len(audit) + events <= MaxEvents
    /\ profile = "testing" => CanTransition(opp[o].status, "testing_planned")
    /\ Load(r, [NoPlan EXCEPT
            !.at = "queueing", !.events = events, !.queue = {o}, !.profile = profile,
            !.moves = IF profile = "full" \/ opp[o].status = "testing_planned" THEN NoMoves
                      ELSE [x \in {o} |-> Move(opp[o], "testing_planned")]])

\* What api_scan asks of a scan before it queues or runs it: only a live full
\* scan needs the reviewer's approval.
Admitted(o, profile, live) ==
    live /\ profile = "full" => opp[o].status = "full_scan_approved"
\* api_scan with async_run; a confirmed cost is a second audit event.
LoadScan(r, o, profile, live, confirmed) ==
    /\ Admitted(o, profile, live)
    /\ LoadDirect(r, o, profile, IF confirmed THEN 2 ELSE 1)
\* api_retry_scan: a new scan like one that has ended.
LoadRetry(r, i) ==
    /\ i \in DOMAIN scans /\ scans[i].status \notin {"queued", "running"}
    /\ LoadDirect(r, scans[i].opp, scans[i].profile, 1)
-----------------------------------------------------------------------------
(* The end of a request.                                                   *)

\* Mutant of MayEnter: the chain head is read without the lock.
MutEnterUnlocked(r) == TRUE
\* pg_advisory_xact_lock: one transaction at a time between here and its commit.
MayEnter(r) == lock = None

Enter(r) ==
    /\ req[r] # None /\ req[r].at = "loaded"
    /\ MayEnter(r)
    /\ lock' = r
    /\ req' = [req EXCEPT ![r].at = "entered", ![r].head = Len(audit)]
    /\ UNCHANGED <<opp, overrides, batch, scans, audit, contested, revived>>

\* The row of o once the plan has been flushed: the columns it changed come
\* from the plan, approved_at follows the state the plan has seen.
Flushed(o, m, owner) ==
    [status |-> IF m.to = m.from THEN opp[o].status ELSE m.to,
     version |-> m.version, owner |-> owner \/ opp[o].owner,
     approved |-> IF "approved_for_property" \in {m.from, m.to} /\ m.to # m.from
                  THEN m.to = "approved_for_property" ELSE opp[o].approved]

\* uq_evidence_override_reversal refuses a second reversal.
ReversalTaken(p) ==
    p.override # None /\ p.override.reverses # 0 /\ Reversed(p.override.reverses)

NewScan(o, p) ==
    [opp |-> o, profile |-> p.profile, batch |-> p.batch, reviewed |-> p.at = "entered",
     manual |-> None, status |-> "queued", evidence |-> None, gate |-> FALSE,
     held |-> FALSE, finished |-> 0, copy |-> None]
Queued(p) ==
    LET order == CHOOSE s \in [1..Cardinality(p.queue) -> p.queue] :
                     \A i, j \in DOMAIN s : s[i] = s[j] => i = j
    IN  [i \in DOMAIN order |-> NewScan(order[i], p)]

\* append_audit_event: the session does not flush between two events of one
\* transaction, so the second finds the same newest row as the first.
Appended(p) == [k \in 1..p.events |-> [head |-> p.head, second |-> k = 2]]

Done(r) ==
    /\ lock' = IF lock = r THEN None ELSE lock
    /\ req' = [req EXCEPT ![r] = None]

\* The opportunity rows a plan leaves.
Moved(p) ==
    [o \in Opps |-> IF o \in DOMAIN p.moves THEN Flushed(o, p.moves[o], p.owner) ELSE opp[o]]

Commit(r) ==
    LET p == req[r] IN
    /\ p # None /\ p.at = "entered"
    /\ ~ReversalTaken(p)
    /\ opp' = Moved(p)
    /\ overrides' = IF p.override = None THEN overrides ELSE Append(overrides, p.override)
    /\ batch' = IF p.batch = None THEN batch ELSE [batch EXCEPT ![p.batch] = p.row]
    /\ scans' = IF p.rescore # None /\ p.rescore.full
                THEN [scans EXCEPT ![p.rescore.scan].evidence = p.rescore.evidence]
                ELSE scans \o Queued(p)
    /\ audit' = audit \o Appended(p)
    /\ Done(r)
    /\ UNCHANGED <<contested, revived>>

\* _queue_scan commits the scan; the audit events of the endpoint follow in a
\* transaction of their own.
CommitDirect(r) ==
    LET p == req[r] IN
    /\ p # None /\ p.at = "queueing"
    /\ opp' = Moved(p)
    /\ \E o \in p.queue : scans' = Append(scans, NewScan(o, p))
    /\ req' = [req EXCEPT ![r] = [NoPlan EXCEPT !.events = p.events]]
    /\ UNCHANGED <<overrides, batch, audit, lock, contested, revived>>

\* The request dies or the database refuses it: the transaction is rolled back.
RollBack(r) ==
    /\ req[r] # None
    /\ "abort" \in Events \/ ReversalTaken(req[r])
    /\ Done(r)
    /\ UNCHANGED <<opp, overrides, batch, scans, audit, contested, revived>>
-----------------------------------------------------------------------------
(* The scan pipeline.                                                      *)

\* Writes a system transition computed from the pipeline's own copy.
SystemMove(i, to) ==
    LET o == scans[i].opp
        m == Move(scans[i].copy, to)
    IN  IF scans[i].copy.status = to THEN UNCHANGED opp
        ELSE /\ m.version <= MaxVersion
             /\ opp' = [opp EXCEPT ![o] = Flushed(o, m, FALSE)]

RunningState(profile) == IF profile = "testing" THEN "testing_running" ELSE "full_running"

\* transition_system at the start of a scan, on a freshly loaded row.
MayRun(i) == CanTransition(opp[scans[i].opp].status, RunningState(scans[i].profile))

StartScan(i) ==
    LET o == scans[i].opp
        running == RunningState(scans[i].profile)
    IN
    /\ scans[i].status = "queued"
    /\ MayRun(i)
    /\ opp[o].version < MaxVersion
    /\ opp' = [opp EXCEPT ![o] = IF @.status = running THEN @
                                 ELSE Flushed(o, Move(@, running), FALSE)]
    /\ scans' = [scans EXCEPT ![i].status = "running", ![i].copy = opp'[o]]
    /\ UNCHANGED <<overrides, batch, audit, lock, req, contested, revived>>

\* A transition the table does not know ends the run before the pipeline's
\* failure handler is there: the claim goes stale and the scan is recovered,
\* until its attempts are used up.
RefuseScan(i) ==
    /\ scans[i].status = "queued"
    /\ ~MayRun(i)
    /\ scans' = [scans EXCEPT ![i].status = "quarantined"]
    /\ UNCHANGED <<opp, overrides, batch, audit, lock, req, contested, revived>>

\* api_scan without async_run: the handler runs the pipeline itself, and again
\* nobody looks for another active scan.
SyncScan(r, o, profile, live, confirmed) ==
    LET running == RunningState(profile)
        row == [opp |-> o, profile |-> profile, batch |-> None, reviewed |-> FALSE,
                manual |-> r, status |-> "running", evidence |-> None, gate |-> FALSE,
                held |-> FALSE, finished |-> 0,
                copy |-> IF opp[o].status = running THEN opp[o]
                         ELSE Flushed(o, Move(opp[o], running), FALSE)]
    IN
    /\ "sync" \in Events
    /\ Len(scans) < MaxScans
    /\ confirmed => Len(audit) + 2 <= MaxEvents
    /\ Admitted(o, profile, live)
    /\ CanTransition(opp[o].status, running)
    /\ opp[o].version < MaxVersion
    /\ opp' = [opp EXCEPT ![o] = row.copy]
    /\ scans' = Append(scans, row)
    /\ req' = [req EXCEPT ![r] = [NoPlan EXCEPT !.at = "scanning",
                                                !.events = IF confirmed THEN 2 ELSE 1]]
    /\ contested' = contested \cup ({o} \cap UnderWay)
    /\ UNCHANGED <<overrides, batch, audit, lock, revived>>

Completions == Cardinality({i \in DOMAIN scans : scans[i].status = "completed"})

\* The pipeline commits its result; the handler's audit event follows in a
\* transaction of its own.
FinishScan(i, evidence) ==
    LET r == scans[i].manual IN
    /\ scans[i].status = "running" /\ r # None
    /\ req[r] # None /\ req[r].at = "scanning"
    /\ evidence = "complete" \/ evidence \in Events
    /\ SystemMove(i, ReviewState(scans[i].profile, evidence))
    /\ scans' = [scans EXCEPT ![i].status = "completed", ![i].evidence = evidence,
                              ![i].gate = evidence # "fail", ![i].finished = Completions + 1,
                              ![i].copy = None]
    /\ req' = [req EXCEPT ![r].at = "loaded"]
    /\ UNCHANGED <<overrides, batch, audit, lock, contested, revived>>

\* The failure handler of the pipeline works on its own copy too and commits a
\* failed scan.  The request of a synchronous scan ends in an error; a worker has
\* one more transaction to go.
FailScan(i) ==
    LET r == scans[i].manual IN
    /\ scans[i].status = "running"
    /\ r # None => req[r] # None /\ req[r].at = "scanning"
    /\ SystemMove(i, "needs_more_evidence")
    /\ scans' = [scans EXCEPT ![i].status = "failed", ![i].held = r = None, ![i].copy = None]
    /\ req' = IF r = None THEN req ELSE [req EXCEPT ![r] = None]
    /\ UNCHANGED <<overrides, batch, audit, lock, contested, revived>>

\* The last transaction of a worker whose scan failed: the scan stays failed, is
\* queued again, or is quarantined when its attempts are used up.  Nobody looks
\* for another scan of the opportunity here.
EndFailed(i, status) ==
    LET o == scans[i].opp IN
    /\ scans[i].status = "failed" /\ scans[i].held
    /\ scans' = [scans EXCEPT ![i].status = status, ![i].held = FALSE]
    /\ revived' = IF /\ status = "queued"
                      /\ \/ ActiveScans({o}) # {}
                         \/ \E r \in Requests : req[r] # None /\ o \in req[r].queue
                   THEN revived \cup {o} ELSE revived
    /\ UNCHANGED <<opp, overrides, batch, audit, lock, req, contested>>

\* A scan whose worker lost it, as at the last lease check, which reads the status
\* the pipeline has just flushed and fails (ScanExecution): its lease runs out and
\* it is queued again, until its attempts are used up.
LoseScan(i, status) ==
    /\ scans[i].status = "running" /\ scans[i].manual = None
    /\ scans' = [scans EXCEPT ![i].status = status, ![i].copy = None]
    /\ UNCHANGED <<opp, overrides, batch, audit, lock, req, contested, revived>>
-----------------------------------------------------------------------------
\* A request comes in: it loads its rows, or runs a scan itself.
NewRequest(r) ==
    \/ \E o \in Opps, to \in ReviewTargets, owner \in BOOLEAN :
          LoadTransition(r, o, to, owner)
    \/ \E o \in Opps : LoadOwner(r, o) \/ LoadPromote(r, o)
    \/ \E o \in Opps, profile \in {"testing", "full"}, live, confirmed \in BOOLEAN :
          SyncScan(r, o, profile, live, confirmed) \/ LoadScan(r, o, profile, live, confirmed)
    \/ \E i \in DOMAIN scans : LoadRetry(r, i)
    \/ \E t \in Targets : LoadApply(r, t)
    \/ \E i \in 1..MaxOverrides : LoadReverse(r, i)
    \/ \E b \in Batches, items \in SUBSET Opps, profile \in {"testing", "full"},
          budget \in Budgets : LoadCreateBatch(r, b, items, profile, budget)
    \/ \E b \in Batches, amount \in Budgets : LoadConfirm(r, b, amount)
    \/ \E b \in Batches : LoadQueueBatch(r, b)
    \/ \E o \in Opps, e \in {"complete"} \cup (Events \cap {"partial", "fail"}) :
          LoadRescore(r, o, e)

RequestStep(r) ==
    \/ req[r] = None /\ Len(audit) < MaxEvents /\ NewRequest(r)
    \/ Enter(r)
    \/ Commit(r)
    \/ CommitDirect(r)
    \/ RollBack(r)

ScanStep(i) ==
    \/ StartScan(i)
    \/ RefuseScan(i)
    \/ \E e \in {"complete", "partial", "fail"} : FinishScan(i, e)
    \/ FailScan(i)
    \/ \E status \in {"failed", "queued", "quarantined"} : EndFailed(i, status)
    \/ \E status \in {"queued", "quarantined"} : LoseScan(i, status)

Next ==
    \/ \E r \in Requests : RequestStep(r)
    \/ \E i \in DOMAIN scans : ScanStep(i)

Spec == Init /\ [][Next]_vars
-----------------------------------------------------------------------------
TypeOK ==
    /\ opp \in [Opps -> OpportunityRow]
    /\ overrides \in Seq(OverrideRow)
    /\ batch \in [Batches -> BatchRow \cup {None}]
    /\ scans \in Seq(ScanRow)
    /\ audit \in Seq([head : Nat, second : BOOLEAN])
    /\ lock \in Requests \cup {None}
    /\ req \in [Requests -> PlanRow \cup {None}]
    /\ contested \subseteq Opps \cup Batches
    /\ revived \subseteq Opps

(* Transactions follow each other in the audit chain: the event a transaction *)
(* writes is linked to the event stored just before it, whatever requests     *)
(* commit, die or are refused at the same time.  Only the second event of one *)
(* transaction, the cost confirmation, shares the predecessor of the first.   *)
AuditLinear ==
    \A i \in DOMAIN audit :
        audit[i].head = IF audit[i].second THEN i - 2 ELSE i - 1

(* An opportunity that is approved for a property has an owner, and the      *)
(* full scan completed last left complete evidence: no batch, promotion,      *)
(* rescore or stale pipeline copy leads to an approval without them, unless   *)
(* two requests about the opportunity overlapped (no row lock stops them).    *)
ApprovedIsComplete ==
    \A o \in Opps \ contested : opp[o].status = "approved_for_property" =>
        /\ opp[o].owner /\ opp[o].approved
        /\ \E i \in Newest(Completed(o, "full")) :
              scans[i].evidence = "complete" /\ scans[i].gate

(* A batch spends what was confirmed: the scans queued for it cost no more    *)
(* than the confirmed maximum, the maximum no more than the declared budget,  *)
(* and each of its opportunities is queued once, unless two requests about    *)
(* the batch overlapped.                                                      *)
BatchWithinBound ==
    TypeOK /\ \A b \in Batches \ contested : batch[b] # None =>
        LET ids == {i \in DOMAIN scans : scans[i].batch = b} IN
        /\ ids # {} => batch[b].approved # None
        /\ batch[b].approved # None => batch[b].approved <= batch[b].budget
        /\ ids # {} => Total([i \in ids |-> Cost[scans[i].opp]]) <= batch[b].approved
        /\ \A i, j \in ids : scans[i].opp = scans[j].opp => i = j

(* A scan queued by a batch or a promotion is never active beside an older    *)
(* active scan of the opportunity, whoever queued or runs that one.  There    *)
(* are two exceptions.  Two requests about the opportunity overlapped:        *)
(* nothing locks the row.  Or a failed scan was queued again in the last      *)
(* transaction of its worker, when the batch or promotion had already found   *)
(* the opportunity free: the failure is committed before (scanner.py:498,     *)
(* scan_worker.py:356).  Scans that api_scan and api_retry_scan queue or run  *)
(* are not held to it: they do not look for another scan.                     *)
OneActiveScan ==
    \A o \in Opps \ (contested \cup revived) : \A i, j \in ActiveScans({o}) :
        i < j => ~scans[j].reviewed

=============================================================================
