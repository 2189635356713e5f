--------------------------- MODULE ScanExecution ---------------------------
(***************************************************************************)
(* The life of a scan: rows of scan_runs queued, cancelled and retried by  *)
(* web requests, claimed under a lease by worker slots of a separate       *)
(* process, carried through the stages of ScanPipeline.run, recovered when *)
(* a lease goes stale, and the review state of the opportunity each scan   *)
(* is about.  Synchronous scans run the same pipeline inside a web request *)
(* with no lease.                                                          *)
(*                                                                         *)
(* Every database transaction that takes locks or is a conditional UPDATE  *)
(* is one step; a transaction that reads without a lock and later writes   *)
(* by primary key is two steps with the values read kept in between.       *)
(* Clock time is abstracted: leaseExpired and due are flipped by the       *)
(* environment, exactly where lease_expires_at and next_attempt_at are     *)
(* compared with the clock.                                                *)
(***************************************************************************)
EXTENDS Naturals, OpportunityStates

CONSTANTS
    Scans,          \* primary keys of scan_runs, used or still to be inserted
    Workers,        \* worker slots, run_worker_runtime(concurrency)
    Handlers,       \* web requests that run a scan synchronously
    Requests,       \* web requests that cancel or retry a scan
    Opportunities,
    OppOf,          \* the opportunity a scan is about
    Testing,        \* scans with scan_profile "testing"; the others are "full"
    Live,           \* scans with data_mode "live"; the others are fixture or replay
    Malformed,      \* rows queued before payloads were stored with the request
    MaxAttempts,    \* scan_worker_max_attempts
    StageCount,     \* stages entered by _set_stage (seven in the code)
    Events,         \* the faults and visitors the environment may produce
    NoScan          \* SQL NULL for a scan id

AllEvents == {"stall", "crash", "error", "dberror", "blocked", "review", "cancel", "retry"}

ASSUME ScanConstants ==
    /\ OppOf \in [Scans -> Opportunities]
    /\ Testing \subseteq Scans /\ Live \subseteq Scans /\ Malformed \subseteq Scans
    /\ Workers \cap Handlers = {}
    /\ MaxAttempts \in Nat \ {0}
    /\ StageCount \in Nat \ {0}
    /\ Events \subseteq AllEvents
    /\ NoScan \notin Scans

Processes == Workers \cup Handlers
NullToken == 0
TerminalStatuses == {"completed", "failed", "cancelled", "quarantined"}
ActiveStatuses == {"queued", "running"}
Statuses == TerminalStatuses \cup ActiveStatuses \cup {"absent"}
Errors == {"none", "retryable", "fatal"}
Labels == {"idle", "claimed", "rejecting", "pipeline", "staged", "cancelling",
           "finalize", "requeue", "unlease"}

VARIABLES
    \* scan_runs
    status, source, cancelRequested, retryCount, due, leaseToken, leaseExpired,
    stage, sourceScan,
    claims,         \* uuid4 supply: lease tokens issued for a scan so far
    lastError,      \* history: the error that ended the latest attempt of a scan
    \* opportunities.status
    opp,
    \* a worker slot or a synchronous handler
    pc, job, token, error,
    oppSeen,        \* the opportunity as the pipeline's session has it loaded
    \* a cancel or retry request between its read and its commit
    request

rowVars == <<source, cancelRequested, retryCount, due, leaseToken, leaseExpired,
             stage, sourceScan, claims>>
procVars == <<pc, job, token, error, oppSeen>>
vars == <<status, rowVars, lastError, opp, procVars, request>>

NoRequest == [op |-> "none", scan |-> NoScan, seen |-> "absent", retries |-> 0]

RowTypeOK ==
    /\ status \in [Scans -> Statuses]
    /\ source \in [Scans -> {"none", "async", "manual"}]
    /\ cancelRequested \in [Scans -> BOOLEAN]
    /\ retryCount \in [Scans -> Nat]
    /\ due \in [Scans -> BOOLEAN]
    /\ leaseToken \in [Scans -> Nat]
    /\ leaseExpired \in [Scans -> BOOLEAN]
    /\ stage \in [Scans -> 0 .. StageCount]
    /\ sourceScan \in [Scans -> Scans \cup {NoScan}]
    /\ claims \in [Scans -> Nat]
    /\ lastError \in [Scans -> Errors]

ProcTypeOK ==
    /\ pc \in [Processes -> Labels]
    /\ job \in [Processes -> Scans \cup {NoScan}]
    /\ \A p \in Processes : pc[p] # "idle" => job[p] \in Scans
    /\ token \in [Processes -> Nat]
    /\ error \in [Processes -> Errors]
    /\ oppSeen \in [Processes -> OppStates]

RequestTypeOK ==
    /\ request \in [Requests -> [op : {"none", "cancel", "retry"},
                                 scan : Scans \cup {NoScan}, seen : Statuses,
                                 retries : Nat]]
    /\ \A q \in Requests : request[q].op # "none" => request[q].scan \in Scans

\* Every column and every local variable holds a value the code can put there,
\* and a busy slot or request always works on an actual row.
TypeOK ==
    RowTypeOK /\ ProcTypeOK /\ RequestTypeOK /\ opp \in [Opportunities -> OppStates]

Init ==
    /\ status = [s \in Scans |-> IF s \in Malformed THEN "queued" ELSE "absent"]
    /\ source = [s \in Scans |-> IF s \in Malformed THEN "async" ELSE "none"]
    /\ cancelRequested = [s \in Scans |-> FALSE]
    /\ retryCount = [s \in Scans |-> 0]
    /\ due = [s \in Scans |-> TRUE]
    /\ leaseToken = [s \in Scans |-> NullToken]
    /\ leaseExpired = [s \in Scans |-> FALSE]
    /\ stage = [s \in Scans |-> 0]
    /\ sourceScan = [s \in Scans |-> NoScan]
    /\ claims = [s \in Scans |-> 0]
    /\ lastError = [s \in Scans |-> "none"]
    /\ opp \in [Opportunities -> {"discovered", "full_scan_approved"}]
    /\ pc = [p \in Processes |-> "idle"]
    /\ job = [p \in Processes |-> NoScan]
    /\ token = [p \in Processes |-> NullToken]
    /\ error = [p \in Processes |-> "none"]
    /\ oppSeen = [p \in Processes |-> "discovered"]
    /\ request = [q \in Requests |-> NoRequest]

----------------------------------------------------------------------------
(* What the code looks at.                                                 *)

IsPreliminary(s) == s \in Testing \cap Live

\* The state transition_system asks for when the pipeline of s starts.
RunningState(s) == IF IsPreliminary(s) THEN "testing_running" ELSE "full_running"

\* _lease_matches.  The token is a fresh uuid4 per claim, so it identifies the
\* worker as well.
LeaseMatches(p) == leaseToken[job[p]] = token[p]

\* _owns
Owns(p) == status[job[p]] = "running" /\ LeaseMatches(p)

MutLeaseIgnoresToken(p, visible) ==
    p \in Handlers \/ (visible = "running" /\ ~leaseExpired[job[p]])

\* assert_current_scan_lease, and the WHERE clause of _set_stage.  visible is
\* the status the checking transaction sees: its own flushed write, if any.
\* A synchronous scan has no execution_lease and is never refused.
LeaseCurrent(p, visible) ==
    \/ p \in Handlers
    \/ visible = "running" /\ LeaseMatches(p) /\ ~leaseExpired[job[p]]

MutStaleNeedsNoLease(s) ==
    source[s] = "async" /\ status[s] = "running" /\ leaseToken[s] = NullToken

\* The rows recover_stale_scans selects.  Lease duration and staleness cutoff
\* are the same setting, so one flag stands for both comparisons; a missing
\* lease is stale too.
Stale(s) ==
    /\ source[s] = "async" /\ status[s] = "running"
    /\ leaseExpired[s] \/ leaseToken[s] = NullToken

MutClaimIgnoresCancel(s) == source[s] = "async" /\ status[s] = "queued" /\ due[s]

\* The WHERE clause of the claiming UPDATE of claim_next_scan.
Claimable(s) ==
    source[s] = "async" /\ status[s] = "queued" /\ due[s] /\ ~cancelRequested[s]

MutTokenReused(s) == 1

\* A token no claim of s has used before.
NewToken(s) == claims[s] + 1

MutExhaustedLate(s) == retryCount[s] >= MaxAttempts

\* _retry_or_quarantine: the incremented count has reached the maximum.
Exhausted(s) == retryCount[s] + 1 >= MaxAttempts

\* The status _retry_or_quarantine writes.
RetryStatus(s) == IF Exhausted(s) THEN "quarantined" ELSE "queued"

\* active_retry_for_scan: s itself or a retry of s is queued or running.
HasActiveRetry(s) ==
    \E r \in Scans : (r = s \/ sourceScan[r] = s) /\ status[r] \in ActiveStatuses
----------------------------------------------------------------------------
(* Building blocks of the actions.                                         *)

Goto(p, label) == pc' = [pc EXCEPT ![p] = label]

\* The worker returns to scan_worker_loop, or the web request ends: its
\* database session and everything it had loaded are gone.
Release(p) ==
    /\ pc' = [pc EXCEPT ![p] = "idle"]
    /\ job' = [job EXCEPT ![p] = NoScan]
    /\ token' = [token EXCEPT ![p] = NullToken]
    /\ error' = [error EXCEPT ![p] = "none"]
    /\ oppSeen' = [oppSeen EXCEPT ![p] = "discovered"]

\* An attempt ends with error e: a worker enters the finally block of
\* run_scan_by_id, a synchronous request answers its client.
EndAttempt(p, e) ==
    IF p \in Workers
    THEN /\ Goto(p, "finalize")
         /\ error' = [error EXCEPT ![p] = e]
         /\ UNCHANGED <<job, token, oppSeen>>
    ELSE Release(p)

\* _clear_lease
ClearLease(s) ==
    /\ leaseToken' = [leaseToken EXCEPT ![s] = NullToken]
    /\ leaseExpired' = [leaseExpired EXCEPT ![s] = FALSE]

\* _retry_or_quarantine: one more attempt after a backoff, or quarantine.
RetryOrQuarantine(s) ==
    /\ status' = [status EXCEPT ![s] = RetryStatus(s)]
    /\ retryCount' = [retryCount EXCEPT ![s] = @ + 1]
    /\ due' = [due EXCEPT ![s] = Exhausted(s)]

\* ScanPipeline.transition_system through the session's own copy: the table is
\* consulted for oppSeen, the row is then written by primary key.
PipelineTransition(p, target) ==
    IF oppSeen[p] = target
    THEN UNCHANGED opp
    ELSE opp' = [opp EXCEPT ![OppOf[job[p]]] = target]
----------------------------------------------------------------------------
(* Web requests.                                                           *)

\* api_scan with async_run, through _queue_scan: a live full scan needs the
\* reviewers' approval, a testing scan moves its opportunity to testing_planned.
QueueScan(s) ==
    LET o == OppOf[s] IN
    /\ status[s] = "absent"
    /\ s \in Live \ Testing => opp[o] = "full_scan_approved"
    /\ s \in Testing => CanTransition(opp[o], "testing_planned")
    /\ opp' = IF s \in Testing THEN [opp EXCEPT ![o] = "testing_planned"] ELSE opp
    /\ status' = [status EXCEPT ![s] = "queued"]
    /\ source' = [source EXCEPT ![s] = "async"]
    /\ UNCHANGED <<cancelRequested, retryCount, due, leaseToken, leaseExpired, stage,
                   sourceScan, claims, lastError, procVars, request>>

\* api_scan without async_run: the request runs the pipeline itself, up to the
\* commit of the first stage.  A refused transition leaves no row behind.
SyncScan(h, s) ==
    LET o == OppOf[s] IN
    /\ pc[h] = "idle"
    /\ status[s] = "absent"
    /\ s \in Live \ Testing => opp[o] = "full_scan_approved"
    /\ CanTransition(opp[o], RunningState(s))
    /\ opp' = [opp EXCEPT ![o] = RunningState(s)]
    /\ status' = [status EXCEPT ![s] = "running"]
    /\ source' = [source EXCEPT ![s] = "manual"]
    /\ stage' = [stage EXCEPT ![s] = 1]
    /\ Goto(h, "staged")
    /\ job' = [job EXCEPT ![h] = s]
    /\ oppSeen' = [oppSeen EXCEPT ![h] = RunningState(s)]
    /\ UNCHANGED <<cancelRequested, retryCount, due, leaseToken, leaseExpired,
                   sourceScan, claims, lastError, token, error, request>>

\* api_cancel_scan reads the row without a lock.  Completed, failed and
\* cancelled scans are answered at once; a quarantined one is not.
LoadCancel(q, s) ==
    /\ "cancel" \in Events
    /\ request[q].op = "none"
    /\ status[s] \in {"queued", "running", "quarantined"}
    /\ request' = [request EXCEPT ![q] = [op |-> "cancel", scan |-> s, seen |-> status[s],
                                          retries |-> retryCount[s]]]
    /\ UNCHANGED <<status, rowVars, lastError, opp, procVars>>

\* ... and commits by primary key what differs from the copy it read: a scan
\* seen queued has its status written, its lease columns were null when read
\* and are not touched.  A refused transition_system aborts the request.
CommitCancel(q) ==
    LET s == request[q].scan
        o == OppOf[s]
        wasQueued == request[q].seen = "queued" IN
    /\ request[q].op = "cancel"
    /\ request' = [request EXCEPT ![q] = NoRequest]
    /\ IF wasQueued /\ ~CanTransition(opp[o], "needs_more_evidence")
       THEN UNCHANGED <<status, cancelRequested, opp>>
       ELSE /\ cancelRequested' = [cancelRequested EXCEPT ![s] = TRUE]
            /\ status' = IF wasQueued THEN [status EXCEPT ![s] = "cancelled"] ELSE status
            /\ opp' = IF wasQueued THEN [opp EXCEPT ![o] = "needs_more_evidence"] ELSE opp
    /\ UNCHANGED <<source, retryCount, due, leaseToken, leaseExpired, stage, sourceScan,
                   claims, lastError, procVars>>

\* api_retry_scan finds the scan inactive, no retry of it active and its
\* payload stored.
LoadRetry(q, s) ==
    /\ "retry" \in Events
    /\ request[q].op = "none"
    /\ status[s] \in TerminalStatuses
    /\ ~HasActiveRetry(s)
    /\ s \notin Malformed
    /\ request' = [request EXCEPT ![q] = [op |-> "retry", scan |-> s, seen |-> status[s],
                                          retries |-> retryCount[s]]]
    /\ UNCHANGED <<status, rowVars, lastError, opp, procVars>>

\* ... and queues a new row r with the same payload; nothing in the schema
\* keeps a second request from doing the same.
CommitRetry(q, r) ==
    LET s == request[q].scan
        o == OppOf[s]
        refused == s \in Testing /\ ~CanTransition(opp[o], "testing_planned") IN
    /\ request[q].op = "retry"
    /\ status[r] = "absent"
    /\ OppOf[r] = o /\ (r \in Testing <=> s \in Testing) /\ (r \in Live <=> s \in Live)
    /\ request' = [request EXCEPT ![q] = NoRequest]
    /\ IF refused
       THEN UNCHANGED <<status, source, retryCount, sourceScan, opp>>
       ELSE /\ status' = [status EXCEPT ![r] = "queued"]
            /\ source' = [source EXCEPT ![r] = "async"]
            /\ retryCount' = [retryCount EXCEPT ![r] = request[q].retries + 1]
            /\ sourceScan' = [sourceScan EXCEPT ![r] = s]
            /\ opp' = IF s \in Testing THEN [opp EXCEPT ![o] = "testing_planned"] ELSE opp
    /\ UNCHANGED <<cancelRequested, due, leaseToken, leaseExpired, stage, claims,
                   lastError, procVars>>

\* OpportunityReviewService.transition by a human reviewer.  Approval needs the
\* evidence-completeness check, which is not part of this module.
HumanTransition(o, target) ==
    /\ "review" \in Events
    /\ target \in AllowedTransitions[opp[o]] \ {"approved_for_property"}
    /\ opp' = [opp EXCEPT ![o] = target]
    /\ UNCHANGED <<status, rowVars, lastError, procVars, request>>
----------------------------------------------------------------------------
(* The worker: scan_worker_loop and run_scan_by_id.                        *)

\* recover_stale_scans, for one of the rows it locks.  The opportunity is left
\* as it is.
Recover(w, s) ==
    /\ pc[w] = "idle"
    /\ Stale(s)
    /\ IF cancelRequested[s]
       THEN /\ status' = [status EXCEPT ![s] = "cancelled"]
            /\ UNCHANGED <<retryCount, due>>
       ELSE RetryOrQuarantine(s)
    /\ ClearLease(s)
    /\ UNCHANGED <<source, cancelRequested, stage, sourceScan, claims, lastError, opp,
                   procVars, request>>

\* claim_next_scan, first UPDATE: a queued scan with a pending cancellation.
CancelQueued(w, s) ==
    /\ pc[w] = "idle"
    /\ source[s] = "async" /\ status[s] = "queued" /\ due[s] /\ cancelRequested[s]
    /\ status' = [status EXCEPT ![s] = "cancelled"]
    /\ ClearLease(s)
    /\ UNCHANGED <<source, cancelRequested, retryCount, due, stage, sourceScan, claims,
                   lastError, opp, procVars, request>>

\* claim_next_scan, second UPDATE.
Claim(w, s) ==
    /\ pc[w] = "idle"
    /\ Claimable(s)
    /\ status' = [status EXCEPT ![s] = "running"]
    /\ claims' = [claims EXCEPT ![s] = @ + 1]
    /\ leaseToken' = [leaseToken EXCEPT ![s] = NewToken(s)]
    /\ leaseExpired' = [leaseExpired EXCEPT ![s] = FALSE]
    /\ stage' = [stage EXCEPT ![s] = 0]
    /\ lastError' = [lastError EXCEPT ![s] = "none"]
    /\ Goto(w, "claimed")
    /\ job' = [job EXCEPT ![w] = s]
    /\ token' = [token EXCEPT ![w] = NewToken(s)]
    /\ UNCHANGED <<source, cancelRequested, retryCount, due, sourceScan, opp, error,
                   oppSeen, request>>

\* run_scan_by_id up to the pipeline: a lease lost already ends it here, a row
\* without payload is refused.
StartRun(w) ==
    /\ pc[w] = "claimed"
    /\ IF Owns(w)
       THEN /\ Goto(w, IF job[w] \in Malformed THEN "rejecting" ELSE "pipeline")
            /\ UNCHANGED <<job, token, error, oppSeen>>
       ELSE Release(w)
    /\ UNCHANGED <<status, rowVars, lastError, opp, request>>

\* _fail_without_retry, committed by primary key after the check above.  When
\* the opportunity refuses the transition the exception leaves the worker loop
\* and the row stays as it is.
FailWithoutRetry(w) ==
    LET s == job[w]
        o == OppOf[s] IN
    /\ pc[w] = "rejecting"
    /\ Release(w)
    /\ IF CanTransition(opp[o], "needs_more_evidence")
       THEN /\ status' = [status EXCEPT ![s] = "failed"]
            /\ ClearLease(s)
            /\ opp' = [opp EXCEPT ![o] = "needs_more_evidence"]
       ELSE UNCHANGED <<status, leaseToken, leaseExpired, opp>>
    /\ lastError' = [lastError EXCEPT ![s] = "fatal"]
    /\ UNCHANGED <<source, cancelRequested, retryCount, due, stage, sourceScan, claims,
                   request>>

\* One UPDATE of _heartbeat_scan.  It does not look at lease_expires_at: an
\* expired lease nobody has recovered yet is extended.
Heartbeat(w) ==
    /\ pc[w] \in {"pipeline", "staged"}
    /\ Owns(w) /\ leaseExpired[job[w]]
    /\ leaseExpired' = [leaseExpired EXCEPT ![job[w]] = FALSE]
    /\ UNCHANGED <<status, source, cancelRequested, retryCount, due, leaseToken, stage,
                   sourceScan, claims, lastError, opp, procVars, request>>

\* The UPDATE matched no row, or raised: lease_lost is set, the pipeline task is
\* cancelled at its next await and ScanLeaseLost ends the attempt without error.
HeartbeatLost(w) ==
    /\ pc[w] \in {"pipeline", "staged"}
    /\ ~Owns(w) \/ "dberror" \in Events
    /\ EndAttempt(w, "none")
    /\ UNCHANGED <<status, rowVars, lastError, opp, request>>

\* The finally block of run_scan_by_id reads the row without a lock ...
LoadFinal(w) ==
    LET s == job[w]
        retry == status[s] = "failed" /\ error[w] = "retryable" IN
    /\ pc[w] = "finalize"
    /\ IF LeaseMatches(w) /\ status[s] \in TerminalStatuses \cup {"queued"}
       THEN /\ Goto(w, IF retry THEN "requeue" ELSE "unlease")
            /\ UNCHANGED <<job, token, error, oppSeen>>
       ELSE Release(w)
    /\ UNCHANGED <<status, rowVars, lastError, opp, request>>

\* ... and commits by primary key what it decided.
CommitFinal(w) ==
    LET s == job[w] IN
    /\ pc[w] \in {"requeue", "unlease"}
    /\ Release(w)
    /\ IF pc[w] = "requeue"
       THEN RetryOrQuarantine(s)
       ELSE UNCHANGED <<status, retryCount, due>>
    /\ ClearLease(s)
    /\ UNCHANGED <<source, cancelRequested, stage, sourceScan, claims, lastError, opp,
                   request>>
----------------------------------------------------------------------------
(* ScanPipeline.run, under a lease (worker) or without one (handler).      *)

\* Everything before the try block, _prepare_scan_run and the first stage: one
\* transaction, committed by the first _set_stage.
SetupPipeline(w) ==
    LET s == job[w] IN
    /\ pc[w] = "pipeline"
    /\ LeaseCurrent(w, status[s])
    /\ CanTransition(opp[OppOf[s]], RunningState(s))
    /\ IF cancelRequested[s]
       THEN /\ status' = [status EXCEPT ![s] = "cancelled"]
            /\ opp' = [opp EXCEPT ![OppOf[s]] = "needs_more_evidence"]
            /\ EndAttempt(w, "none")
            /\ UNCHANGED stage
       ELSE /\ stage' = [stage EXCEPT ![s] = 1]
            /\ opp' = [opp EXCEPT ![OppOf[s]] = RunningState(s)]
            /\ oppSeen' = [oppSeen EXCEPT ![w] = RunningState(s)]
            /\ Goto(w, "staged")
            /\ UNCHANGED <<status, job, token, error>>
    /\ UNCHANGED <<source, cancelRequested, retryCount, due, leaseToken, leaseExpired,
                   sourceScan, claims, lastError, request>>

\* A blocked plan or a refused transition is raised before the try block, so no
\* handler marks the row failed: it stays running under its lease.
SetupFails(w) ==
    LET s == job[w] IN
    /\ pc[w] = "pipeline"
    /\ LeaseCurrent(w, status[s])
    /\ \/ "blocked" \in Events
       \/ ~CanTransition(opp[OppOf[s]], RunningState(s))
    /\ lastError' = [lastError EXCEPT ![s] = "fatal"]
    /\ EndAttempt(w, "fatal")
    /\ UNCHANGED <<status, rowVars, opp, request>>

\* ScanLeaseLost, from any lease check of the pipeline: rollback and out.
LeaseLost(w) ==
    /\ pc[w] \in {"pipeline", "staged"}
    /\ ~LeaseCurrent(w, status[job[w]])
    /\ EndAttempt(w, "none")
    /\ UNCHANGED <<status, rowVars, lastError, opp, request>>

\* _ensure_not_cancelled and _set_stage: the conditional UPDATE of the row.
EnterStage(p) ==
    LET s == job[p] IN
    /\ pc[p] = "staged"
    /\ stage[s] < StageCount
    /\ LeaseCurrent(p, status[s]) /\ ~cancelRequested[s]
    /\ stage' = [stage EXCEPT ![s] = @ + 1]
    /\ UNCHANGED <<status, source, cancelRequested, retryCount, due, leaseToken,
                   leaseExpired, sourceScan, claims, lastError, opp, procVars, request>>

\* _ensure_not_cancelled raises ScanCancelled ...
NoticeCancel(p) ==
    /\ pc[p] = "staged"
    /\ LeaseCurrent(p, status[job[p]]) /\ cancelRequested[job[p]]
    /\ Goto(p, "cancelling")
    /\ UNCHANGED <<status, rowVars, lastError, opp, job, token, error, oppSeen, request>>

\* ... and its handler writes the row by primary key, without the lease.
CommitCancelled(p) ==
    /\ pc[p] = "cancelling"
    /\ status' = [status EXCEPT ![job[p]] = "cancelled"]
    /\ PipelineTransition(p, "needs_more_evidence")
    /\ EndAttempt(p, "none")
    /\ UNCHANGED <<rowVars, lastError, request>>

\* Any other exception of a stage.  The handler marks the row failed by primary
\* key, without the lease; when the handler itself cannot commit, the row stays.
PipelineFails(p, e) ==
    LET s == job[p] IN
    /\ pc[p] = "staged"
    /\ "error" \in Events
    /\ status' = [status EXCEPT ![s] = "failed"]
    /\ PipelineTransition(p, "needs_more_evidence")
    /\ lastError' = [lastError EXCEPT ![s] = e]
    /\ EndAttempt(p, e)
    /\ UNCHANGED <<rowVars, request>>

PipelineFailsUnrecorded(p) ==
    /\ pc[p] = "staged"
    /\ "dberror" \in Events
    /\ lastError' = [lastError EXCEPT ![job[p]] = "retryable"]
    /\ EndAttempt(p, "retryable")
    /\ UNCHANGED <<status, rowVars, opp, request>>

\* The end of the last stage.  save_artifact flushes status "completed" before
\* _ensure_lease(lock=True) reads the row back in the same transaction, so that
\* check sees "completed"; when it refuses, everything is rolled back.
FinishPipeline(p, evidenceOK) ==
    LET s == job[p]
        target == IF ~evidenceOK THEN "needs_more_evidence"
                  ELSE IF IsPreliminary(s) THEN "preliminary_review" ELSE "full_review" IN
    /\ pc[p] = "staged"
    /\ stage[s] = StageCount
    /\ LeaseCurrent(p, status[s]) /\ ~cancelRequested[s]
    /\ IF LeaseCurrent(p, "completed")
       THEN /\ status' = [status EXCEPT ![s] = "completed"]
            /\ PipelineTransition(p, target)
       ELSE UNCHANGED <<status, opp>>
    /\ EndAttempt(p, "none")
    /\ UNCHANGED <<rowVars, lastError, request>>
----------------------------------------------------------------------------
(* The environment.                                                        *)

\* A worker slot that still runs its heartbeat for the lease on s.
Attended(s) ==
    \E w \in Workers : pc[w] # "idle" /\ job[w] = s /\ LeaseMatches(w)

\* lease_expires_at passes: nobody renews the lease any more, or its owner is
\* stalled (a suspended process, a blocked event loop, a slow database).
LeaseExpires(s) ==
    /\ status[s] = "running" /\ leaseToken[s] # NullToken /\ ~leaseExpired[s]
    /\ ~Attended(s) \/ "stall" \in Events
    /\ leaseExpired' = [leaseExpired EXCEPT ![s] = TRUE]
    /\ UNCHANGED <<status, source, cancelRequested, retryCount, due, leaseToken, stage,
                   sourceScan, claims, lastError, opp, procVars, request>>

\* next_attempt_at passes.
BackoffElapses(s) ==
    /\ ~due[s]
    /\ due' = [due EXCEPT ![s] = TRUE]
    /\ UNCHANGED <<status, source, cancelRequested, retryCount, leaseToken, leaseExpired,
                   stage, sourceScan, claims, lastError, opp, procVars, request>>

\* The process of p dies with everything it had not committed.
Crash(p) ==
    /\ "crash" \in Events
    /\ pc[p] # "idle"
    /\ Release(p)
    /\ UNCHANGED <<status, rowVars, lastError, opp, request>>
----------------------------------------------------------------------------
WorkerStep(w) ==
    \/ \E s \in Scans : Recover(w, s) \/ CancelQueued(w, s) \/ Claim(w, s)
    \/ StartRun(w) \/ FailWithoutRetry(w) \/ LoadFinal(w) \/ CommitFinal(w)
    \/ SetupPipeline(w) \/ SetupFails(w) \/ LeaseLost(w)

PipelineStep(p) ==
    \/ EnterStage(p) \/ NoticeCancel(p) \/ CommitCancelled(p)
    \/ \E ok \in BOOLEAN : FinishPipeline(p, ok)

PipelineFault(p) ==
    \/ \E e \in {"retryable", "fatal"} : PipelineFails(p, e)
    \/ PipelineFailsUnrecorded(p)
    \/ Crash(p)

WebStep ==
    \/ \E s \in Scans : QueueScan(s)
    \/ \E h \in Handlers, s \in Scans : SyncScan(h, s)
    \/ \E q \in Requests, s \in Scans :
          LoadCancel(q, s) \/ LoadRetry(q, s) \/ CommitRetry(q, s)
    \/ \E q \in Requests : CommitCancel(q)
    \/ \E o \in Opportunities, target \in OppStates : HumanTransition(o, target)

Next ==
    \/ \E w \in Workers : WorkerStep(w) \/ Heartbeat(w) \/ HeartbeatLost(w)
    \/ \E p \in Processes : PipelineStep(p) \/ PipelineFault(p)
    \/ WebStep
    \/ \E s \in Scans : LeaseExpires(s) \/ BackoffElapses(s)

Spec == Init /\ [][Next]_vars

\* The worker loops keep running and each claimed scan keeps being executed,
\* backoffs end, and a lease nobody attends runs out.  Stalls, crashes, errors
\* and visitors are never forced.
Fairness ==
    /\ \A w \in Workers : WF_vars(WorkerStep(w) \/ PipelineStep(w))
    /\ \A h \in Handlers : WF_vars(PipelineStep(h))
    /\ \A s \in Scans : WF_vars(BackoffElapses(s)) /\ WF_vars(~Attended(s) /\ LeaseExpires(s))

FairSpec == Spec /\ Fairness
----------------------------------------------------------------------------
(* Properties.                                                             *)

\* At any moment at most one worker slot passes the _owns test for a scan,
\* however many stale slots still work on it after stalls and recoveries.
LeaseExclusive ==
    \A v, w \in Workers :
        /\ pc[v] # "idle" /\ Owns(v)
        /\ pc[w] # "idle" /\ Owns(w)
        /\ job[v] = job[w]
        => v = w

\* SCAN_WORKER_MAX_ATTEMPTS bounds how often a scan is executed, whatever mix of
\* stale recoveries, retryable failures and cancellations it goes through.
AttemptsBounded == \A s \in Scans : claims[s] <= MaxAttempts

\* A queued row carries no lease: claim_next_scan may hand it to anyone.
QueuedHoldsNoLease == \A s \in Scans : status[s] = "queued" => leaseToken[s] = NullToken

\* "An old worker cannot complete a stage after another worker owns the scan":
\* the stage of a leased scan advances only for a slot whose lease is current.
OldWorkerCannotAdvance ==
    [][\A s \in Scans :
          source[s] = "async" /\ stage'[s] > stage[s] =>
             \E w \in Workers : /\ pc[w] \in {"pipeline", "staged"} /\ job[w] = s
                                /\ Owns(w) /\ ~leaseExpired[s]]_vars

\* Once a cancellation is recorded, a scan that is not running never runs again:
\* neither a claim, nor a recovery, nor a late writer brings it back.
CancelledNeverRunsAgain ==
    [][\A s \in Scans :
          cancelRequested[s] /\ status[s] # "running" => status'[s] # "running"]_vars

\* A scan started by a web request belongs to that request: neither a crash of
\* the web process nor any recovery hands it to a worker, and it takes no lease.
SynchronousStaysManual ==
    \A s \in Scans : source[s] = "manual" =>
        status[s] # "queued" /\ leaseToken[s] = NullToken /\ retryCount[s] = 0

\* Every queued scan comes to rest in a terminal status, through crashes,
\* stalls, errors and retries: the queue has no scan that is never finished.
EveryScanSettles ==
    \A s \in Scans : status[s] = "queued" ~> [](status[s] \in TerminalStatuses)

\* Claimed by docs/current_state.md ("Testing scans produce preliminary
\* assessments") and asserted on a stub by test_terminal_scan_clears_its_lease:
\* with no fault, no cancellation and no reviewer, a queued scan completes.
QueuedScanCompletes ==
    \A s \in Scans : status[s] = "queued" ~> status[s] = "completed"
=============================================================================
