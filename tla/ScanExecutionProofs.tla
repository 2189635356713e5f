------------------------ MODULE ScanExecutionProofs ------------------------
(***************************************************************************)
(* Proofs about ScanExecution, for any number of scans, workers, web       *)
(* requests, stages and attempts and any set of environment events.        *)
(***************************************************************************)
EXTENDS ScanExecution, TLAPS

USE DEF rowVars, procVars, vars, Processes, NullToken, Statuses, TerminalStatuses,
        ActiveStatuses, Errors, Labels
----------------------------------------------------------------------------
(* The building blocks of the actions keep their variables well typed.     *)

\* The states the pipeline asks an opportunity for are review states.
LEMMA RunningIsState == \A s \in Scans : RunningState(s) \in OppStates
BY DEF RunningState, OppStates

\* A slot that goes back to idle is well typed.
LEMMA ReleaseTypes ==
  ASSUME ProcTypeOK, NEW p \in Processes, Release(p)
  PROVE  ProcTypeOK'
BY DEF ProcTypeOK, Release, OppStates

\* So is a busy slot whose attempt ends.
LEMMA EndAttemptTypes ==
  ASSUME ProcTypeOK, NEW p \in Processes, pc[p] # "idle", NEW e \in Errors,
         EndAttempt(p, e)
  PROVE  ProcTypeOK'
<1>1. CASE p \in Workers
  BY <1>1 DEF ProcTypeOK, EndAttempt, Goto
<1>2. CASE p \notin Workers
  BY <1>2, ReleaseTypes DEF EndAttempt
<1> QED
  BY <1>1, <1>2

\* A cleared lease is a lease.
LEMMA ClearLeaseTypes ==
  ASSUME RowTypeOK, NEW s \in Scans, ClearLease(s)
  PROVE  leaseToken' \in [Scans -> Nat] /\ leaseExpired' \in [Scans -> BOOLEAN]
BY DEF RowTypeOK, ClearLease

\* _retry_or_quarantine writes one of two statuses and a larger count.
LEMMA RetryTypes ==
  ASSUME RowTypeOK, NEW s \in Scans, RetryOrQuarantine(s)
  PROVE  /\ status' \in [Scans -> Statuses]
         /\ retryCount' \in [Scans -> Nat]
         /\ due' \in [Scans -> BOOLEAN]
<1>1. RetryStatus(s) \in Statuses
  BY DEF RetryStatus
<1>2. Exhausted(s) \in BOOLEAN
  BY DEF Exhausted
<1> QED
  BY <1>1, <1>2 DEF RowTypeOK, RetryOrQuarantine

\* A system transition writes a review state.
LEMMA TransitionTypes ==
  ASSUME opp \in [Opportunities -> OppStates], NEW p \in Processes,
         NEW target \in OppStates, PipelineTransition(p, target)
  PROVE  opp' \in [Opportunities -> OppStates]
BY DEF PipelineTransition

\* Every step keeps every variable well typed.
LEMMA TypeStep == TypeOK /\ [Next]_vars => TypeOK'
<1> SUFFICES ASSUME TypeOK, [Next]_vars PROVE TypeOK'
  OBVIOUS
<1> USE ScanConstants DEF TypeOK
<1>1. ASSUME NEW w \in Workers, NEW s \in Scans, Recover(w, s) PROVE TypeOK'
  <2>1. RowTypeOK'
    BY <1>1, RetryTypes DEF Recover, RowTypeOK, ClearLease
  <2>2. ProcTypeOK'
    BY <1>1 DEF Recover, ProcTypeOK
  <2>3. RequestTypeOK' /\ opp' \in [Opportunities -> OppStates]
    BY <1>1 DEF Recover, RequestTypeOK
  <2> QED
    BY <2>1, <2>2, <2>3
<1>2. ASSUME NEW w \in Workers, NEW s \in Scans, CancelQueued(w, s) PROVE TypeOK'
  <2>1. RowTypeOK'
    BY <1>2 DEF CancelQueued, RowTypeOK, ClearLease
  <2>2. ProcTypeOK'
    BY <1>2 DEF CancelQueued, ProcTypeOK
  <2>3. RequestTypeOK' /\ opp' \in [Opportunities -> OppStates]
    BY <1>2 DEF CancelQueued, RequestTypeOK
  <2> QED
    BY <2>1, <2>2, <2>3
<1>3. ASSUME NEW w \in Workers, NEW s \in Scans, Claim(w, s) PROVE TypeOK'
  <2>1. RowTypeOK'
    BY <1>3 DEF Claim, RowTypeOK, NewToken
  <2>2. ProcTypeOK'
    BY <1>3 DEF Claim, Goto, ProcTypeOK, NewToken, RowTypeOK
  <2>3. RequestTypeOK' /\ opp' \in [Opportunities -> OppStates]
    BY <1>3 DEF Claim, RequestTypeOK
  <2> QED
    BY <2>1, <2>2, <2>3
<1>4. ASSUME NEW w \in Workers, StartRun(w) PROVE TypeOK'
  <2>1. RowTypeOK'
    BY <1>4 DEF StartRun, RowTypeOK
  <2>2. ProcTypeOK'
    BY <1>4, ReleaseTypes DEF StartRun, Goto, ProcTypeOK
  <2>3. RequestTypeOK' /\ opp' \in [Opportunities -> OppStates]
    BY <1>4 DEF StartRun, RequestTypeOK
  <2> QED
    BY <2>1, <2>2, <2>3
<1>5. ASSUME NEW w \in Workers, FailWithoutRetry(w) PROVE TypeOK'
  <2>1. RowTypeOK'
    <3>1. job[w] \in Scans
      BY <1>5 DEF FailWithoutRetry, ProcTypeOK
    <3>2. \/ /\ status' = [status EXCEPT ![job[w]] = "failed"]
             /\ ClearLease(job[w])
          \/ UNCHANGED <<status, leaseToken, leaseExpired>>
      BY <1>5 DEF FailWithoutRetry
    <3>4. /\ status' \in [Scans -> Statuses]
          /\ leaseToken' \in [Scans -> Nat]
          /\ leaseExpired' \in [Scans -> BOOLEAN]
      BY <3>1, <3>2, ClearLeaseTypes DEF RowTypeOK
    <3>3. lastError' \in [Scans -> Errors]
      BY <1>5, <3>1 DEF FailWithoutRetry, RowTypeOK
    <3> QED
      BY <1>5, <3>3, <3>4 DEF FailWithoutRetry, RowTypeOK
  <2>2. ProcTypeOK'
    BY <1>5, ReleaseTypes DEF FailWithoutRetry
  <2>3. RequestTypeOK' /\ opp' \in [Opportunities -> OppStates]
    BY <1>5 DEF FailWithoutRetry, RequestTypeOK, OppStates
  <2> QED
    BY <2>1, <2>2, <2>3
<1>6. ASSUME NEW w \in Workers, LoadFinal(w) PROVE TypeOK'
  <2>1. RowTypeOK'
    BY <1>6 DEF LoadFinal, RowTypeOK
  <2>2. ProcTypeOK'
    BY <1>6, ReleaseTypes DEF LoadFinal, Goto, ProcTypeOK
  <2>3. RequestTypeOK' /\ opp' \in [Opportunities -> OppStates]
    BY <1>6 DEF LoadFinal, RequestTypeOK
  <2> QED
    BY <2>1, <2>2, <2>3
<1>7. ASSUME NEW w \in Workers, CommitFinal(w) PROVE TypeOK'
  <2>1. RowTypeOK'
    BY <1>7, RetryTypes DEF CommitFinal, RowTypeOK, ClearLease, ProcTypeOK
  <2>2. ProcTypeOK'
    BY <1>7, ReleaseTypes DEF CommitFinal
  <2>3. RequestTypeOK' /\ opp' \in [Opportunities -> OppStates]
    BY <1>7 DEF CommitFinal, RequestTypeOK
  <2> QED
    BY <2>1, <2>2, <2>3
<1>8. ASSUME NEW w \in Workers, SetupPipeline(w) PROVE TypeOK'
  <2>1. RowTypeOK'
    BY <1>8 DEF SetupPipeline, RowTypeOK, ProcTypeOK
  <2>2. ProcTypeOK'
    BY <1>8, EndAttemptTypes, RunningIsState DEF SetupPipeline, Goto, ProcTypeOK
  <2>3. RequestTypeOK' /\ opp' \in [Opportunities -> OppStates]
    <3>1. RunningState(job[w]) \in OppStates
      BY <1>8, RunningIsState DEF SetupPipeline, ProcTypeOK
    <3> QED
      BY <1>8, <3>1 DEF SetupPipeline, RequestTypeOK, OppStates
  <2> QED
    BY <2>1, <2>2, <2>3
<1>9. ASSUME NEW w \in Workers, SetupFails(w) PROVE TypeOK'
  <2>1. RowTypeOK'
    BY <1>9 DEF SetupFails, RowTypeOK, ProcTypeOK
  <2>2. ProcTypeOK'
    BY <1>9, EndAttemptTypes DEF SetupFails
  <2>3. RequestTypeOK' /\ opp' \in [Opportunities -> OppStates]
    BY <1>9 DEF SetupFails, RequestTypeOK
  <2> QED
    BY <2>1, <2>2, <2>3
<1>10. ASSUME NEW w \in Workers, LeaseLost(w) PROVE TypeOK'
  <2>1. RowTypeOK'
    BY <1>10 DEF LeaseLost, RowTypeOK
  <2>2. ProcTypeOK'
    BY <1>10, EndAttemptTypes DEF LeaseLost
  <2>3. RequestTypeOK' /\ opp' \in [Opportunities -> OppStates]
    BY <1>10 DEF LeaseLost, RequestTypeOK
  <2> QED
    BY <2>1, <2>2, <2>3
<1>11. ASSUME NEW w \in Workers, Heartbeat(w) PROVE TypeOK'
  <2>1. RowTypeOK'
    BY <1>11 DEF Heartbeat, RowTypeOK, ProcTypeOK
  <2>2. ProcTypeOK'
    BY <1>11 DEF Heartbeat, ProcTypeOK
  <2>3. RequestTypeOK' /\ opp' \in [Opportunities -> OppStates]
    BY <1>11 DEF Heartbeat, RequestTypeOK
  <2> QED
    BY <2>1, <2>2, <2>3
<1>12. ASSUME NEW w \in Workers, HeartbeatLost(w) PROVE TypeOK'
  <2>1. RowTypeOK'
    BY <1>12 DEF HeartbeatLost, RowTypeOK
  <2>2. ProcTypeOK'
    BY <1>12, EndAttemptTypes DEF HeartbeatLost
  <2>3. RequestTypeOK' /\ opp' \in [Opportunities -> OppStates]
    BY <1>12 DEF HeartbeatLost, RequestTypeOK
  <2> QED
    BY <2>1, <2>2, <2>3
<1>13. ASSUME NEW p \in Processes, EnterStage(p) PROVE TypeOK'
  <2>1. RowTypeOK'
    BY <1>13 DEF EnterStage, RowTypeOK, ProcTypeOK
  <2>2. ProcTypeOK'
    BY <1>13 DEF EnterStage, ProcTypeOK
  <2>3. RequestTypeOK' /\ opp' \in [Opportunities -> OppStates]
    BY <1>13 DEF EnterStage, RequestTypeOK
  <2> QED
    BY <2>1, <2>2, <2>3
<1>14. ASSUME NEW p \in Processes, NoticeCancel(p) PROVE TypeOK'
  <2>1. RowTypeOK'
    BY <1>14 DEF NoticeCancel, RowTypeOK
  <2>2. ProcTypeOK'
    BY <1>14 DEF NoticeCancel, Goto, ProcTypeOK
  <2>3. RequestTypeOK' /\ opp' \in [Opportunities -> OppStates]
    BY <1>14 DEF NoticeCancel, RequestTypeOK
  <2> QED
    BY <2>1, <2>2, <2>3
<1>15. ASSUME NEW p \in Processes, CommitCancelled(p) PROVE TypeOK'
  <2>1. RowTypeOK'
    BY <1>15 DEF CommitCancelled, RowTypeOK, ProcTypeOK
  <2>2. ProcTypeOK'
    BY <1>15, EndAttemptTypes DEF CommitCancelled
  <2>3. RequestTypeOK' /\ opp' \in [Opportunities -> OppStates]
    BY <1>15, TransitionTypes DEF CommitCancelled, RequestTypeOK, OppStates
  <2> QED
    BY <2>1, <2>2, <2>3
<1>16. ASSUME NEW p \in Processes, NEW ok \in BOOLEAN, FinishPipeline(p, ok) PROVE TypeOK'
  <2>1. RowTypeOK'
    BY <1>16 DEF FinishPipeline, RowTypeOK, ProcTypeOK
  <2>2. ProcTypeOK'
    BY <1>16, EndAttemptTypes DEF FinishPipeline
  <2>3. RequestTypeOK' /\ opp' \in [Opportunities -> OppStates]
    BY <1>16, TransitionTypes DEF FinishPipeline, RequestTypeOK, OppStates
  <2> QED
    BY <2>1, <2>2, <2>3
<1>17. ASSUME NEW p \in Processes, NEW e \in {"retryable", "fatal"}, PipelineFails(p, e) PROVE TypeOK'
  <2>1. RowTypeOK'
    BY <1>17 DEF PipelineFails, RowTypeOK, ProcTypeOK
  <2>2. ProcTypeOK'
    BY <1>17, EndAttemptTypes DEF PipelineFails
  <2>3. RequestTypeOK' /\ opp' \in [Opportunities -> OppStates]
    BY <1>17, TransitionTypes DEF PipelineFails, RequestTypeOK, OppStates
  <2> QED
    BY <2>1, <2>2, <2>3
<1>18. ASSUME NEW p \in Processes, PipelineFailsUnrecorded(p) PROVE TypeOK'
  <2>1. RowTypeOK'
    BY <1>18 DEF PipelineFailsUnrecorded, RowTypeOK, ProcTypeOK
  <2>2. ProcTypeOK'
    BY <1>18, EndAttemptTypes DEF PipelineFailsUnrecorded
  <2>3. RequestTypeOK' /\ opp' \in [Opportunities -> OppStates]
    BY <1>18 DEF PipelineFailsUnrecorded, RequestTypeOK
  <2> QED
    BY <2>1, <2>2, <2>3
<1>19. ASSUME NEW p \in Processes, Crash(p) PROVE TypeOK'
  <2>1. RowTypeOK'
    BY <1>19 DEF Crash, RowTypeOK
  <2>2. ProcTypeOK'
    BY <1>19, ReleaseTypes DEF Crash
  <2>3. RequestTypeOK' /\ opp' \in [Opportunities -> OppStates]
    BY <1>19 DEF Crash, RequestTypeOK
  <2> QED
    BY <2>1, <2>2, <2>3
<1>20. ASSUME NEW s \in Scans, QueueScan(s) PROVE TypeOK'
  <2>1. RowTypeOK'
    BY <1>20 DEF QueueScan, RowTypeOK
  <2>2. ProcTypeOK'
    BY <1>20 DEF QueueScan, ProcTypeOK
  <2>3. RequestTypeOK' /\ opp' \in [Opportunities -> OppStates]
    BY <1>20 DEF QueueScan, RequestTypeOK, OppStates
  <2> QED
    BY <2>1, <2>2, <2>3
<1>21. ASSUME NEW h \in Handlers, NEW s \in Scans, SyncScan(h, s) PROVE TypeOK'
  <2>1. RowTypeOK'
    BY <1>21 DEF SyncScan, RowTypeOK
  <2>2. ProcTypeOK'
    BY <1>21, RunningIsState DEF SyncScan, Goto, ProcTypeOK
  <2>3. RequestTypeOK' /\ opp' \in [Opportunities -> OppStates]
    BY <1>21, RunningIsState DEF SyncScan, RequestTypeOK
  <2> QED
    BY <2>1, <2>2, <2>3
<1>22. ASSUME NEW q \in Requests, NEW s \in Scans, LoadCancel(q, s) PROVE TypeOK'
  <2>1. RowTypeOK'
    BY <1>22 DEF LoadCancel, RowTypeOK
  <2>2. ProcTypeOK'
    BY <1>22 DEF LoadCancel, ProcTypeOK
  <2>3. RequestTypeOK' /\ opp' \in [Opportunities -> OppStates]
    BY <1>22 DEF LoadCancel, RequestTypeOK, RowTypeOK
  <2> QED
    BY <2>1, <2>2, <2>3
<1>23. ASSUME NEW q \in Requests, CommitCancel(q) PROVE TypeOK'
  <2>1. RowTypeOK'
    BY <1>23 DEF CommitCancel, RowTypeOK, RequestTypeOK
  <2>2. ProcTypeOK'
    BY <1>23 DEF CommitCancel, ProcTypeOK
  <2>3. RequestTypeOK' /\ opp' \in [Opportunities -> OppStates]
    BY <1>23 DEF CommitCancel, RequestTypeOK, OppStates, NoRequest
  <2> QED
    BY <2>1, <2>2, <2>3
<1>24. ASSUME NEW q \in Requests, NEW s \in Scans, LoadRetry(q, s) PROVE TypeOK'
  <2>1. RowTypeOK'
    BY <1>24 DEF LoadRetry, RowTypeOK
  <2>2. ProcTypeOK'
    BY <1>24 DEF LoadRetry, ProcTypeOK
  <2>3. RequestTypeOK' /\ opp' \in [Opportunities -> OppStates]
    BY <1>24 DEF LoadRetry, RequestTypeOK, RowTypeOK
  <2> QED
    BY <2>1, <2>2, <2>3
<1>25. ASSUME NEW q \in Requests, NEW r \in Scans, CommitRetry(q, r) PROVE TypeOK'
  <2>1. RowTypeOK'
    <3>1. request[q].scan \in Scans /\ request[q].retries \in Nat
      BY <1>25 DEF CommitRetry, RequestTypeOK
    <3>2. CASE status' = status
      BY <1>25, <3>1, <3>2 DEF CommitRetry, RowTypeOK
    <3>3. CASE status' # status
      BY <1>25, <3>1, <3>3 DEF CommitRetry, RowTypeOK
    <3> QED
      BY <3>2, <3>3
  <2>2. ProcTypeOK'
    BY <1>25 DEF CommitRetry, ProcTypeOK
  <2>3. RequestTypeOK' /\ opp' \in [Opportunities -> OppStates]
    BY <1>25 DEF CommitRetry, RequestTypeOK, OppStates, NoRequest
  <2> QED
    BY <2>1, <2>2, <2>3
<1>26. ASSUME NEW o \in Opportunities, NEW t \in OppStates, HumanTransition(o, t) PROVE TypeOK'
  <2>1. RowTypeOK'
    BY <1>26 DEF HumanTransition, RowTypeOK
  <2>2. ProcTypeOK'
    BY <1>26 DEF HumanTransition, ProcTypeOK
  <2>3. RequestTypeOK' /\ opp' \in [Opportunities -> OppStates]
    BY <1>26 DEF HumanTransition, RequestTypeOK, OppStates
  <2> QED
    BY <2>1, <2>2, <2>3
<1>27. ASSUME NEW s \in Scans, LeaseExpires(s) PROVE TypeOK'
  <2>1. RowTypeOK'
    BY <1>27 DEF LeaseExpires, RowTypeOK
  <2>2. ProcTypeOK'
    BY <1>27 DEF LeaseExpires, ProcTypeOK
  <2>3. RequestTypeOK' /\ opp' \in [Opportunities -> OppStates]
    BY <1>27 DEF LeaseExpires, RequestTypeOK
  <2> QED
    BY <2>1, <2>2, <2>3
<1>28. ASSUME NEW s \in Scans, BackoffElapses(s) PROVE TypeOK'
  <2>1. RowTypeOK'
    BY <1>28 DEF BackoffElapses, RowTypeOK
  <2>2. ProcTypeOK'
    BY <1>28 DEF BackoffElapses, ProcTypeOK
  <2>3. RequestTypeOK' /\ opp' \in [Opportunities -> OppStates]
    BY <1>28 DEF BackoffElapses, RequestTypeOK
  <2> QED
    BY <2>1, <2>2, <2>3
<1>29. CASE UNCHANGED vars
  BY <1>29 DEF RowTypeOK, ProcTypeOK, RequestTypeOK
<1> QED
  BY <1>1, <1>2, <1>3, <1>4, <1>5, <1>6, <1>7, <1>8, <1>9, <1>10, <1>11,
     <1>12, <1>13, <1>14, <1>15, <1>16, <1>17, <1>18, <1>19, <1>20, <1>21,
     <1>22, <1>23, <1>24, <1>25, <1>26, <1>27, <1>28, <1>29
  DEF Next, WorkerStep, PipelineStep, PipelineFault, WebStep
----------------------------------------------------------------------------
(* The inductive invariant.                                                *)

\* What holds of a single row.  A row that is not inserted yet has its column
\* defaults; each claim but the last has been charged to the retry count, and a
\* row claimed before is queued again only below the maximum; a queued row
\* carries no lease; a synchronous scan is never queued, leased or retried.
RowInv(s) ==
    /\ status[s] = "absent" =>
          /\ source[s] = "none" /\ ~cancelRequested[s]
          /\ retryCount[s] = 0 /\ claims[s] = 0 /\ leaseToken[s] = NullToken
    /\ claims[s] <= retryCount[s] + 1
    /\ claims[s] <= MaxAttempts
    /\ status[s] = "queued" /\ claims[s] > 0 =>
          claims[s] <= retryCount[s] /\ retryCount[s] < MaxAttempts
    /\ status[s] = "queued" => leaseToken[s] = NullToken
    /\ source[s] = "manual" =>
          status[s] # "queued" /\ leaseToken[s] = NullToken /\ retryCount[s] = 0

\* Workers only work on queued requests, handlers only on their own scans.
JobsKeepSource ==
    /\ \A w \in Workers : pc[w] # "idle" => source[job[w]] = "async"
    /\ \A h \in Handlers : pc[h] # "idle" => source[job[h]] = "manual"

\* A pending cancel or retry is about an inserted row.
RequestsOnRows ==
    \A q \in Requests : request[q].op # "none" => status[request[q].scan] # "absent"

\* The token a busy slot holds was issued for its scan, and to it alone.
TokensFresh ==
    /\ \A w \in Workers : pc[w] # "idle" => token[w] \in 1 .. claims[job[w]]
    /\ \A v, w \in Workers :
          v # w /\ pc[v] # "idle" /\ pc[w] # "idle" /\ job[v] = job[w] =>
             token[v] # token[w]

IndInv ==
    /\ TypeOK
    /\ \A s \in Scans : RowInv(s)
    /\ JobsKeepSource /\ RequestsOnRows /\ TokensFresh
----------------------------------------------------------------------------
(* What the steps do to slots: only Claim and SyncScan start an attempt.   *)

\* Every slot that is busy after the step was busy before, on the same scan and
\* with the same token.
KeepBusy ==
    \A p \in Processes : pc'[p] # "idle" =>
        pc[p] # "idle" /\ job'[p] = job[p] /\ token'[p] = token[p]

\* Releasing a slot makes no other slot busy.
LEMMA ReleaseKeeps ==
  ASSUME TypeOK, NEW p \in Processes, Release(p)
  PROVE  KeepBusy
BY DEF TypeOK, ProcTypeOK, Release, KeepBusy

\* Nor does ending an attempt.
LEMMA EndAttemptKeeps ==
  ASSUME TypeOK, NEW p \in Processes, pc[p] # "idle", NEW e \in Errors,
         EndAttempt(p, e)
  PROVE  KeepBusy
<1>1. CASE p \in Workers
  BY <1>1 DEF TypeOK, ProcTypeOK, EndAttempt, Goto, KeepBusy
<1>2. CASE p \notin Workers
  BY <1>2, ReleaseKeeps DEF EndAttempt
<1> QED
  BY <1>1, <1>2

\* Only a claim and a synchronous scan make a slot busy.
LEMMA StepsKeepBusy ==
  ASSUME TypeOK, [Next]_vars
  PROVE  \/ KeepBusy /\ UNCHANGED claims
         \/ \E w \in Workers, s \in Scans : Claim(w, s)
         \/ \E h \in Handlers, s \in Scans : SyncScan(h, s)
<1> DEFINE Goal == KeepBusy /\ UNCHANGED claims
<1>1. ASSUME NEW w \in Workers, NEW s \in Scans, Recover(w, s) PROVE Goal
  BY <1>1 DEF Recover, KeepBusy
<1>2. ASSUME NEW w \in Workers, NEW s \in Scans, CancelQueued(w, s) PROVE Goal
  BY <1>2 DEF CancelQueued, KeepBusy
<1>3. ASSUME NEW w \in Workers, StartRun(w) PROVE Goal
  BY <1>3, ReleaseKeeps DEF StartRun, Goto, KeepBusy, TypeOK, ProcTypeOK
<1>4. ASSUME NEW w \in Workers, FailWithoutRetry(w) PROVE Goal
  BY <1>4, ReleaseKeeps DEF FailWithoutRetry
<1>5. ASSUME NEW w \in Workers, LoadFinal(w) PROVE Goal
  BY <1>5, ReleaseKeeps DEF LoadFinal, Goto, KeepBusy, TypeOK, ProcTypeOK
<1>6. ASSUME NEW w \in Workers, CommitFinal(w) PROVE Goal
  BY <1>6, ReleaseKeeps DEF CommitFinal
<1>7. ASSUME NEW w \in Workers, SetupPipeline(w) PROVE Goal
  BY <1>7, EndAttemptKeeps DEF SetupPipeline, Goto, KeepBusy, TypeOK, ProcTypeOK
<1>8. ASSUME NEW w \in Workers, SetupFails(w) PROVE Goal
  BY <1>8, EndAttemptKeeps DEF SetupFails
<1>9. ASSUME NEW w \in Workers, LeaseLost(w) PROVE Goal
  BY <1>9, EndAttemptKeeps DEF LeaseLost
<1>10. ASSUME NEW w \in Workers, Heartbeat(w) PROVE Goal
  BY <1>10 DEF Heartbeat, KeepBusy
<1>11. ASSUME NEW w \in Workers, HeartbeatLost(w) PROVE Goal
  BY <1>11, EndAttemptKeeps DEF HeartbeatLost
<1>12. ASSUME NEW p \in Processes, EnterStage(p) PROVE Goal
  BY <1>12 DEF EnterStage, KeepBusy
<1>13. ASSUME NEW p \in Processes, NoticeCancel(p) PROVE Goal
  BY <1>13 DEF NoticeCancel, Goto, TypeOK, ProcTypeOK, KeepBusy
<1>14. ASSUME NEW p \in Processes, CommitCancelled(p) PROVE Goal
  BY <1>14, EndAttemptKeeps DEF CommitCancelled
<1>15. ASSUME NEW p \in Processes, NEW ok \in BOOLEAN, FinishPipeline(p, ok) PROVE Goal
  BY <1>15, EndAttemptKeeps DEF FinishPipeline
<1>16. ASSUME NEW p \in Processes, NEW e \in {"retryable", "fatal"}, PipelineFails(p, e) PROVE Goal
  BY <1>16, EndAttemptKeeps DEF PipelineFails
<1>17. ASSUME NEW p \in Processes, PipelineFailsUnrecorded(p) PROVE Goal
  BY <1>17, EndAttemptKeeps DEF PipelineFailsUnrecorded
<1>18. ASSUME NEW p \in Processes, Crash(p) PROVE Goal
  BY <1>18, ReleaseKeeps DEF Crash
<1>19. ASSUME NEW s \in Scans, QueueScan(s) PROVE Goal
  BY <1>19 DEF QueueScan, KeepBusy
<1>20. ASSUME NEW q \in Requests, NEW s \in Scans, LoadCancel(q, s) PROVE Goal
  BY <1>20 DEF LoadCancel, KeepBusy
<1>21. ASSUME NEW q \in Requests, CommitCancel(q) PROVE Goal
  BY <1>21 DEF CommitCancel, KeepBusy
<1>22. ASSUME NEW q \in Requests, NEW s \in Scans, LoadRetry(q, s) PROVE Goal
  BY <1>22 DEF LoadRetry, KeepBusy
<1>23. ASSUME NEW q \in Requests, NEW r \in Scans, CommitRetry(q, r) PROVE Goal
  BY <1>23 DEF CommitRetry, KeepBusy
<1>24. ASSUME NEW o \in Opportunities, NEW t \in OppStates, HumanTransition(o, t) PROVE Goal
  BY <1>24 DEF HumanTransition, KeepBusy
<1>25. ASSUME NEW s \in Scans, LeaseExpires(s) PROVE Goal
  BY <1>25 DEF LeaseExpires, KeepBusy
<1>26. ASSUME NEW s \in Scans, BackoffElapses(s) PROVE Goal
  BY <1>26 DEF BackoffElapses, KeepBusy
<1>27. CASE UNCHANGED vars
  BY <1>27 DEF KeepBusy
<1> QED
  BY <1>1, <1>2, <1>3, <1>4, <1>5, <1>6, <1>7, <1>8, <1>9, <1>10, <1>11,
     <1>12, <1>13, <1>14, <1>15, <1>16, <1>17, <1>18, <1>19, <1>20, <1>21,
     <1>22, <1>23, <1>24, <1>25, <1>26, <1>27
  DEF Next, WorkerStep, PipelineStep, PipelineFault, WebStep
----------------------------------------------------------------------------
(* What the steps do to rows.                                              *)

coreVars == <<status, source, cancelRequested, retryCount, leaseToken, claims>>

\* The steps that leave those columns alone, and the thirteen that do not.
LEMMA QuietSteps ==
  ASSUME [Next]_vars
  PROVE  \/ UNCHANGED coreVars
         \/ \E w \in Workers, s \in Scans : Recover(w, s)
         \/ \E w \in Workers, s \in Scans : CancelQueued(w, s)
         \/ \E w \in Workers, s \in Scans : Claim(w, s)
         \/ \E w \in Workers : FailWithoutRetry(w)
         \/ \E w \in Workers : CommitFinal(w)
         \/ \E w \in Workers : SetupPipeline(w)
         \/ \E p \in Processes : CommitCancelled(p)
         \/ \E p \in Processes, ok \in BOOLEAN : FinishPipeline(p, ok)
         \/ \E p \in Processes, e \in {"retryable", "fatal"} : PipelineFails(p, e)
         \/ \E s \in Scans : QueueScan(s)
         \/ \E h \in Handlers, s \in Scans : SyncScan(h, s)
         \/ \E q \in Requests : CommitCancel(q)
         \/ \E q \in Requests, r \in Scans : CommitRetry(q, r)
<1> DEFINE Quiet == UNCHANGED coreVars
<1>1. ASSUME NEW w \in Workers, StartRun(w) PROVE Quiet
  BY <1>1 DEF StartRun, coreVars
<1>2. ASSUME NEW w \in Workers, LoadFinal(w) PROVE Quiet
  BY <1>2 DEF LoadFinal, coreVars
<1>3. ASSUME NEW w \in Workers, SetupFails(w) PROVE Quiet
  BY <1>3 DEF SetupFails, coreVars
<1>4. ASSUME NEW w \in Workers, LeaseLost(w) PROVE Quiet
  BY <1>4 DEF LeaseLost, coreVars
<1>5. ASSUME NEW w \in Workers, Heartbeat(w) PROVE Quiet
  BY <1>5 DEF Heartbeat, coreVars
<1>6. ASSUME NEW w \in Workers, HeartbeatLost(w) PROVE Quiet
  BY <1>6 DEF HeartbeatLost, coreVars
<1>7. ASSUME NEW p \in Processes, EnterStage(p) PROVE Quiet
  BY <1>7 DEF EnterStage, coreVars
<1>8. ASSUME NEW p \in Processes, NoticeCancel(p) PROVE Quiet
  BY <1>8 DEF NoticeCancel, coreVars
<1>9. ASSUME NEW p \in Processes, PipelineFailsUnrecorded(p) PROVE Quiet
  BY <1>9 DEF PipelineFailsUnrecorded, coreVars
<1>10. ASSUME NEW p \in Processes, Crash(p) PROVE Quiet
  BY <1>10 DEF Crash, coreVars
<1>11. ASSUME NEW q \in Requests, NEW s \in Scans, LoadCancel(q, s) PROVE Quiet
  BY <1>11 DEF LoadCancel, coreVars
<1>12. ASSUME NEW q \in Requests, NEW s \in Scans, LoadRetry(q, s) PROVE Quiet
  BY <1>12 DEF LoadRetry, coreVars
<1>13. ASSUME NEW o \in Opportunities, NEW t \in OppStates, HumanTransition(o, t) PROVE Quiet
  BY <1>13 DEF HumanTransition, coreVars
<1>14. ASSUME NEW s \in Scans, LeaseExpires(s) PROVE Quiet
  BY <1>14 DEF LeaseExpires, coreVars
<1>15. ASSUME NEW s \in Scans, BackoffElapses(s) PROVE Quiet
  BY <1>15 DEF BackoffElapses, coreVars
<1>16. CASE UNCHANGED vars
  BY <1>16 DEF coreVars
<1> QED
  BY <1>1, <1>2, <1>3, <1>4, <1>5, <1>6, <1>7, <1>8, <1>9, <1>10, <1>11,
     <1>12, <1>13, <1>14, <1>15, <1>16
  DEF Next, WorkerStep, PipelineStep, PipelineFault, WebStep

\* Every step keeps every row in order.
LEMMA RowStep ==
  ASSUME IndInv, [Next]_vars, NEW x \in Scans
  PROVE  RowInv(x)'
<1> USE ScanConstants
<1>0. RowInv(x)
  BY DEF IndInv
<1> DEFINE Goal == RowInv(x)'
<1>1. ASSUME NEW w \in Workers, NEW s \in Scans, Recover(w, s) PROVE Goal
  BY <1>0, <1>1 DEF Recover, Stale, RetryOrQuarantine, RetryStatus,
     ClearLease, Exhausted, IndInv, TypeOK, RowTypeOK, RowInv
<1>2. ASSUME NEW w \in Workers, NEW s \in Scans, CancelQueued(w, s) PROVE Goal
  BY <1>0, <1>2 DEF CancelQueued, ClearLease, IndInv, TypeOK, RowTypeOK,
     RowInv
<1>3. ASSUME NEW w \in Workers, NEW s \in Scans, Claim(w, s) PROVE Goal
  BY <1>0, <1>3 DEF Claim, Claimable, NewToken, IndInv, TypeOK, RowTypeOK,
     RowInv
<1>4. ASSUME NEW w \in Workers, FailWithoutRetry(w) PROVE Goal
  BY <1>0, <1>4 DEF FailWithoutRetry, ClearLease, JobsKeepSource, ProcTypeOK,
     IndInv, TypeOK, RowTypeOK, RowInv
<1>5. ASSUME NEW w \in Workers, CommitFinal(w) PROVE Goal
  BY <1>0, <1>5 DEF CommitFinal, RetryOrQuarantine, RetryStatus, ClearLease,
     Exhausted, JobsKeepSource, ProcTypeOK, IndInv, TypeOK, RowTypeOK, RowInv
<1>6. ASSUME NEW w \in Workers, SetupPipeline(w) PROVE Goal
  BY <1>0, <1>6 DEF SetupPipeline, JobsKeepSource, ProcTypeOK, IndInv, TypeOK,
     RowTypeOK, RowInv
<1>7. ASSUME NEW p \in Processes, CommitCancelled(p) PROVE Goal
  BY <1>0, <1>7 DEF CommitCancelled, JobsKeepSource, ProcTypeOK, IndInv,
     TypeOK, RowTypeOK, RowInv
<1>8. ASSUME NEW p \in Processes, NEW ok \in BOOLEAN, FinishPipeline(p, ok) PROVE Goal
  BY <1>0, <1>8 DEF FinishPipeline, JobsKeepSource, ProcTypeOK, IndInv,
     TypeOK, RowTypeOK, RowInv
<1>9. ASSUME NEW p \in Processes, NEW e \in {"retryable", "fatal"}, PipelineFails(p, e) PROVE Goal
  BY <1>0, <1>9 DEF PipelineFails, JobsKeepSource, ProcTypeOK, IndInv, TypeOK,
     RowTypeOK, RowInv
<1>10. ASSUME NEW s \in Scans, QueueScan(s) PROVE Goal
  BY <1>0, <1>10 DEF QueueScan, IndInv, TypeOK, RowTypeOK, RowInv
<1>11. ASSUME NEW h \in Handlers, NEW s \in Scans, SyncScan(h, s) PROVE Goal
  BY <1>0, <1>11 DEF SyncScan, IndInv, TypeOK, RowTypeOK, RowInv
<1>12. ASSUME NEW q \in Requests, CommitCancel(q) PROVE Goal
  BY <1>0, <1>12 DEF CommitCancel, RequestsOnRows, RequestTypeOK, IndInv,
     TypeOK, RowTypeOK, RowInv
<1>13. ASSUME NEW q \in Requests, NEW r \in Scans, CommitRetry(q, r) PROVE Goal
  BY <1>0, <1>13 DEF CommitRetry, RequestTypeOK, IndInv, TypeOK, RowTypeOK,
     RowInv
<1>14. CASE UNCHANGED coreVars
  BY <1>0, <1>14 DEF coreVars, RowInv
<1> QED
  BY QuietSteps, <1>1, <1>2, <1>3, <1>4, <1>5, <1>6, <1>7, <1>8, <1>9, <1>10,
     <1>11, <1>12, <1>13, <1>14

\* The source of an inserted row never changes, and no row is deleted.
LEMMA RowsStay ==
  ASSUME IndInv, [Next]_vars, NEW x \in Scans, status[x] # "absent"
  PROVE  status'[x] # "absent" /\ source'[x] = source[x]
<1> USE ScanConstants
<1> DEFINE Goal == status'[x] # "absent" /\ source'[x] = source[x]
<1>1. ASSUME NEW w \in Workers, NEW s \in Scans, Recover(w, s) PROVE Goal
  BY <1>1 DEF Recover, RetryOrQuarantine, RetryStatus, IndInv, TypeOK,
     RowTypeOK
<1>2. ASSUME NEW w \in Workers, NEW s \in Scans, CancelQueued(w, s) PROVE Goal
  BY <1>2 DEF CancelQueued, IndInv, TypeOK, RowTypeOK
<1>3. ASSUME NEW w \in Workers, NEW s \in Scans, Claim(w, s) PROVE Goal
  BY <1>3 DEF Claim, IndInv, TypeOK, RowTypeOK
<1>4. ASSUME NEW w \in Workers, FailWithoutRetry(w) PROVE Goal
  BY <1>4 DEF FailWithoutRetry, ProcTypeOK, IndInv, TypeOK, RowTypeOK
<1>5. ASSUME NEW w \in Workers, CommitFinal(w) PROVE Goal
  BY <1>5 DEF CommitFinal, RetryOrQuarantine, RetryStatus, ProcTypeOK, IndInv,
     TypeOK, RowTypeOK
<1>6. ASSUME NEW w \in Workers, SetupPipeline(w) PROVE Goal
  BY <1>6 DEF SetupPipeline, ProcTypeOK, IndInv, TypeOK, RowTypeOK
<1>7. ASSUME NEW p \in Processes, CommitCancelled(p) PROVE Goal
  BY <1>7 DEF CommitCancelled, ProcTypeOK, IndInv, TypeOK, RowTypeOK
<1>8. ASSUME NEW p \in Processes, NEW ok \in BOOLEAN, FinishPipeline(p, ok) PROVE Goal
  BY <1>8 DEF FinishPipeline, ProcTypeOK, IndInv, TypeOK, RowTypeOK
<1>9. ASSUME NEW p \in Processes, NEW e \in {"retryable", "fatal"}, PipelineFails(p, e) PROVE Goal
  BY <1>9 DEF PipelineFails, ProcTypeOK, IndInv, TypeOK, RowTypeOK
<1>10. ASSUME NEW s \in Scans, QueueScan(s) PROVE Goal
  BY <1>10 DEF QueueScan, IndInv, TypeOK, RowTypeOK
<1>11. ASSUME NEW h \in Handlers, NEW s \in Scans, SyncScan(h, s) PROVE Goal
  BY <1>11 DEF SyncScan, IndInv, TypeOK, RowTypeOK
<1>12. ASSUME NEW q \in Requests, CommitCancel(q) PROVE Goal
  BY <1>12 DEF CommitCancel, RequestTypeOK, IndInv, TypeOK, RowTypeOK
<1>13. ASSUME NEW q \in Requests, NEW r \in Scans, CommitRetry(q, r) PROVE Goal
  BY <1>13 DEF CommitRetry, IndInv, TypeOK, RowTypeOK
<1>14. CASE UNCHANGED coreVars
  BY <1>14 DEF coreVars
<1> QED
  BY QuietSteps, <1>1, <1>2, <1>3, <1>4, <1>5, <1>6, <1>7, <1>8, <1>9, <1>10,
     <1>11, <1>12, <1>13, <1>14

\* A slot's scan keeps its source while the slot works on it.
LEMMA JobsStep ==
  ASSUME IndInv, [Next]_vars
  PROVE  JobsKeepSource'
<1> USE ScanConstants
<1>1. CASE KeepBusy
  <2>1. \A p \in Processes : pc'[p] # "idle" =>
           /\ pc[p] # "idle" /\ job'[p] = job[p] /\ job[p] \in Scans
           /\ source[job[p]] # "none"
    BY <1>1 DEF KeepBusy, IndInv, TypeOK, ProcTypeOK, JobsKeepSource
  <2>2. \A p \in Processes : pc'[p] # "idle" => source'[job'[p]] = source[job[p]]
    BY <2>1, RowsStay DEF IndInv, RowInv
  <2> QED
    BY <2>1, <2>2 DEF IndInv, JobsKeepSource
<1>2. ASSUME NEW w \in Workers, NEW s \in Scans, Claim(w, s) PROVE JobsKeepSource'
  BY <1>2 DEF Claim, Claimable, Goto, IndInv, TypeOK, ProcTypeOK, RowTypeOK,
     JobsKeepSource
<1>3. ASSUME NEW h \in Handlers, NEW s \in Scans, SyncScan(h, s) PROVE JobsKeepSource'
  <2>1. \A p \in Processes \ {h} : pc'[p] # "idle" =>
           pc[p] # "idle" /\ job'[p] = job[p] /\ job[p] \in Scans /\ job[p] # s
    BY <1>3 DEF SyncScan, Goto, IndInv, TypeOK, ProcTypeOK, JobsKeepSource, RowInv
  <2> QED
    BY <1>3, <2>1 DEF SyncScan, Goto, IndInv, TypeOK, ProcTypeOK, RowTypeOK,
       JobsKeepSource
<1> QED
  BY <1>1, <1>2, <1>3, StepsKeepBusy DEF IndInv

\* No two busy slots ever hold the same token for the same scan.
LEMMA TokenStep ==
  ASSUME IndInv, [Next]_vars
  PROVE  TokensFresh'
<1> USE ScanConstants
<1>1. CASE KeepBusy /\ UNCHANGED claims
  BY <1>1 DEF KeepBusy, IndInv, TokensFresh
<1>2. ASSUME NEW w \in Workers, NEW s \in Scans, Claim(w, s) PROVE TokensFresh'
  <2>1. /\ pc'[w] # "idle" /\ job'[w] = s /\ token'[w] = claims[s] + 1
        /\ claims'[s] = claims[s] + 1
        /\ \A x \in Scans : claims'[x] \in Nat /\ claims[x] \in Nat /\ claims'[x] >= claims[x]
    BY <1>2 DEF Claim, NewToken, Goto, IndInv, TypeOK, ProcTypeOK, RowTypeOK
  <2>2. \A v \in Workers \ {w} : pc'[v] # "idle" =>
           /\ pc[v] # "idle" /\ job'[v] = job[v] /\ job[v] \in Scans
           /\ token'[v] = token[v] /\ token[v] \in 1 .. claims[job[v]]
    BY <1>2 DEF Claim, Goto, IndInv, TypeOK, ProcTypeOK, TokensFresh
  <2>3. \A v \in Workers : pc'[v] # "idle" => token'[v] \in 1 .. claims'[job'[v]]
    BY <2>1, <2>2
  <2>4. ASSUME NEW u \in Workers, NEW v \in Workers, u # v, pc'[u] # "idle",
               pc'[v] # "idle", job'[u] = job'[v]
        PROVE  token'[u] # token'[v]
    <3>1. CASE u # w /\ v # w
      BY <2>2, <2>4, <3>1 DEF IndInv, TokensFresh
    <3>2. CASE u = w \/ v = w
      BY <2>1, <2>2, <2>4, <3>2
    <3> QED
      BY <3>1, <3>2
  <2> QED
    BY <2>3, <2>4 DEF TokensFresh
<1>3. ASSUME NEW h \in Handlers, NEW s \in Scans, SyncScan(h, s) PROVE TokensFresh'
  <2>1. \A w \in Workers : pc'[w] = pc[w] /\ job'[w] = job[w] /\ token'[w] = token[w]
    BY <1>3 DEF SyncScan, Goto, IndInv, TypeOK, ProcTypeOK
  <2> QED
    BY <1>3, <2>1 DEF SyncScan, IndInv, TokensFresh
<1> QED
  BY <1>1, <1>2, <1>3, StepsKeepBusy DEF IndInv

\* A request that is pending after a step was pending before on the same scan,
\* or has just read an inserted row.
LEMMA PendingRequests ==
  ASSUME IndInv, [Next]_vars, NEW x \in Requests, request'[x].op # "none"
  PROVE  \/ request'[x] = request[x]
         \/ request'[x].scan \in Scans /\ status[request'[x].scan] # "absent"
<1> DEFINE Goal ==
       \/ request'[x] = request[x]
       \/ request'[x].scan \in Scans /\ status[request'[x].scan] # "absent"
<1> USE ScanConstants
<1>1. ASSUME NEW w \in Workers, NEW s \in Scans, Recover(w, s) PROVE Goal
  BY <1>1 DEF Recover
<1>2. ASSUME NEW w \in Workers, NEW s \in Scans, CancelQueued(w, s) PROVE Goal
  BY <1>2 DEF CancelQueued
<1>3. ASSUME NEW w \in Workers, NEW s \in Scans, Claim(w, s) PROVE Goal
  BY <1>3 DEF Claim
<1>4. ASSUME NEW w \in Workers, StartRun(w) PROVE Goal
  BY <1>4 DEF StartRun
<1>5. ASSUME NEW w \in Workers, FailWithoutRetry(w) PROVE Goal
  BY <1>5 DEF FailWithoutRetry
<1>6. ASSUME NEW w \in Workers, LoadFinal(w) PROVE Goal
  BY <1>6 DEF LoadFinal
<1>7. ASSUME NEW w \in Workers, CommitFinal(w) PROVE Goal
  BY <1>7 DEF CommitFinal
<1>8. ASSUME NEW w \in Workers, SetupPipeline(w) PROVE Goal
  BY <1>8 DEF SetupPipeline
<1>9. ASSUME NEW w \in Workers, SetupFails(w) PROVE Goal
  BY <1>9 DEF SetupFails
<1>10. ASSUME NEW w \in Workers, LeaseLost(w) PROVE Goal
  BY <1>10 DEF LeaseLost
<1>11. ASSUME NEW w \in Workers, Heartbeat(w) PROVE Goal
  BY <1>11 DEF Heartbeat
<1>12. ASSUME NEW w \in Workers, HeartbeatLost(w) PROVE Goal
  BY <1>12 DEF HeartbeatLost
<1>13. ASSUME NEW p \in Processes, EnterStage(p) PROVE Goal
  BY <1>13 DEF EnterStage
<1>14. ASSUME NEW p \in Processes, NoticeCancel(p) PROVE Goal
  BY <1>14 DEF NoticeCancel
<1>15. ASSUME NEW p \in Processes, CommitCancelled(p) PROVE Goal
  BY <1>15 DEF CommitCancelled
<1>16. ASSUME NEW p \in Processes, NEW ok \in BOOLEAN, FinishPipeline(p, ok) PROVE Goal
  BY <1>16 DEF FinishPipeline
<1>17. ASSUME NEW p \in Processes, NEW e \in {"retryable", "fatal"}, PipelineFails(p, e) PROVE Goal
  BY <1>17 DEF PipelineFails
<1>18. ASSUME NEW p \in Processes, PipelineFailsUnrecorded(p) PROVE Goal
  BY <1>18 DEF PipelineFailsUnrecorded
<1>19. ASSUME NEW p \in Processes, Crash(p) PROVE Goal
  BY <1>19 DEF Crash
<1>20. ASSUME NEW s \in Scans, QueueScan(s) PROVE Goal
  BY <1>20 DEF QueueScan
<1>21. ASSUME NEW h \in Handlers, NEW s \in Scans, SyncScan(h, s) PROVE Goal
  BY <1>21 DEF SyncScan
<1>22. ASSUME NEW q \in Requests, NEW s \in Scans, LoadCancel(q, s) PROVE Goal
  BY <1>22 DEF LoadCancel, NoRequest, IndInv, TypeOK, RequestTypeOK
<1>23. ASSUME NEW q \in Requests, CommitCancel(q) PROVE Goal
  BY <1>23 DEF CommitCancel, NoRequest, IndInv, TypeOK, RequestTypeOK
<1>24. ASSUME NEW q \in Requests, NEW s \in Scans, LoadRetry(q, s) PROVE Goal
  BY <1>24 DEF LoadRetry, NoRequest, IndInv, TypeOK, RequestTypeOK
<1>25. ASSUME NEW q \in Requests, NEW r \in Scans, CommitRetry(q, r) PROVE Goal
  BY <1>25 DEF CommitRetry, NoRequest, IndInv, TypeOK, RequestTypeOK
<1>26. ASSUME NEW o \in Opportunities, NEW t \in OppStates, HumanTransition(o, t) PROVE Goal
  BY <1>26 DEF HumanTransition
<1>27. ASSUME NEW s \in Scans, LeaseExpires(s) PROVE Goal
  BY <1>27 DEF LeaseExpires
<1>28. ASSUME NEW s \in Scans, BackoffElapses(s) PROVE Goal
  BY <1>28 DEF BackoffElapses
<1>29. CASE UNCHANGED vars
  BY <1>29
<1> QED
  BY <1>1, <1>2, <1>3, <1>4, <1>5, <1>6, <1>7, <1>8, <1>9, <1>10, <1>11,
     <1>12, <1>13, <1>14, <1>15, <1>16, <1>17, <1>18, <1>19, <1>20, <1>21,
     <1>22, <1>23, <1>24, <1>25, <1>26, <1>27, <1>28, <1>29
  DEF Next, WorkerStep, PipelineStep, PipelineFault, WebStep

\* Every pending request stays about an inserted row.
LEMMA RequestStep ==
  ASSUME IndInv, [Next]_vars
  PROVE  RequestsOnRows'
<1>1. SUFFICES ASSUME NEW x \in Requests, request'[x].op # "none"
               PROVE  status'[request'[x].scan] # "absent"
  BY DEF RequestsOnRows
<1>2. request'[x].scan \in Scans /\ status[request'[x].scan] # "absent"
  BY <1>1, PendingRequests DEF IndInv, TypeOK, RequestTypeOK, RequestsOnRows
<1> QED
  BY <1>2, RowsStay
----------------------------------------------------------------------------
(* The theorems.                                                           *)

\* The invariant holds at first and every step keeps it.
LEMMA InductiveInvariant == Spec => []IndInv
<1>1. Init => IndInv
  <2> SUFFICES ASSUME Init PROVE IndInv
    OBVIOUS
  <2> USE ScanConstants
  <2>1. RowTypeOK
    BY DEF Init, RowTypeOK
  <2>2. ProcTypeOK
    BY DEF Init, ProcTypeOK, OppStates
  <2>3. RequestTypeOK /\ RequestsOnRows
    BY DEF Init, RequestTypeOK, RequestsOnRows, NoRequest
  <2>4. opp \in [Opportunities -> OppStates]
    BY DEF Init, OppStates
  <2>5. \A s \in Scans : RowInv(s)
    BY DEF Init, RowInv
  <2>6. JobsKeepSource /\ TokensFresh
    BY DEF Init, JobsKeepSource, TokensFresh
  <2> QED
    BY <2>1, <2>2, <2>3, <2>4, <2>5, <2>6 DEF IndInv, TypeOK
<1>2. IndInv /\ [Next]_vars => IndInv'
  <2> SUFFICES ASSUME IndInv, [Next]_vars PROVE IndInv'
    OBVIOUS
  <2>1. TypeOK'
    BY TypeStep DEF IndInv
  <2>2. \A s \in Scans : RowInv(s)'
    BY RowStep
  <2> QED
    BY <2>1, <2>2, JobsStep, TokenStep, RequestStep DEF IndInv
<1> QED
  BY <1>1, <1>2, PTL DEF Spec

\* Every column of scan_runs, every opportunity state and every local variable
\* of a worker, handler or request keeps its type.
THEOREM TypeCorrect == Spec => []TypeOK
<1>1. IndInv => TypeOK
  BY DEF IndInv
<1> QED
  BY <1>1, InductiveInvariant, PTL

\* However many workers there are and however long they stall, at most one slot
\* passes the _owns test for a scan.
THEOREM LeaseIsExclusive == Spec => []LeaseExclusive
<1>1. IndInv => LeaseExclusive
  BY DEF IndInv, TokensFresh, LeaseExclusive, Owns, LeaseMatches
<1> QED
  BY <1>1, InductiveInvariant, PTL

\* No scan is executed more than scan_worker_max_attempts times.
THEOREM AttemptsAreBounded == Spec => []AttemptsBounded
<1>1. IndInv => AttemptsBounded
  BY DEF IndInv, RowInv, AttemptsBounded
<1> QED
  BY <1>1, InductiveInvariant, PTL

\* A queued scan carries no lease.
THEOREM QueuedScansAreFree == Spec => []QueuedHoldsNoLease
<1>1. IndInv => QueuedHoldsNoLease
  BY DEF IndInv, RowInv, QueuedHoldsNoLease
<1> QED
  BY <1>1, InductiveInvariant, PTL

\* A synchronous scan is never queued, leased or retried.
THEOREM SynchronousScansStay == Spec => []SynchronousStaysManual
<1>1. IndInv => SynchronousStaysManual
  BY DEF IndInv, RowInv, SynchronousStaysManual
<1> QED
  BY <1>1, InductiveInvariant, PTL

\* A scan with a recorded cancellation that is not running never runs again.
THEOREM CancellationSticks == Spec => CancelledNeverRunsAgain
<1>1. IndInv /\ [Next]_vars =>
        [\A s \in Scans :
            cancelRequested[s] /\ status[s] # "running" => status'[s] # "running"]_vars
  <2> SUFFICES ASSUME IndInv, [Next]_vars, NEW x \in Scans, cancelRequested[x],
                      status[x] # "running"
               PROVE  status'[x] # "running"
    OBVIOUS
  <2> USE ScanConstants
  <2> DEFINE Goal == status'[x] # "running"
  <2>1. ASSUME NEW w \in Workers, NEW s \in Scans, Recover(w, s) PROVE Goal
    BY <2>1 DEF Recover, RetryOrQuarantine, RetryStatus, IndInv, TypeOK,
       RowTypeOK
  <2>2. ASSUME NEW w \in Workers, NEW s \in Scans, CancelQueued(w, s) PROVE Goal
    BY <2>2 DEF CancelQueued, IndInv, TypeOK, RowTypeOK
  <2>3. ASSUME NEW w \in Workers, NEW s \in Scans, Claim(w, s) PROVE Goal
    BY <2>3 DEF Claim, Claimable, IndInv, TypeOK, RowTypeOK
  <2>4. ASSUME NEW w \in Workers, FailWithoutRetry(w) PROVE Goal
    BY <2>4 DEF FailWithoutRetry, ProcTypeOK, IndInv, TypeOK, RowTypeOK
  <2>5. ASSUME NEW w \in Workers, CommitFinal(w) PROVE Goal
    BY <2>5 DEF CommitFinal, RetryOrQuarantine, RetryStatus, ProcTypeOK,
       IndInv, TypeOK, RowTypeOK
  <2>6. ASSUME NEW w \in Workers, SetupPipeline(w) PROVE Goal
    BY <2>6 DEF SetupPipeline, ProcTypeOK, IndInv, TypeOK, RowTypeOK
  <2>7. ASSUME NEW p \in Processes, CommitCancelled(p) PROVE Goal
    BY <2>7 DEF CommitCancelled, ProcTypeOK, IndInv, TypeOK, RowTypeOK
  <2>8. ASSUME NEW p \in Processes, NEW ok \in BOOLEAN, FinishPipeline(p, ok) PROVE Goal
    BY <2>8 DEF FinishPipeline, ProcTypeOK, IndInv, TypeOK, RowTypeOK
  <2>9. ASSUME NEW p \in Processes, NEW e \in {"retryable", "fatal"}, PipelineFails(p, e) PROVE Goal
    BY <2>9 DEF PipelineFails, ProcTypeOK, IndInv, TypeOK, RowTypeOK
  <2>10. ASSUME NEW s \in Scans, QueueScan(s) PROVE Goal
    BY <2>10 DEF QueueScan, IndInv, TypeOK, RowTypeOK
  <2>11. ASSUME NEW h \in Handlers, NEW s \in Scans, SyncScan(h, s) PROVE Goal
    BY <2>11 DEF SyncScan, RowInv, IndInv, TypeOK, RowTypeOK
  <2>12. ASSUME NEW q \in Requests, CommitCancel(q) PROVE Goal
    BY <2>12 DEF CommitCancel, RequestTypeOK, IndInv, TypeOK, RowTypeOK
  <2>13. ASSUME NEW q \in Requests, NEW r \in Scans, CommitRetry(q, r) PROVE Goal
    BY <2>13 DEF CommitRetry, IndInv, TypeOK, RowTypeOK
  <2>14. CASE UNCHANGED coreVars
    BY <2>14 DEF coreVars
  <2> QED
    BY QuietSteps, <2>1, <2>2, <2>3, <2>4, <2>5, <2>6, <2>7, <2>8, <2>9,
       <2>10, <2>11, <2>12, <2>13, <2>14
<1> QED
  BY <1>1, InductiveInvariant, PTL DEF Spec, CancelledNeverRunsAgain

\* The stage of a leased scan advances only for the slot whose lease is current.
THEOREM OldWorkersAreFenced == Spec => OldWorkerCannotAdvance
<1>1. IndInv /\ [Next]_vars =>
        [\A s \in Scans :
            source[s] = "async" /\ stage'[s] > stage[s] =>
               \E w \in Workers : /\ pc[w] \in {"pipeline", "staged"} /\ job[w] = s
                                  /\ Owns(w) /\ ~leaseExpired[s]]_vars
  <2> DEFINE Fenced(x) ==
         source[x] = "async" /\ stage'[x] > stage[x] =>
            \E w \in Workers : /\ pc[w] \in {"pipeline", "staged"} /\ job[w] = x
                               /\ Owns(w) /\ ~leaseExpired[x]
  <2> SUFFICES ASSUME IndInv, [Next]_vars, NEW x \in Scans PROVE Fenced(x)
    OBVIOUS
  <2> USE ScanConstants
  <2>1. ASSUME NEW w \in Workers, NEW s \in Scans, Recover(w, s) PROVE Fenced(x)
    BY <2>1 DEF Recover, IndInv, TypeOK, RowTypeOK
  <2>2. ASSUME NEW w \in Workers, NEW s \in Scans, CancelQueued(w, s) PROVE Fenced(x)
    BY <2>2 DEF CancelQueued, IndInv, TypeOK, RowTypeOK
  <2>3. ASSUME NEW w \in Workers, NEW s \in Scans, Claim(w, s) PROVE Fenced(x)
    BY <2>3 DEF Claim, IndInv, TypeOK, RowTypeOK
  <2>4. ASSUME NEW w \in Workers, StartRun(w) PROVE Fenced(x)
    BY <2>4 DEF StartRun, IndInv, TypeOK, RowTypeOK
  <2>5. ASSUME NEW w \in Workers, FailWithoutRetry(w) PROVE Fenced(x)
    BY <2>5 DEF FailWithoutRetry, IndInv, TypeOK, RowTypeOK
  <2>6. ASSUME NEW w \in Workers, LoadFinal(w) PROVE Fenced(x)
    BY <2>6 DEF LoadFinal, IndInv, TypeOK, RowTypeOK
  <2>7. ASSUME NEW w \in Workers, CommitFinal(w) PROVE Fenced(x)
    BY <2>7 DEF CommitFinal, IndInv, TypeOK, RowTypeOK
  <2>8. ASSUME NEW w \in Workers, SetupPipeline(w) PROVE Fenced(x)
    BY <2>8 DEF SetupPipeline, IndInv, TypeOK, RowTypeOK, LeaseCurrent, Owns,
       JobsKeepSource, ProcTypeOK
  <2>9. ASSUME NEW w \in Workers, SetupFails(w) PROVE Fenced(x)
    BY <2>9 DEF SetupFails, IndInv, TypeOK, RowTypeOK
  <2>10. ASSUME NEW w \in Workers, LeaseLost(w) PROVE Fenced(x)
    BY <2>10 DEF LeaseLost, IndInv, TypeOK, RowTypeOK
  <2>11. ASSUME NEW w \in Workers, Heartbeat(w) PROVE Fenced(x)
    BY <2>11 DEF Heartbeat, IndInv, TypeOK, RowTypeOK
  <2>12. ASSUME NEW w \in Workers, HeartbeatLost(w) PROVE Fenced(x)
    BY <2>12 DEF HeartbeatLost, IndInv, TypeOK, RowTypeOK
  <2>13. ASSUME NEW p \in Processes, EnterStage(p) PROVE Fenced(x)
    BY <2>13 DEF EnterStage, IndInv, TypeOK, RowTypeOK, LeaseCurrent, Owns,
       JobsKeepSource, ProcTypeOK
  <2>14. ASSUME NEW p \in Processes, NoticeCancel(p) PROVE Fenced(x)
    BY <2>14 DEF NoticeCancel, IndInv, TypeOK, RowTypeOK
  <2>15. ASSUME NEW p \in Processes, CommitCancelled(p) PROVE Fenced(x)
    BY <2>15 DEF CommitCancelled, IndInv, TypeOK, RowTypeOK
  <2>16. ASSUME NEW p \in Processes, NEW ok \in BOOLEAN, FinishPipeline(p, ok) PROVE Fenced(x)
    BY <2>16 DEF FinishPipeline, IndInv, TypeOK, RowTypeOK
  <2>17. ASSUME NEW p \in Processes, NEW e \in {"retryable", "fatal"}, PipelineFails(p, e) PROVE Fenced(x)
    BY <2>17 DEF PipelineFails, IndInv, TypeOK, RowTypeOK
  <2>18. ASSUME NEW p \in Processes, PipelineFailsUnrecorded(p) PROVE Fenced(x)
    BY <2>18 DEF PipelineFailsUnrecorded, IndInv, TypeOK, RowTypeOK
  <2>19. ASSUME NEW p \in Processes, Crash(p) PROVE Fenced(x)
    BY <2>19 DEF Crash, IndInv, TypeOK, RowTypeOK
  <2>20. ASSUME NEW s \in Scans, QueueScan(s) PROVE Fenced(x)
    BY <2>20 DEF QueueScan, IndInv, TypeOK, RowTypeOK
  <2>21. ASSUME NEW h \in Handlers, NEW s \in Scans, SyncScan(h, s) PROVE Fenced(x)
    BY <2>21 DEF SyncScan, IndInv, TypeOK, RowTypeOK, RowInv
  <2>22. ASSUME NEW q \in Requests, NEW s \in Scans, LoadCancel(q, s) PROVE Fenced(x)
    BY <2>22 DEF LoadCancel, IndInv, TypeOK, RowTypeOK
  <2>23. ASSUME NEW q \in Requests, CommitCancel(q) PROVE Fenced(x)
    BY <2>23 DEF CommitCancel, IndInv, TypeOK, RowTypeOK
  <2>24. ASSUME NEW q \in Requests, NEW s \in Scans, LoadRetry(q, s) PROVE Fenced(x)
    BY <2>24 DEF LoadRetry, IndInv, TypeOK, RowTypeOK
  <2>25. ASSUME NEW q \in Requests, NEW r \in Scans, CommitRetry(q, r) PROVE Fenced(x)
    BY <2>25 DEF CommitRetry, IndInv, TypeOK, RowTypeOK
  <2>26. ASSUME NEW o \in Opportunities, NEW t \in OppStates, HumanTransition(o, t) PROVE Fenced(x)
    BY <2>26 DEF HumanTransition, IndInv, TypeOK, RowTypeOK
  <2>27. ASSUME NEW s \in Scans, LeaseExpires(s) PROVE Fenced(x)
    BY <2>27 DEF LeaseExpires, IndInv, TypeOK, RowTypeOK
  <2>28. ASSUME NEW s \in Scans, BackoffElapses(s) PROVE Fenced(x)
    BY <2>28 DEF BackoffElapses, IndInv, TypeOK, RowTypeOK
  <2>29. CASE UNCHANGED vars
    BY <2>29 DEF IndInv, TypeOK, RowTypeOK
  <2> QED
    BY <2>1, <2>2, <2>3, <2>4, <2>5, <2>6, <2>7, <2>8, <2>9, <2>10, <2>11,
       <2>12, <2>13, <2>14, <2>15, <2>16, <2>17, <2>18, <2>19, <2>20, <2>21,
       <2>22, <2>23, <2>24, <2>25, <2>26, <2>27, <2>28, <2>29
    DEF Next, WorkerStep, PipelineStep, PipelineFault, WebStep
<1> QED
  BY <1>1, InductiveInvariant, PTL DEF Spec, OldWorkerCannotAdvance
=============================================================================
