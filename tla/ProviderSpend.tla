--------------------------- MODULE ProviderSpend ---------------------------
(***************************************************************************)
(* Paid provider calls: each planned request of a scan has one row of      *)
(* api_calls that passes through prepared, reserved and in_flight; the     *)
(* estimated cost of a call is reserved in the daily usage bucket before   *)
(* the network is touched and settled afterwards; recovery reconciles the  *)
(* rows a lost worker left open; an operator resolves unknown outcomes.    *)
(*                                                                         *)
(* A call is estimated at one unit of money.  The bucket is read under its *)
(* row lock, but session.get(..., with_for_update=True) locks the api_calls*)
(* row without refreshing the copy the session holds, and sessions do not  *)
(* expire on commit: a worker keeps deciding on its own copy of the row    *)
(* and writes the columns that differ from that copy.                      *)
(***************************************************************************)
EXTENDS Integers, FiniteSets

CONSTANTS
    Scans,
    Calls,          \* planned requests
    ScanOf,         \* the scan a request is planned for
    Workers,
    Limit,          \* the daily spend limit, in units
    MaxLeases,      \* bound on the leases issued for each scan
    MaxSends,       \* bound on the network requests of one planned request
    Events          \* what the environment may do

AllEvents == {"crash", "stall", "slow", "reject", "unstored", "ambiguous", "breaker",
              "resolve"}

ASSUME SpendConstants ==
    /\ ScanOf \in [Calls -> Scans]
    /\ MaxLeases \in [Scans -> Nat]
    /\ Limit \in Nat /\ MaxSends \in Nat
    /\ Events \subseteq AllEvents
    /\ IsFiniteSet(Calls) /\ Calls # {}

Reusable == {"failed", "failed_before_network", "blocked"}
OpenAttempts == {"prepared", "reserved", "in_flight"}
CallStatus == Reusable \cup {"absent", "prepared", "in_flight", "completed", "cache_hit",
                             "provider_outcome_unknown", "provider_confirmed_not_billed"}
AttemptState == Reusable \cup OpenAttempts \cup
                {"absent", "completed", "cache_hit", "provider_outcome_unknown", "reconciled"}
ReservationState == {"none", "reserved", "finalized", "released", "reconciled_unknown"}
Rows == [status : CallStatus, attempt : AttemptState, reservation : ReservationState,
         network : BOOLEAN]
NoRow == [status |-> "absent", attempt |-> "absent", reservation |-> "none",
          network |-> FALSE]
\* A worker at a call has entered _request; from "submitted" on its request may go out.
Submitted == {"submitted", "sending", "awaiting", "answered"}
AtCall == {"prepared", "reserved"} \cup Submitted
Labels == {"idle", "running"} \cup AtCall

VARIABLES
    row,            \* api_calls, by planned request
    cached,         \* a valid cached response exists
    \* provider_daily_usage, the summary bucket of the day
    spend, reserved, unreconciled,
    lease,          \* scan_runs.lease_token, 0 for none
    leases,         \* uuid4 supply of lease tokens
    \* a worker: what it is doing, for which scan and call, under which token
    pc, scan, call, token,
    copy,           \* the api_calls row as the worker's session has it
    \* history: requests put on the network, those that may have cost money, and
    \* those whose paid answer could not be stored
    sends, billable, lost,
    \* history: whether recovery ever took a call from a worker that was still at
    \* it, and the calls where a worker that had lost its lease put a reusable
    \* status over the row of a submitted attempt
    overtaken, trampled

bucketVars == <<spend, reserved, unreconciled>>
leaseVars == <<lease, leases>>
workerVars == <<pc, scan, call, token, copy>>
history == <<sends, billable, lost, overtaken, trampled>>
vars == <<row, cached, bucketVars, leaseVars, workerVars, history>>

\* Every column and every local variable holds a value the code can put there; a
\* worker that is past preparing a call has a row to work on.
TypeOK ==
    /\ row \in [Calls -> Rows]
    /\ cached \in [Calls -> BOOLEAN]
    /\ spend \in Nat /\ reserved \in Nat /\ unreconciled \in Nat
    /\ lease \in [Scans -> Nat] /\ leases \in [Scans -> Nat]
    /\ pc \in [Workers -> Labels]
    /\ scan \in [Workers -> Scans]
    /\ call \in [Workers -> Calls]
    /\ token \in [Workers -> Nat]
    /\ copy \in [Workers -> Rows]
    /\ \A w \in Workers : pc[w] \in AtCall => row[call[w]] # NoRow
    /\ sends \in [Calls -> Nat] /\ billable \in [Calls -> Nat] /\ lost \in [Calls -> Nat]
    /\ overtaken \in BOOLEAN /\ trampled \subseteq Calls

Init ==
    /\ row = [c \in Calls |-> NoRow]
    /\ cached = [c \in Calls |-> FALSE]
    /\ spend = 0 /\ reserved = 0 /\ unreconciled = 0
    /\ lease = [s \in Scans |-> 0]
    /\ leases = [s \in Scans |-> 0]
    /\ pc = [w \in Workers |-> "idle"]
    /\ scan = [w \in Workers |-> CHOOSE s \in Scans : TRUE]
    /\ call = [w \in Workers |-> CHOOSE c \in Calls : TRUE]
    /\ token = [w \in Workers |-> 0]
    /\ copy = [w \in Workers |-> NoRow]
    /\ sends = [c \in Calls |-> 0]
    /\ billable = [c \in Calls |-> 0]
    /\ lost = [c \in Calls |-> 0]
    /\ overtaken = FALSE /\ trampled = {}
----------------------------------------------------------------------------
(* What the code looks at.                                                 *)

MutLeaseAlwaysCurrent(w) == TRUE

\* assert_current_scan_lease, with or without the lock on the scan row.
LeaseCurrent(w) == lease[scan[w]] = token[w]

\* _planned_call and _reserve_api_call: the planned request has no row yet, or
\* one whose attempt failed in a way that lets it be used again.
Unused(c) == row[c].status \in Reusable \cup {"absent"}

\* The row of c belongs to an attempt that was submitted and has not failed.
Taken(c) == row[c].network /\ ~Unused(c)

MutBudgetIgnoresUnknown == spend + reserved + 1 <= Limit

\* _assert_durable_breakers: the projected spend stays within the day's limit.
WithinBudget == spend + reserved + unreconciled + 1 <= Limit

\* max(0.0, amount - estimated_cost)
Less(amount) == IF amount = 0 THEN 0 ELSE amount - 1
----------------------------------------------------------------------------
(* Building blocks of the actions.                                         *)

\* The worker's session sets its copy of the row to new and flushes: columns
\* whose value differs from the copy are written.
Write(w, new) ==
    /\ row' = [row EXCEPT ![call[w]] =
                 [f \in DOMAIN new |-> IF new[f] # copy[w][f] THEN new[f] ELSE @[f]]]
    /\ copy' = [copy EXCEPT ![w] = new]

MutSettleUnknownAsSpent(unknown, actual) ==
    /\ reserved' = Less(reserved)
    /\ spend' = spend + actual
    /\ UNCHANGED unreconciled

\* The bucket part of finish_provider_call.
Settle(unknown, actual) ==
    /\ reserved' = Less(reserved)
    /\ IF unknown
       THEN unreconciled' = unreconciled + 1 /\ UNCHANGED spend
       ELSE spend' = spend + actual /\ UNCHANGED unreconciled

\* History: it is now known that the last request of c, if there was one, cost
\* nothing; what was paid for answers that were lost stays paid.
NotBilled(c) == [billable EXCEPT ![c] = IF @ > lost[c] THEN @ - 1 ELSE @]

\* History: the failure the worker records lands on an attempt that is not its own.
Trample(w) == IF Taken(call[w]) THEN trampled \cup {call[w]} ELSE trampled

\* The exception leaves _request and ends this attempt of the scan: the worker
\* gives the scan up, and its lease with it if it still holds it.
GiveUp(w) ==
    /\ pc' = [pc EXCEPT ![w] = "idle"]
    /\ lease' = IF LeaseCurrent(w) THEN [lease EXCEPT ![scan[w]] = 0] ELSE lease
    /\ UNCHANGED <<scan, call, token, leases>>

\* The row after an attempt that failed without an ambiguous outcome, and after
\* one whose outcome nobody knows (_finish_api_call, then finish_provider_call).
Failed(w, status) == [copy[w] EXCEPT !.status = status, !.attempt = status]
Unknown(w) ==
    [copy[w] EXCEPT !.status = "provider_outcome_unknown",
                    !.attempt = "provider_outcome_unknown",
                    !.reservation = "reconciled_unknown"]
----------------------------------------------------------------------------
(* A worker's attempt at a scan, and DataForSEOLiveProvider._request.      *)

\* claim_next_scan, as far as this module needs it.
ClaimScan(w, s) ==
    /\ pc[w] = "idle"
    /\ lease[s] = 0 /\ leases[s] < MaxLeases[s]
    /\ leases' = [leases EXCEPT ![s] = @ + 1]
    /\ lease' = [lease EXCEPT ![s] = leases[s] + 1]
    /\ token' = [token EXCEPT ![w] = leases[s] + 1]
    /\ scan' = [scan EXCEPT ![w] = s]
    /\ pc' = [pc EXCEPT ![w] = "running"]
    /\ UNCHANGED <<row, cached, bucketVars, call, copy, history>>

\* The scan needs no more calls.
LeaveScan(w) ==
    /\ pc[w] = "running"
    /\ GiveUp(w)
    /\ UNCHANGED <<row, cached, bucketVars, copy, history>>

\* _reserve_api_call on a cache miss: a new row, or the failed one reset.  No
\* lease is checked here.
Prepare(w, c) ==
    LET new == [status |-> "prepared", attempt |-> "prepared", reservation |-> "none",
                network |-> FALSE] IN
    /\ pc[w] = "running"
    /\ ScanOf[c] = scan[w]
    /\ ~cached[c] /\ Unused(c)
    /\ sends[c] < MaxSends
    /\ row' = [row EXCEPT ![c] = new]
    /\ copy' = [copy EXCEPT ![w] = new]
    /\ call' = [call EXCEPT ![w] = c]
    /\ pc' = [pc EXCEPT ![w] = "prepared"]
    /\ UNCHANGED <<cached, bucketVars, leaseVars, scan, token, history>>

\* _record_cache_hit of a response whose row is still marked failed.
ReplayCached(w, c) ==
    /\ pc[w] = "running"
    /\ ScanOf[c] = scan[w]
    /\ cached[c] /\ Unused(c)
    /\ row' = [row EXCEPT ![c] = [status |-> "cache_hit", attempt |-> "cache_hit",
                                  reservation |-> "none", network |-> FALSE]]
    /\ UNCHANGED <<cached, bucketVars, leaseVars, workerVars, history>>

\* reserve_provider_call
Reserve(w) ==
    /\ pc[w] = "prepared"
    /\ LeaseCurrent(w)
    /\ WithinBudget
    /\ reserved' = reserved + 1
    /\ Write(w, [copy[w] EXCEPT !.attempt = "reserved", !.reservation = "reserved"])
    /\ pc' = [pc EXCEPT ![w] = "reserved"]
    /\ UNCHANGED <<cached, spend, unreconciled, leaseVars, scan, call, token, history>>

\* reserve_provider_call refuses: the lease is lost, or a switch, the budget or
\* another breaker blocks the call.
ReserveRefused(w) ==
    /\ pc[w] = "prepared"
    /\ \/ ~LeaseCurrent(w) /\ Write(w, Failed(w, "failed_before_network"))
       \/ /\ LeaseCurrent(w)
          /\ ~WithinBudget \/ "breaker" \in Events
          /\ Write(w, Failed(w, "blocked"))
    /\ trampled' = Trample(w)
    /\ GiveUp(w)
    /\ UNCHANGED <<cached, bucketVars, sends, billable, lost, overtaken>>

\* mark_provider_call_submitted
Submit(w) ==
    /\ pc[w] = "reserved"
    /\ LeaseCurrent(w)
    /\ Write(w, [copy[w] EXCEPT !.status = "in_flight", !.attempt = "in_flight",
                                !.network = TRUE])
    /\ pc' = [pc EXCEPT ![w] = "submitted"]
    /\ UNCHANGED <<cached, bucketVars, leaseVars, scan, call, token, history>>

\* ... refuses: the lease is lost; the reservation is settled at no cost.
SubmitRefused(w) ==
    /\ pc[w] = "reserved"
    /\ ~LeaseCurrent(w)
    /\ Write(w, [Failed(w, "failed_before_network") EXCEPT !.reservation = "finalized"])
    /\ Settle(FALSE, 0)
    /\ trampled' = Trample(w)
    /\ GiveUp(w)
    /\ UNCHANGED <<cached, sends, billable, lost, overtaken>>

\* _assert_execution_lease before the HTTP client opens.  It takes no lock: the
\* lease may be lost before the request goes out.
CheckBeforeSend(w) ==
    /\ pc[w] = "submitted"
    /\ LeaseCurrent(w)
    /\ pc' = [pc EXCEPT ![w] = "sending"]
    /\ UNCHANGED <<row, cached, bucketVars, leaseVars, scan, call, token, copy, history>>

\* The client opens and the request goes out.
Send(w) ==
    /\ pc[w] = "sending"
    /\ sends' = [sends EXCEPT ![call[w]] = @ + 1]
    /\ billable' = [billable EXCEPT ![call[w]] = @ + 1]
    /\ pc' = [pc EXCEPT ![w] = "awaiting"]
    /\ UNCHANGED <<row, cached, bucketVars, leaseVars, scan, call, token, copy, lost,
                   overtaken, trampled>>

\* The response is there and _assert_execution_lease passes, again without a lock;
\* what follows is recorded whoever holds the lease by then.
CheckAnswer(w) ==
    /\ pc[w] = "awaiting"
    /\ LeaseCurrent(w)
    /\ pc' = [pc EXCEPT ![w] = "answered"]
    /\ UNCHANGED <<row, cached, bucketVars, leaseVars, scan, call, token, copy, history>>

\* The answer is a usable payload: cached, recorded and settled in one commit.
Complete(w, actual) ==
    /\ pc[w] = "answered"
    /\ cached' = [cached EXCEPT ![call[w]] = TRUE]
    /\ Write(w, [copy[w] EXCEPT !.status = "completed", !.attempt = "completed",
                                !.reservation = "finalized"])
    /\ Settle(FALSE, actual)
    /\ billable' = IF actual = 1 THEN billable ELSE NotBilled(call[w])
    /\ pc' = [pc EXCEPT ![w] = "running"]
    /\ UNCHANGED <<leaseVars, scan, call, token, sends, lost, overtaken, trampled>>

\* The row after an attempt that failed with a response in hand.
FailedAnswer(w) ==
    /\ pc[w] = "answered"
    /\ Write(w, [Failed(w, "failed") EXCEPT !.reservation = "finalized"])
    /\ GiveUp(w)
    /\ UNCHANGED <<cached, sends, overtaken, trampled>>

\* The provider answered with an error, a rate limit or a payload that does not
\* parse (no payload in hand): settled at no cost, as an answer the provider does
\* not bill, and the planned request may be used again.
Rejected(w) ==
    /\ "reject" \in Events
    /\ FailedAnswer(w)
    /\ Settle(FALSE, 0)
    /\ billable' = NotBilled(call[w])
    /\ UNCHANGED lost

\* The payload is in hand and _cache_set fails to store it: settled at the cost the
\* payload states, and the planned request may be used again, and paid for again.
StoreFails(w, actual) ==
    /\ "unstored" \in Events
    /\ FailedAnswer(w)
    /\ Settle(FALSE, actual)
    /\ IF actual = 1
       THEN lost' = [lost EXCEPT ![call[w]] = @ + 1] /\ UNCHANGED billable
       ELSE billable' = NotBilled(call[w]) /\ UNCHANGED lost

\* A lease check fails once the call is submitted, the request timed out or the
\* task was cancelled while it waited: nobody knows whether it was billed.
Ambiguous(w) ==
    /\ \/ pc[w] \in {"submitted", "awaiting"} /\ ~LeaseCurrent(w)
       \/ pc[w] \in {"sending", "awaiting"} /\ "ambiguous" \in Events
    /\ Write(w, Unknown(w))
    /\ Settle(TRUE, 0)
    /\ GiveUp(w)
    /\ UNCHANGED <<cached, history>>
----------------------------------------------------------------------------
(* Recovery and operators.                                                 *)

\* A worker that still holds the lease it took the scan with.
Attended(s) == \E w \in Workers : pc[w] # "idle" /\ scan[w] = s /\ LeaseCurrent(w)

\* The row of an open attempt after reconcile_stale_api_call_attempts: unknown
\* once it was submitted, otherwise free to be used again.
Reconciled(r) ==
    LET unknown == r.network \/ r.attempt = "in_flight"
        to == IF unknown THEN "provider_outcome_unknown" ELSE "failed_before_network"
    IN  [r EXCEPT !.status = to, !.attempt = to,
                  !.reservation = IF @ # "reserved" THEN @
                                  ELSE IF unknown THEN "reconciled_unknown" ELSE "released"]

\* reconcile_stale_api_call_attempts for the rows in stale.
Reconcile(stale) ==
    LET after == [c \in Calls |-> IF c \in stale THEN Reconciled(row[c]) ELSE row[c]]
        settled(state) == Cardinality({c \in stale : /\ row[c].reservation = "reserved"
                                                     /\ after[c].reservation = state})
        freed == settled("released") + settled("reconciled_unknown") IN
    /\ row' = after
    /\ reserved' = IF freed >= reserved THEN 0 ELSE reserved - freed
    /\ unreconciled' = unreconciled + settled("reconciled_unknown")
    /\ UNCHANGED spend

OpenCalls(s) == {c \in Calls : ScanOf[c] = s /\ row[c].attempt \in OpenAttempts}

\* recover_stale_scans for a scan whose lease ran out, because its worker is gone
\* or stalled: its open calls are reconciled and the lease cleared.
RecoverScan(s) ==
    /\ lease[s] # 0
    /\ ~Attended(s) \/ "stall" \in Events
    /\ Reconcile(OpenCalls(s))
    /\ lease' = [lease EXCEPT ![s] = 0]
    /\ overtaken' = (overtaken \/ Attended(s))
    /\ UNCHANGED <<cached, leases, workerVars, sends, billable, lost, trampled>>

\* A worker is at call c.
Worked(c) == \E w \in Workers : pc[w] \in AtCall /\ call[w] = c

\* recover_stale_scans also reconciles every call older than the cutoff, whoever
\* holds the lease: one left behind by a lost worker, or one that takes longer than
\* scan_worker_stale_after_seconds (30 s; the HTTP timeout is 45 s).
ReconcileAged(c) ==
    /\ row[c].attempt \in OpenAttempts
    /\ ~Worked(c) \/ "slow" \in Events
    /\ Reconcile({c})
    /\ overtaken' = (overtaken \/ Worked(c))
    /\ UNCHANGED <<cached, leaseVars, workerVars, sends, billable, lost, trampled>>

\* resolve_unknown_provider_call
Resolve(c, actual) ==
    /\ "resolve" \in Events
    /\ row[c].attempt = "provider_outcome_unknown"
    /\ row[c].reservation \in {"none", "reconciled_unknown"}
    /\ row' = [row EXCEPT ![c] = [@ EXCEPT
                  !.attempt = "reconciled", !.reservation = "finalized",
                  !.status = IF actual = 1 THEN "completed"
                             ELSE "provider_confirmed_not_billed"]]
    /\ IF row[c].reservation = "reconciled_unknown"
       THEN unreconciled' = Less(unreconciled) /\ spend' = spend + actual
       ELSE UNCHANGED <<unreconciled, spend>>
    /\ billable' = IF actual = 1 THEN billable ELSE NotBilled(c)
    /\ UNCHANGED <<cached, reserved, leaseVars, workerVars, sends, lost, overtaken, trampled>>

Crash(w) ==
    /\ "crash" \in Events
    /\ pc[w] # "idle"
    /\ pc' = [pc EXCEPT ![w] = "idle"]
    /\ UNCHANGED <<row, cached, bucketVars, leaseVars, scan, call, token, copy, history>>
----------------------------------------------------------------------------
WorkerStep(w) ==
    \/ \E s \in Scans : ClaimScan(w, s)
    \/ \E c \in Calls : Prepare(w, c) \/ ReplayCached(w, c)
    \/ LeaveScan(w)
    \/ Reserve(w) \/ ReserveRefused(w) \/ Submit(w) \/ SubmitRefused(w)
    \/ CheckBeforeSend(w) \/ Send(w) \/ CheckAnswer(w)
    \/ \E actual \in {0, 1} : Complete(w, actual) \/ StoreFails(w, actual)
    \/ Rejected(w) \/ Ambiguous(w)

Next ==
    \/ \E w \in Workers : WorkerStep(w) \/ Crash(w)
    \/ \E s \in Scans : RecoverScan(s)
    \/ \E c \in Calls : ReconcileAged(c) \/ \E actual \in {0, 1} : Resolve(c, actual)

Spec == Init /\ [][Next]_vars
----------------------------------------------------------------------------
(* Properties.                                                             *)

\* The requests that may have cost money, resent ones included.
Exposure == Cardinality(UNION {{c} \X (1 .. billable[c]) : c \in Calls})

\* The daily limit holds for the money itself, not only for the counters: what the
\* requests of concurrent scans may have cost never exceeds it, those paid for again
\* included, through crashes and retries, until recovery overtakes a worker that is
\* still at its call.  And a request that may have been billed is sent again only
\* when its paid answer could not be stored, where the code does not do what
\* docs/workstream_d_operations.md:125 says of requests that reached the provider.
\* An answer the client rejects is taken as one the provider does not bill.
SpendWithinLimit ==
    overtaken \/ (Exposure <= Limit /\ \A c \in Calls : billable[c] <= 1 + lost[c])

\* "completed planned requests cannot be consumed twice": once the answer of a
\* planned request is stored no request goes out for it again, not even from a
\* worker whose lease was lost after it was checked, through any number of stalls
\* and leases.  Excepted are the calls where a worker without a lease, recording
\* that it was refused, has overwritten the row of another's submitted attempt: the
\* code has no fence there (live.py:686), and such a call can be sent again.
CompletedNeverResent ==
    [][\A c \in Calls \ trampled : cached[c] => sends'[c] = sends[c]]_vars

\* "Unknown outcomes ... continue to count against the spend breaker until an
\* operator reconciles the call": each reservation is counted exactly once, through
\* crashes, refusals, ambiguous outcomes and operator reconciliations.  The reserved
\* amount of the bucket is that of the rows holding a reservation, and what is
\* unreconciled is what an operator can still resolve, until recovery overtakes a
\* worker that is still at its call.
LedgerMatchesRows ==
    /\ TypeOK
    /\ \/ overtaken
       \/ /\ reserved = Cardinality({c \in Calls : row[c].reservation = "reserved"})
          /\ unreconciled = Cardinality({c \in Calls : row[c].reservation = "reconciled_unknown"})
=============================================================================
