---------------------------- MODULE LeadDelivery ----------------------------
(***************************************************************************)
(* Leads of one property and their provider deliveries: intake commits a   *)
(* lead with one delivery job per channel of the active provider           *)
(* assignment; worker slots claim a job under a lease, validate it, call   *)
(* the provider and record the outcome; stale jobs are recovered;          *)
(* operators change assignments; a lead may be anonymized at any moment.   *)
(*                                                                         *)
(* A claim is a conditional UPDATE: one step.  The two transactions of     *)
(* run_delivery_by_id and the erasure read without a lock and write by     *)
(* primary key what they changed in their own copy: two steps each, with   *)
(* the decision kept in between.  So is recovery, which locks the stale    *)
(* row but neither its lead nor the lead's other deliveries.               *)
(***************************************************************************)
EXTENDS Naturals, FiniteSets

CONSTANTS
    Leads,
    Channels,
    Workers,        \* slots of run_lead_delivery_runtime(concurrency)
    Assignments,    \* provider assignments of the property
    Destinations,   \* the channels an assignment has a destination and adapter for
    MaxAttempts,    \* maximum_delivery_attempts
    MaxCrashes,     \* bound on worker crashes
    MaxClaims,      \* bound on the claims of one delivery
    Events,         \* what the environment may do
    None            \* SQL NULL

AllEvents == {"stall", "erase", "operate", "transient", "reject"}

ASSUME DeliveryConstants ==
    /\ Destinations \in [Assignments -> SUBSET Channels]
    /\ MaxAttempts \in Nat \ {0}
    /\ MaxCrashes \in Nat
    /\ MaxClaims \in Nat
    /\ Events \subseteq AllEvents
    /\ None \notin Assignments

Deliveries == Leads \X Channels
NoToken == 0

MutClaimableLeased == {"pending", "retrying", "leased"}

Claimable == {"pending", "retrying"}
Active == {"leased", "delivering"}
Nonterminal == Claimable \cup Active
Terminal == {"delivered", "failed", "cancelled", "outcome_unknown"}
DeliveryStatus == Nonterminal \cup Terminal \cup {"absent"}
LeadStatus == {"absent", "spam", "routing", "delivered", "delivery_failed", "deleted"}
AssignmentStatus == {"candidate", "pilot", "active", "paused", "terminated", "replaced"}
Labels == {"idle", "claimed", "starting", "sending", "finishing", "alerting", "recovering"}

\* _ALLOWED_TRANSITIONS of lead_routing/services.py
AssignmentTransitions ==
    [a \in AssignmentStatus |->
        CASE a = "candidate" -> {"pilot", "terminated"}
          [] a = "pilot" -> {"active", "paused", "terminated"}
          [] a = "active" -> {"paused", "terminated", "replaced"}
          [] a = "paused" -> {"active", "terminated", "replaced"}
          [] OTHER -> {}]

VARIABLES
    assignment,     \* provider_assignments.status
    lead,           \* leads.status
    boundTo,        \* leads.provider_assignment_id
    erased,         \* the lead's contact data and destination references are gone
    alerted,        \* OperatorAlertAdapter.routing_failure was called
    \* provider_deliveries
    status, attempts, due, leaseToken, leaseExpired,
    claims,         \* uuid4 supply: lease tokens issued for a delivery
    attemptLog,     \* routing_attempts: the attempt numbers of provider calls
    \* worker slots
    pc, job, token, plan,
    \* an erasure between its read and its commit
    erasing,
    crashes,
    \* ghosts
    stalled,        \* jobs whose lease ran out under a working slot
    overtaken,      \* slots whose decision another slot's commit has overtaken
    misjudged       \* leads whose status was last written by an overtaken slot, or
                    \* one of whose closed jobs a stalled slot has opened again

deliveryVars == <<status, attempts, due, leaseToken, leaseExpired, claims, attemptLog>>
leadVars == <<lead, boundTo, erased, alerted>>
slotVars == <<pc, job, token, plan>>
ghostVars == <<stalled, overtaken, misjudged>>
vars == <<assignment, leadVars, deliveryVars, slotVars, erasing, crashes, ghostVars>>

\* What a transaction of run_delivery_by_id has decided: the delivery status it
\* read and the one it will write, the attempt number, and the same for the lead.
NoPlan == [from |-> "absent", to |-> "absent", attempt |-> 0,
           leadFrom |-> "absent", leadTo |-> "absent"]
Plans == [from : DeliveryStatus, to : DeliveryStatus, attempt : Nat,
          leadFrom : LeadStatus, leadTo : LeadStatus]
NoErasure == [on |-> FALSE, seen |-> [c \in Channels |-> "absent"]]
Erasures == [on : BOOLEAN, seen : [Channels -> DeliveryStatus]]

\* Every column and every local of a slot holds a value the code can put there,
\* and a busy slot works on an inserted delivery.
TypeOK ==
    /\ assignment \in [Assignments -> AssignmentStatus]
    /\ lead \in [Leads -> LeadStatus]
    /\ boundTo \in [Leads -> Assignments \cup {None}]
    /\ erased \in [Leads -> BOOLEAN]
    /\ alerted \in [Leads -> BOOLEAN]
    /\ status \in [Deliveries -> DeliveryStatus]
    /\ attempts \in [Deliveries -> Nat]
    /\ due \in [Deliveries -> BOOLEAN]
    /\ leaseToken \in [Deliveries -> Nat]
    /\ leaseExpired \in [Deliveries -> BOOLEAN]
    /\ claims \in [Deliveries -> Nat]
    /\ attemptLog \in [Deliveries -> SUBSET Nat]
    /\ pc \in [Workers -> Labels]
    /\ job \in [Workers -> Deliveries \cup {None}]
    /\ \A w \in Workers : pc[w] # "idle" => job[w] \in Deliveries /\ status[job[w]] # "absent"
    /\ token \in [Workers -> Nat]
    /\ plan \in [Workers -> Plans]
    /\ erasing \in [Leads -> Erasures]
    /\ crashes \in 0 .. MaxCrashes
    /\ stalled \subseteq Deliveries
    /\ overtaken \subseteq Workers
    /\ misjudged \subseteq Leads

Init ==
    /\ assignment \in [Assignments -> {"candidate", "active"}]
    /\ Cardinality({a \in Assignments : assignment[a] = "active"}) <= 1
    /\ lead = [l \in Leads |-> "absent"]
    /\ boundTo = [l \in Leads |-> None]
    /\ erased = [l \in Leads |-> FALSE]
    /\ alerted = [l \in Leads |-> FALSE]
    /\ status = [d \in Deliveries |-> "absent"]
    /\ attempts = [d \in Deliveries |-> 0]
    /\ due = [d \in Deliveries |-> TRUE]
    /\ leaseToken = [d \in Deliveries |-> NoToken]
    /\ leaseExpired = [d \in Deliveries |-> FALSE]
    /\ claims = [d \in Deliveries |-> 0]
    /\ attemptLog = [d \in Deliveries |-> {}]
    /\ pc = [w \in Workers |-> "idle"]
    /\ job = [w \in Workers |-> None]
    /\ token = [w \in Workers |-> NoToken]
    /\ plan = [w \in Workers |-> NoPlan]
    /\ erasing = [l \in Leads |-> NoErasure]
    /\ crashes = 0
    /\ stalled = {}
    /\ overtaken = {}
    /\ misjudged = {}

----------------------------------------------------------------------------
(* What the code looks at.                                                 *)

\* _owns: any active status will do, the lease token is the worker's own.
Owns(w) == status[job[w]] \in Active /\ leaseToken[job[w]] = token[w]

MutStaleOnlyLeased(d) ==
    status[d] = "leased" /\ (leaseExpired[d] \/ leaseToken[d] = NoToken)

\* The rows recover_stale_deliveries selects, if no other transaction has locked them.
Stale(d) == status[d] \in Active /\ (leaseExpired[d] \/ leaseToken[d] = NoToken)

\* A recovery in progress holds the row lock: other transactions wait to write it.
Locked(d) == \E v \in Workers : pc[v] = "recovering" /\ job[v] = d

MutValidIgnoresReference(l) == assignment[boundTo[l]] = "active"

\* The checks of run_delivery_by_id before the provider is called: the bound
\* assignment is still active and its destination is the one of intake, which an
\* erasure has replaced by "<deleted>".
Valid(l) == assignment[boundTo[l]] = "active" /\ ~erased[l]

MutSeenStale(d, s) == [c \in Channels |-> status[<<d[1], c>>]]

\* The deliveries of d's lead as a transaction sees them that has set d to s.
Seen(d, s) == [c \in Channels |-> IF c = d[2] THEN s ELSE status[<<d[1], c>>]]

\* _refresh_lead_state
Refreshed(seen) ==
    IF \E c \in DOMAIN seen : seen[c] \in Nonterminal THEN "routing"
    ELSE IF \E c \in DOMAIN seen : seen[c] = "delivered" THEN "delivered"
    ELSE "delivery_failed"

\* _retry_or_fail: the attempt allowance is used up.
Exhausted(n) == n >= MaxAttempts

\* The status recorded for an answer of the provider adapter to attempt n.
AnswerStatus(answer, n) ==
    CASE answer = "accepted" -> "delivered"
      [] answer = "transient" -> IF Exhausted(n) THEN "failed" ELSE "retrying"
      [] answer = "reject" -> "failed"

MutNoUniqueAttempt(w) == FALSE

\* The attempt number of the slot's plan is taken: the unique constraint of
\* routing_attempts refuses the insert.
DuplicateAttempt(w) == plan[w].attempt \in attemptLog[job[w]]

MutRecoveredResends(s) == "retrying"

\* recover_stale_deliveries: a call that may have reached the provider is never
\* repeated, a job whose call had not begun is.
RecoveredStatus(s) == IF s = "delivering" THEN "outcome_unknown" ELSE "retrying"
----------------------------------------------------------------------------
(* Building blocks of the actions.                                         *)

Goto(w, label) == pc' = [pc EXCEPT ![w] = label]

Release(w) ==
    /\ pc' = [pc EXCEPT ![w] = "idle"]
    /\ job' = [job EXCEPT ![w] = None]
    /\ token' = [token EXCEPT ![w] = NoToken]
    /\ plan' = [plan EXCEPT ![w] = NoPlan]

\* _clear_lease
ClearLease(d) ==
    /\ leaseToken' = [leaseToken EXCEPT ![d] = NoToken]
    /\ leaseExpired' = [leaseExpired EXCEPT ![d] = FALSE]

\* The slot has decided to set its delivery to s, as attempt n, and what the
\* lead's status then is.
Decide(w, s, n, leadTo) ==
    plan' = [plan EXCEPT ![w] =
                [from |-> status[job[w]], to |-> s, attempt |-> n,
                 leadFrom |-> lead[job[w][1]], leadTo |-> leadTo]]

\* The decision leaves the lead without any successful or open delivery.
AllFailed(w) == plan[w].to = "failed" /\ plan[w].leadTo = "delivery_failed"

\* The ORM writes the columns whose value differs from the copy that was read.
WriteStatus(w) ==
    status' = IF plan[w].from # plan[w].to
              THEN [status EXCEPT ![job[w]] = plan[w].to] ELSE status

WriteLead(w) ==
    lead' = IF plan[w].leadFrom # plan[w].leadTo
            THEN [lead EXCEPT ![job[w][1]] = plan[w].leadTo] ELSE lead

\* Slots that have decided on the status of lead l and not yet committed it.
Deciding(l) == {v \in Workers : pc[v] \in {"finishing", "recovering"} /\ job[v][1] = l}

\* The slot's commit overtakes what other slots have decided on the lead, unless it
\* leaves an open job open and the lead's status as it was.
Overtake(w) ==
    overtaken' = IF {status[job[w]], plan[w].to} \subseteq Nonterminal /\ lead' = lead
                 THEN overtaken \ {w} ELSE (overtaken \cup Deciding(job[w][1])) \ {w}

\* A refresh that nothing has overtaken gives the lead its right status.
Judge(w) ==
    misjudged' = IF w \in overtaken THEN misjudged \cup {job[w][1]}
                 ELSE misjudged \ {job[w][1]}
----------------------------------------------------------------------------
(* Intake and operators.                                                   *)

\* LeadRoutingService.submit for a new lead: blocked as spam, refused for lack
\* of a provider or channel (and the operator alerted), or stored together with
\* one pending job per channel.
SubmitLead(l, spam) ==
    LET active == {a \in Assignments : assignment[a] = "active"}
        channels == UNION {Destinations[a] : a \in active}
        routed == ~spam /\ channels # {} IN
    /\ lead[l] = "absent"
    /\ lead' = [lead EXCEPT ![l] = IF spam THEN "spam"
                                   ELSE IF routed THEN "routing" ELSE "delivery_failed"]
    /\ boundTo' = [boundTo EXCEPT ![l] = IF active = {} THEN None
                                         ELSE CHOOSE a \in active : TRUE]
    /\ alerted' = [alerted EXCEPT ![l] = ~spam /\ ~routed]
    /\ status' = [d \in Deliveries |->
                    IF routed /\ d[1] = l /\ d[2] \in channels THEN "pending" ELSE status[d]]
    /\ UNCHANGED <<assignment, erased, attempts, due, leaseToken, leaseExpired, claims,
                   attemptLog, slotVars, erasing, crashes, ghostVars>>

\* ProviderOperationsService.transition; at most one assignment is active.
TransitionAssignment(a, target) ==
    /\ "operate" \in Events
    /\ target \in AssignmentTransitions[assignment[a]]
    /\ target = "active" => \A b \in Assignments : assignment[b] # "active"
    /\ assignment' = [assignment EXCEPT ![a] = target]
    /\ UNCHANGED <<leadVars, deliveryVars, slotVars, erasing, crashes, ghostVars>>

\* replace_assignment: the active one is replaced, the other activated (a
\* candidate through pilot), in one transaction.
ReplaceAssignment(a, b) ==
    /\ "operate" \in Events
    /\ a # b
    /\ assignment[a] = "active"
    /\ assignment[b] \in {"candidate", "pilot", "paused"}
    /\ assignment' = [assignment EXCEPT ![a] = "replaced", ![b] = "active"]
    /\ UNCHANGED <<leadVars, deliveryVars, slotVars, erasing, crashes, ghostVars>>

\* LeadPrivacyService.delete_lead or enforce_retention reads the lead and its
\* deliveries ...
LoadErase(l) ==
    /\ "erase" \in Events
    /\ lead[l] # "absent" /\ ~erasing[l].on
    /\ erasing' = [erasing EXCEPT ![l] =
                     [on |-> TRUE, seen |-> [c \in Channels |-> status[<<l, c>>]]]]
    /\ UNCHANGED <<assignment, leadVars, deliveryVars, slotVars, crashes, ghostVars>>

\* ... and commits: jobs it saw open are cancelled, leases it saw are cleared.
CommitErase(l) ==
    LET seen == erasing[l].seen
        cancels(d) == d[1] = l /\ seen[d[2]] \in Nonterminal
        unleases(d) == d[1] = l /\ seen[d[2]] \in Active IN
    /\ erasing[l].on
    /\ \A c \in Channels : ~Locked(<<l, c>>)
    /\ erasing' = [erasing EXCEPT ![l] = NoErasure]
    /\ lead' = [lead EXCEPT ![l] = "deleted"]
    /\ erased' = [erased EXCEPT ![l] = TRUE]
    /\ status' = [d \in Deliveries |-> IF cancels(d) THEN "cancelled" ELSE status[d]]
    /\ due' = [d \in Deliveries |-> cancels(d) \/ due[d]]
    /\ leaseToken' = [d \in Deliveries |-> IF unleases(d) THEN NoToken ELSE leaseToken[d]]
    /\ leaseExpired' = [d \in Deliveries |-> ~unleases(d) /\ leaseExpired[d]]
    /\ UNCHANGED <<assignment, boundTo, alerted, attempts, claims, attemptLog, slotVars,
                   crashes, ghostVars>>
----------------------------------------------------------------------------
(* The worker: lead_delivery_worker_loop and run_delivery_by_id.           *)

\* recover_stale_deliveries locks a stale row (it works through several, here one at a
\* time) and decides what becomes of it and of its lead ...
LoadRecover(w, d) ==
    LET s == RecoveredStatus(status[d]) IN
    /\ pc[w] = "idle"
    /\ Stale(d) /\ ~Locked(d)
    /\ Goto(w, "recovering")
    /\ job' = [job EXCEPT ![w] = d]
    /\ plan' = [plan EXCEPT ![w] =
                   [from |-> status[d], to |-> s, attempt |-> attempts[d],
                    leadFrom |-> lead[d[1]], leadTo |-> Refreshed(Seen(d, s))]]
    /\ UNCHANGED <<assignment, leadVars, deliveryVars, token, erasing, crashes, ghostVars>>

\* ... and commits.
CommitRecover(w) ==
    /\ pc[w] = "recovering"
    /\ WriteStatus(w)
    /\ WriteLead(w)
    /\ due' = [due EXCEPT ![job[w]] = TRUE]
    /\ ClearLease(job[w])
    /\ Release(w)
    /\ Overtake(w)
    /\ Judge(w)
    /\ UNCHANGED <<assignment, boundTo, erased, alerted, attempts, claims, attemptLog,
                   erasing, crashes, stalled>>

\* claim_next_delivery
Claim(w, d) ==
    /\ pc[w] = "idle"
    /\ status[d] \in Claimable /\ due[d]
    /\ claims[d] < MaxClaims
    /\ status' = [status EXCEPT ![d] = "leased"]
    /\ claims' = [claims EXCEPT ![d] = @ + 1]
    /\ leaseToken' = [leaseToken EXCEPT ![d] = claims[d] + 1]
    /\ leaseExpired' = [leaseExpired EXCEPT ![d] = FALSE]
    /\ Goto(w, "claimed")
    /\ job' = [job EXCEPT ![w] = d]
    /\ token' = [token EXCEPT ![w] = claims[d] + 1]
    /\ UNCHANGED <<assignment, leadVars, attempts, due, attemptLog, plan, erasing, crashes, ghostVars>>

\* run_delivery_by_id reads and validates the job ...
LoadStart(w) ==
    LET d == job[w] IN
    /\ pc[w] = "claimed"
    /\ IF ~Owns(w)
       THEN Release(w)
       ELSE /\ IF Valid(d[1])
               THEN Goto(w, "starting") /\ Decide(w, "delivering", attempts[d] + 1, lead[d[1]])
               ELSE /\ Goto(w, "finishing")
                    /\ Decide(w, "failed", attempts[d], Refreshed(Seen(d, "failed")))
            /\ UNCHANGED <<job, token>>
    /\ UNCHANGED <<assignment, leadVars, deliveryVars, erasing, crashes, ghostVars>>

\* ... and commits the attempt before it calls the provider.  The attempt number
\* is unique per delivery: a second transaction with the same number is rolled
\* back and its exception ends the worker loop.
CommitStart(w) ==
    LET d == job[w] IN
    /\ pc[w] = "starting"
    /\ ~Locked(d)
    /\ UNCHANGED <<assignment, leadVars, due, leaseToken, leaseExpired, claims, erasing,
                   stalled, crashes>>
    /\ IF DuplicateAttempt(w)
       THEN Release(w) /\ UNCHANGED <<status, attempts, attemptLog, overtaken, misjudged>>
       ELSE /\ attempts' = [attempts EXCEPT ![d] = plan[w].attempt]
            /\ attemptLog' = [attemptLog EXCEPT ![d] = @ \cup {plan[w].attempt}]
            /\ WriteStatus(w)
            /\ Overtake(w)
            /\ misjudged' = IF status[d] \in Terminal THEN misjudged \cup {d[1]} ELSE misjudged
            /\ Goto(w, "sending")
            /\ UNCHANGED <<job, token, plan>>

\* One UPDATE of _heartbeat_delivery, while the provider is being called.
Heartbeat(w) ==
    /\ pc[w] = "sending"
    /\ Owns(w) /\ leaseExpired[job[w]] /\ ~Locked(job[w])
    /\ leaseExpired' = [leaseExpired EXCEPT ![job[w]] = FALSE]
    /\ UNCHANGED <<assignment, leadVars, status, attempts, due, leaseToken, claims,
                   attemptLog, slotVars, erasing, crashes, ghostVars>>

\* The adapter has answered; the second transaction reads the job.  An outcome
\* for a job no longer owned is dropped.
LoadFinish(w, answer) ==
    LET d == job[w]
        s == AnswerStatus(answer, attempts[d]) IN
    /\ pc[w] = "sending"
    /\ answer = "accepted" \/ answer \in Events
    /\ IF ~Owns(w)
       THEN Release(w)
       ELSE /\ Decide(w, s, attempts[d], Refreshed(Seen(d, s)))
            /\ Goto(w, "finishing")
            /\ UNCHANGED <<job, token>>
    /\ UNCHANGED <<assignment, leadVars, deliveryVars, erasing, crashes, ghostVars>>

\* ... and commits its decision, for the lead too.
CommitFinish(w) ==
    LET d == job[w] IN
    /\ pc[w] = "finishing"
    /\ ~Locked(d)
    /\ WriteStatus(w)
    /\ WriteLead(w)
    /\ Overtake(w)
    /\ Judge(w)
    /\ due' = [due EXCEPT ![d] = plan[w].to # "retrying"]
    /\ ClearLease(d)
    /\ IF AllFailed(w)
       THEN Goto(w, "alerting") /\ UNCHANGED <<job, token, plan>>
       ELSE Release(w)
    /\ UNCHANGED <<assignment, boundTo, erased, alerted, attempts, claims, attemptLog,
                   erasing, crashes, stalled>>

\* _alert_failure, after the commit.
Alert(w) ==
    /\ pc[w] = "alerting"
    /\ alerted' = [alerted EXCEPT ![job[w][1]] = TRUE]
    /\ Release(w)
    /\ UNCHANGED <<assignment, lead, boundTo, erased, deliveryVars, erasing, crashes, ghostVars>>
----------------------------------------------------------------------------
(* The environment.                                                        *)

\* A slot that still works on d under the current lease.
Attended(d) ==
    \E w \in Workers : pc[w] # "idle" /\ job[w] = d /\ token[w] = leaseToken[d]

LeaseExpires(d) ==
    /\ status[d] \in Active /\ leaseToken[d] # NoToken /\ ~leaseExpired[d]
    /\ ~Attended(d) \/ "stall" \in Events
    /\ leaseExpired' = [leaseExpired EXCEPT ![d] = TRUE]
    /\ stalled' = IF Attended(d) THEN stalled \cup {d} ELSE stalled
    /\ UNCHANGED <<assignment, leadVars, status, attempts, due, leaseToken, claims,
                   attemptLog, slotVars, erasing, crashes, overtaken, misjudged>>

BackoffElapses(d) ==
    /\ ~due[d]
    /\ due' = [due EXCEPT ![d] = TRUE]
    /\ UNCHANGED <<assignment, leadVars, status, attempts, leaseToken, leaseExpired, claims,
                   attemptLog, slotVars, erasing, crashes, ghostVars>>

Crash(w) ==
    /\ crashes < MaxCrashes
    /\ pc[w] # "idle"
    /\ crashes' = crashes + 1
    /\ Release(w)
    /\ overtaken' = overtaken \ {w}
    /\ UNCHANGED <<assignment, leadVars, deliveryVars, erasing, stalled, misjudged>>
----------------------------------------------------------------------------
WorkerStep(w) ==
    \/ \E d \in Deliveries : LoadRecover(w, d) \/ Claim(w, d)
    \/ CommitRecover(w) \/ LoadStart(w) \/ CommitStart(w) \/ CommitFinish(w) \/ Alert(w)
    \/ \E answer \in {"accepted", "transient", "reject"} : LoadFinish(w, answer)

OperatorStep ==
    \/ \E l \in Leads, spam \in BOOLEAN : SubmitLead(l, spam)
    \/ \E a \in Assignments, target \in AssignmentStatus : TransitionAssignment(a, target)
    \/ \E a, b \in Assignments : ReplaceAssignment(a, b)
    \/ \E l \in Leads : LoadErase(l) \/ CommitErase(l)

Next ==
    \/ \E w \in Workers : WorkerStep(w) \/ Heartbeat(w) \/ Crash(w)
    \/ OperatorStep
    \/ \E d \in Deliveries : LeaseExpires(d) \/ BackoffElapses(d)

Spec == Init /\ [][Next]_vars

\* Worker loops keep polling, an adapter call eventually returns, backoffs end
\* and a lease nobody attends runs out.
Fairness ==
    /\ \A w \in Workers : WF_vars(WorkerStep(w))
    /\ \A d \in Deliveries :
          WF_vars(BackoffElapses(d)) /\ WF_vars(~Attended(d) /\ LeaseExpires(d))

FairSpec == Spec /\ Fairness
----------------------------------------------------------------------------
(* Properties.                                                             *)

\* "Claims are conditional database updates, so only one worker owns a
\* delivery": no two slots are calling the provider for the same job, as long
\* as the slots that work on it renew their leases.
OneSender ==
    \A v, w \in Workers :
        pc[v] = "sending" /\ pc[w] = "sending" /\ job[v] = job[w] =>
            v = w \/ job[v] \in stalled

\* "A stale delivering job ends as outcome_unknown and is never automatically
\* resent": a job in the middle of a provider call becomes claimable again only
\* by the slot that got the provider's answer, and one of unknown outcome stays
\* closed (a racing erasure may still mark it cancelled).  Slots renew their
\* leases here too.
UnknownNeverResent ==
    [][\A d \in Deliveries \ stalled :
          /\ status[d] = "delivering" /\ status'[d] \in Claimable =>
                \E w \in Workers : pc[w] = "finishing" /\ job[w] = d
          /\ status[d] = "outcome_unknown" =>
                /\ status'[d] \in {"outcome_unknown", "cancelled"}
                /\ attemptLog'[d] = attemptLog[d]]_vars

\* The attempt counter a job is judged exhausted by is never lost to a concurrent
\* transaction: it is the number of provider calls on record, even when a stalled
\* worker and its successor both wrote it, and no more than
\* maximum_delivery_attempts while the job's slots renew their leases.
AttemptsCounted ==
    /\ TypeOK
    /\ \A d \in Deliveries :
        /\ attempts[d] = Cardinality(attemptLog[d])
        /\ d \notin stalled => attempts[d] <= MaxAttempts

\* "... and prevents later retries from sending deleted lead data": once a lead
\* is erased, only an attempt decided on before the erasure can still go out.
ErasedNeverRetried ==
    [][\A l \in Leads : \A c \in Channels :
          erased[l] /\ attemptLog'[<<l, c>>] # attemptLog[<<l, c>>] =>
             \E w \in Workers : pc[w] = "starting" /\ job[w] = <<l, c>>
                                /\ plan[w].leadFrom # "deleted"]_vars

\* A lead's status is the one its deliveries call for, until its contact data is
\* erased, whatever slots settle its channels, stall or crash, and the next refresh puts
\* a wrong status right.  The exceptions are what _refresh_lead_state does not prevent.
\* Two slots that each decide while the other's channel is still open leave a lead
\* "routing" although every channel has failed, and the alert of docs/lead_routing.md:38
\* ("After every channel is exhausted, ...") is not sent; and a slot that has lost its
\* lease may begin an attempt of a job that was settled meanwhile.
LeadReflectsDeliveries ==
    \A l \in Leads \ misjudged :
        ~erased[l] /\ (\E c \in Channels : status[<<l, c>>] # "absent") =>
            lead[l] = Refreshed([c \in Channels |-> status[<<l, c>>]])

\* Every job ends, through crashes, transient failures and erasures.
EveryDeliverySettles ==
    \A d \in Deliveries : status[d] = "pending" ~> [](status[d] \in Terminal)
=============================================================================
