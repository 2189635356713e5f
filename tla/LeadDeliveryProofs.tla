------------------------- MODULE LeadDeliveryProofs -------------------------
(***************************************************************************)
(* Proofs about LeadDelivery, for any number of leads, channels, worker    *)
(* slots, assignments, attempts and crashes.                               *)
(***************************************************************************)
EXTENDS LeadDelivery, FiniteSetTheorems, TLAPS

----------------------------------------------------------------------------
(* The inductive invariant.                                                *)

\* Where a slot works on its job.
Busy == {"claimed", "starting", "sending", "finishing"}
Works(w, d) == pc[w] \in Busy /\ job[w] = d

\* What slot w, the only one that works on d, may rely on while its lease lasts: the
\* job is its own, or an erasure has cancelled it and taken the lease away.
Current(w, d) ==
    /\ token[w] # NoToken /\ leaseToken[d] \in {token[w], NoToken}
    /\ ~leaseExpired[d]
    /\ pc[w] \in {"claimed", "starting"} => status[d] \in {"leased", "cancelled"}
    /\ pc[w] = "starting" => plan[w].from = "leased" /\ plan[w].attempt = attempts[d] + 1
                             /\ plan[w].attempt <= MaxAttempts
    /\ pc[w] = "sending" => status[d] \in {"delivering", "cancelled", "outcome_unknown"}
    /\ pc[w] = "finishing" =>
          /\ plan[w].from \in Active
          /\ status[d] \in {plan[w].from, "cancelled"}
          /\ status[d] = plan[w].from => leaseToken[d] # NoToken
          /\ plan[w].to = "retrying" => attempts[d] < MaxAttempts

\* As long as the slots of a job renew their leases, one slot works on it, and a job
\* that may be claimed has attempts left.
LeaseInv(d) ==
    d \in stalled \/
      /\ \A v, w \in Workers : Works(v, d) /\ Works(w, d) => v = w
      /\ \A w \in Workers : Works(w, d) => Current(w, d)
      /\ status[d] = "leased" => leaseToken[d] # NoToken
      /\ status[d] \in Claimable \cup {"leased"} => attempts[d] < MaxAttempts
      /\ attempts[d] <= MaxAttempts

\* What a slot has decided, whether its lease lasts or not.
SlotInv(w) ==
    /\ pc[w] = "starting" =>
          /\ plan[w].to = "delivering" /\ plan[w].leadFrom # "deleted"
          /\ plan[w].attempt \in 1 .. attempts[job[w]] + 1
    /\ pc[w] = "finishing" =>
          /\ plan[w].from \in Active /\ plan[w].to \in {"delivered", "failed", "retrying"}
          /\ plan[w].leadTo \in {"routing", "delivered", "delivery_failed"}

\* A recovering slot has locked a stale row: what it has decided still holds of the row,
\* and no other slot recovers it.
Recovery(w) ==
    /\ Stale(job[w])
    /\ plan[w].from = status[job[w]] /\ plan[w].to = RecoveredStatus(status[job[w]])
    /\ plan[w].leadTo \in {"routing", "delivered", "delivery_failed"}
LockInv ==
    /\ \A v, w \in Workers :
          pc[v] = "recovering" /\ pc[w] = "recovering" /\ job[v] = job[w] => v = w
    /\ \A w \in Workers : pc[w] = "recovering" => Recovery(w)

\* A lead that was not submitted has no jobs, a job that was not inserted has no
\* attempts, every attempt is on record, and a deleted lead is erased.
RowInv ==
    /\ \A d \in Deliveries : lead[d[1]] = "absent" => status[d] = "absent"
    /\ \A d \in Deliveries : status[d] = "absent" => attempts[d] = 0
    /\ \A d \in Deliveries : attemptLog[d] = 1 .. attempts[d]
    /\ \A l \in Leads : lead[l] = "deleted" => erased[l]

IndInv ==
    /\ TypeOK
    /\ \A d \in Deliveries : LeaseInv(d)
    /\ \A w \in Workers : SlotInv(w)
    /\ LockInv
    /\ RowInv
----------------------------------------------------------------------------
(* Types.                                                                  *)

USE DEF Labels, Claimable, Active, Nonterminal, Terminal, DeliveryStatus, LeadStatus,
        AssignmentStatus, NoToken

\* The empty decision and the empty erasure are well typed.
LEMMA NoPlanTypes == NoPlan \in Plans /\ NoErasure \in Erasures
BY DEF NoPlan, Plans, NoErasure, Erasures

\* _refresh_lead_state gives one of three statuses.
LEMMA RefreshedStatus ==
  ASSUME NEW seen
  PROVE  Refreshed(seen) \in {"routing", "delivered", "delivery_failed"}
BY DEF Refreshed

\* A slot that gives up its job is idle.
LEMMA ReleaseTypes ==
  ASSUME TypeOK, NEW w \in Workers, Release(w)
  PROVE  /\ pc' \in [Workers -> Labels] /\ job' \in [Workers -> Deliveries \cup {None}]
         /\ token' \in [Workers -> Nat] /\ plan' \in [Workers -> Plans]
         /\ pc'[w] = "idle"
         /\ \A v \in Workers \ {w} : pc'[v] = pc[v] /\ job'[v] = job[v]
                                     /\ token'[v] = token[v] /\ plan'[v] = plan[v]
BY NoPlanTypes DEF TypeOK, Release

\* A slot's decision is well typed.
LEMMA DecideTypes ==
  ASSUME TypeOK, NEW w \in Workers, pc[w] # "idle", NEW s \in DeliveryStatus, NEW n \in Nat,
         NEW t \in LeadStatus, Decide(w, s, n, t)
  PROVE  /\ plan' \in [Workers -> Plans]
         /\ plan'[w] = [from |-> status[job[w]], to |-> s, attempt |-> n,
                        leadFrom |-> lead[job[w][1]], leadTo |-> t]
         /\ \A v \in Workers \ {w} : plan'[v] = plan[v]
<1>1. job[w] \in Deliveries /\ job[w][1] \in Leads
  BY DEF TypeOK, Deliveries
<1>2. status[job[w]] \in DeliveryStatus /\ lead[job[w][1]] \in LeadStatus
  BY <1>1 DEF TypeOK
<1>3. [from |-> status[job[w]], to |-> s, attempt |-> n,
       leadFrom |-> lead[job[w][1]], leadTo |-> t] \in Plans
  BY <1>2 DEF Plans
<1> QED
  BY <1>3 DEF Decide, TypeOK

\* The statuses that slots decide on.
LEMMA DecidedStatus ==
  ASSUME NEW n \in Nat, NEW answer \in {"accepted", "transient", "reject"}
  PROVE  /\ AnswerStatus(answer, n) \in {"delivered", "failed", "retrying"}
         /\ AnswerStatus(answer, n) = "retrying" => n < MaxAttempts
BY DeliveryConstants DEF AnswerStatus, Exhausted

\* What a slot writes into its job and its lead.
LEMMA WriteTypes ==
  ASSUME TypeOK, NEW w \in Workers, pc[w] # "idle"
  PROVE  /\ WriteStatus(w) /\ plan[w].to # "absent" =>
               /\ status' \in [Deliveries -> DeliveryStatus]
               /\ status'[job[w]] # "absent"
               /\ \A d \in Deliveries : d # job[w] => status'[d] = status[d]
               /\ plan[w].from # plan[w].to => status'[job[w]] = plan[w].to
         /\ WriteLead(w) =>
               /\ lead' \in [Leads -> LeadStatus]
               /\ \A l \in Leads : lead'[l] \in {lead[l], plan[w].leadTo}
               /\ \A l \in Leads : l # job[w][1] => lead'[l] = lead[l]
<1>1. job[w] \in Deliveries /\ job[w][1] \in Leads /\ plan[w] \in Plans /\ status[job[w]] # "absent"
  BY DEF TypeOK, Deliveries
<1>2. plan[w].to \in DeliveryStatus /\ plan[w].leadTo \in LeadStatus
  BY <1>1 DEF Plans
<1>3. ASSUME WriteStatus(w), plan[w].to # "absent"
      PROVE  /\ status' \in [Deliveries -> DeliveryStatus]
             /\ status'[job[w]] # "absent"
             /\ \A d \in Deliveries : d # job[w] => status'[d] = status[d]
             /\ plan[w].from # plan[w].to => status'[job[w]] = plan[w].to
  BY <1>1, <1>2, <1>3 DEF WriteStatus, TypeOK
<1>4. ASSUME WriteLead(w)
      PROVE  /\ lead' \in [Leads -> LeadStatus]
             /\ \A l \in Leads : lead'[l] \in {lead[l], plan[w].leadTo}
             /\ \A l \in Leads : l # job[w][1] => lead'[l] = lead[l]
  BY <1>1, <1>2, <1>4 DEF WriteLead, TypeOK
<1> QED
  BY <1>3, <1>4

\* A commit marks slots and leads.
LEMMA GhostTypes ==
  ASSUME TypeOK, NEW w \in Workers, pc[w] # "idle"
  PROVE  /\ Overtake(w) => overtaken' \in SUBSET Workers
         /\ Judge(w) => misjudged' \in SUBSET Leads
<1>1. job[w] \in Deliveries /\ job[w][1] \in Leads
  BY DEF TypeOK, Deliveries
<1>2. Deciding(job[w][1]) \subseteq Workers
  BY DEF Deciding
<1>3. overtaken \subseteq Workers /\ misjudged \subseteq Leads
  BY DEF TypeOK
<1>4. ASSUME Overtake(w) PROVE overtaken' \in SUBSET Workers
  BY <1>2, <1>3, <1>4 DEF Overtake
<1>5. ASSUME Judge(w) PROVE misjudged' \in SUBSET Leads
  BY <1>1, <1>3, <1>5 DEF Judge
<1> QED
  BY <1>4, <1>5

\* Every step keeps every column and every local well typed.
LEMMA TypeStep == IndInv /\ [Next]_vars => TypeOK'
<1> SUFFICES ASSUME IndInv, [Next]_vars PROVE TypeOK'
  OBVIOUS
<1>0. TypeOK
  BY DEF IndInv
<1> USE DEF deliveryVars, leadVars, slotVars, ghostVars
<1>1. ASSUME NEW l \in Leads, NEW spam \in BOOLEAN, SubmitLead(l, spam) PROVE TypeOK'
  <2> DEFINE active == {a \in Assignments : assignment[a] = "active"}
             channels == UNION {Destinations[a] : a \in active}
  <2>1. lead' \in [Leads -> LeadStatus] /\ alerted' \in [Leads -> BOOLEAN]
    BY <1>0, <1>1 DEF SubmitLead, TypeOK
  <2>2. (IF active = {} THEN None ELSE CHOOSE a \in active : TRUE) \in Assignments \cup {None}
    OBVIOUS
  <2>3. boundTo' \in [Leads -> Assignments \cup {None}]
    <3>1. boundTo' = [boundTo EXCEPT ![l] = IF active = {} THEN None
                                           ELSE CHOOSE a \in active : TRUE]
      BY <1>1 DEF SubmitLead
    <3> HIDE DEF active
    <3> QED
      BY <1>0, <2>2, <3>1 DEF TypeOK
  <2>4. /\ status' \in [Deliveries -> DeliveryStatus]
        /\ \A d \in Deliveries : status'[d] = status[d] \/ status'[d] = "pending"
    BY <1>0, <1>1 DEF SubmitLead, TypeOK
  <2> QED
    BY <1>0, <1>1, <2>1, <2>3, <2>4 DEF SubmitLead, TypeOK
<1>2. ASSUME NEW a \in Assignments, NEW t \in AssignmentStatus, TransitionAssignment(a, t) PROVE TypeOK'
  BY <1>0, <1>2 DEF TransitionAssignment, TypeOK
<1>3. ASSUME NEW a \in Assignments, NEW b \in Assignments, ReplaceAssignment(a, b) PROVE TypeOK'
  BY <1>0, <1>3 DEF ReplaceAssignment, TypeOK
<1>4. ASSUME NEW l \in Leads, LoadErase(l) PROVE TypeOK'
  <2>1. [on |-> TRUE, seen |-> [c \in Channels |-> status[<<l, c>>]]] \in Erasures
    BY <1>0 DEF TypeOK, Erasures, Deliveries
  <2> QED
    BY <1>0, <1>4, <2>1 DEF LoadErase, TypeOK
<1>5. ASSUME NEW l \in Leads, CommitErase(l) PROVE TypeOK'
  <2>1. /\ status' \in [Deliveries -> DeliveryStatus]
        /\ \A d \in Deliveries : status'[d] = status[d] \/ status'[d] = "cancelled"
    BY <1>0, <1>5 DEF CommitErase, TypeOK
  <2>2. /\ due' \in [Deliveries -> BOOLEAN]
        /\ leaseToken' \in [Deliveries -> Nat] /\ leaseExpired' \in [Deliveries -> BOOLEAN]
    BY <1>0, <1>5 DEF CommitErase, TypeOK
  <2>3. erasing' \in [Leads -> Erasures] /\ lead' \in [Leads -> LeadStatus]
        /\ erased' \in [Leads -> BOOLEAN]
    BY <1>0, <1>5, NoPlanTypes DEF CommitErase, TypeOK
  <2> QED
    BY <1>0, <1>5, <2>1, <2>2, <2>3 DEF CommitErase, TypeOK
<1>6. ASSUME NEW w \in Workers, NEW d \in Deliveries, LoadRecover(w, d) PROVE TypeOK'
  <2> DEFINE s == RecoveredStatus(status[d])
             q == [from |-> status[d], to |-> s, attempt |-> attempts[d],
                   leadFrom |-> lead[d[1]], leadTo |-> Refreshed(Seen(d, s))]
  <2>1. s \in DeliveryStatus
    BY DEF RecoveredStatus
  <2>2. Refreshed(Seen(d, s)) \in LeadStatus
    BY RefreshedStatus
  <2>3. d[1] \in Leads
    BY DEF Deliveries
  <2>4. status[d] \in DeliveryStatus /\ attempts[d] \in Nat /\ lead[d[1]] \in LeadStatus
        /\ status[d] # "absent"
    BY <1>0, <1>6, <2>3 DEF TypeOK, LoadRecover, Stale
  <2>5. q \in Plans
    BY <2>1, <2>2, <2>4 DEF Plans
  <2>6. /\ plan' = [plan EXCEPT ![w] = q] /\ pc' = [pc EXCEPT ![w] = "recovering"]
        /\ job' = [job EXCEPT ![w] = d]
        /\ UNCHANGED <<assignment, leadVars, deliveryVars, token, erasing, crashes, ghostVars>>
    BY <1>6 DEF LoadRecover, Goto
  <2> HIDE DEF q
  <2>7. plan' \in [Workers -> Plans] /\ pc' \in [Workers -> Labels]
        /\ job' \in [Workers -> Deliveries \cup {None}]
    BY <1>0, <2>5, <2>6 DEF TypeOK
  <2>8. \A v \in Workers : pc'[v] # "idle" => job'[v] \in Deliveries /\ status[job'[v]] # "absent"
    BY <1>0, <2>4, <2>6 DEF TypeOK
  <2> QED
    BY <1>0, <2>6, <2>7, <2>8 DEF TypeOK
<1>60. ASSUME NEW w \in Workers, CommitRecover(w) PROVE TypeOK'
  <2>1. /\ pc[w] = "recovering" /\ WriteStatus(w) /\ WriteLead(w) /\ ClearLease(job[w])
        /\ Release(w) /\ Overtake(w) /\ Judge(w)
        /\ UNCHANGED <<assignment, boundTo, erased, alerted, attempts, claims, attemptLog,
                       erasing, crashes, stalled>>
    BY <1>60 DEF CommitRecover
  <2>2. job[w] \in Deliveries /\ plan[w].to \in {"outcome_unknown", "retrying"}
    BY <1>0, <2>1 DEF IndInv, LockInv, Recovery, RecoveredStatus, TypeOK
  <2>3. /\ status' \in [Deliveries -> DeliveryStatus] /\ lead' \in [Leads -> LeadStatus]
        /\ \A d \in Deliveries : status[d] # "absent" => status'[d] # "absent"
    BY <1>0, <2>1, <2>2, WriteTypes
  <2>4. /\ due' \in [Deliveries -> BOOLEAN] /\ leaseToken' \in [Deliveries -> Nat]
        /\ leaseExpired' \in [Deliveries -> BOOLEAN]
    BY <1>0, <1>60, <2>1, <2>2 DEF CommitRecover, ClearLease, TypeOK
  <2>5. /\ pc' \in [Workers -> Labels] /\ job' \in [Workers -> Deliveries \cup {None}]
        /\ token' \in [Workers -> Nat] /\ plan' \in [Workers -> Plans]
        /\ \A v \in Workers : pc'[v] # "idle" => pc[v] # "idle" /\ job'[v] = job[v]
    BY <1>0, <2>1, ReleaseTypes
  <2>6. overtaken' \in SUBSET Workers /\ misjudged' \in SUBSET Leads
    BY <1>0, <2>1, GhostTypes
  <2> QED
    BY <1>0, <2>1, <2>3, <2>4, <2>5, <2>6 DEF TypeOK
<1>7. ASSUME NEW w \in Workers, NEW d \in Deliveries, Claim(w, d) PROVE TypeOK'
  BY <1>0, <1>7 DEF Claim, Goto, TypeOK
<1>8. ASSUME NEW w \in Workers, LoadStart(w) PROVE TypeOK'
  <2> DEFINE d == job[w]
  <2>1. pc[w] = "claimed" /\ UNCHANGED <<assignment, leadVars, deliveryVars, erasing, crashes, ghostVars>>
    BY <1>8 DEF LoadStart
  <2>2. d \in Deliveries /\ d[1] \in Leads /\ attempts[d] \in Nat /\ attempts[d] + 1 \in Nat
    BY <1>0, <2>1 DEF TypeOK, Deliveries
  <2>3. CASE ~Owns(w)
    BY <1>0, <1>8, <2>1, <2>3, ReleaseTypes DEF LoadStart, TypeOK
  <2>4. CASE Owns(w)
    <3>1. plan' \in [Workers -> Plans]
      <4>1. CASE Valid(d[1])
        <5>1. Decide(w, "delivering", attempts[d] + 1, lead[d[1]])
          BY <1>8, <2>4, <4>1 DEF LoadStart
        <5>2. lead[d[1]] \in LeadStatus
          BY <1>0, <2>2 DEF TypeOK
        <5> QED
          BY <1>0, <2>1, <2>2, <5>1, <5>2, DecideTypes
      <4>2. CASE ~Valid(d[1])
        <5>1. Decide(w, "failed", attempts[d], Refreshed(Seen(d, "failed")))
          BY <1>8, <2>4, <4>2 DEF LoadStart
        <5>2. Refreshed(Seen(d, "failed")) \in LeadStatus
          BY RefreshedStatus
        <5> QED
          BY <1>0, <2>1, <2>2, <5>1, <5>2, DecideTypes
      <4> QED
        BY <4>1, <4>2
    <3>2. pc' \in [Workers -> Labels] /\ UNCHANGED <<job, token>>
          /\ \A v \in Workers : pc'[v] # "idle" => pc[v] # "idle"
      BY <1>0, <1>8, <2>1, <2>4 DEF LoadStart, Goto, TypeOK
    <3> QED
      BY <1>0, <2>1, <3>1, <3>2 DEF TypeOK
  <2> QED
    BY <2>3, <2>4
<1>9. ASSUME NEW w \in Workers, CommitStart(w) PROVE TypeOK'
  <2>1. pc[w] = "starting" /\ UNCHANGED <<assignment, leadVars, due, leaseToken, leaseExpired,
                                          claims, erasing, stalled, crashes>>
    BY <1>9 DEF CommitStart
  <2>a. overtaken \subseteq Workers /\ misjudged \subseteq Leads
    BY <1>0 DEF TypeOK
  <2>2. CASE DuplicateAttempt(w)
    BY <1>0, <1>9, <2>1, <2>2, ReleaseTypes DEF CommitStart, TypeOK
  <2>3. CASE ~DuplicateAttempt(w)
    <3>1. job[w] \in Deliveries /\ plan[w].attempt \in Nat /\ plan[w].to = "delivering"
      BY <1>0, <2>1 DEF IndInv, SlotInv, TypeOK, Plans
    <3>2. WriteStatus(w) /\ Goto(w, "sending") /\ UNCHANGED <<job, token, plan>>
      BY <1>9, <2>3 DEF CommitStart
    <3>3. /\ status' \in [Deliveries -> DeliveryStatus]
          /\ \A d \in Deliveries : status[d] # "absent" => status'[d] # "absent"
      BY <1>0, <2>1, <3>1, <3>2, WriteTypes
    <3>4. attempts' \in [Deliveries -> Nat] /\ attemptLog' \in [Deliveries -> SUBSET Nat]
      BY <1>0, <1>9, <2>3, <3>1 DEF CommitStart, TypeOK
    <3>5. overtaken' \in SUBSET Workers /\ misjudged' \in SUBSET Leads
      <4>1. Overtake(w) /\ misjudged' \in {misjudged, misjudged \cup {job[w][1]}}
        BY <1>9, <2>3 DEF CommitStart
      <4>2. job[w][1] \in Leads
        BY <3>1 DEF Deliveries
      <4> QED
        BY <1>0, <2>1, <2>a, <4>1, <4>2, GhostTypes
    <3> QED
      BY <1>0, <2>1, <3>2, <3>3, <3>4, <3>5 DEF Goto, TypeOK
  <2> QED
    BY <2>2, <2>3
<1>10. ASSUME NEW w \in Workers, Heartbeat(w) PROVE TypeOK'
  BY <1>0, <1>10 DEF Heartbeat, TypeOK
<1>11. ASSUME NEW w \in Workers, NEW answer \in {"accepted", "transient", "reject"},
              LoadFinish(w, answer)
       PROVE  TypeOK'
  <2> DEFINE d == job[w]
             s == AnswerStatus(answer, attempts[d])
  <2>1. pc[w] = "sending" /\ UNCHANGED <<assignment, leadVars, deliveryVars, erasing, crashes, ghostVars>>
    BY <1>11 DEF LoadFinish
  <2>2. d \in Deliveries /\ attempts[d] \in Nat
    BY <1>0, <2>1 DEF TypeOK
  <2>3. CASE ~Owns(w)
    BY <1>0, <1>11, <2>1, <2>3, ReleaseTypes DEF LoadFinish, TypeOK
  <2>4. CASE Owns(w)
    <3>1. s \in DeliveryStatus /\ Refreshed(Seen(d, s)) \in LeadStatus
      BY <2>2, DecidedStatus, RefreshedStatus
    <3>2. Decide(w, s, attempts[d], Refreshed(Seen(d, s)))
      BY <1>11, <2>4 DEF LoadFinish
    <3> HIDE DEF s
    <3>3. plan' \in [Workers -> Plans]
      BY <1>0, <2>1, <2>2, <3>1, <3>2, DecideTypes
    <3>4. pc' \in [Workers -> Labels] /\ UNCHANGED <<job, token>>
          /\ \A v \in Workers : pc'[v] # "idle" => pc[v] # "idle"
      BY <1>0, <1>11, <2>1, <2>4 DEF LoadFinish, Goto, TypeOK
    <3> QED
      BY <1>0, <2>1, <3>3, <3>4 DEF TypeOK
  <2> QED
    BY <2>3, <2>4
<1>12. ASSUME NEW w \in Workers, CommitFinish(w) PROVE TypeOK'
  <2>1. /\ pc[w] = "finishing" /\ WriteStatus(w) /\ WriteLead(w) /\ ClearLease(job[w])
        /\ Overtake(w) /\ Judge(w)
        /\ UNCHANGED <<assignment, boundTo, erased, alerted, attempts, claims, attemptLog,
                       erasing, crashes, stalled>>
    BY <1>12 DEF CommitFinish
  <2>2. job[w] \in Deliveries /\ plan[w].to \in {"delivered", "failed", "retrying"}
    BY <1>0, <2>1 DEF IndInv, SlotInv, TypeOK
  <2>3. /\ status' \in [Deliveries -> DeliveryStatus] /\ lead' \in [Leads -> LeadStatus]
        /\ \A d \in Deliveries : status[d] # "absent" => status'[d] # "absent"
    BY <1>0, <2>1, <2>2, WriteTypes
  <2>4. /\ due' \in [Deliveries -> BOOLEAN] /\ leaseToken' \in [Deliveries -> Nat]
        /\ leaseExpired' \in [Deliveries -> BOOLEAN]
    BY <1>0, <1>12, <2>1, <2>2 DEF CommitFinish, ClearLease, TypeOK
  <2>5. /\ pc' \in [Workers -> Labels] /\ job' \in [Workers -> Deliveries \cup {None}]
        /\ token' \in [Workers -> Nat] /\ plan' \in [Workers -> Plans]
        /\ \A v \in Workers : pc'[v] # "idle" => pc[v] # "idle" /\ job'[v] = job[v]
    <3>1. CASE AllFailed(w)
      BY <1>0, <1>12, <2>1, <3>1 DEF CommitFinish, Goto, TypeOK
    <3>2. CASE ~AllFailed(w)
      BY <1>0, <1>12, <2>1, <3>2, ReleaseTypes DEF CommitFinish
    <3> QED
      BY <3>1, <3>2
  <2>6. overtaken' \in SUBSET Workers /\ misjudged' \in SUBSET Leads
    BY <1>0, <2>1, GhostTypes
  <2> QED
    BY <1>0, <2>1, <2>3, <2>4, <2>5, <2>6 DEF TypeOK
<1>13. ASSUME NEW w \in Workers, Alert(w) PROVE TypeOK'
  <2>1. alerted' \in [Leads -> BOOLEAN]
    BY <1>0, <1>13 DEF Alert, TypeOK
  <2> QED
    BY <1>0, <1>13, <2>1, ReleaseTypes DEF Alert, TypeOK
<1>14. ASSUME NEW w \in Workers, Crash(w) PROVE TypeOK'
  <2>1. crashes' \in 0 .. MaxCrashes
    BY <1>0, <1>14, DeliveryConstants DEF Crash, TypeOK
  <2> QED
    BY <1>0, <1>14, <2>1, ReleaseTypes DEF Crash, TypeOK
<1>15. ASSUME NEW d \in Deliveries, LeaseExpires(d) PROVE TypeOK'
  BY <1>0, <1>15 DEF LeaseExpires, TypeOK
<1>16. ASSUME NEW d \in Deliveries, BackoffElapses(d) PROVE TypeOK'
  BY <1>0, <1>16 DEF BackoffElapses, TypeOK
<1>17. CASE UNCHANGED vars
  BY <1>0, <1>17 DEF vars, TypeOK
<1> QED
  BY <1>1, <1>2, <1>3, <1>4, <1>5, <1>6, <1>60, <1>7, <1>8, <1>9, <1>10, <1>11, <1>12,
     <1>13, <1>14, <1>15, <1>16, <1>17 DEF Next, OperatorStep, WorkerStep
----------------------------------------------------------------------------
(* Leases.                                                                 *)

\* A delivery is undisturbed by a step that changes neither its row nor the slots
\* that work on it, other than by renewing its lease or by a slot giving it up.
LEMMA LeaseKept ==
  ASSUME NEW d \in Deliveries, LeaseInv(d), stalled \subseteq stalled',
         status'[d] = status[d], attempts'[d] = attempts[d], leaseToken'[d] = leaseToken[d],
         (leaseExpired'[d] => leaseExpired[d]),
         \A w \in Workers :
            \/ pc'[w] = pc[w] /\ job'[w] = job[w] /\ token'[w] = token[w] /\ plan'[w] = plan[w]
            \/ pc'[w] \notin Busy
            \/ job'[w] # d
  PROVE  LeaseInv(d)'
<1> SUFFICES ASSUME d \notin stalled' PROVE LeaseInv(d)'
  BY DEF LeaseInv
<1>1. ASSUME NEW w \in Workers, Works(w, d)'
      PROVE  /\ pc'[w] = pc[w] /\ job'[w] = job[w] /\ token'[w] = token[w] /\ plan'[w] = plan[w]
             /\ Works(w, d)
  BY <1>1 DEF Works
<1>2. d \notin stalled
  OBVIOUS
<1>3. ASSUME NEW w \in Workers, Works(w, d)' PROVE Current(w, d)'
  <2>1. Current(w, d)
    BY <1>1, <1>2, <1>3 DEF LeaseInv
  <2> QED
    BY <1>1, <1>3, <2>1 DEF Current
<1>4. ASSUME NEW v \in Workers, NEW w \in Workers, Works(v, d)', Works(w, d)' PROVE v = w
  BY <1>1, <1>2, <1>4 DEF LeaseInv
<1> QED
  BY <1>2, <1>3, <1>4 DEF LeaseInv

\* A slot's decision stands while attempts are only added.
LEMMA SlotKept ==
  ASSUME NEW w \in Workers, SlotInv(w), TypeOK, TypeOK',
         \/ pc'[w] = pc[w] /\ job'[w] = job[w] /\ plan'[w] = plan[w]
         \/ pc'[w] \notin {"starting", "finishing"},
         \A d \in Deliveries : attempts'[d] >= attempts[d]
  PROVE  SlotInv(w)'
<1>1. CASE pc'[w] \notin {"starting", "finishing"}
  BY <1>1 DEF SlotInv
<1>2. CASE pc'[w] = "finishing"
  BY <1>2 DEF SlotInv
<1>3. CASE pc'[w] = "starting"
  <2>1. pc'[w] = pc[w] /\ job'[w] = job[w] /\ plan'[w] = plan[w]
    BY <1>3
  <2>2. job[w] \in Deliveries /\ attempts[job[w]] \in Nat /\ attempts'[job[w]] \in Nat
    BY <1>3, <2>1 DEF TypeOK
  <2> QED
    BY <1>3, <2>1, <2>2 DEF SlotInv
<1> QED
  BY <1>1, <1>2, <1>3

\* Every step keeps what slots have decided, and the rows of leads and attempts.
LEMMA RowStep == IndInv /\ [Next]_vars => RowInv' /\ \A w \in Workers : SlotInv(w)'
<1> SUFFICES ASSUME IndInv, [Next]_vars PROVE RowInv' /\ \A w \in Workers : SlotInv(w)'
  OBVIOUS
<1> DEFINE Goal == RowInv' /\ \A w \in Workers : SlotInv(w)'
<1>0. TypeOK /\ TypeOK' /\ RowInv /\ \A w \in Workers : SlotInv(w)
  BY TypeStep DEF IndInv
<1> USE DEF deliveryVars, leadVars, slotVars, ghostVars
<1>a. /\ \A d \in Deliveries : d[1] \in Leads
      /\ \A d \in Deliveries : attempts[d] \in Nat
  BY <1>0 DEF Deliveries, TypeOK
<1>1. ASSUME NEW l \in Leads, NEW spam \in BOOLEAN, SubmitLead(l, spam) PROVE Goal
  <2>1. UNCHANGED <<slotVars, attempts, attemptLog, erased>>
    BY <1>1 DEF SubmitLead
  <2>2. \A w \in Workers : SlotInv(w)'
    BY <1>0, <1>a, <2>1, SlotKept
  <2>3. /\ lead'[l] \in {"spam", "routing", "delivery_failed"}
        /\ \A k \in Leads : k # l => lead'[k] = lead[k]
        /\ \A d \in Deliveries : status'[d] = status[d] \/ status'[d] = "pending"
        /\ \A d \in Deliveries : d[1] # l => status'[d] = status[d]
    BY <1>0, <1>1 DEF SubmitLead, TypeOK
  <2>4. RowInv'
    BY <1>0, <1>a, <2>1, <2>3 DEF RowInv
  <2> QED
    BY <2>2, <2>4
<1>2. CASE UNCHANGED <<leadVars, deliveryVars, slotVars>>
  BY <1>0, <1>a, <1>2, SlotKept DEF RowInv
<1>5. ASSUME NEW l \in Leads, CommitErase(l) PROVE Goal
  <2>1. UNCHANGED <<slotVars, attempts, attemptLog>>
    BY <1>5 DEF CommitErase
  <2>2. \A w \in Workers : SlotInv(w)'
    BY <1>0, <1>a, <2>1, SlotKept
  <2>3. /\ lead'[l] = "deleted" /\ erased'[l]
        /\ \A k \in Leads : k # l => lead'[k] = lead[k] /\ erased'[k] = erased[k]
        /\ \A d \in Deliveries : status'[d] = status[d] \/ status'[d] = "cancelled"
        /\ \A d \in Deliveries : d[1] # l => status'[d] = status[d]
    BY <1>0, <1>5 DEF CommitErase, TypeOK
  <2>4. RowInv'
    BY <1>0, <1>a, <2>1, <2>3 DEF RowInv
  <2> QED
    BY <2>2, <2>4
<1>6. ASSUME NEW w \in Workers, NEW d \in Deliveries, LoadRecover(w, d) PROVE Goal
  <2>1. UNCHANGED <<leadVars, deliveryVars>> /\ pc'[w] = "recovering"
        /\ \A v \in Workers : v # w => pc'[v] = pc[v] /\ job'[v] = job[v] /\ plan'[v] = plan[v]
    BY <1>0, <1>6 DEF LoadRecover, Goto, TypeOK
  <2>2. ASSUME NEW v \in Workers PROVE SlotInv(v)'
    BY <1>0, <1>a, <2>1, SlotKept
  <2> QED
    BY <1>0, <2>1, <2>2 DEF RowInv
<1>60. ASSUME NEW w \in Workers, CommitRecover(w) PROVE Goal
  <2>1. /\ pc[w] = "recovering" /\ WriteStatus(w) /\ WriteLead(w) /\ Release(w)
        /\ UNCHANGED <<erased, attempts, attemptLog>>
    BY <1>60 DEF CommitRecover
  <2>2. /\ job[w] \in Deliveries
        /\ plan[w].to \in {"outcome_unknown", "retrying"}
        /\ plan[w].leadTo \in {"routing", "delivered", "delivery_failed"}
    BY <1>0, <2>1 DEF IndInv, LockInv, Recovery, RecoveredStatus, TypeOK
  <2>3. ASSUME NEW v \in Workers PROVE SlotInv(v)'
    BY <1>0, <1>a, <2>1, ReleaseTypes, SlotKept
  <2>4. /\ status'[job[w]] # "absent" /\ status[job[w]] # "absent"
        /\ \A d \in Deliveries : d # job[w] => status'[d] = status[d]
        /\ \A l \in Leads : lead'[l] \in {lead[l], plan[w].leadTo}
    BY <1>0, <2>1, <2>2, WriteTypes DEF TypeOK
  <2>5. RowInv'
    BY <1>0, <1>a, <2>1, <2>2, <2>4 DEF RowInv
  <2> QED
    BY <2>3, <2>5
<1>7. ASSUME NEW w \in Workers, NEW d \in Deliveries, Claim(w, d) PROVE Goal
  <2>1. UNCHANGED <<leadVars, attempts, attemptLog, plan>> /\ status[d] \in Claimable
    BY <1>7 DEF Claim
  <2>2. pc'[w] = "claimed" /\ \A v \in Workers : v # w => pc'[v] = pc[v] /\ job'[v] = job[v]
    BY <1>0, <1>7 DEF Claim, Goto, TypeOK
  <2>3. \A v \in Workers : SlotInv(v)'
    <3>1. ASSUME NEW v \in Workers PROVE SlotInv(v)'
      BY <1>0, <1>a, <2>1, <2>2, SlotKept
    <3> QED
      BY <3>1
  <2>4. status'[d] # "absent" /\ \A e \in Deliveries : e # d => status'[e] = status[e]
    BY <1>0, <1>7 DEF Claim, TypeOK
  <2>5. RowInv'
    BY <1>0, <1>a, <2>1, <2>4 DEF RowInv
  <2> QED
    BY <2>3, <2>5
<1>8. ASSUME NEW w \in Workers, LoadStart(w) PROVE Goal
  <2> DEFINE d == job[w]
  <2>1. pc[w] = "claimed" /\ UNCHANGED <<leadVars, deliveryVars>>
    BY <1>8 DEF LoadStart
  <2>2. RowInv'
    BY <1>0, <2>1 DEF RowInv
  <2>3. d \in Deliveries /\ d[1] \in Leads /\ attempts[d] \in Nat
    BY <1>0, <1>a, <2>1 DEF TypeOK
  <2>4. \A v \in Workers : v # w => pc'[v] = pc[v] /\ job'[v] = job[v] /\ plan'[v] = plan[v]
    BY <1>0, <1>8 DEF LoadStart, Release, Goto, Decide, TypeOK
  <2>5. \A v \in Workers \ {w} : SlotInv(v)'
    BY <1>0, <1>a, <2>1, <2>4, SlotKept
  <2>6. SlotInv(w)'
    <3>1. CASE ~Owns(w)
      BY <1>0, <1>8, <3>1, ReleaseTypes DEF LoadStart, SlotInv
    <3>2. CASE Owns(w) /\ Valid(d[1])
      <4>1. Decide(w, "delivering", attempts[d] + 1, lead[d[1]]) /\ lead[d[1]] \in LeadStatus
        BY <1>0, <1>8, <2>3, <3>2 DEF LoadStart, TypeOK
      <4>2. plan'[w] = [from |-> status[job[w]], to |-> "delivering", attempt |-> attempts[d] + 1,
                        leadFrom |-> lead[job[w][1]], leadTo |-> lead[d[1]]]
        BY <1>0, <4>1 DEF Decide, TypeOK
      <4>3. pc'[w] = "starting" /\ job'[w] = d
        BY <1>0, <1>8, <3>2 DEF LoadStart, Goto, TypeOK
      <4>4. lead[d[1]] # "deleted"
        BY <1>0, <2>3, <3>2 DEF Valid, RowInv
      <4>5. attempts'[d] = attempts[d] /\ attempts[d] + 1 \in 1 .. attempts[d] + 1
        BY <2>1, <2>3
      <4> QED
        BY <4>2, <4>3, <4>4, <4>5 DEF SlotInv
    <3>3. CASE Owns(w) /\ ~Valid(d[1])
      <4> DEFINE t == Refreshed(Seen(d, "failed"))
      <4>1. Decide(w, "failed", attempts[d], t)
        BY <1>8, <3>3 DEF LoadStart
      <4>2. t \in {"routing", "delivered", "delivery_failed"}
        BY RefreshedStatus
      <4> HIDE DEF t
      <4>3. plan'[w] = [from |-> status[job[w]], to |-> "failed", attempt |-> attempts[d],
                        leadFrom |-> lead[job[w][1]], leadTo |-> t]
        BY <1>0, <4>1 DEF Decide, TypeOK
      <4>4. pc'[w] = "finishing" /\ status[job[w]] \in Active
        BY <1>0, <1>8, <3>3 DEF LoadStart, Goto, TypeOK, Owns
      <4> QED
        BY <4>2, <4>3, <4>4 DEF SlotInv
    <3> QED
      BY <3>1, <3>2, <3>3
  <2> QED
    BY <2>2, <2>5, <2>6
<1>9. ASSUME NEW w \in Workers, CommitStart(w) PROVE Goal
  <2> DEFINE d == job[w]
             n == plan[w].attempt
  <2>1. pc[w] = "starting" /\ UNCHANGED leadVars
    BY <1>9 DEF CommitStart
  <2>2. d \in Deliveries /\ attempts[d] \in Nat /\ n \in 1 .. attempts[d] + 1
    BY <1>0, <1>a, <2>1 DEF TypeOK, SlotInv
  <2>3. /\ pc'[w] \notin {"starting", "finishing"}
        /\ \A v \in Workers : v # w => pc'[v] = pc[v] /\ job'[v] = job[v] /\ plan'[v] = plan[v]
    BY <1>0, <1>9 DEF CommitStart, Release, Goto, TypeOK
  <2>4. CASE DuplicateAttempt(w)
    <3>1. UNCHANGED <<status, attempts, attemptLog>>
      BY <1>9, <2>4 DEF CommitStart
    <3>2. ASSUME NEW v \in Workers PROVE SlotInv(v)'
      BY <1>0, <1>a, <2>3, <3>1, SlotKept
    <3> QED
      BY <1>0, <2>1, <3>1, <3>2 DEF RowInv
  <2>5. CASE ~DuplicateAttempt(w)
    <3>1. n = attempts[d] + 1
      BY <1>0, <2>2, <2>5 DEF DuplicateAttempt, RowInv
    <3>2. /\ attempts'[d] = attempts[d] + 1 /\ attemptLog'[d] = attemptLog[d] \cup {attempts[d] + 1}
          /\ \A e \in Deliveries : e # d => attempts'[e] = attempts[e] /\ attemptLog'[e] = attemptLog[e]
      BY <1>0, <1>9, <2>2, <2>5, <3>1 DEF CommitStart, TypeOK
    <3>3. 1 .. attempts[d] + 1 = (1 .. attempts[d]) \cup {attempts[d] + 1}
      BY <2>2
    <3>4. \A e \in Deliveries : attemptLog'[e] = 1 .. attempts'[e]
      BY <1>0, <3>2, <3>3 DEF RowInv
    <3>5. status'[d] # "absent" /\ \A e \in Deliveries : e # d => status'[e] = status[e]
      <4>1. WriteStatus(w) /\ plan[w].to = "delivering"
        BY <1>0, <1>9, <2>1, <2>5 DEF CommitStart, SlotInv
      <4> QED
        BY <1>0, <2>1, <4>1, WriteTypes
    <3>6. RowInv'
      <4>1. lead[d[1]] # "absent"
        BY <1>0, <2>1, <2>2 DEF RowInv, TypeOK
      <4> QED
        BY <1>0, <1>a, <2>1, <2>2, <3>2, <3>4, <3>5, <4>1 DEF RowInv
    <3>7. \A e \in Deliveries : attempts'[e] >= attempts[e]
      <4>1. ASSUME NEW e \in Deliveries PROVE attempts'[e] >= attempts[e]
        BY <1>a, <3>2
      <4> QED
        BY <4>1
    <3>8. ASSUME NEW v \in Workers PROVE SlotInv(v)'
      BY <1>0, <2>3, <3>7, SlotKept
    <3> QED
      BY <3>6, <3>8
  <2> QED
    BY <2>4, <2>5
<1>10. ASSUME NEW w \in Workers, Heartbeat(w) PROVE Goal
  <2>1. UNCHANGED <<leadVars, status, attempts, attemptLog, slotVars>>
    BY <1>10 DEF Heartbeat
  <2> QED
    BY <1>0, <1>a, <2>1, SlotKept DEF RowInv
<1>11. ASSUME NEW w \in Workers, NEW answer \in {"accepted", "transient", "reject"},
              LoadFinish(w, answer)
       PROVE  Goal
  <2> DEFINE d == job[w]
             s == AnswerStatus(answer, attempts[d])
             t == Refreshed(Seen(d, s))
  <2>1. pc[w] = "sending" /\ UNCHANGED <<leadVars, deliveryVars>>
    BY <1>11 DEF LoadFinish
  <2>2. RowInv'
    BY <1>0, <2>1 DEF RowInv
  <2>3. d \in Deliveries /\ attempts[d] \in Nat
    BY <1>0, <1>a, <2>1 DEF TypeOK
  <2>4. \A v \in Workers : v # w => pc'[v] = pc[v] /\ job'[v] = job[v] /\ plan'[v] = plan[v]
    BY <1>0, <1>11 DEF LoadFinish, Release, Goto, Decide, TypeOK
  <2>5. \A v \in Workers \ {w} : SlotInv(v)'
    BY <1>0, <1>a, <2>1, <2>4, SlotKept
  <2>6. CASE ~Owns(w)
    <3>1. SlotInv(w)'
      BY <1>0, <1>11, <2>6, ReleaseTypes DEF LoadFinish, SlotInv
    <3> QED
      BY <2>2, <2>5, <3>1
  <2>7. CASE Owns(w)
    <3>1. Decide(w, s, attempts[d], t) /\ pc'[w] = "finishing" /\ status[job[w]] \in Active
      BY <1>0, <1>11, <2>7 DEF LoadFinish, Goto, TypeOK, Owns
    <3>2. /\ s \in {"delivered", "failed", "retrying"}
          /\ t \in {"routing", "delivered", "delivery_failed"}
      BY <2>3, DecidedStatus, RefreshedStatus
    <3> HIDE DEF s, t
    <3>3. plan'[w] = [from |-> status[job[w]], to |-> s, attempt |-> attempts[d],
                      leadFrom |-> lead[job[w][1]], leadTo |-> t]
      BY <1>0, <3>1 DEF Decide, TypeOK
    <3>4. SlotInv(w)'
      BY <3>1, <3>2, <3>3 DEF SlotInv
    <3> QED
      BY <2>2, <2>5, <3>4
  <2> QED
    BY <2>6, <2>7
<1>12. ASSUME NEW w \in Workers, CommitFinish(w) PROVE Goal
  <2>1. /\ pc[w] = "finishing" /\ WriteStatus(w) /\ WriteLead(w)
        /\ UNCHANGED <<erased, attempts, attemptLog>>
    BY <1>12 DEF CommitFinish
  <2>2. /\ job[w] \in Deliveries
        /\ plan[w].to \in {"delivered", "failed", "retrying"}
        /\ plan[w].leadTo \in {"routing", "delivered", "delivery_failed"}
    BY <1>0, <2>1 DEF SlotInv, TypeOK
  <2>3. /\ pc'[w] \notin {"starting", "finishing"}
        /\ \A v \in Workers : v # w => pc'[v] = pc[v] /\ job'[v] = job[v] /\ plan'[v] = plan[v]
    BY <1>0, <1>12 DEF CommitFinish, Release, Goto, TypeOK
  <2>4. ASSUME NEW v \in Workers PROVE SlotInv(v)'
    BY <1>0, <1>a, <2>1, <2>3, SlotKept
  <2>5. /\ status'[job[w]] # "absent" /\ status[job[w]] # "absent"
        /\ \A d \in Deliveries : d # job[w] => status'[d] = status[d]
        /\ \A l \in Leads : lead'[l] \in {lead[l], plan[w].leadTo}
    BY <1>0, <2>1, <2>2, WriteTypes DEF TypeOK
  <2>6. RowInv'
    BY <1>0, <1>a, <2>1, <2>2, <2>5 DEF RowInv
  <2> QED
    BY <2>4, <2>6
<1>13. ASSUME NEW w \in Workers, Alert(w) \/ Crash(w) PROVE Goal
  <2>1. Release(w) /\ UNCHANGED <<lead, erased, deliveryVars>>
    BY <1>13 DEF Alert, Crash
  <2>2. ASSUME NEW v \in Workers PROVE SlotInv(v)'
    BY <1>0, <1>a, <2>1, ReleaseTypes, SlotKept
  <2> QED
    BY <1>0, <2>1, <2>2 DEF RowInv
<1>14. ASSUME NEW d \in Deliveries, LeaseExpires(d) \/ BackoffElapses(d) PROVE Goal
  <2>1. UNCHANGED <<leadVars, status, attempts, attemptLog, slotVars>>
    BY <1>14 DEF LeaseExpires, BackoffElapses
  <2> QED
    BY <1>0, <1>a, <2>1, SlotKept DEF RowInv
<1>15. ASSUME NEW a \in Assignments, NEW t \in AssignmentStatus, TransitionAssignment(a, t) PROVE Goal
  BY <1>2, <1>15 DEF TransitionAssignment
<1>16. ASSUME NEW a \in Assignments, NEW b \in Assignments, ReplaceAssignment(a, b) PROVE Goal
  BY <1>2, <1>16 DEF ReplaceAssignment
<1>17. ASSUME NEW l \in Leads, LoadErase(l) PROVE Goal
  BY <1>2, <1>17 DEF LoadErase
<1>18. CASE UNCHANGED vars
  BY <1>2, <1>18 DEF vars
<1> QED
  BY <1>1, <1>5, <1>6, <1>60, <1>7, <1>8, <1>9, <1>10, <1>11, <1>12, <1>13, <1>14, <1>15,
     <1>16, <1>17, <1>18 DEF Next, OperatorStep, WorkerStep

\* Every step keeps the lease of every delivery with the one slot that works on it.
LEMMA LeaseStep == IndInv /\ [Next]_vars => \A d \in Deliveries : LeaseInv(d)'
<1> SUFFICES ASSUME IndInv, [Next]_vars, NEW d \in Deliveries PROVE LeaseInv(d)'
  OBVIOUS
<1>0. TypeOK /\ TypeOK' /\ LeaseInv(d) /\ RowInv /\ \A w \in Workers : SlotInv(w)
  BY TypeStep DEF IndInv
<1> USE DEF deliveryVars, leadVars, slotVars, ghostVars
<1>a. /\ attempts[d] \in Nat /\ leaseToken[d] \in Nat /\ d[1] \in Leads /\ status[d] \in DeliveryStatus
      /\ MaxAttempts \in Nat \ {0}
  BY <1>0, DeliveryConstants DEF Deliveries, TypeOK
<1>1. ASSUME NEW l \in Leads, NEW spam \in BOOLEAN, SubmitLead(l, spam) PROVE LeaseInv(d)'
  <2>1. UNCHANGED <<slotVars, attempts, leaseToken, leaseExpired, stalled>> /\ lead[l] = "absent"
    BY <1>1 DEF SubmitLead
  <2>2. status'[d] = status[d] \/ (status'[d] = "pending" /\ d[1] = l)
    BY <1>0, <1>1 DEF SubmitLead, TypeOK
  <2>3. CASE status'[d] = status[d]
    BY <1>0, <2>1, <2>3, LeaseKept
  <2>4. CASE status'[d] = "pending" /\ d[1] = l
    <3>1. status[d] = "absent" /\ attempts[d] = 0
      BY <1>0, <2>1, <2>4 DEF RowInv
    <3>2. \A w \in Workers : ~Works(w, d)'
      BY <1>0, <2>1, <3>1 DEF Works, Busy, TypeOK
    <3> QED
      BY <1>a, <2>1, <2>4, <3>1, <3>2 DEF LeaseInv
  <2> QED
    BY <2>2, <2>3, <2>4
<1>2. CASE UNCHANGED <<deliveryVars, slotVars, stalled>>
  BY <1>0, <1>2, LeaseKept
<1>5. ASSUME NEW l \in Leads, CommitErase(l) PROVE LeaseInv(d)'
  <2>1. UNCHANGED <<slotVars, attempts, stalled>>
    BY <1>5 DEF CommitErase
  <2>2. \/ /\ status'[d] = "cancelled" /\ leaseToken'[d] \in {leaseToken[d], NoToken}
           /\ (leaseExpired'[d] => leaseExpired[d])
        \/ /\ status'[d] = status[d] /\ leaseToken'[d] = leaseToken[d]
           /\ (leaseExpired'[d] => leaseExpired[d])
    BY <1>0, <1>5 DEF CommitErase, TypeOK
  <2>3. CASE status'[d] = status[d] /\ leaseToken'[d] = leaseToken[d]
             /\ (leaseExpired'[d] => leaseExpired[d])
    BY <1>0, <2>1, <2>3, LeaseKept
  <2>4. CASE /\ status'[d] = "cancelled" /\ leaseToken'[d] \in {leaseToken[d], NoToken}
             /\ (leaseExpired'[d] => leaseExpired[d])
    <3> SUFFICES ASSUME d \notin stalled PROVE LeaseInv(d)'
      BY <2>1 DEF LeaseInv
    <3>1. ASSUME NEW w \in Workers, Works(w, d)' PROVE Current(w, d)'
      <4>1. Current(w, d) /\ Works(w, d)
        BY <1>0, <2>1, <3>1 DEF LeaseInv, Works
      <4> QED
        BY <2>1, <2>4, <4>1 DEF Current
    <3>2. \A v, w \in Workers : Works(v, d)' /\ Works(w, d)' => v = w
      BY <1>0, <2>1 DEF LeaseInv, Works
    <3> QED
      BY <1>0, <2>1, <2>4, <3>1, <3>2 DEF LeaseInv
  <2> QED
    BY <2>2, <2>3, <2>4
<1>6. ASSUME NEW w \in Workers, NEW e \in Deliveries, LoadRecover(w, e) PROVE LeaseInv(d)'
  <2>1. /\ UNCHANGED <<deliveryVars, token, stalled>> /\ pc'[w] = "recovering"
        /\ \A v \in Workers : v # w => pc'[v] = pc[v] /\ job'[v] = job[v] /\ plan'[v] = plan[v]
    BY <1>0, <1>6 DEF LoadRecover, Goto, TypeOK
  <2> QED
    BY <1>0, <2>1, LeaseKept DEF Busy
<1>60. ASSUME NEW w \in Workers, CommitRecover(w) PROVE LeaseInv(d)'
  <2> DEFINE e == job[w]
  <2>1. /\ pc[w] = "recovering" /\ UNCHANGED <<attempts, stalled>> /\ WriteStatus(w)
        /\ Release(w) /\ ClearLease(e)
    BY <1>60 DEF CommitRecover
  <2>a. /\ e \in Deliveries /\ Stale(e) /\ plan[w].from = status[e]
        /\ plan[w].to = RecoveredStatus(status[e])
    BY <1>0, <2>1 DEF IndInv, LockInv, Recovery, TypeOK
  <2>b. /\ pc'[w] = "idle"
        /\ \A v \in Workers : v # w => pc'[v] = pc[v] /\ job'[v] = job[v]
                                       /\ token'[v] = token[v] /\ plan'[v] = plan[v]
    BY <1>0, <2>1, ReleaseTypes
  <2>c. /\ \A f \in Deliveries : f # e => status'[f] = status[f]
        /\ status'[e] = RecoveredStatus(status[e])
    BY <1>0, <2>1, <2>a, WriteTypes DEF RecoveredStatus, Stale
  <2>2. CASE e # d
    <3>1. status'[d] = status[d] /\ leaseToken'[d] = leaseToken[d] /\ (leaseExpired'[d] => leaseExpired[d])
      BY <1>0, <2>1, <2>a, <2>c, <2>2 DEF ClearLease, TypeOK
    <3> QED
      BY <1>0, <2>1, <2>b, <3>1, LeaseKept DEF Busy
  <2>3. CASE e = d
    <3> SUFFICES ASSUME d \notin stalled PROVE LeaseInv(d)'
      BY <2>1 DEF LeaseInv
    <3>1. /\ status'[d] = IF status[d] = "delivering" THEN "outcome_unknown" ELSE "retrying"
          /\ leaseToken'[d] = NoToken /\ leaseExpired'[d] = FALSE
      BY <1>0, <2>1, <2>c, <2>3 DEF RecoveredStatus, ClearLease, TypeOK
    <3>2. status[d] \in Active /\ (leaseExpired[d] \/ leaseToken[d] = NoToken)
      BY <2>a, <2>3 DEF Stale
    <3>3. ASSUME NEW v \in Workers, Works(v, d)
          PROVE  status[d] = "delivering" /\ pc[v] = "sending"
      <4>1. Current(v, d)
        BY <1>0, <3>3 DEF LeaseInv
      <4>2. leaseToken[d] = NoToken /\ status[d] # "leased"
        BY <1>0, <3>2, <4>1 DEF Current, LeaseInv
      <4> QED
        BY <3>2, <3>3, <4>1, <4>2 DEF Current, Works, Busy
    <3>4. ASSUME NEW v \in Workers, Works(v, d)' PROVE Current(v, d)'
      <4>1. Works(v, d) /\ pc'[v] = "sending" /\ v # w
        BY <2>b, <3>3, <3>4 DEF Works, Busy
      <4>2. token'[v] # NoToken
        BY <1>0, <2>b, <4>1 DEF LeaseInv, Current
      <4> QED
        BY <3>1, <3>3, <4>1, <4>2 DEF Current
    <3>5. \A u, v \in Workers : Works(u, d)' /\ Works(v, d)' => u = v
      BY <1>0, <2>b DEF LeaseInv, Works, Busy
    <3>6. status[d] = "leased" => attempts[d] < MaxAttempts
      BY <1>0 DEF LeaseInv
    <3>7. attempts[d] <= MaxAttempts
      BY <1>0 DEF LeaseInv
    <3> QED
      BY <2>1, <3>1, <3>2, <3>4, <3>5, <3>6, <3>7 DEF LeaseInv
  <2> QED
    BY <2>2, <2>3
<1>7. ASSUME NEW w \in Workers, NEW e \in Deliveries, Claim(w, e) PROVE LeaseInv(d)'
  <2>1. UNCHANGED <<attempts, plan, stalled>> /\ status[e] \in Claimable
    BY <1>7 DEF Claim
  <2>2. /\ pc'[w] = "claimed" /\ job'[w] = e /\ token'[w] = claims[e] + 1
        /\ \A v \in Workers : v # w => pc'[v] = pc[v] /\ job'[v] = job[v] /\ token'[v] = token[v]
    BY <1>0, <1>7 DEF Claim, Goto, TypeOK
  <2>3. CASE e # d
    <3>1. status'[d] = status[d] /\ leaseToken'[d] = leaseToken[d] /\ (leaseExpired'[d] => leaseExpired[d])
      BY <1>0, <1>7, <2>3 DEF Claim, TypeOK
    <3> QED
      BY <1>0, <2>1, <2>2, <2>3, <3>1, LeaseKept
  <2>4. CASE e = d
    <3> SUFFICES ASSUME d \notin stalled PROVE LeaseInv(d)'
      BY <2>1 DEF LeaseInv
    <3>1. status'[d] = "leased" /\ leaseToken'[d] = claims[d] + 1 /\ leaseExpired'[d] = FALSE
      BY <1>0, <1>7, <2>4 DEF Claim, TypeOK
    <3>2. \A v \in Workers : ~Works(v, d)
      BY <1>0, <2>1, <2>4 DEF LeaseInv, Current, Works, Busy
    <3>3. \A v \in Workers : Works(v, d)' => v = w
      BY <2>2, <3>2 DEF Works
    <3>4. claims[d] + 1 # NoToken
      BY <1>0 DEF TypeOK
    <3>5. Current(w, d)'
      BY <2>2, <2>4, <3>1, <3>4 DEF Current
    <3>6. attempts[d] < MaxAttempts /\ attempts[d] <= MaxAttempts
      BY <1>0, <2>1, <2>4 DEF LeaseInv
    <3> QED
      BY <2>1, <3>1, <3>3, <3>4, <3>5, <3>6 DEF LeaseInv
  <2> QED
    BY <2>3, <2>4
<1>8. ASSUME NEW w \in Workers, LoadStart(w) PROVE LeaseInv(d)'
  <2>1. pc[w] = "claimed" /\ UNCHANGED <<deliveryVars, stalled>>
    BY <1>8 DEF LoadStart
  <2>2. \A v \in Workers : v # w => pc'[v] = pc[v] /\ job'[v] = job[v] /\ token'[v] = token[v]
                                    /\ plan'[v] = plan[v]
    BY <1>0, <1>8 DEF LoadStart, Release, Goto, Decide, TypeOK
  <2>3. CASE ~Owns(w)
    <3>1. pc'[w] = "idle"
      BY <1>0, <1>8, <2>3, ReleaseTypes DEF LoadStart
    <3> QED
      BY <1>0, <2>1, <2>2, <3>1, LeaseKept DEF Busy
  <2>4. CASE Owns(w)
    <3>1. UNCHANGED <<job, token>>
      BY <1>8, <2>4 DEF LoadStart
    <3>2. CASE job[w] # d
      BY <1>0, <2>1, <2>2, <3>1, <3>2, LeaseKept
    <3>3. CASE job[w] = d
      <4> SUFFICES ASSUME d \notin stalled PROVE LeaseInv(d)'
        BY <2>1 DEF LeaseInv
      <4>1. Works(w, d) /\ Current(w, d)
        BY <1>0, <2>1, <3>3 DEF LeaseInv, Works, Busy
      <4>2. status[d] = "leased" /\ leaseToken[d] # NoToken /\ attempts[d] < MaxAttempts
        BY <1>0, <2>1, <2>4, <3>3, <4>1 DEF Owns, Current, LeaseInv
      <4>3. \/ pc'[w] = "starting" /\ plan'[w].from = "leased" /\ plan'[w].attempt = attempts[d] + 1
            \/ pc'[w] = "finishing" /\ plan'[w].from = "leased" /\ plan'[w].to = "failed"
        BY <1>0, <1>8, <2>4, <3>3, <4>2 DEF LoadStart, Goto, Decide, TypeOK
      <4>4. Current(w, d)'
        BY <1>a, <2>1, <3>1, <4>1, <4>2, <4>3 DEF Current
      <4>5. \A v \in Workers : Works(v, d)' => v = w
        BY <1>0, <2>2, <4>1 DEF LeaseInv, Works
      <4>6. attempts[d] <= MaxAttempts
        BY <1>0 DEF LeaseInv
      <4> QED
        BY <2>1, <4>2, <4>4, <4>5, <4>6 DEF LeaseInv
    <3> QED
      BY <3>2, <3>3
  <2> QED
    BY <2>3, <2>4
<1>9. ASSUME NEW w \in Workers, CommitStart(w) PROVE LeaseInv(d)'
  <2>1. pc[w] = "starting" /\ UNCHANGED <<leaseToken, leaseExpired, stalled>>
    BY <1>9 DEF CommitStart
  <2>2. \A v \in Workers : v # w => pc'[v] = pc[v] /\ job'[v] = job[v] /\ token'[v] = token[v]
                                    /\ plan'[v] = plan[v]
    BY <1>0, <1>9 DEF CommitStart, Release, Goto, TypeOK
  <2>3. CASE DuplicateAttempt(w)
    <3>1. pc'[w] = "idle" /\ UNCHANGED <<status, attempts>>
      BY <1>0, <1>9, <2>3, ReleaseTypes DEF CommitStart
    <3> QED
      BY <1>0, <2>1, <2>2, <3>1, LeaseKept DEF Busy
  <2>4. CASE ~DuplicateAttempt(w)
    <3>1. /\ UNCHANGED <<job, token, plan>> /\ pc'[w] = "sending"
          /\ WriteStatus(w) /\ plan[w].to = "delivering" /\ job[w] \in Deliveries
      BY <1>0, <1>9, <2>1, <2>4 DEF CommitStart, Goto, TypeOK, SlotInv
    <3>2. CASE job[w] # d
      <4>1. status'[d] = status[d] /\ attempts'[d] = attempts[d]
        BY <1>0, <1>9, <2>1, <2>4, <3>1, <3>2, WriteTypes DEF CommitStart, TypeOK
      <4> QED
        BY <1>0, <2>1, <2>2, <3>1, <3>2, <4>1, LeaseKept
    <3>3. CASE job[w] = d
      <4> SUFFICES ASSUME d \notin stalled PROVE LeaseInv(d)'
        BY <2>1 DEF LeaseInv
      <4>1. Works(w, d) /\ Current(w, d)
        BY <1>0, <2>1, <3>3 DEF LeaseInv, Works, Busy
      <4>2. status'[d] = "delivering"
        BY <1>0, <2>1, <3>1, <3>3, <4>1, WriteTypes DEF Current
      <4>3. attempts'[d] = plan[w].attempt /\ attempts'[d] <= MaxAttempts
        BY <1>0, <1>9, <2>1, <2>4, <3>3, <4>1 DEF CommitStart, TypeOK, Current
      <4>4. Current(w, d)'
        BY <2>1, <3>1, <4>1, <4>2 DEF Current
      <4>5. \A v \in Workers : Works(v, d)' => v = w
        BY <1>0, <2>2, <4>1 DEF LeaseInv, Works
      <4> QED
        BY <4>2, <4>3, <4>4, <4>5 DEF LeaseInv
    <3> QED
      BY <3>2, <3>3
  <2> QED
    BY <2>3, <2>4
<1>10. ASSUME NEW w \in Workers, Heartbeat(w) PROVE LeaseInv(d)'
  <2>1. /\ UNCHANGED <<status, attempts, leaseToken, slotVars, stalled>>
        /\ (leaseExpired'[d] => leaseExpired[d])
    BY <1>0, <1>10 DEF Heartbeat, TypeOK
  <2> QED
    BY <1>0, <2>1, LeaseKept
<1>11. ASSUME NEW w \in Workers, NEW answer \in {"accepted", "transient", "reject"},
              LoadFinish(w, answer)
       PROVE  LeaseInv(d)'
  <2>1. pc[w] = "sending" /\ UNCHANGED <<deliveryVars, stalled>>
    BY <1>11 DEF LoadFinish
  <2>2. \A v \in Workers : v # w => pc'[v] = pc[v] /\ job'[v] = job[v] /\ token'[v] = token[v]
                                    /\ plan'[v] = plan[v]
    BY <1>0, <1>11 DEF LoadFinish, Release, Goto, Decide, TypeOK
  <2>3. CASE ~Owns(w)
    <3>1. pc'[w] = "idle"
      BY <1>0, <1>11, <2>3, ReleaseTypes DEF LoadFinish
    <3> QED
      BY <1>0, <2>1, <2>2, <3>1, LeaseKept DEF Busy
  <2>4. CASE Owns(w)
    <3>1. UNCHANGED <<job, token>>
      BY <1>11, <2>4 DEF LoadFinish
    <3>2. CASE job[w] # d
      BY <1>0, <2>1, <2>2, <3>1, <3>2, LeaseKept
    <3>3. CASE job[w] = d
      <4> SUFFICES ASSUME d \notin stalled PROVE LeaseInv(d)'
        BY <2>1 DEF LeaseInv
      <4> DEFINE s == AnswerStatus(answer, attempts[d])
      <4>1. Works(w, d) /\ Current(w, d)
        BY <1>0, <2>1, <3>3 DEF LeaseInv, Works, Busy
      <4>2. status[d] = "delivering" /\ leaseToken[d] = token[w]
        BY <2>1, <2>4, <3>3, <4>1 DEF Owns, Current
      <4>3. s = "retrying" => attempts[d] < MaxAttempts
        BY <1>a, DecidedStatus
      <4> HIDE DEF s
      <4>4. pc'[w] = "finishing" /\ plan'[w].from = "delivering" /\ plan'[w].to = s
        BY <1>0, <1>11, <2>4, <3>3, <4>2 DEF LoadFinish, Goto, Decide, TypeOK, s
      <4>5. token[w] # NoToken
        BY <4>1 DEF Current
      <4>6. Current(w, d)'
        BY <2>1, <3>1, <4>1, <4>2, <4>3, <4>4, <4>5 DEF Current
      <4>7. \A v \in Workers : Works(v, d)' => v = w
        BY <1>0, <2>2, <4>1 DEF LeaseInv, Works
      <4>8. attempts[d] <= MaxAttempts
        BY <1>0 DEF LeaseInv
      <4> QED
        BY <2>1, <4>2, <4>6, <4>7, <4>8 DEF LeaseInv
    <3> QED
      BY <3>2, <3>3
  <2> QED
    BY <2>3, <2>4
<1>12. ASSUME NEW w \in Workers, CommitFinish(w) PROVE LeaseInv(d)'
  <2>1. /\ pc[w] = "finishing" /\ WriteStatus(w) /\ ClearLease(job[w])
        /\ UNCHANGED <<attempts, stalled>> /\ job[w] \in Deliveries
        /\ plan[w].to \in {"delivered", "failed", "retrying"}
    BY <1>0, <1>12 DEF CommitFinish, SlotInv, TypeOK
  <2>2. /\ pc'[w] \notin Busy
        /\ \A v \in Workers : v # w => pc'[v] = pc[v] /\ job'[v] = job[v] /\ token'[v] = token[v]
                                       /\ plan'[v] = plan[v]
    BY <1>0, <1>12 DEF CommitFinish, Release, Goto, TypeOK, Busy
  <2>3. CASE job[w] # d
    <3>1. status'[d] = status[d] /\ leaseToken'[d] = leaseToken[d] /\ (leaseExpired'[d] => leaseExpired[d])
      BY <1>0, <2>1, <2>3, WriteTypes DEF ClearLease, TypeOK
    <3> QED
      BY <1>0, <2>1, <2>2, <3>1, LeaseKept
  <2>4. CASE job[w] = d
    <3> SUFFICES ASSUME d \notin stalled PROVE LeaseInv(d)'
      BY <2>1 DEF LeaseInv
    <3>1. Works(w, d) /\ Current(w, d)
      BY <1>0, <2>1, <2>4 DEF LeaseInv, Works, Busy
    <3>2. status'[d] = plan[w].to
      BY <1>0, <2>1, <2>4, <3>1, WriteTypes DEF Current
    <3>3. \A v \in Workers : ~Works(v, d)'
      BY <1>0, <2>2, <3>1 DEF LeaseInv, Works
    <3>4. plan[w].to = "retrying" => attempts[d] < MaxAttempts
      BY <2>1, <3>1 DEF Current
    <3>5. attempts[d] <= MaxAttempts
      BY <1>0 DEF LeaseInv
    <3> QED
      BY <2>1, <3>2, <3>3, <3>4, <3>5 DEF LeaseInv
  <2> QED
    BY <2>3, <2>4
<1>13. ASSUME NEW w \in Workers, Alert(w) \/ Crash(w) PROVE LeaseInv(d)'
  <2>1. Release(w) /\ UNCHANGED <<deliveryVars, stalled>>
    BY <1>13 DEF Alert, Crash
  <2> QED
    BY <1>0, <2>1, ReleaseTypes, LeaseKept DEF Busy
<1>14. ASSUME NEW e \in Deliveries, LeaseExpires(e) PROVE LeaseInv(d)'
  <2>1. /\ UNCHANGED <<status, attempts, leaseToken, slotVars>> /\ stalled \subseteq stalled'
        /\ e # d /\ leaseExpired'[d] => leaseExpired[d]
    BY <1>0, <1>14 DEF LeaseExpires, TypeOK
  <2>2. CASE e # d
    BY <1>0, <2>1, <2>2, LeaseKept
  <2>3. CASE e = d
    <3> SUFFICES ASSUME d \notin stalled', d \notin stalled PROVE LeaseInv(d)'
      BY <2>1 DEF LeaseInv
    <3>1. ~Attended(d) /\ leaseToken[d] # NoToken
      BY <1>14, <2>3 DEF LeaseExpires
    <3>2. \A w \in Workers : ~Works(w, d)
      BY <1>0, <3>1 DEF LeaseInv, Current, Attended, Works, Busy
    <3>3. \A w \in Workers : ~Works(w, d)'
      BY <2>1, <3>2 DEF Works
    <3> QED
      BY <1>0, <2>1, <3>3 DEF LeaseInv
  <2> QED
    BY <2>2, <2>3
<1>15. ASSUME NEW e \in Deliveries, BackoffElapses(e) PROVE LeaseInv(d)'
  <2>1. UNCHANGED <<status, attempts, leaseToken, leaseExpired, slotVars, stalled>>
    BY <1>15 DEF BackoffElapses
  <2> QED
    BY <1>0, <2>1, LeaseKept
<1>16. ASSUME NEW a \in Assignments, NEW t \in AssignmentStatus, TransitionAssignment(a, t)
       PROVE  LeaseInv(d)'
  BY <1>2, <1>16 DEF TransitionAssignment
<1>17. ASSUME NEW a \in Assignments, NEW b \in Assignments, ReplaceAssignment(a, b)
       PROVE  LeaseInv(d)'
  BY <1>2, <1>17 DEF ReplaceAssignment
<1>18. ASSUME NEW l \in Leads, LoadErase(l) PROVE LeaseInv(d)'
  BY <1>2, <1>18 DEF LoadErase
<1>19. CASE UNCHANGED vars
  BY <1>2, <1>19 DEF vars
<1> QED
  BY <1>1, <1>5, <1>6, <1>60, <1>7, <1>8, <1>9, <1>10, <1>11, <1>12, <1>13, <1>14, <1>15,
     <1>16, <1>17, <1>18, <1>19 DEF Next, OperatorStep, WorkerStep

\* A locked row is kept by a step that does not write it, while no slot begins to recover.
LEMMA LockKept ==
  ASSUME LockInv,
         \A w \in Workers :
            \/ pc'[w] = pc[w] /\ job'[w] = job[w] /\ plan'[w] = plan[w]
            \/ pc'[w] # "recovering",
         \A w \in Workers : pc[w] = "recovering" =>
            /\ status'[job[w]] = status[job[w]] /\ leaseToken'[job[w]] = leaseToken[job[w]]
            /\ leaseExpired[job[w]] => leaseExpired'[job[w]]
  PROVE  LockInv'
<1>1. ASSUME NEW w \in Workers, pc'[w] = "recovering"
      PROVE  pc[w] = "recovering" /\ job'[w] = job[w] /\ plan'[w] = plan[w]
  BY <1>1
<1>2. ASSUME NEW w \in Workers, pc'[w] = "recovering" PROVE Recovery(w)'
  <2>1. Recovery(w) /\ pc[w] = "recovering"
    BY <1>1, <1>2 DEF LockInv
  <2>2. status'[job[w]] = status[job[w]] /\ leaseToken'[job[w]] = leaseToken[job[w]]
        /\ (leaseExpired[job[w]] => leaseExpired'[job[w]])
    BY <2>1
  <2> QED
    BY <1>1, <1>2, <2>1, <2>2 DEF Recovery, Stale, RecoveredStatus
<1>3. ASSUME NEW v \in Workers, NEW w \in Workers,
             pc'[v] = "recovering", pc'[w] = "recovering", job'[v] = job'[w]
      PROVE  v = w
  BY <1>1, <1>3 DEF LockInv
<1> QED
  BY <1>2, <1>3 DEF LockInv

\* Every step keeps the rows of recovering slots as they locked them.
LEMMA LockStep == IndInv /\ [Next]_vars => LockInv'
<1> SUFFICES ASSUME IndInv, [Next]_vars PROVE LockInv'
  OBVIOUS
<1>0. TypeOK /\ LockInv /\ RowInv
  BY DEF IndInv
<1> USE DEF deliveryVars, leadVars, slotVars, ghostVars
<1>a. \A w \in Workers : pc[w] = "recovering" =>
         job[w] \in Deliveries /\ status[job[w]] \in Active /\ Locked(job[w])
  BY <1>0 DEF LockInv, Recovery, Stale, Locked, TypeOK
<1>1. ASSUME NEW l \in Leads, NEW spam \in BOOLEAN, SubmitLead(l, spam) PROVE LockInv'
  <2>1. UNCHANGED <<slotVars, leaseToken, leaseExpired>> /\ lead[l] = "absent"
    BY <1>1 DEF SubmitLead
  <2>2. \A d \in Deliveries : d[1] # l => status'[d] = status[d]
    BY <1>0, <1>1 DEF SubmitLead, TypeOK
  <2>3. \A w \in Workers : pc[w] = "recovering" => status'[job[w]] = status[job[w]]
    BY <1>0, <1>a, <2>1, <2>2 DEF RowInv
  <2> QED
    BY <1>0, <2>1, <2>3, LockKept
<1>2. CASE UNCHANGED <<deliveryVars, slotVars>>
  BY <1>0, <1>2, LockKept
<1>3. ASSUME NEW l \in Leads, CommitErase(l) PROVE LockInv'
  <2>1. UNCHANGED slotVars /\ \A c \in Channels : ~Locked(<<l, c>>)
    BY <1>3 DEF CommitErase
  <2>2. \A d \in Deliveries : d[1] # l =>
           status'[d] = status[d] /\ leaseToken'[d] = leaseToken[d] /\ leaseExpired'[d] = leaseExpired[d]
    BY <1>0, <1>3 DEF CommitErase, TypeOK
  <2>3. \A d \in Deliveries : Locked(d) => d[1] # l
    BY <2>1 DEF Deliveries
  <2> QED
    BY <1>0, <1>a, <2>1, <2>2, <2>3, LockKept
<1>4. ASSUME NEW w \in Workers, NEW d \in Deliveries, LoadRecover(w, d) PROVE LockInv'
  <2> DEFINE s == RecoveredStatus(status[d])
             t == Refreshed(Seen(d, s))
  <2>1. /\ UNCHANGED deliveryVars /\ Stale(d) /\ ~Locked(d)
        /\ pc'[w] = "recovering" /\ job'[w] = d
        /\ plan'[w] = [from |-> status[d], to |-> s, attempt |-> attempts[d],
                       leadFrom |-> lead[d[1]], leadTo |-> t]
        /\ \A v \in Workers : v # w => pc'[v] = pc[v] /\ job'[v] = job[v] /\ plan'[v] = plan[v]
    BY <1>0, <1>4 DEF LoadRecover, Goto, TypeOK
  <2>2. t \in {"routing", "delivered", "delivery_failed"}
    BY RefreshedStatus
  <2> HIDE DEF t
  <2>3. Recovery(w)'
    BY <2>1, <2>2 DEF Recovery, Stale, RecoveredStatus
  <2>4. ASSUME NEW v \in Workers, v # w, pc'[v] = "recovering"
        PROVE  Recovery(v)' /\ job'[v] # d
    <3>1. Recovery(v) /\ pc[v] = "recovering" /\ job'[v] = job[v] /\ plan'[v] = plan[v]
      BY <1>0, <2>1, <2>4 DEF LockInv
    <3>2. job[v] # d
      BY <2>1, <3>1 DEF Locked
    <3> QED
      BY <2>1, <3>1, <3>2 DEF Recovery, Stale, RecoveredStatus
  <2>5. ASSUME NEW u \in Workers, NEW v \in Workers,
               pc'[u] = "recovering", pc'[v] = "recovering", job'[u] = job'[v]
        PROVE  u = v
    <3>1. CASE u = w \/ v = w
      BY <2>1, <2>4, <2>5, <3>1
    <3>2. CASE u # w /\ v # w
      BY <1>0, <2>1, <2>5, <3>2 DEF LockInv
    <3> QED
      BY <3>1, <3>2
  <2> QED
    BY <2>3, <2>4, <2>5 DEF LockInv
<1>5. ASSUME NEW w \in Workers, CommitRecover(w) PROVE LockInv'
  <2>1. pc[w] = "recovering" /\ WriteStatus(w) /\ Release(w) /\ ClearLease(job[w])
    BY <1>5 DEF CommitRecover
  <2>2. job[w] \in Deliveries /\ plan[w].to # "absent"
    BY <1>0, <2>1 DEF LockInv, Recovery, RecoveredStatus, TypeOK
  <2>3. /\ pc'[w] = "idle"
        /\ \A v \in Workers : v # w => pc'[v] = pc[v] /\ job'[v] = job[v] /\ plan'[v] = plan[v]
    BY <1>0, <2>1, ReleaseTypes
  <2>4. \A d \in Deliveries : d # job[w] =>
           status'[d] = status[d] /\ leaseToken'[d] = leaseToken[d] /\ leaseExpired'[d] = leaseExpired[d]
    BY <1>0, <2>1, <2>2, WriteTypes DEF ClearLease, TypeOK
  <2>5. ASSUME NEW v \in Workers, pc'[v] = "recovering" PROVE Recovery(v)' /\ v # w
    <3>1. v # w /\ Recovery(v) /\ pc[v] = "recovering" /\ job'[v] = job[v] /\ plan'[v] = plan[v]
      BY <1>0, <2>3, <2>5 DEF LockInv
    <3>2. job[v] # job[w] /\ job[v] \in Deliveries
      BY <1>0, <1>a, <2>1, <3>1 DEF LockInv
    <3> QED
      BY <2>4, <3>1, <3>2 DEF Recovery, Stale, RecoveredStatus
  <2>6. ASSUME NEW u \in Workers, NEW v \in Workers,
               pc'[u] = "recovering", pc'[v] = "recovering", job'[u] = job'[v]
        PROVE  u = v
    BY <1>0, <2>3, <2>5, <2>6 DEF LockInv
  <2> QED
    BY <2>5, <2>6 DEF LockInv
<1>6. ASSUME NEW w \in Workers, NEW d \in Deliveries, Claim(w, d) PROVE LockInv'
  <2>1. /\ status[d] \in Claimable /\ UNCHANGED plan /\ pc'[w] = "claimed"
        /\ \A v \in Workers : v # w => pc'[v] = pc[v] /\ job'[v] = job[v]
        /\ \A e \in Deliveries : e # d =>
             status'[e] = status[e] /\ leaseToken'[e] = leaseToken[e] /\ leaseExpired'[e] = leaseExpired[e]
    BY <1>0, <1>6 DEF Claim, Goto, TypeOK
  <2>2. \A v \in Workers : pc[v] = "recovering" => job[v] # d
    BY <1>a, <2>1
  <2> QED
    BY <1>0, <1>a, <2>1, <2>2, LockKept
<1>7. ASSUME NEW w \in Workers, LoadStart(w) \/ Alert(w) \/ Crash(w) PROVE LockInv'
  <2>1. /\ UNCHANGED deliveryVars /\ pc'[w] # "recovering"
        /\ \A v \in Workers : v # w => pc'[v] = pc[v] /\ job'[v] = job[v] /\ plan'[v] = plan[v]
    BY <1>0, <1>7 DEF LoadStart, Alert, Crash, Release, Goto, Decide, TypeOK
  <2> QED
    BY <1>0, <2>1, LockKept
<1>8. ASSUME NEW w \in Workers, NEW answer \in {"accepted", "transient", "reject"},
             LoadFinish(w, answer)
      PROVE  LockInv'
  <2>1. /\ UNCHANGED deliveryVars /\ pc'[w] # "recovering"
        /\ \A v \in Workers : v # w => pc'[v] = pc[v] /\ job'[v] = job[v] /\ plan'[v] = plan[v]
    BY <1>0, <1>8 DEF LoadFinish, Release, Goto, Decide, TypeOK
  <2> QED
    BY <1>0, <2>1, LockKept
<1>9. ASSUME NEW w \in Workers, CommitStart(w) \/ CommitFinish(w) PROVE LockInv'
  <2>1. /\ ~Locked(job[w]) /\ pc'[w] # "recovering"
        /\ \A v \in Workers : v # w => pc'[v] = pc[v] /\ job'[v] = job[v] /\ plan'[v] = plan[v]
    BY <1>0, <1>9 DEF CommitStart, CommitFinish, Release, Goto, TypeOK
  <2>2. \A d \in Deliveries : d # job[w] =>
           status'[d] = status[d] /\ leaseToken'[d] = leaseToken[d] /\ leaseExpired'[d] = leaseExpired[d]
    BY <1>0, <1>9 DEF CommitStart, CommitFinish, WriteStatus, ClearLease, TypeOK
  <2>3. \A v \in Workers : pc[v] = "recovering" => job[v] # job[w]
    BY <1>a, <2>1
  <2> QED
    BY <1>0, <1>a, <2>1, <2>2, <2>3, LockKept
<1>10. ASSUME NEW w \in Workers, Heartbeat(w) PROVE LockInv'
  <2>1. /\ UNCHANGED <<status, leaseToken, slotVars>> /\ ~Locked(job[w])
        /\ \A d \in Deliveries : d # job[w] => leaseExpired'[d] = leaseExpired[d]
    BY <1>0, <1>10 DEF Heartbeat, TypeOK
  <2>2. \A v \in Workers : pc[v] = "recovering" => job[v] # job[w]
    BY <1>a, <2>1
  <2> QED
    BY <1>0, <1>a, <2>1, <2>2, LockKept
<1>11. ASSUME NEW d \in Deliveries, LeaseExpires(d) \/ BackoffElapses(d) PROVE LockInv'
  <2>1. /\ UNCHANGED <<status, leaseToken, slotVars>>
        /\ \A e \in Deliveries : leaseExpired[e] => leaseExpired'[e]
    BY <1>0, <1>11 DEF LeaseExpires, BackoffElapses, TypeOK
  <2> QED
    BY <1>0, <1>a, <2>1, LockKept
<1>12. ASSUME NEW a \in Assignments, NEW t \in AssignmentStatus, TransitionAssignment(a, t)
       PROVE  LockInv'
  BY <1>2, <1>12 DEF TransitionAssignment
<1>13. ASSUME NEW a \in Assignments, NEW b \in Assignments, ReplaceAssignment(a, b) PROVE LockInv'
  BY <1>2, <1>13 DEF ReplaceAssignment
<1>14. ASSUME NEW l \in Leads, LoadErase(l) PROVE LockInv'
  BY <1>2, <1>14 DEF LoadErase
<1>15. CASE UNCHANGED vars
  BY <1>2, <1>15 DEF vars
<1> QED
  BY <1>1, <1>3, <1>4, <1>5, <1>6, <1>7, <1>8, <1>9, <1>10, <1>11, <1>12, <1>13, <1>14,
     <1>15 DEF Next, OperatorStep, WorkerStep
----------------------------------------------------------------------------
(* The theorems.                                                           *)

\* The inductive invariant holds in every state.
THEOREM Inductive == Spec => []IndInv
<1>1. Init => IndInv
  <2> SUFFICES ASSUME Init PROVE IndInv
    OBVIOUS
  <2>1. TypeOK
    BY NoPlanTypes, DeliveryConstants DEF Init, TypeOK
  <2>2. \A d \in Deliveries : LeaseInv(d)
    BY DeliveryConstants DEF Init, LeaseInv, Works, Busy
  <2>3. \A w \in Workers : SlotInv(w)
    BY DEF Init, SlotInv
  <2>4. RowInv
    <3>1. \A d \in Deliveries : d[1] \in Leads
      BY DEF Deliveries
    <3> QED
      BY <3>1 DEF Init, RowInv
  <2>5. LockInv
    BY DEF Init, LockInv
  <2> QED
    BY <2>1, <2>2, <2>3, <2>4, <2>5 DEF IndInv
<1>2. IndInv /\ [Next]_vars => IndInv'
  BY TypeStep, RowStep, LeaseStep, LockStep DEF IndInv
<1> QED
  BY <1>1, <1>2, PTL DEF Spec

\* No two slots of run_lead_delivery_runtime call the provider for the same delivery,
\* unless a heartbeat came too late for one of them.
THEOREM SingleSender == Spec => []OneSender
<1>1. IndInv => OneSender
  <2> SUFFICES ASSUME IndInv, NEW v \in Workers, NEW w \in Workers,
                      pc[v] = "sending", pc[w] = "sending", job[v] = job[w],
                      job[v] \notin stalled
               PROVE  v = w
    BY DEF OneSender
  <2>1. job[v] \in Deliveries
    BY DEF IndInv, TypeOK
  <2> QED
    BY <2>1 DEF IndInv, LeaseInv, Works, Busy
<1> QED
  BY Inductive, <1>1, PTL

\* attempt_count is the number of routing_attempts on record, whatever transactions
\* of run_delivery_by_id interleave, and stays within maximum_delivery_attempts.
THEOREM AttemptsAccounted == Spec => []AttemptsCounted
<1>1. IndInv => AttemptsCounted
  <2> SUFFICES ASSUME IndInv PROVE AttemptsCounted
    OBVIOUS
  <2>1. ASSUME NEW d \in Deliveries PROVE attempts[d] = Cardinality(attemptLog[d])
    <3>1. attemptLog[d] = 1 .. attempts[d] /\ attempts[d] \in Nat
      BY DEF IndInv, RowInv, TypeOK
    <3>2. Cardinality(1 .. attempts[d]) = IF 1 > attempts[d] THEN 0 ELSE attempts[d] - 1 + 1
      BY <3>1, FS_Interval
    <3> QED
      BY <3>1, <3>2
  <2>2. \A d \in Deliveries : d \notin stalled => attempts[d] <= MaxAttempts
    BY DEF IndInv, LeaseInv
  <2> QED
    BY <2>1, <2>2 DEF AttemptsCounted, IndInv
<1> QED
  BY Inductive, <1>1, PTL

\* recover_stale_deliveries never makes a job claimable whose provider call may have
\* gone out, and no slot touches a job of unknown outcome again.
THEOREM NeverResent == Spec => UnknownNeverResent
<1> DEFINE Kept == \A d \in Deliveries \ stalled :
          /\ status[d] = "delivering" /\ status'[d] \in Claimable =>
                \E w \in Workers : pc[w] = "finishing" /\ job[w] = d
          /\ status[d] = "outcome_unknown" =>
                /\ status'[d] \in {"outcome_unknown", "cancelled"}
                /\ attemptLog'[d] = attemptLog[d]
<1>1. IndInv /\ [Next]_vars => [Kept]_vars
  <2> SUFFICES ASSUME IndInv, Next, NEW d \in Deliveries, d \notin stalled
               PROVE  /\ status[d] = "delivering" /\ status'[d] \in Claimable =>
                            \E w \in Workers : pc[w] = "finishing" /\ job[w] = d
                      /\ status[d] = "outcome_unknown" =>
                            /\ status'[d] \in {"outcome_unknown", "cancelled"}
                            /\ attemptLog'[d] = attemptLog[d]
    OBVIOUS
  <2>0. TypeOK /\ LeaseInv(d) /\ RowInv /\ \A w \in Workers : SlotInv(w)
    BY DEF IndInv
  <2> USE DEF deliveryVars, ghostVars
  <2>1. CASE status'[d] = status[d] /\ attemptLog'[d] = attemptLog[d]
    BY <2>1
  <2>2. ASSUME NEW l \in Leads, NEW spam \in BOOLEAN, SubmitLead(l, spam)
        PROVE  status[d] # "absent" => status'[d] = status[d] /\ attemptLog'[d] = attemptLog[d]
    <3>1. d[1] = l => status[d] = "absent"
      BY <2>0, <2>2 DEF RowInv, SubmitLead
    <3> QED
      BY <2>0, <2>2, <3>1 DEF SubmitLead, TypeOK
  <2>3. ASSUME NEW l \in Leads, CommitErase(l)
        PROVE  status'[d] \in {status[d], "cancelled"} /\ attemptLog'[d] = attemptLog[d]
    BY <2>0, <2>3 DEF CommitErase, TypeOK
  <2>4. ASSUME NEW w \in Workers, CommitRecover(w)
        PROVE  /\ attemptLog'[d] = attemptLog[d]
               /\ status[d] = "delivering" => status'[d] \in {"delivering", "outcome_unknown"}
               /\ status[d] = "outcome_unknown" => status'[d] = "outcome_unknown"
    <3>1. /\ job[w] \in Deliveries /\ status[job[w]] \in Active
          /\ plan[w].to = RecoveredStatus(status[job[w]])
      BY <2>0, <2>4 DEF CommitRecover, IndInv, LockInv, Recovery, Stale, TypeOK
    <3>2. attemptLog' = attemptLog /\ WriteStatus(w)
      BY <2>4 DEF CommitRecover
    <3> QED
      BY <2>0, <3>1, <3>2 DEF WriteStatus, RecoveredStatus, TypeOK
  <2>40. ASSUME NEW w \in Workers, NEW e \in Deliveries, LoadRecover(w, e)
         PROVE  status'[d] = status[d] /\ attemptLog'[d] = attemptLog[d]
    BY <2>40 DEF LoadRecover
  <2>5. ASSUME NEW w \in Workers, NEW e \in Deliveries, Claim(w, e)
        PROVE  /\ attemptLog'[d] = attemptLog[d]
               /\ status[d] \notin Claimable => status'[d] = status[d]
    BY <2>0, <2>5 DEF Claim, TypeOK
  <2>6. ASSUME NEW w \in Workers, CommitStart(w)
        PROVE  /\ status'[d] \in {status[d], "delivering"}
               /\ status[d] = "outcome_unknown" => /\ status'[d] = status[d]
                                                   /\ attemptLog'[d] = attemptLog[d]
    <3>1. /\ pc[w] = "starting" /\ job[w] \in Deliveries
          /\ plan[w].to = "delivering"
      BY <2>0, <2>6 DEF CommitStart, TypeOK, SlotInv
    <3>2. CASE job[w] # d
      BY <2>0, <2>6, <3>1, <3>2 DEF CommitStart, WriteStatus, TypeOK
    <3>3. CASE job[w] = d
      <4>1. status[d] \in {"leased", "cancelled"}
        BY <2>0, <3>1, <3>3 DEF LeaseInv, Works, Busy, Current
      <4> QED
        BY <2>0, <2>6, <3>1, <3>3, <4>1 DEF CommitStart, WriteStatus, TypeOK
    <3> QED
      BY <3>2, <3>3
  <2>7. ASSUME NEW w \in Workers, CommitFinish(w)
        PROVE  /\ attemptLog'[d] = attemptLog[d] /\ pc[w] = "finishing"
               /\ job[w] # d => status'[d] = status[d]
               /\ job[w] = d => status[d] # "outcome_unknown"
    <3>1. pc[w] = "finishing" /\ job[w] \in Deliveries
      BY <2>0, <2>7 DEF CommitFinish, TypeOK
    <3>2. job[w] = d => status[d] # "outcome_unknown"
      BY <2>0, <3>1 DEF LeaseInv, Works, Busy, Current
    <3> QED
      BY <2>0, <2>7, <3>1, <3>2 DEF CommitFinish, WriteStatus, TypeOK
  <2>8. ASSUME NEW w \in Workers, LoadStart(w) \/ Alert(w) \/ Heartbeat(w) \/ Crash(w)
        PROVE  status'[d] = status[d] /\ attemptLog'[d] = attemptLog[d]
    BY <2>8 DEF LoadStart, Alert, Heartbeat, Crash
  <2>9. ASSUME NEW w \in Workers, NEW answer \in {"accepted", "transient", "reject"},
               LoadFinish(w, answer)
        PROVE  status'[d] = status[d] /\ attemptLog'[d] = attemptLog[d]
    BY <2>9 DEF LoadFinish
  <2>10. ASSUME NEW e \in Deliveries, LeaseExpires(e) \/ BackoffElapses(e)
         PROVE  status'[d] = status[d] /\ attemptLog'[d] = attemptLog[d]
    BY <2>10 DEF LeaseExpires, BackoffElapses
  <2>11. ASSUME NEW l \in Leads, LoadErase(l)
         PROVE  status'[d] = status[d] /\ attemptLog'[d] = attemptLog[d]
    BY <2>11 DEF LoadErase
  <2>12. ASSUME NEW a \in Assignments, NEW t \in AssignmentStatus, TransitionAssignment(a, t)
         PROVE  status'[d] = status[d] /\ attemptLog'[d] = attemptLog[d]
    BY <2>12 DEF TransitionAssignment
  <2>13. ASSUME NEW a \in Assignments, NEW b \in Assignments, ReplaceAssignment(a, b)
         PROVE  status'[d] = status[d] /\ attemptLog'[d] = attemptLog[d]
    BY <2>13 DEF ReplaceAssignment
  <2> QED
    BY <2>2, <2>3, <2>4, <2>40, <2>5, <2>6, <2>7, <2>8, <2>9, <2>10, <2>11, <2>12, <2>13
       DEF Next, OperatorStep, WorkerStep
<1> QED
  BY Inductive, <1>1, PTL DEF Spec, UnknownNeverResent

\* Once LeadPrivacyService has erased a lead, no slot begins another provider call for
\* it, except for an attempt that run_delivery_by_id had decided on before.
THEOREM ErasureStopsRetries == Spec => ErasedNeverRetried
<1> DEFINE Kept == \A l \in Leads : \A c \in Channels :
          erased[l] /\ attemptLog'[<<l, c>>] # attemptLog[<<l, c>>] =>
             \E w \in Workers : pc[w] = "starting" /\ job[w] = <<l, c>>
                                /\ plan[w].leadFrom # "deleted"
<1>1. IndInv /\ [Next]_vars => [Kept]_vars
  <2> SUFFICES ASSUME IndInv, Next, NEW l \in Leads, NEW c \in Channels,
                      attemptLog'[<<l, c>>] # attemptLog[<<l, c>>]
               PROVE  \E w \in Workers : pc[w] = "starting" /\ job[w] = <<l, c>>
                                         /\ plan[w].leadFrom # "deleted"
    OBVIOUS
  <2>1. PICK w \in Workers : CommitStart(w)
    <3>1. UNCHANGED attemptLog \/ \E w \in Workers : CommitStart(w)
      BY DEF Next, OperatorStep, WorkerStep, SubmitLead, TransitionAssignment, ReplaceAssignment,
         LoadErase, CommitErase, LoadRecover, CommitRecover, Claim, LoadStart, Heartbeat, LoadFinish,
         CommitFinish, Alert, Crash, LeaseExpires, BackoffElapses, deliveryVars
    <3> QED
      BY <3>1
  <2>2. pc[w] = "starting" /\ job[w] = <<l, c>>
    <3>1. <<l, c>> \in Deliveries
      BY DEF Deliveries
    <3> QED
      BY <2>1, <3>1 DEF CommitStart, IndInv, TypeOK
  <2> QED
    BY <2>2 DEF IndInv, SlotInv
<1> QED
  BY Inductive, <1>1, PTL DEF Spec, ErasedNeverRetried
----------------------------------------------------------------------------
(* The status of a lead.                                                   *)

Statuses(l) == [c \in Channels |-> status[<<l, c>>]]

\* The status of a lead that is not misjudged is the one its deliveries call for ...
Right(l) ==
    l \notin misjudged /\ ~erased[l] /\ (\E c \in Channels : status[<<l, c>>] # "absent") =>
        lead[l] = Refreshed(Statuses(l))

\* ... and what a slot has decided still fits them, until another slot overtakes it.
Fits(w) ==
    pc[w] \in {"finishing", "recovering"} /\ w \notin overtaken /\ ~erased[job[w][1]] =>
        /\ plan[w].leadFrom = lead[job[w][1]]
        /\ plan[w].leadTo = Refreshed(Seen(job[w], plan[w].to))

ReflectInv == (\A l \in Leads : Right(l)) /\ (\A w \in Workers : Fits(w))

\* _refresh_lead_state: a lead with an open delivery is being routed.
LEMMA RefreshedOpen ==
  ASSUME NEW seen, NEW c \in DOMAIN seen, seen[c] \in Nonterminal
  PROVE  Refreshed(seen) = "routing"
BY DEF Refreshed

\* A delivery is a lead and a channel.
LEMMA Pairs ==
  /\ \A d \in Deliveries : d[1] \in Leads /\ d[2] \in Channels /\ d = <<d[1], d[2]>>
  /\ \A l \in Leads, c \in Channels : <<l, c>> \in Deliveries /\ <<l, c>>[1] = l /\ <<l, c>>[2] = c
BY DEF Deliveries

\* A step that leaves the rows of a lead alone keeps its status right.
LEMMA RightKept ==
  ASSUME NEW l \in Leads, Right(l), lead'[l] = lead[l], erased[l] => erased'[l],
         l \in misjudged => l \in misjudged',
         \A c \in Channels : status'[<<l, c>>] = status[<<l, c>>]
  PROVE  Right(l)'
<1>1. Statuses(l)' = Statuses(l)
  BY DEF Statuses
<1> QED
  BY <1>1 DEF Right

\* What a slot has decided still fits after a step that leaves the slot, the lead and
\* the lead's other deliveries alone.
LEMMA FitsKept ==
  ASSUME NEW w \in Workers, Fits(w),
         pc'[w] = pc[w], job'[w] = job[w], plan'[w] = plan[w],
         lead'[job[w][1]] = lead[job[w][1]], erased[job[w][1]] => erased'[job[w][1]],
         w \in overtaken => w \in overtaken',
         \A c \in Channels \ {job[w][2]} : status'[<<job[w][1], c>>] = status[<<job[w][1], c>>]
  PROVE  Fits(w)'
<1>1. Seen(job[w], plan[w].to)' = Seen(job[w], plan[w].to)
  BY DEF Seen
<1> QED
  BY <1>1 DEF Fits

\* It still fits when an open delivery of the lead stays open.
LEMMA FitsOpen ==
  ASSUME TypeOK, NEW w \in Workers, Fits(w), pc[w] # "idle",
         pc'[w] = pc[w], job'[w] = job[w], plan'[w] = plan[w],
         lead' = lead, erased' = erased, w \in overtaken => w \in overtaken',
         NEW d \in Deliveries, status[d] \in Nonterminal, status'[d] \in Nonterminal,
         \A e \in Deliveries : e # d => status'[e] = status[e]
  PROVE  Fits(w)'
<1>1. job[w] \in Deliveries /\ job[w][1] \in Leads /\ job[w][2] \in Channels
  BY Pairs DEF TypeOK
<1>2. CASE job[w][1] # d[1] \/ job[w] = d
  <2>1. \A c \in Channels \ {job[w][2]} : <<job[w][1], c>> \in Deliveries /\ <<job[w][1], c>> # d
    BY <1>1, <1>2, Pairs
  <2> QED
    BY <2>1, FitsKept
<1>3. CASE job[w][1] = d[1] /\ job[w] # d
  <2> DEFINE l == job[w][1]
             now == Seen(job[w], plan[w].to)
             next == Seen(job[w], plan[w].to)'
  <2>1. d[2] \in Channels /\ d[2] # job[w][2] /\ d = <<l, d[2]>>
    BY <1>1, <1>3, Pairs
  <2>2. d[2] \in DOMAIN now /\ now[d[2]] = status[d]
    BY <2>1 DEF Seen
  <2>3. d[2] \in DOMAIN next /\ next[d[2]] = status'[d]
    BY <2>1 DEF Seen
  <2> HIDE DEF now, next
  <2>4. Refreshed(now) = "routing" /\ Refreshed(next) = "routing"
    BY <2>2, <2>3, RefreshedOpen
  <2> QED
    BY <2>4 DEF Fits, now, next
<1> QED
  BY <1>2, <1>3

\* A lead with an open delivery stays right while the delivery stays open.
LEMMA RightOpen ==
  ASSUME NEW d \in Deliveries, Right(d[1]), lead' = lead, erased' = erased, misjudged' = misjudged,
         status[d] \in Nonterminal, status'[d] \in Nonterminal
  PROVE  Right(d[1])'
<1> DEFINE now == Statuses(d[1])
           next == Statuses(d[1])'
<1>1. d[2] \in Channels /\ d = <<d[1], d[2]>>
  BY Pairs
<1>2. d[2] \in DOMAIN now /\ now[d[2]] = status[d] /\ status[<<d[1], d[2]>>] # "absent"
  BY <1>1 DEF Statuses
<1>3. d[2] \in DOMAIN next /\ next[d[2]] = status'[d]
  BY <1>1 DEF Statuses
<1> HIDE DEF now, next
<1>4. Refreshed(now) = "routing" /\ Refreshed(next) = "routing"
  BY <1>2, <1>3, RefreshedOpen
<1> QED
  BY <1>1, <1>2, <1>4 DEF Right, now, next

\* The leads and slots a step does not touch.
LEMMA OthersKept ==
  ASSUME TypeOK, ReflectInv, NEW d \in Deliveries, NEW w \in Workers,
         \A l \in Leads : l # d[1] => lead'[l] = lead[l] /\ erased'[l] = erased[l],
         \A l \in Leads : l # d[1] /\ l \in misjudged => l \in misjudged',
         \A v \in Workers : v # w /\ v \in overtaken => v \in overtaken',
         \A e \in Deliveries : e[1] # d[1] => status'[e] = status[e],
         \A v \in Workers : v # w => pc'[v] = pc[v] /\ job'[v] = job[v] /\ plan'[v] = plan[v]
  PROVE  /\ \A l \in Leads : l # d[1] => Right(l)'
         /\ \A v \in Workers : v # w /\ pc[v] # "idle" /\ job[v][1] # d[1] => Fits(v)'
<1>1. ASSUME NEW l \in Leads, l # d[1] PROVE Right(l)'
  <2>1. \A c \in Channels : status'[<<l, c>>] = status[<<l, c>>]
    BY <1>1, Pairs
  <2>2. Right(l) /\ lead'[l] = lead[l] /\ erased'[l] = erased[l]
    BY <1>1 DEF ReflectInv
  <2> QED
    BY <1>1, <2>1, <2>2, RightKept
<1>2. ASSUME NEW v \in Workers, v # w, pc[v] # "idle", job[v][1] # d[1] PROVE Fits(v)'
  <2>1. job[v][1] \in Leads
    BY <1>2, Pairs DEF TypeOK
  <2>2. \A c \in Channels : status'[<<job[v][1], c>>] = status[<<job[v][1], c>>]
    BY <1>2, <2>1, Pairs
  <2>3. Fits(v) /\ lead'[job[v][1]] = lead[job[v][1]] /\ erased'[job[v][1]] = erased[job[v][1]]
    BY <1>2, <2>1 DEF ReflectInv
  <2> QED
    BY <1>2, <2>2, <2>3, FitsKept
<1> QED
  BY <1>1, <1>2

\* A step of slot w that leaves deliveries and leads alone.
LEMMA SlotOnly ==
  ASSUME TypeOK, ReflectInv, NEW w \in Workers,
         UNCHANGED <<lead, erased, status, misjudged>>,
         \A v \in Workers : v # w /\ v \in overtaken => v \in overtaken',
         \A v \in Workers : v # w => pc'[v] = pc[v] /\ job'[v] = job[v] /\ plan'[v] = plan[v],
         Fits(w)'
  PROVE  ReflectInv'
<1>1. ASSUME NEW l \in Leads PROVE Right(l)'
  <2>1. Right(l)
    BY DEF ReflectInv
  <2> QED
    BY <2>1, RightKept
<1>2. ASSUME NEW v \in Workers, v # w PROVE Fits(v)'
  <2>1. Fits(v)
    BY DEF ReflectInv
  <2> QED
    BY <1>2, <2>1, FitsKept
<1> QED
  BY <1>1, <1>2 DEF ReflectInv

\* Claim and CommitStart keep an open delivery open.
LEMMA StaysOpen ==
  ASSUME TypeOK, ReflectInv, NEW w \in Workers, NEW d \in Deliveries,
         UNCHANGED <<lead, erased, misjudged>>,
         status[d] \in Nonterminal, status'[d] \in Nonterminal,
         \A e \in Deliveries : e # d => status'[e] = status[e],
         pc'[w] \notin {"finishing", "recovering"},
         \A v \in Workers : v # w /\ v \in overtaken => v \in overtaken',
         \A v \in Workers : v # w => pc'[v] = pc[v] /\ job'[v] = job[v] /\ plan'[v] = plan[v]
  PROVE  ReflectInv'
<1>1. \A e \in Deliveries : e[1] # d[1] => status'[e] = status[e]
  OBVIOUS
<1>2. ASSUME NEW l \in Leads PROVE Right(l)'
  <2>1. CASE l = d[1]
    <3>1. Right(d[1])
      BY <2>1 DEF ReflectInv
    <3> QED
      BY <2>1, <3>1, RightOpen
  <2>2. CASE l # d[1]
    BY <1>1, <2>2, OthersKept
  <2> QED
    BY <2>1, <2>2
<1>3. ASSUME NEW v \in Workers PROVE Fits(v)'
  <2>1. CASE v = w
    BY <2>1 DEF Fits
  <2>2. CASE v # w /\ pc[v] = "idle"
    BY <2>2 DEF Fits
  <2>3. CASE v # w /\ pc[v] # "idle"
    <3>1. Fits(v)
      BY DEF ReflectInv
    <3> QED
      BY <2>3, <3>1, FitsOpen
  <2> QED
    BY <2>1, <2>2, <2>3
<1> QED
  BY <1>2, <1>3 DEF ReflectInv

\* CommitFinish and CommitRecover write what the slot has decided.
LEMMA CommitFits ==
  ASSUME TypeOK, ReflectInv, NEW w \in Workers, pc[w] \in {"finishing", "recovering"},
         plan[w].from \in Active, plan[w].to \notin Active, plan[w].to # "absent",
         WriteStatus(w), WriteLead(w), Overtake(w), Judge(w), UNCHANGED erased,
         pc'[w] \notin {"finishing", "recovering"},
         \A v \in Workers : v # w => pc'[v] = pc[v] /\ job'[v] = job[v] /\ plan'[v] = plan[v]
  PROVE  ReflectInv'
<1>0. PICK d \in Deliveries : d = job[w]
  BY DEF TypeOK
<1>1. /\ d[1] \in Leads /\ d[2] \in Channels
      /\ status' = [status EXCEPT ![d] = plan[w].to] /\ status \in [Deliveries -> DeliveryStatus]
  BY <1>0, Pairs DEF WriteStatus, TypeOK
<1>2. /\ status'[d] = plan[w].to
      /\ \A e \in Deliveries : e # d => status'[e] = status[e]
  BY <1>1
<1>3. \A l \in Leads : l # d[1] => lead'[l] = lead[l]
  BY <1>0, WriteTypes
<1>4. /\ misjudged' = IF w \in overtaken THEN misjudged \cup {d[1]} ELSE misjudged \ {d[1]}
      /\ overtaken' = IF {status[d], plan[w].to} \subseteq Nonterminal /\ lead' = lead
                      THEN overtaken \ {w} ELSE (overtaken \cup Deciding(d[1])) \ {w}
  BY <1>0 DEF Judge, Overtake
<1>5. /\ \A l \in Leads : l # d[1] /\ l \in misjudged => l \in misjudged'
      /\ \A v \in Workers : v # w /\ v \in overtaken => v \in overtaken'
  BY <1>4
<1>6. \A e \in Deliveries : e[1] # d[1] => status'[e] = status[e]
  BY <1>2
<1>7. /\ \A l \in Leads : l # d[1] => Right(l)'
      /\ \A v \in Workers : v # w /\ pc[v] # "idle" /\ job[v][1] # d[1] => Fits(v)'
  BY <1>3, <1>5, <1>6, OthersKept
<1>8. Right(d[1])'
  <2>1. CASE w \in overtaken \/ erased[d[1]]
    BY <1>4, <2>1 DEF Right
  <2>2. CASE w \notin overtaken /\ ~erased[d[1]]
    <3>1. plan[w].leadFrom = lead[d[1]] /\ plan[w].leadTo = Refreshed(Seen(d, plan[w].to))
      BY <1>0, <2>2 DEF ReflectInv, Fits
    <3>2. lead'[d[1]] = plan[w].leadTo
      BY <1>0, <1>1, <3>1 DEF WriteLead, TypeOK
    <3>3. Statuses(d[1])' = Seen(d, plan[w].to)
      <4>1. ASSUME NEW c \in Channels
            PROVE  status'[<<d[1], c>>] = IF c = d[2] THEN plan[w].to ELSE status[<<d[1], c>>]
        BY <1>1, <1>2, Pairs
      <4> QED
        BY <4>1 DEF Statuses, Seen
    <3> QED
      BY <3>1, <3>2, <3>3 DEF Right
  <2> QED
    BY <2>1, <2>2
<1>9. ASSUME NEW v \in Workers PROVE Fits(v)'
  <2>1. CASE v = w \/ pc[v] \notin {"finishing", "recovering"}
    BY <2>1 DEF Fits
  <2>2. CASE v # w /\ pc[v] \in {"finishing", "recovering"} /\ job[v][1] # d[1]
    BY <1>7, <2>2
  <2>3. CASE v # w /\ pc[v] \in {"finishing", "recovering"} /\ job[v][1] = d[1]
    <3>1. CASE {status[d], plan[w].to} \subseteq Nonterminal /\ lead' = lead
      <4>1. Fits(v) /\ pc[v] # "idle"
        BY <2>3 DEF ReflectInv
      <4>2. status[d] \in Nonterminal /\ status'[d] \in Nonterminal
        BY <1>2, <3>1
      <4> QED
        BY <1>2, <1>5, <2>3, <3>1, <4>1, <4>2, FitsOpen
    <3>2. CASE ~({status[d], plan[w].to} \subseteq Nonterminal /\ lead' = lead)
      <4>1. v \in overtaken'
        BY <1>4, <2>3, <3>2 DEF Deciding
      <4> QED
        BY <4>1 DEF Fits
    <3> QED
      BY <3>1, <3>2
  <2> QED
    BY <2>1, <2>2, <2>3
<1> QED
  BY <1>7, <1>8, <1>9 DEF ReflectInv

\* Every step keeps the leads right and the decisions that nothing has overtaken fitting.
LEMMA ReflectStep ==
  ASSUME IndInv, ReflectInv, [Next]_vars
  PROVE  ReflectInv'
<1>0. TypeOK /\ RowInv /\ LockInv /\ \A w \in Workers : SlotInv(w)
  BY DEF IndInv
<1> USE DEF deliveryVars, leadVars, slotVars, ghostVars
<1>a. \A w \in Workers : pc[w] # "idle" => job[w] \in Deliveries /\ job[w][1] \in Leads
                                          /\ lead[job[w][1]] # "absent"
  BY <1>0, Pairs DEF TypeOK, RowInv
<1>1. CASE UNCHANGED <<lead, erased, status, pc, job, plan, overtaken, misjudged>>
  <2>1. ASSUME NEW l \in Leads PROVE Right(l)'
    <3>1. Right(l)
      BY DEF ReflectInv
    <3> QED
      BY <1>1, <3>1, RightKept
  <2>2. ASSUME NEW w \in Workers PROVE Fits(w)'
    <3>1. Fits(w)
      BY DEF ReflectInv
    <3> QED
      BY <1>1, <3>1, FitsKept
  <2> QED
    BY <2>1, <2>2 DEF ReflectInv
<1>2. ASSUME NEW l \in Leads, NEW spam \in BOOLEAN, SubmitLead(l, spam) PROVE ReflectInv'
  <2> DEFINE active == {a \in Assignments : assignment[a] = "active"}
             channels == UNION {Destinations[a] : a \in active}
             routed == ~spam /\ channels # {}
  <2>1. /\ lead[l] = "absent" /\ UNCHANGED <<slotVars, erased, overtaken, misjudged>>
        /\ lead' = [lead EXCEPT ![l] = IF spam THEN "spam"
                                       ELSE IF routed THEN "routing" ELSE "delivery_failed"]
        /\ status' = [d \in Deliveries |->
                    IF routed /\ d[1] = l /\ d[2] \in channels THEN "pending" ELSE status[d]]
    BY <1>2 DEF SubmitLead
  <2>2. channels \subseteq Channels
    BY DeliveryConstants
  <2> HIDE DEF channels
  <2>3. /\ \A k \in Leads : k # l => lead'[k] = lead[k]
        /\ \A d \in Deliveries : d[1] # l => status'[d] = status[d]
    BY <1>0, <2>1 DEF TypeOK
  <2>4. ASSUME NEW k \in Leads, k # l PROVE Right(k)'
    <3>1. lead'[k] = lead[k] /\ \A c \in Channels : status'[<<k, c>>] = status[<<k, c>>]
      BY <2>3, <2>4, Pairs
    <3>2. Right(k)
      BY DEF ReflectInv
    <3> QED
      BY <2>1, <3>1, <3>2, RightKept
  <2>5. Right(l)'
    <3>1. CASE routed
      <4>1. PICK c \in channels : c \in Channels
        BY <2>2, <3>1
      <4>2. status'[<<l, c>>] = "pending"
        BY <2>1, <3>1, <4>1, Pairs
      <4>3. lead'[l] = "routing"
        BY <1>0, <2>1, <3>1 DEF TypeOK
      <4>4. c \in DOMAIN Statuses(l)' /\ Statuses(l)'[c] = "pending"
        BY <4>1, <4>2 DEF Statuses
      <4> HIDE DEF routed
      <4>5. Refreshed(Statuses(l)') = "routing"
        BY <4>4, RefreshedOpen
      <4> QED
        BY <4>3, <4>5 DEF Right
    <3>2. CASE ~routed
      <4>1. \A c \in Channels : status'[<<l, c>>] = status[<<l, c>>]
        BY <2>1, <3>2, Pairs
      <4>2. \A c \in Channels : status[<<l, c>>] = "absent"
        BY <1>0, <2>1, Pairs DEF RowInv
      <4> QED
        BY <4>1, <4>2 DEF Right
    <3> QED
      BY <3>1, <3>2
  <2>6. ASSUME NEW w \in Workers PROVE Fits(w)'
    <3>1. CASE pc[w] = "idle"
      BY <2>1, <3>1 DEF Fits
    <3>2. CASE pc[w] # "idle"
      <4>1. job[w][1] \in Leads /\ job[w][1] # l
        BY <1>a, <2>1, <3>2
      <4>2. \A c \in Channels : status'[<<job[w][1], c>>] = status[<<job[w][1], c>>]
        BY <2>3, <4>1, Pairs
      <4>3. Fits(w) /\ lead'[job[w][1]] = lead[job[w][1]]
        BY <2>3, <4>1 DEF ReflectInv
      <4> QED
        BY <2>1, <4>2, <4>3, FitsKept
    <3> QED
      BY <3>1, <3>2
  <2> QED
    BY <2>4, <2>5, <2>6 DEF ReflectInv
<1>3. ASSUME NEW l \in Leads, CommitErase(l) PROVE ReflectInv'
  <2>1. /\ UNCHANGED <<slotVars, overtaken, misjudged>> /\ erased'[l]
        /\ \A k \in Leads : k # l => lead'[k] = lead[k] /\ erased'[k] = erased[k]
        /\ \A d \in Deliveries : d[1] # l => status'[d] = status[d]
    BY <1>0, <1>3 DEF CommitErase, TypeOK
  <2>2. ASSUME NEW k \in Leads PROVE Right(k)'
    <3>1. CASE k = l
      BY <2>1, <3>1 DEF Right
    <3>2. CASE k # l
      <4>1. lead'[k] = lead[k] /\ \A c \in Channels : status'[<<k, c>>] = status[<<k, c>>]
        BY <2>1, <3>2, Pairs
      <4>2. Right(k) /\ erased'[k] = erased[k]
        BY <2>1, <3>2 DEF ReflectInv
      <4> QED
        BY <2>1, <4>1, <4>2, RightKept
    <3> QED
      BY <3>1, <3>2
  <2>3. ASSUME NEW w \in Workers PROVE Fits(w)'
    <3>1. CASE pc[w] = "idle" \/ job[w][1] = l
      BY <2>1, <3>1 DEF Fits
    <3>2. CASE pc[w] # "idle" /\ job[w][1] # l
      <4>1. job[w][1] \in Leads
        BY <1>a, <3>2
      <4>2. \A c \in Channels : status'[<<job[w][1], c>>] = status[<<job[w][1], c>>]
        BY <2>1, <3>2, <4>1, Pairs
      <4>3. Fits(w) /\ lead'[job[w][1]] = lead[job[w][1]] /\ erased'[job[w][1]] = erased[job[w][1]]
        BY <2>1, <3>2, <4>1 DEF ReflectInv
      <4> QED
        BY <2>1, <4>2, <4>3, FitsKept
    <3> QED
      BY <3>1, <3>2
  <2> QED
    BY <2>2, <2>3 DEF ReflectInv
<1>4. ASSUME NEW w \in Workers, NEW d \in Deliveries, LoadRecover(w, d) PROVE ReflectInv'
  <2> DEFINE s == RecoveredStatus(status[d])
             t == Refreshed(Seen(d, s))
  <2>1. /\ UNCHANGED <<lead, erased, status, overtaken, misjudged>> /\ job'[w] = d
        /\ plan'[w] = [from |-> status[d], to |-> s, attempt |-> attempts[d],
                       leadFrom |-> lead[d[1]], leadTo |-> t]
        /\ \A v \in Workers : v # w => pc'[v] = pc[v] /\ job'[v] = job[v] /\ plan'[v] = plan[v]
    BY <1>0, <1>4 DEF LoadRecover, Goto, TypeOK
  <2> HIDE DEF s
  <2>2. Refreshed(Seen(job[w], plan[w].to)') = t
    BY <2>1 DEF Seen
  <2> HIDE DEF t
  <2>3. Fits(w)'
    BY <2>1, <2>2 DEF Fits
  <2> QED
    BY <1>0, <2>1, <2>3, SlotOnly
<1>5. ASSUME NEW w \in Workers, CommitRecover(w) PROVE ReflectInv'
  <2>1. /\ pc[w] = "recovering" /\ WriteStatus(w) /\ WriteLead(w) /\ Release(w) /\ Overtake(w)
        /\ Judge(w) /\ UNCHANGED erased
    BY <1>5 DEF CommitRecover
  <2>2. plan[w].from \in Active /\ plan[w].to \in {"outcome_unknown", "retrying"}
    BY <1>0, <2>1 DEF LockInv, Recovery, Stale, RecoveredStatus
  <2>3. /\ pc'[w] = "idle"
        /\ \A v \in Workers : v # w => pc'[v] = pc[v] /\ job'[v] = job[v] /\ plan'[v] = plan[v]
    BY <1>0, <2>1, ReleaseTypes
  <2> QED
    BY <1>0, <2>1, <2>2, <2>3, CommitFits
<1>6. ASSUME NEW w \in Workers, NEW d \in Deliveries, Claim(w, d) PROVE ReflectInv'
  <2>1. /\ status[d] \in Claimable /\ status'[d] = "leased" /\ pc'[w] = "claimed"
        /\ UNCHANGED <<lead, erased, overtaken, misjudged, plan>>
        /\ \A e \in Deliveries : e # d => status'[e] = status[e]
        /\ \A v \in Workers : v # w => pc'[v] = pc[v] /\ job'[v] = job[v]
    BY <1>0, <1>6 DEF Claim, Goto, TypeOK
  <2> QED
    BY <1>0, <2>1, StaysOpen
<1>7. ASSUME NEW w \in Workers, LoadStart(w) PROVE ReflectInv'
  <2> DEFINE d == job[w]
             t == Refreshed(Seen(d, "failed"))
  <2>1. /\ pc[w] = "claimed" /\ UNCHANGED <<lead, erased, status, overtaken, misjudged>>
        /\ \A v \in Workers : v # w => pc'[v] = pc[v] /\ job'[v] = job[v] /\ plan'[v] = plan[v]
    BY <1>0, <1>7 DEF LoadStart, Release, Goto, Decide, TypeOK
  <2>2. CASE pc'[w] # "finishing"
    <3>1. pc'[w] # "recovering"
      BY <1>0, <1>7 DEF LoadStart, Release, Goto, TypeOK
    <3>2. Fits(w)'
      BY <2>2, <3>1 DEF Fits
    <3> QED
      BY <1>0, <2>1, <3>2, SlotOnly
  <2>3. CASE pc'[w] = "finishing"
    <3>1. /\ job' = job
          /\ plan'[w] = [from |-> status[d], to |-> "failed", attempt |-> attempts[d],
                         leadFrom |-> lead[d[1]], leadTo |-> t]
      BY <1>0, <1>7, <2>3 DEF LoadStart, Release, Goto, Decide, TypeOK
    <3>2. Refreshed(Seen(job[w], plan[w].to)') = t
      BY <2>1, <3>1 DEF Seen
    <3> HIDE DEF t
    <3>3. Fits(w)'
      BY <2>1, <3>1, <3>2 DEF Fits
    <3> QED
      BY <1>0, <2>1, <3>3, SlotOnly
  <2> QED
    BY <2>2, <2>3
<1>8. ASSUME NEW w \in Workers, CommitStart(w) PROVE ReflectInv'
  <2>0. PICK d \in Deliveries : d = job[w]
    BY <1>0, <1>8 DEF CommitStart, TypeOK
  <2>1. /\ pc[w] = "starting" /\ UNCHANGED <<lead, erased>>
        /\ status[d] # "absent" /\ status[d] \in DeliveryStatus
        /\ plan[w].to = "delivering" /\ pc'[w] \notin {"finishing", "recovering"}
        /\ \A v \in Workers : v # w => pc'[v] = pc[v] /\ job'[v] = job[v] /\ plan'[v] = plan[v]
    BY <1>0, <1>8, <2>0 DEF CommitStart, Release, Goto, TypeOK, SlotInv
  <2>2. Fits(w)'
    BY <2>1 DEF Fits
  <2>3. CASE DuplicateAttempt(w)
    <3>1. UNCHANGED <<status, overtaken, misjudged>>
      BY <1>8, <2>3 DEF CommitStart
    <3> QED
      BY <1>0, <2>1, <2>2, <3>1, SlotOnly
  <2>4. CASE ~DuplicateAttempt(w)
    <3>1. /\ WriteStatus(w) /\ Overtake(w)
          /\ misjudged' = IF status[d] \in Terminal THEN misjudged \cup {d[1]} ELSE misjudged
      BY <1>8, <2>0, <2>4 DEF CommitStart
    <3>2. /\ \A e \in Deliveries : e # d => status'[e] = status[e]
          /\ status'[d] \in {status[d], "delivering"}
      BY <1>0, <2>0, <2>1, <3>1 DEF WriteStatus, TypeOK
    <3>3. /\ \A v \in Workers : v # w /\ v \in overtaken => v \in overtaken'
          /\ status[d] \in Terminal =>
                \A v \in Deciding(d[1]) : v # w => v \in overtaken'
      BY <2>0, <3>1 DEF Overtake
    <3>4. CASE status[d] \in Nonterminal
      <4>1. status'[d] \in Nonterminal /\ UNCHANGED misjudged
        BY <3>1, <3>2, <3>4
      <4> QED
        BY <1>0, <2>1, <3>2, <3>3, <3>4, <4>1, StaysOpen
    <3>5. CASE status[d] \in Terminal
      <4>1. d[1] \in misjudged' /\ misjudged \subseteq misjudged'
        BY <3>1, <3>5
      <4>2. \A e \in Deliveries : e[1] # d[1] => status'[e] = status[e]
        BY <3>2
      <4>3. /\ \A l \in Leads : l # d[1] => Right(l)'
            /\ \A v \in Workers : v # w /\ pc[v] # "idle" /\ job[v][1] # d[1] => Fits(v)'
        BY <1>0, <2>1, <3>3, <4>1, <4>2, OthersKept
      <4>4. Right(d[1])'
        BY <4>1 DEF Right
      <4>5. ASSUME NEW v \in Workers PROVE Fits(v)'
        <5>1. CASE v = w
          BY <2>2, <5>1
        <5>2. CASE v # w /\ pc[v] \notin {"finishing", "recovering"}
          BY <2>1, <5>2 DEF Fits
        <5>3. CASE v # w /\ pc[v] \in {"finishing", "recovering"} /\ job[v][1] # d[1]
          BY <4>3, <5>3
        <5>4. CASE v # w /\ pc[v] \in {"finishing", "recovering"} /\ job[v][1] = d[1]
          <6>1. v \in overtaken'
            BY <3>3, <3>5, <5>4 DEF Deciding
          <6> QED
            BY <6>1 DEF Fits
        <5> QED
          BY <5>1, <5>2, <5>3, <5>4
      <4> QED
        BY <4>3, <4>4, <4>5 DEF ReflectInv
    <3> QED
      BY <2>1, <3>4, <3>5
  <2> QED
    BY <2>3, <2>4
<1>9. ASSUME NEW w \in Workers, NEW answer \in {"accepted", "transient", "reject"},
             LoadFinish(w, answer)
      PROVE  ReflectInv'
  <2> DEFINE d == job[w]
             s == AnswerStatus(answer, attempts[d])
             t == Refreshed(Seen(d, s))
  <2>1. /\ pc[w] = "sending" /\ UNCHANGED <<lead, erased, status, overtaken, misjudged>>
        /\ \A v \in Workers : v # w => pc'[v] = pc[v] /\ job'[v] = job[v] /\ plan'[v] = plan[v]
    BY <1>0, <1>9 DEF LoadFinish, Release, Goto, Decide, TypeOK
  <2>2. CASE ~Owns(w)
    <3>1. pc'[w] = "idle"
      BY <1>0, <1>9, <2>2, ReleaseTypes DEF LoadFinish
    <3>2. Fits(w)'
      BY <3>1 DEF Fits
    <3> QED
      BY <1>0, <2>1, <3>2, SlotOnly
  <2>3. CASE Owns(w)
    <3>1. /\ job' = job
          /\ plan'[w] = [from |-> status[d], to |-> s, attempt |-> attempts[d],
                         leadFrom |-> lead[d[1]], leadTo |-> t]
      BY <1>0, <1>9, <2>3 DEF LoadFinish, Decide, TypeOK
    <3> HIDE DEF s
    <3>2. Refreshed(Seen(job[w], plan[w].to)') = t
      BY <2>1, <3>1 DEF Seen
    <3> HIDE DEF t
    <3>3. Fits(w)'
      BY <2>1, <3>1, <3>2 DEF Fits
    <3> QED
      BY <1>0, <2>1, <3>3, SlotOnly
  <2> QED
    BY <2>2, <2>3
<1>10. ASSUME NEW w \in Workers, CommitFinish(w) PROVE ReflectInv'
  <2>1. /\ pc[w] = "finishing" /\ WriteStatus(w) /\ WriteLead(w) /\ Overtake(w)
        /\ Judge(w) /\ UNCHANGED erased
    BY <1>10 DEF CommitFinish
  <2>2. plan[w].from \in Active /\ plan[w].to \in {"delivered", "failed", "retrying"}
    BY <1>0, <2>1 DEF SlotInv
  <2>3. /\ pc'[w] \notin {"finishing", "recovering"}
        /\ \A v \in Workers : v # w => pc'[v] = pc[v] /\ job'[v] = job[v] /\ plan'[v] = plan[v]
    BY <1>0, <1>10 DEF CommitFinish, Release, Goto, TypeOK
  <2> QED
    BY <1>0, <2>1, <2>2, <2>3, CommitFits
<1>11. ASSUME NEW w \in Workers, Alert(w) \/ Crash(w) PROVE ReflectInv'
  <2>1. /\ Release(w) /\ UNCHANGED <<lead, erased, status, misjudged>>
        /\ \A v \in Workers : v # w /\ v \in overtaken => v \in overtaken'
    BY <1>11 DEF Alert, Crash
  <2>2. /\ pc'[w] = "idle"
        /\ \A v \in Workers : v # w => pc'[v] = pc[v] /\ job'[v] = job[v] /\ plan'[v] = plan[v]
    BY <1>0, <2>1, ReleaseTypes
  <2>3. Fits(w)'
    BY <2>2 DEF Fits
  <2> QED
    BY <1>0, <2>1, <2>2, <2>3, SlotOnly
<1>12. ASSUME NEW w \in Workers, Heartbeat(w) PROVE ReflectInv'
  BY <1>1, <1>12 DEF Heartbeat
<1>13. ASSUME NEW d \in Deliveries, LeaseExpires(d) \/ BackoffElapses(d) PROVE ReflectInv'
  BY <1>1, <1>13 DEF LeaseExpires, BackoffElapses
<1>14. ASSUME NEW a \in Assignments, NEW t \in AssignmentStatus, TransitionAssignment(a, t)
       PROVE  ReflectInv'
  BY <1>1, <1>14 DEF TransitionAssignment
<1>15. ASSUME NEW a \in Assignments, NEW b \in Assignments, ReplaceAssignment(a, b)
       PROVE  ReflectInv'
  BY <1>1, <1>15 DEF ReplaceAssignment
<1>16. ASSUME NEW l \in Leads, LoadErase(l) PROVE ReflectInv'
  BY <1>1, <1>16 DEF LoadErase
<1>17. CASE UNCHANGED vars
  BY <1>1, <1>17 DEF vars
<1> QED
  BY <1>2, <1>3, <1>4, <1>5, <1>6, <1>7, <1>8, <1>9, <1>10, <1>11, <1>12, <1>13, <1>14,
     <1>15, <1>16, <1>17 DEF Next, OperatorStep, WorkerStep

\* Whatever number of slots work on a lead, _refresh_lead_state and the recovery of stale
\* jobs keep its status in step with its deliveries, through crashes, late heartbeats and
\* racing decisions, until the lead is erased; it can be wrong only after a decision
\* that another commit had overtaken, or a closed job that was opened again, and only
\* until the next refresh that nothing overtakes.
THEOREM LeadStatusRight == Spec => []LeadReflectsDeliveries
<1>1. Init => ReflectInv
  <2> SUFFICES ASSUME Init PROVE ReflectInv
    OBVIOUS
  <2>1. \A l \in Leads : Right(l)
    BY Pairs DEF Init, Right
  <2>2. \A w \in Workers : Fits(w)
    BY DEF Init, Fits
  <2> QED
    BY <2>1, <2>2 DEF ReflectInv
<1>2. IndInv /\ ReflectInv /\ [Next]_vars => ReflectInv'
  BY ReflectStep
<1>3. ReflectInv => LeadReflectsDeliveries
  BY DEF ReflectInv, Right, LeadReflectsDeliveries, Statuses
<1> QED
  BY Inductive, <1>1, <1>2, <1>3, PTL DEF Spec
=============================================================================
