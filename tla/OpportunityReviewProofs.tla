----------------------- MODULE OpportunityReviewProofs -----------------------
(***************************************************************************)
(* Proofs about OpportunityReview, for any opportunities, batches,         *)
(* requests, budgets and bounds: the audit log is one chain of             *)
(* transactions, and as long as no two requests about an opportunity       *)
(* overlap, its approval rests on complete evidence and reviews queue no   *)
(* second scan of it; as long as none about a batch overlap, the           *)
(* scans queued for it cost no more than was confirmed.                    *)
(***************************************************************************)
EXTENDS OpportunityReview, FiniteSetTheorems, SequenceTheorems, TLAPS
----------------------------------------------------------------------------
(* The inductive invariant.                                                *)

\* A request between the read of the chain's head and its commit holds the lock,
\* and the head it has read is still the newest event.
HeadInv ==
    \A r \in Requests : req[r] # None /\ req[r].at = "entered" =>
        lock = r /\ req[r].head = Len(audit)

\* What _queue_scan plans beside its scan: at most a move to testing_planned.
Direct(p) ==
    /\ p.batch = None /\ p.rescore = None
    /\ \A o \in DOMAIN p.moves : p.moves[o].to = "testing_planned"

\* A row that a plan writes is there, and a score is recorded for a scan that is.
PlanInv ==
    \A r \in Requests : req[r] # None =>
        /\ req[r].batch # None => req[r].row \in BatchRow
        /\ req[r].queue # {} => req[r].profile \in {"testing", "full"}
        /\ req[r].rescore # None => req[r].rescore.scan \in DOMAIN scans
        /\ req[r].at = "queueing" => Direct(req[r])

\* The handler of a synchronous scan is running it.
Manual(i) == scans[i].status = "running" /\ scans[i].manual # None
\* A scan that is queued or runs.
Active(i) == scans[i].status \in {"queued", "running"}

\* Queued scans and those a worker is about to end are the workers', and the
\* pipeline's copy shows the state the start of the scan has written.
CopyInv ==
    \A i \in DOMAIN scans :
        /\ scans[i].status = "queued" => scans[i].manual = None
        /\ scans[i].held => scans[i].manual = None
        /\ scans[i].status = "running" =>
              /\ scans[i].copy \in OpportunityRow
              /\ scans[i].copy.status = RunningState(scans[i].profile)

\* One request at a time is about x, unless x is contested.
Sole(x) ==
    /\ \A r, q \in Requests :
          /\ req[r] # None /\ x \in Subjects(req[r])
          /\ req[q] # None /\ x \in Subjects(req[q])
          => r = q
    /\ \A r \in Requests, i \in DOMAIN scans :
          req[r] # None /\ x \in Subjects(req[r]) /\ Manual(i) => scans[i].opp # x
SoleInv == \A x \in (Opps \cup Batches) \ contested : Sole(x)

\* A plan to approve o, and a plan to record that its evidence is not complete.
Approves(p, o) ==
    /\ o \in DOMAIN p.moves
    /\ p.moves[o].to = "approved_for_property"
    /\ p.moves[o].from # "approved_for_property"
Lowers(p) == p.rescore # None /\ p.rescore.full /\ p.rescore.evidence # "complete"

\* What a plan to approve rests on still holds, and a plan that lowers the
\* evidence of an opportunity takes the approval with it.
ApprovalInv ==
    \A o \in Opps \ contested :
        /\ opp[o].status = "approved_for_property" => opp[o].approved /\ Complete(o)
        /\ \A r \in Requests : req[r] # None =>
              /\ Approves(req[r], o) => Complete(o) /\ req[r].rescore = None
              /\ Lowers(req[r]) /\ scans[req[r].rescore.scan].opp = o =>
                    \/ /\ o \in DOMAIN req[r].moves
                       /\ req[r].moves[o].to = "needs_more_evidence"
                       /\ req[r].moves[o].from # "needs_more_evidence"
                    \/ /\ o \notin DOMAIN req[r].moves
                       /\ opp[o].status # "approved_for_property"

\* A batch or a promotion is about to queue a scan of o.
Planned(r, o) == req[r] # None /\ req[r].at # "queueing" /\ o \in req[r].queue
\* No scan of o is active, and there is no newer one of a batch or a promotion
\* beside an active one.
Unclaimed(o) == \A i \in DOMAIN scans : Active(i) => scans[i].opp # o
Ordered(o) ==
    \A i, j \in DOMAIN scans :
        Active(i) /\ Active(j) /\ scans[i].opp = o /\ scans[j].opp = o /\ i < j
            => ~scans[j].reviewed
\* A plan of a batch or a promotion to queue a scan of o is made, and stays, while
\* none is active.
QueueInv ==
    \A o \in Opps \ (contested \cup revived) :
        Ordered(o) /\ \A r \in Requests : Planned(r, o) => Unclaimed(o)

\* A row of a batch: what is approved covers its items and is within its budget.
RowSound(row) ==
    /\ row.status # "planned" => row.approved # None
    /\ row.approved # None =>
          Estimate(row.items) <= row.approved /\ row.approved <= row.budget
\* A plan about a batch: it writes a sound row, queues items of the batch only
\* together with the status that says so, and no scan has been queued before.
BatchPlan(p) ==
    /\ RowSound(p.row)
    /\ p.queue \subseteq p.row.items
    /\ p.queue # {} => p.row.status = "queued"
    /\ \A i \in DOMAIN scans : scans[i].batch # p.batch

\* A batch that only one request at a time was about has scans once it is queued,
\* one of each of its items.
BatchInv ==
    \A b \in Batches \ contested :
        /\ batch[b] # None => RowSound(batch[b])
        /\ \A i \in DOMAIN scans : scans[i].batch = b =>
              batch[b] # None /\ batch[b].status = "queued" /\ scans[i].opp \in batch[b].items
        /\ \A i, j \in DOMAIN scans :
              scans[i].batch = b /\ scans[j].batch = b /\ scans[i].opp = scans[j].opp => i = j
        /\ \A r \in Requests : req[r] # None /\ req[r].batch = b => BatchPlan(req[r])

IndInv ==
    /\ TypeOK /\ HeadInv /\ AuditLinear /\ PlanInv /\ CopyInv
    /\ SoleInv /\ ApprovalInv /\ QueueInv /\ BatchInv
----------------------------------------------------------------------------
(* The plans requests make.                                                *)

\* What holds of a plan when its request has loaded its rows.
Sound(p) ==
    /\ p \in PlanRow /\ p.at \in {"loaded", "queueing"}
    /\ p.at = "queueing" => Direct(p)
    /\ p.batch # None => p.row \in BatchRow /\ (p.batch \notin contested => BatchPlan(p))
    /\ p.queue # {} => p.profile \in {"testing", "full"}
    /\ p.rescore # None => p.rescore.scan \in DOMAIN scans
    /\ \A o \in Opps :
          /\ Approves(p, o) => Complete(o) /\ p.rescore = None
          /\ Lowers(p) /\ scans[p.rescore.scan].opp = o =>
                \/ /\ o \in DOMAIN p.moves
                   /\ p.moves[o].to = "needs_more_evidence"
                   /\ p.moves[o].from # "needs_more_evidence"
                \/ /\ o \notin DOMAIN p.moves
                   /\ opp[o].status # "approved_for_property"
          /\ p.at = "loaded" /\ o \in p.queue => Unclaimed(o)

(* A move of each opportunity of a set: the shape of every reviewer's plan. *)
LEMMA MovesType ==
    ASSUME TypeOK, NEW S \in SUBSET Opps, NEW to \in OppStates,
           NEW m, m = [o \in S |-> Move(opp[o], to)],
           \A o \in DOMAIN m : m[o].version <= MaxVersion
    PROVE  m \in Moves
<1>1. ASSUME NEW o \in S PROVE Move(opp[o], to) \in MoveRow
  <2>1. opp[o].status \in OppStates /\ opp[o].version \in Nat
    BY DEF TypeOK, OpportunityRow
  <2>2. opp[o].version + 1 <= MaxVersion  BY DEF Move
  <2> QED  BY <2>1, <2>2, ReviewConstants DEF Move, MoveRow
<1>2. m \in [S -> MoveRow]  BY <1>1
<1> QED  BY <1>2 DEF Moves

(* The plan every plan is made from, and the plan that moves nothing.       *)
LEMMA NoPlanType == NoPlan \in PlanRow /\ NoMoves \in Moves
<1>1. NoMoves \in [{} -> MoveRow]
  BY DEF NoMoves
<1>2. NoMoves \in Moves  BY <1>1 DEF Moves
<1> QED  BY <1>2 DEF NoPlan, PlanRow

(* A review state is none of a running scan and never an approval, and a    *)
(* full scan whose evidence is not complete needs more of it.               *)
LEMMA ReviewStates ==
    ASSUME NEW profile \in {"testing", "full"}, NEW e \in {"complete", "partial", "fail"}
    PROVE  /\ ReviewState(profile, e)
                 \in {"needs_more_evidence", "preliminary_review", "full_review"}
           /\ profile = "full" /\ e # "complete" =>
                 ReviewState(profile, e) = "needs_more_evidence"
BY DEF ReviewState, OppStates

(* The fields of a plan.                                                    *)
LEMMA PlanFields ==
    ASSUME NEW p \in PlanRow
    PROVE  /\ p.at \in {"loaded", "entered", "scanning", "queueing"} /\ p.head \in Nat
           /\ p.events \in {1, 2}
           /\ p.owner \in BOOLEAN /\ p.override \in OverrideRow \cup {None}
           /\ p.batch \in Batches \cup {None} /\ p.row \in BatchRow \cup {None}
           /\ p.queue \in SUBSET Opps /\ p.profile \in {"testing", "full", None}
           /\ p.rescore \in Scores \cup {None}
           /\ DOMAIN p.moves \in SUBSET Opps
           /\ \A o \in DOMAIN p.moves :
                 p.moves[o] \in MoveRow
<1>1. p.moves \in Moves  BY DEF PlanRow
<1>2. PICK S \in SUBSET Opps :
        p.moves \in [S -> MoveRow]
  BY <1>1 DEF Moves
<1>3. DOMAIN p.moves = S
      /\ \A o \in S : p.moves[o] \in MoveRow
  BY <1>2
<1> QED  BY <1>3 DEF PlanRow

(* The fields of a row of scan_runs that the proofs use.                    *)
LEMMA ScanFields ==
    ASSUME NEW S \in Seq(ScanRow), NEW i \in DOMAIN S
    PROVE  /\ S[i] \in ScanRow
           /\ S[i].opp \in Opps /\ S[i].profile \in {"testing", "full"}
           /\ S[i].manual \in Requests \cup {None} /\ S[i].finished \in Nat
           /\ S[i].gate \in BOOLEAN /\ S[i].batch \in Batches \cup {None}
           /\ S[i].reviewed \in BOOLEAN /\ S[i].held \in BOOLEAN
<1>1. S[i] \in ScanRow  OBVIOUS
<1> QED  BY <1>1 DEF ScanRow

(* A transition loads a sound plan: an approval only of what is complete.   *)
LEMMA TransitionSound ==
    ASSUME IndInv, NEW r \in Requests, NEW o \in Opps, NEW to \in OppStates,
           NEW owner \in BOOLEAN, LoadTransition(r, o, to, owner)
    PROVE  \E p : Sound(p) /\ Load(r, p)
<1> DEFINE m == [x \in {o} |-> Move(opp[o], to)]
           p == [NoPlan EXCEPT !.moves = m, !.owner = owner]
<1>1. m = [x \in {o} |-> Move(opp[x], to)]  OBVIOUS
<1>2. Load(r, p) /\ (to = "approved_for_property" => Complete(o))
  BY DEF LoadTransition
<1>3. \A x \in DOMAIN m : m[x].version <= MaxVersion  BY <1>2 DEF Load, NoPlan
<1>4. m \in Moves /\ DOMAIN m = {o} /\ m[o].to = to
  <2>1. m \in Moves  BY <1>1, <1>3, MovesType DEF IndInv
  <2> QED  BY <2>1 DEF Move
<1> HIDE DEF m
<1>5. /\ p \in PlanRow /\ p.at = "loaded" /\ p.batch = None /\ p.queue = {}
      /\ p.rescore = None /\ p.moves = m
  BY <1>4, NoPlanType DEF NoPlan, PlanRow
<1> HIDE DEF p
<1>6. Sound(p)  BY <1>4, <1>2, <1>5 DEF Sound, Approves, Lowers
<1> QED  BY <1>2, <1>6

(* An owner is named without moving the opportunity.                        *)
LEMMA OwnerSound ==
    ASSUME IndInv, NEW r \in Requests, NEW o \in Opps, LoadOwner(r, o)
    PROVE  \E p : Sound(p) /\ Load(r, p)
<1> DEFINE m == [x \in {o} |-> Move(opp[o], opp[o].status)]
           p == [NoPlan EXCEPT !.moves = m, !.owner = TRUE]
<1>1. opp[o].status \in OppStates  BY DEF IndInv, TypeOK, OpportunityRow
<1>2. m = [x \in {o} |-> Move(opp[x], opp[o].status)]  OBVIOUS
<1>3. Load(r, p)  BY DEF LoadOwner
<1>4. \A x \in DOMAIN m : m[x].version <= MaxVersion  BY <1>3 DEF Load, NoPlan
<1>5. m \in Moves /\ DOMAIN m = {o} /\ m[o].to = m[o].from
  <2>1. m \in Moves  BY <1>1, <1>2, <1>4, MovesType DEF IndInv
  <2> QED  BY <2>1 DEF Move
<1> HIDE DEF m
<1>6. /\ p \in PlanRow /\ p.at = "loaded" /\ p.batch = None /\ p.queue = {}
      /\ p.rescore = None /\ p.moves = m
  BY <1>5, NoPlanType DEF NoPlan, PlanRow
<1> HIDE DEF p
<1>7. Sound(p)  BY <1>5, <1>6 DEF Sound, Approves, Lowers
<1> QED  BY <1>3, <1>7

(* Overrides move nothing.                                                  *)
LEMMA OverrideSound ==
    ASSUME IndInv, NEW r \in Requests,
           \/ \E t \in Targets : LoadApply(r, t)
           \/ \E i \in 1..MaxOverrides : LoadReverse(r, i)
    PROVE  \E p : Sound(p) /\ Load(r, p)
<1>1. PICK row \in OverrideRow : Load(r, [NoPlan EXCEPT !.override = row])
  <2>1. CASE \E t \in Targets : LoadApply(r, t)
    BY <2>1 DEF LoadApply, OverrideRow
  <2>2. ASSUME NEW i \in 1..MaxOverrides, LoadReverse(r, i)
        PROVE  \E row \in OverrideRow : Load(r, [NoPlan EXCEPT !.override = row])
    <3>1. i \in DOMAIN overrides  BY <2>2 DEF LoadReverse
    <3>2. overrides[i] \in OverrideRow /\ i \in Nat  BY <3>1 DEF IndInv, TypeOK
    <3>3. [target |-> overrides[i].target, reverses |-> i] \in OverrideRow
      BY <3>2 DEF OverrideRow
    <3> QED  BY <2>2, <3>3 DEF LoadReverse
  <2> QED  BY <2>1, <2>2
<1> DEFINE p == [NoPlan EXCEPT !.override = row]
<1>2. /\ p \in PlanRow /\ p.at = "loaded" /\ p.batch = None /\ p.queue = {}
      /\ p.rescore = None /\ p.moves = NoMoves
  BY NoPlanType DEF NoPlan, PlanRow
<1> HIDE DEF p
<1>3. Sound(p)  BY <1>2 DEF Sound, Approves, Lowers, NoMoves
<1> QED  BY <1>1, <1>3 DEF p

(* The table leads from review states to review states.                     *)
LEMMA TableType == \A s \in OppStates : AllowedTransitions[s] \subseteq OppStates
BY DEF AllowedTransitions, OppStates

(* A row of batch_scan_plans.                                               *)
LEMMA BatchFields ==
    ASSUME NEW row \in BatchRow
    PROVE  /\ row.profile \in {"testing", "full"} /\ row.items \in SUBSET Opps
           /\ row.budget \in Budgets /\ row.approved \in Budgets \cup {None}
           /\ \A amount \in Budgets :
                 LET new == [row EXCEPT !.status = "confirmed", !.approved = amount] IN
                 /\ new \in BatchRow /\ new.approved = amount
                 /\ new.items = row.items /\ new.budget = row.budget
           /\ LET new == [row EXCEPT !.status = "queued"] IN
              /\ new \in BatchRow /\ new.status = "queued" /\ new.approved = row.approved
              /\ new.items = row.items /\ new.budget = row.budget
BY DEF BatchRow

(* The plan of a batch moves its opportunities towards a scan, or nothing.  *)
LEMMA BatchPlanSound ==
    ASSUME IndInv, NEW r \in Requests, NEW b \in Batches, NEW row \in BatchRow,
           NEW m \in Moves, \A o \in DOMAIN m : m[o].to # "approved_for_property",
           RowSound(row), b \notin contested => \A i \in DOMAIN scans : scans[i].batch # b,
           Load(r, [NoPlan EXCEPT !.batch = b, !.row = row, !.moves = m])
    PROVE  \E p : Sound(p) /\ Load(r, p)
<1> DEFINE p == [NoPlan EXCEPT !.batch = b, !.row = row, !.moves = m]
<1>1. /\ p \in PlanRow /\ p.at = "loaded" /\ p.batch = b /\ p.row = row /\ p.queue = {}
      /\ p.rescore = None /\ p.moves = m
  BY NoPlanType DEF NoPlan, PlanRow
<1> HIDE DEF p
<1>2. Sound(p)  BY <1>1 DEF Sound, Approves, Lowers, BatchPlan
<1> QED  BY <1>2 DEF p

(* create_batch_plan plans testing scans, or moves nothing.                 *)
LEMMA CreateBatchSound ==
    ASSUME IndInv, NEW r \in Requests, NEW b \in Batches, NEW items \in SUBSET Opps,
           NEW profile \in {"testing", "full"}, NEW budget \in Budgets,
           LoadCreateBatch(r, b, items, profile, budget)
    PROVE  \E p : Sound(p) /\ Load(r, p)
<1> DEFINE row == [status |-> "planned", profile |-> profile, items |-> items,
                   budget |-> budget, approved |-> None]
           move == [o \in items |-> Move(opp[o], "testing_planned")]
           m == IF profile = "full" THEN NoMoves ELSE move
<1>1. Load(r, [NoPlan EXCEPT !.batch = b, !.row = row, !.moves = m])
  BY DEF LoadCreateBatch
<1>2. row \in BatchRow /\ RowSound(row)  BY DEF BatchRow, RowSound
<1>3. "testing_planned" \in OppStates  BY DEF OppStates
<1>4. profile # "full" => move \in Moves
  <2>1. profile # "full" => \A o \in DOMAIN move : move[o].version <= MaxVersion
    BY <1>1 DEF Load, NoPlan
  <2> QED  BY <1>3, <2>1, MovesType DEF IndInv
<1>5. \A o \in DOMAIN move : move[o].to = "testing_planned"  BY DEF Move
<1> HIDE DEF row, move
<1>6. m \in Moves /\ \A o \in DOMAIN m : m[o].to # "approved_for_property"
  BY <1>4, <1>5, NoPlanType DEF NoMoves
<1> HIDE DEF m
<1>7. b \notin contested => \A i \in DOMAIN scans : scans[i].batch # b
  BY DEF LoadCreateBatch, IndInv, BatchInv
<1> QED  BY <1>1, <1>2, <1>6, <1>7, BatchPlanSound

(* confirm_batch moves the opportunities of a full batch to a full scan.    *)
LEMMA ConfirmSound ==
    ASSUME IndInv, NEW r \in Requests, NEW b \in Batches, NEW amount \in Budgets,
           LoadConfirm(r, b, amount)
    PROVE  \E p : Sound(p) /\ Load(r, p)
<1>1. batch[b] \in BatchRow  BY DEF LoadConfirm, Confirmable, IndInv, TypeOK
<1> DEFINE items == batch[b].items
           row == [batch[b] EXCEPT !.status = "confirmed", !.approved = amount]
           move == [o \in items |-> Move(opp[o], "full_scan_approved")]
           m == IF batch[b].profile = "testing" THEN NoMoves ELSE move
<1>2. batch[b] # None  BY DEF LoadConfirm, Confirmable
<1>3. Load(r, [NoPlan EXCEPT !.batch = b, !.row = row, !.moves = m])
  BY <1>2 DEF LoadConfirm
<1>4. /\ row \in BatchRow /\ items \in SUBSET Opps /\ row.approved = amount
      /\ row.items = items /\ row.budget = batch[b].budget
  BY <1>1, BatchFields
<1>5. "full_scan_approved" \in OppStates  BY DEF OppStates
<1>6. batch[b].profile # "testing" => move \in Moves
  <2>1. batch[b].profile # "testing" => \A o \in DOMAIN move : move[o].version <= MaxVersion
    BY <1>3 DEF Load, NoPlan
  <2> QED  BY <1>4, <1>5, <2>1, MovesType DEF IndInv
<1>7. \A o \in DOMAIN move : move[o].to = "full_scan_approved"  BY DEF Move
<1> HIDE DEF row, move
<1>8. m \in Moves /\ \A o \in DOMAIN m : m[o].to # "approved_for_property"
  BY <1>6, <1>7, NoPlanType DEF NoMoves
<1> HIDE DEF m
<1>9. RowSound(row)
  <2>1. Estimate(items) <= amount /\ amount <= batch[b].budget
    BY DEF LoadConfirm, Confirmable
  <2>2. amount # None  BY ReviewConstants
  <2> QED  BY <1>4, <2>1, <2>2 DEF RowSound
<1>10. b \notin contested => \A i \in DOMAIN scans : scans[i].batch # b
  <2>1. batch[b].status = "planned"  BY DEF LoadConfirm, Confirmable
  <2> QED  BY <2>1 DEF IndInv, BatchInv
<1> QED  BY <1>3, <1>4, <1>8, <1>9, <1>10, BatchPlanSound

(* Free opportunities have no active scan.                                  *)
LEMMA FreeOfWork ==
    ASSUME NEW items, Free(items), NEW o \in items
    PROVE  Unclaimed(o)
BY DEF Free, ActiveScans, Active, Unclaimed

(* queue_batch queues scans of opportunities that have no active one.       *)
LEMMA QueueBatchSound ==
    ASSUME IndInv, NEW r \in Requests, NEW b \in Batches, LoadQueueBatch(r, b)
    PROVE  \E p : Sound(p) /\ Load(r, p)
<1>1. batch[b] \in BatchRow  BY DEF LoadQueueBatch, IndInv, TypeOK
<1> DEFINE row == [batch[b] EXCEPT !.status = "queued"]
           p == [NoPlan EXCEPT !.batch = b, !.row = row, !.queue = batch[b].items,
                               !.profile = batch[b].profile]
<1>2. Load(r, p) /\ Free(batch[b].items)  BY DEF LoadQueueBatch
<1>3. /\ row \in BatchRow /\ batch[b].items \in SUBSET Opps
      /\ batch[b].profile \in {"testing", "full"}
      /\ row.status = "queued" /\ row.approved = batch[b].approved
      /\ row.items = batch[b].items /\ row.budget = batch[b].budget
  BY <1>1, BatchFields
<1> HIDE DEF row
<1>4. /\ p \in PlanRow /\ p.at = "loaded" /\ p.batch = b /\ p.row = row /\ p.queue = batch[b].items
      /\ p.profile = batch[b].profile /\ p.rescore = None /\ p.moves = NoMoves
  BY <1>3, NoPlanType DEF NoPlan, PlanRow
<1> HIDE DEF p
<1>5. \A o \in p.queue : Unclaimed(o)
  BY <1>2, <1>4, FreeOfWork
<1>6. b \notin contested => BatchPlan(p)
  <2>1. batch[b] # None /\ batch[b].status = "confirmed"  BY DEF LoadQueueBatch
  <2>2. b \notin contested =>
          RowSound(batch[b]) /\ \A i \in DOMAIN scans : scans[i].batch # b
    BY <2>1 DEF IndInv, BatchInv
  <2> QED  BY <1>3, <1>4, <2>1, <2>2 DEF BatchPlan, RowSound
<1>7. Sound(p)  BY <1>3, <1>4, <1>5, <1>6 DEF Sound, Approves, Lowers, NoMoves
<1> QED  BY <1>2, <1>7

(* A promotion queues a full scan of an opportunity without a scan.         *)
LEMMA PromoteSound ==
    ASSUME IndInv, NEW r \in Requests, NEW o \in Opps, LoadPromote(r, o)
    PROVE  \E p : Sound(p) /\ Load(r, p)
<1> DEFINE m == [x \in {o} |-> Move(opp[o], "full_scan_approved")]
           p == [NoPlan EXCEPT !.moves = m, !.queue = {o}, !.profile = "full"]
<1>1. m = [x \in {o} |-> Move(opp[x], "full_scan_approved")]  OBVIOUS
<1>2. Load(r, p) /\ Free({o})  BY DEF LoadPromote
<1>3. \A x \in DOMAIN m : m[x].version <= MaxVersion  BY <1>2 DEF Load, NoPlan
<1>4. m \in Moves /\ DOMAIN m = {o} /\ m[o].to = "full_scan_approved"
  <2>1. "full_scan_approved" \in OppStates  BY DEF OppStates
  <2>2. m \in Moves  BY <1>1, <1>3, <2>1, MovesType DEF IndInv
  <2> QED  BY <2>2 DEF Move
<1> HIDE DEF m
<1>5. /\ p \in PlanRow /\ p.at = "loaded" /\ p.batch = None /\ p.queue = {o}
      /\ p.profile = "full" /\ p.rescore = None /\ p.moves = m
  BY <1>4, NoPlanType DEF NoPlan, PlanRow
<1> HIDE DEF p
<1>6. \A x \in p.queue : Unclaimed(x)
  BY <1>2, <1>5, FreeOfWork
<1>7. Sound(p)  BY <1>4, <1>5, <1>6 DEF Sound, Approves, Lowers
<1> QED  BY <1>2, <1>7

(* A rescore that lowers the evidence moves the opportunity with it, or     *)
(* finds it where missing evidence leaves it.                               *)
LEMMA RescoreSound ==
    ASSUME IndInv, NEW r \in Requests, NEW o \in Opps,
           NEW e \in {"complete", "partial", "fail"}, LoadRescore(r, o, e)
    PROVE  \E p : Sound(p) /\ Load(r, p)
<1>1. PICK stored \in Newest(Completed(o, "testing") \cup Completed(o, "full")),
           newest \in Last({k \in DOMAIN scans : scans[k].opp = o}) :
        LET profile == scans[stored].profile
            to == ReviewState(profile, e)
            moves == opp[o].status # "approved_for_property" \/ to = "needs_more_evidence"
        IN  Load(r, [NoPlan EXCEPT
                    !.rescore = [scan |-> newest, full |-> profile = "full", evidence |-> e],
                    !.moves = IF moves /\ to # opp[o].status
                              THEN [x \in {o} |-> Move(opp[o], to)] ELSE NoMoves])
  BY DEF LoadRescore
<1>2. newest \in DOMAIN scans /\ newest \in Nat /\ scans[newest].opp = o
  BY DEF Last, IndInv, TypeOK
<1>3. scans[stored].profile \in {"testing", "full"}
  <2>1. stored \in DOMAIN scans  BY DEF Newest, Completed
  <2> QED  BY <2>1, ScanFields DEF IndInv, TypeOK
<1> DEFINE profile == scans[stored].profile
           to == ReviewState(profile, e)
           moves == opp[o].status # "approved_for_property" \/ to = "needs_more_evidence"
           move == [x \in {o} |-> Move(opp[o], to)]
           m == IF moves /\ to # opp[o].status THEN move ELSE NoMoves
           score == [scan |-> newest, full |-> profile = "full", evidence |-> e]
           p == [NoPlan EXCEPT !.rescore = score, !.moves = m]
<1>4. Load(r, p)  BY <1>1
<1>5. /\ to \in OppStates \ {"approved_for_property"}
      /\ profile = "full" /\ e # "complete" => to = "needs_more_evidence"
  BY <1>3, ReviewStates DEF OppStates
<1> HIDE DEF profile, to
<1>6. move = [x \in {o} |-> Move(opp[x], to)]  OBVIOUS
<1>7. /\ moves /\ to # opp[o].status => move \in Moves
      /\ DOMAIN move = {o} /\ move[o].to = to /\ move[o].from = opp[o].status
  <2>1. moves /\ to # opp[o].status => \A x \in DOMAIN move : move[x].version <= MaxVersion
    BY <1>4 DEF Load, NoPlan
  <2>2. moves /\ to # opp[o].status => move \in Moves
    BY <1>5, <1>6, <2>1, MovesType DEF IndInv
  <2> QED  BY <2>2 DEF Move
<1> HIDE DEF move
<1>8. /\ m \in Moves /\ DOMAIN m \subseteq {o} /\ \A x \in DOMAIN m : m[x].to = to
      /\ o \in DOMAIN m => m[o].from = opp[o].status /\ to # opp[o].status
      /\ o \notin DOMAIN m => ~moves \/ to = opp[o].status
  BY <1>7, NoPlanType DEF NoMoves
<1>9. /\ score \in Scores /\ score.scan = newest /\ score.evidence = e
      /\ score.full => profile = "full"
  BY <1>2 DEF Scores
<1> HIDE DEF m, score
<1>10. /\ p \in PlanRow /\ p.at = "loaded" /\ p.batch = None /\ p.queue = {}
       /\ p.rescore = score /\ p.moves = m
  BY <1>8, <1>9, NoPlanType DEF NoPlan, PlanRow
<1> HIDE DEF p
<1>11. ASSUME NEW x \in Opps PROVE ~Approves(p, x)
  BY <1>5, <1>8, <1>10 DEF Approves
<1>12. ASSUME NEW x \in Opps, Lowers(p), scans[p.rescore.scan].opp = x
       PROVE  \/ /\ x \in DOMAIN p.moves
                 /\ p.moves[x].to = "needs_more_evidence"
                 /\ p.moves[x].from # "needs_more_evidence"
              \/ /\ x \notin DOMAIN p.moves
                 /\ opp[x].status # "approved_for_property"
  <2>1. x = o  BY <1>2, <1>9, <1>10, <1>12
  <2>2. to = "needs_more_evidence"  BY <1>5, <1>9, <1>10, <1>12 DEF Lowers
  <2> QED  BY <2>1, <2>2, <1>8, <1>10
<1>13. Sound(p)  BY <1>2, <1>9, <1>10, <1>11, <1>12 DEF Sound
<1> QED  BY <1>4, <1>13

(* _queue_scan plans a scan and at most a move to testing_planned.          *)
LEMMA DirectSound ==
    ASSUME IndInv, NEW r \in Requests, NEW o \in Opps, NEW profile \in {"testing", "full"},
           NEW events \in {1, 2}, LoadDirect(r, o, profile, events)
    PROVE  \E p : Sound(p) /\ Load(r, p)
<1> DEFINE stays == profile = "full" \/ opp[o].status = "testing_planned"
           move == [x \in {o} |-> Move(opp[o], "testing_planned")]
           m == IF stays THEN NoMoves ELSE move
           p == [NoPlan EXCEPT !.at = "queueing", !.events = events, !.queue = {o},
                               !.profile = profile, !.moves = m]
<1>1. Load(r, p)  BY DEF LoadDirect
<1>2. move = [x \in {o} |-> Move(opp[x], "testing_planned")]  OBVIOUS
<1>3. "testing_planned" \in OppStates  BY DEF OppStates
<1>4. ~stays => move \in Moves
  <2>1. ~stays => \A x \in DOMAIN move : move[x].version <= MaxVersion
    BY <1>1 DEF Load, NoPlan
  <2> QED  BY <1>2, <1>3, <2>1, MovesType DEF IndInv
<1>5. \A x \in DOMAIN move : move[x].to = "testing_planned"  BY DEF Move
<1> HIDE DEF move, stays
<1>6. m \in Moves /\ \A x \in DOMAIN m : m[x].to = "testing_planned"
  BY <1>4, <1>5, NoPlanType DEF NoMoves
<1> HIDE DEF m
<1>7. /\ p \in PlanRow /\ p.at = "queueing" /\ p.batch = None /\ p.queue = {o}
      /\ p.profile = profile /\ p.rescore = None /\ p.moves = m
  BY <1>6, NoPlanType DEF NoPlan, PlanRow
<1> HIDE DEF p
<1>8. Sound(p)  BY <1>6, <1>7 DEF Sound, Direct, Approves, Lowers
<1> QED  BY <1>1, <1>8

(* A request that comes in loads a sound plan or runs a scan itself.        *)
LEMMA RequestsSound ==
    ASSUME IndInv, NEW r \in Requests, NewRequest(r)
    PROVE  \/ \E p : Sound(p) /\ Load(r, p)
           \/ \E o \in Opps, profile \in {"testing", "full"}, live, confirmed \in BOOLEAN :
                 SyncScan(r, o, profile, live, confirmed)
<1>1. ASSUME NEW o \in Opps, NEW to \in ReviewTargets, NEW owner \in BOOLEAN,
             LoadTransition(r, o, to, owner)
      PROVE  \E p : Sound(p) /\ Load(r, p)
  <2>1. opp[o].status \in OppStates  BY DEF IndInv, TypeOK, OpportunityRow
  <2>2. to \in OppStates  BY <1>1, <2>1, TableType DEF LoadTransition
  <2> QED  BY <1>1, <2>2, TransitionSound
<1>2. ASSUME NEW o \in Opps, LoadOwner(r, o) \/ LoadPromote(r, o)
      PROVE  \E p : Sound(p) /\ Load(r, p)
  BY <1>2, OwnerSound, PromoteSound
<1>3. ASSUME NEW b \in Batches, NEW items \in SUBSET Opps, NEW profile \in {"testing", "full"},
             NEW budget \in Budgets, LoadCreateBatch(r, b, items, profile, budget)
      PROVE  \E p : Sound(p) /\ Load(r, p)
  BY <1>3, CreateBatchSound
<1>4. ASSUME NEW b \in Batches, NEW amount \in Budgets, LoadConfirm(r, b, amount)
      PROVE  \E p : Sound(p) /\ Load(r, p)
  BY <1>4, ConfirmSound
<1>5. ASSUME NEW b \in Batches, LoadQueueBatch(r, b)
      PROVE  \E p : Sound(p) /\ Load(r, p)
  BY <1>5, QueueBatchSound
<1>6. ASSUME NEW o \in Opps, NEW e \in {"complete"} \cup (Events \cap {"partial", "fail"}),
             LoadRescore(r, o, e)
      PROVE  \E p : Sound(p) /\ Load(r, p)
  <2>1. e \in {"complete", "partial", "fail"}  OBVIOUS
  <2> QED  BY <1>6, <2>1, RescoreSound
<1>7. ASSUME NEW o \in Opps, NEW profile \in {"testing", "full"}, NEW live \in BOOLEAN,
             NEW confirmed \in BOOLEAN, LoadScan(r, o, profile, live, confirmed)
      PROVE  \E p : Sound(p) /\ Load(r, p)
  <2>1. PICK events \in {1, 2} : events = IF confirmed THEN 2 ELSE 1  OBVIOUS
  <2> QED  BY <1>7, <2>1, DirectSound DEF LoadScan
<1>8. ASSUME NEW i \in DOMAIN scans, LoadRetry(r, i)
      PROVE  \E p : Sound(p) /\ Load(r, p)
  <2>1. scans[i].opp \in Opps /\ scans[i].profile \in {"testing", "full"}
    BY ScanFields DEF IndInv, TypeOK
  <2> QED  BY <1>8, <2>1, DirectSound DEF LoadRetry
<1> QED
  BY <1>1, <1>2, <1>3, <1>4, <1>5, <1>6, <1>7, <1>8, OverrideSound DEF NewRequest
----------------------------------------------------------------------------
(* What steps keep.                                                        *)

\* Scans stay and stay of their opportunities; the requests that remain keep
\* what their plans are about.
ScansStay == \A i \in DOMAIN scans : i \in DOMAIN scans' /\ scans'[i].opp = scans[i].opp
SameWork(q) ==
    /\ req[q] # None
    /\ req'[q].moves = req[q].moves /\ req'[q].queue = req[q].queue
    /\ req'[q].batch = req[q].batch /\ req'[q].rescore = req[q].rescore
    /\ req'[q].at = "queueing" <=> req[q].at = "queueing"
PlansStay == \A q \in Requests : req'[q] # None => SameWork(q)

(* A plan is about opportunities and batches.                               *)
LEMMA SubjectsType ==
    ASSUME TypeOK, NEW p \in PlanRow, p.rescore # None => p.rescore.scan \in DOMAIN scans
    PROVE  Subjects(p) \subseteq Opps \cup Batches
<1>1. /\ p.batch \in Batches \cup {None} /\ p.queue \in SUBSET Opps
      /\ DOMAIN p.moves \in SUBSET Opps
  BY PlanFields
<1>2. p.rescore # None => scans[p.rescore.scan].opp \in Opps
  BY ScanFields DEF TypeOK
<1> QED  BY <1>1, <1>2 DEF Subjects

(* A plan that stays is about what it was about.                            *)
LEMMA SubjectsStay ==
    ASSUME PlanInv, ScansStay, NEW q \in Requests, SameWork(q)
    PROVE  Subjects(req[q])' = Subjects(req[q])
BY DEF PlanInv, ScansStay, SameWork, Subjects

(* No request becomes one about an opportunity or a batch unless it loads.  *)
LEMMA SoleKept ==
    ASSUME IndInv, contested' = contested, ScansStay, PlansStay,
           \A i \in DOMAIN scans' : Manual(i)' => i \in DOMAIN scans /\ Manual(i)
    PROVE  SoleInv'
<1> SUFFICES ASSUME NEW o \in (Opps \cup Batches) \ contested PROVE Sole(o)'
  BY DEF SoleInv
<1>1. Sole(o)  BY DEF IndInv, SoleInv
<1>2. ASSUME NEW q \in Requests, (req[q] # None)', (o \in Subjects(req[q]))'
      PROVE  req[q] # None /\ o \in Subjects(req[q])
  <2>1. SameWork(q)  BY <1>2 DEF PlansStay
  <2>2. Subjects(req[q])' = Subjects(req[q])  BY <2>1, SubjectsStay DEF IndInv
  <2> QED  BY <1>2, <2>1, <2>2 DEF SameWork
<1>3. ASSUME NEW i \in DOMAIN scans', Manual(i)', scans'[i].opp = o
      PROVE  i \in DOMAIN scans /\ Manual(i) /\ scans[i].opp = o
  BY <1>3 DEF ScansStay
<1> QED  BY <1>1, <1>2, <1>3 DEF Sole

(* No scan becomes active unless a plan queues it.                          *)
LEMMA QueueKept ==
    ASSUME IndInv, contested' = contested, revived' = revived, ScansStay, PlansStay,
           \A i \in DOMAIN scans' : Active(i)' =>
              i \in DOMAIN scans /\ Active(i) /\ scans'[i].reviewed = scans[i].reviewed
    PROVE  QueueInv'
<1> SUFFICES ASSUME NEW o \in Opps \ (contested \cup revived)
             PROVE  Ordered(o)' /\ \A r \in Requests : Planned(r, o)' => Unclaimed(o)'
  BY DEF QueueInv
<1>1. Ordered(o) /\ \A r \in Requests : Planned(r, o) => Unclaimed(o)
  BY DEF IndInv, QueueInv
<1>2. ASSUME NEW i \in DOMAIN scans', Active(i)', scans'[i].opp = o
      PROVE  /\ i \in DOMAIN scans /\ Active(i) /\ scans[i].opp = o
             /\ scans'[i].reviewed = scans[i].reviewed
  BY <1>2 DEF ScansStay
<1>3. Ordered(o)'  BY <1>1, <1>2 DEF Ordered
<1>4. ASSUME NEW r \in Requests, Planned(r, o)' PROVE Unclaimed(o)'
  <2>1. Planned(r, o)  BY <1>4 DEF Planned, PlansStay, SameWork
  <2> QED  BY <1>1, <1>2, <2>1 DEF Unclaimed
<1> QED  BY <1>3, <1>4

(* A step that writes no batch and queues nothing for one keeps what was    *)
(* confirmed.                                                               *)
LEMMA BatchKept ==
    ASSUME IndInv, contested' = contested, batch' = batch, PlansStay,
           \A q \in Requests : req'[q] # None => req'[q].row = req[q].row,
           \A i \in DOMAIN scans' : scans'[i].batch \in Batches =>
              /\ i \in DOMAIN scans /\ scans'[i].batch = scans[i].batch
              /\ scans'[i].opp = scans[i].opp
    PROVE  BatchInv'
<1> SUFFICES ASSUME NEW b \in Batches \ contested
             PROVE  /\ batch[b] # None => RowSound(batch[b])
                    /\ \A i \in DOMAIN scans' : scans'[i].batch = b =>
                          /\ batch[b] # None /\ batch[b].status = "queued"
                          /\ scans'[i].opp \in batch[b].items
                    /\ \A i, j \in DOMAIN scans' :
                          /\ scans'[i].batch = b /\ scans'[j].batch = b
                          /\ scans'[i].opp = scans'[j].opp
                          => i = j
                    /\ \A r \in Requests : req'[r] # None /\ req'[r].batch = b =>
                          BatchPlan(req[r])'
  BY DEF BatchInv, RowSound, Estimate
<1>1. ASSUME NEW r \in Requests, req'[r] # None, req'[r].batch = b
      PROVE  BatchPlan(req[r])'
  <2>1. /\ req[r] # None /\ req[r].batch = b /\ req'[r].queue = req[r].queue
        /\ req'[r].row = req[r].row
    BY <1>1 DEF PlansStay, SameWork
  <2>2. BatchPlan(req[r])  BY <2>1 DEF IndInv, BatchInv
  <2>3. RowSound(req[r].row)' <=> RowSound(req[r].row)  BY <2>1 DEF RowSound, Estimate
  <2> QED  BY <1>1, <2>1, <2>2, <2>3 DEF BatchPlan
<1> QED  BY <1>1 DEF IndInv, BatchInv

\* A full scan of o that has completed.
FullDone(i, o) ==
    scans[i].opp = o /\ scans[i].profile = "full" /\ scans[i].status = "completed"
\* The completed full scans of o are those there were, and none lost what an
\* approval needs.
DoneStay(o) ==
    /\ \A i \in DOMAIN scans : FullDone(i, o) =>
          /\ i \in DOMAIN scans' /\ FullDone(i, o)'
          /\ scans'[i].finished = scans[i].finished
          /\ scans[i].evidence = "complete" => scans'[i].evidence = "complete"
          /\ scans'[i].gate = scans[i].gate
    /\ \A i \in DOMAIN scans' : FullDone(i, o)' => i \in DOMAIN scans /\ FullDone(i, o)

(* Then the opportunity is as complete as it was.                           *)
LEMMA CompleteKept ==
    ASSUME NEW o \in Opps, Complete(o), opp[o].owner => opp'[o].owner, DoneStay(o)
    PROVE  Complete(o)'
<1>1. PICK i \in DOMAIN scans :
        /\ FullDone(i, o) /\ scans[i].evidence = "complete" /\ scans[i].gate
        /\ \A j \in DOMAIN scans : FullDone(j, o) => scans[j].finished <= scans[i].finished
  BY DEF Complete, Newest, Completed, FullDone
<1>2. /\ i \in DOMAIN scans' /\ FullDone(i, o)'
      /\ scans'[i].evidence = "complete" /\ scans'[i].gate
  BY <1>1 DEF DoneStay
<1>3. ASSUME NEW j \in DOMAIN scans', FullDone(j, o)'
      PROVE  scans'[j].finished <= scans'[i].finished
  BY <1>1, <1>3 DEF DoneStay
<1>4. i \in Newest(Completed(o, "full"))'
  BY <1>2, <1>3 DEF Newest, Completed, FullDone
<1>5. opp'[o].owner  BY DEF Complete
<1> QED  BY <1>2, <1>4, <1>5 DEF Complete

(* What an approval rests on is kept by a step that keeps it for the        *)
(* approved opportunities and for those somebody is about to approve.       *)
LEMMA ApprovalKept ==
    ASSUME IndInv, contested' = contested, ScansStay, PlansStay,
           \A o \in Opps \ contested :
              /\ opp'[o].status = "approved_for_property" => opp'[o].approved /\ Complete(o)'
              /\ \A q \in Requests : req'[q] # None =>
                    /\ Approves(req[q], o) => Complete(o)'
                    /\ /\ Lowers(req[q]) /\ scans[req[q].rescore.scan].opp = o
                       /\ opp[o].status # "approved_for_property"
                       => opp'[o].status # "approved_for_property"
    PROVE  ApprovalInv'
<1> SUFFICES ASSUME NEW o \in Opps \ contested, NEW q \in Requests, (req[q] # None)'
             PROVE  /\ Approves(req[q], o)' => Complete(o)' /\ (req[q].rescore = None)'
                    /\ (Lowers(req[q]) /\ scans[req[q].rescore.scan].opp = o)' =>
                          \/ /\ o \in DOMAIN req'[q].moves
                             /\ req'[q].moves[o].to = "needs_more_evidence"
                             /\ req'[q].moves[o].from # "needs_more_evidence"
                          \/ /\ o \notin DOMAIN req'[q].moves
                             /\ opp'[o].status # "approved_for_property"
  BY DEF ApprovalInv
<1>1. SameWork(q)  BY DEF PlansStay
<1>2. ASSUME Approves(req[q], o)'
      PROVE  Complete(o)' /\ (req[q].rescore = None)'
  <2>1. Approves(req[q], o)  BY <1>1, <1>2 DEF Approves, SameWork
  <2> QED  BY <1>1, <2>1 DEF SameWork, IndInv, ApprovalInv
<1>3. ASSUME (Lowers(req[q]) /\ scans[req[q].rescore.scan].opp = o)'
      PROVE  \/ /\ o \in DOMAIN req'[q].moves
                /\ req'[q].moves[o].to = "needs_more_evidence"
                /\ req'[q].moves[o].from # "needs_more_evidence"
             \/ /\ o \notin DOMAIN req'[q].moves
                /\ opp'[o].status # "approved_for_property"
  <2>1. Lowers(req[q])  BY <1>1, <1>3 DEF Lowers, SameWork
  <2>2. req[q].rescore.scan \in DOMAIN scans
    BY <1>1, <2>1 DEF IndInv, PlanInv, Lowers, SameWork
  <2>3. scans[req[q].rescore.scan].opp = o
    BY <1>1, <1>3, <2>2 DEF ScansStay, SameWork
  <2> QED  BY <1>1, <2>1, <2>3 DEF SameWork, IndInv, ApprovalInv
<1> QED  BY <1>2, <1>3
----------------------------------------------------------------------------
(* The steps of requests.                                                  *)

(* A request that loads a sound plan: whatever it is about and another      *)
(* request is about too is contested from here on.                          *)
LEMMA LoadStep ==
    ASSUME IndInv, NEW r \in Requests, req[r] = None, NEW p, Sound(p), Load(r, p)
    PROVE  IndInv'
<1> USE DEF IndInv
<1>1. /\ req' = [req EXCEPT ![r] = p]
      /\ contested' = contested \cup (Subjects(p) \cap UnderWay)
      /\ UNCHANGED <<opp, overrides, batch, scans, audit, lock, revived>>
  BY DEF Load
<1>2. /\ p \in PlanRow /\ p.at \in {"loaded", "queueing"}
      /\ p.rescore # None => p.rescore.scan \in DOMAIN scans
  BY DEF Sound
<1>3. req'[r] = p /\ \A q \in Requests : q # r => req'[q] = req[q]
  BY <1>1 DEF TypeOK
<1>4. TypeOK'
  <2>1. req' \in [Requests -> PlanRow \cup {None}]  BY <1>1, <1>2 DEF TypeOK
  <2>2. contested' \subseteq Opps \cup Batches
    BY <1>1, <1>2, SubjectsType DEF TypeOK
  <2> QED  BY <1>1, <2>1, <2>2 DEF TypeOK
<1>5. HeadInv' /\ AuditLinear' /\ CopyInv'
  <2>1. HeadInv'  BY <1>1, <1>2, <1>3 DEF HeadInv
  <2>2. AuditLinear' /\ CopyInv'  BY <1>1 DEF AuditLinear, CopyInv
  <2> QED  BY <2>1, <2>2
<1>6. PlanInv'  BY <1>1, <1>3 DEF PlanInv, Sound
<1>7. SoleInv'
  <2> SUFFICES ASSUME NEW o \in (Opps \cup Batches) \ contested' PROVE Sole(o)'
    BY DEF SoleInv
  <2>1. Sole(o)  BY <1>1 DEF SoleInv
  <2>2. \A q \in Requests : q # r => Subjects(req[q])' = Subjects(req[q])
    BY <1>1, <1>3 DEF Subjects
  <2>3. Subjects(req[r])' = Subjects(p)  BY <1>1, <1>3 DEF Subjects
  <2>4. o \in Subjects(p) => o \notin UnderWay  BY <1>1
  <2>5. o \in Subjects(p) => \A q \in Requests : req[q] # None => o \notin Subjects(req[q])
    BY <2>4 DEF UnderWay
  <2>6. ASSUME o \in Subjects(p), NEW i \in DOMAIN scans, Manual(i)
        PROVE  scans[i].opp # o
    <3>1. scans[i].opp \in UnderWay  BY <2>6 DEF UnderWay, Manual
    <3> QED  BY <2>4, <2>6, <3>1
  <2>7. ASSUME NEW i PROVE Manual(i)' <=> Manual(i)  BY <1>1 DEF Manual
  <2>8. ASSUME NEW q \in Requests, (req[q] # None)', (o \in Subjects(req[q]))'
        PROVE  \/ q = r /\ o \in Subjects(p)
               \/ q # r /\ req[q] # None /\ o \in Subjects(req[q])
    BY <1>3, <2>2, <2>3, <2>8
  <2>9. ASSUME NEW q \in Requests, NEW s \in Requests,
               (req[q] # None)', (o \in Subjects(req[q]))',
               (req[s] # None)', (o \in Subjects(req[s]))'
        PROVE  q = s
    BY <2>1, <2>5, <2>8, <2>9 DEF Sole
  <2>10. ASSUME NEW q \in Requests, NEW i \in DOMAIN scans',
                (req[q] # None)', (o \in Subjects(req[q]))', Manual(i)'
         PROVE  scans'[i].opp # o
    BY <1>1, <2>1, <2>6, <2>7, <2>8, <2>10 DEF Sole
  <2> QED  BY <2>9, <2>10 DEF Sole
<1>8. ApprovalInv'
  <2> SUFFICES ASSUME NEW o \in Opps \ contested' PROVE
          /\ opp[o].status = "approved_for_property" => opp[o].approved /\ Complete(o)'
          /\ \A q \in Requests : req'[q] # None =>
                /\ Approves(req'[q], o) => Complete(o)' /\ req'[q].rescore = None
                /\ Lowers(req'[q]) /\ scans[req'[q].rescore.scan].opp = o =>
                      \/ /\ o \in DOMAIN req'[q].moves
                         /\ req'[q].moves[o].to = "needs_more_evidence"
                         /\ req'[q].moves[o].from # "needs_more_evidence"
                      \/ /\ o \notin DOMAIN req'[q].moves
                         /\ opp[o].status # "approved_for_property"
    BY <1>1 DEF ApprovalInv, Approves, Lowers
  <2>1. Complete(o)' <=> Complete(o)  BY <1>1 DEF Complete, Newest, Completed
  <2>2. o \in Opps \ contested  BY <1>1
  <2> QED  BY <1>3, <2>1, <2>2 DEF ApprovalInv, Sound
<1>9. QueueInv'
  <2> SUFFICES ASSUME NEW o \in Opps \ (contested \cup revived)'
               PROVE  Ordered(o)' /\ \A q \in Requests : Planned(q, o)' => Unclaimed(o)'
    BY DEF QueueInv
  <2>1. o \in Opps \ (contested \cup revived)  BY <1>1
  <2>2. Ordered(o)' /\ (Unclaimed(o) => Unclaimed(o)')
    BY <1>1, <2>1 DEF QueueInv, Ordered, Unclaimed, Active
  <2>3. ASSUME NEW q \in Requests, Planned(q, o)' PROVE Unclaimed(o)
    <3>1. CASE q = r  BY <1>2, <1>3, <2>3, <3>1 DEF Planned, Sound
    <3>2. CASE q # r
      <4>1. Planned(q, o)  BY <1>3, <2>3, <3>2 DEF Planned
      <4> QED  BY <2>1, <4>1 DEF QueueInv
    <3> QED  BY <3>1, <3>2
  <2> QED  BY <2>2, <2>3
<1>10. BatchInv'
  <2> SUFFICES ASSUME NEW b \in Batches \ contested'
               PROVE  \A q \in Requests : req'[q] # None /\ req'[q].batch = b =>
                         BatchPlan(req'[q])
    BY <1>1 DEF BatchInv, RowSound, Estimate, BatchPlan
  <2>1. b \in Batches \ contested /\ b # None  BY <1>1, ReviewConstants
  <2> QED  BY <1>3, <2>1 DEF BatchInv, Sound
<1> QED  BY <1>4, <1>5, <1>6, <1>7, <1>8, <1>9, <1>10

(* A request enters the chain: nobody else is between head and commit.      *)
LEMMA EnterStep ==
    ASSUME IndInv, NEW r \in Requests, Enter(r)
    PROVE  IndInv'
<1> USE DEF IndInv
<1>1. /\ req[r] # None /\ req[r].at = "loaded" /\ lock = None /\ lock' = r
      /\ req' = [req EXCEPT ![r].at = "entered", ![r].head = Len(audit)]
      /\ UNCHANGED <<opp, overrides, batch, scans, audit, contested, revived>>
  BY DEF Enter, MayEnter
<1>2. req[r] \in PlanRow  BY <1>1 DEF TypeOK
<1>3. /\ req'[r] = [req[r] EXCEPT !.at = "entered", !.head = Len(audit)]
      /\ \A q \in Requests : q # r => req'[q] = req[q]
  BY <1>1 DEF TypeOK
<1>4. /\ req'[r] \in PlanRow /\ req'[r].head = Len(audit) /\ req'[r].at = "entered"
      /\ req'[r].row = req[r].row /\ req'[r].profile = req[r].profile
      /\ SameWork(r)
  <2>1. PICK n \in Nat : n = Len(audit)  BY DEF TypeOK
  <2>2. req'[r] = [req[r] EXCEPT !.at = "entered", !.head = n]  BY <1>3, <2>1
  <2>3. /\ req'[r] \in PlanRow /\ req'[r].head = n /\ req'[r].at = "entered"
        /\ req'[r].row = req[r].row /\ req'[r].profile = req[r].profile
        /\ req'[r].moves = req[r].moves /\ req'[r].queue = req[r].queue
        /\ req'[r].batch = req[r].batch /\ req'[r].rescore = req[r].rescore
    BY <1>2, <2>2 DEF PlanRow
  <2> QED  BY <1>1, <2>1, <2>3 DEF SameWork
<1>5. PlansStay /\ ScansStay
  BY <1>1, <1>3, <1>4 DEF PlansStay, SameWork, ScansStay
<1>6. TypeOK'  BY <1>1, <1>4 DEF TypeOK
<1>7. HeadInv' /\ AuditLinear' /\ CopyInv'
  <2>1. ASSUME NEW q \in Requests, q # r, req[q] # None PROVE req[q].at # "entered"
    BY <1>1, <2>1, ReviewConstants DEF HeadInv
  <2>2. HeadInv'  BY <1>1, <1>3, <1>4, <2>1 DEF HeadInv
  <2>3. AuditLinear' /\ CopyInv'  BY <1>1 DEF AuditLinear, CopyInv
  <2> QED  BY <2>2, <2>3
<1>8. PlanInv'  BY <1>1, <1>3, <1>4 DEF PlanInv, SameWork
<1>9. SoleInv'  BY <1>1, <1>5, SoleKept DEF Manual
<1>10. ApprovalInv'
  <2>1. ASSUME NEW o \in Opps PROVE Complete(o)' <=> Complete(o)
    BY <1>1 DEF Complete, Newest, Completed
  <2> QED  BY <1>1, <1>5, <2>1, ApprovalKept DEF ApprovalInv, PlansStay, SameWork
<1>11. QueueInv'  BY <1>1, <1>5, QueueKept DEF Active
<1>12. BatchInv'  BY <1>1, <1>3, <1>4, <1>5, BatchKept
<1> QED  BY <1>6, <1>7, <1>8, <1>9, <1>10, <1>11, <1>12

(* A transaction is rolled back: its plan is forgotten.                     *)
LEMMA RollBackStep ==
    ASSUME IndInv, NEW r \in Requests, RollBack(r)
    PROVE  IndInv'
<1> USE DEF IndInv
<1>1. /\ req[r] # None /\ lock' = (IF lock = r THEN None ELSE lock)
      /\ req' = [req EXCEPT ![r] = None]
      /\ UNCHANGED <<opp, overrides, batch, scans, audit, contested, revived>>
  BY DEF RollBack, Done
<1>2. req'[r] = None /\ \A q \in Requests : q # r => req'[q] = req[q]
  BY <1>1 DEF TypeOK
<1>3. PlansStay /\ ScansStay
  BY <1>1, <1>2 DEF PlansStay, SameWork, ScansStay
<1>4. TypeOK'  BY <1>1 DEF TypeOK
<1>5. HeadInv' /\ AuditLinear' /\ CopyInv'
  <2>1. HeadInv'  BY <1>1, <1>2 DEF HeadInv
  <2>2. AuditLinear' /\ CopyInv'  BY <1>1 DEF AuditLinear, CopyInv
  <2> QED  BY <2>1, <2>2
<1>6. PlanInv'  BY <1>1, <1>2 DEF PlanInv
<1>7. SoleInv'  BY <1>1, <1>3, SoleKept DEF Manual
<1>8. ApprovalInv'
  <2>1. ASSUME NEW o \in Opps PROVE Complete(o)' <=> Complete(o)
    BY <1>1 DEF Complete, Newest, Completed
  <2> QED  BY <1>1, <1>3, <2>1, ApprovalKept DEF ApprovalInv, PlansStay, SameWork
<1>9. QueueInv'  BY <1>1, <1>3, QueueKept DEF Active
<1>10. BatchInv'  BY <1>1, <1>2, <1>3, BatchKept
<1> QED  BY <1>4, <1>5, <1>6, <1>7, <1>8, <1>9, <1>10
----------------------------------------------------------------------------
(* The steps of scans.                                                     *)

\* No opportunity loses its owner or becomes approved.
Gentle ==
    \A x \in Opps :
        /\ opp[x].owner => opp'[x].owner
        /\ opp'[x].status = "approved_for_property" =>
              opp[x].status = "approved_for_property" /\ opp'[x].approved = opp[x].approved

(* A row that a plan flushes.                                               *)
LEMMA FlushedFields ==
    ASSUME TypeOK, NEW o \in Opps, NEW owner \in BOOLEAN,
           NEW m, m.from \in OppStates, m.to \in OppStates, m.version \in Nat
    PROVE  /\ Flushed(o, m, owner) \in OpportunityRow
           /\ Flushed(o, m, owner).status = (IF m.to = m.from THEN opp[o].status ELSE m.to)
           /\ opp[o].owner => Flushed(o, m, owner).owner
           /\ m.to # m.from /\ m.to = "approved_for_property" => Flushed(o, m, owner).approved
           /\ m.to = m.from => Flushed(o, m, owner).approved = opp[o].approved
<1>1. opp[o].status \in OppStates /\ opp[o].owner \in BOOLEAN /\ opp[o].approved \in BOOLEAN
  BY DEF TypeOK, OpportunityRow
<1> QED  BY <1>1 DEF Flushed, OpportunityRow

(* The pipeline writes the state its scan calls for over whatever is there. *)
LEMMA SystemMoveEffect ==
    ASSUME IndInv, NEW i \in DOMAIN scans, scans[i].status = "running",
           NEW to \in {"needs_more_evidence", "preliminary_review", "full_review"},
           SystemMove(i, to)
    PROVE  /\ opp' \in [Opps -> OpportunityRow] /\ Gentle
           /\ opp'[scans[i].opp].status = to
<1> DEFINE o == scans[i].opp
           m == Move(scans[i].copy, to)
<1>1. o \in Opps /\ scans[i].profile \in {"testing", "full"}
  BY ScanFields DEF IndInv, TypeOK
<1>2. /\ scans[i].copy \in OpportunityRow
      /\ scans[i].copy.status = RunningState(scans[i].profile)
  BY DEF IndInv, CopyInv
<1>3. scans[i].copy.status # to  BY <1>1, <1>2 DEF RunningState
<1>4. opp' = [opp EXCEPT ![o] = Flushed(o, m, FALSE)]  BY <1>3 DEF SystemMove
<1>5. /\ m.from = scans[i].copy.status /\ m.to = to /\ m.version \in Nat
      /\ m.from \in OppStates /\ m.to \in OppStates
  BY <1>2 DEF Move, OpportunityRow, OppStates
<1> HIDE DEF m
<1>6. /\ Flushed(o, m, FALSE) \in OpportunityRow
      /\ Flushed(o, m, FALSE).status = to
      /\ opp[o].owner => Flushed(o, m, FALSE).owner
  BY <1>1, <1>3, <1>5, FlushedFields DEF IndInv
<1> HIDE DEF o
<1>7. /\ opp'[o] = Flushed(o, m, FALSE)
      /\ \A x \in Opps : x # o => opp'[x] = opp[x]
      /\ opp' \in [Opps -> OpportunityRow]
  BY <1>1, <1>4, <1>6 DEF IndInv, TypeOK
<1>8. Gentle  BY <1>6, <1>7 DEF Gentle
<1> QED  BY <1>6, <1>7, <1>8 DEF o

(* Any step of a scan that has not completed: it stays of its opportunity,  *)
(* when it completes, its handler was the only request about that, and when *)
(* it becomes active again beside another one, the opportunity is revived.  *)
LEMMA ScanChange ==
    ASSUME IndInv, NEW i \in DOMAIN scans, scans[i].status # "completed",
           NEW row \in ScanRow, scans' = [scans EXCEPT ![i] = row],
           row.opp = scans[i].opp, row.profile = scans[i].profile,
           row.manual = scans[i].manual, row.batch = scans[i].batch,
           row.reviewed = scans[i].reviewed,
           row.status = "queued" => row.manual = None,
           row.held => row.manual = None,
           \/ row.status \notin {"queued", "running"}
           \/ Active(i)
           \/ row.opp \in revived'
           \/ Unclaimed(row.opp) /\ \A q \in Requests : ~Planned(q, row.opp),
           revived \subseteq revived', revived' \subseteq Opps,
           row.status = "running" =>
              /\ scans[i].manual = None
              /\ row.copy \in OpportunityRow
              /\ row.copy.status = RunningState(row.profile),
           row.status = "completed" =>
              Manual(i) /\ opp'[row.opp].status # "approved_for_property",
           opp' \in [Opps -> OpportunityRow], Gentle,
           req' \in [Requests -> PlanRow \cup {None}], PlansStay,
           \A q \in Requests : req'[q] # None =>
              /\ req'[q].row = req[q].row /\ req'[q].profile = req[q].profile
              /\ req'[q].at = "entered" => req[q].at = "entered" /\ req'[q].head = req[q].head,
           UNCHANGED <<overrides, batch, audit, lock, contested>>
    PROVE  IndInv'
<1> USE DEF IndInv
<1>1. /\ DOMAIN scans' = DOMAIN scans /\ scans'[i] = row
      /\ \A j \in DOMAIN scans : j # i => scans'[j] = scans[j]
      /\ scans' \in Seq(ScanRow)
  BY DEF TypeOK
<1>2. ScansStay  BY <1>1 DEF ScansStay
<1>3. \A j \in DOMAIN scans' : Manual(j)' => j \in DOMAIN scans /\ Manual(j)
  BY <1>1 DEF Manual, CopyInv
<1>5. TypeOK'  BY <1>1 DEF TypeOK
<1>6. HeadInv'  BY DEF HeadInv, PlansStay, SameWork
<1>7. AuditLinear'  BY DEF AuditLinear
<1>8. PlanInv'  BY <1>1 DEF PlanInv, PlansStay, SameWork, Direct
<1>9. CopyInv'  BY <1>1 DEF CopyInv
<1>10. SoleInv'  BY <1>2, <1>3, SoleKept
<1>11. QueueInv'
  <2> SUFFICES ASSUME NEW o \in Opps \ (contested \cup revived')
               PROVE  Ordered(o)' /\ \A q \in Requests : Planned(q, o)' => Unclaimed(o)'
    BY DEF QueueInv
  <2>1. Ordered(o) /\ \A q \in Requests : Planned(q, o) => Unclaimed(o)
    BY DEF QueueInv
  <2>2. ASSUME NEW q \in Requests, Planned(q, o)' PROVE Planned(q, o)
    BY <2>2 DEF Planned, PlansStay, SameWork
  <2>3. CASE row.opp = o /\ row.status \in {"queued", "running"} /\ ~Active(i)
    <3>1. Unclaimed(o) /\ \A q \in Requests : ~Planned(q, o)  BY <2>3
    <3>2. \A j \in DOMAIN scans' : Active(j)' /\ scans'[j].opp = o => j = i
      BY <1>1, <3>1 DEF Unclaimed, Active
    <3>3. i \in Nat  BY DEF TypeOK
    <3>4. Ordered(o)'  BY <3>2, <3>3 DEF Ordered
    <3> QED  BY <2>2, <3>1, <3>4
  <2>4. CASE ~(row.opp = o /\ row.status \in {"queued", "running"} /\ ~Active(i))
    <3>1. ASSUME NEW j \in DOMAIN scans', Active(j)', scans'[j].opp = o
          PROVE  /\ j \in DOMAIN scans /\ Active(j) /\ scans[j].opp = o
                 /\ scans'[j].reviewed = scans[j].reviewed
      BY <1>1, <2>4, <3>1 DEF Active
    <3>2. Ordered(o)'  BY <2>1, <3>1 DEF Ordered
    <3>3. Unclaimed(o) => Unclaimed(o)'  BY <3>1 DEF Unclaimed
    <3> QED  BY <2>1, <2>2, <3>2, <3>3
  <2> QED  BY <2>3, <2>4
<1>12. ApprovalInv'
  <2>1. ASSUME NEW x \in Opps, row.status = "completed" => x # row.opp PROVE DoneStay(x)
    BY <1>1, <2>1 DEF DoneStay, FullDone
  <2>2. ASSUME NEW x \in Opps, row.status = "completed" => x # row.opp, Complete(x)
        PROVE  Complete(x)'
    BY <2>1, <2>2, CompleteKept DEF Gentle
  <2>3. ASSUME NEW x \in Opps \ contested, row.status = "completed", x = row.opp,
               NEW q \in Requests, req[q] # None
        PROVE  ~Approves(req[q], x)
    <3>1. x \notin Subjects(req[q])  BY <2>3 DEF SoleInv, Sole
    <3> QED  BY <3>1 DEF Subjects, Approves
  <2>4. ASSUME NEW x \in Opps \ contested
        PROVE  /\ opp'[x].status = "approved_for_property" => opp'[x].approved /\ Complete(x)'
               /\ \A q \in Requests : req'[q] # None =>
                     /\ Approves(req[q], x) => Complete(x)'
                     /\ /\ Lowers(req[q]) /\ scans[req[q].rescore.scan].opp = x
                        /\ opp[x].status # "approved_for_property"
                        => opp'[x].status # "approved_for_property"
    <3>1. opp'[x].status = "approved_for_property" => opp'[x].approved /\ Complete(x)'
      BY <2>2 DEF Gentle, ApprovalInv
    <3>2. ASSUME NEW q \in Requests, req'[q] # None, Approves(req[q], x) PROVE Complete(x)'
      <4>1. req[q] # None  BY <3>2 DEF PlansStay, SameWork
      <4>2. Complete(x)  BY <3>2, <4>1 DEF ApprovalInv
      <4>3. row.status = "completed" => x # row.opp  BY <2>3, <3>2, <4>1
      <4> QED  BY <2>2, <4>2, <4>3
    <3> QED  BY <3>1, <3>2 DEF Gentle
  <2> QED  BY <1>2, <2>4, ApprovalKept
<1>13. BatchInv'  BY <1>1, BatchKept
<1> QED  BY <1>5, <1>6, <1>7, <1>8, <1>9, <1>10, <1>11, <1>12, <1>13

(* A worker starts a scan: the opportunity is shown as running.             *)
LEMMA StartStep ==
    ASSUME IndInv, NEW i \in DOMAIN scans, StartScan(i)
    PROVE  IndInv'
<1> DEFINE o == scans[i].opp
           running == RunningState(scans[i].profile)
           m == Move(opp[o], running)
<1>1. /\ scans[i].status = "queued"
      /\ opp' = [opp EXCEPT ![o] = IF opp[o].status = running THEN opp[o]
                                   ELSE Flushed(o, m, FALSE)]
      /\ scans' = [scans EXCEPT ![i].status = "running", ![i].copy = opp'[o]]
      /\ UNCHANGED <<overrides, batch, audit, lock, req, contested, revived>>
  BY DEF StartScan
<1>2. scans[i] \in ScanRow /\ o \in Opps /\ scans[i].profile \in {"testing", "full"}
  BY ScanFields DEF IndInv, TypeOK
<1>3. running \in OppStates \ {"approved_for_property"}
  BY <1>2 DEF RunningState, OppStates
<1>4. opp[o] \in OpportunityRow /\ opp[o].status \in OppStates /\ opp[o].version \in Nat
  BY <1>2 DEF IndInv, TypeOK, OpportunityRow
<1> HIDE DEF running, o
<1>5. m.from = opp[o].status /\ m.to = running /\ m.version \in Nat
  BY <1>4 DEF Move
<1> HIDE DEF m
<1>6. opp[o].status # running =>
        /\ Flushed(o, m, FALSE) \in OpportunityRow
        /\ Flushed(o, m, FALSE).status = running
        /\ opp[o].owner => Flushed(o, m, FALSE).owner
  BY <1>2, <1>3, <1>4, <1>5, FlushedFields DEF IndInv
<1>7. PICK c \in OpportunityRow :
        /\ c = (IF opp[o].status = running THEN opp[o] ELSE Flushed(o, m, FALSE))
        /\ c.status = running /\ (opp[o].owner => c.owner)
  BY <1>4, <1>6
<1>8. opp' = [opp EXCEPT ![o] = c]  BY <1>1, <1>7
<1>9. /\ opp' \in [Opps -> OpportunityRow] /\ opp'[o] = c
      /\ \A x \in Opps : x # o => opp'[x] = opp[x]
  BY <1>2, <1>8 DEF IndInv, TypeOK
<1>10. Gentle  BY <1>3, <1>7, <1>9 DEF Gentle
<1> DEFINE row == [scans[i] EXCEPT !.status = "running", !.copy = c]
<1>11. /\ row \in ScanRow /\ row.opp = scans[i].opp /\ row.profile = scans[i].profile
       /\ row.manual = scans[i].manual /\ row.batch = scans[i].batch
       /\ row.reviewed = scans[i].reviewed /\ row.held = scans[i].held
       /\ row.status = "running" /\ row.copy = c
  BY <1>2 DEF ScanRow
<1>12. scans' = [scans EXCEPT ![i] = row]
  <2>1. scans' = [scans EXCEPT ![i].status = "running", ![i].copy = c]
    BY <1>1, <1>9, Zenon
  <2> QED  BY <2>1
<1> HIDE DEF row
<1>13. scans[i].manual = None /\ Active(i)  BY <1>1 DEF IndInv, CopyInv, Active
<1>14. /\ req' \in [Requests -> PlanRow \cup {None}] /\ PlansStay
       /\ \A q \in Requests : req'[q] = req[q]
  BY <1>1 DEF IndInv, TypeOK, PlansStay, SameWork
<1>15. /\ scans[i].status # "completed"
       /\ UNCHANGED <<overrides, batch, audit, lock, contested>>
       /\ revived \subseteq revived' /\ revived' \subseteq Opps
       /\ row.copy \in OpportunityRow /\ row.copy.status = RunningState(row.profile)
  BY <1>1, <1>7, <1>11 DEF running, IndInv, TypeOK
<1> QED  BY <1>9, <1>10, <1>11, <1>12, <1>13, <1>14, <1>15, ScanChange

(* A scan that ends, or is queued again, without a result and without       *)
(* moving its opportunity.                                                  *)
LEMMA EndStep ==
    ASSUME IndInv, NEW i \in DOMAIN scans,
           \/ RefuseScan(i)
           \/ \E status \in {"queued", "quarantined"} : LoseScan(i, status)
    PROVE  IndInv'
<1>1. /\ scans[i].status \in {"queued", "running"}
      /\ UNCHANGED <<opp, overrides, batch, audit, lock, req, contested, revived>>
  BY DEF RefuseScan, LoseScan
<1>2. scans[i] \in ScanRow  BY ScanFields DEF IndInv, TypeOK
<1>3. PICK row \in ScanRow :
        /\ scans' = [scans EXCEPT ![i] = row]
        /\ row.opp = scans[i].opp /\ row.profile = scans[i].profile
        /\ row.manual = scans[i].manual /\ row.batch = scans[i].batch
        /\ row.reviewed = scans[i].reviewed /\ row.held = scans[i].held
        /\ row.status \in {"queued", "quarantined"}
        /\ row.status = "queued" => row.manual = None
  <2>1. CASE RefuseScan(i)
    <3>1. scans' = [scans EXCEPT ![i].status = "quarantined"]  BY <2>1 DEF RefuseScan
    <3> DEFINE row == [scans[i] EXCEPT !.status = "quarantined"]
    <3>2. scans' = [scans EXCEPT ![i] = row]  BY <3>1
    <3>3. /\ row \in ScanRow /\ row.opp = scans[i].opp /\ row.profile = scans[i].profile
          /\ row.manual = scans[i].manual /\ row.batch = scans[i].batch
          /\ row.reviewed = scans[i].reviewed /\ row.held = scans[i].held
          /\ row.status = "quarantined"
      BY <1>2 DEF ScanRow
    <3> QED  BY <3>2, <3>3
  <2>2. ASSUME NEW status \in {"queued", "quarantined"}, LoseScan(i, status)
        PROVE  \E row \in ScanRow :
                  /\ scans' = [scans EXCEPT ![i] = row]
                  /\ row.opp = scans[i].opp /\ row.profile = scans[i].profile
                  /\ row.manual = scans[i].manual /\ row.batch = scans[i].batch
                  /\ row.reviewed = scans[i].reviewed /\ row.held = scans[i].held
                  /\ row.status \in {"queued", "quarantined"}
                  /\ row.status = "queued" => row.manual = None
    <3>1. /\ scans' = [scans EXCEPT ![i].status = status, ![i].copy = None]
          /\ scans[i].manual = None
      BY <2>2 DEF LoseScan
    <3> DEFINE row == [scans[i] EXCEPT !.status = status, !.copy = None]
    <3>2. scans' = [scans EXCEPT ![i] = row]  BY <3>1
    <3>3. /\ row \in ScanRow /\ row.opp = scans[i].opp /\ row.profile = scans[i].profile
          /\ row.manual = scans[i].manual /\ row.batch = scans[i].batch
          /\ row.reviewed = scans[i].reviewed /\ row.held = scans[i].held
          /\ row.status = status
      BY <1>2 DEF ScanRow
    <3> QED  BY <3>1, <3>2, <3>3
  <2> QED  BY <2>1, <2>2
<1>4. /\ opp' \in [Opps -> OpportunityRow] /\ Gentle
      /\ req' \in [Requests -> PlanRow \cup {None}] /\ PlansStay
      /\ \A q \in Requests : req'[q] = req[q]
      /\ revived \subseteq revived' /\ revived' \subseteq Opps
  BY <1>1 DEF IndInv, TypeOK, PlansStay, SameWork, Gentle
<1>5. /\ Active(i) /\ scans[i].status # "completed" /\ (row.held => row.manual = None)
  BY <1>1, <1>3 DEF Active, IndInv, CopyInv
<1> QED  BY <1>1, <1>3, <1>4, <1>5, ScanChange

(* A worker's last transaction after a failure: a scan that is queued again *)
(* beside another one, or before a planned one, is noted.                   *)
LEMMA EndFailedStep ==
    ASSUME IndInv, NEW i \in DOMAIN scans,
           NEW status \in {"failed", "queued", "quarantined"}, EndFailed(i, status)
    PROVE  IndInv'
<1> DEFINE o == scans[i].opp
           crowded == /\ status = "queued"
                      /\ \/ ActiveScans({o}) # {}
                         \/ \E r \in Requests : req[r] # None /\ o \in req[r].queue
           row == [scans[i] EXCEPT !.status = status, !.held = FALSE]
<1>1. /\ scans[i].status = "failed" /\ scans[i].held
      /\ scans' = [scans EXCEPT ![i].status = status, ![i].held = FALSE]
      /\ revived' = IF crowded THEN revived \cup {o} ELSE revived
      /\ UNCHANGED <<opp, overrides, batch, audit, lock, req, contested>>
  BY DEF EndFailed
<1>2. scans[i] \in ScanRow /\ o \in Opps  BY ScanFields DEF IndInv, TypeOK
<1>3. scans' = [scans EXCEPT ![i] = row]  BY <1>1
<1>4. /\ row \in ScanRow /\ row.opp = scans[i].opp /\ row.profile = scans[i].profile
      /\ row.manual = scans[i].manual /\ row.batch = scans[i].batch
      /\ row.reviewed = scans[i].reviewed /\ row.held = FALSE /\ row.status = status
  BY <1>2 DEF ScanRow
<1>5. scans[i].manual = None  BY <1>1 DEF IndInv, CopyInv
<1>6. ~crowded => \/ status # "queued"
                  \/ Unclaimed(o) /\ \A q \in Requests : ~Planned(q, o)
  BY DEF ActiveScans, Unclaimed, Active, Planned
<1> HIDE DEF row, crowded
<1>7. /\ opp' \in [Opps -> OpportunityRow] /\ Gentle
      /\ req' \in [Requests -> PlanRow \cup {None}] /\ PlansStay
      /\ \A q \in Requests : req'[q] = req[q]
      /\ revived \subseteq revived' /\ revived' \subseteq Opps
  BY <1>1, <1>2 DEF IndInv, TypeOK, PlansStay, SameWork, Gentle
<1>8. \/ row.status \notin {"queued", "running"}
      \/ Active(i)
      \/ row.opp \in revived'
      \/ Unclaimed(row.opp) /\ \A q \in Requests : ~Planned(q, row.opp)
  <2>1. CASE crowded  BY <1>1, <1>4, <2>1
  <2>2. CASE ~crowded  BY <1>4, <1>6, <2>2
  <2> QED  BY <2>1, <2>2
<1>9. /\ scans[i].status # "completed" /\ row.status # "running" /\ row.status # "completed"
      /\ row.status = "queued" => row.manual = None
      /\ row.held => row.manual = None
      /\ UNCHANGED <<overrides, batch, audit, lock, contested>>
  BY <1>1, <1>4, <1>5
<1>10. \A q \in Requests : req'[q] # None =>
          /\ req'[q].row = req[q].row /\ req'[q].profile = req[q].profile
          /\ req'[q].at = "entered" => req[q].at = "entered" /\ req'[q].head = req[q].head
  BY <1>7
<1> HIDE DEF o
<1> QED  BY <1>3, <1>4, <1>7, <1>8, <1>9, <1>10, ScanChange

(* A synchronous scan completes: its result and its state are written, and  *)
(* the audit event is still to come.                                        *)
LEMMA FinishStep ==
    ASSUME IndInv, NEW i \in DOMAIN scans, NEW e \in {"complete", "partial", "fail"},
           FinishScan(i, e)
    PROVE  IndInv'
<1> DEFINE r == scans[i].manual
           to == ReviewState(scans[i].profile, e)
<1>1. /\ scans[i].status = "running" /\ r # None
      /\ req[r] # None /\ req[r].at = "scanning"
      /\ SystemMove(i, to)
      /\ scans' = [scans EXCEPT ![i].status = "completed", ![i].evidence = e,
                                ![i].gate = e # "fail", ![i].finished = Completions + 1,
                                ![i].copy = None]
      /\ req' = [req EXCEPT ![r].at = "loaded"]
      /\ UNCHANGED <<overrides, batch, audit, lock, contested, revived>>
  BY DEF FinishScan
<1>2. /\ scans[i] \in ScanRow /\ scans[i].profile \in {"testing", "full"}
      /\ r \in Requests
  BY <1>1, ScanFields DEF IndInv, TypeOK
<1>3. to \in {"needs_more_evidence", "preliminary_review", "full_review"}
  BY <1>2, ReviewStates
<1> HIDE DEF to
<1>4. /\ opp' \in [Opps -> OpportunityRow] /\ Gentle
      /\ opp'[scans[i].opp].status # "approved_for_property"
  BY <1>1, <1>3, SystemMoveEffect
<1>5. PICK n \in Nat : n = Completions + 1
  <2>1. IsFiniteSet(DOMAIN scans)
    <3>1. DOMAIN scans = 1..Len(scans) /\ Len(scans) \in Nat  BY DEF IndInv, TypeOK
    <3> QED  BY <3>1, FS_Interval
  <2>2. IsFiniteSet({j \in DOMAIN scans : scans[j].status = "completed"})
    BY <2>1, FS_Subset
  <2>3. Completions \in Nat  BY <2>2, FS_CardinalityType DEF Completions
  <2> QED  BY <2>3
<1>6. PICK gate \in BOOLEAN : gate = (e # "fail")  OBVIOUS
<1> DEFINE row == [scans[i] EXCEPT !.status = "completed", !.evidence = e,
                                   !.gate = gate, !.finished = n, !.copy = None]
<1>7. scans' = [scans EXCEPT ![i] = row]  BY <1>1, <1>5, <1>6
<1>8. /\ row \in ScanRow /\ row.opp = scans[i].opp /\ row.profile = scans[i].profile
      /\ row.manual = scans[i].manual /\ row.batch = scans[i].batch
      /\ row.reviewed = scans[i].reviewed /\ row.held = scans[i].held
      /\ row.status = "completed"
  BY <1>2 DEF ScanRow
<1> HIDE DEF row
<1>9. req[r] \in PlanRow  BY <1>1, <1>2 DEF IndInv, TypeOK
<1>10. /\ req'[r] = [req[r] EXCEPT !.at = "loaded"]
       /\ \A q \in Requests : q # r => req'[q] = req[q]
  BY <1>1, <1>2 DEF IndInv, TypeOK
<1>11. /\ req'[r] \in PlanRow /\ req'[r].at = "loaded"
       /\ req'[r].row = req[r].row /\ req'[r].profile = req[r].profile
       /\ req'[r].moves = req[r].moves /\ req'[r].queue = req[r].queue
       /\ req'[r].batch = req[r].batch /\ req'[r].rescore = req[r].rescore
  BY <1>9, <1>10 DEF PlanRow
<1>12. req' \in [Requests -> PlanRow \cup {None}]
  BY <1>1, <1>2, <1>9, <1>11 DEF IndInv, TypeOK
<1>13. PlansStay  BY <1>1, <1>10, <1>11 DEF PlansStay, SameWork
<1>14. \A q \in Requests : req'[q] # None =>
          /\ req'[q].row = req[q].row /\ req'[q].profile = req[q].profile
          /\ req'[q].at = "entered" => req[q].at = "entered" /\ req'[q].head = req[q].head
  BY <1>10, <1>11
<1>15. /\ Manual(i) /\ Active(i) /\ scans[i].status # "completed"
       /\ UNCHANGED <<overrides, batch, audit, lock, contested>>
       /\ revived \subseteq revived' /\ revived' \subseteq Opps
       /\ row.held => row.manual = None
  BY <1>1, <1>8 DEF Manual, Active, IndInv, TypeOK, CopyInv
<1> QED  BY <1>4, <1>7, <1>8, <1>12, <1>13, <1>14, <1>15, ScanChange

(* A scan fails: a worker is about to end it, a handler gives up.           *)
LEMMA FailStep ==
    ASSUME IndInv, NEW i \in DOMAIN scans, FailScan(i)
    PROVE  IndInv'
<1> DEFINE r == scans[i].manual
<1>1. /\ scans[i].status = "running"
      /\ r # None => req[r] # None
      /\ SystemMove(i, "needs_more_evidence")
      /\ scans' = [scans EXCEPT ![i].status = "failed", ![i].held = r = None, ![i].copy = None]
      /\ req' = IF r = None THEN req ELSE [req EXCEPT ![r] = None]
      /\ UNCHANGED <<overrides, batch, audit, lock, contested, revived>>
  BY DEF FailScan
<1>2. scans[i] \in ScanRow /\ r \in Requests \cup {None}
  BY ScanFields DEF IndInv, TypeOK
<1>3. opp' \in [Opps -> OpportunityRow] /\ Gentle
  BY <1>1, SystemMoveEffect
<1>4. PICK held \in BOOLEAN : held = (r = None)  OBVIOUS
<1> DEFINE row == [scans[i] EXCEPT !.status = "failed", !.held = held, !.copy = None]
<1>5. scans' = [scans EXCEPT ![i] = row]  BY <1>1, <1>4
<1>6. /\ row \in ScanRow /\ row.opp = scans[i].opp /\ row.profile = scans[i].profile
      /\ row.manual = scans[i].manual /\ row.batch = scans[i].batch
      /\ row.reviewed = scans[i].reviewed /\ row.held = held /\ row.status = "failed"
  BY <1>2 DEF ScanRow
<1> HIDE DEF row
<1>7. /\ req' \in [Requests -> PlanRow \cup {None}]
      /\ \A q \in Requests : req'[q] # None => req'[q] = req[q]
  BY <1>1, <1>2 DEF IndInv, TypeOK
<1>8. PlansStay  BY <1>7 DEF PlansStay, SameWork
<1>9. /\ scans[i].status # "completed" /\ (row.held => row.manual = None)
      /\ UNCHANGED <<overrides, batch, audit, lock, contested>>
      /\ revived \subseteq revived' /\ revived' \subseteq Opps
  BY <1>1, <1>4, <1>6 DEF IndInv, TypeOK
<1> QED  BY <1>3, <1>5, <1>6, <1>7, <1>8, <1>9, ScanChange

(* The plan of a handler that runs a scan: it is about nothing yet.         *)
LEMMA ScanningPlan ==
    ASSUME NEW events \in {1, 2}, NEW p, p = [NoPlan EXCEPT !.at = "scanning", !.events = events]
    PROVE  /\ p \in PlanRow /\ p.at = "scanning" /\ p.moves = NoMoves /\ p.queue = {}
           /\ p.batch = None /\ p.rescore = None
<1>1. /\ NoPlan \in PlanRow /\ NoPlan.moves = NoMoves /\ NoPlan.queue = {}
      /\ NoPlan.batch = None /\ NoPlan.rescore = None
  BY NoPlanType DEF NoPlan
<1> QED  BY <1>1 DEF PlanRow

(* A handler adds a scan that no review has queued: nobody else is about    *)
(* the opportunity, or that one is contested.                               *)
LEMMA AddStep ==
    ASSUME IndInv, NEW r \in Requests, NEW o \in Opps, NEW row \in ScanRow, NEW p \in PlanRow,
           row.opp = o, row.batch = None, ~row.reviewed, ~row.held,
           row.status \in {"queued", "running"},
           row.status = "queued" => row.manual = None,
           row.status = "running" =>
              row.copy \in OpportunityRow /\ row.copy.status = RunningState(row.profile),
           p.at \in {"loaded", "scanning"}, p.moves = NoMoves, p.queue = {}, p.batch = None,
           p.rescore = None,
           opp' \in [Opps -> OpportunityRow], Gentle,
           scans' = Append(scans, row), req' = [req EXCEPT ![r] = p],
           contested \subseteq contested', contested' \subseteq Opps \cup Batches,
           o \notin contested' =>
              \A q \in Requests \ {r} : req[q] # None => o \notin Subjects(req[q]),
           UNCHANGED <<overrides, batch, audit, lock, revived>>
    PROVE  IndInv'
<1> USE DEF IndInv
<1>1. req'[r] = p /\ \A q \in Requests : q # r => req'[q] = req[q]
  BY DEF TypeOK
<1>2. /\ scans' \in Seq(ScanRow) /\ DOMAIN scans' = DOMAIN scans \cup {Len(scans) + 1}
       /\ \A i \in DOMAIN scans : scans'[i] = scans[i]
       /\ scans'[Len(scans) + 1] = row /\ Len(scans) + 1 \notin DOMAIN scans
  BY AppendProperties DEF TypeOK
<1>3. ScansStay  BY <1>2 DEF ScansStay
<1>4. TypeOK'
  <2>1. req' \in [Requests -> PlanRow \cup {None}]  BY DEF TypeOK
  <2> QED  BY <1>2, <2>1 DEF TypeOK
<1>5. HeadInv'  BY <1>1 DEF HeadInv
<1>6. AuditLinear'  BY DEF AuditLinear
<1>7. PlanInv'  BY <1>1, <1>2 DEF PlanInv, Direct
<1>8. CopyInv'  BY <1>2 DEF CopyInv, RunningState
<1>9. ASSUME NEW x \in (Opps \cup Batches) \ contested', NEW q \in Requests, (req[q] # None)',
              (x \in Subjects(req[q]))'
       PROVE  q # r /\ req[q] # None /\ x \in Subjects(req[q]) /\ x # o
  <2>1. q # r  BY <1>1, <1>9 DEF Subjects, NoMoves
  <2>2. SameWork(q)  BY <1>1, <1>9, <2>1 DEF SameWork
  <2>3. x \in Subjects(req[q])  BY <1>3, <1>9, <2>2, SubjectsStay
  <2> QED  BY <1>9, <2>1, <2>2, <2>3 DEF SameWork
<1>10. SoleInv'
  <2> SUFFICES ASSUME NEW x \in (Opps \cup Batches) \ contested' PROVE Sole(x)'
    BY DEF SoleInv
  <2>1. Sole(x)  BY DEF SoleInv
  <2>2. ASSUME NEW i \in DOMAIN scans', Manual(i)', scans'[i].opp = x, x # o
        PROVE  i \in DOMAIN scans /\ Manual(i) /\ scans[i].opp = x
    BY <1>2, <2>2 DEF Manual
  <2> QED  BY <1>9, <2>1, <2>2 DEF Sole
<1>11. ApprovalInv'
  <2>1. ASSUME NEW x \in Opps, Complete(x) PROVE Complete(x)'
    <3>1. DoneStay(x)  BY <1>2 DEF DoneStay, FullDone
    <3> QED  BY <2>1, <3>1, CompleteKept DEF Gentle
  <2> SUFFICES ASSUME NEW x \in Opps \ contested'
               PROVE  /\ opp'[x].status = "approved_for_property" =>
                            opp'[x].approved /\ Complete(x)'
                      /\ \A q \in Requests : req'[q] # None =>
                            /\ Approves(req'[q], x) => Complete(x)' /\ req'[q].rescore = None
                            /\ Lowers(req'[q]) /\ scans'[req'[q].rescore.scan].opp = x =>
                                  \/ /\ x \in DOMAIN req'[q].moves
                                     /\ req'[q].moves[x].to = "needs_more_evidence"
                                     /\ req'[q].moves[x].from # "needs_more_evidence"
                                  \/ /\ x \notin DOMAIN req'[q].moves
                                     /\ opp'[x].status # "approved_for_property"
    BY DEF ApprovalInv, Approves, Lowers
  <2>2. x \in Opps \ contested  OBVIOUS
  <2>3. opp'[x].status = "approved_for_property" =>
          opp[x].status = "approved_for_property" /\ opp'[x].approved = opp[x].approved
    BY DEF Gentle
  <2>4. ASSUME NEW q \in Requests, req'[q] # None, q # r,
               Lowers(req[q]), scans'[req[q].rescore.scan].opp = x
        PROVE  scans[req[q].rescore.scan].opp = x
    BY <1>1, <1>2, <2>4 DEF PlanInv, Lowers
  <2>5. ~Approves(p, x) /\ ~Lowers(p)  BY DEF Approves, Lowers, NoMoves
  <2>6. opp'[x].status = "approved_for_property" => opp'[x].approved /\ Complete(x)'
    BY <2>1, <2>2, <2>3 DEF ApprovalInv
  <2>7. ASSUME NEW q \in Requests, req'[q] # None
        PROVE  /\ Approves(req'[q], x) => Complete(x)' /\ req'[q].rescore = None
               /\ Lowers(req'[q]) /\ scans'[req'[q].rescore.scan].opp = x =>
                     \/ /\ x \in DOMAIN req'[q].moves
                        /\ req'[q].moves[x].to = "needs_more_evidence"
                        /\ req'[q].moves[x].from # "needs_more_evidence"
                     \/ /\ x \notin DOMAIN req'[q].moves
                        /\ opp'[x].status # "approved_for_property"
    <3>1. CASE q = r  BY <1>1, <2>5, <3>1
    <3>2. CASE q # r
      <4>1. req'[q] = req[q] /\ req[q] # None  BY <1>1, <2>7, <3>2
      <4>2. Approves(req[q], x) => Complete(x)' /\ req[q].rescore = None
        BY <2>1, <2>2, <4>1 DEF ApprovalInv
      <4>3. ASSUME Lowers(req[q]), scans'[req[q].rescore.scan].opp = x
            PROVE  \/ /\ x \in DOMAIN req[q].moves
                      /\ req[q].moves[x].to = "needs_more_evidence"
                      /\ req[q].moves[x].from # "needs_more_evidence"
                   \/ /\ x \notin DOMAIN req[q].moves
                      /\ opp'[x].status # "approved_for_property"
        <5>1. scans[req[q].rescore.scan].opp = x  BY <2>4, <2>7, <3>2, <4>3
        <5> QED  BY <2>2, <2>3, <4>1, <4>3, <5>1 DEF ApprovalInv
      <4> QED  BY <4>1, <4>2, <4>3
    <3> QED  BY <3>1, <3>2
  <2> QED  BY <2>6, <2>7
<1>12. QueueInv'
  <2> SUFFICES ASSUME NEW x \in Opps \ (contested' \cup revived)
               PROVE  Ordered(x)' /\ \A q \in Requests : Planned(q, x)' => Unclaimed(x)'
    BY DEF QueueInv
  <2>1. Ordered(x) /\ \A q \in Requests : Planned(q, x) => Unclaimed(x)
    BY DEF QueueInv
  <2>2. Len(scans) \in Nat /\ DOMAIN scans = 1..Len(scans)  BY DEF TypeOK
  <2>3. Ordered(x)'
    <3> SUFFICES ASSUME NEW i \in DOMAIN scans', NEW j \in DOMAIN scans', Active(i)', Active(j)',
                        scans'[i].opp = x, scans'[j].opp = x, i < j
                 PROVE  ~scans'[j].reviewed
      BY DEF Ordered
    <3>1. CASE j = Len(scans) + 1  BY <1>2, <3>1
    <3>2. CASE j \in DOMAIN scans
      <4>1. i \in DOMAIN scans  BY <1>2, <2>2, <3>2
      <4>2. scans'[i] = scans[i] /\ scans'[j] = scans[j]  BY <1>2, <3>2, <4>1
      <4>3. Active(i) /\ Active(j)  BY <4>2 DEF Active
      <4> QED  BY <2>1, <3>2, <4>1, <4>2, <4>3 DEF Ordered
    <3> QED  BY <1>2, <3>1, <3>2
  <2>4. ASSUME NEW q \in Requests, Planned(q, x)' PROVE Unclaimed(x)'
    <3>1. q # r /\ Planned(q, x)  BY <1>1, <2>4 DEF Planned
    <3>2. x # o
      <4>1. x \in Subjects(req[q]) /\ req[q] # None  BY <3>1 DEF Planned, Subjects
      <4> QED  BY <3>1, <4>1
    <3>3. Unclaimed(x)  BY <2>1, <3>1
    <3> QED  BY <1>2, <3>2, <3>3 DEF Unclaimed, Active
  <2> QED  BY <2>3, <2>4
<1>13. BatchInv'
  <2> SUFFICES ASSUME NEW b \in Batches \ contested'
               PROVE  /\ batch[b] # None => RowSound(batch[b])
                      /\ \A i \in DOMAIN scans' : scans'[i].batch = b =>
                            /\ batch[b] # None /\ batch[b].status = "queued"
                            /\ scans'[i].opp \in batch[b].items
                      /\ \A i, j \in DOMAIN scans' :
                            /\ scans'[i].batch = b /\ scans'[j].batch = b
                            /\ scans'[i].opp = scans'[j].opp
                            => i = j
                      /\ \A q \in Requests : req'[q] # None /\ req'[q].batch = b =>
                            BatchPlan(req[q])'
    BY DEF BatchInv, RowSound, Estimate
  <2>1. b \in Batches \ contested /\ b # None  BY ReviewConstants
  <2>2. ASSUME NEW i \in DOMAIN scans', scans'[i].batch = b
        PROVE  i \in DOMAIN scans /\ scans'[i] = scans[i]
    BY <1>2, <2>1, <2>2
  <2>3. ASSUME NEW q \in Requests, req'[q] # None, req'[q].batch = b
        PROVE  BatchPlan(req[q])'
    <3>1. q # r /\ req'[q] = req[q]  BY <1>1, <2>1, <2>3
    <3>2. BatchPlan(req[q])  BY <2>1, <2>3, <3>1 DEF BatchInv
    <3>3. RowSound(req[q].row)' <=> RowSound(req[q].row)  BY <3>1 DEF RowSound, Estimate
    <3> QED  BY <2>2, <2>3, <3>1, <3>2, <3>3 DEF BatchPlan
  <2> QED  BY <2>1, <2>2, <2>3 DEF BatchInv
<1> QED
  BY <1>4, <1>5, <1>6, <1>7, <1>8, <1>10, <1>11, <1>12, <1>13

(* A handler starts a scan of its own: if a request is about the            *)
(* opportunity already, that one is contested from here on.                 *)
LEMMA SyncStep ==
    ASSUME IndInv, NEW r \in Requests, req[r] = None, NEW o \in Opps,
           NEW profile \in {"testing", "full"}, NEW live \in BOOLEAN, NEW confirmed \in BOOLEAN,
           SyncScan(r, o, profile, live, confirmed)
    PROVE  IndInv'
<1> DEFINE running == RunningState(profile)
           m == Move(opp[o], running)
           c == IF opp[o].status = running THEN opp[o] ELSE Flushed(o, m, FALSE)
           row == [opp |-> o, profile |-> profile, batch |-> None, reviewed |-> FALSE,
                   manual |-> r, status |-> "running", evidence |-> None, gate |-> FALSE,
                   held |-> FALSE, finished |-> 0, copy |-> c]
           events == IF confirmed THEN 2 ELSE 1
           p == [NoPlan EXCEPT !.at = "scanning", !.events = events]
<1>1. /\ opp' = [opp EXCEPT ![o] = c]
      /\ scans' = Append(scans, row)
      /\ req' = [req EXCEPT ![r] = p]
      /\ contested' = contested \cup ({o} \cap UnderWay)
      /\ UNCHANGED <<overrides, batch, audit, lock, revived>>
  BY DEF SyncScan
<1>2. running \in OppStates \ {"approved_for_property"}
  BY DEF RunningState, OppStates
<1>3. opp[o] \in OpportunityRow /\ opp[o].status \in OppStates /\ opp[o].version \in Nat
  BY DEF IndInv, TypeOK, OpportunityRow
<1>4. m.from = opp[o].status /\ m.to = running /\ m.version \in Nat
  BY <1>3 DEF Move
<1> HIDE DEF running, m
<1>5. c \in OpportunityRow /\ c.status = running /\ (opp[o].owner => c.owner)
  BY <1>2, <1>3, <1>4, FlushedFields DEF IndInv
<1> HIDE DEF c
<1>6. /\ row \in ScanRow /\ row.opp = o /\ row.status = "running" /\ row.batch = None
      /\ row.copy = c /\ row.profile = profile /\ ~row.reviewed /\ ~row.held
  BY <1>5 DEF ScanRow
<1>7. events \in {1, 2}  OBVIOUS
<1> HIDE DEF events
<1>8. /\ p \in PlanRow /\ p.at = "scanning" /\ p.moves = NoMoves /\ p.queue = {}
      /\ p.batch = None /\ p.rescore = None
  BY <1>7, ScanningPlan
<1> HIDE DEF row, p
<1>9. /\ opp' \in [Opps -> OpportunityRow] /\ opp'[o] = c
      /\ \A x \in Opps : x # o => opp'[x] = opp[x]
  BY <1>1, <1>5 DEF IndInv, TypeOK
<1>10. Gentle  BY <1>2, <1>5, <1>9 DEF Gentle
<1>11. row.copy \in OpportunityRow /\ row.copy.status = RunningState(row.profile)
  BY <1>5, <1>6 DEF running
<1>12. o \notin contested' =>
         \A q \in Requests \ {r} : req[q] # None => o \notin Subjects(req[q])
  BY <1>1 DEF UnderWay
<1>13. contested \subseteq contested' /\ contested' \subseteq Opps \cup Batches
  BY <1>1 DEF IndInv, TypeOK
<1> QED  BY <1>1, <1>6, <1>8, <1>9, <1>10, <1>11, <1>12, <1>13, AddStep

(* What a plan's moves do to the opportunities.                             *)
LEMMA MovedOpps ==
    ASSUME IndInv, NEW r \in Requests, req[r] # None, opp' = Moved(req[r])
    PROVE  /\ opp' \in [Opps -> OpportunityRow]
           /\ \A o \in Opps :
                 /\ o \notin DOMAIN req[r].moves => opp'[o] = opp[o]
                 /\ o \in DOMAIN req[r].moves =>
                       LET m == req[r].moves[o] IN
                       /\ opp'[o].status = (IF m.to = m.from THEN opp[o].status ELSE m.to)
                       /\ m.to # m.from /\ m.to = "approved_for_property" => opp'[o].approved
                       /\ m.to = m.from => opp'[o].approved = opp[o].approved
                 /\ opp[o].owner => opp'[o].owner
<1> USE DEF IndInv
<1> DEFINE p == req[r]
<1>1. /\ p # None
      /\ opp' = [o \in Opps |-> IF o \in DOMAIN p.moves
                                THEN Flushed(o, p.moves[o], p.owner) ELSE opp[o]]
  BY DEF Moved
<1>2. /\ p.owner \in BOOLEAN
      /\ \A o \in DOMAIN p.moves : p.moves[o] \in MoveRow
  BY <1>1, PlanFields DEF TypeOK
<1> HIDE DEF p
<1>3. ASSUME NEW o \in Opps, o \in DOMAIN p.moves
      PROVE  LET m == p.moves[o] IN
             /\ Flushed(o, m, p.owner) \in OpportunityRow
             /\ Flushed(o, m, p.owner).status = (IF m.to = m.from THEN opp[o].status ELSE m.to)
             /\ opp[o].owner => Flushed(o, m, p.owner).owner
             /\ m.to # m.from /\ m.to = "approved_for_property" =>
                   Flushed(o, m, p.owner).approved
             /\ m.to = m.from => Flushed(o, m, p.owner).approved = opp[o].approved
  <2>1. /\ p.moves[o].from \in OppStates /\ p.moves[o].to \in OppStates
        /\ p.moves[o].version \in Nat
    BY <1>2, <1>3, ReviewConstants DEF MoveRow
  <2>2. PICK m : m = p.moves[o]  OBVIOUS
  <2>3. m.from \in OppStates /\ m.to \in OppStates /\ m.version \in Nat  BY <2>1, <2>2
  <2>4. /\ Flushed(o, m, p.owner) \in OpportunityRow
        /\ Flushed(o, m, p.owner).status = (IF m.to = m.from THEN opp[o].status ELSE m.to)
        /\ opp[o].owner => Flushed(o, m, p.owner).owner
        /\ m.to # m.from /\ m.to = "approved_for_property" => Flushed(o, m, p.owner).approved
        /\ m.to = m.from => Flushed(o, m, p.owner).approved = opp[o].approved
    BY <1>2, <2>3, FlushedFields
  <2> QED  BY <2>2, <2>4, Zenon
<1>4. opp' \in [Opps -> OpportunityRow]
  <2>1. \A o \in Opps : opp[o] \in OpportunityRow  BY DEF TypeOK
  <2> QED  BY <1>1, <1>3, <2>1
<1>5. \A o \in Opps : opp'[o] = IF o \in DOMAIN p.moves
                                THEN Flushed(o, p.moves[o], p.owner) ELSE opp[o]
  BY <1>1
<1> QED  BY <1>3, <1>4, <1>5 DEF p

(* _queue_scan commits: a scan is queued and the opportunity moves to       *)
(* testing_planned at most.                                                 *)
LEMMA DirectStep ==
    ASSUME IndInv, NEW r \in Requests, CommitDirect(r)
    PROVE  IndInv'
<1> DEFINE p == req[r]
           new == [NoPlan EXCEPT !.events = p.events]
<1>1. /\ p # None /\ p.at = "queueing" /\ opp' = Moved(p)
      /\ \E o \in p.queue : scans' = Append(scans, NewScan(o, p))
      /\ req' = [req EXCEPT ![r] = new]
      /\ UNCHANGED <<overrides, batch, audit, lock, contested, revived>>
  BY DEF CommitDirect
<1>2. /\ p \in PlanRow /\ Direct(p) /\ p.queue \in SUBSET Opps /\ p.events \in {1, 2}
      /\ p.queue # {} => p.profile \in {"testing", "full"}
  BY <1>1, PlanFields DEF IndInv, TypeOK, PlanInv
<1>3. PICK o \in p.queue : scans' = Append(scans, NewScan(o, p))  BY <1>1
<1>4. PICK row : row = NewScan(o, p)  OBVIOUS
<1>5. /\ row \in ScanRow /\ row.opp = o /\ row.status = "queued" /\ row.manual = None
      /\ row.batch = None /\ ~row.reviewed /\ ~row.held
  <2>1. PICK reviewed \in BOOLEAN : reviewed = (p.at = "entered")  OBVIOUS
  <2>2. ~reviewed  BY <1>1, <2>1
  <2>3. row = [opp |-> o, profile |-> p.profile, batch |-> None, reviewed |-> reviewed,
               manual |-> None, status |-> "queued", evidence |-> None, gate |-> FALSE,
               held |-> FALSE, finished |-> 0, copy |-> None]
    BY <1>2, <1>4, <2>1 DEF NewScan, Direct
  <2>4. o \in Opps /\ p.profile \in {"testing", "full"}  BY <1>2
  <2> QED  BY <2>2, <2>3, <2>4 DEF ScanRow
<1>6. PICK events \in {1, 2} : events = p.events  BY <1>2
<1>7. /\ new = [NoPlan EXCEPT !.events = events]
      /\ NoPlan \in PlanRow /\ NoPlan.at = "loaded" /\ NoPlan.moves = NoMoves
      /\ NoPlan.queue = {} /\ NoPlan.batch = None /\ NoPlan.rescore = None
  BY <1>6, NoPlanType DEF NoPlan
<1>8. /\ new \in PlanRow /\ new.at = "loaded" /\ new.moves = NoMoves /\ new.queue = {}
      /\ new.batch = None /\ new.rescore = None
  <2> HIDE DEF new
  <2> QED  BY <1>7 DEF PlanRow
<1>9. opp' \in [Opps -> OpportunityRow] /\ Gentle
  <2>1. opp' \in [Opps -> OpportunityRow]  BY <1>1, MovedOpps
  <2>2. ASSUME NEW x \in Opps
        PROVE  /\ opp[x].owner => opp'[x].owner
               /\ opp'[x].status = "approved_for_property" =>
                     /\ opp[x].status = "approved_for_property"
                     /\ opp'[x].approved = opp[x].approved
    <3>1. CASE x \notin DOMAIN p.moves  BY <1>1, <3>1, MovedOpps
    <3>2. CASE x \in DOMAIN p.moves
      <4>1. p.moves[x].to = "testing_planned"  BY <1>2, <3>2 DEF Direct
      <4>2. /\ opp'[x].status =
                  (IF p.moves[x].to = p.moves[x].from THEN opp[x].status ELSE p.moves[x].to)
            /\ p.moves[x].to = p.moves[x].from => opp'[x].approved = opp[x].approved
            /\ opp[x].owner => opp'[x].owner
        BY <1>1, <3>2, MovedOpps
      <4> QED  BY <4>1, <4>2
    <3> QED  BY <3>1, <3>2
  <2> QED  BY <2>1, <2>2 DEF Gentle
<1>10. o \notin contested' =>
         \A q \in Requests \ {r} : req[q] # None => o \notin Subjects(req[q])
  <2>1. o \in Opps /\ o \in Subjects(req[r])  BY <1>2 DEF Subjects
  <2> QED  BY <1>1, <2>1 DEF IndInv, SoleInv, Sole
<1> HIDE DEF new
<1>11. contested \subseteq contested' /\ contested' \subseteq Opps \cup Batches
  BY <1>1 DEF IndInv, TypeOK
<1> QED  BY <1>1, <1>2, <1>3, <1>4, <1>5, <1>8, <1>9, <1>10, <1>11, AddStep

(* The scans a plan queues: one of each of its opportunities.               *)
LEMMA QueuedScans ==
    ASSUME TypeOK, NEW p \in PlanRow, p.queue # {} => p.profile \in {"testing", "full"}
    PROVE  /\ Queued(p) \in Seq(ScanRow)
           /\ \A k \in DOMAIN Queued(p) :
                 /\ Queued(p)[k].status = "queued" /\ Queued(p)[k].manual = None
                 /\ ~Queued(p)[k].held
                 /\ Queued(p)[k].opp \in p.queue /\ Queued(p)[k].batch = p.batch
           /\ \A k, l \in DOMAIN Queued(p) : Queued(p)[k].opp = Queued(p)[l].opp => k = l
<1> DEFINE n == Cardinality(p.queue)
           Order(s) == \A i, j \in DOMAIN s : s[i] = s[j] => i = j
           order == CHOOSE s \in [1..n -> p.queue] : Order(s)
<1>1. p.queue \in SUBSET Opps /\ p.batch \in Batches \cup {None}  BY PlanFields
<1>2. IsFiniteSet(p.queue)  BY <1>1, ReviewConstants, FS_Subset
<1>3. n \in Nat /\ \E s \in [1..n -> p.queue] : Order(s)
  <2>1. n \in Nat /\ ExistsBijection(1..n, p.queue)  BY <1>2, FS_CardinalityType
  <2> QED  BY <2>1 DEF ExistsBijection, Bijection, Injection, IsInjective
<1>4. order \in [1..n -> p.queue] /\ Order(order)  BY <1>3
<1>5. Queued(p) = [k \in DOMAIN order |-> NewScan(order[k], p)]  BY DEF Queued
<1> HIDE DEF order, n
<1>6. DOMAIN order = 1..n /\ \A k \in 1..n : order[k] \in p.queue  BY <1>4
<1>7. ASSUME NEW k \in 1..n
      PROVE  /\ NewScan(order[k], p) \in ScanRow /\ NewScan(order[k], p).opp = order[k]
             /\ NewScan(order[k], p).status = "queued" /\ NewScan(order[k], p).manual = None
             /\ NewScan(order[k], p).batch = p.batch /\ ~NewScan(order[k], p).held
  <2>1. order[k] \in Opps /\ p.profile \in {"testing", "full"}  BY <1>1, <1>6
  <2>2. PICK reviewed \in BOOLEAN : reviewed = (p.at = "entered")  OBVIOUS
  <2>3. NewScan(order[k], p) =
          [opp |-> order[k], profile |-> p.profile, batch |-> p.batch, reviewed |-> reviewed,
           manual |-> None, status |-> "queued", evidence |-> None, gate |-> FALSE,
           held |-> FALSE, finished |-> 0, copy |-> None]
    BY <2>2 DEF NewScan
  <2> QED  BY <1>1, <2>1, <2>3 DEF ScanRow
<1>8. /\ DOMAIN Queued(p) = 1..n
      /\ \A k \in 1..n : Queued(p)[k] = NewScan(order[k], p)
  BY <1>5, <1>6
<1>9. Queued(p) \in Seq(ScanRow)
  <2>1. Queued(p) \in [1..n -> ScanRow]  BY <1>5, <1>6, <1>7
  <2> QED  BY <1>3, <2>1
<1> QED  BY <1>4, <1>6, <1>7, <1>8, <1>9

(* What a commit does to the scans: those that are there keep all but the   *)
(* score of a rescore, the new ones are queued, one of each opportunity.    *)
LEMMA CommitScans ==
    ASSUME IndInv, NEW r \in Requests, Commit(r)
    PROVE  /\ scans' \in Seq(ScanRow) /\ DOMAIN scans \subseteq DOMAIN scans'
           /\ \A i \in DOMAIN scans :
                 /\ scans'[i].opp = scans[i].opp /\ scans'[i].profile = scans[i].profile
                 /\ scans'[i].manual = scans[i].manual /\ scans'[i].status = scans[i].status
                 /\ scans'[i].gate = scans[i].gate /\ scans'[i].finished = scans[i].finished
                 /\ scans'[i].copy = scans[i].copy /\ scans'[i].batch = scans[i].batch
                 /\ scans'[i].reviewed = scans[i].reviewed /\ scans'[i].held = scans[i].held
                 /\ \/ scans'[i].evidence = scans[i].evidence
                    \/ /\ req[r].rescore # None /\ req[r].rescore.full
                       /\ req[r].rescore.scan = i
                       /\ scans'[i].evidence = req[r].rescore.evidence
           /\ \A i \in DOMAIN scans' \ DOMAIN scans :
                 /\ scans'[i].status = "queued" /\ scans'[i].manual = None /\ ~scans'[i].held
                 /\ scans'[i].opp \in req[r].queue /\ scans'[i].batch = req[r].batch
           /\ \A i, j \in DOMAIN scans' \ DOMAIN scans :
                 scans'[i].opp = scans'[j].opp => i = j
<1> USE DEF IndInv
<1> DEFINE p == req[r]
<1>1. /\ p # None
      /\ scans' = IF p.rescore # None /\ p.rescore.full
                  THEN [scans EXCEPT ![p.rescore.scan].evidence = p.rescore.evidence]
                  ELSE scans \o Queued(p)
  BY DEF Commit
<1>2. p \in PlanRow /\ (p.queue # {} => p.profile \in {"testing", "full"})
  BY <1>1 DEF TypeOK, PlanInv
<1>3. CASE p.rescore # None /\ p.rescore.full
  <2>1. p.rescore \in Scores /\ p.rescore.scan \in DOMAIN scans
    BY <1>1, <1>2, <1>3, PlanFields DEF PlanInv
  <2>2. PICK k \in DOMAIN scans : k = p.rescore.scan  BY <2>1
  <2>3. PICK e \in {"complete", "partial", "fail"} : e = p.rescore.evidence
    BY <2>1 DEF Scores
  <2>4. scans[k] \in ScanRow  BY ScanFields DEF TypeOK
  <2> DEFINE row == [scans[k] EXCEPT !.evidence = e]
  <2>5. /\ row \in ScanRow /\ row.opp = scans[k].opp /\ row.profile = scans[k].profile
        /\ row.manual = scans[k].manual /\ row.status = scans[k].status
        /\ row.gate = scans[k].gate /\ row.finished = scans[k].finished
        /\ row.copy = scans[k].copy /\ row.batch = scans[k].batch /\ row.evidence = e
        /\ row.reviewed = scans[k].reviewed /\ row.held = scans[k].held
    BY <2>4 DEF ScanRow
  <2>6. scans' = [scans EXCEPT ![k] = row]  BY <1>1, <1>3, <2>2, <2>3
  <2> HIDE DEF row, p
  <2>7. /\ scans' \in Seq(ScanRow) /\ DOMAIN scans' = DOMAIN scans /\ scans'[k] = row
        /\ \A i \in DOMAIN scans : i # k => scans'[i] = scans[i]
    BY <2>5, <2>6 DEF TypeOK
  <2> QED  BY <1>3, <2>2, <2>3, <2>5, <2>7 DEF p
<1>4. CASE ~(p.rescore # None /\ p.rescore.full)
  <2>1. PICK new \in Seq(ScanRow) :
          /\ scans' = scans \o new
          /\ \A k \in DOMAIN new :
                /\ new[k].status = "queued" /\ new[k].manual = None /\ ~new[k].held
                /\ new[k].opp \in p.queue /\ new[k].batch = p.batch
          /\ \A k, l \in DOMAIN new : new[k].opp = new[l].opp => k = l
    BY <1>1, <1>2, <1>4, QueuedScans
  <2> HIDE DEF p
  <2>2. /\ scans' \in Seq(ScanRow) /\ Len(scans') = Len(scans) + Len(new)
        /\ DOMAIN scans = 1..Len(scans) /\ DOMAIN new = 1..Len(new)
        /\ DOMAIN scans' = 1..(Len(scans) + Len(new))
        /\ \A i \in DOMAIN scans : scans'[i] = scans[i]
        /\ \A i \in DOMAIN scans' \ DOMAIN scans :
              i - Len(scans) \in DOMAIN new /\ scans'[i] = new[i - Len(scans)]
    BY <2>1, ConcatProperties DEF TypeOK
  <2>3. Len(scans) \in Nat  BY DEF TypeOK
  <2> QED  BY <2>1, <2>2, <2>3 DEF p
<1> QED  BY <1>3, <1>4

(* What a commit writes to the audit log: the events of its transaction,    *)
(* linked to the head it has read, which is still the newest event.         *)
LEMMA CommitAudit ==
    ASSUME IndInv, NEW r \in Requests, Commit(r)
    PROVE  audit' \in Seq([head : Nat, second : BOOLEAN]) /\ AuditLinear'
<1> USE DEF IndInv
<1>1. req[r] # None /\ req[r].at = "entered" /\ audit' = audit \o Appended(req[r])
  BY DEF Commit
<1>2. req[r] \in PlanRow /\ req[r].events \in {1, 2} /\ req[r].head = Len(audit)
  BY <1>1, PlanFields DEF TypeOK, HeadInv
<1>3. PICK n \in {1, 2} : n = req[r].events  BY <1>2
<1>4. PICK h \in Nat : h = Len(audit)  BY DEF TypeOK
<1> DEFINE new == [k \in 1..n |-> [head |-> h, second |-> k = 2]]
<1>5. Appended(req[r]) = new  BY <1>2, <1>3, <1>4 DEF Appended
<1>6. /\ new \in Seq([head : Nat, second : BOOLEAN]) /\ Len(new) = n
      /\ \A k \in 1..n : /\ new[k].head = h
                         /\ k = 1 => new[k].second = FALSE
                         /\ k = 2 => new[k].second = TRUE
  <2>1. ASSUME NEW k \in 1..n PROVE new[k] = [head |-> h, second |-> k = 2]  OBVIOUS
  <2>2. new \in [1..n -> [head : Nat, second : BOOLEAN]]  OBVIOUS
  <2>3. new \in Seq([head : Nat, second : BOOLEAN]) /\ Len(new) = n  BY <2>2
  <2>4. ASSUME NEW k \in 1..n PROVE new[k].head = h /\ new[k].second = (k = 2)
    BY <2>1
  <2> HIDE DEF new
  <2>5. ASSUME NEW k \in 1..n
        PROVE  (k = 1 => new[k].second = FALSE) /\ (k = 2 => new[k].second = TRUE)
    <3>1. k = 1 => (k = 2) = FALSE  OBVIOUS
    <3>2. k = 2 => (k = 2) = TRUE  OBVIOUS
    <3> QED  BY <2>4, <3>1, <3>2, Zenon
  <2> QED  BY <2>3, <2>4, <2>5
<1> HIDE DEF new
<1>7. /\ audit' \in Seq([head : Nat, second : BOOLEAN])
      /\ DOMAIN audit' = 1..(h + n) /\ DOMAIN audit = 1..h
      /\ \A i \in 1..h : audit'[i] = audit[i]
      /\ \A i \in (h + 1)..(h + n) : audit'[i] = new[i - h]
  BY <1>1, <1>4, <1>5, <1>6, ConcatProperties DEF TypeOK
<1>8. ASSUME NEW i \in 1..(h + n)
      PROVE  audit'[i].head = IF audit'[i].second THEN i - 2 ELSE i - 1
  <2>1. CASE i \in 1..h  BY <1>7, <2>1 DEF AuditLinear
  <2>2. CASE i \in (h + 1)..(h + n)
    <3>1. i - h \in 1..n /\ audit'[i] = new[i - h]  BY <1>7, <2>2
    <3>2. /\ audit'[i].head = h
          /\ i - h = 1 => audit'[i].second = FALSE
          /\ i - h = 2 => audit'[i].second = TRUE
      BY <1>6, <3>1
    <3>3. i - h = 1 \/ i - h = 2  BY <3>1
    <3> QED  BY <3>2, <3>3
  <2> QED  BY <2>1, <2>2
<1> QED  BY <1>7, <1>8 DEF AuditLinear

(* What a commit does to an opportunity: the plan's move, if it has one.    *)
LEMMA CommitOpps ==
    ASSUME IndInv, NEW r \in Requests, Commit(r)
    PROVE  /\ opp' \in [Opps -> OpportunityRow]
           /\ \A o \in Opps :
                 /\ o \notin DOMAIN req[r].moves => opp'[o] = opp[o]
                 /\ o \in DOMAIN req[r].moves =>
                       LET m == req[r].moves[o] IN
                       /\ opp'[o].status = (IF m.to = m.from THEN opp[o].status ELSE m.to)
                       /\ m.to # m.from /\ m.to = "approved_for_property" => opp'[o].approved
                       /\ m.to = m.from => opp'[o].approved = opp[o].approved
                 /\ opp[o].owner => opp'[o].owner
<1>1. req[r] # None /\ opp' = Moved(req[r])  BY DEF Commit
<1> QED  BY <1>1, MovedOpps

(* A commit: the plan may be out of date, but what an approval rests on is  *)
(* not, and a plan that takes it away takes the approval too.               *)
LEMMA CommitStep ==
    ASSUME IndInv, NEW r \in Requests, Commit(r)
    PROVE  IndInv'
<1> USE DEF IndInv
<1> DEFINE p == req[r]
<1>1. /\ p # None /\ p.at = "entered"
      /\ overrides' = IF p.override = None THEN overrides ELSE Append(overrides, p.override)
      /\ batch' = IF p.batch = None THEN batch ELSE [batch EXCEPT ![p.batch] = p.row]
      /\ lock' = (IF lock = r THEN None ELSE lock) /\ req' = [req EXCEPT ![r] = None]
      /\ contested' = contested /\ revived' = revived
  BY DEF Commit, Done
<1>2. /\ p \in PlanRow /\ p.override \in OverrideRow \cup {None}
      /\ p.batch \in Batches \cup {None}
      /\ p.batch # None => p.row \in BatchRow
  BY <1>1, PlanFields DEF TypeOK, PlanInv
<1>3. lock = r  BY <1>1 DEF HeadInv
<1> HIDE DEF p
<1>4. req'[r] = None /\ \A q \in Requests : q # r => req'[q] = req[q]
  BY <1>1 DEF TypeOK
<1>5. PlansStay  BY <1>4 DEF PlansStay, SameWork
<1>6. ScansStay  BY CommitScans DEF ScansStay
<1>7. TypeOK'
  <2>1. overrides' \in Seq(OverrideRow)  BY <1>1, <1>2 DEF TypeOK
  <2>2. batch' \in [Batches -> BatchRow \cup {None}]  BY <1>1, <1>2 DEF TypeOK
  <2>3. req' \in [Requests -> PlanRow \cup {None}] /\ lock' \in Requests \cup {None}
    BY <1>1 DEF TypeOK
  <2> QED  BY <1>1, <2>1, <2>2, <2>3, CommitScans, CommitAudit, CommitOpps DEF TypeOK
<1>8. HeadInv'  BY <1>3, <1>4 DEF HeadInv
<1>9. AuditLinear'  BY CommitAudit
<1>10. PlanInv'  BY <1>4, CommitScans DEF PlanInv, Direct
<1>11. CopyInv'
  <2> SUFFICES ASSUME NEW i \in DOMAIN scans'
               PROVE  /\ scans'[i].status = "queued" => scans'[i].manual = None
                      /\ scans'[i].held => scans'[i].manual = None
                      /\ scans'[i].status = "running" =>
                            /\ scans'[i].copy \in OpportunityRow
                            /\ scans'[i].copy.status = RunningState(scans'[i].profile)
    BY DEF CopyInv, RunningState
  <2>1. CASE i \in DOMAIN scans  BY <2>1, CommitScans DEF CopyInv
  <2>2. CASE i \notin DOMAIN scans  BY <2>2, CommitScans
  <2> QED  BY <2>1, <2>2
<1>12. SoleInv'
  <2>1. \A i \in DOMAIN scans' : Manual(i)' => i \in DOMAIN scans /\ Manual(i)
    BY CommitScans DEF Manual
  <2> QED  BY <1>1, <1>5, <1>6, <2>1, SoleKept
<1>13. ASSUME NEW o \in (Opps \cup Batches) \ contested, NEW q \in Requests, req'[q] # None,
              o \in Subjects(req[q])
       PROVE  o \notin Subjects(p)
  <2>1. q # r /\ req[q] # None  BY <1>4, <1>13
  <2> QED  BY <1>1, <1>13, <2>1 DEF SoleInv, Sole, p
<1>14. QueueInv'
  <2> SUFFICES ASSUME NEW o \in Opps \ (contested \cup revived)
               PROVE  Ordered(o)' /\ \A q \in Requests : Planned(q, o)' => Unclaimed(o)'
    BY <1>1 DEF QueueInv
  <2>1. ASSUME NEW i \in DOMAIN scans', Active(i)', scans'[i].opp = o
        PROVE  \/ /\ i \in DOMAIN scans /\ Active(i) /\ scans[i].opp = o
                  /\ scans'[i].reviewed = scans[i].reviewed
               \/ i \notin DOMAIN scans /\ o \in p.queue
    BY <2>1, CommitScans DEF Active, p
  <2>2. o \in p.queue => Unclaimed(o)
    <3>1. o \in p.queue => Planned(r, o)  BY <1>1 DEF Planned, p
    <3> QED  BY <3>1 DEF QueueInv
  <2>3. ASSUME NEW i \in DOMAIN scans', NEW j \in DOMAIN scans', Active(i)', Active(j)',
               scans'[i].opp = o, scans'[j].opp = o, i < j
        PROVE  ~scans'[j].reviewed
    <3>1. CASE i \in DOMAIN scans /\ j \in DOMAIN scans
      BY <2>1, <2>3, <3>1 DEF QueueInv, Ordered
    <3>2. CASE i \notin DOMAIN scans /\ j \notin DOMAIN scans
      <4>1. i = j  BY <2>3, <3>2, CommitScans
      <4>2. i \in Nat  BY CommitScans
      <4> QED  BY <2>3, <4>1, <4>2
    <3> QED  BY <2>1, <2>2, <2>3, <3>1, <3>2 DEF Unclaimed
  <2>4. ASSUME NEW q \in Requests, Planned(q, o)' PROVE Unclaimed(o)'
    <3>1. q # r /\ Planned(q, o) /\ req'[q] # None  BY <1>4, <2>4 DEF Planned
    <3>2. o \in Subjects(req[q])  BY <3>1 DEF Planned, Subjects
    <3>3. o \notin p.queue  BY <1>13, <3>1, <3>2 DEF Subjects
    <3>4. Unclaimed(o)  BY <3>1 DEF QueueInv
    <3> QED  BY <2>1, <3>3, <3>4 DEF Unclaimed
  <2> QED  BY <2>3, <2>4 DEF Ordered
<1>15. ApprovalInv'
  <2> SUFFICES ASSUME NEW o \in Opps \ contested
      PROVE  /\ opp'[o].status = "approved_for_property" => opp'[o].approved /\ Complete(o)'
             /\ \A q \in Requests : req'[q] # None =>
                   /\ Approves(req[q], o) => Complete(o)'
                   /\ /\ Lowers(req[q]) /\ scans[req[q].rescore.scan].opp = o
                      /\ opp[o].status # "approved_for_property"
                      => opp'[o].status # "approved_for_property"
    BY <1>1, <1>5, <1>6, ApprovalKept
  <2> DEFINE lowered == Lowers(p) /\ scans[p.rescore.scan].opp = o
  <2>1. ASSUME ~lowered, Complete(o) PROVE Complete(o)'
    <3>1. DoneStay(o)
      BY <2>1, CommitScans DEF DoneStay, FullDone, Lowers, p
    <3> QED  BY <2>1, <3>1, CommitOpps, CompleteKept
  <2>2. lowered => opp'[o].status # "approved_for_property"
    BY <1>1, CommitOpps DEF ApprovalInv, p
  <2>3. ASSUME opp'[o].status = "approved_for_property"
        PROVE  opp'[o].approved /\ Complete(o)'
    <3>1. CASE o \notin DOMAIN p.moves
      <4>1. opp'[o] = opp[o]  BY <3>1, CommitOpps DEF p
      <4> QED  BY <2>1, <2>2, <2>3, <4>1 DEF ApprovalInv
    <3>2. CASE o \in DOMAIN p.moves /\ p.moves[o].to = p.moves[o].from
      <4>1. opp'[o].status = opp[o].status /\ opp'[o].approved = opp[o].approved
        BY <3>2, CommitOpps DEF p
      <4> QED  BY <2>1, <2>2, <2>3, <4>1 DEF ApprovalInv
    <3>3. CASE o \in DOMAIN p.moves /\ p.moves[o].to # p.moves[o].from
      <4>1. p.moves[o].to = "approved_for_property" /\ opp'[o].approved
        BY <2>3, <3>3, CommitOpps DEF p
      <4>2. Approves(p, o)  BY <3>3, <4>1 DEF Approves
      <4>3. Complete(o)  BY <1>1, <4>2 DEF ApprovalInv, p
      <4> QED  BY <2>1, <2>2, <2>3, <4>1, <4>3
    <3> QED  BY <3>1, <3>2, <3>3
  <2>4. ASSUME NEW q \in Requests, req'[q] # None, Approves(req[q], o)
        PROVE  Complete(o)'
    <3>1. req[q] # None  BY <1>4, <2>4
    <3>2. o \in Subjects(req[q])  BY <2>4 DEF Approves, Subjects
    <3>3. ~lowered  BY <1>13, <2>4, <3>2 DEF Subjects, Lowers
    <3>4. Complete(o)  BY <2>4, <3>1 DEF ApprovalInv
    <3> QED  BY <2>1, <3>3, <3>4
  <2>5. ASSUME NEW q \in Requests, req'[q] # None, Lowers(req[q]),
               scans[req[q].rescore.scan].opp = o, opp[o].status # "approved_for_property"
        PROVE  opp'[o].status # "approved_for_property"
    <3>1. o \in Subjects(req[q])  BY <2>5 DEF Lowers, Subjects
    <3>2. o \notin DOMAIN p.moves  BY <1>13, <2>5, <3>1 DEF Subjects
    <3> QED  BY <2>5, <3>2, CommitOpps DEF p
  <2> QED  BY <2>3, <2>4, <2>5
<1>16. BatchInv'
  <2> SUFFICES ASSUME NEW b \in Batches \ contested
               PROVE  /\ batch'[b] # None => RowSound(batch'[b])
                      /\ \A i \in DOMAIN scans' : scans'[i].batch = b =>
                            /\ batch'[b] # None /\ batch'[b].status = "queued"
                            /\ scans'[i].opp \in batch'[b].items
                      /\ \A i, j \in DOMAIN scans' :
                            /\ scans'[i].batch = b /\ scans'[j].batch = b
                            /\ scans'[i].opp = scans'[j].opp
                            => i = j
                      /\ \A q \in Requests : req'[q] # None /\ req'[q].batch = b =>
                            BatchPlan(req[q])'
    BY <1>1 DEF BatchInv, RowSound, Estimate
  <2>1. b # None  BY ReviewConstants
  <2>2. ASSUME NEW q \in Requests, req'[q] # None, req'[q].batch = b
        PROVE  BatchPlan(req[q])'
    <3>1. q # r /\ req'[q] = req[q] /\ req[q] # None  BY <1>4, <2>2
    <3>2. b \in Subjects(req[q])  BY <2>1, <2>2, <3>1 DEF Subjects
    <3>3. p.batch # b  BY <1>13, <2>1, <2>2, <3>2 DEF Subjects
    <3>4. BatchPlan(req[q])  BY <2>2, <3>1 DEF BatchInv
    <3>5. RowSound(req[q].row)' <=> RowSound(req[q].row)  BY <3>1 DEF RowSound, Estimate
    <3>6. \A i \in DOMAIN scans' : scans'[i].batch # b
      BY <2>2, <3>1, <3>3, <3>4, CommitScans DEF BatchPlan, p
    <3> QED  BY <2>2, <3>1, <3>4, <3>5, <3>6 DEF BatchPlan
  <2>3. CASE p.batch = b
    <3>1. batch'[b] = p.row /\ p.row \in BatchRow  BY <1>1, <1>2, <2>1, <2>3 DEF TypeOK
    <3>2. batch'[b] # None  BY <3>1, NoneIsNoRow
    <3>3. BatchPlan(p)  BY <1>1, <2>3 DEF BatchInv, p
    <3>4. \A i \in DOMAIN scans : scans'[i].batch # b
      BY <2>3, <3>3, CommitScans DEF BatchPlan
    <3>5. ASSUME NEW i \in DOMAIN scans', scans'[i].batch = b
          PROVE  i \notin DOMAIN scans /\ scans'[i].opp \in p.queue
      BY <3>4, <3>5, CommitScans DEF p
    <3>6. \A i, j \in DOMAIN scans' :
             scans'[i].batch = b /\ scans'[j].batch = b /\ scans'[i].opp = scans'[j].opp
                => i = j
      BY <3>5, CommitScans
    <3> QED  BY <2>2, <3>1, <3>2, <3>3, <3>5, <3>6 DEF BatchPlan
  <2>4. CASE p.batch # b
    <3>1. batch'[b] = batch[b]  BY <1>1, <1>2, <2>4 DEF TypeOK
    <3>2. ASSUME NEW i \in DOMAIN scans', scans'[i].batch = b
          PROVE  /\ i \in DOMAIN scans /\ scans[i].batch = b
                 /\ scans'[i].opp = scans[i].opp
      BY <2>4, <3>2, CommitScans DEF p
    <3> QED  BY <2>2, <3>1, <3>2 DEF BatchInv
  <2> QED  BY <2>3, <2>4
<1> QED
  BY <1>7, <1>8, <1>9, <1>10, <1>11, <1>12, <1>14, <1>15, <1>16
----------------------------------------------------------------------------
(* The theorems.                                                           *)

(* The invariant holds of every state the review can reach.                 *)
THEOREM Inductive == Spec => []IndInv
<1>1. Init => IndInv
  <2> SUFFICES ASSUME Init PROVE IndInv
    OBVIOUS
  <2>1. /\ opp = [o \in Opps |-> [status |-> "discovered", version |-> 0, owner |-> FALSE,
                                  approved |-> FALSE]]
        /\ overrides = <<>> /\ batch = [b \in Batches |-> None] /\ scans = <<>>
        /\ audit = <<>> /\ lock = None /\ req = [r \in Requests |-> None] /\ contested = {}
        /\ revived = {}
    BY DEF Init
  <2>2. \A o \in Opps : opp[o].status = "discovered"  BY <2>1
  <2>3. TypeOK  BY <2>1 DEF TypeOK, OpportunityRow, OppStates
  <2>4. /\ \A r \in Requests : req[r] = None
        /\ \A b \in Batches : batch[b] = None
    BY <2>1
  <2>5. DOMAIN scans = {} /\ DOMAIN audit = {}  BY <2>1
  <2> QED
    BY <2>2, <2>3, <2>4, <2>5
       DEF IndInv, HeadInv, AuditLinear, PlanInv, CopyInv, SoleInv, Sole, ApprovalInv, QueueInv,
           Ordered, Planned, BatchInv
<1>2. IndInv /\ [Next]_vars => IndInv'
  <2> SUFFICES ASSUME IndInv, [Next]_vars PROVE IndInv'
    OBVIOUS
  <2>1. ASSUME NEW r \in Requests, RequestStep(r) PROVE IndInv'
    <3>1. CASE req[r] = None /\ NewRequest(r)
      BY <3>1, RequestsSound, LoadStep, SyncStep
    <3> QED  BY <2>1, <3>1, EnterStep, CommitStep, DirectStep, RollBackStep DEF RequestStep
  <2>2. ASSUME NEW i \in DOMAIN scans, ScanStep(i) PROVE IndInv'
    BY <2>2, StartStep, EndStep, FinishStep, FailStep, EndFailedStep DEF ScanStep
  <2>3. CASE UNCHANGED vars
    <3>1. TypeOK' /\ HeadInv' /\ AuditLinear' /\ PlanInv' /\ CopyInv' /\ SoleInv'
      BY <2>3 DEF vars, IndInv, TypeOK, HeadInv, AuditLinear, PlanInv, CopyInv, SoleInv, Sole,
                  Subjects, Manual, RunningState, Direct
    <3>2. ApprovalInv'
      BY <2>3 DEF vars, IndInv, ApprovalInv, Complete, Newest, Completed, Approves, Lowers
    <3>3. PlansStay /\ ScansStay  BY <2>3 DEF vars, PlansStay, SameWork, ScansStay
    <3>4. BatchInv'  BY <2>3, <3>3, BatchKept DEF vars
    <3>5. QueueInv'  BY <2>3, <3>3, QueueKept DEF vars, Active
    <3> QED  BY <3>1, <3>2, <3>4, <3>5 DEF IndInv
  <2> QED  BY <2>1, <2>2, <2>3 DEF Next
<1> QED  BY <1>1, <1>2, PTL DEF Spec

(* The audit log is one chain of transactions: append_audit_event reads the *)
(* head under the advisory lock and nobody else appends before the commit.  *)
THEOREM AuditChain == Spec => []AuditLinear
<1>1. IndInv => AuditLinear  BY DEF IndInv
<1> QED  BY <1>1, Inductive, PTL

(* An opportunity about which no two requests overlapped is approved only   *)
(* with an owner and with complete evidence of the full scan completed last, *)
(* however old the pipeline's copies are and however often it is rescored.  *)
THEOREM ApprovalsRest == Spec => []ApprovedIsComplete
<1>1. IndInv => ApprovedIsComplete
  BY DEF IndInv, ApprovalInv, ApprovedIsComplete, Complete
<1> QED  BY <1>1, Inductive, PTL

(* Batches and promotions queue a scan of such an opportunity only when     *)
(* none is active, whoever queued or runs those, as long as no worker       *)
(* queues a failed scan again after they looked.                            *)
THEOREM WorkersGetOne == Spec => []OneActiveScan
<1>1. IndInv => OneActiveScan
  BY DEF IndInv, QueueInv, Ordered, OneActiveScan, ActiveScans, Active
<1> QED  BY <1>1, Inductive, PTL

(* The sum of a function is no more than that of another it maps into, one  *)
(* to one and value by value.                                               *)
LEMMA TotalInto ==
    ASSUME NEW f, NEW g, IsFiniteSet(DOMAIN g), \A y \in DOMAIN g : g[y] \in Nat,
           NEW h \in [DOMAIN f -> DOMAIN g],
           \A x \in DOMAIN f : f[x] = g[h[x]],
           \A x, z \in DOMAIN f : h[x] = h[z] => x = z
    PROVE  Total(f) \in Nat /\ Total(g) \in Nat /\ Total(f) <= Total(g)
<1> DEFINE F == UNION {{x} \X (1..f[x]) : x \in DOMAIN f}
           G == UNION {{y} \X (1..g[y]) : y \in DOMAIN g}
           j == [u \in F |-> <<h[u[1]], u[2]>>]
<1>1. \A u \in F : u = <<u[1], u[2]>> /\ u[1] \in DOMAIN f /\ u[2] \in 1..f[u[1]]
  OBVIOUS
<1>2. \A x \in DOMAIN g : \A k \in 1..g[x] : <<x, k>> \in G  OBVIOUS
<1>3. IsFiniteSet(G)
  <2> DEFINE units == [y \in DOMAIN g |-> {y} \X (1..g[y])]
             T == {{y} \X (1..g[y]) : y \in DOMAIN g}
  <2>1. IsFiniteSet(T)
    <3>1. units \in Surjection(DOMAIN g, T)  BY DEF Surjection
    <3> QED  BY <3>1, FS_Surjection DEF ExistsSurjection
  <2>2. \A S \in T : IsFiniteSet(S)
    <3>1. ASSUME NEW y \in DOMAIN g PROVE IsFiniteSet({y} \X (1..g[y]))
      <4>1. g[y] \in Nat  OBVIOUS
      <4>2. IsFiniteSet(1..g[y])  BY <4>1, FS_Interval
      <4>3. IsFiniteSet({y})  BY FS_Singleton
      <4> QED  BY <4>2, <4>3, FS_Product
    <3> QED  BY <3>1
  <2> QED  BY <2>1, <2>2, FS_UNION
<1> HIDE DEF F, G
<1>4. \A u \in F : <<h[u[1]], u[2]>> \in G  BY <1>1, <1>2
<1>5. j \in [F -> G]  BY <1>4
<1>6. \A u, v \in F : j[u] = j[v] => u = v  BY <1>1
<1>7. j \in Injection(F, G)  BY <1>5, <1>6 DEF Injection, IsInjective
<1>8. IsFiniteSet(F) /\ Cardinality(F) <= Cardinality(G)
  BY <1>3, <1>7, FS_Injection DEF ExistsInjection
<1>9. Cardinality(F) \in Nat /\ Cardinality(G) \in Nat  BY <1>3, <1>8, FS_CardinalityType
<1> QED  BY <1>8, <1>9 DEF Total, F, G

(* A batch about which no two requests overlapped spends what a reviewer    *)
(* confirmed: whatever requests create, confirm and queue batches, die in   *)
(* between or come twice, the scans queued for it cost no more than the     *)
(* confirmed maximum, which its budget covers, and each item is queued once. *)
THEOREM BatchesWithinBound == Spec => []BatchWithinBound
<1>1. IndInv => BatchWithinBound
  <2> SUFFICES ASSUME IndInv, NEW b \in Batches \ contested, batch[b] # None
               PROVE  LET ids == {i \in DOMAIN scans : scans[i].batch = b} IN
                      /\ ids # {} => batch[b].approved # None
                      /\ batch[b].approved # None => batch[b].approved <= batch[b].budget
                      /\ ids # {} =>
                            Total([i \in ids |-> Cost[scans[i].opp]]) <= batch[b].approved
                      /\ \A i, j \in ids : scans[i].opp = scans[j].opp => i = j
    BY DEF BatchWithinBound, IndInv
  <2> DEFINE ids == {i \in DOMAIN scans : scans[i].batch = b}
             items == batch[b].items
             f == [i \in ids |-> Cost[scans[i].opp]]
             g == [o \in items |-> Cost[o]]
             h == [i \in ids |-> scans[i].opp]
  <2>1. /\ batch[b] \in BatchRow /\ items \in SUBSET Opps
        /\ batch[b].approved \in Budgets \cup {None} /\ batch[b].budget \in Budgets
    BY BatchFields DEF IndInv, TypeOK
  <2>2. RowSound(batch[b])  BY DEF IndInv, BatchInv
  <2>3. \A i \in ids : batch[b].status = "queued" /\ scans[i].opp \in items
    BY DEF IndInv, BatchInv
  <2>4. \A i, k \in ids : scans[i].opp = scans[k].opp => i = k
    BY DEF IndInv, BatchInv
  <2>5. Total(f) \in Nat /\ Total(g) \in Nat /\ Total(f) <= Total(g)
    <3>1. IsFiniteSet(DOMAIN g) /\ \A o \in DOMAIN g : g[o] \in Nat
      BY <2>1, ReviewConstants, FS_Subset
    <3>2. h \in [DOMAIN f -> DOMAIN g]  BY <2>3
    <3>3. \A i \in DOMAIN f : f[i] = g[h[i]]  BY <2>3
    <3>4. \A i, k \in DOMAIN f : h[i] = h[k] => i = k  BY <2>4
    <3> HIDE DEF f, g, h
    <3> QED  BY <3>1, <3>2, <3>3, <3>4, TotalInto
  <2>6. ids # {} => batch[b].approved # None  BY <2>2, <2>3 DEF RowSound
  <2>7. batch[b].approved # None =>
          /\ batch[b].approved \in Nat /\ batch[b].budget \in Nat
          /\ Total(g) <= batch[b].approved /\ batch[b].approved <= batch[b].budget
    BY <2>1, <2>2, ReviewConstants DEF RowSound, Estimate
  <2> HIDE DEF f, g
  <2>8. ids # {} => Total(f) <= batch[b].approved  BY <2>5, <2>6, <2>7
  <2> QED  BY <2>4, <2>6, <2>7, <2>8 DEF f
<1> QED  BY <1>1, Inductive, PTL
=============================================================================
