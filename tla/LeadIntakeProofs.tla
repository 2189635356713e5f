-------------------------- MODULE LeadIntakeProofs --------------------------
(***************************************************************************)
(* Proofs about LeadIntake, for any number of processes, submissions,      *)
(* assignments and events and any rate limit.                              *)
(***************************************************************************)
EXTENDS LeadIntake, FiniteSetTheorems, TLAPS

USE DEF Labels, LeadStatus
----------------------------------------------------------------------------
(* The inductive invariant.                                                *)

Submitting == {"admitting", "choosing", "inserting", "yielding", "committing", "alerting"}

\* Where a submission has passed the duplicate check and has not committed.
Checked == {"choosing", "inserting", "committing"}

\* No lead of the contact is in the de-duplication window.
Fresh(c) == \A l \in Ids : ~(Stored(l) /\ leads[l].contact = c /\ leads[l].recent)

\* What a process holds at each step of its operation.
Work(p) ==
    /\ pc[p] = "idle" <=> op[p] = Idle
    /\ pc[p] \in Submitting => op[p].kind = "submit"
    /\ pc[p] \in {"committing", "alerting"} <=> lead[p] # 0
    /\ lead[p] # 0 => lead[p] \in Ids
    /\ pc[p] = "committing" =>
          /\ leads[lead[p]].state = "pending"
          /\ leads[lead[p]].key = op[p].form.key
          /\ leads[lead[p]].contact = op[p].form.contact
          /\ leads[lead[p]].assignment = at[p]
    /\ pc[p] = "alerting" => Stored(lead[p])
    /\ op[p].kind = "record" => op[p].about \in Ids
    /\ pc[p] \in Checked => op[p].form.contact \in overlapped \/ Fresh(op[p].form.contact)

\* No two processes have inserted the same lead.
Owners == \A p, q \in Procs : lead[p] # 0 /\ lead[p] = lead[q] => p = q

WorkInv == (\A p \in Procs : Work(p)) /\ Owners

\* A lead's key goes with its data; its jobs come with its commit.
Lead(l) ==
    /\ leads[l].status # "deleted" => leads[l].key # None
    /\ leads[l].state = "pending" => leads[l].status # "deleted"
    /\ leads[l].status = "routing" => leads[l].assignment # None
    /\ ~Stored(l) => \A j \in jobs : j[1] # l
    /\ Stored(l) =>
        /\ l \in proofs
        /\ leads[l].status = "delivery_failed" =>
             l \in alerted \/ \E p \in Procs : pc[p] = "alerting" /\ lead[p] = l
        /\ leads[l].status = "routing" =>
             {j \in jobs : j[1] = l} = {l} \X {leads[l].assignment} \X Routable(leads[l].assignment)
        /\ leads[l].status \in {"spam", "delivery_failed"} => \A j \in jobs : j[1] # l

\* Leads that still have their key.
Live(l) == leads[l].state # "lost" /\ leads[l].status # "deleted"
Recent(l) == Stored(l) /\ leads[l].recent

\* One lead for a key, and one in the window for a contact that was not submitted twice
\* at the same time.
LeadsInv ==
    /\ \A l \in Ids : Lead(l)
    /\ \A l, m \in Ids : Live(l) /\ Live(m) /\ leads[l].key = leads[m].key => l = m
    /\ \A l, m \in Ids :
          Recent(l) /\ Recent(m) /\ leads[l].contact = leads[m].contact
             /\ leads[l].contact # None /\ leads[l].contact \notin overlapped => l = m

\* An answer names the committed lead of its key.
AnswerInv ==
    \A x \in answers : /\ x[2] \in Ids /\ Stored(x[2])
                       /\ leads[x[2]].status = "deleted" \/ leads[x[2]].key = x[1]

\* An event is counted when it is known, until it is forgotten.
EventInv == \A e \in Events : e \in forgotten \/ counted[e] = IF Recorded(e) THEN 1 ELSE 0

\* The types of the variables.
Types ==
    /\ profile \in BOOLEAN
    /\ status \in [Assignments -> AssignmentStatus \cup {"absent"}]
    /\ leads \in Seq(Leads)
    /\ proofs \subseteq Ids
    /\ jobs \subseteq Ids \X Assignments \X {"email", "phone"}
    /\ known \subseteq Events \X Ids
    /\ begun \in Nat /\ used \in 0 .. RateLimit
    /\ pc \in [Procs -> Labels] /\ op \in [Procs -> Operations]
    /\ at \in [Procs -> Assignments \cup {None}] /\ lead \in [Procs -> Nat]
    /\ answers \subseteq Keys \X Ids
    /\ overlapped \subseteq Contacts /\ alerted \subseteq Ids
    /\ counted \in [Events -> Nat] /\ forgotten \subseteq Events

IndInv == Types /\ WorkInv /\ LeadsInv /\ AnswerInv /\ EventInv
----------------------------------------------------------------------------
(* Data.                                                                   *)

\* What an operation carries.
LEMMA OperationTypes ==
  /\ Idle \in Operations
  /\ \A o \in Operations :
        /\ o.kind \in {"idle", "submit", "transition", "replace", "record"}
        /\ o.kind = "submit" => o.form \in Forms
        /\ o.kind = "transition" => o.assignment \in Assignments /\ o.target \in AssignmentStatus
        /\ o.kind = "replace" => o.assignment \in Assignments /\ o.by \in Assignments
        /\ o.kind = "record" => o.event \in Events /\ o.about \in Nat
        /\ o = Idle => o.kind = "idle"
BY DEF Operations, Idle

\* The fields of the leads.
LEMMA LeadTypes ==
  ASSUME Types
  PROVE  /\ Len(leads) \in Nat
         /\ \A l \in Ids : /\ leads[l] \in Leads /\ leads[l].status \in LeadStatus
                           /\ leads[l].assignment \in Assignments \cup {None}
                           /\ leads[l].key \in Keys \cup {None}
                           /\ leads[l].contact \in Contacts \cup {None}
<1>1. leads \in Seq(Leads)
  BY DEF Types
<1>2. Len(leads) \in Nat /\ \A l \in Ids : leads[l] \in Leads
  BY <1>1 DEF Ids
<1>3. \A r \in Leads : /\ r.status \in LeadStatus /\ r.assignment \in Assignments \cup {None}
                       /\ r.key \in Keys \cup {None} /\ r.contact \in Contacts \cup {None}
  BY DEF Leads
<1> QED
  BY <1>2, <1>3

\* One lead is written.
LEMMA LeadWritten ==
  ASSUME Types, NEW l \in Ids, NEW new \in Leads, leads' = [leads EXCEPT ![l] = new]
  PROVE  /\ leads' \in Seq(Leads) /\ Ids' = Ids
         /\ leads'[l] = new /\ \A m \in Ids : m # l => leads'[m] = leads[m]
<1>1. leads \in Seq(Leads) /\ l \in 1 .. Len(leads)
  BY DEF Types, Ids
<1>2. leads' \in Seq(Leads) /\ Len(leads') = Len(leads)
  BY <1>1
<1>3. leads'[l] = new /\ \A m \in 1 .. Len(leads) : m # l => leads'[m] = leads[m]
  BY <1>1
<1> QED
  BY <1>2, <1>3 DEF Ids

\* A key has a lead exactly when one is found.
LEMMA KeyFound ==
  ASSUME Types, NEW k
  PROVE  /\ WithKey(k) # 0 => WithKey(k) \in Ids /\ Stored(WithKey(k)) /\ leads[WithKey(k)].key = k
         /\ WithKey(k) = 0 => \A l \in Ids : ~(Stored(l) /\ leads[l].key = k)
<1> DEFINE found == {l \in Ids : Stored(l) /\ leads[l].key = k}
<1>1. found # {} => (CHOOSE l \in found : TRUE) \in found
  OBVIOUS
<1>2. \A l \in found : l # 0
  BY LeadTypes DEF Ids
<1>3. WithKey(k) = IF found = {} THEN 0 ELSE CHOOSE l \in found : TRUE
  BY DEF WithKey
<1> HIDE DEF found
<1>4. /\ WithKey(k) # 0 => WithKey(k) \in found
      /\ WithKey(k) = 0 => found = {}
  BY <1>1, <1>2, <1>3
<1> QED
  BY <1>4 DEF found

\* The status a lead is stored with: only a lead with a provider is to be routed.
LEMMA StatusTypes ==
  ASSUME NEW form \in Forms, NEW a \in Assignments \cup {None}
  PROVE  /\ StatusOf(form, a) \in {"spam", "delivery_failed", "routing"}
         /\ StatusOf(form, a) = "routing" => a # None
<1>1. form.blocked \in BOOLEAN
  BY IntakeConstants
<1>2. a = None => Routable(a) = {}
  BY DEF Routable
<1> QED
  BY <1>1, <1>2 DEF StatusOf

\* The active assignment, if there is one.
LEMMA ActiveType == Active \in Assignments \cup {None}
<1> DEFINE found == {a \in Assignments : status[a] = "active"}
<1>1. found # {} => (CHOOSE a \in found : TRUE) \in found
  OBVIOUS
<1> QED
  BY <1>1 DEF Active
----------------------------------------------------------------------------
(* Processes.                                                              *)

\* A process that a step does not concern.
LEMMA WorkKept ==
  ASSUME NEW q \in Procs, Work(q),
         pc'[q] = pc[q], op'[q] = op[q], at'[q] = at[q], lead'[q] = lead[q],
         \A l \in Ids : l \in Ids' /\ leads'[l].state = leads[l].state,
         pc[q] = "committing" => leads'[lead[q]] = leads[lead[q]],
         pc[q] \in Checked /\ Fresh(op[q].form.contact) =>
            op[q].form.contact \in overlapped' \/ Fresh(op[q].form.contact)',
         overlapped \subseteq overlapped'
  PROVE  Work(q)'
<1>1. /\ pc'[q] = "idle" <=> op'[q] = Idle
      /\ pc'[q] \in Submitting => op'[q].kind = "submit"
      /\ pc'[q] \in {"committing", "alerting"} <=> lead'[q] # 0
      /\ lead'[q] # 0 => lead'[q] \in Ids'
      /\ op'[q].kind = "record" => op'[q].about \in Ids'
  BY DEF Work
<1>2. pc'[q] = "committing" =>
        /\ leads'[lead'[q]].state = "pending"
        /\ leads'[lead'[q]].key = op'[q].form.key
        /\ leads'[lead'[q]].contact = op'[q].form.contact
        /\ leads'[lead'[q]].assignment = at'[q]
  BY DEF Work
<1>3. pc'[q] = "alerting" => Stored(lead[q])'
  BY DEF Work, Stored
<1>4. pc'[q] \in Checked => op'[q].form.contact \in overlapped' \/ Fresh(op[q].form.contact)'
  BY DEF Work
<1> QED
  BY <1>1, <1>2, <1>3, <1>4 DEF Work

\* Where a step leaves the leads alone every other process keeps what it has.
LEMMA OthersKept ==
  ASSUME WorkInv, NEW p \in Procs, UNCHANGED <<leads, overlapped>>,
         \A q \in Procs : q # p =>
            pc'[q] = pc[q] /\ op'[q] = op[q] /\ at'[q] = at[q] /\ lead'[q] = lead[q]
  PROVE  \A q \in Procs : q # p => Work(q)'
<1> SUFFICES ASSUME NEW q \in Procs, q # p PROVE Work(q)'
  OBVIOUS
<1>1. Work(q)
  BY DEF WorkInv
<1>2. \A l \in Ids : l \in Ids' /\ leads'[l].state = leads[l].state
  BY DEF Ids
<1>3. Fresh(op[q].form.contact) => Fresh(op[q].form.contact)'
  BY DEF Fresh, Ids, Stored
<1> QED
  BY <1>1, <1>2, <1>3, WorkKept

\* An operation begins.
LEMMA Begun ==
  ASSUME Types, NEW p \in Procs, NEW o \in Operations, Begin(p, o),
         NEW label \in Labels, Goto(p, label)
  PROVE  /\ pc' \in [Procs -> Labels] /\ op' \in [Procs -> Operations]
         /\ at' \in [Procs -> Assignments \cup {None}] /\ lead' \in [Procs -> Nat]
         /\ begun' \in Nat
         /\ pc[p] = "idle" /\ pc'[p] = label /\ op'[p] = o
         /\ \A q \in Procs : q # p => pc'[q] = pc[q] /\ op'[q] = op[q]
         /\ \A q \in Procs : at'[q] = at[q] /\ lead'[q] = lead[q]
BY DEF Types, Begin, Goto

\* An operation ends.
LEMMA Ended ==
  ASSUME Types, NEW p \in Procs, OpEnds(p)
  PROVE  /\ pc' \in [Procs -> Labels] /\ op' \in [Procs -> Operations]
         /\ at' \in [Procs -> Assignments \cup {None}] /\ lead' \in [Procs -> Nat]
         /\ begun' \in Nat
         /\ pc'[p] = "idle" /\ op'[p] = Idle /\ lead'[p] = 0
         /\ \A q \in Procs : q # p =>
               pc'[q] = pc[q] /\ op'[q] = op[q] /\ at'[q] = at[q] /\ lead'[q] = lead[q]
         /\ Work(p)'
<1>1. /\ pc' = [pc EXCEPT ![p] = "idle"] /\ op' = [op EXCEPT ![p] = Idle]
      /\ at' = [at EXCEPT ![p] = None] /\ lead' = [lead EXCEPT ![p] = 0] /\ begun' = begun
  BY DEF OpEnds, Goto
<1>2. /\ pc' \in [Procs -> Labels] /\ op' \in [Procs -> Operations]
      /\ at' \in [Procs -> Assignments \cup {None}] /\ lead' \in [Procs -> Nat]
      /\ begun' \in Nat
  BY <1>1, OperationTypes DEF Types
<1>3. /\ pc'[p] = "idle" /\ op'[p] = Idle /\ lead'[p] = 0
      /\ \A q \in Procs : q # p =>
            pc'[q] = pc[q] /\ op'[q] = op[q] /\ at'[q] = at[q] /\ lead'[q] = lead[q]
  BY <1>1 DEF Types
<1>4. op'[p].kind = "idle"
  BY <1>3 DEF Idle
<1>5. Work(p)'
  BY <1>3, <1>4 DEF Work, Submitting, Checked
<1> QED
  BY <1>2, <1>3, <1>5

\* A step that leaves the stored data alone, except that a lead may be alerted.
LEMMA DataQuiet ==
  ASSUME LeadsInv, UNCHANGED <<leads, proofs, jobs, overlapped>>, alerted \subseteq alerted',
         \A p \in Procs : pc[p] = "alerting" =>
            (pc'[p] = "alerting" /\ lead'[p] = lead[p]) \/ lead[p] \in alerted'
  PROVE  LeadsInv'
<1>1. Ids' = Ids
  BY DEF Ids
<1>2. ASSUME NEW l \in Ids PROVE Lead(l)'
  <2>1. Lead(l)
    BY DEF LeadsInv
  <2>2. l \in alerted \/ (\E p \in Procs : pc[p] = "alerting" /\ lead[p] = l) =>
          l \in alerted' \/ \E p \in Procs : pc'[p] = "alerting" /\ lead'[p] = l
    OBVIOUS
  <2> QED
    BY <2>1, <2>2 DEF Lead, Stored
<1> QED
  BY <1>1, <1>2 DEF LeadsInv, Live, Recent, Stored

\* A step that leaves leads, answers and events alone.
LEMMA RestQuiet ==
  ASSUME AnswerInv, EventInv, UNCHANGED <<leads, known, counted, forgotten>>,
         \A x \in answers' : x \in answers \/
            (x[2] \in Ids /\ Stored(x[2]) /\ leads[x[2]].key = x[1])
  PROVE  AnswerInv' /\ EventInv'
<1>1. AnswerInv'
  BY DEF AnswerInv, Ids, Stored
<1>2. EventInv'
  BY DEF EventInv, Recorded, Ids
<1> QED
  BY <1>1, <1>2

\* A process's step that leaves the stored leads alone.
LEMMA ProcessStep ==
  ASSUME WorkInv, LeadsInv, NEW p \in Procs, UNCHANGED <<leads, proofs, jobs, overlapped>>,
         alerted \subseteq alerted',
         \A q \in Procs : q # p =>
            pc'[q] = pc[q] /\ op'[q] = op[q] /\ at'[q] = at[q] /\ lead'[q] = lead[q],
         Work(p)', lead'[p] \in {0, lead[p]},
         pc[p] = "alerting" => lead[p] \in alerted'
  PROVE  WorkInv' /\ LeadsInv'
<1>1. \A q \in Procs : q # p => Work(q)'
  BY OthersKept
<1>2. Owners'
  BY DEF WorkInv, Owners
<1>3. WorkInv'
  BY <1>1, <1>2 DEF WorkInv
<1>4. LeadsInv'
  BY DataQuiet
<1> QED
  BY <1>3, <1>4

\* A process at the start of an operation holds nothing.
LEMMA StartedWork ==
  ASSUME NEW p \in Procs, Work(p), NEW o \in Operations, pc[p] = "idle",
         pc'[p] \in {"admitting", "writing"}, op'[p] = o, lead'[p] = lead[p],
         o # Idle, pc'[p] = "admitting" => o.kind = "submit",
         o.kind = "record" => o.about \in Ids'
  PROVE  Work(p)'
BY DEF Work, Submitting, Checked
----------------------------------------------------------------------------
(* Every action preserves the invariant.                                   *)

\* ProviderOperationsService: an operation on assignments reads, and ends.
LEMMA OperateInv ==
  ASSUME IndInv, NEW p \in Procs, Operate(p)
  PROVE  IndInv'
<1> USE DEF database, history, Ids
<1>a. Types /\ WorkInv /\ LeadsInv /\ AnswerInv /\ EventInv /\ Work(p)
  BY DEF IndInv, WorkInv
<1>1. ASSUME NEW o \in Operations, o.kind \in {"transition", "replace"}, Begin(p, o),
             Goto(p, "writing"), UNCHANGED <<database, used, history>>
      PROVE  IndInv'
  <2>1. /\ pc' \in [Procs -> Labels] /\ op' \in [Procs -> Operations]
        /\ at' \in [Procs -> Assignments \cup {None}] /\ lead' \in [Procs -> Nat]
        /\ begun' \in Nat
        /\ pc[p] = "idle" /\ pc'[p] = "writing" /\ op'[p] = o
        /\ \A q \in Procs : q # p => pc'[q] = pc[q] /\ op'[q] = op[q]
        /\ \A q \in Procs : at'[q] = at[q] /\ lead'[q] = lead[q]
    BY <1>a, <1>1, Begun
  <2>2. o # Idle
    BY <1>1 DEF Idle
  <2>3. Work(p)'
    BY <1>a, <1>1, <2>1, <2>2, StartedWork
  <2>4. WorkInv' /\ LeadsInv'
    BY <1>a, <1>1, <2>1, <2>3, ProcessStep
  <2>5. AnswerInv' /\ EventInv'
    BY <1>a, <1>1, RestQuiet
  <2>6. Types'
    BY <1>a, <1>1, <2>1 DEF Types
  <2> QED
    BY <2>4, <2>5, <2>6 DEF IndInv
<1>2. ASSUME pc[p] = "writing", OpEnds(p), status' \in [Assignments -> AssignmentStatus \cup {"absent"}],
             UNCHANGED <<profile, leads, proofs, jobs, known, used, history>>
      PROVE  IndInv'
  <2>1. /\ pc' \in [Procs -> Labels] /\ op' \in [Procs -> Operations]
        /\ at' \in [Procs -> Assignments \cup {None}] /\ lead' \in [Procs -> Nat]
        /\ begun' \in Nat
        /\ pc'[p] = "idle" /\ op'[p] = Idle /\ lead'[p] = 0
        /\ \A q \in Procs : q # p =>
              pc'[q] = pc[q] /\ op'[q] = op[q] /\ at'[q] = at[q] /\ lead'[q] = lead[q]
        /\ Work(p)'
    BY <1>a, <1>2, Ended
  <2>2. WorkInv' /\ LeadsInv'
    BY <1>a, <1>2, <2>1, ProcessStep
  <2>3. AnswerInv' /\ EventInv'
    BY <1>a, <1>2, RestQuiet
  <2>4. Types'
    BY <1>a, <1>2, <2>1 DEF Types
  <2> QED
    BY <2>2, <2>3, <2>4 DEF IndInv
<1>3. ASSUME NEW a \in Assignments, NEW t \in AssignmentStatus, ReadForTransition(p, a, t)
      PROVE  IndInv'
  <2> DEFINE o == [kind |-> "transition", assignment |-> a, target |-> t]
  <2>1. o \in Operations /\ o.kind = "transition"
    BY DEF Operations
  <2>2. Begin(p, o) /\ Goto(p, "writing") /\ UNCHANGED <<database, used, history>>
    BY <1>3 DEF ReadForTransition
  <2> HIDE DEF o
  <2> QED
    BY <1>1, <2>1, <2>2
<1>4. ASSUME NEW a \in Assignments, NEW b \in Assignments, ReadForReplacement(p, a, b)
      PROVE  IndInv'
  <2> DEFINE o == [kind |-> "replace", assignment |-> a, by |-> b]
  <2>1. o \in Operations /\ o.kind = "replace"
    BY DEF Operations
  <2>2. Begin(p, o) /\ Goto(p, "writing") /\ UNCHANGED <<database, used, history>>
    BY <1>4 DEF ReadForReplacement
  <2> HIDE DEF o
  <2> QED
    BY <1>1, <2>1, <2>2
<1>5. op[p] \in Operations /\ status \in [Assignments -> AssignmentStatus \cup {"absent"}]
  BY <1>a DEF Types
<1>6. CASE WriteTransition(p)
  <2>1. op[p].assignment \in Assignments /\ op[p].target \in AssignmentStatus
    BY <1>5, <1>6, OperationTypes DEF WriteTransition
  <2>2. status' = status \/ status' = [status EXCEPT ![op[p].assignment] = op[p].target]
    BY <1>6 DEF WriteTransition
  <2>3. status' \in [Assignments -> AssignmentStatus \cup {"absent"}]
    BY <1>5, <2>1, <2>2
  <2> QED
    BY <1>2, <1>6, <2>3 DEF WriteTransition
<1>7. CASE WriteReplacement(p)
  <2>1. op[p].assignment \in Assignments /\ op[p].by \in Assignments
    BY <1>5, <1>7, OperationTypes DEF WriteReplacement
  <2>2. \/ status' = status
        \/ status' = [status EXCEPT ![op[p].assignment] = "replaced", ![op[p].by] = "active"]
    BY <1>7 DEF WriteReplacement
  <2>3. status' \in [Assignments -> AssignmentStatus \cup {"absent"}]
    BY <1>5, <2>1, <2>2 DEF AssignmentStatus
  <2> QED
    BY <1>2, <1>7, <2>3 DEF WriteReplacement
<1> QED
  BY <1>3, <1>4, <1>6, <1>7 DEF Operate

\* An operation that ends with nothing but an answer, a refusal or an alert.
LEMMA EndInv ==
  ASSUME IndInv, NEW p \in Procs, OpEnds(p),
         UNCHANGED <<profile, status, leads, proofs, jobs, known, overlapped, counted, forgotten>>,
         used' \in 0 .. RateLimit, answers' \subseteq Keys \X Ids, alerted' \subseteq Ids,
         alerted \subseteq alerted', pc[p] = "alerting" => lead[p] \in alerted',
         \A x \in answers' : x \in answers \/
            (x[2] \in Ids /\ Stored(x[2]) /\ leads[x[2]].key = x[1])
  PROVE  IndInv'
<1>a. Types /\ WorkInv /\ LeadsInv /\ AnswerInv /\ EventInv
  BY DEF IndInv
<1>1. /\ pc' \in [Procs -> Labels] /\ op' \in [Procs -> Operations]
      /\ at' \in [Procs -> Assignments \cup {None}] /\ lead' \in [Procs -> Nat]
      /\ begun' \in Nat
      /\ pc'[p] = "idle" /\ op'[p] = Idle /\ lead'[p] = 0
      /\ \A q \in Procs : q # p =>
            pc'[q] = pc[q] /\ op'[q] = op[q] /\ at'[q] = at[q] /\ lead'[q] = lead[q]
      /\ Work(p)'
  BY <1>a, Ended
<1>2. WorkInv' /\ LeadsInv'
  BY <1>a, <1>1, ProcessStep
<1>3. AnswerInv' /\ EventInv'
  BY <1>a, RestQuiet
<1>4. Types'
  BY <1>a, <1>1 DEF Types, Ids
<1> QED
  BY <1>2, <1>3, <1>4 DEF IndInv

\* What a submission carries.
LEMMA FormOf ==
  ASSUME Types, NEW p \in Procs, Work(p), pc[p] \in Submitting
  PROVE  /\ op[p].form \in Forms
         /\ op[p].form.key \in Keys /\ op[p].form.contact \in Contacts
         /\ op[p].form.key # None /\ op[p].form.contact # None
<1>1. op[p] \in Operations /\ op[p].kind = "submit"
  BY DEF Types, Work
<1>2. op[p].form \in Forms
  BY <1>1, OperationTypes
<1> QED
  BY <1>2, IntakeConstants DEF Keys, Contacts

\* Finding the lead of a key is answering with it.
LEMMA Answered ==
  ASSUME Types, NEW k \in Keys, NEW l \in Ids, Stored(l), leads[l].key = k, Respond(k, l)
  PROVE  /\ answers' \subseteq Keys \X Ids
         /\ \A x \in answers' : x \in answers \/
               (x[2] \in Ids /\ Stored(x[2]) /\ leads[x[2]].key = x[1])
<1> DEFINE x == <<k, l>>
<1>1. x \in Keys \X Ids /\ x[1] = k /\ x[2] = l
  OBVIOUS
<1>2. answers' = answers \cup {x}
  BY DEF Respond
<1> HIDE DEF x
<1> QED
  BY <1>1, <1>2 DEF Types

\* submit, up to the duplicate check.
LEMMA SubmitInv ==
  ASSUME IndInv, NEW p \in Procs, NEW form \in Forms, Submit(p, form)
  PROVE  IndInv'
<1> USE DEF database
<1>a. Types /\ WorkInv /\ LeadsInv /\ AnswerInv /\ EventInv /\ Work(p)
  BY DEF IndInv, WorkInv
<1>b. UNCHANGED <<database, used, overlapped, alerted, counted, forgotten>>
  BY DEF Submit
<1>1. CASE WithKey(form.key) # 0
  <2>1. Respond(form.key, WithKey(form.key)) /\ UNCHANGED procVars
    BY <1>1 DEF Submit
  <2>2. PICK l \in Ids : l = WithKey(form.key) /\ Stored(l) /\ leads[l].key = form.key
    BY <1>1, <1>a, KeyFound
  <2>3. /\ answers' \subseteq Keys \X Ids
        /\ \A x \in answers' : x \in answers \/
              (x[2] \in Ids /\ Stored(x[2]) /\ leads[x[2]].key = x[1])
    BY <1>a, <2>1, <2>2, Answered DEF Keys
  <2>4. AnswerInv' /\ EventInv'
    BY <1>a, <1>b, <2>3, RestQuiet
  <2>5. LeadsInv'
    BY <1>a, <1>b, <2>1, DataQuiet DEF procVars
  <2>6. WorkInv'
    BY <1>a, <1>b, <2>1 DEF procVars, WorkInv, Work, Owners, Fresh, Stored, Ids
  <2>7. Types'
    BY <1>a, <1>b, <2>1, <2>3 DEF procVars, Types, Ids
  <2> QED
    BY <2>4, <2>5, <2>6, <2>7 DEF IndInv
<1>2. CASE WithKey(form.key) = 0
  <2> DEFINE o == [kind |-> "submit", form |-> form]
  <2>1. Begin(p, o) /\ Goto(p, "admitting") /\ UNCHANGED answers
    BY <1>2 DEF Submit
  <2>2. o \in Operations /\ o.kind = "submit" /\ o # Idle
    BY DEF Operations, Idle
  <2> HIDE DEF o
  <2>3. /\ pc' \in [Procs -> Labels] /\ op' \in [Procs -> Operations]
        /\ at' \in [Procs -> Assignments \cup {None}] /\ lead' \in [Procs -> Nat]
        /\ begun' \in Nat
        /\ pc[p] = "idle" /\ pc'[p] = "admitting" /\ op'[p] = o
        /\ \A q \in Procs : q # p => pc'[q] = pc[q] /\ op'[q] = op[q]
        /\ \A q \in Procs : at'[q] = at[q] /\ lead'[q] = lead[q]
    BY <1>a, <2>1, <2>2, Begun
  <2>4. Work(p)'
    BY <1>a, <2>2, <2>3, StartedWork
  <2>5. WorkInv' /\ LeadsInv'
    BY <1>a, <1>b, <2>3, <2>4, ProcessStep
  <2>6. AnswerInv' /\ EventInv'
    BY <1>a, <1>b, <2>1, RestQuiet
  <2>7. Types'
    BY <1>a, <1>b, <2>1, <2>3 DEF Types, Ids
  <2> QED
    BY <2>5, <2>6, <2>7 DEF IndInv
<1> QED
  BY <1>1, <1>2

\* A process moves on within its submission and nothing is stored.
LEMMA MoveInv ==
  ASSUME IndInv, NEW p \in Procs, NEW label \in {"choosing", "inserting", "yielding"},
         pc[p] \in {"admitting", "choosing", "inserting"}, Goto(p, label),
         at' \in [Procs -> Assignments \cup {None}],
         \A q \in Procs : q # p => at'[q] = at[q],
         UNCHANGED <<database, history, op, lead, begun>>, used' \in 0 .. RateLimit,
         label \in Checked =>
            op[p].form.contact \in overlapped \/ Fresh(op[p].form.contact)
  PROVE  IndInv'
<1> USE DEF database, history
<1>a. Types /\ WorkInv /\ LeadsInv /\ AnswerInv /\ EventInv /\ Work(p)
  BY DEF IndInv, WorkInv
<1>1. /\ pc' \in [Procs -> Labels] /\ pc'[p] = label
      /\ \A q \in Procs : q # p => pc'[q] = pc[q]
  BY <1>a DEF Types, Goto
<1>2. lead[p] = 0 /\ op[p].kind = "submit" /\ op[p] # Idle
  BY <1>a DEF Work, Submitting
<1>3. Fresh(op[p].form.contact) => Fresh(op[p].form.contact)'
  BY DEF Fresh, Ids, Stored
<1>4. /\ op'[p].kind = "submit" /\ op'[p] # Idle /\ lead'[p] = 0 /\ op'[p] = op[p]
      /\ overlapped' = overlapped
  BY <1>2
<1>5. Work(p)'
  BY <1>1, <1>3, <1>4 DEF Work, Checked, Submitting
<1>6. WorkInv' /\ LeadsInv'
  BY <1>a, <1>1, <1>5, ProcessStep
<1>7. AnswerInv' /\ EventInv'
  BY <1>a, RestQuiet
<1>8. Types'
  BY <1>a, <1>1 DEF Types, Ids
<1> QED
  BY <1>6, <1>7, <1>8 DEF IndInv

\* The steps of a submission that store no lead.
LEMMA SubmissionInv ==
  ASSUME IndInv, NEW p \in Procs, Refuse(p) \/ Admit(p) \/ Choose(p) \/ Yield(p) \/ Alert(p)
  PROVE  IndInv'
<1>a. Types /\ WorkInv /\ LeadsInv /\ AnswerInv /\ EventInv /\ Work(p)
  BY DEF IndInv, WorkInv
<1>b. /\ used \in 0 .. RateLimit /\ RateLimit \in Nat /\ answers \subseteq Keys \X Ids
      /\ alerted \subseteq Ids /\ at \in [Procs -> Assignments \cup {None}]
  BY <1>a, IntakeConstants DEF Types
<1>1. CASE Refuse(p)
  BY <1>1, <1>b, EndInv DEF Refuse, database, history
<1>2. CASE Admit(p)
  <2>1. used' \in 0 .. RateLimit /\ pc[p] = "admitting"
    BY <1>2, <1>b DEF Admit
  <2>2. UNCHANGED <<database, history>>
    BY <1>2 DEF Admit
  <2>3. CASE Duplicates(op[p].form.contact) # {}
    <3>1. OpEnds(p)
      BY <1>2, <2>3 DEF Admit
    <3> QED
      BY <3>1, <1>b, <2>1, <2>2, EndInv DEF database, history
  <2>4. CASE Duplicates(op[p].form.contact) = {}
    <3>1. Goto(p, "choosing") /\ UNCHANGED <<op, at, lead, begun>>
      BY <1>2, <2>4 DEF Admit
    <3>2. Fresh(op[p].form.contact)
      BY <2>4 DEF Fresh, Duplicates
    <3> QED
      BY <3>1, <3>2, <1>b, <2>1, <2>2, MoveInv
  <2> QED
    BY <2>3, <2>4
<1>3. CASE Choose(p)
  <2>1. /\ pc[p] = "choosing" /\ at' = [at EXCEPT ![p] = Active] /\ Goto(p, "inserting")
        /\ UNCHANGED <<database, used, op, lead, begun, history>>
    BY <1>3 DEF Choose
  <2>2. at' \in [Procs -> Assignments \cup {None}] /\ \A q \in Procs : q # p => at'[q] = at[q]
    BY <1>b, <2>1, ActiveType
  <2>3. op[p].form.contact \in overlapped \/ Fresh(op[p].form.contact)
    BY <1>a, <2>1 DEF Work, Checked
  <2> QED
    BY <1>b, <2>1, <2>2, <2>3, MoveInv
<1>4. CASE Yield(p)
  <2>1. /\ pc[p] = "yielding" /\ OpEnds(p)
        /\ UNCHANGED <<database, used, overlapped, alerted, counted, forgotten>>
    BY <1>4 DEF Yield
  <2>2. op[p].form.key \in Keys
    BY <1>a, <2>1, FormOf DEF Submitting
  <2>3. CASE WithKey(op[p].form.key) # 0
    <3>1. PICK l \in Ids : l = WithKey(op[p].form.key) /\ Stored(l) /\ leads[l].key = op[p].form.key
      BY <2>3, <1>a, KeyFound
    <3>2. Respond(op[p].form.key, l)
      BY <1>4, <2>3, <3>1 DEF Yield
    <3>3. /\ answers' \subseteq Keys \X Ids
          /\ \A x \in answers' : x \in answers \/
                (x[2] \in Ids /\ Stored(x[2]) /\ leads[x[2]].key = x[1])
      BY <1>a, <2>2, <3>1, <3>2, Answered
    <3> QED
      BY <1>b, <2>1, <3>3, EndInv DEF database
  <2>4. CASE WithKey(op[p].form.key) = 0
    <3>1. answers' = answers
      BY <1>4, <2>4 DEF Yield
    <3> QED
      BY <1>b, <2>1, <3>1, EndInv DEF database
  <2> QED
    BY <2>3, <2>4
<1>5. CASE Alert(p)
  <2>1. /\ pc[p] = "alerting" /\ alerted' = alerted \cup {lead[p]} /\ OpEnds(p)
        /\ UNCHANGED <<database, used, answers, overlapped, counted, forgotten>>
    BY <1>5 DEF Alert
  <2>2. lead[p] \in Ids
    BY <1>a, <2>1 DEF Work
  <2> QED
    BY <1>b, <2>1, <2>2, EndInv DEF database
<1> QED
  BY <1>1, <1>2, <1>3, <1>4, <1>5

\* A lead is appended; it is not visible before it commits.
LEMMA LeadAppended ==
  ASSUME Types, NEW new \in Leads, leads' = Append(leads, new)
  PROVE  /\ leads' \in Seq(Leads) /\ Len(leads) + 1 \in Ids' /\ Len(leads) + 1 \notin Ids
         /\ Ids' = Ids \cup {Len(leads) + 1}
         /\ leads'[Len(leads) + 1] = new /\ \A l \in Ids : leads'[l] = leads[l]
<1>1. leads \in Seq(Leads) /\ Len(leads) \in Nat
  BY DEF Types
<1>2. leads' \in Seq(Leads) /\ Len(leads') = Len(leads) + 1
  BY <1>1
<1>3. leads'[Len(leads) + 1] = new /\ \A l \in 1 .. Len(leads) : leads'[l] = leads[l]
  BY <1>1
<1> QED
  BY <1>1, <1>2, <1>3 DEF Ids

\* The insert: the key has no live lead, so the new one is its only one.
LEMMA InsertInv ==
  ASSUME IndInv, NEW p \in Procs, InsertLead(p)
  PROVE  IndInv'
<1> USE DEF history
<1>a. Types /\ WorkInv /\ LeadsInv /\ AnswerInv /\ EventInv /\ Work(p)
  BY DEF IndInv, WorkInv
<1> DEFINE form == op[p].form
           r == [key |-> form.key, contact |-> form.contact,
                 status |-> StatusOf(form, at[p]), assignment |-> at[p],
                 recent |-> TRUE, state |-> "pending"]
<1>b. /\ pc[p] = "inserting"
      /\ ~\E l \in Ids : leads[l].state = "pending" /\ leads[l].key = form.key
      /\ UNCHANGED <<profile, status, proofs, jobs, known, used, op, at, begun, history>>
  BY DEF InsertLead
<1>c. form \in Forms /\ form.key \in Keys /\ form.contact \in Contacts /\ form.key # None
  BY <1>a, <1>b, FormOf DEF Submitting
<1>d. at[p] \in Assignments \cup {None} /\ used \in 0 .. RateLimit
  BY <1>a DEF Types
<1>e. op[p].form.contact \in overlapped \/ Fresh(op[p].form.contact)
  BY <1>a, <1>b DEF Work, Checked
<1>1. CASE WithKey(form.key) # 0
  <2>1. Goto(p, "yielding") /\ UNCHANGED <<leads, lead>>
    BY <1>1 DEF InsertLead
  <2>2. at' \in [Procs -> Assignments \cup {None}] /\ \A q \in Procs : at'[q] = at[q]
    BY <1>a, <1>b DEF Types
  <2> QED
    BY <1>b, <1>d, <1>e, <2>1, <2>2, MoveInv DEF database
<1>2. CASE WithKey(form.key) = 0
  <2>1. /\ leads' = Append(leads, r) /\ lead' = [lead EXCEPT ![p] = Len(leads) + 1]
        /\ Goto(p, "committing")
    BY <1>2 DEF InsertLead
  <2>2. /\ r \in Leads /\ r.key = form.key /\ r.contact = form.contact /\ r.state = "pending"
        /\ r.status # "deleted" /\ r.assignment = at[p]
        /\ r.status = "routing" => r.assignment # None
    BY <1>c, <1>d, StatusTypes DEF Leads
  <2> HIDE DEF r
  <2>3. PICK n : n = Len(leads) + 1
    OBVIOUS
  <2>4. /\ leads' \in Seq(Leads) /\ n \in Ids' /\ n \notin Ids /\ Ids' = Ids \cup {n}
        /\ leads'[n] = r /\ \A l \in Ids : leads'[l] = leads[l]
    BY <1>a, <2>1, <2>2, <2>3, LeadAppended
  <2>5. n \in Nat /\ n # 0
    BY <1>a, <2>3, LeadTypes
  <2>6. /\ pc' \in [Procs -> Labels] /\ lead' \in [Procs -> Nat]
        /\ pc'[p] = "committing" /\ lead'[p] = n
        /\ \A q \in Procs : q # p => pc'[q] = pc[q] /\ lead'[q] = lead[q]
    BY <1>a, <2>1, <2>3, <2>5 DEF Types, Goto
  <2>7. \A l \in Ids : ~(Live(l) /\ leads[l].key = form.key)
    <3>1. \A l \in Ids : ~(Stored(l) /\ leads[l].key = form.key)
      BY <1>2, <1>a, KeyFound
    <3>2. \A l \in Ids : leads[l].state \in {"pending", "committed", "lost"}
      BY <1>a, LeadTypes DEF Leads
    <3> QED
      BY <3>1, <3>2, <1>b DEF Live, Stored
  <2>9. WorkInv'
    <3>1. ASSUME NEW q \in Procs, q # p PROVE Work(q)'
      <4>1. Work(q)
        BY <1>a DEF WorkInv
      <4>2. pc[q] = "committing" => leads'[lead[q]] = leads[lead[q]]
        BY <4>1, <2>4 DEF Work
      <4>3. Fresh(op[q].form.contact) => Fresh(op[q].form.contact)'
        BY <1>b, <2>2, <2>4 DEF Fresh, Stored
      <4> QED
        BY <4>1, <4>2, <4>3, <3>1, <2>4, <2>6, <1>b, WorkKept
    <3>2. Work(p)'
      <4>1. op'[p] = op[p] /\ at'[p] = at[p] /\ overlapped' = overlapped
        BY <1>b
      <4>2. op[p].kind = "submit" /\ op[p] # Idle
        BY <1>a, <1>b DEF Work, Submitting
      <4>3. Fresh(op[p].form.contact) => Fresh(op[p].form.contact)'
        BY <2>2, <2>4, <4>1 DEF Fresh, Stored
      <4> QED
        BY <1>e, <2>2, <2>4, <2>5, <2>6, <4>1, <4>2, <4>3 DEF Work, Submitting, Checked
    <3>3. \A q \in Procs : lead[q] # n
      BY <1>a, <2>4, <2>5 DEF WorkInv, Work
    <3>4. Owners'
      BY <1>a, <2>6, <3>3 DEF WorkInv, Owners
    <3> QED
      BY <3>1, <3>2, <3>4 DEF WorkInv
  <2>10. LeadsInv'
    <3>1. Lead(n)'
      <4>1. \A j \in jobs' : j[1] # n
        BY <1>a, <1>b, <2>4 DEF Types
      <4> QED
        BY <1>c, <2>2, <2>4, <4>1 DEF Lead, Stored
    <3>2. ASSUME NEW l \in Ids PROVE Lead(l)'
      <4>1. Lead(l) /\ leads'[l] = leads[l]
        BY <1>a, <2>4 DEF LeadsInv
      <4>2. (\E q \in Procs : pc[q] = "alerting" /\ lead[q] = l) =>
              \E q \in Procs : pc'[q] = "alerting" /\ lead'[q] = l
        BY <1>b, <2>6
      <4> QED
        BY <4>1, <4>2, <1>b DEF Lead, Stored
    <3>3. \A l, m \in Ids' : Live(l)' /\ Live(m)' /\ leads'[l].key = leads'[m].key => l = m
      BY <1>a, <2>2, <2>4, <2>7 DEF LeadsInv, Live
    <3>4. ~Recent(n)' /\ \A l \in Ids : Recent(l)' <=> Recent(l)
      BY <2>2, <2>4 DEF Recent, Stored
    <3> QED
      BY <1>a, <1>b, <2>4, <3>1, <3>2, <3>3, <3>4 DEF LeadsInv
  <2>11. AnswerInv'
    BY <1>a, <1>b, <2>4 DEF AnswerInv, Stored
  <2>12. EventInv'
    <3>1. known \subseteq Events \X Ids
      BY <1>a DEF Types
    <3>2. \A e \in Events : Recorded(e)' <=> Recorded(e)
      BY <1>b, <2>4, <3>1 DEF Recorded
    <3> QED
      BY <1>a, <1>b, <3>2 DEF EventInv
  <2>13. Types'
    BY <1>a, <1>b, <2>4, <2>6 DEF Types
  <2> QED
    BY <2>9, <2>10, <2>11, <2>12, <2>13 DEF IndInv
<1> QED
  BY <1>1, <1>2

\* The commit: the lead was the only one of its contact to come, or the contact was
\* submitted twice at the same time.
LEMMA CommitInv ==
  ASSUME IndInv, NEW p \in Procs, CommitLead(p)
  PROVE  IndInv'
<1>a. Types /\ WorkInv /\ LeadsInv /\ AnswerInv /\ EventInv /\ Work(p)
  BY DEF IndInv, WorkInv
<1>b. pc[p] = "committing" /\ UNCHANGED <<profile, status, known, used, alerted, counted, forgotten>>
  BY DEF CommitLead
<1>c. /\ op[p].form \in Forms /\ op[p].form.key \in Keys /\ op[p].form.contact \in Contacts
      /\ op[p].form.key # None /\ op[p].form.contact # None
  BY <1>a, <1>b, FormOf DEF Submitting
<1>0. PICK l : l = lead[p]
  OBVIOUS
<1>1. PICK c : c = op[p].form.contact
  OBVIOUS
<1> DEFINE r == [leads[l] EXCEPT !.state = "committed"]
<1>2. /\ l \in Ids /\ l # 0 /\ leads[l].state = "pending" /\ leads[l].key = op[p].form.key
      /\ leads[l].contact = c /\ leads[l].assignment = at[p] /\ leads[l] \in Leads
      /\ leads[l].status # "deleted" /\ leads[l].status \in LeadStatus
      /\ leads[l].key # None /\ Lead(l)
  BY <1>a, <1>b, <1>c, <1>0, <1>1, LeadTypes DEF Work, LeadsInv, Lead
<1>3. /\ leads' = [leads EXCEPT ![l] = r] /\ proofs' = proofs \cup {l}
      /\ jobs' = jobs \cup JobsOf(l, at[p]) /\ Respond(op[p].form.key, l)
      /\ overlapped' = IF Overlap(p) THEN overlapped \cup {c} ELSE overlapped
  BY <1>0, <1>1 DEF CommitLead
<1>4. /\ r \in Leads /\ r.key = leads[l].key /\ r.contact = c /\ r.state = "committed"
      /\ r.status = leads[l].status /\ r.assignment = at[p]
  BY <1>2 DEF Leads
<1> HIDE DEF r
<1>5. /\ leads' \in Seq(Leads) /\ Ids' = Ids
      /\ leads'[l] = r /\ \A m \in Ids : m # l => leads'[m] = leads[m]
  BY <1>a, <1>2, <1>3, <1>4, LeadWritten
<1>6. overlapped \subseteq overlapped' /\ overlapped' \subseteq Contacts /\ l \in proofs'
      /\ proofs' \subseteq Ids
  BY <1>a, <1>c, <1>1, <1>2, <1>3 DEF Types
<1>7. at[p] \in Assignments \cup {None} /\ jobs \subseteq Ids \X Assignments \X {"email", "phone"}
  BY <1>a DEF Types
<1>8. /\ pc' \in [Procs -> Labels] /\ op' \in [Procs -> Operations]
      /\ at' \in [Procs -> Assignments \cup {None}] /\ lead' \in [Procs -> Nat] /\ begun' \in Nat
      /\ \A q \in Procs : q # p =>
            pc'[q] = pc[q] /\ op'[q] = op[q] /\ at'[q] = at[q] /\ lead'[q] = lead[q]
      /\ lead'[p] \in {0, l} /\ Work(p)'
      /\ leads[l].status = "delivery_failed" => pc'[p] = "alerting" /\ lead'[p] = l
  <2>1. CASE NeedsAlert(l)
    <3>1. Goto(p, "alerting") /\ UNCHANGED <<op, at, lead, begun>>
      BY <2>1, <1>0 DEF CommitLead
    <3>2. pc' \in [Procs -> Labels] /\ pc'[p] = "alerting" /\ \A q \in Procs : q # p => pc'[q] = pc[q]
      BY <1>a, <3>1 DEF Types, Goto
    <3>3. op[p].kind = "submit" /\ op[p] # Idle
      BY <1>a, <1>b DEF Work, Submitting
    <3>4. lead'[p] = l /\ l \in Ids' /\ Stored(l)' /\ op'[p] = op[p]
      BY <1>0, <1>2, <1>4, <1>5, <3>1 DEF Stored
    <3>5. Work(p)'
      BY <1>2, <3>2, <3>3, <3>4 DEF Work, Submitting, Checked, Stored
    <3> QED
      BY <1>a, <3>1, <3>2, <3>4, <3>5 DEF Types
  <2>2. CASE ~NeedsAlert(l)
    <3>1. OpEnds(p)
      BY <2>2, <1>0 DEF CommitLead
    <3> QED
      BY <3>1, <1>a, <2>2, Ended DEF NeedsAlert
  <2> QED
    BY <2>1, <2>2
\* A process that has passed the check for the contact makes the two overlap.
<1>9. \A q \in Procs : q # p /\ pc[q] \in Checked /\ op[q].form.contact = c => c \in overlapped'
  BY <1>1, <1>3 DEF Overlap, Checked
<1>10. WorkInv'
  <2>1. ASSUME NEW q \in Procs, q # p PROVE Work(q)'
    <3>0. PICK d : d = op[q].form.contact
      OBVIOUS
    <3>1. Work(q)
      BY <1>a DEF WorkInv
    <3>2. lead[q] # l
      BY <1>a, <1>0, <1>2, <2>1 DEF WorkInv, Owners
    <3>3. pc[q] = "committing" => leads'[lead[q]] = leads[lead[q]]
      BY <3>1, <3>2, <1>5 DEF Work
    <3>4. d # c /\ Fresh(d) => Fresh(d)'
      BY <1>4, <1>5 DEF Fresh, Stored
    <3>5. pc[q] \in Checked /\ Fresh(d) => d \in overlapped' \/ Fresh(d)'
      BY <1>9, <2>1, <3>0, <3>4
    <3>6. op'[q].form.contact = d
      BY <1>8, <2>1, <3>0
    <3>7. Fresh(op[q].form.contact)' <=> Fresh(d)'
      BY <3>6 DEF Fresh
    <3>8. /\ pc'[q] = "idle" <=> op'[q] = Idle
          /\ pc'[q] \in Submitting => op'[q].kind = "submit"
          /\ pc'[q] \in {"committing", "alerting"} <=> lead'[q] # 0
          /\ lead'[q] # 0 => lead'[q] \in Ids'
          /\ op'[q].kind = "record" => op'[q].about \in Ids'
      BY <3>1, <1>5, <1>8, <2>1 DEF Work
    <3>9. pc'[q] = "committing" =>
            /\ leads'[lead'[q]].state = "pending"
            /\ leads'[lead'[q]].key = op'[q].form.key
            /\ leads'[lead'[q]].contact = op'[q].form.contact
            /\ leads'[lead'[q]].assignment = at'[q]
      BY <3>1, <3>3, <1>8, <2>1 DEF Work
    <3>10. pc'[q] = "alerting" => Stored(lead[q])'
      BY <3>1, <3>2, <1>5, <1>8, <2>1 DEF Work, Stored
    <3>11. pc'[q] \in Checked => op'[q].form.contact \in overlapped' \/ Fresh(op[q].form.contact)'
      BY <3>0, <3>1, <3>5, <3>6, <3>7, <1>6, <1>8, <2>1 DEF Work
    <3> QED
      BY <3>8, <3>9, <3>10, <3>11 DEF Work
  <2>2. Owners'
    BY <1>a, <1>0, <1>8 DEF WorkInv, Owners
  <2> QED
    BY <1>8, <2>1, <2>2 DEF WorkInv
<1>11. /\ jobs' \subseteq Ids \X Assignments \X {"email", "phone"}
       /\ \A m : m # l => {j \in jobs' : j[1] = m} = {j \in jobs : j[1] = m}
       /\ \A j \in JobsOf(l, at[p]) : j[1] = l
  <2>1. ASSUME NEW j \in JobsOf(l, at[p])
        PROVE  j[1] = l /\ j \in Ids \X Assignments \X {"email", "phone"}
    <3>1. j \in {l} \X {at[p]} \X Routable(at[p])
      BY <2>1 DEF JobsOf
    <3>2. at[p] # None /\ Routable(at[p]) \subseteq {"email", "phone"}
      BY <3>1, <1>7, IntakeConstants DEF Routable
    <3> QED
      BY <3>1, <3>2, <1>2, <1>7
  <2> QED
    BY <2>1, <1>3, <1>7
<1>12. LeadsInv'
  <2>1. Lead(l)'
    <3>1. {j \in jobs : j[1] = l} = {}
      BY <1>2 DEF Lead, Stored
    <3>2. {j \in jobs' : j[1] = l} = JobsOf(l, at[p])
      BY <3>1, <1>3, <1>11
    <3>3. leads[l].status = "routing" =>
            {j \in jobs' : j[1] = l} = {l} \X {at[p]} \X Routable(at[p])
      BY <3>2 DEF JobsOf
    <3>4. leads[l].status \in {"spam", "delivery_failed"} => \A j \in jobs' : j[1] # l
      BY <3>2 DEF JobsOf
    <3>5. leads[l].status = "delivery_failed" =>
            \E q \in Procs : pc'[q] = "alerting" /\ lead'[q] = l
      BY <1>8
    <3>6. /\ leads'[l].status = leads[l].status /\ leads'[l].key = leads[l].key
          /\ leads'[l].assignment = at[p] /\ leads'[l].state = "committed"
          /\ leads[l].status = "routing" => at[p] # None
      BY <1>2, <1>4, <1>5 DEF Lead
    <3>7. (Routable(leads[l].assignment))' = Routable(at[p])
      BY <3>6 DEF Routable
    <3> QED
      BY <3>3, <3>4, <3>5, <3>6, <3>7, <1>2, <1>6 DEF Lead, Stored
  <2>2. ASSUME NEW m \in Ids, m # l PROVE Lead(m)'
    <3>1. Lead(m) /\ leads'[m] = leads[m]
      BY <1>a, <1>5, <2>2 DEF LeadsInv
    <3>2. {j \in jobs' : j[1] = m} = {j \in jobs : j[1] = m}
      BY <1>11, <2>2
    <3>3. (\A j \in jobs : j[1] # m) => \A j \in jobs' : j[1] # m
      BY <3>2
    <3>4. (\E q \in Procs : pc[q] = "alerting" /\ lead[q] = m) =>
            \E q \in Procs : pc'[q] = "alerting" /\ lead'[q] = m
      BY <1>b, <1>8
    <3>5. m \in proofs => m \in proofs'
      BY <1>3
    <3> QED
      BY <3>1, <3>2, <3>3, <3>4, <3>5, <1>b DEF Lead, Stored, Routable
  <2>3. \A m \in Ids : leads'[m].key = leads[m].key /\ (Live(m)' <=> Live(m))
    BY <1>2, <1>4, <1>5 DEF Live
  <2>4. \A m, k \in Ids : Live(m)' /\ Live(k)' /\ leads'[m].key = leads'[k].key => m = k
    BY <1>a, <2>3 DEF LeadsInv
  <2>5. \A m \in Ids : m # l => (Recent(m)' <=> Recent(m)) /\ leads'[m].contact = leads[m].contact
    BY <1>5 DEF Recent, Stored
  <2>6. c \notin overlapped' => \A m \in Ids : ~(Recent(m) /\ leads[m].contact = c)
    BY <1>a, <1>b, <1>1, <1>6 DEF Work, Checked, Fresh, Recent
  <2>7. ASSUME NEW m \in Ids, NEW k \in Ids, Recent(m)', Recent(k)',
               leads'[m].contact = leads'[k].contact, leads'[m].contact # None,
               leads'[m].contact \notin overlapped'
        PROVE  m = k
    <3>1. leads'[l].contact = c
      BY <1>4, <1>5
    <3> QED
      BY <1>a, <1>6, <2>5, <2>6, <2>7, <3>1 DEF LeadsInv
  <2> QED
    BY <1>5, <2>1, <2>2, <2>4, <2>7 DEF LeadsInv
<1>13. answers' \subseteq Keys \X Ids /\ AnswerInv'
  <2> DEFINE x == <<op[p].form.key, l>>
  <2>1. x \in Keys \X Ids /\ x[1] = op[p].form.key /\ x[2] = l /\ answers' = answers \cup {x}
    BY <1>c, <1>2, <1>3 DEF Respond
  <2> HIDE DEF x
  <2>2. answers \subseteq Keys \X Ids
    BY <1>a DEF Types
  <2>3. ASSUME NEW y \in answers'
        PROVE  /\ y[2] \in Ids /\ leads'[y[2]].state = "committed"
               /\ leads'[y[2]].status = "deleted" \/ leads'[y[2]].key = y[1]
    <3>1. CASE y = x
      BY <3>1, <2>1, <1>2, <1>4, <1>5
    <3>2. CASE y \in answers
      <4>1. /\ y[2] \in Ids /\ leads[y[2]].state = "committed"
            /\ leads[y[2]].status = "deleted" \/ leads[y[2]].key = y[1]
        BY <3>2, <1>a DEF AnswerInv, Stored
      <4> QED
        BY <4>1, <1>2, <1>5
    <3> QED
      BY <3>1, <3>2, <2>1, <2>3
  <2> QED
    BY <2>1, <2>2, <2>3, <1>5 DEF AnswerInv, Stored
<1>14. EventInv'
  BY <1>a, <1>b, <1>5 DEF EventInv, Recorded
<1>15. Types'
  BY <1>a, <1>b, <1>5, <1>6, <1>8, <1>11, <1>13 DEF Types
<1> QED
  BY <1>10, <1>12, <1>13, <1>14, <1>15 DEF IndInv

\* AnalyticsService.record.
LEMMA EventsInv ==
  ASSUME IndInv, NEW p \in Procs,
         (\E e \in Events, l \in Ids : RecordEvent(p, e, l)) \/ StoreEvent(p)
  PROVE  IndInv'
<1>a. Types /\ WorkInv /\ LeadsInv /\ AnswerInv /\ EventInv /\ Work(p)
  BY DEF IndInv, WorkInv
<1>1. ASSUME NEW e \in Events, NEW l \in Ids, RecordEvent(p, e, l) PROVE IndInv'
  <2> USE DEF database, history
  <2> DEFINE o == [kind |-> "record", event |-> e, about |-> l]
  <2>1. Begin(p, o) /\ Goto(p, "writing") /\ UNCHANGED <<database, used, history>>
    BY <1>1 DEF RecordEvent
  <2>2. o \in Operations /\ o.kind = "record" /\ o # Idle /\ o.about = l
    BY DEF Operations, Idle, Ids
  <2> HIDE DEF o
  <2>3. /\ pc' \in [Procs -> Labels] /\ op' \in [Procs -> Operations]
        /\ at' \in [Procs -> Assignments \cup {None}] /\ lead' \in [Procs -> Nat]
        /\ begun' \in Nat
        /\ pc[p] = "idle" /\ pc'[p] = "writing" /\ op'[p] = o
        /\ \A q \in Procs : q # p => pc'[q] = pc[q] /\ op'[q] = op[q]
        /\ \A q \in Procs : at'[q] = at[q] /\ lead'[q] = lead[q]
    BY <1>a, <2>1, <2>2, Begun
  <2>4. Ids' = Ids
    BY <2>1 DEF Ids
  <2>5. Work(p)'
    BY <1>a, <2>2, <2>3, <2>4, StartedWork
  <2>6. WorkInv' /\ LeadsInv'
    BY <1>a, <2>1, <2>3, <2>5, ProcessStep
  <2>7. AnswerInv' /\ EventInv'
    BY <1>a, <2>1, RestQuiet
  <2>8. Types'
    BY <1>a, <2>1, <2>3, <2>4 DEF Types
  <2> QED
    BY <2>6, <2>7, <2>8 DEF IndInv
<1>2. CASE StoreEvent(p)
  <2>1. /\ pc[p] = "writing" /\ op[p].kind = "record" /\ OpEnds(p)
        /\ UNCHANGED <<profile, status, leads, proofs, jobs, used, answers,
                       overlapped, alerted, forgotten>>
    BY <1>2 DEF StoreEvent
  <2>2. op[p] \in Operations /\ op[p].about \in Ids
    BY <1>a, <2>1 DEF Types, Work
  <2>3. op[p].event \in Events
    BY <2>1, <2>2, OperationTypes
  <2>4. /\ pc' \in [Procs -> Labels] /\ op' \in [Procs -> Operations]
        /\ at' \in [Procs -> Assignments \cup {None}] /\ lead' \in [Procs -> Nat]
        /\ begun' \in Nat
        /\ pc'[p] = "idle" /\ op'[p] = Idle /\ lead'[p] = 0
        /\ \A q \in Procs : q # p =>
              pc'[q] = pc[q] /\ op'[q] = op[q] /\ at'[q] = at[q] /\ lead'[q] = lead[q]
        /\ Work(p)'
    BY <1>a, <2>1, Ended
  <2>5. WorkInv' /\ LeadsInv'
    BY <1>a, <2>1, <2>4, ProcessStep
  <2>6. AnswerInv'
    BY <1>a, <2>1 DEF AnswerInv, Ids, Stored
  <2>7. Ids' = Ids
    BY <2>1 DEF Ids
  <2>8. known \subseteq Events \X Ids /\ counted \in [Events -> Nat]
    BY <1>a DEF Types
  <2>9. EventInv' /\ known' \subseteq Events \X Ids /\ counted' \in [Events -> Nat]
    <3>1. CASE Recorded(op[p].event)
      <4>1. UNCHANGED <<known, counted>>
        BY <1>2, <3>1 DEF StoreEvent
      <4> QED
        BY <1>a, <2>1, <2>7, <2>8, <4>1 DEF EventInv, Recorded
    <3>2. CASE ~Recorded(op[p].event)
      <4>0. PICK e : e = op[p].event
        OBVIOUS
      <4> DEFINE x == <<e, op[p].about>>
      <4>1. known' = known \cup {x} /\ counted' = [counted EXCEPT ![e] = @ + 1]
        BY <1>2, <3>2, <4>0 DEF StoreEvent
      <4>2. x \in Events \X Ids /\ x[1] = e /\ e \in Events /\ ~Recorded(e)
        BY <2>2, <2>3, <3>2, <4>0
      <4>3. \A f, m : <<f, m>> = x => f = e
        OBVIOUS
      <4>4. \E m \in Ids : x = <<e, m>>
        BY <2>2
      <4> HIDE DEF x
      <4>5. Recorded(e)' /\ \A f \in Events : f # e => (Recorded(f)' <=> Recorded(f))
        BY <2>7, <4>1, <4>3, <4>4 DEF Recorded
      <4>6. counted' \in [Events -> Nat] /\ counted'[e] = counted[e] + 1
            /\ \A f \in Events : f # e => counted'[f] = counted[f]
        BY <2>8, <4>1, <4>2
      <4>7. e \in forgotten \/ counted[e] = 0
        BY <1>a, <4>2 DEF EventInv
      <4>8. e \in forgotten \/ counted'[e] = 1
        BY <4>6, <4>7
      <4>9. ASSUME NEW f \in Events, f # e
            PROVE  f \in forgotten \/ counted'[f] = IF Recorded(f)' THEN 1 ELSE 0
        BY <1>a, <4>5, <4>6, <4>9 DEF EventInv
      <4>10. EventInv'
        BY <2>1, <4>5, <4>8, <4>9 DEF EventInv
      <4> QED
        BY <2>8, <4>1, <4>2, <4>6, <4>10
    <3> QED
      BY <3>1, <3>2
  <2>10. Types'
    BY <1>a, <2>1, <2>4, <2>7, <2>9 DEF Types
  <2> QED
    BY <2>5, <2>6, <2>9, <2>10 DEF IndInv
<1> QED
  BY <1>1, <1>2

\* A stored lead is rewritten by erasure, or by time.
LEMMA Rewritten ==
  ASSUME Types, WorkInv, LeadsInv, AnswerInv, NEW l \in Ids, Stored(l), NEW new \in Leads,
         leads' = [leads EXCEPT ![l] = new],
         UNCHANGED <<proofs, jobs, procVars, answers, overlapped, alerted>>,
         new.state = "committed", new.recent => leads[l].recent,
         new.contact \in {leads[l].contact, None},
         new.status # "deleted" =>
            /\ new.status = leads[l].status /\ new.key = leads[l].key
            /\ new.assignment = leads[l].assignment
  PROVE  leads' \in Seq(Leads) /\ Ids' = Ids /\ WorkInv' /\ LeadsInv' /\ AnswerInv'
<1> USE DEF procVars
<1>1. /\ leads' \in Seq(Leads) /\ Ids' = Ids
      /\ leads'[l] = new /\ \A m \in Ids : m # l => leads'[m] = leads[m]
  BY LeadWritten
<1>2. \A m \in Ids : leads'[m].state = leads[m].state
  BY <1>1 DEF Stored
<1>3. \A m \in Ids : /\ Recent(m)' => Recent(m)
                     /\ leads'[m].contact \in {leads[m].contact, None}
  BY <1>1, <1>2 DEF Recent, Stored
<1>4. ASSUME NEW q \in Procs PROVE Work(q)'
  <2>1. Work(q)
    BY DEF WorkInv
  <2>2. pc[q] = "committing" => lead[q] # l /\ lead[q] \in Ids
    BY <2>1 DEF Work, Stored
  <2>3. pc[q] \in Checked => op[q].form.contact # None
    BY <2>1, FormOf DEF Checked, Submitting
  <2>4. op'[q].form.contact = op[q].form.contact
    OBVIOUS
  <2>5. pc[q] \in Checked /\ Fresh(op[q].form.contact) => Fresh(op[q].form.contact)'
    BY <1>1, <1>2, <1>3, <2>3, <2>4 DEF Fresh, Recent, Stored
  <2> QED
    BY <1>1, <1>2, <2>1, <2>2, <2>5, WorkKept
<1>5. Owners'
  BY DEF WorkInv, Owners
<1>6. ASSUME NEW m \in Ids PROVE Lead(m)'
  <2>1. Lead(m)
    BY DEF LeadsInv
  <2>2. CASE m # l
    BY <1>1, <2>1, <2>2 DEF Lead, Stored, Routable
  <2>3. CASE m = l /\ new.status = "deleted"
    BY <1>1, <2>1, <2>3 DEF Lead, Stored
  <2>4. CASE m = l /\ new.status # "deleted"
    BY <1>1, <2>1, <2>4 DEF Lead, Stored, Routable
  <2> QED
    BY <2>2, <2>3, <2>4
<1>7. \A m \in Ids : Live(m)' => Live(m) /\ leads'[m].key = leads[m].key
  BY <1>1, <1>2 DEF Live
<1>8. \A m, k \in Ids : Live(m)' /\ Live(k)' /\ leads'[m].key = leads'[k].key => m = k
  BY <1>7 DEF LeadsInv
<1>9. \A m, k \in Ids :
        Recent(m)' /\ Recent(k)' /\ leads'[m].contact = leads'[k].contact
           /\ leads'[m].contact # None /\ leads'[m].contact \notin overlapped => m = k
  BY <1>3 DEF LeadsInv
<1>10. AnswerInv'
  BY <1>1, <1>2 DEF AnswerInv, Stored
<1> QED
  BY <1>1, <1>4, <1>5, <1>6, <1>8, <1>9, <1>10 DEF WorkInv, LeadsInv

\* _anonymize: the lead's key goes with its data, and its events' identities.
LEMMA EraseInv ==
  ASSUME IndInv, NEW l \in Ids, Erase(l)
  PROVE  IndInv'
<1>a. Types /\ WorkInv /\ LeadsInv /\ AnswerInv /\ EventInv
  BY DEF IndInv
<1> DEFINE r == [leads[l] EXCEPT !.key = None, !.contact = None, !.status = "deleted"]
<1>1. /\ Stored(l) /\ leads' = [leads EXCEPT ![l] = r]
      /\ known' = {x \in known : x[2] # l}
      /\ forgotten' = forgotten \cup {x[1] : x \in {x \in known : x[2] = l}}
      /\ UNCHANGED <<profile, status, proofs, jobs, used, procVars,
                     answers, overlapped, alerted, counted>>
  BY DEF Erase
<1>2. leads[l] \in Leads
  BY <1>a, LeadTypes
<1>3. /\ r \in Leads /\ r.state = "committed" /\ r.recent = leads[l].recent
      /\ r.contact = None /\ r.status = "deleted"
  BY <1>1, <1>2 DEF Leads, Stored
<1> HIDE DEF r
<1>4. leads' \in Seq(Leads) /\ Ids' = Ids /\ WorkInv' /\ LeadsInv' /\ AnswerInv'
  BY <1>a, <1>1, <1>3, Rewritten
<1>5. known \subseteq Events \X Ids /\ forgotten \subseteq Events
  BY <1>a DEF Types
<1>6. known' \subseteq Events \X Ids' /\ forgotten' \subseteq Events
  BY <1>1, <1>4, <1>5
<1>7. ASSUME NEW e \in Events, e \notin forgotten'
      PROVE  e \notin forgotten /\ (Recorded(e)' <=> Recorded(e))
  <2>1. e \notin forgotten /\ \A x \in known : x[2] = l => x[1] # e
    BY <1>1, <1>7
  <2>2. \A m \in Ids : <<e, m>> \in known => m # l
    <3> SUFFICES ASSUME NEW m \in Ids, <<e, m>> \in known PROVE m # l
      OBVIOUS
    <3> DEFINE x == <<e, m>>
    <3>1. x[1] = e /\ x[2] = m /\ x \in known
      OBVIOUS
    <3> HIDE DEF x
    <3> QED
      BY <3>1, <2>1
  <2>3. \A m \in Ids : m # l => (<<e, m>> \in known' <=> <<e, m>> \in known)
    BY <1>1
  <2>4. known' \subseteq known
    BY <1>1
  <2> QED
    BY <2>1, <2>2, <2>3, <2>4, <1>4 DEF Recorded
<1>8. EventInv'
  BY <1>a, <1>1, <1>7 DEF EventInv
<1>9. Types'
  BY <1>a, <1>1, <1>4, <1>6 DEF Types, procVars
<1> QED
  BY <1>4, <1>8, <1>9 DEF IndInv

\* The de-duplication window passes.
LEMMA WindowInv ==
  ASSUME IndInv, NEW l \in Ids, WindowPasses(l)
  PROVE  IndInv'
<1>a. Types /\ WorkInv /\ LeadsInv /\ AnswerInv /\ EventInv
  BY DEF IndInv
<1> DEFINE r == [leads[l] EXCEPT !.recent = FALSE]
<1>1. /\ Stored(l) /\ leads' = [leads EXCEPT ![l] = r]
      /\ UNCHANGED <<profile, status, proofs, jobs, known, used, procVars, history>>
  BY DEF WindowPasses
<1>2. leads[l] \in Leads
  BY <1>a, LeadTypes
<1>3. /\ r \in Leads /\ r.state = "committed" /\ r.recent = FALSE
      /\ r.contact = leads[l].contact /\ r.status = leads[l].status
      /\ r.key = leads[l].key /\ r.assignment = leads[l].assignment
  BY <1>1, <1>2 DEF Leads, Stored
<1> HIDE DEF r
<1>4. leads' \in Seq(Leads) /\ Ids' = Ids /\ WorkInv' /\ LeadsInv' /\ AnswerInv'
  BY <1>a, <1>1, <1>3, Rewritten DEF history
<1>5. EventInv'
  BY <1>a, <1>1, <1>4 DEF EventInv, Recorded, history
<1>6. Types'
  BY <1>a, <1>1, <1>4 DEF Types, procVars, history
<1> QED
  BY <1>4, <1>5, <1>6 DEF IndInv

\* A process dies: a lead that was not committed is lost with it, and nobody is alerted
\* of one that was.
LEMMA CrashInv ==
  ASSUME IndInv, NEW p \in Procs, Crash(p)
  PROVE  IndInv'
<1>a. Types /\ WorkInv /\ LeadsInv /\ AnswerInv /\ EventInv /\ Work(p)
  BY DEF IndInv, WorkInv
<1>b. /\ alerted' = IF pc[p] = "alerting" THEN alerted \cup {lead[p]} ELSE alerted
      /\ OpEnds(p)
      /\ UNCHANGED <<profile, status, proofs, jobs, known, used, answers,
                     overlapped, counted, forgotten>>
  BY DEF Crash
<1>c. /\ used \in 0 .. RateLimit /\ answers \subseteq Keys \X Ids /\ alerted \subseteq Ids
  BY <1>a DEF Types
<1>1. CASE pc[p] # "committing"
  <2>1. leads' = leads
    BY <1>1 DEF Crash
  <2>2. pc[p] = "alerting" => lead[p] \in Ids
    BY <1>a DEF Work
  <2> QED
    BY <1>b, <1>c, <2>1, <2>2, EndInv
<1>2. CASE pc[p] = "committing"
  <2>0. PICK l : l = lead[p]
    OBVIOUS
  <2> DEFINE r == [leads[l] EXCEPT !.state = "lost"]
  <2>1. leads' = [leads EXCEPT ![l] = r] /\ alerted' = alerted
    BY <1>2, <1>b, <2>0 DEF Crash
  <2>2. /\ l \in Ids /\ l # 0 /\ leads[l].state = "pending" /\ leads[l] \in Leads
        /\ ~Stored(l) /\ Lead(l)
    BY <1>a, <1>2, <2>0, LeadTypes DEF Work, LeadsInv, Stored
  <2>3. r \in Leads /\ r.state = "lost" /\ r.status = leads[l].status /\ r.key = leads[l].key
        /\ r.assignment = leads[l].assignment
    BY <2>2 DEF Leads
  <2> HIDE DEF r
  <2>4. /\ leads' \in Seq(Leads) /\ Ids' = Ids
        /\ leads'[l] = r /\ \A m \in Ids : m # l => leads'[m] = leads[m]
    BY <1>a, <2>1, <2>2, <2>3, LeadWritten
  <2>5. /\ pc' \in [Procs -> Labels] /\ op' \in [Procs -> Operations]
        /\ at' \in [Procs -> Assignments \cup {None}] /\ lead' \in [Procs -> Nat]
        /\ begun' \in Nat
        /\ pc'[p] = "idle" /\ op'[p] = Idle /\ lead'[p] = 0
        /\ \A q \in Procs : q # p =>
              pc'[q] = pc[q] /\ op'[q] = op[q] /\ at'[q] = at[q] /\ lead'[q] = lead[q]
        /\ Work(p)'
    BY <1>a, <1>b, Ended
  <2>6. \A m \in Ids : Recent(m)' <=> Recent(m) /\ m # l
    BY <2>2, <2>3, <2>4 DEF Recent, Stored
  <2>7. ASSUME NEW q \in Procs, q # p PROVE Work(q)'
    <3>1. Work(q) /\ lead[q] # l
      BY <1>a, <2>0, <2>2, <2>7 DEF WorkInv, Owners
    <3>2. pc[q] \in {"committing", "alerting"} =>
            lead[q] \in Ids /\ leads'[lead[q]] = leads[lead[q]]
      BY <3>1, <2>4 DEF Work
    <3>3. op'[q] = op[q] /\ pc'[q] = pc[q] /\ lead'[q] = lead[q] /\ at'[q] = at[q]
      BY <2>5, <2>7
    <3>4. Fresh(op[q].form.contact) => Fresh(op[q].form.contact)'
      BY <2>2, <2>3, <2>4, <3>3 DEF Fresh, Stored
    <3>5. /\ pc'[q] = "idle" <=> op'[q] = Idle
          /\ pc'[q] \in Submitting => op'[q].kind = "submit"
          /\ pc'[q] \in {"committing", "alerting"} <=> lead'[q] # 0
          /\ lead'[q] # 0 => lead'[q] \in Ids'
          /\ op'[q].kind = "record" => op'[q].about \in Ids'
      BY <3>1, <3>3, <2>4 DEF Work
    <3>6. pc'[q] = "committing" =>
            /\ leads'[lead'[q]].state = "pending"
            /\ leads'[lead'[q]].key = op'[q].form.key
            /\ leads'[lead'[q]].contact = op'[q].form.contact
            /\ leads'[lead'[q]].assignment = at'[q]
      BY <3>1, <3>2, <3>3 DEF Work
    <3>7. pc'[q] = "alerting" => Stored(lead[q])'
      BY <3>1, <3>2, <3>3 DEF Work, Stored
    <3>8. pc'[q] \in Checked => op'[q].form.contact \in overlapped' \/ Fresh(op[q].form.contact)'
      BY <1>b, <3>1, <3>3, <3>4 DEF Work
    <3> QED
      BY <3>5, <3>6, <3>7, <3>8 DEF Work
  <2>8. WorkInv'
    <3>1. Owners'
      BY <1>a, <2>5 DEF WorkInv, Owners
    <3> QED
      BY <2>5, <2>7, <3>1 DEF WorkInv
  <2>9. LeadsInv'
    <3>1. Lead(l)'
      BY <1>b, <2>2, <2>3, <2>4 DEF Lead, Stored
    <3>2. ASSUME NEW m \in Ids, m # l PROVE Lead(m)'
      <4>1. Lead(m) /\ leads'[m] = leads[m]
        BY <1>a, <2>4, <3>2 DEF LeadsInv
      <4>2. (\E q \in Procs : pc[q] = "alerting" /\ lead[q] = m) =>
              \E q \in Procs : pc'[q] = "alerting" /\ lead'[q] = m
        BY <1>2, <2>5
      <4> QED
        BY <1>b, <2>1, <4>1, <4>2 DEF Lead, Stored, Routable
    <3>3. \A m, k \in Ids : Live(m)' /\ Live(k)' /\ leads'[m].key = leads'[k].key => m = k
      BY <1>a, <2>3, <2>4 DEF LeadsInv, Live
    <3>4. \A m, k \in Ids :
            Recent(m)' /\ Recent(k)' /\ leads'[m].contact = leads'[k].contact
               /\ leads'[m].contact # None /\ leads'[m].contact \notin overlapped => m = k
      BY <1>a, <2>4, <2>6 DEF LeadsInv
    <3> QED
      BY <1>b, <2>4, <3>1, <3>2, <3>3, <3>4 DEF LeadsInv
  <2>10. AnswerInv'
    BY <1>a, <1>b, <2>2, <2>4 DEF AnswerInv, Stored
  <2>11. EventInv'
    BY <1>a, <1>b, <2>4 DEF EventInv, Recorded
  <2>12. Types'
    BY <1>a, <1>b, <2>1, <2>4, <2>5 DEF Types
  <2> QED
    BY <2>8, <2>9, <2>10, <2>11, <2>12 DEF IndInv
<1> QED
  BY <1>1, <1>2

\* A step that concerns neither processes nor leads.
LEMMA OutsideInv ==
  ASSUME IndInv, UNCHANGED <<leads, proofs, jobs, known, procVars, history>>,
         profile' \in BOOLEAN, used' \in 0 .. RateLimit,
         status' \in [Assignments -> AssignmentStatus \cup {"absent"}]
  PROVE  IndInv'
<1> USE DEF procVars, history
<1>a. Types /\ WorkInv /\ LeadsInv /\ AnswerInv /\ EventInv
  BY DEF IndInv
<1>1. WorkInv'
  BY <1>a DEF WorkInv, Work, Owners, Fresh, Stored, Ids
<1>2. LeadsInv'
  BY <1>a, DataQuiet
<1>3. AnswerInv' /\ EventInv'
  BY <1>a, RestQuiet
<1>4. Types'
  BY <1>a DEF Types, Ids
<1> QED
  BY <1>1, <1>2, <1>3, <1>4 DEF IndInv
----------------------------------------------------------------------------
(* The theorems.                                                           *)

\* The first state.
LEMMA InitInv == Init => IndInv
<1> SUFFICES ASSUME Init PROVE IndInv
  OBVIOUS
<1>1. Ids = {} /\ leads \in Seq(Leads)
  BY DEF Init, Ids
<1>2. Idle \in Operations /\ Idle.kind = "idle"
  BY OperationTypes DEF Idle
<1>3. Types
  BY <1>1, <1>2, IntakeConstants DEF Init, Types
<1>4. WorkInv
  BY <1>1, <1>2 DEF Init, WorkInv, Work, Owners, Submitting, Checked
<1>5. LeadsInv /\ AnswerInv
  BY <1>1 DEF Init, LeadsInv, AnswerInv
<1>6. EventInv
  BY <1>1 DEF Init, EventInv, Recorded
<1> QED
  BY <1>3, <1>4, <1>5, <1>6 DEF IndInv

\* Every step.
LEMMA NextInv == IndInv /\ [Next]_vars => IndInv'
<1> SUFFICES ASSUME IndInv, [Next]_vars PROVE IndInv'
  OBVIOUS
<1>a. /\ profile \in BOOLEAN /\ used \in 0 .. RateLimit /\ RateLimit \in Nat
      /\ status \in [Assignments -> AssignmentStatus \cup {"absent"}]
  BY IntakeConstants DEF IndInv, Types
<1>1. CASE CreateProfile
  BY <1>1, <1>a, OutsideInv DEF CreateProfile
<1>2. CASE LimiterForgets
  BY <1>2, <1>a, OutsideInv DEF LimiterForgets, database
<1>3. ASSUME NEW a \in Assignments, CreateAssignment(a) PROVE IndInv'
  <2>1. status' \in [Assignments -> AssignmentStatus \cup {"absent"}]
    BY <1>3, <1>a DEF CreateAssignment, AssignmentStatus
  <2> QED
    BY <1>3, <1>a, <2>1, OutsideInv DEF CreateAssignment
<1>4. ASSUME NEW p \in Procs, Submission(p) PROVE IndInv'
  BY <1>4, SubmitInv, SubmissionInv, InsertInv, CommitInv DEF Submission
<1>5. CASE UNCHANGED vars
  BY <1>5, <1>a, OutsideInv DEF vars, history
<1> QED
  BY <1>1, <1>2, <1>3, <1>4, <1>5, OperateInv, EventsInv, CrashInv, EraseInv, WindowInv DEF Next

\* The inductive invariant holds in every reachable state: what each process holds at each
\* of its steps, one lead for a key, jobs that come with the commit of their lead.
THEOREM Inductive == Spec => []IndInv
BY InitInv, NextInv, PTL DEF Spec

\* LeadRoutingService.submit and AnalyticsService.record: retries have one effect, for any
\* number of processes, forms and events.
THEOREM RetriesSafe == Spec => []RetriesHaveOneEffect
<1>1. IndInv => RetriesHaveOneEffect
  <2> SUFFICES ASSUME IndInv PROVE RetriesHaveOneEffect
    OBVIOUS
  <2>1. ASSUME NEW x \in answers, NEW y \in answers, x[1] = y[1], x[2] # y[2]
        PROVE  "deleted" \in {leads[x[2]].status, leads[y[2]].status}
    BY <2>1 DEF IndInv, AnswerInv, LeadsInv, Live, Stored
  <2>2. ASSUME NEW e \in Events \ forgotten PROVE counted[e] <= 1
    BY <2>2 DEF IndInv, EventInv
  <2> QED
    BY <2>1, <2>2 DEF RetriesHaveOneEffect
<1> QED
  BY <1>1, Inductive, PTL

\* A set without two elements has at most one.
LEMMA AtMostOne ==
  ASSUME NEW S, \A x, y \in S : x = y
  PROVE  Cardinality(S) <= 1
<1>1. CASE S = {}
  BY <1>1, FS_EmptySet
<1>2. CASE S # {}
  <2>1. PICK x : x \in S
    BY <1>2
  <2>2. S = {x}
    BY <2>1
  <2> QED
    BY <2>2, FS_Singleton
<1> QED
  BY <1>1, <1>2

\* The duplicate check of submit: only submissions of a contact that overlapped leave two
\* leads of it in the de-duplication window.
THEOREM DuplicatesOverlap == Spec => []DuplicatesOnlyByOverlap
<1>1. IndInv => DuplicatesOnlyByOverlap
  <2> SUFFICES ASSUME IndInv, NEW c \in Contacts \ overlapped
               PROVE  Cardinality({l \in Ids : Stored(l) /\ leads[l].contact = c
                                                  /\ leads[l].recent}) <= 1
    BY DEF DuplicatesOnlyByOverlap
  <2>1. c # None
    BY IntakeConstants DEF Contacts
  <2> DEFINE S == {l \in Ids : Stored(l) /\ leads[l].contact = c /\ leads[l].recent}
  <2>2. \A x, y \in S : x = y
    BY <2>1 DEF IndInv, LeadsInv, Recent
  <2> QED
    BY <2>2, AtMostOne
<1> QED
  BY <1>1, Inductive, PTL

\* submit commits a lead with its consent, assessment, event and jobs, or not at all, and
\* alerts of one without jobs.
THEOREM LeadsWhole == Spec => []StoredWhole
<1>1. IndInv => StoredWhole
  <2> SUFFICES ASSUME IndInv PROVE StoredWhole
    OBVIOUS
  <2>1. TypeOK
    BY DEF IndInv, Types, TypeOK, WorkInv, Work, LeadsInv, Lead
  <2>2. ASSUME NEW l \in Ids, Stored(l)
        PROVE  /\ l \in proofs
               /\ leads[l].status = "delivery_failed" =>
                    l \in alerted \/ \E p \in Procs : pc[p] = "alerting" /\ lead[p] = l
               /\ leads[l].status = "routing" =>
                    {j \in jobs : j[1] = l} = {l} \X {leads[l].assignment} \X Routable(leads[l].assignment)
               /\ leads[l].status \in {"spam", "delivery_failed"} => {j \in jobs : j[1] = l} = {}
    <3>1. Lead(l)
      BY DEF IndInv, LeadsInv
    <3> QED
      BY <2>2, <3>1 DEF Lead
  <2> QED
    BY <2>1, <2>2 DEF StoredWhole
<1> QED
  BY <1>1, Inductive, PTL
=============================================================================
