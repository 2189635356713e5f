----------------------------- MODULE LeadIntake -----------------------------
(***************************************************************************)
(* Leads before their delivery: form submissions with idempotency keys, a  *)
(* de-duplication window and a rate limit; the provider assignments of the *)
(* property they are routed to; analytics events recorded about leads;     *)
(* erasure.                                                                *)
(*                                                                         *)
(* One property is modelled.  Every process runs one operation at a time;  *)
(* its queries see what is committed when they run, its writes appear with *)
(* its commit, and the database's unique indexes decide between two.       *)
(***************************************************************************)
EXTENDS Naturals, Sequences, FiniteSets

CONSTANTS
    Procs,
    Forms,          \* submissions: [key, contact, blocked]
    Assignments,
    Destination,    \* channels an assignment has a destination for
    Adapters,       \* channels the service has an adapter for
    Events,         \* analytics events by source_name and source_event_id
    RateLimit,      \* policy.rate_limit_count
    MaxOps,         \* bound: operations ever begun
    None

ASSUME IntakeConstants ==
    /\ RateLimit \in Nat \ {0} /\ MaxOps \in Nat
    /\ Destination \in [Assignments -> (SUBSET {"email", "phone"}) \ {{}}]
    /\ Adapters \subseteq {"email", "phone"}
    /\ \A f \in Forms : f.key # None /\ f.contact # None /\ f.blocked \in BOOLEAN
    /\ None \notin Assignments

AssignmentStatus == {"candidate", "pilot", "active", "paused", "terminated", "replaced"}
Allowed == [candidate |-> {"pilot", "terminated"},
            pilot |-> {"active", "paused", "terminated"},
            active |-> {"paused", "terminated", "replaced"},
            paused |-> {"active", "terminated", "replaced"},
            terminated |-> {}, replaced |-> {}, absent |-> {}]
Keys == {f.key : f \in Forms}
Contacts == {f.contact : f \in Forms}

VARIABLES
    profile,        \* the routing profile exists
    status,         \* status of an assignment, "absent" before it is created
    leads,          \* leads by id
    proofs,         \* leads whose consent, assessment and first event are stored
    jobs,           \* provider_deliveries: <<lead, assignment, channel>>
    known,          \* analytics rows: <<event, lead>>
    begun,          \* operations begun, for the bound
    used,           \* requests of the address in the limiter's window
    pc, op, at,     \* of a process: step, operation, the assignment it read
    lead,           \* of a process: the lead it inserted, 0 for none
    \* history: answers to a key other than as a duplicate; contacts submitted by
    \* two requests at once; leads alerted, or whose process died first; times an
    \* event was recorded; events recorded about a lead erased since
    answers, overlapped, alerted, counted, forgotten

procVars == <<pc, op, at, lead, begun>>
vars == <<profile, status, leads, proofs, jobs, known, used, procVars,
          answers, overlapped, alerted, counted, forgotten>>

Idle == [kind |-> "idle"]
Ids == 1 .. Len(leads)
Stored(l) == leads[l].state = "committed"
LeadStatus == {"routing", "spam", "delivery_failed", "deleted"}
Leads == [key : Keys \cup {None}, contact : Contacts \cup {None}, status : LeadStatus,
          assignment : Assignments \cup {None}, recent : BOOLEAN,
          state : {"pending", "committed", "lost"}]
Labels == {"idle", "admitting", "choosing", "inserting", "yielding", "committing", "alerting",
           "writing"}
Operations ==
    {Idle} \cup [kind : {"submit"}, form : Forms]
           \cup [kind : {"transition"}, assignment : Assignments, target : AssignmentStatus]
           \cup [kind : {"replace"}, assignment : Assignments, by : Assignments]
           \cup [kind : {"record"}, event : Events, about : Nat]

\* Statuses are ones of the enumerations, ids name leads, and a lead to be routed has
\* a provider.
TypeOK ==
    /\ profile \in BOOLEAN
    /\ status \in [Assignments -> AssignmentStatus \cup {"absent"}]
    /\ leads \in Seq(Leads)
    /\ \A l \in Ids : leads[l].status = "routing" => leads[l].assignment # None
    /\ proofs \subseteq Ids
    /\ jobs \subseteq Ids \X Assignments \X {"email", "phone"}
    /\ known \subseteq Events \X Ids
    /\ begun \in Nat /\ used \in 0 .. RateLimit
    /\ pc \in [Procs -> Labels] /\ op \in [Procs -> Operations]
    /\ at \in [Procs -> Assignments \cup {None}] /\ lead \in [Procs -> Nat]
    /\ \A p \in Procs : pc[p] = "idle" <=> op[p] = Idle
    /\ \A p \in Procs : lead[p] # 0 => lead[p] \in Ids
    /\ answers \subseteq Keys \X Ids
    /\ overlapped \subseteq Contacts /\ alerted \subseteq Ids
    /\ counted \in [Events -> Nat] /\ forgotten \subseteq Events

\* The property's providers may be at any stage.
Init ==
    /\ profile \in BOOLEAN
    /\ status \in [Assignments -> AssignmentStatus \cup {"absent"}]
    /\ Cardinality({a \in Assignments : status[a] = "active"}) <= 1
    /\ ~profile => status = [a \in Assignments |-> "absent"]
    /\ leads = <<>>
    /\ proofs = {} /\ jobs = {} /\ known = {} /\ used = 0 /\ begun = 0
    /\ pc = [p \in Procs |-> "idle"]
    /\ op = [p \in Procs |-> Idle]
    /\ at = [p \in Procs |-> None]
    /\ lead = [p \in Procs |-> 0]
    /\ answers = {} /\ overlapped = {} /\ alerted = {}
    /\ counted = [e \in Events |-> 0]
    /\ forgotten = {}
----------------------------------------------------------------------------
(* What the code looks at and computes.                                    *)

\* The lead with an idempotency key, 0 for none: at most one is committed.
WithKey(k) ==
    LET found == {l \in Ids : Stored(l) /\ leads[l].key = k}
    IN  IF found = {} THEN 0 ELSE CHOOSE l \in found : TRUE

MutDuplicatesRouted(c) == {l \in Ids : Stored(l) /\ leads[l].contact = c /\ leads[l].recent
                                         /\ leads[l].status = "routing"}

\* Leads of the contact in the de-duplication window that were not erased.
Duplicates(c) == {l \in Ids : Stored(l) /\ leads[l].contact = c /\ leads[l].recent}

\* _active_assignment
Active == LET found == {a \in Assignments : status[a] = "active"}
          IN  IF found = {} THEN None ELSE CHOOSE a \in found : TRUE

\* _routable_channels
Routable(a) == IF a = None THEN {} ELSE Destination[a] \cap Adapters

\* The status a lead is stored with.
StatusOf(form, a) ==
    CASE form.blocked -> "spam"
      [] ~form.blocked /\ Routable(a) = {} -> "delivery_failed"
      [] OTHER -> "routing"

MutJobsAnyStatus(l, a) == IF a = None THEN {} ELSE {l} \X {a} \X Routable(a)

\* One pending delivery per routable channel of a lead that is to be routed.
JobsOf(l, a) == IF leads[l].status = "routing" THEN {l} \X {a} \X Routable(a) ELSE {}

\* A lead that no provider will get, for either reason.
NeedsAlert(l) == leads[l].status = "delivery_failed"

\* uq_provider_assignments_active_property admits a as the active assignment.
IndexAdmits(a) == \A b \in Assignments \ {a} : status[b] # "active"
----------------------------------------------------------------------------
(* Building blocks of the actions.                                         *)

Goto(p, label) == pc' = [pc EXCEPT ![p] = label]

OpEnds(p) ==
    /\ Goto(p, "idle")
    /\ op' = [op EXCEPT ![p] = Idle]
    /\ at' = [at EXCEPT ![p] = None]
    /\ lead' = [lead EXCEPT ![p] = 0]
    /\ UNCHANGED begun

Begin(p, o) ==
    /\ pc[p] = "idle" /\ begun < MaxOps
    /\ begun' = begun + 1
    /\ op' = [op EXCEPT ![p] = o]
    /\ UNCHANGED <<at, lead>>

Respond(k, l) == answers' = answers \cup {<<k, l>>}

history == <<answers, overlapped, alerted, counted, forgotten>>
database == <<profile, status, leads, proofs, jobs, known>>
----------------------------------------------------------------------------
(* ProviderOperationsService                                               *)

\* create_routing_profile, of an approved opportunity.
CreateProfile ==
    /\ ~profile
    /\ profile' = TRUE
    /\ UNCHANGED <<status, leads, proofs, jobs, known, used, procVars, history>>

CreateAssignment(a) ==
    /\ profile /\ status[a] = "absent"
    /\ status' = [status EXCEPT ![a] = "candidate"]
    /\ UNCHANGED <<profile, leads, proofs, jobs, known, used, procVars, history>>

\* transition: the assignment and, for an activation, the active one are read ...
ReadForTransition(p, a, target) ==
    /\ target \in Allowed[status[a]]
    /\ target = "active" => Active \in {None, a}
    /\ Begin(p, [kind |-> "transition", assignment |-> a, target |-> target])
    /\ Goto(p, "writing")
    /\ UNCHANGED <<database, used, history>>

\* ... and the status written over whatever it is by then; the index refuses a
\* second active assignment and the request fails.
WriteTransition(p) ==
    /\ pc[p] = "writing" /\ op[p].kind = "transition"
    /\ LET a == op[p].assignment IN
       status' = IF op[p].target = "active" /\ ~IndexAdmits(a)
                 THEN status ELSE [status EXCEPT ![a] = op[p].target]
    /\ OpEnds(p)
    /\ UNCHANGED <<profile, leads, proofs, jobs, known, used, history>>

\* replace_assignment: the current one, read as active, gives way to one that can
\* become active.
ReadForReplacement(p, a, b) ==
    /\ a # b /\ status[a] = "active" /\ status[b] \in {"candidate", "pilot", "paused"}
    /\ Begin(p, [kind |-> "replace", assignment |-> a, by |-> b])
    /\ Goto(p, "writing")
    /\ UNCHANGED <<database, used, history>>

WriteReplacement(p) ==
    /\ pc[p] = "writing" /\ op[p].kind = "replace"
    /\ LET a == op[p].assignment
           b == op[p].by
       IN  status' = IF \A c \in Assignments \ {a, b} : status[c] # "active"
                     THEN [status EXCEPT ![a] = "replaced", ![b] = "active"] ELSE status
    /\ OpEnds(p)
    /\ UNCHANGED <<profile, leads, proofs, jobs, known, used, history>>

----------------------------------------------------------------------------
(* LeadRoutingService.submit                                               *)

\* A submission whose key is known gets the lead of that key.
Submit(p, form) ==
    /\ pc[p] = "idle"
    /\ IF WithKey(form.key) # 0
       THEN Respond(form.key, WithKey(form.key)) /\ UNCHANGED procVars
       ELSE /\ Begin(p, [kind |-> "submit", form |-> form])
            /\ Goto(p, "admitting")
            /\ UNCHANGED answers
    /\ UNCHANGED <<database, used, overlapped, alerted, counted, forgotten>>

\* No profile, or the limiter refuses ...
Refuse(p) ==
    /\ pc[p] = "admitting"
    /\ ~profile \/ used = RateLimit
    /\ OpEnds(p)
    /\ UNCHANGED <<database, used, history>>

\* ... or the request counts against the limit, and a duplicate gets the lead that
\* is there already.
Admit(p) ==
    LET found == Duplicates(op[p].form.contact) IN
    /\ pc[p] = "admitting" /\ profile /\ used < RateLimit
    /\ used' = used + 1
    /\ IF found # {}
       THEN OpEnds(p)
       ELSE Goto(p, "choosing") /\ UNCHANGED <<op, at, lead, begun>>
    /\ UNCHANGED <<database, history>>

\* The active assignment is read; the lead's status and jobs follow from it.
Choose(p) ==
    /\ pc[p] = "choosing"
    /\ at' = [at EXCEPT ![p] = Active]
    /\ Goto(p, "inserting")
    /\ UNCHANGED <<database, used, op, lead, begun, history>>

MutInsertUnchecked(p) ==
    /\ pc[p] = "inserting"
    /\ leads' = Append(leads, [key |-> op[p].form.key, contact |-> op[p].form.contact,
                               status |-> StatusOf(op[p].form, at[p]), assignment |-> at[p],
                               recent |-> TRUE, state |-> "pending"])
    /\ lead' = [lead EXCEPT ![p] = Len(leads) + 1]
    /\ Goto(p, "committing")
    /\ UNCHANGED <<profile, status, proofs, jobs, known, used, op, at, begun, history>>

\* The lead is flushed: it waits for another transaction with its key, and a
\* committed one makes it look for the winner.
InsertLead(p) ==
    LET form == op[p].form IN
    /\ pc[p] = "inserting"
    /\ ~\E l \in Ids : leads[l].state = "pending" /\ leads[l].key = form.key
    /\ IF WithKey(form.key) # 0
       THEN Goto(p, "yielding") /\ UNCHANGED <<leads, lead>>
       ELSE /\ leads' = Append(leads, [key |-> form.key, contact |-> form.contact,
                                       status |-> StatusOf(form, at[p]), assignment |-> at[p],
                                       recent |-> TRUE, state |-> "pending"])
            /\ lead' = [lead EXCEPT ![p] = Len(leads) + 1]
            /\ Goto(p, "committing")
    /\ UNCHANGED <<profile, status, proofs, jobs, known, used, op, at, begun, history>>

\* _idempotency_winner: the lead of the key, or the error when it is gone again.
Yield(p) ==
    LET winner == WithKey(op[p].form.key) IN
    /\ pc[p] = "yielding"
    /\ IF winner # 0 THEN Respond(op[p].form.key, winner) ELSE UNCHANGED answers
    /\ OpEnds(p)
    /\ UNCHANGED <<database, used, overlapped, alerted, counted, forgotten>>

\* Others that passed the duplicate check for the contact while p was at work.
Overlap(p) ==
    \E q \in Procs \ {p} :
        /\ pc[q] \in {"choosing", "inserting", "committing"}
        /\ op[q].form.contact = op[p].form.contact

\* One commit stores the lead with its consent, assessment, event and jobs; a lead
\* nobody will get is alerted next.
CommitLead(p) ==
    LET l == lead[p] IN
    /\ pc[p] = "committing"
    /\ leads' = [leads EXCEPT ![l].state = "committed"]
    /\ proofs' = proofs \cup {l}
    /\ jobs' = jobs \cup JobsOf(l, at[p])
    /\ overlapped' = IF Overlap(p) THEN overlapped \cup {op[p].form.contact} ELSE overlapped
    /\ Respond(op[p].form.key, l)
    /\ IF NeedsAlert(l)
       THEN Goto(p, "alerting") /\ UNCHANGED <<op, at, lead, begun>>
       ELSE OpEnds(p)
    /\ UNCHANGED <<profile, status, known, used, alerted, counted, forgotten>>

\* _alert_failure; a failing alert is only logged.
Alert(p) ==
    /\ pc[p] = "alerting"
    /\ alerted' = alerted \cup {lead[p]}
    /\ OpEnds(p)
    /\ UNCHANGED <<database, used, answers, overlapped, counted, forgotten>>
----------------------------------------------------------------------------
(* AnalyticsService.record                                                 *)

Recorded(e) == \E l \in Ids : <<e, l>> \in known

\* An event that is not known, about a lead of the property ...
RecordEvent(p, e, l) ==
    /\ Stored(l) /\ ~Recorded(e)
    /\ Begin(p, [kind |-> "record", event |-> e, about |-> l])
    /\ Goto(p, "writing")
    /\ UNCHANGED <<database, used, history>>

\* ... is stored with the outcome it reports; uq_analytics_event_source fails the
\* second of two.
StoreEvent(p) ==
    /\ pc[p] = "writing" /\ op[p].kind = "record"
    /\ IF Recorded(op[p].event)
       THEN UNCHANGED <<known, counted>>
       ELSE /\ known' = known \cup {<<op[p].event, op[p].about>>}
            /\ counted' = [counted EXCEPT ![op[p].event] = @ + 1]
    /\ OpEnds(p)
    /\ UNCHANGED <<profile, status, leads, proofs, jobs, used, answers,
                   overlapped, alerted, forgotten>>
----------------------------------------------------------------------------
(* LeadPrivacyService._anonymize, for a request or for retention.          *)

\* The lead loses its keys, and the analytics events about it their identity.
Erase(l) ==
    /\ Stored(l) /\ leads[l].status # "deleted"
    /\ leads' = [leads EXCEPT ![l] = [@ EXCEPT !.key = None, !.contact = None, !.status = "deleted"]]
    /\ known' = {r \in known : r[2] # l}
    /\ forgotten' = forgotten \cup {r[1] : r \in {r \in known : r[2] = l}}
    /\ UNCHANGED <<profile, status, proofs, jobs, used, procVars,
                   answers, overlapped, alerted, counted>>
----------------------------------------------------------------------------
(* Time and failure.                                                       *)

\* dedupe_window_minutes pass.
WindowPasses(l) ==
    /\ Stored(l) /\ leads[l].recent
    /\ leads' = [leads EXCEPT ![l].recent = FALSE]
    /\ UNCHANGED <<profile, status, proofs, jobs, known, used, procVars, history>>

\* rate_limit_window_seconds pass, or the process holding the counts restarts.
LimiterForgets ==
    /\ used > 0
    /\ used' = 0
    /\ UNCHANGED <<database, procVars, history>>

Crash(p) ==
    /\ pc[p] # "idle"
    /\ leads' = IF pc[p] = "committing" THEN [leads EXCEPT ![lead[p]].state = "lost"] ELSE leads
    /\ alerted' = IF pc[p] = "alerting" THEN alerted \cup {lead[p]} ELSE alerted
    /\ OpEnds(p)
    /\ UNCHANGED <<profile, status, proofs, jobs, known, used, answers,
                   overlapped, counted, forgotten>>

Operate(p) ==
    \/ \E a \in Assignments, t \in AssignmentStatus : ReadForTransition(p, a, t)
    \/ \E a, b \in Assignments : ReadForReplacement(p, a, b)
    \/ WriteTransition(p) \/ WriteReplacement(p)

Submission(p) ==
    \/ \E form \in Forms : Submit(p, form)
    \/ Refuse(p) \/ Admit(p) \/ Choose(p) \/ InsertLead(p) \/ Yield(p) \/ CommitLead(p) \/ Alert(p)

Next ==
    \/ CreateProfile \/ LimiterForgets
    \/ \E a \in Assignments : CreateAssignment(a)
    \/ \E p \in Procs : Operate(p) \/ Submission(p) \/ StoreEvent(p) \/ Crash(p)
                          \/ \E e \in Events, l \in Ids : RecordEvent(p, e, l)
    \/ \E l \in Ids : Erase(l) \/ WindowPasses(l)

Spec == Init /\ [][Next]_vars
----------------------------------------------------------------------------
(* Properties.                                                             *)

\* Retries are safe: two answers to submissions with one idempotency key name the
\* same lead, whether it was found, inserted or lost to a concurrent insert,
\* unless that lead was erased in between (answers to duplicates name the lead of
\* another key, and record nothing under their own); and a source's event counts
\* once, however often and concurrently it is reported, until the lead it is about
\* is erased and its identity with it.
RetriesHaveOneEffect ==
    /\ \A x, y \in answers :
        x[1] = y[1] /\ x[2] # y[2] => "deleted" \in {leads[x[2]].status, leads[y[2]].status}
    /\ \A e \in Events \ forgotten : counted[e] <= 1

\* No two leads of one contact in the de-duplication window, unless both
\* submissions had passed the duplicate check before either committed.
DuplicatesOnlyByOverlap ==
    \A c \in Contacts \ overlapped :
        Cardinality({l \in Ids : Stored(l) /\ leads[l].contact = c /\ leads[l].recent}) <= 1

\* A lead is stored whole: with its consent, assessment and event, with jobs for
\* the channels of the provider it was routed to, and with none otherwise; and an
\* operator hears of every lead that no provider will get, unless the process died
\* between the commit and the alert.
StoredWhole ==
    TypeOK /\ \A l \in Ids : Stored(l) =>
        /\ l \in proofs
        /\ leads[l].status = "delivery_failed" =>
             l \in alerted \/ \E p \in Procs : pc[p] = "alerting" /\ lead[p] = l
        /\ leads[l].status = "routing" =>
             {j \in jobs : j[1] = l} = {l} \X {leads[l].assignment} \X Routable(leads[l].assignment)
        /\ leads[l].status \in {"spam", "delivery_failed"} => {j \in jobs : j[1] = l} = {}

=============================================================================
