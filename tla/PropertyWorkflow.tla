-------------------------- MODULE PropertyWorkflow --------------------------
(***************************************************************************)
(* The operator workflow of one property: from an approved opportunity     *)
(* through domain, content, build and compliance review to a local         *)
(* deployment and its rollback (property_workflow/services.py).            *)
(*                                                                         *)
(* Every endpoint is one database transaction.  Endpoints whose reads and  *)
(* writes a concurrent request can tear apart are two steps here, a Load   *)
(* that keeps what the session read and a Commit that writes back the      *)
(* columns it changed.  Two kinds of request write files before they       *)
(* commit.  deploy and rollback check the gates, let the adapter replace   *)
(* the destination, write its provider file and commit.  Activating or     *)
(* replacing a provider reads the rows, locks them and selects the         *)
(* deployed sites, rewrites their provider files one by one and commits.   *)
(* deploy and rollback are async handlers that never suspend in the local  *)
(* adapter, so a web process has at most one of them in flight, while the  *)
(* other endpoints run on its worker threads.                              *)
(***************************************************************************)
EXTENDS Naturals, Sequences, FiniteSets, OpportunityStates

CONSTANTS
    Domains,        \* the generated domain candidates
    Environments,   \* the build environments in use, out of staging and production
    MaxConfigs,     \* bound on SiteConfig versions
    Broken,         \* config versions whose site fails validate_build
    WithAsset,      \* config versions that reference the asset
    Assignments,    \* provider assignments
    Processes,      \* web processes
    Threads,        \* worker-thread requests that can be in flight
    MaxVersions,    \* bound on property versions
    MaxDeployments, \* bound on deployment rows
    ReviewTargets,  \* states reviewers move the opportunity to
    Events,         \* the second thoughts the instance allows: "reject",
                    \* "unavailable", "reregister", "unapprove", "unhealthy",
                    \* "unverified", "abort", "reactivate"
    None            \* an absent row, id or file

ASSUME BoundsAssumption ==
    /\ MaxConfigs \in Nat /\ MaxVersions \in Nat \ {0} /\ MaxDeployments \in Nat
    /\ Environments \subseteq {"staging", "production"}

VARIABLES
    opp,        \* opportunities.status
    prop,       \* the properties row, None before create_property
    snaps,      \* property_versions rows: version -> snapshot
    cand,       \* property_domain_candidates rows
    reg,        \* domain_registrations rows, by id
    asset,      \* property_assets.approved of the one asset
    config,     \* site_configs.status by version
    builds,     \* site_builds rows
    compliant,  \* builds with an approved compliance_reviews row
    asg,        \* provider_assignments.status
    healthy,    \* routing_health_status of the profile is a healthy one
    deps,       \* property_deployments rows, by id
    shown,      \* provider-config.json in the destination of each build
    job,        \* what each worker-thread request has loaded
    flight,     \* the deploy or rollback each process is executing
    suspect,    \* ghost: destinations whose provider file is on its way, or was last
                \* written by a request that failed or crossed another one
    crossing    \* ghost: processes and threads whose deployment or provider change
                \* crossed another one between its reads and its commit

propertyVars == <<opp, prop, snaps>>
domainVars == <<cand, reg>>
siteVars == <<asset, config, builds, compliant>>
providerVars == <<asg, healthy>>
releaseVars == <<deps, shown, flight, suspect, crossing>>
vars == <<propertyVars, domainVars, siteVars, providerVars, releaseVars, job>>
-----------------------------------------------------------------------------
Configs == 1..MaxConfigs

PropertyRow ==
    [domain : Domains \cup {None}, analytics : BOOLEAN, version : 1..MaxVersions,
     status : {"draft", "staging", "production"}, active : Configs \cup {None}]
\* The columns that versioned edits change.  The payload holds status and
\* active_site_config_version too, which change without a new version.
Snapshot == [domain : Domains \cup {None}, analytics : BOOLEAN]
CandidateRow ==
    [status : {"candidate", "shortlisted", "rejected"},
     available : {"unchecked", "available", "unavailable"}]
RegistrationRow ==
    [domain : Domains, status : {"purchase_approved", "manually_registered", "dns_verified"}]
ConfigStatus == {"draft", "approved", "superseded"}
\* A build is the content it hashes to: config, environment and domain.
BuildRow == [config : Configs, env : Environments, domain : Domains \cup {None}]
Passed(b) == b.config \notin Broken
DeploymentRow ==
    [build : BuildRow, status : {"deployed", "rolled_back"}, by : {"deploy", "rollback"},
     registration : Domains \cup {None}, assignment : Assignments \cup {None},
     compliance : BuildRow \cup {None}, previous : 0..MaxDeployments]
AssignmentStatus == {"candidate", "pilot", "active", "replaced"}

\* What a worker-thread request has loaded.
Jobs ==
    [op : {"update"}, row : PropertyRow, analytics : BOOLEAN]
        \cup [op : {"verify_dns"}, row : PropertyRow, registration : Nat]
        \cup [op : {"config"}, row : PropertyRow]
        \cup [op : {"review"}, config : Configs, approved : BOOLEAN,
              seen : Seq(ConfigStatus), active : Configs \cup {None}]
        \cup [op : {"provider"}, at : {"rows", "files"}, new : Assignments,
              old : Assignments \cup {None}, sites : SUBSET BuildRow, todo : SUBSET BuildRow]
\* A deployment on its way, with the rows it will refer to.
Flights ==
    [op : {"deploy", "rollback"}, at : {"adapter", "file", "commit"}, build : BuildRow,
     prior : 0..MaxDeployments, target : 0..MaxDeployments,
     refs : [registration : Domains \cup {None}, compliance : BuildRow \cup {None},
             assignment : Assignments \cup {None}]]

ASSUME NoneAssumption == None \notin PropertyRow \cup AssignmentStatus \cup Flights

Init ==
    /\ opp = "approved_for_property"
    /\ prop = None
    /\ snaps = <<>>
    /\ cand = [d \in Domains |-> None]
    /\ reg = <<>>
    /\ asset = None
    /\ config = <<>>
    /\ builds = {}
    /\ compliant = {}
    /\ asg = [a \in Assignments |-> None]
    /\ healthy = FALSE
    /\ deps = <<>>
    /\ shown = [b \in {} |-> None]
    /\ job = [t \in Threads |-> None]
    /\ flight = [p \in Processes |-> None]
    /\ suspect = {}
    /\ crossing = [deployments |-> {}, changes |-> {}]

Active(status) == {a \in Assignments : status[a] = "active"}
ActiveAssignment == IF Active(asg) = {} THEN None ELSE CHOOSE a \in Active(asg) : TRUE
Live(env) == {i \in DOMAIN deps : deps[i].build.env = env /\ deps[i].status = "deployed"}
Newest(ids) == IF ids = {} THEN 0 ELSE CHOOSE i \in ids : \A j \in ids : j <= i
\* _verified_registration: the domain of the verified registration created last.
VerifiedDomain ==
    LET i == Newest({k \in DOMAIN reg : reg[k].status = "dns_verified"})
    IN  IF i = 0 THEN None ELSE reg[i].domain
-----------------------------------------------------------------------------
(* The property and its versions.                                          *)

SnapshotOf(row) == [domain |-> row.domain, analytics |-> row.analytics]

CreateProperty(verified) ==
    /\ prop = None
    /\ opp = "approved_for_property"
    /\ prop' = [domain |-> None, analytics |-> verified, version |-> 1,
                status |-> "draft", active |-> None]
    /\ snaps' = <<SnapshotOf(prop')>>
    /\ UNCHANGED <<opp, job, domainVars, siteVars, providerVars, releaseVars>>

\* A versioned edit keeps the row it loads; the three endpoints differ in what they
\* change.
LoadEdit(t, edit) ==
    /\ job[t] = None /\ prop # None
    /\ prop.version < MaxVersions
    /\ job' = [job EXCEPT ![t] = edit]
    /\ UNCHANGED <<propertyVars, domainVars, siteVars, providerVars,
                   releaseVars>>

LoadUpdate(t) ==
    \E verified \in {TRUE} \cup {v \in {FALSE} : "unverified" \in Events} :
        LoadEdit(t, [op |-> "update", row |-> prop, analytics |-> verified])

LoadVerifyDns(t, i) ==
    /\ i \in DOMAIN reg
    /\ reg[i].status = "manually_registered"
    /\ LoadEdit(t, [op |-> "verify_dns", row |-> prop, registration |-> i])

LoadConfig(t) ==
    /\ Len(config) < MaxConfigs
    /\ Len(config) + 1 \in WithAsset => asset = "approved"
    /\ LoadEdit(t, [op |-> "config", row |-> prop])

\* Mutant of VersionTaken: no unique version.
MutVersionFree(row) == FALSE

\* uq_property_version: the snapshot of an edit that started from an old version
\* collides, and the whole transaction is rolled back.
VersionTaken(row) == row.version + 1 \in DOMAIN snaps

Updated(j) == [j.row EXCEPT !.analytics = j.analytics]
DnsVerified(j) == [j.row EXCEPT !.domain = reg[j.registration].domain]
\* A new SiteConfig changes nothing but the version.
Edited(j) ==
    CASE j.op = "update"     -> Updated(j)
      [] j.op = "verify_dns" -> DnsVerified(j)
      [] j.op = "config"     -> j.row

\* What the session writes: the columns it changed, onto the row as it is now.
Flushed(old, new) ==
    [c \in DOMAIN prop |->
        IF c = "version" THEN new.version + 1
        ELSE IF new[c] # old[c] THEN new[c] ELSE prop[c]]

CommitEdit(t) ==
    LET j == job[t] IN
    /\ j # None /\ j.op \in {"update", "verify_dns", "config"}
    /\ job' = [job EXCEPT ![t] = None]
    /\ IF VersionTaken(j.row)
       THEN UNCHANGED <<prop, snaps, reg, config>>
       ELSE /\ prop' = Flushed(j.row, Edited(j))
            /\ snaps' = Append(snaps, SnapshotOf(Edited(j)))
            /\ reg' = IF j.op = "verify_dns"
                      THEN [reg EXCEPT ![j.registration].status = "dns_verified"] ELSE reg
            /\ config' = IF j.op = "config" THEN Append(config, "draft") ELSE config
    /\ UNCHANGED <<opp, cand, asset, builds, compliant, providerVars,
                   releaseVars>>
-----------------------------------------------------------------------------
(* Domains.                                                                *)

\* The request's endings and limit decide which of the names are listed.
GenerateCandidates ==
    /\ prop # None
    /\ \E listed \in SUBSET {d \in Domains : cand[d] = None} :
       cand' = [d \in Domains |-> IF d \in listed
                                  THEN [status |-> "candidate", available |-> "unchecked"]
                                  ELSE cand[d]]
    /\ UNCHANGED <<reg, job, propertyVars, siteVars, providerVars, releaseVars>>

DecideCandidate(d) ==
    /\ cand[d] # None
    /\ \E s \in {"shortlisted"} \cup {"rejected" : e \in Events \cap {"reject"}} :
          cand' = [cand EXCEPT ![d].status = s]
    /\ UNCHANGED <<reg, job, propertyVars, siteVars, providerVars, releaseVars>>

\* An unknown answer stops a purchase as an unavailable one does.
CheckAvailability(d) ==
    /\ cand[d] # None
    /\ \E s \in {"available"} \cup ({"unavailable"} \cap Events) :
          cand' = [cand EXCEPT ![d].available = s]
    /\ UNCHANGED <<reg, job, propertyVars, siteVars, providerVars, releaseVars>>

ApprovePurchase(d) ==
    /\ cand[d] = [status |-> "shortlisted", available |-> "available"]
    /\ \A i \in DOMAIN reg : reg[i].domain # d
    /\ reg' = Append(reg, [domain |-> d, status |-> "purchase_approved"])
    /\ UNCHANGED <<cand, job, propertyVars, siteVars, providerVars,
                   releaseVars>>

\* Recording the receipt again takes a verified registration back.
RecordRegistration(i) ==
    /\ i \in DOMAIN reg
    /\ reg[i].status = "dns_verified" => "reregister" \in Events
    /\ reg' = [reg EXCEPT ![i].status = "manually_registered"]
    /\ UNCHANGED <<cand, job, propertyVars, siteVars, providerVars,
                   releaseVars>>
-----------------------------------------------------------------------------
(* Assets, configurations, builds and compliance.                          *)

CreateAsset ==
    /\ prop # None /\ asset = None
    /\ asset' = "unreviewed"
    /\ UNCHANGED <<config, builds, compliant, job, propertyVars, domainVars,
                   providerVars, releaseVars>>

ReviewAsset ==
    /\ asset # None
    /\ asset' \in {"approved"} \cup {"unreviewed" : e \in Events \cap {"unapprove"}}
    /\ UNCHANGED <<config, builds, compliant, job, propertyVars, domainVars,
                   providerVars, releaseVars>>

LoadReviewConfig(t, k, approved) ==
    /\ job[t] = None
    /\ k \in DOMAIN config
    /\ approved \/ "unapprove" \in Events
    /\ job' = [job EXCEPT ![t] = [op |-> "review", config |-> k, approved |-> approved,
                                  seen |-> config, active |-> prop.active]]
    /\ UNCHANGED <<propertyVars, domainVars, siteVars, providerVars,
                   releaseVars>>

\* The statuses a review asks for: approving one version supersedes the
\* approved others that the session saw.
Reviewed(j) ==
    [k \in DOMAIN j.seen |->
        IF k = j.config THEN (IF j.approved THEN "approved" ELSE "draft")
        ELSE IF j.approved /\ j.seen[k] = "approved" THEN "superseded"
        ELSE j.seen[k]]

CommitReviewConfig(t) ==
    LET j == job[t] IN
    /\ j # None /\ j.op = "review"
    /\ job' = [job EXCEPT ![t] = None]
    /\ config' = [k \in DOMAIN config |->
                     IF k \in DOMAIN j.seen /\ Reviewed(j)[k] # j.seen[k]
                     THEN Reviewed(j)[k] ELSE config[k]]
    /\ prop' = IF j.approved /\ j.active # j.config
               THEN [prop EXCEPT !.active = j.config] ELSE prop
    /\ UNCHANGED <<opp, snaps, asset, builds, compliant, domainVars,
                   providerVars, releaseVars>>

\* A production build needs an approved config and a verified domain, every
\* build approved assets; building the same content again returns the same row.
MayBuild(k, env) ==
    /\ k \in DOMAIN config
    /\ env = "production" => config[k] = "approved" /\ prop.domain # None
    /\ k \in WithAsset => asset = "approved"

BuildSite(k, env) ==
    /\ MayBuild(k, env)
    /\ builds' = builds \cup {[config |-> k, env |-> env, domain |-> prop.domain]}
    /\ UNCHANGED <<asset, config, compliant, job, propertyVars, domainVars,
                   providerVars, releaseVars>>

\* A rejected review is recorded too, but no later step reads one.
ApproveCompliance(b) ==
    /\ b \in builds /\ Passed(b)
    /\ compliant' = compliant \cup {b}
    /\ UNCHANGED <<asset, config, builds, job, propertyVars, domainVars,
                   providerVars, releaseVars>>
-----------------------------------------------------------------------------
(* Providers.                                                              *)

CreateAssignment(a) ==
    /\ prop # None /\ asg[a] = None
    /\ asg' = [asg EXCEPT ![a] = "candidate"]
    /\ UNCHANGED <<healthy, job, propertyVars, domainVars, siteVars,
                   releaseVars>>

\* Reading the assignments: activation takes a candidate when it finds none active, or
\* finds its own assignment active and only shows it again; replacement takes a
\* candidate for the active one.
LoadChange(t, a, old) ==
    /\ job[t] = None
    /\ job' = [job EXCEPT ![t] = [op |-> "provider", at |-> "rows", new |-> a, old |-> old,
                                  sites |-> {}, todo |-> {}]]
    /\ UNCHANGED <<propertyVars, domainVars, siteVars, providerVars, releaseVars>>

LoadActivate(t, a) ==
    \/ asg[a] \in {"candidate", "pilot"} /\ Active(asg) = {} /\ LoadChange(t, a, None)
    \/ asg[a] = "active" /\ "reactivate" \in Events /\ LoadChange(t, a, a)

LoadReplace(t, a) ==
    /\ ActiveAssignment # None
    /\ asg[a] \in {"candidate", "pilot"}
    /\ LoadChange(t, a, ActiveAssignment)

Changing(u) == job[u] # None /\ job[u].op = "provider" /\ job[u].at = "files"
\* A request that changes statuses holds their row locks and its entry in
\* uq_provider_assignments_active_property until it commits.
Locking(u) == Changing(u) /\ job[u].old # job[u].new

\* Mutant of Deployed: replacement leaves the deployed files alone.
MutDeployedNone == {}

\* The deployed rows that are committed; a deployment on its way is not among them.
Deployed == {deps[i].build : i \in UNION {Live(env) : env \in Environments}}
\* Deployments that have read which provider to show.
Past == {p \in Processes : flight[p] # None /\ flight[p].at # "adapter"}

\* _update_provider_runtime_configuration selects the sites to rewrite.  A change that
\* runs beside another, or beside a deployment that has read the provider, crosses it,
\* and so does one that shows a provider replaced since it was read.
SelectSites(t, old) ==
    LET others == {u \in Threads \ {t} : Changing(u)}
        stale == old = job[t].new /\ asg[old] # "active"
    IN  /\ job' = [job EXCEPT ![t].at = "files", ![t].old = old,
                              ![t].sites = Deployed, ![t].todo = Deployed]
        /\ crossing' = [deployments |-> crossing.deployments \cup Past,
                        changes |-> crossing.changes \cup others
                                      \cup {u \in {t} : others # {} \/ Past # {} \/ stale}]
        /\ suspect' = suspect \cup {flight[p].build : p \in Past}
        /\ UNCHANGED <<deps, shown, flight, propertyVars, domainVars, siteVars, providerVars>>

\* The flush of the statuses waits for other changes; a second active assignment
\* violates the unique index and ends the request.
Allowed(j) == asg[j.new] \in {"candidate", "pilot"} /\ Active(asg) = {j.old} \ {None}

FlushChange(t) ==
    LET j == job[t] IN
    /\ j # None /\ j.op = "provider" /\ j.at = "rows"
    /\ \/ /\ j.old # j.new /\ Allowed(j)
          /\ ~ \E u \in Threads : Locking(u)
          /\ SelectSites(t, j.old)
       \/ /\ j.old = j.new \/ asg[j.new] = "active"
          /\ SelectSites(t, j.new)
       \/ /\ j.old # j.new /\ asg[j.new] # "active" /\ ~ Allowed(j)
          /\ job' = [job EXCEPT ![t] = None]
          /\ UNCHANGED <<propertyVars, domainVars, siteVars, providerVars, releaseVars>>

\* Each site shows the provider before the change is committed.
RewriteFile(t, b) ==
    /\ Changing(t) /\ b \in job[t].todo
    /\ job' = [job EXCEPT ![t].todo = @ \ {b}]
    /\ shown' = [shown EXCEPT ![b] = job[t].new]
    /\ suspect' = suspect \cup {b}
    /\ UNCHANGED <<deps, flight, crossing, propertyVars, domainVars, siteVars, providerVars>>

EndChange(t) ==
    /\ job' = [job EXCEPT ![t] = None]
    /\ crossing' = [crossing EXCEPT !.changes = @ \ {t}]
    /\ UNCHANGED <<healthy, deps, shown, flight, propertyVars, domainVars, siteVars>>

CommitChange(t) ==
    /\ Changing(t) /\ job[t].todo = {}
    /\ asg' = IF Locking(t)
              THEN [a \in Assignments |-> IF a = job[t].new THEN "active"
                                          ELSE IF a = job[t].old THEN "replaced" ELSE asg[a]]
              ELSE asg
    /\ suspect' = IF t \in crossing.changes THEN suspect ELSE suspect \ job[t].sites
    /\ EndChange(t)

\* A write or the commit fails, or the process dies: the rows are as before, files stay.
FailChange(t) ==
    /\ "abort" \in Events
    /\ Changing(t)
    /\ UNCHANGED <<asg, suspect>>
    /\ EndChange(t)

\* The call tracking adapter reports the health of the route.
RoutingHealth ==
    /\ prop # None
    /\ healthy' \in {TRUE} \cup {h \in {FALSE} : "unhealthy" \in Events}
    /\ UNCHANGED <<asg, job, propertyVars, domainVars, siteVars, releaseVars>>

\* Reviewers keep working on the opportunity.
ReviewOpportunity ==
    /\ \E s \in ReviewTargets : s \in AllowedTransitions[opp] /\ opp' = s
    /\ UNCHANGED <<prop, snaps, job, domainVars, siteVars, providerVars,
                   releaseVars>>
-----------------------------------------------------------------------------
(* Deployment and rollback.                                                *)

\* Mutant of Gates: a missing compliance review does not stop the release.
MutGatesNoCompliance(b, pilot) ==
    /\ opp = "approved_for_property"
    /\ config[b.config] = "approved"
    /\ Passed(b)
    /\ ActiveAssignment # None \/ pilot
    /\ VerifiedDomain # None /\ prop.domain = VerifiedDomain
    /\ healthy
    /\ prop.analytics

\* _deployment_gates; the operator's confirmation is part of the request.
Gates(b, pilot) ==
    /\ opp = "approved_for_property"
    /\ config[b.config] = "approved"
    /\ Passed(b)
    /\ ActiveAssignment # None \/ pilot
    /\ b \in compliant
    /\ VerifiedDomain # None /\ prop.domain = VerifiedDomain
    /\ healthy
    /\ prop.analytics

\* The rows a release refers to, before they are read.
NoRefs == [registration |-> None, compliance |-> None, assignment |-> None]

StartDeploy(p, b, pilot) ==
    /\ flight[p] = None
    /\ b \in builds
    /\ b.env = "production" => Gates(b, pilot)
    /\ flight' = [flight EXCEPT ![p] = [op |-> "deploy", at |-> "adapter", build |-> b,
                                        prior |-> Newest(Live(b.env)), target |-> 0,
                                        refs |-> NoRefs]]
    /\ UNCHANGED <<deps, shown, job, suspect, crossing, propertyVars, domainVars,
                   siteVars, providerVars>>

StartRollback(p, target) ==
    LET current == Newest(Live("production")) IN
    /\ flight[p] = None
    /\ target \in DOMAIN deps /\ deps[target].build.env = "production"
    /\ current # 0 /\ current # target
    /\ flight' = [flight EXCEPT ![p] = [op |-> "rollback", at |-> "adapter",
                                        build |-> deps[target].build, prior |-> current,
                                        target |-> target, refs |-> NoRefs]]
    /\ UNCHANGED <<deps, shown, job, suspect, crossing, propertyVars, domainVars,
                   siteVars, providerVars>>

\* What the handler reads once the adapter is done; a rollback copies the
\* registration and the compliance review of its target.
Refs(f) ==
    [assignment |-> ActiveAssignment,
     registration |-> IF f.op = "rollback" THEN deps[f.target].registration
                      ELSE VerifiedDomain,
     compliance |-> IF f.op = "rollback" THEN deps[f.target].compliance
                    ELSE IF f.build \in compliant THEN f.build ELSE None]

\* The adapter replaces the destination by a copy of the build, which has no provider
\* file, and the handler reads the rows.
Publish(p) ==
    LET f == flight[p]
        changes == {t \in Threads : Changing(t)}
    IN
    /\ f # None /\ f.at = "adapter"
    /\ flight' = [flight EXCEPT ![p].at = "file", ![p].refs = Refs(f)]
    /\ shown' = [b \in DOMAIN shown \cup {f.build} |-> IF b = f.build THEN None ELSE shown[b]]
    /\ suspect' = suspect \cup {f.build}
    /\ crossing' = [deployments |-> crossing.deployments \cup {q \in {p} : changes # {}},
                    changes |-> crossing.changes \cup changes]
    /\ UNCHANGED <<deps, job, propertyVars, domainVars, siteVars, providerVars>>

\* _write_provider_runtime_file, before the commit.
WriteFile(p) ==
    LET f == flight[p] IN
    /\ f # None /\ f.at = "file"
    /\ flight' = [flight EXCEPT ![p].at = "commit"]
    /\ shown' = [shown EXCEPT ![f.build] = f.refs.assignment]
    /\ suspect' = IF p \in crossing.deployments THEN suspect \cup {f.build}
                  ELSE suspect \ {f.build}
    /\ UNCHANGED <<deps, job, crossing, propertyVars, domainVars, siteVars, providerVars>>

NewRow(f) ==
    [build |-> f.build, status |-> "deployed", by |-> f.op, previous |-> f.prior,
     registration |-> f.refs.registration, assignment |-> f.refs.assignment,
     compliance |-> f.refs.compliance]

\* Mutant of Displaced: a rollback marks its target instead of the row it displaces.
MutDisplacedTarget(f) ==
    [i \in DOMAIN deps |->
        IF i = (IF f.op = "rollback" THEN f.target ELSE f.prior)
        THEN [deps[i] EXCEPT !.status = "rolled_back"] ELSE deps[i]]

Displaced(f) ==
    [i \in DOMAIN deps |->
        IF i = f.prior THEN [deps[i] EXCEPT !.status = "rolled_back"] ELSE deps[i]]

CommitDeployment(p) ==
    LET f == flight[p] IN
    /\ f # None /\ f.at = "commit"
    /\ Len(deps) < MaxDeployments
    /\ deps' = Append(Displaced(f), NewRow(f))
    /\ prop' = IF f.op = "deploy" THEN [prop EXCEPT !.status = f.build.env] ELSE prop
    /\ flight' = [flight EXCEPT ![p] = None]
    /\ crossing' = [crossing EXCEPT !.deployments = @ \ {p}]
    /\ UNCHANGED <<opp, snaps, shown, job, suspect, domainVars, siteVars,
                   providerVars>>

\* The adapter raises or the process dies: nothing is committed, files stay.
AbortDeployment(p) ==
    /\ "abort" \in Events
    /\ flight[p] # None
    /\ flight' = [flight EXCEPT ![p] = None]
    /\ crossing' = [crossing EXCEPT !.deployments = @ \ {p}]
    /\ UNCHANGED <<deps, shown, job, suspect, propertyVars, domainVars,
                   siteVars, providerVars>>
-----------------------------------------------------------------------------
ThreadStep(t) ==
    \/ LoadUpdate(t)
    \/ \E i \in 1..Cardinality(Domains) : LoadVerifyDns(t, i)
    \/ LoadConfig(t)
    \/ CommitEdit(t)
    \/ \E k \in Configs, approved \in BOOLEAN : LoadReviewConfig(t, k, approved)
    \/ CommitReviewConfig(t)
    \/ \E a \in Assignments : LoadActivate(t, a) \/ LoadReplace(t, a)
    \/ FlushChange(t)
    \/ \E b \in builds : RewriteFile(t, b)
    \/ CommitChange(t)
    \/ FailChange(t)

DeploymentStep(p) ==
    \/ \E b \in builds, pilot \in BOOLEAN : StartDeploy(p, b, pilot)
    \/ \E target \in 1..MaxDeployments : StartRollback(p, target)
    \/ Publish(p)
    \/ WriteFile(p)
    \/ CommitDeployment(p)
    \/ AbortDeployment(p)

Next ==
    \/ \E verified \in BOOLEAN : CreateProperty(verified)
    \/ \E t \in Threads : ThreadStep(t)
    \/ GenerateCandidates
    \/ \E d \in Domains : DecideCandidate(d) \/ CheckAvailability(d) \/ ApprovePurchase(d)
    \/ \E i \in 1..Cardinality(Domains) : RecordRegistration(i)
    \/ CreateAsset
    \/ ReviewAsset
    \/ \E k \in Configs, env \in Environments : BuildSite(k, env)
    \/ \E b \in builds : ApproveCompliance(b)
    \/ \E a \in Assignments : CreateAssignment(a)
    \/ RoutingHealth
    \/ ReviewOpportunity
    \/ \E p \in Processes : DeploymentStep(p)

Spec == Init /\ [][Next]_vars
-----------------------------------------------------------------------------
TypeOK ==
    /\ opp \in OppStates
    /\ prop \in PropertyRow \cup {None}
    /\ snaps \in Seq(Snapshot)
    /\ cand \in [Domains -> CandidateRow \cup {None}]
    /\ reg \in Seq(RegistrationRow)
    /\ asset \in {None, "unreviewed", "approved"}
    /\ config \in Seq(ConfigStatus)
    /\ builds \subseteq BuildRow
    /\ compliant \subseteq builds
    /\ asg \in [Assignments -> AssignmentStatus \cup {None}]
    /\ healthy \in BOOLEAN
    /\ deps \in Seq(DeploymentRow)
    /\ shown \in [DOMAIN shown -> Assignments \cup {None}]
    /\ DOMAIN shown \subseteq builds
    /\ job \in [Threads -> Jobs \cup {None}]
    /\ flight \in [Processes -> Flights \cup {None}]
    /\ suspect \subseteq builds
    /\ crossing \in [deployments : SUBSET Processes, changes : SUBSET Threads]

(* Every production release, by deploy or by rollback, is of a build that     *)
(* passed validation, was made for a verified domain and has an approved      *)
(* compliance review of that very build, although configs, assets, domains    *)
(* and providers keep changing while the adapter runs.                        *)
ReleasedWasReviewed ==
    \A i \in DOMAIN deps : deps[i].build.env = "production" =>
        /\ Passed(deps[i].build)
        /\ deps[i].build.domain # None
        /\ deps[i].compliance = deps[i].build

(* The deployment rows of an environment form one line of releases: only the  *)
(* newest is deployed, every other one is rolled back, and each points at the  *)
(* row it displaced, also across rollbacks and deployments that fail between  *)
(* the adapter and the commit.                                                *)
OneReleaseLine ==
    \A env \in Environments :
        LET rows == {i \in DOMAIN deps : deps[i].build.env = env} IN
        \A i \in rows :
            /\ deps[i].status = "deployed" <=> i = Newest(rows)
            /\ deps[i].previous = Newest({j \in rows : j < i})

(* The version history is complete: version n has a snapshot for every n up   *)
(* to the current one, and the newest snapshot is the row in the columns       *)
(* versioned edits change, so concurrent edits neither lose an update nor     *)
(* leave a state of them that was never recorded.                             *)
HistoryComplete ==
    /\ TypeOK
    /\ prop # None =>
        /\ Len(snaps) = prop.version
        /\ snaps[prop.version] = SnapshotOf(prop)

(* A deployed site shows the provider that is active: activation and          *)
(* replacement rewrite the file of every deployed row, deployment and         *)
(* rollback write the current one, and a later write repairs an earlier wrong *)
(* one.  All of them write files before they commit, so the exceptions are a  *)
(* site whose file is on its way, one last written by a request that then     *)
(* failed, and one last written by requests that crossed: a provider change   *)
(* beside another, or beside a deployment that had read the provider.         *)
ShowsActiveProvider ==
    \A env \in Environments : \A i \in Live(env) :
        deps[i].build \notin suspect => shown[deps[i].build] = ActiveAssignment

=============================================================================
