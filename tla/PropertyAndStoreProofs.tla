---------------------- MODULE PropertyAndStoreProofs ----------------------
(***************************************************************************)
(* Proofs about two components that share nothing but this module.         *)
(*                                                                         *)
(* PropertyWorkflow, for any domains, configurations, providers, threads   *)
(* and bounds.  What the deployment rows say of each other is proved for   *)
(* one process at a time in a deployment.                                  *)
(*                                                                         *)
(* PublicDataStore, for any number of processes, hosts, releases and       *)
(* contents: the lock, the registry, what stage reported, and the          *)
(* refinement of ReleaseCatalog.                                           *)
(***************************************************************************)
EXTENDS PropertyWorkflow, PublicDataStore, SequenceTheorems, WellFoundedInduction,
        FiniteSetTheorems, TLAPS
----------------------------------------------------------------------------
(* The inductive invariant.                                                *)

\* What was reviewed of a build before it may be released.
Reviewable(b) == b.env = "production" => Passed(b) /\ b.domain # None

\* The history: one snapshot for every version up to the current one.
HistoryInv ==
    /\ prop = None => snaps = <<>> /\ config = <<>> /\ builds = {}
    /\ prop # None => Len(snaps) = prop.version /\ snaps[prop.version] = SnapshotOf(prop)

\* An edit holds a row that was current once; the version tells whether it still is.
Job(t) ==
    /\ job[t].op # "provider" => prop # None
    /\ job[t].op \in {"update", "verify_dns", "config"} =>
          /\ job[t].row.version < MaxVersions
          /\ job[t].row.version \in DOMAIN snaps
          /\ snaps[job[t].row.version] = SnapshotOf(job[t].row)
    /\ job[t].op = "verify_dns" => job[t].registration \in DOMAIN reg
JobInv == \A t \in Threads : job[t] # None => Job(t)

\* A production build is made for a domain.
BuildInv == \A b \in builds : b.env = "production" => b.domain # None

\* A deployment on its way is of a build that passed the gates, or of its target's.
Flight(p) ==
    /\ flight[p].build \in builds
    /\ flight[p].build.env = "production" =>
          /\ Reviewable(flight[p].build)
          /\ flight[p].op = "deploy" => flight[p].build \in compliant
          /\ flight[p].at # "adapter" => flight[p].refs.compliance = flight[p].build
    /\ flight[p].op = "rollback" =>
          /\ flight[p].target \in DOMAIN deps
          /\ deps[flight[p].target].build = flight[p].build
          /\ flight[p].build.env = "production"
FlightInv == \A p \in Processes : flight[p] # None => Flight(p)

\* A released build was reviewed.
Released(i) ==
    /\ deps[i].build \in builds
    /\ Reviewable(deps[i].build)
    /\ deps[i].build.env = "production" => deps[i].compliance = deps[i].build
ReleaseInv == Len(deps) <= MaxDeployments /\ \A i \in DOMAIN deps : Released(i)

IndInv == TypeOK /\ HistoryInv /\ JobInv /\ BuildInv /\ FlightInv /\ ReleaseInv

\* One provider is active.
ProviderInv == \A a, b \in Assignments : asg[a] = "active" /\ asg[b] = "active" => a = b

\* The sites that are deployed, and those whose deployment has read the provider.
Exposed == Deployed \cup {flight[p].build : p \in Past}

\* The file of a build shows the active provider, or the build is suspect.
Shows(b) == b \in DOMAIN shown /\ (b \notin suspect => shown[b] = ActiveAssignment)
SitesInv == \A b \in Exposed : Shows(b)

\* A deployment that nothing crosses has read the active provider.
Fresh(p) ==
    p \notin crossing.deployments =>
        /\ \A t \in Threads : ~ Changing(t)
        /\ flight[p].refs.assignment = ActiveAssignment
FreshInv == \A p \in Past : Fresh(p)

\* A provider change still has to write a site, or the site is suspect.
Covered(t) ==
    /\ job[t].todo \subseteq job[t].sites
    /\ job[t].sites \subseteq DOMAIN shown
    /\ Exposed \subseteq job[t].todo \cup suspect

\* A change that nothing crosses is alone, knows every site, and what it wrote is there.
Alone(t) ==
    t \notin crossing.changes =>
        /\ Past = {}
        /\ \A u \in Threads : Changing(u) => u = t
        /\ Deployed \subseteq job[t].sites
        /\ \A b \in job[t].sites : b \in job[t].todo \/ shown[b] = job[t].new
        /\ job[t].old = job[t].new => asg[job[t].new] = "active"

\* The locks keep the statuses as a change read them.
Locked(t) ==
    job[t].old # job[t].new =>
        asg[job[t].new] \in {"candidate", "pilot"} /\ Active(asg) = {job[t].old} \ {None}
ChangeInv == \A t \in Threads : Changing(t) => Covered(t) /\ Alone(t) /\ Locked(t)
RowLocks == \A t, u \in Threads : Locking(t) /\ Locking(u) => t = u

FileInv == ProviderInv /\ SitesInv /\ FreshInv /\ ChangeInv /\ RowLocks

\* With one process, a deployment displaces the newest row of its environment, which is
\* the only deployed one.
Rows(env) == {i \in DOMAIN deps : deps[i].build.env = env}
LineInv ==
    /\ \A i \in DOMAIN deps :
          /\ deps[i].status = "deployed" <=> i = Newest(Rows(deps[i].build.env))
          /\ deps[i].previous = Newest({j \in Rows(deps[i].build.env) : j < i})
    /\ \A p \in Processes :
          flight[p] # None => flight[p].prior = Newest(Rows(flight[p].build.env))
----------------------------------------------------------------------------
(* Data.                                                                   *)

\* A nonempty set of numbers up to n has a greatest one, and Newest finds it.
LEMMA NewestExists ==
  ASSUME NEW n \in Nat, NEW T \in SUBSET (1 .. n), T # {}
  PROVE  Newest(T) \in T /\ \A j \in T : j <= Newest(T)
<1> DEFINE D == {n - i : i \in T}
           R == {ss \in Nat \X Nat : ss[1] < ss[2]}
<1>1. \A i \in T : n - i \in Nat
  OBVIOUS
<1>2. D \subseteq Nat /\ D # {}
  BY <1>1
<1>3. IsWellFoundedOn(R, Nat)
  BY NatLessThanWellFounded DEF OpToRel
<1>4. \E x \in D : \A y \in D : ~(<<y, x>> \in R)
  <2> HIDE DEF R, D
  <2> QED
    BY <1>2, <1>3, WFMin
<1>5. PICK k \in T : \A y \in D : ~(<<y, n - k>> \in R)
  BY <1>4
<1>6. ASSUME NEW j \in T PROVE j <= k
  <2>1. ~(<<n - j, n - k>> \in R)
    BY <1>5
  <2>2. ~(n - j < n - k)
    BY <1>1, <2>1
  <2> QED
    BY <2>2
<1> QED
  BY <1>6 DEF Newest

\* A greatest element is the newest.
LEMMA NewestIs ==
  ASSUME NEW T \in SUBSET Nat, NEW k \in T, \A j \in T : j <= k
  PROVE  Newest(T) = k
<1>1. \A i \in T : (\A j \in T : j <= i) => i = k
  OBVIOUS
<1> QED
  BY <1>1 DEF Newest

\* The newest of the rows that a set picks is one of them, or none.
LEMMA NewestRow ==
  ASSUME NEW S, NEW T \in SUBSET DOMAIN S, S \in Seq(DeploymentRow) \cup Seq(RegistrationRow)
  PROVE  Newest(T) \in T \cup {0} /\ (T # {} => Newest(T) \in T)
<1>1. Len(S) \in Nat /\ DOMAIN S = 1 .. Len(S)
  OBVIOUS
<1>2. CASE T = {}
  BY <1>2 DEF Newest
<1>3. CASE T # {}
  BY <1>1, <1>3, NewestExists
<1> QED
  BY <1>2, <1>3

\* The fields of the property's row.
LEMMA RowTypes ==
  ASSUME NEW r \in PropertyRow
  PROVE  /\ r.domain \in Domains \cup {None} /\ r.analytics \in BOOLEAN
         /\ r.version \in 1 .. MaxVersions /\ r.active \in Configs \cup {None}
         /\ r.status \in {"draft", "staging", "production"}
         /\ SnapshotOf(r) \in Snapshot /\ r # None
         /\ SnapshotOf(r).domain = r.domain /\ SnapshotOf(r).analytics = r.analytics
BY NoneAssumption DEF PropertyRow, Snapshot, SnapshotOf

\* Equal snapshots are of rows that agree.
LEMMA SnapshotsAgree ==
  ASSUME NEW r, NEW s
  PROVE  SnapshotOf(r) = SnapshotOf(s) <=> r.domain = s.domain /\ r.analytics = s.analytics
<1>1. SnapshotOf(r).domain = r.domain /\ SnapshotOf(r).analytics = r.analytics
  BY DEF SnapshotOf
<1>2. SnapshotOf(s).domain = s.domain /\ SnapshotOf(s).analytics = s.analytics
  BY DEF SnapshotOf
<1>3. r.domain = s.domain /\ r.analytics = s.analytics => SnapshotOf(r) = SnapshotOf(s)
  BY DEF SnapshotOf
<1> QED
  BY <1>1, <1>2, <1>3

\* What a request holds.
LEMMA JobTypes ==
  ASSUME NEW j \in Jobs
  PROVE  /\ j.op \in {"update", "verify_dns", "config", "review", "provider"}
         /\ j.op \in {"update", "verify_dns", "config"} => j.row \in PropertyRow
         /\ j.op = "update" => j.analytics \in BOOLEAN
         /\ j.op = "verify_dns" => j.registration \in Nat
         /\ j.op = "review" => /\ j.config \in Configs /\ j.approved \in BOOLEAN
                               /\ j.seen \in Seq(ConfigStatus)
                               /\ j.active \in Configs \cup {None}
         /\ j.op = "provider" => /\ j.new \in Assignments /\ j.old \in Assignments \cup {None}
                                 /\ j.sites \subseteq BuildRow /\ j.todo \subseteq BuildRow
BY DEF Jobs

\* What a deployment holds.
LEMMA FlightTypes ==
  ASSUME NEW f \in Flights
  PROVE  /\ f.op \in {"deploy", "rollback"} /\ f.at \in {"adapter", "file", "commit"}
         /\ f.build \in BuildRow /\ f.build.env \in Environments /\ f.build.config \in Configs
         /\ f.prior \in 0 .. MaxDeployments /\ f.target \in 0 .. MaxDeployments
         /\ f.refs.registration \in Domains \cup {None}
         /\ f.refs.compliance \in BuildRow \cup {None}
         /\ f.refs.assignment \in Assignments \cup {None}
BY DEF Flights, BuildRow

\* A deployment on its way is a row of its own.
LEMMA FlightIsNotNone == \A f \in Flights : f # None
BY NoneAssumption DEF Flights

\* The fields of a deployment row.
LEMMA DeploymentTypes ==
  ASSUME NEW r \in DeploymentRow
  PROVE  /\ r.build \in BuildRow /\ r.build.env \in Environments
         /\ r.status \in {"deployed", "rolled_back"}
         /\ r.registration \in Domains \cup {None} /\ r.compliance \in BuildRow \cup {None}
         /\ r.previous \in 0 .. MaxDeployments
         /\ [r EXCEPT !.status = "rolled_back"] \in DeploymentRow
BY DEF DeploymentRow, BuildRow

\* The table of transitions leads to states.
LEMMA TableTypes == \A o \in OppStates : AllowedTransitions[o] \subseteq OppStates
BY DEF OppStates, AllowedTransitions

\* The provider shown is one, or none.
LEMMA ActiveType ==
  /\ ActiveAssignment \in Assignments \cup {None}
  /\ ActiveAssignment # None => ActiveAssignment \in Assignments /\ asg[ActiveAssignment] = "active"
<1>1. Active(asg) # {} => (CHOOSE a \in Active(asg) : TRUE) \in Active(asg)
  OBVIOUS
<1> QED
  BY <1>1 DEF ActiveAssignment, Active

\* The one active provider is the one that is found.
LEMMA ActiveFound ==
  ASSUME ProviderInv, NEW a \in Assignments, asg[a] = "active"
  PROVE  ActiveAssignment = a
<1>1. Active(asg) = {a}
  BY DEF Active, ProviderInv
<1> QED
  BY <1>1 DEF ActiveAssignment

\* The verified domain.
LEMMA VerifiedType ==
  ASSUME reg \in Seq(RegistrationRow)
  PROVE  VerifiedDomain \in Domains \cup {None}
<1> DEFINE T == {k \in DOMAIN reg : reg[k].status = "dns_verified"}
<1>1. Newest(T) \in T \cup {0}
  BY NewestRow
<1>2. \A k \in DOMAIN reg : reg[k] \in RegistrationRow
  OBVIOUS
<1>3. \A r \in RegistrationRow : r.domain \in Domains
  BY DEF RegistrationRow
<1>4. Newest(T) # 0 => Newest(T) \in DOMAIN reg
  BY <1>1
<1>5. VerifiedDomain = IF Newest(T) = 0 THEN None ELSE reg[Newest(T)].domain
  BY DEF VerifiedDomain
<1> HIDE DEF T
<1> QED
  BY <1>2, <1>3, <1>4, <1>5
----------------------------------------------------------------------------
(* What a step leaves alone.                                               *)

\* Deployments on their way.
LEMMA FlightsKept ==
  ASSUME FlightInv, UNCHANGED <<flight, deps>>,
         builds \subseteq builds', compliant \subseteq compliant'
  PROVE  FlightInv'
BY DEF FlightInv, Flight, Reviewable, Passed

\* Releases.
LEMMA ReleasesKept ==
  ASSUME ReleaseInv, UNCHANGED deps, builds \subseteq builds'
  PROVE  ReleaseInv'
BY DEF ReleaseInv, Released, Reviewable, Passed

\* Requests in flight.
LEMMA JobsKept ==
  ASSUME JobInv, UNCHANGED <<job, snaps>>, prop # None => prop' # None,
         DOMAIN reg \subseteq DOMAIN reg'
  PROVE  JobInv'
BY DEF JobInv, Job

\* A step on the domains, assets or health, or outside.
LEMMA SideInv ==
  ASSUME IndInv, TypeOK', DOMAIN reg \subseteq DOMAIN reg',
         UNCHANGED <<prop, snaps, config, builds, job, deps, flight>>,
         compliant \subseteq compliant'
  PROVE  IndInv'
<1>1. HistoryInv' /\ BuildInv'
  BY DEF IndInv, HistoryInv, BuildInv
<1>2. FlightInv' /\ ReleaseInv' /\ JobInv'
  BY FlightsKept, ReleasesKept, JobsKept DEF IndInv
<1> QED
  BY <1>1, <1>2 DEF IndInv
----------------------------------------------------------------------------
(* Every action preserves the invariant.                                   *)

\* Domain candidates and registrations.
LEMMA DomainsInv ==
  ASSUME IndInv,
         \/ GenerateCandidates
         \/ \E d \in Domains : DecideCandidate(d) \/ CheckAvailability(d) \/ ApprovePurchase(d)
         \/ \E i \in 1 .. Cardinality(Domains) : RecordRegistration(i)
  PROVE  IndInv'
<1> USE DEF propertyVars, siteVars, providerVars, releaseVars
<1>a. TypeOK
  BY DEF IndInv
<1>1. /\ cand \in [Domains -> CandidateRow \cup {None}] /\ reg \in Seq(RegistrationRow)
  BY <1>a DEF TypeOK
<1>2. \A r \in CandidateRow :
        /\ \A s \in {"shortlisted", "rejected"} : [r EXCEPT !.status = s] \in CandidateRow
        /\ \A s \in {"available", "unavailable"} : [r EXCEPT !.available = s] \in CandidateRow
  BY DEF CandidateRow
<1>3. [status |-> "candidate", available |-> "unchecked"] \in CandidateRow
  BY DEF CandidateRow
<1>4. \A r \in RegistrationRow : [r EXCEPT !.status = "manually_registered"] \in RegistrationRow
  BY DEF RegistrationRow
<1>5. \A d \in Domains : [domain |-> d, status |-> "purchase_approved"] \in RegistrationRow
  BY DEF RegistrationRow
<1>6. ASSUME UNCHANGED <<job, propertyVars, siteVars, providerVars, releaseVars>>,
             cand' \in [Domains -> CandidateRow \cup {None}], reg' \in Seq(RegistrationRow),
             DOMAIN reg \subseteq DOMAIN reg'
      PROVE  IndInv'
  <2>1. TypeOK'
    BY <1>a, <1>6 DEF TypeOK
  <2> QED
    BY <1>6, <2>1, SideInv
<1>7. CASE GenerateCandidates
  <2>1. PICK listed \in SUBSET {x \in Domains : cand[x] = None} :
          cand' = [x \in Domains |-> IF x \in listed
                                     THEN [status |-> "candidate", available |-> "unchecked"]
                                     ELSE cand[x]]
    BY <1>7 DEF GenerateCandidates
  <2>2. cand' \in [Domains -> CandidateRow \cup {None}]
    BY <1>1, <1>3, <2>1
  <2> QED
    BY <1>1, <1>6, <1>7, <2>2 DEF GenerateCandidates
<1>8. ASSUME NEW d \in Domains, DecideCandidate(d) PROVE IndInv'
  <2>1. PICK s \in {"shortlisted", "rejected"} : cand' = [cand EXCEPT ![d].status = s]
    BY <1>8 DEF DecideCandidate
  <2>2. cand[d] \in CandidateRow
    BY <1>1, <1>8 DEF DecideCandidate
  <2>3. cand' \in [Domains -> CandidateRow \cup {None}]
    BY <1>1, <1>2, <2>1, <2>2
  <2> QED
    BY <1>1, <1>6, <1>8, <2>3 DEF DecideCandidate
<1>9. ASSUME NEW d \in Domains, CheckAvailability(d) PROVE IndInv'
  <2>1. PICK s \in {"available", "unavailable"} : cand' = [cand EXCEPT ![d].available = s]
    BY <1>9 DEF CheckAvailability
  <2>2. cand[d] \in CandidateRow
    BY <1>1, <1>9 DEF CheckAvailability
  <2>3. cand' \in [Domains -> CandidateRow \cup {None}]
    BY <1>1, <1>2, <2>1, <2>2
  <2> QED
    BY <1>1, <1>6, <1>9, <2>3 DEF CheckAvailability
<1>10. ASSUME NEW d \in Domains, ApprovePurchase(d) PROVE IndInv'
  <2> DEFINE r == [domain |-> d, status |-> "purchase_approved"]
  <2>1. reg' = Append(reg, r) /\ r \in RegistrationRow
    BY <1>5, <1>10 DEF ApprovePurchase
  <2> HIDE DEF r
  <2>2. reg' \in Seq(RegistrationRow) /\ DOMAIN reg \subseteq DOMAIN reg'
    BY <1>1, <2>1
  <2> QED
    BY <1>1, <1>6, <1>10, <2>2 DEF ApprovePurchase
<1>11. ASSUME NEW i, RecordRegistration(i) PROVE IndInv'
  <2> DEFINE r == [reg[i] EXCEPT !.status = "manually_registered"]
  <2>1. i \in DOMAIN reg /\ reg' = [reg EXCEPT ![i] = r]
    BY <1>11 DEF RecordRegistration
  <2>2. r \in RegistrationRow
    BY <1>1, <1>4, <2>1
  <2> HIDE DEF r
  <2>3. reg' \in Seq(RegistrationRow) /\ DOMAIN reg' = DOMAIN reg
    BY <1>1, <2>1, <2>2
  <2> QED
    BY <1>1, <1>6, <1>11, <2>3 DEF RecordRegistration
<1> QED
  BY <1>7, <1>8, <1>9, <1>10, <1>11

\* Assets, reviews, health and the opportunity.
LEMMA ReviewsInv ==
  ASSUME IndInv, \/ CreateAsset \/ ReviewAsset \/ RoutingHealth \/ ReviewOpportunity
                 \/ \E b \in builds : ApproveCompliance(b)
  PROVE  IndInv'
<1> USE DEF propertyVars, domainVars, siteVars, providerVars, releaseVars
<1>a. TypeOK /\ opp \in OppStates
  BY DEF IndInv, TypeOK
<1>1. ASSUME UNCHANGED <<prop, snaps, config, builds, job, asg, deps, shown, suspect, crossing, flight>>,
             UNCHANGED domainVars, opp' \in OppStates, asset' \in {None, "unreviewed", "approved"},
             compliant \subseteq compliant', compliant' \subseteq builds, healthy' \in BOOLEAN
      PROVE  IndInv'
  <2>1. TypeOK'
    BY <1>a, <1>1 DEF TypeOK
  <2> QED
    BY <1>1, <2>1, SideInv
<1>b. /\ asset \in {None, "unreviewed", "approved"} /\ compliant \subseteq builds
      /\ healthy \in BOOLEAN
  BY <1>a DEF TypeOK
<1>2. CASE CreateAsset
  BY <1>1, <1>2, <1>a, <1>b DEF CreateAsset
<1>3. CASE ReviewAsset
  BY <1>1, <1>3, <1>a, <1>b DEF ReviewAsset
<1>4. CASE RoutingHealth
  BY <1>1, <1>4, <1>a, <1>b DEF RoutingHealth
<1>5. CASE ReviewOpportunity
  <2>1. opp' \in OppStates
    BY <1>5, <1>a, TableTypes DEF ReviewOpportunity
  <2> QED
    BY <1>1, <1>5, <2>1, <1>b DEF ReviewOpportunity
<1>6. ASSUME NEW b \in builds, ApproveCompliance(b) PROVE IndInv'
  BY <1>1, <1>6, <1>a, <1>b DEF ApproveCompliance
<1> QED
  BY <1>2, <1>3, <1>4, <1>5, <1>6

\* A build of the current domain.
LEMMA BuildsInv ==
  ASSUME IndInv, NEW k \in Configs, NEW env \in Environments, BuildSite(k, env)
  PROVE  IndInv'
<1> USE DEF propertyVars, domainVars, siteVars, providerVars, releaseVars
<1>a. TypeOK /\ HistoryInv
  BY DEF IndInv
<1> DEFINE b == [config |-> k, env |-> env, domain |-> prop.domain]
<1>1. /\ MayBuild(k, env) /\ builds' = builds \cup {b}
      /\ UNCHANGED <<asset, config, compliant, job, propertyVars, domainVars,
                     providerVars, releaseVars>>
  BY DEF BuildSite
<1>2. prop \in PropertyRow /\ prop # None
  BY <1>a, <1>1 DEF MayBuild, HistoryInv, TypeOK
<1>3. b \in BuildRow /\ (b.env = "production" => b.domain # None)
  BY <1>1, <1>2, RowTypes DEF BuildRow, MayBuild
<1> HIDE DEF b
<1>4. TypeOK'
  BY <1>a, <1>1, <1>3 DEF TypeOK
<1>5. HistoryInv' /\ BuildInv'
  BY <1>1, <1>2, <1>3 DEF IndInv, HistoryInv, BuildInv
<1>6. FlightInv' /\ ReleaseInv' /\ JobInv'
  BY <1>1, FlightsKept, ReleasesKept, JobsKept DEF IndInv
<1> QED
  BY <1>4, <1>5, <1>6 DEF IndInv

\* create_property: the first version has its snapshot.
LEMMA CreateInv ==
  ASSUME IndInv, NEW verified \in BOOLEAN, CreateProperty(verified)
  PROVE  IndInv'
<1> USE DEF domainVars, siteVars, providerVars, releaseVars
<1>a. TypeOK /\ HistoryInv /\ JobInv
  BY DEF IndInv
<1>1. /\ prop = None /\ snaps' = <<SnapshotOf(prop')>>
      /\ prop' = [domain |-> None, analytics |-> verified, version |-> 1,
                  status |-> "draft", active |-> None]
      /\ UNCHANGED <<opp, job, domainVars, siteVars, providerVars, releaseVars>>
  BY DEF CreateProperty
<1>2. prop' \in PropertyRow /\ prop'.version = 1
  BY <1>1, BoundsAssumption DEF PropertyRow
<1>3. SnapshotOf(prop') \in Snapshot /\ prop' # None
  BY <1>2, RowTypes
<1>4. snaps' \in Seq(Snapshot) /\ Len(snaps') = 1 /\ snaps'[1] = SnapshotOf(prop')
  BY <1>1, <1>3
<1>5. HistoryInv'
  BY <1>2, <1>3, <1>4 DEF HistoryInv, SnapshotOf
<1>6. \A t \in Threads : job[t] # None => job[t].op = "provider"
  BY <1>a, <1>1 DEF JobInv, Job
<1>7. JobInv'
  BY <1>1, <1>6 DEF JobInv, Job
<1>8. TypeOK'
  BY <1>a, <1>1, <1>2, <1>4 DEF TypeOK
<1>9. BuildInv'
  BY <1>1 DEF IndInv, BuildInv
<1>10. FlightInv' /\ ReleaseInv'
  BY <1>1, FlightsKept, ReleasesKept DEF IndInv
<1> QED
  BY <1>5, <1>7, <1>8, <1>9, <1>10 DEF IndInv

\* A request loads what it needs.
LEMMA LoadInv ==
  ASSUME IndInv, NEW t \in Threads, NEW j \in Jobs, job' = [job EXCEPT ![t] = j],
         UNCHANGED <<propertyVars, domainVars, siteVars, providerVars, releaseVars>>,
         j.op # "provider" => prop # None,
         j.op \in {"update", "verify_dns", "config"} => j.row = prop /\ prop.version < MaxVersions,
         j.op = "verify_dns" => j.registration \in DOMAIN reg
  PROVE  IndInv'
<1> USE DEF propertyVars, domainVars, siteVars, providerVars, releaseVars
<1>a. TypeOK /\ HistoryInv /\ JobInv
  BY DEF IndInv
<1>1. /\ job \in [Threads -> Jobs \cup {None}] /\ snaps \in Seq(Snapshot)
      /\ prop # None => prop \in PropertyRow
  BY <1>a DEF TypeOK
<1>2. job' \in [Threads -> Jobs \cup {None}] /\ job'[t] = j
      /\ \A u \in Threads : u # t => job'[u] = job[u]
  BY <1>1
<1>3. TypeOK'
  BY <1>a, <1>2 DEF TypeOK
<1>4. prop # None => /\ prop.version \in 1 .. MaxVersions /\ Len(snaps) = prop.version
                     /\ snaps[prop.version] = SnapshotOf(prop)
  BY <1>a, <1>1, RowTypes DEF HistoryInv
<1>5. prop # None => prop.version \in DOMAIN snaps
  BY <1>1, <1>4
<1>6. Job(t)'
  BY <1>2, <1>4, <1>5, JobTypes DEF Job
<1>7. JobInv'
  BY <1>a, <1>2, <1>6 DEF JobInv, Job
<1>8. HistoryInv' /\ BuildInv'
  BY DEF IndInv, HistoryInv, BuildInv
<1>9. FlightInv' /\ ReleaseInv'
  BY FlightsKept, ReleasesKept DEF IndInv
<1> QED
  BY <1>3, <1>7, <1>8, <1>9 DEF IndInv

\* The endpoints that load.
LEMMA LoadsInv ==
  ASSUME IndInv, NEW t \in Threads,
         \/ LoadUpdate(t) \/ LoadConfig(t)
         \/ \E i \in 1 .. Cardinality(Domains) : LoadVerifyDns(t, i)
         \/ \E k \in Configs, approved \in BOOLEAN : LoadReviewConfig(t, k, approved)
  PROVE  IndInv'
<1>a. TypeOK /\ HistoryInv
  BY DEF IndInv
<1>b. prop # None => prop \in PropertyRow
  BY <1>a DEF TypeOK
<1>1. ASSUME LoadUpdate(t) PROVE IndInv'
  <2>1. PICK v \in BOOLEAN : LoadEdit(t, [op |-> "update", row |-> prop, analytics |-> v])
    BY <1>1 DEF LoadUpdate
  <2> DEFINE j == [op |-> "update", row |-> prop, analytics |-> v]
  <2>2. /\ prop # None /\ prop.version < MaxVersions /\ job' = [job EXCEPT ![t] = j]
        /\ UNCHANGED <<propertyVars, domainVars, siteVars, providerVars, releaseVars>>
    BY <2>1 DEF LoadEdit
  <2>3. j \in Jobs /\ j.op = "update" /\ j.row = prop
    BY <1>b, <2>2 DEF Jobs
  <2> HIDE DEF j
  <2> QED
    BY <2>2, <2>3, LoadInv
<1>2. ASSUME LoadConfig(t) PROVE IndInv'
  <2> DEFINE j == [op |-> "config", row |-> prop]
  <2>1. LoadEdit(t, j)
    BY <1>2 DEF LoadConfig
  <2>2. /\ prop # None /\ prop.version < MaxVersions /\ job' = [job EXCEPT ![t] = j]
        /\ UNCHANGED <<propertyVars, domainVars, siteVars, providerVars, releaseVars>>
    BY <2>1 DEF LoadEdit
  <2>3. j \in Jobs /\ j.op = "config" /\ j.row = prop
    BY <1>b, <2>2 DEF Jobs
  <2> HIDE DEF j
  <2> QED
    BY <2>2, <2>3, LoadInv
<1>3. ASSUME NEW i \in 1 .. Cardinality(Domains), LoadVerifyDns(t, i) PROVE IndInv'
  <2> DEFINE j == [op |-> "verify_dns", row |-> prop, registration |-> i]
  <2>1. LoadEdit(t, j) /\ i \in DOMAIN reg
    BY <1>3 DEF LoadVerifyDns
  <2>2. /\ prop # None /\ prop.version < MaxVersions /\ job' = [job EXCEPT ![t] = j]
        /\ UNCHANGED <<propertyVars, domainVars, siteVars, providerVars, releaseVars>>
    BY <2>1 DEF LoadEdit
  <2>3. i \in Nat
    BY <1>a, <2>1 DEF TypeOK
  <2>4. j \in Jobs /\ j.op = "verify_dns" /\ j.row = prop /\ j.registration = i
    BY <1>b, <2>2, <2>3 DEF Jobs
  <2> HIDE DEF j
  <2> QED
    BY <2>1, <2>2, <2>4, LoadInv
<1>4. ASSUME NEW k \in Configs, NEW approved \in BOOLEAN, LoadReviewConfig(t, k, approved)
      PROVE  IndInv'
  <2> DEFINE j == [op |-> "review", config |-> k, approved |-> approved,
                   seen |-> config, active |-> prop.active]
  <2>1. /\ k \in DOMAIN config /\ job' = [job EXCEPT ![t] = j]
        /\ UNCHANGED <<propertyVars, domainVars, siteVars, providerVars, releaseVars>>
    BY <1>4 DEF LoadReviewConfig
  <2>2. prop # None
    BY <1>a, <2>1 DEF HistoryInv
  <2>3. config \in Seq(ConfigStatus) /\ prop.active \in Configs \cup {None}
    BY <1>a, <1>b, <2>2, RowTypes DEF TypeOK
  <2>4. j \in Jobs /\ j.op = "review"
    BY <2>3 DEF Jobs
  <2> HIDE DEF j
  <2> QED
    BY <2>1, <2>2, <2>4, LoadInv
<1> QED
  BY <1>1, <1>2, <1>3, <1>4

\* What the session writes is a row: version and changed columns from the edit, the others
\* as they are now.
LEMMA FlushedRow ==
  ASSUME prop \in PropertyRow, NEW old \in PropertyRow, NEW new \in PropertyRow,
         new.version + 1 \in 1 .. MaxVersions
  PROVE  /\ Flushed(old, new) \in PropertyRow
         /\ Flushed(old, new).version = new.version + 1
         /\ Flushed(old, new).domain = IF new.domain # old.domain THEN new.domain ELSE prop.domain
         /\ Flushed(old, new).analytics =
              IF new.analytics # old.analytics THEN new.analytics ELSE prop.analytics
<1> DEFINE r == Flushed(old, new)
<1>1. DOMAIN prop = {"domain", "analytics", "version", "status", "active"}
  BY DEF PropertyRow
<1>2. r = [c \in {"domain", "analytics", "version", "status", "active"} |->
             IF c = "version" THEN new.version + 1
             ELSE IF new[c] # old[c] THEN new[c] ELSE prop[c]]
  BY <1>1 DEF Flushed
<1>3. /\ r.version = new.version + 1
      /\ r.domain = IF new.domain # old.domain THEN new.domain ELSE prop.domain
      /\ r.analytics = IF new.analytics # old.analytics THEN new.analytics ELSE prop.analytics
      /\ r.status = IF new.status # old.status THEN new.status ELSE prop.status
      /\ r.active = IF new.active # old.active THEN new.active ELSE prop.active
  BY <1>2
<1>4. r = [domain |-> r.domain, analytics |-> r.analytics, version |-> r.version,
           status |-> r.status, active |-> r.active]
  BY <1>2
<1>5. r \in PropertyRow
  <2> HIDE DEF r
  <2> QED
    BY <1>3, <1>4, RowTypes DEF PropertyRow
<1> QED
  BY <1>3, <1>5

\* A request ends without a trace.
LEMMA JobEnds ==
  ASSUME JobInv, NEW t \in Threads, job \in [Threads -> Jobs \cup {None}],
         job' = [job EXCEPT ![t] = None],
         \A u \in Threads : u # t /\ job[u] # None => Job(u)'
  PROVE  job' \in [Threads -> Jobs \cup {None}] /\ JobInv'
<1>1. job' \in [Threads -> Jobs \cup {None}] /\ job'[t] = None
      /\ \A u \in Threads : u # t => job'[u] = job[u]
  OBVIOUS
<1> QED
  BY <1>1 DEF JobInv

\* A versioned edit: the unique version lets it through only from the current row.
LEMMA EditInv ==
  ASSUME IndInv, NEW t \in Threads, CommitEdit(t)
  PROVE  IndInv'
<1> USE DEF providerVars, releaseVars
<1>a. TypeOK /\ HistoryInv /\ JobInv
  BY DEF IndInv
<1>0. PICK j : j = job[t]
  OBVIOUS
<1>1. /\ j # None /\ j.op \in {"update", "verify_dns", "config"}
      /\ job' = [job EXCEPT ![t] = None]
      /\ UNCHANGED <<opp, cand, asset, builds, compliant, providerVars, releaseVars>>
  BY <1>0 DEF CommitEdit
<1>2. /\ job \in [Threads -> Jobs \cup {None}] /\ prop \in PropertyRow \cup {None}
      /\ snaps \in Seq(Snapshot) /\ reg \in Seq(RegistrationRow) /\ config \in Seq(ConfigStatus)
  BY <1>a DEF TypeOK
<1>3. /\ j \in Jobs /\ j.row \in PropertyRow /\ prop \in PropertyRow /\ prop # None
      /\ j.row.version < MaxVersions /\ j.row.version \in DOMAIN snaps
      /\ snaps[j.row.version] = SnapshotOf(j.row)
      /\ j.op = "verify_dns" => j.registration \in DOMAIN reg
  BY <1>a, <1>0, <1>1, <1>2, JobTypes DEF JobInv, Job
<1>4. BuildInv' /\ FlightInv' /\ ReleaseInv'
  <2>1. BuildInv'
    BY <1>1 DEF IndInv, BuildInv
  <2>2. FlightInv' /\ ReleaseInv'
    BY <1>1, FlightsKept, ReleasesKept DEF IndInv
  <2> QED
    BY <2>1, <2>2
<1>5. CASE VersionTaken(j.row)
  <2>1. UNCHANGED <<prop, snaps, reg, config>>
    BY <1>0, <1>5 DEF CommitEdit
  <2>2. \A u \in Threads : u # t /\ job[u] # None => Job(u)'
    BY <1>a, <1>1, <1>2, <2>1 DEF JobInv, Job
  <2>3. job' \in [Threads -> Jobs \cup {None}] /\ JobInv'
    BY <1>a, <1>1, <1>2, <2>2, JobEnds
  <2>4. TypeOK' /\ HistoryInv'
    BY <1>a, <1>1, <2>1, <2>3 DEF TypeOK, HistoryInv
  <2> QED
    BY <1>4, <2>3, <2>4 DEF IndInv
<1>6. CASE ~VersionTaken(j.row)
  <2>0. PICK new : new = Edited(j)
    OBVIOUS
  <2>1. /\ prop' = Flushed(j.row, new) /\ snaps' = Append(snaps, SnapshotOf(new))
        /\ reg' = IF j.op = "verify_dns"
                  THEN [reg EXCEPT ![j.registration].status = "dns_verified"] ELSE reg
        /\ config' = IF j.op = "config" THEN Append(config, "draft") ELSE config
    BY <1>0, <1>6, <2>0 DEF CommitEdit
  \* The row it started from is the current one in the columns that edits change.
  <2>2. /\ Len(snaps) = prop.version /\ snaps[prop.version] = SnapshotOf(prop)
        /\ prop.version \in 1 .. MaxVersions /\ j.row.version \in 1 .. MaxVersions
        /\ MaxVersions \in Nat
    BY <1>a, <1>3, RowTypes, BoundsAssumption DEF HistoryInv
  <2>3. j.row.version = prop.version
    BY <1>2, <1>3, <1>6, <2>2 DEF VersionTaken
  <2>4. j.row.domain = prop.domain /\ j.row.analytics = prop.analytics
    BY <1>3, <2>2, <2>3, SnapshotsAgree
  <2>5. new \in PropertyRow /\ new.version = j.row.version
    <3>1. CASE j.op = "update"
      <4>1. new = [j.row EXCEPT !.analytics = j.analytics] /\ j.analytics \in BOOLEAN
        BY <2>0, <3>1, <1>3, JobTypes DEF Edited, Updated
      <4> QED
        BY <4>1, <1>3 DEF PropertyRow
    <3>2. CASE j.op = "verify_dns"
      <4>1. new = [j.row EXCEPT !.domain = reg[j.registration].domain]
        BY <2>0, <3>2 DEF Edited, DnsVerified
      <4>2. reg[j.registration] \in RegistrationRow
        BY <1>2, <1>3, <3>2
      <4>3. reg[j.registration].domain \in Domains
        BY <4>2 DEF RegistrationRow
      <4> QED
        BY <4>1, <4>3, <1>3 DEF PropertyRow
    <3>3. CASE j.op = "config"
      BY <2>0, <3>3, <1>3 DEF Edited
    <3> QED
      BY <1>1, <3>1, <3>2, <3>3
  <2>6. /\ prop' \in PropertyRow /\ prop'.version = prop.version + 1
        /\ prop'.domain = new.domain /\ prop'.analytics = new.analytics
    <3>1. new.version + 1 \in 1 .. MaxVersions
      BY <1>3, <2>2, <2>3, <2>5
    <3>2. /\ prop' \in PropertyRow /\ prop'.version = new.version + 1
          /\ prop'.domain = IF new.domain # j.row.domain THEN new.domain ELSE prop.domain
          /\ prop'.analytics = IF new.analytics # j.row.analytics THEN new.analytics
                               ELSE prop.analytics
      BY <1>3, <2>1, <2>5, <3>1, FlushedRow
    <3> QED
      BY <2>3, <2>4, <2>5, <3>2
  <2>7. SnapshotOf(new) = SnapshotOf(prop') /\ SnapshotOf(new) \in Snapshot /\ prop' # None
    BY <2>5, <2>6, SnapshotsAgree, RowTypes
  <2>8. /\ snaps' \in Seq(Snapshot) /\ Len(snaps') = Len(snaps) + 1
        /\ snaps'[Len(snaps) + 1] = SnapshotOf(new) /\ DOMAIN snaps \subseteq DOMAIN snaps'
        /\ \A n \in DOMAIN snaps : snaps'[n] = snaps[n]
    BY <1>2, <2>1, <2>7
  <2>9. HistoryInv'
    BY <2>2, <2>6, <2>7, <2>8 DEF HistoryInv, SnapshotOf
  <2>10. reg' \in Seq(RegistrationRow) /\ DOMAIN reg' = DOMAIN reg
    <3>1. CASE j.op = "verify_dns"
      <4> DEFINE r == [reg[j.registration] EXCEPT !.status = "dns_verified"]
      <4>1. /\ reg[j.registration] \in RegistrationRow /\ j.registration \in DOMAIN reg
            /\ reg' = [reg EXCEPT ![j.registration] = r]
        BY <1>2, <1>3, <2>1, <3>1
      <4>2. r \in RegistrationRow
        BY <4>1 DEF RegistrationRow
      <4> HIDE DEF r
      <4> QED
        BY <1>2, <4>1, <4>2
    <3>2. CASE j.op # "verify_dns"
      BY <1>2, <2>1, <3>2
    <3> QED
      BY <3>1, <3>2
  <2>11. config' \in Seq(ConfigStatus)
    BY <1>2, <2>1 DEF ConfigStatus
  <2>12. \A u \in Threads : u # t /\ job[u] # None => Job(u)'
    BY <1>a, <1>1, <1>2, <2>7, <2>8, <2>10 DEF JobInv, Job
  <2>13. job' \in [Threads -> Jobs \cup {None}] /\ JobInv'
    BY <1>a, <1>1, <1>2, <2>12, JobEnds
  <2>14. TypeOK'
    BY <1>a, <1>1, <2>6, <2>8, <2>10, <2>11, <2>13 DEF TypeOK
  <2> QED
    BY <1>4, <2>9, <2>13, <2>14 DEF IndInv
<1> QED
  BY <1>5, <1>6

\* A review of a configuration: the statuses it saw and changed.
LEMMA ReviewInv ==
  ASSUME IndInv, NEW t \in Threads, CommitReviewConfig(t)
  PROVE  IndInv'
<1> USE DEF domainVars, providerVars, releaseVars
<1>a. TypeOK /\ HistoryInv /\ JobInv
  BY DEF IndInv
<1>0. PICK j : j = job[t]
  OBVIOUS
<1>1. /\ j # None /\ j.op = "review" /\ job' = [job EXCEPT ![t] = None]
      /\ config' = [k \in DOMAIN config |->
                       IF k \in DOMAIN j.seen /\ Reviewed(j)[k] # j.seen[k]
                       THEN Reviewed(j)[k] ELSE config[k]]
      /\ prop' = IF j.approved /\ j.active # j.config
                 THEN [prop EXCEPT !.active = j.config] ELSE prop
      /\ UNCHANGED <<opp, snaps, asset, builds, compliant, domainVars, providerVars, releaseVars>>
  BY <1>0 DEF CommitReviewConfig
<1>2. /\ job \in [Threads -> Jobs \cup {None}] /\ prop \in PropertyRow \cup {None}
      /\ snaps \in Seq(Snapshot) /\ config \in Seq(ConfigStatus)
  BY <1>a DEF TypeOK
<1>3. /\ j \in Jobs /\ j.config \in Configs /\ j.seen \in Seq(ConfigStatus)
      /\ prop \in PropertyRow /\ prop # None
  BY <1>a, <1>0, <1>1, <1>2, JobTypes DEF JobInv, Job
<1>4. /\ prop' \in PropertyRow /\ prop'.version = prop.version
      /\ prop'.domain = prop.domain /\ prop'.analytics = prop.analytics
  BY <1>1, <1>3 DEF PropertyRow
<1>5. SnapshotOf(prop') = SnapshotOf(prop) /\ prop' # None
  BY <1>4, SnapshotsAgree, RowTypes
<1>6. \A k \in DOMAIN j.seen : Reviewed(j)[k] \in ConfigStatus
  <2>1. \A k \in DOMAIN j.seen : j.seen[k] \in ConfigStatus
    BY <1>3
  <2> QED
    BY <2>1 DEF Reviewed, ConfigStatus
<1>7. config' \in Seq(ConfigStatus) /\ Len(config') = Len(config)
  <2>1. DOMAIN config = 1 .. Len(config) /\ Len(config) \in Nat
        /\ \A k \in DOMAIN config : config[k] \in ConfigStatus
    BY <1>2
  <2>2. config' \in [1 .. Len(config) -> ConfigStatus]
    BY <1>1, <1>6, <2>1
  <2> QED
    BY <2>1, <2>2
<1>8. HistoryInv'
  BY <1>a, <1>1, <1>3, <1>4, <1>5 DEF HistoryInv, SnapshotOf
<1>9. \A u \in Threads : u # t /\ job[u] # None => Job(u)'
  BY <1>a, <1>1, <1>2, <1>5 DEF JobInv, Job
<1>10. job' \in [Threads -> Jobs \cup {None}] /\ JobInv'
  BY <1>a, <1>1, <1>2, <1>9, JobEnds
<1>11. TypeOK'
  BY <1>a, <1>1, <1>4, <1>7, <1>10 DEF TypeOK
<1>12. BuildInv'
  BY <1>1 DEF IndInv, BuildInv
<1>13. FlightInv' /\ ReleaseInv'
  BY <1>1, FlightsKept, ReleasesKept DEF IndInv
<1> QED
  BY <1>8, <1>10, <1>11, <1>12, <1>13 DEF IndInv

\* A step that only moves provider statuses, files or a change under way.
LEMMA ChangeKept ==
  ASSUME IndInv, UNCHANGED <<deps, flight, healthy, propertyVars, domainVars, siteVars>>,
         asg' \in [Assignments -> AssignmentStatus \cup {None}],
         shown' \in [DOMAIN shown -> Assignments \cup {None}],
         suspect' \subseteq builds,
         crossing' \in [deployments : SUBSET Processes, changes : SUBSET Threads],
         job' \in [Threads -> Jobs \cup {None}],
         \A t \in Threads : job'[t] = job[t] \/ job'[t] = None \/ job'[t].op = "provider"
  PROVE  IndInv'
<1> USE DEF propertyVars, domainVars, siteVars
<1>1. TypeOK'
  BY DEF IndInv, TypeOK
<1>2. JobInv'
  BY DEF IndInv, JobInv, Job
<1>3. HistoryInv' /\ BuildInv'
  BY DEF IndInv, HistoryInv, BuildInv
<1>4. FlightInv' /\ ReleaseInv'
  BY FlightsKept, ReleasesKept DEF IndInv
<1> QED
  BY <1>1, <1>2, <1>3, <1>4 DEF IndInv

\* A new assignment is a candidate.
LEMMA AssignmentInv ==
  ASSUME IndInv, NEW a \in Assignments, CreateAssignment(a)
  PROVE  IndInv'
<1> USE DEF propertyVars, domainVars, siteVars, releaseVars
<1>1. /\ asg' = [asg EXCEPT ![a] = "candidate"]
      /\ UNCHANGED <<healthy, job, propertyVars, domainVars, siteVars, releaseVars>>
  BY DEF CreateAssignment
<1>2. TypeOK
  BY DEF IndInv
<1>3. asg' \in [Assignments -> AssignmentStatus \cup {None}]
  BY <1>1, <1>2 DEF TypeOK, AssignmentStatus
<1> QED
  BY <1>1, <1>2, <1>3, ChangeKept DEF TypeOK

\* Reading the assignments.
LEMMA LoadChangeInv ==
  ASSUME IndInv, NEW t \in Threads, NEW a \in Assignments, NEW old \in Assignments \cup {None},
         LoadChange(t, a, old)
  PROVE  IndInv'
<1> DEFINE j == [op |-> "provider", at |-> "rows", new |-> a, old |-> old,
                 sites |-> {}, todo |-> {}]
<1>1. /\ job' = [job EXCEPT ![t] = j]
      /\ UNCHANGED <<propertyVars, domainVars, siteVars, providerVars, releaseVars>>
  BY DEF LoadChange
<1>2. j \in Jobs /\ j.op = "provider"
  BY DEF Jobs
<1> HIDE DEF j
<1> QED
  BY <1>1, <1>2, LoadInv

\* The deployed sites and those on their way are builds.
LEMMA SiteTypes ==
  ASSUME IndInv
  PROVE  /\ Deployed \subseteq builds /\ Deployed \subseteq BuildRow
         /\ \A p \in Past : flight[p] # None /\ flight[p].build \in builds
         /\ Past \subseteq Processes
<1>1. deps \in Seq(DeploymentRow) /\ builds \subseteq BuildRow /\ ReleaseInv /\ FlightInv
  BY DEF IndInv, TypeOK
<1>2. \A env : Live(env) \subseteq DOMAIN deps
  BY DEF Live
<1>3. Deployed \subseteq builds
  BY <1>1, <1>2 DEF Deployed, ReleaseInv, Released
<1> QED
  BY <1>1, <1>3 DEF Past, FlightInv, Flight

\* Selecting the sites.
LEMMA SelectInv ==
  ASSUME IndInv, NEW t \in Threads, NEW old \in Assignments \cup {None},
         job[t] # None, job[t].op = "provider", SelectSites(t, old)
  PROVE  IndInv'
<1> USE DEF providerVars
<1>a. TypeOK
  BY DEF IndInv
<1>0. PICK j : j = job[t]
  OBVIOUS
<1> DEFINE g == [j EXCEPT !.at = "files", !.old = old, !.sites = Deployed, !.todo = Deployed]
<1>1. /\ job' = [job EXCEPT ![t].at = "files", ![t].old = old,
                            ![t].sites = Deployed, ![t].todo = Deployed]
      /\ suspect' = suspect \cup {flight[p].build : p \in Past}
      /\ UNCHANGED <<deps, shown, flight, propertyVars, domainVars, siteVars, providerVars>>
  BY DEF SelectSites
<1>2. job \in [Threads -> Jobs \cup {None}] /\ j \in Jobs /\ j.op = "provider"
  BY <1>a, <1>0 DEF TypeOK
<1>3. g \in Jobs /\ g.op = "provider"
  <2>1. Deployed \subseteq BuildRow
    BY SiteTypes
  <2> QED
    BY <1>2, <2>1 DEF Jobs
<1>4. job' = [job EXCEPT ![t] = g]
  BY <1>0, <1>1, <1>2
<1> HIDE DEF g
<1>5. /\ job' \in [Threads -> Jobs \cup {None}]
      /\ \A u \in Threads : job'[u] = job[u] \/ job'[u] = None \/ job'[u].op = "provider"
  BY <1>2, <1>3, <1>4
<1>6. suspect' \subseteq builds
  BY <1>a, <1>1, SiteTypes DEF TypeOK
<1>7. crossing' \in [deployments : SUBSET Processes, changes : SUBSET Threads]
  <2>1. /\ crossing.deployments \subseteq Processes /\ crossing.changes \subseteq Threads
        /\ Past \subseteq Processes
    BY <1>a, SiteTypes DEF TypeOK
  <2> QED
    BY <2>1 DEF SelectSites
<1> QED
  BY <1>a, <1>1, <1>5, <1>6, <1>7, ChangeKept DEF TypeOK

\* A change that ends.
LEMMA EndInv ==
  ASSUME IndInv, NEW t \in Threads, EndChange(t), suspect' \subseteq suspect,
         asg' \in [Assignments -> AssignmentStatus \cup {None}]
  PROVE  IndInv'
<1>a. TypeOK
  BY DEF IndInv
<1>1. /\ job' = [job EXCEPT ![t] = None]
      /\ crossing' = [crossing EXCEPT !.changes = @ \ {t}]
      /\ UNCHANGED <<healthy, deps, shown, flight, propertyVars, domainVars, siteVars>>
  BY DEF EndChange
<1>2. crossing' \in [deployments : SUBSET Processes, changes : SUBSET Threads]
  BY <1>a, <1>1 DEF TypeOK
<1>3. /\ job' \in [Threads -> Jobs \cup {None}]
      /\ \A u \in Threads : job'[u] = job[u] \/ job'[u] = None
  BY <1>a, <1>1 DEF TypeOK
<1> QED
  BY <1>a, <1>1, <1>2, <1>3, ChangeKept DEF TypeOK

\* What a change writes to a site.
LEMMA RewriteInv ==
  ASSUME IndInv, NEW t \in Threads, NEW b \in builds, RewriteFile(t, b)
  PROVE  IndInv'
<1> USE DEF providerVars
<1>a. TypeOK
  BY DEF IndInv
<1>0. PICK j : j = job[t]
  OBVIOUS
<1> DEFINE g == [j EXCEPT !.todo = @ \ {b}]
<1>1. /\ Changing(t) /\ job' = [job EXCEPT ![t].todo = @ \ {b}]
      /\ shown' = [shown EXCEPT ![b] = j.new] /\ suspect' = suspect \cup {b}
      /\ UNCHANGED <<deps, flight, crossing, propertyVars, domainVars, siteVars, providerVars>>
  BY <1>0 DEF RewriteFile
<1>2. /\ job \in [Threads -> Jobs \cup {None}] /\ j \in Jobs /\ j.op = "provider"
      /\ j.new \in Assignments
  BY <1>a, <1>0, <1>1, JobTypes DEF TypeOK, Changing
<1>3. g \in Jobs /\ g.op = "provider"
  BY <1>2 DEF Jobs
<1>4. job' = [job EXCEPT ![t] = g]
  BY <1>0, <1>1, <1>2
<1> HIDE DEF g
<1>5. /\ job' \in [Threads -> Jobs \cup {None}]
      /\ \A u \in Threads : job'[u] = job[u] \/ job'[u] = None \/ job'[u].op = "provider"
  BY <1>2, <1>3, <1>4
<1>6. shown' \in [DOMAIN shown -> Assignments \cup {None}] /\ suspect' \subseteq builds
  BY <1>a, <1>1, <1>2 DEF TypeOK
<1> QED
  BY <1>a, <1>1, <1>5, <1>6, ChangeKept DEF TypeOK

\* The steps of a provider change.
LEMMA ChangesInv ==
  ASSUME IndInv, NEW t \in Threads,
         \/ \E a \in Assignments : LoadActivate(t, a) \/ LoadReplace(t, a)
         \/ FlushChange(t) \/ CommitChange(t) \/ FailChange(t)
         \/ \E b \in builds : RewriteFile(t, b)
  PROVE  IndInv'
<1>a. TypeOK
  BY DEF IndInv
<1>1. ASSUME NEW a \in Assignments, LoadActivate(t, a) \/ LoadReplace(t, a) PROVE IndInv'
  <2>1. PICK old \in Assignments \cup {None} : LoadChange(t, a, old)
    BY <1>1, ActiveType DEF LoadActivate, LoadReplace
  <2> QED
    BY <2>1, LoadChangeInv
<1>2. ASSUME FlushChange(t) PROVE IndInv'
  <2>1. /\ job[t] # None /\ job[t].op = "provider"
        /\ \/ SelectSites(t, job[t].old) \/ SelectSites(t, job[t].new)
           \/ /\ job' = [job EXCEPT ![t] = None]
              /\ UNCHANGED <<propertyVars, domainVars, siteVars, providerVars, releaseVars>>
    BY <1>2 DEF FlushChange
  <2>2. job[t] \in Jobs
    BY <1>a, <2>1 DEF TypeOK
  <2>3. job[t].old \in Assignments \cup {None} /\ job[t].new \in Assignments \cup {None}
    BY <2>1, <2>2, JobTypes
  <2>4. ASSUME job' = [job EXCEPT ![t] = None],
               UNCHANGED <<propertyVars, domainVars, siteVars, providerVars, releaseVars>>
        PROVE  IndInv'
    <3>1. /\ job' \in [Threads -> Jobs \cup {None}]
          /\ \A u \in Threads : job'[u] = job[u] \/ job'[u] = None
      BY <1>a, <2>4 DEF TypeOK
    <3> QED
      BY <1>a, <2>4, <3>1, ChangeKept DEF TypeOK, releaseVars, providerVars
  <2> QED
    BY <2>1, <2>3, <2>4, SelectInv
<1>3. ASSUME CommitChange(t) PROVE IndInv'
  <2>1. EndChange(t) /\ suspect' \subseteq suspect
    BY <1>3 DEF CommitChange
  <2>2. asg' \in [Assignments -> AssignmentStatus \cup {None}]
    BY <1>3, <1>a DEF CommitChange, TypeOK, AssignmentStatus
  <2> QED
    BY <2>1, <2>2, EndInv
<1>4. ASSUME FailChange(t) PROVE IndInv'
  BY <1>4, <1>a, EndInv DEF FailChange, TypeOK
<1> QED
  BY <1>1, <1>2, <1>3, <1>4, RewriteInv

\* A step of one deployment that stores no row.
LEMMA FlightStep ==
  ASSUME IndInv, NEW p \in Processes, NEW f \in Flights \cup {None},
         flight' = [flight EXCEPT ![p] = f],
         UNCHANGED <<deps, job, propertyVars, domainVars, siteVars, providerVars>>,
         shown' \in [DOMAIN shown' -> Assignments \cup {None}], DOMAIN shown' \subseteq builds,
         suspect' \subseteq builds,
         crossing' \in [deployments : SUBSET Processes, changes : SUBSET Threads],
         f # None => Flight(p)'
  PROVE  IndInv'
<1> USE DEF propertyVars, domainVars, siteVars, providerVars
<1>a. TypeOK /\ FlightInv /\ ReleaseInv
  BY DEF IndInv
<1>1. /\ flight' \in [Processes -> Flights \cup {None}] /\ flight'[p] = f
      /\ \A q \in Processes : q # p => flight'[q] = flight[q]
  BY <1>a DEF TypeOK
<1>2. TypeOK'
  BY <1>a, <1>1 DEF TypeOK
<1>3. ASSUME NEW q \in Processes, q # p, flight[q] # None PROVE Flight(q)'
  <2>1. Flight(q) /\ flight'[q] = flight[q]
    BY <1>a, <1>1, <1>3 DEF FlightInv
  <2> QED
    BY <2>1 DEF Flight, Reviewable, Passed
<1>4. FlightInv'
  BY <1>1, <1>3 DEF FlightInv
<1>6. ReleaseInv'
  BY <1>a, ReleasesKept
<1>7. HistoryInv' /\ BuildInv'
  BY DEF IndInv, HistoryInv, BuildInv
<1>8. JobInv'
  BY JobsKept DEF IndInv
<1> QED
  BY <1>2, <1>4, <1>6, <1>7, <1>8 DEF IndInv

\* The row a deployment finds deployed has an id.
LEMMA PriorTypes ==
  ASSUME IndInv, NEW env
  PROVE  Newest(Live(env)) \in 0 .. MaxDeployments
<1>1. deps \in Seq(DeploymentRow) /\ Len(deps) <= MaxDeployments /\ MaxDeployments \in Nat
  BY BoundsAssumption DEF IndInv, TypeOK, ReleaseInv
<1>2. Live(env) \in SUBSET DOMAIN deps
  BY DEF Live
<1>3. Newest(Live(env)) \in Live(env) \cup {0}
  BY <1>1, <1>2, NewestRow
<1> QED
  BY <1>1, <1>2, <1>3

\* deploy, after its gates.
LEMMA DeployInv ==
  ASSUME IndInv, NEW p \in Processes, NEW b \in builds, NEW pilot, StartDeploy(p, b, pilot)
  PROVE  IndInv'
<1> USE DEF propertyVars, domainVars, siteVars, providerVars
<1>a. TypeOK /\ BuildInv
  BY DEF IndInv
<1> DEFINE f == [op |-> "deploy", at |-> "adapter", build |-> b,
                 prior |-> Newest(Live(b.env)), target |-> 0, refs |-> NoRefs]
<1>1. /\ b.env = "production" => Gates(b, pilot)
      /\ flight' = [flight EXCEPT ![p] = f]
      /\ UNCHANGED <<deps, shown, job, suspect, crossing, propertyVars, domainVars, siteVars, providerVars>>
  BY DEF StartDeploy
<1>2. b \in BuildRow /\ Newest(Live(b.env)) \in 0 .. MaxDeployments
  BY <1>a, PriorTypes DEF TypeOK
<1>3. f \in Flights
  BY <1>2, BoundsAssumption DEF Flights, NoRefs
<1>4. f.op = "deploy" /\ f.at = "adapter" /\ f.build = b
  OBVIOUS
<1> HIDE DEF f
<1>5. flight'[p] = f
  BY <1>a, <1>1 DEF TypeOK
<1>6. b.env = "production" => Reviewable(b) /\ b \in compliant
  BY <1>a, <1>1 DEF Gates, Reviewable, BuildInv
<1>7. Flight(p)'
  BY <1>1, <1>4, <1>5, <1>6 DEF Flight, Reviewable, Passed
<1>9. shown \in [DOMAIN shown -> Assignments \cup {None}] /\ DOMAIN shown \subseteq builds
  BY <1>a DEF TypeOK
<1> QED
  BY <1>a, <1>1, <1>3, <1>7, <1>9, FlightStep DEF TypeOK

\* rollback, to a row of its environment.
LEMMA RollbackInv ==
  ASSUME IndInv, NEW p \in Processes, NEW target \in 1 .. MaxDeployments,
         StartRollback(p, target)
  PROVE  IndInv'
<1> USE DEF propertyVars, domainVars, siteVars, providerVars
<1>a. TypeOK /\ ReleaseInv
  BY DEF IndInv
<1> DEFINE f == [op |-> "rollback", at |-> "adapter", build |-> deps[target].build,
                 prior |-> Newest(Live("production")), target |-> target, refs |-> NoRefs]
<1>1. /\ target \in DOMAIN deps /\ deps[target].build.env = "production"
      /\ flight' = [flight EXCEPT ![p] = f]
      /\ UNCHANGED <<deps, shown, job, suspect, crossing, propertyVars, domainVars, siteVars, providerVars>>
  BY DEF StartRollback
<1>2. /\ deps[target].build \in BuildRow /\ Newest(Live("production")) \in 0 .. MaxDeployments
      /\ Released(target)
  <2>1. deps[target] \in DeploymentRow
    BY <1>a, <1>1 DEF TypeOK
  <2>2. Newest(Live("production")) \in 0 .. MaxDeployments
    BY PriorTypes
  <2> QED
    BY <1>a, <1>1, <2>1, <2>2, DeploymentTypes DEF ReleaseInv
<1>3. f \in Flights
  BY <1>2, BoundsAssumption DEF Flights, NoRefs
<1>4. f.op = "rollback" /\ f.at = "adapter" /\ f.build = deps[target].build /\ f.target = target
  OBVIOUS
<1> HIDE DEF f
<1>5. flight'[p] = f
  BY <1>a, <1>1 DEF TypeOK
<1>6. Flight(p)'
  BY <1>1, <1>2, <1>4, <1>5 DEF Flight, Reviewable, Passed, Released
<1>8. shown \in [DOMAIN shown -> Assignments \cup {None}] /\ DOMAIN shown \subseteq builds
  BY <1>a DEF TypeOK
<1> QED
  BY <1>a, <1>1, <1>3, <1>6, <1>8, FlightStep DEF TypeOK

\* The rows a release will refer to.
LEMMA RefsTypes ==
  ASSUME IndInv, NEW p \in Processes, flight[p] # None
  PROVE  /\ Refs(flight[p]) \in [registration : Domains \cup {None},
                                 compliance : BuildRow \cup {None},
                                 assignment : Assignments \cup {None}]
         /\ flight[p].build.env = "production" =>
              Refs(flight[p]).compliance = flight[p].build
<1>0. PICK f : f = flight[p]
  OBVIOUS
<1>1. f \in Flights /\ Flight(p) /\ ReleaseInv /\ deps \in Seq(DeploymentRow)
      /\ reg \in Seq(RegistrationRow)
  BY <1>0 DEF IndInv, TypeOK, FlightInv
<1>2. f.op = "rollback" =>
        /\ deps[f.target] \in DeploymentRow /\ deps[f.target].build = f.build
        /\ f.build.env = "production" => deps[f.target].compliance = f.build
  BY <1>0, <1>1 DEF Flight, ReleaseInv, Released
<1>3. f.op = "rollback" => /\ deps[f.target].registration \in Domains \cup {None}
                           /\ deps[f.target].compliance \in BuildRow \cup {None}
  BY <1>2, DeploymentTypes
<1>4. f.op \in {"deploy", "rollback"} /\ f.build \in BuildRow
  BY <1>1, FlightTypes
<1>5. f.op = "deploy" /\ f.build.env = "production" => f.build \in compliant
  BY <1>0, <1>1 DEF Flight
<1>6. ActiveAssignment \in Assignments \cup {None} /\ VerifiedDomain \in Domains \cup {None}
  BY <1>1, ActiveType, VerifiedType
<1> QED
  BY <1>0, <1>2, <1>3, <1>4, <1>5, <1>6 DEF Refs

\* The adapter has replaced the destination and the rows are read.
LEMMA PublishInv ==
  ASSUME IndInv, NEW p \in Processes, Publish(p)
  PROVE  IndInv'
<1> USE DEF propertyVars, domainVars, siteVars, providerVars
<1>a. TypeOK /\ FlightInv
  BY DEF IndInv
<1>0. PICK f : f = flight[p]
  OBVIOUS
<1> DEFINE g == [f EXCEPT !.at = "file", !.refs = Refs(f)]
<1>1. /\ f # None /\ f.at = "adapter"
      /\ flight' = [flight EXCEPT ![p].at = "file", ![p].refs = Refs(f)]
      /\ shown' = [b \in DOMAIN shown \cup {f.build} |-> IF b = f.build THEN None ELSE shown[b]]
      /\ suspect' = suspect \cup {f.build}
      /\ UNCHANGED <<deps, job, propertyVars, domainVars, siteVars, providerVars>>
  BY <1>0 DEF Publish
<1>2. f \in Flights /\ flight \in [Processes -> Flights \cup {None}] /\ Flight(p)
  BY <1>a, <1>0, <1>1 DEF TypeOK, FlightInv
<1>3. flight' = [flight EXCEPT ![p] = g]
  BY <1>0, <1>1, <1>2
<1>4. /\ Refs(f) \in [registration : Domains \cup {None}, compliance : BuildRow \cup {None},
                      assignment : Assignments \cup {None}]
      /\ f.build.env = "production" => Refs(f).compliance = f.build
  BY <1>0, <1>1, RefsTypes
<1>5. /\ g \in Flights /\ g.op = f.op /\ g.at = "file" /\ g.build = f.build
      /\ g.target = f.target /\ g.refs = Refs(f)
  BY <1>2, <1>4 DEF Flights
<1> HIDE DEF g
<1>6. flight'[p] = g
  BY <1>2, <1>3
<1>7. /\ shown \in [DOMAIN shown -> Assignments \cup {None}] /\ DOMAIN shown \subseteq builds
      /\ f.build \in builds /\ suspect \subseteq builds
  BY <1>a, <1>0, <1>2 DEF TypeOK, Flight
<1>8. /\ DOMAIN shown' \subseteq builds /\ suspect' \subseteq builds
      /\ shown' \in [DOMAIN shown' -> Assignments \cup {None}]
  BY <1>1, <1>7
<1>9. crossing' \in [deployments : SUBSET Processes, changes : SUBSET Threads]
  <2>1. crossing.deployments \subseteq Processes /\ crossing.changes \subseteq Threads
    BY <1>a DEF TypeOK
  <2> QED
    BY <2>1 DEF Publish
<1>12. Flight(p)'
  <2>1. /\ f.build.env = "production" =>
             Reviewable(f.build) /\ (f.op = "deploy" => f.build \in compliant)
        /\ f.op = "rollback" => /\ f.target \in DOMAIN deps
                                /\ deps[f.target].build = f.build
                                /\ f.build.env = "production"
    BY <1>0, <1>2 DEF Flight
  <2>2. f.build.env = "production" => g.refs.compliance = f.build
    BY <1>4, <1>5
  <2>3. deps' = deps /\ compliant' = compliant /\ builds' = builds
    BY <1>1
  <2> QED
    BY <1>5, <1>6, <1>7, <2>1, <2>2, <2>3 DEF Flight, Reviewable, Passed
<1> QED
  BY <1>1, <1>3, <1>5, <1>8, <1>9, <1>12, FlightStep

\* The provider file of the destination is written.
LEMMA WriteInv ==
  ASSUME IndInv, NEW p \in Processes, WriteFile(p)
  PROVE  IndInv'
<1> USE DEF propertyVars, domainVars, siteVars, providerVars
<1>a. TypeOK /\ FlightInv
  BY DEF IndInv
<1>0. PICK f : f = flight[p]
  OBVIOUS
<1> DEFINE g == [f EXCEPT !.at = "commit"]
<1>1. /\ f # None /\ f.at = "file"
      /\ flight' = [flight EXCEPT ![p].at = "commit"]
      /\ shown' = [shown EXCEPT ![f.build] = f.refs.assignment]
      /\ suspect' \subseteq suspect \cup {f.build}
      /\ UNCHANGED <<deps, job, crossing, propertyVars, domainVars, siteVars, providerVars>>
  BY <1>0 DEF WriteFile
<1>2. f \in Flights /\ flight \in [Processes -> Flights \cup {None}] /\ Flight(p)
  BY <1>a, <1>0, <1>1 DEF TypeOK, FlightInv
<1>3. flight' = [flight EXCEPT ![p] = g]
  BY <1>0, <1>1, <1>2
<1>5. /\ g \in Flights /\ g.op = f.op /\ g.at = "commit" /\ g.build = f.build
      /\ g.target = f.target /\ g.refs = f.refs
  BY <1>2 DEF Flights
<1> HIDE DEF g
<1>6. flight'[p] = g
  BY <1>2, <1>3
<1>7. /\ DOMAIN shown' \subseteq builds /\ suspect' \subseteq builds
      /\ shown' \in [DOMAIN shown' -> Assignments \cup {None}]
  BY <1>a, <1>0, <1>1, <1>2, FlightTypes DEF TypeOK, Flight
<1>8. Flight(p)'
  BY <1>0, <1>1, <1>2, <1>5, <1>6 DEF Flight, Reviewable, Passed
<1> QED
  BY <1>a, <1>1, <1>3, <1>5, <1>7, <1>8, FlightStep DEF TypeOK

\* A deployment that fails leaves its files.
LEMMA AbortInv ==
  ASSUME IndInv, NEW p \in Processes, AbortDeployment(p)
  PROVE  IndInv'
<1> USE DEF propertyVars, domainVars, siteVars, providerVars
<1>1. /\ flight' = [flight EXCEPT ![p] = None]
      /\ crossing' = [crossing EXCEPT !.deployments = @ \ {p}]
      /\ UNCHANGED <<deps, shown, job, suspect, propertyVars, domainVars, siteVars, providerVars>>
  BY DEF AbortDeployment
<1>2. crossing' \in [deployments : SUBSET Processes, changes : SUBSET Threads]
  BY <1>1 DEF IndInv, TypeOK
<1>3. /\ shown \in [DOMAIN shown -> Assignments \cup {None}] /\ DOMAIN shown \subseteq builds
      /\ suspect \subseteq builds
  BY DEF IndInv, TypeOK
<1> QED
  BY <1>1, <1>2, <1>3, FlightStep

\* The rows after a deployment: the displaced one is rolled back, the new one is the last.
LEMMA RowsAfter ==
  ASSUME deps \in Seq(DeploymentRow), NEW f \in Flights,
         deps' = Append(Displaced(f), NewRow(f))
  PROVE  /\ deps' \in Seq(DeploymentRow)
         /\ Len(deps') = Len(deps) + 1 /\ DOMAIN deps' = DOMAIN deps \cup {Len(deps) + 1}
         /\ DOMAIN deps = 1 .. Len(deps) /\ Len(deps) \in Nat
         /\ deps'[Len(deps) + 1] = NewRow(f)
         /\ \A i \in DOMAIN deps :
               /\ deps'[i].build = deps[i].build /\ deps'[i].compliance = deps[i].compliance
               /\ deps'[i].previous = deps[i].previous
               /\ deps'[i].status = IF i = f.prior THEN "rolled_back" ELSE deps[i].status
<1> DEFINE old == Displaced(f)
           new == NewRow(f)
<1>1. Len(deps) \in Nat /\ DOMAIN deps = 1 .. Len(deps)
      /\ \A i \in DOMAIN deps : deps[i] \in DeploymentRow
  OBVIOUS
<1>2. \A i \in DOMAIN deps : [deps[i] EXCEPT !.status = "rolled_back"] \in DeploymentRow
  BY <1>1, DeploymentTypes
<1>3. old \in [1 .. Len(deps) -> DeploymentRow]
  BY <1>1, <1>2 DEF Displaced
<1>4. old \in Seq(DeploymentRow) /\ Len(old) = Len(deps)
  <2> HIDE DEF old
  <2> QED
    BY <1>1, <1>3
<1>5. ASSUME NEW i \in DOMAIN deps
      PROVE  /\ old[i].build = deps[i].build /\ old[i].compliance = deps[i].compliance
             /\ old[i].previous = deps[i].previous
             /\ old[i].status = IF i = f.prior THEN "rolled_back" ELSE deps[i].status
  <2>1. old[i] = IF i = f.prior THEN [deps[i] EXCEPT !.status = "rolled_back"] ELSE deps[i]
    BY DEF Displaced
  <2>2. deps[i] \in DeploymentRow
    BY <1>1
  <2> HIDE DEF old
  <2> QED
    BY <2>1, <2>2 DEF DeploymentRow
<1>6. new \in DeploymentRow
  BY FlightTypes DEF NewRow, DeploymentRow
<1>7. deps' = Append(old, new)
  OBVIOUS
<1> HIDE DEF old, new
<1>8. /\ deps' \in Seq(DeploymentRow) /\ Len(deps') = Len(deps) + 1
      /\ deps'[Len(deps) + 1] = new /\ \A i \in 1 .. Len(deps) : deps'[i] = old[i]
  BY <1>1, <1>4, <1>6, <1>7
<1>9. DOMAIN deps' = 1 .. (Len(deps) + 1)
  BY <1>8
<1>10. DOMAIN deps' = DOMAIN deps \cup {Len(deps) + 1}
  BY <1>1, <1>9
<1> QED
  BY <1>1, <1>5, <1>8, <1>10 DEF new

\* The commit of a deployment.
LEMMA CommitInv ==
  ASSUME IndInv, NEW p \in Processes, CommitDeployment(p)
  PROVE  IndInv'
<1> USE DEF domainVars, siteVars, providerVars
<1>a. TypeOK /\ FlightInv /\ ReleaseInv /\ HistoryInv
  BY DEF IndInv
<1>0. PICK f : f = flight[p]
  OBVIOUS
<1>1. /\ f # None /\ f.at = "commit" /\ Len(deps) < MaxDeployments
      /\ deps' = Append(Displaced(f), NewRow(f))
      /\ prop' = IF f.op = "deploy" THEN [prop EXCEPT !.status = f.build.env] ELSE prop
      /\ flight' = [flight EXCEPT ![p] = None]
      /\ crossing' = [crossing EXCEPT !.deployments = @ \ {p}]
      /\ UNCHANGED <<opp, snaps, shown, job, suspect, domainVars, siteVars, providerVars>>
  BY <1>0 DEF CommitDeployment
<1>2. /\ f \in Flights /\ flight \in [Processes -> Flights \cup {None}] /\ Flight(p)
      /\ deps \in Seq(DeploymentRow)
  BY <1>a, <1>0, <1>1 DEF TypeOK, FlightInv
<1>3. /\ f.build \in builds
      /\ f.build.env = "production" => Reviewable(f.build) /\ f.refs.compliance = f.build
  BY <1>0, <1>1, <1>2 DEF Flight
<1>4. PICK n : n = Len(deps) + 1
  OBVIOUS
<1>5. /\ deps' \in Seq(DeploymentRow) /\ Len(deps') = n /\ DOMAIN deps' = DOMAIN deps \cup {n}
      /\ deps'[n] = NewRow(f) /\ Len(deps) \in Nat
      /\ \A i \in DOMAIN deps :
            /\ deps'[i].build = deps[i].build /\ deps'[i].compliance = deps[i].compliance
            /\ deps'[i].status = IF i = f.prior THEN "rolled_back" ELSE deps[i].status
  BY <1>1, <1>2, <1>4, RowsAfter
<1>6. /\ deps'[n].build = f.build /\ deps'[n].compliance = f.refs.compliance
      /\ deps'[n].status = "deployed"
  BY <1>5 DEF NewRow
<1>8. Released(n)'
  <2>1. f.build \in builds' /\ Reviewable(f.build)
    BY <1>1, <1>3 DEF Reviewable
  <2> QED
    BY <1>3, <1>6, <2>1 DEF Released, Reviewable, Passed
<1>9. ASSUME NEW i \in DOMAIN deps PROVE Released(i)'
  <2>0. PICK b : b = deps[i].build
    OBVIOUS
  <2>1. /\ Released(i) /\ deps'[i].build = b /\ deps'[i].compliance = deps[i].compliance
    BY <1>a, <1>5, <2>0 DEF ReleaseInv
  <2>2. /\ b \in builds' /\ Reviewable(b)
        /\ b.env = "production" => deps'[i].compliance = b
    BY <1>1, <2>0, <2>1 DEF Released
  <2> QED
    BY <2>1, <2>2 DEF Released, Reviewable, Passed
<1>10. ReleaseInv'
  BY <1>1, <1>4, <1>5, <1>8, <1>9, BoundsAssumption DEF ReleaseInv
<1>11. /\ flight' \in [Processes -> Flights \cup {None}] /\ flight'[p] = None
       /\ \A q \in Processes : q # p => flight'[q] = flight[q]
  BY <1>1, <1>2
<1>12. ASSUME NEW q \in Processes, q # p, flight[q] # None PROVE Flight(q)'
  <2>0. PICK g : g = flight[q]
    OBVIOUS
  <2>1. Flight(q) /\ flight'[q] = g
    BY <1>a, <1>11, <1>12, <2>0 DEF FlightInv
  <2>4. g.op = "rollback" => g.target \in DOMAIN deps' /\ deps'[g.target].build = g.build
                             /\ g.build.env = "production"
    BY <1>5, <2>0, <2>1 DEF Flight
  <2>5. /\ g.build \in builds'
        /\ g.build.env = "production" =>
             /\ Reviewable(g.build) /\ (g.op = "deploy" => g.build \in compliant')
             /\ g.at # "adapter" => g.refs.compliance = g.build
    BY <1>1, <2>0, <2>1 DEF Flight
  <2> QED
    BY <2>1, <2>4, <2>5 DEF Flight, Reviewable, Passed
<1>13. FlightInv'
  BY <1>11, <1>12 DEF FlightInv
<1>14. prop \in PropertyRow
  BY <1>a, <1>3 DEF TypeOK, HistoryInv
\* prop.status is one of the environments in use.
<1>15. f.build.env \in {"staging", "production"}
  BY <1>2, FlightTypes, BoundsAssumption
<1>16. /\ prop' \in PropertyRow /\ prop'.version = prop.version
       /\ prop'.domain = prop.domain /\ prop'.analytics = prop.analytics
  BY <1>1, <1>14, <1>15 DEF PropertyRow
<1>17. SnapshotOf(prop') = SnapshotOf(prop) /\ prop' # None /\ prop # None
  BY <1>14, <1>16, SnapshotsAgree, RowTypes
<1>18. HistoryInv'
  BY <1>a, <1>1, <1>16, <1>17 DEF HistoryInv, SnapshotOf
<1>19. TypeOK'
  BY <1>a, <1>1, <1>5, <1>11, <1>16 DEF TypeOK
<1>20. BuildInv'
  BY <1>1 DEF IndInv, BuildInv
<1>21. JobInv'
  BY <1>1, <1>17, JobsKept DEF IndInv
<1> QED
  BY <1>10, <1>13, <1>18, <1>19, <1>20, <1>21 DEF IndInv
----------------------------------------------------------------------------
(* What the deployed sites show.                                           *)

\* The deployed sites follow from the rows.
LEMMA SitesSame == deps' = deps => Deployed' = Deployed
BY DEF Deployed, Live

\* A step that touches neither files, statuses nor a change at work.
LEMMA QuietFiles ==
  ASSUME FileInv, UNCHANGED <<asg, deps, flight, shown, suspect, crossing>>,
         \A u \in Threads : Changing(u)' = Changing(u) /\ (Changing(u) => job'[u] = job[u])
  PROVE  FileInv'
<1>1. Deployed' = Deployed /\ Past' = Past
  BY SitesSame DEF Past
<1>2. Exposed' = Exposed /\ ActiveAssignment' = ActiveAssignment
  BY <1>1 DEF Exposed, ActiveAssignment
<1>3. ProviderInv' /\ SitesInv'
  BY <1>2 DEF FileInv, ProviderInv, SitesInv, Shows
<1>4. FreshInv'
  BY <1>1, <1>2 DEF FileInv, FreshInv, Fresh
<1>5. ASSUME NEW t \in Threads, Changing(t)' PROVE Covered(t)' /\ Alone(t)' /\ Locked(t)'
  <2>1. Changing(t) /\ job'[t] = job[t] /\ Covered(t) /\ Alone(t) /\ Locked(t)
    BY <1>5 DEF FileInv, ChangeInv
  <2>2. Covered(t)'
    BY <1>2, <2>1 DEF Covered
  <2>3. Alone(t)'
    BY <1>1, <2>1 DEF Alone
  <2>4. Locked(t)'
    BY <2>1 DEF Locked, Active
  <2> QED
    BY <2>2, <2>3, <2>4
<1>6. RowLocks'
  BY DEF FileInv, RowLocks, Locking
<1> QED
  BY <1>3, <1>4, <1>5, <1>6 DEF FileInv, ChangeInv

\* A request that is not a change at work begins or ends.
LEMMA QuietJob ==
  ASSUME FileInv, NEW t \in Threads, NEW j, job' = [job EXCEPT ![t] = j],
         job \in [Threads -> Jobs \cup {None}], ~ Changing(t),
         j = None \/ j.op # "provider" \/ j.at # "files",
         UNCHANGED <<asg, deps, flight, shown, suspect, crossing>>
  PROVE  FileInv'
<1>1. \A u \in Threads : u # t => job'[u] = job[u]
  OBVIOUS
<1>2. job'[t] = j
  OBVIOUS
<1>3. ~ Changing(t)'
  BY <1>2 DEF Changing
<1>4. \A u \in Threads : Changing(u)' = Changing(u) /\ (Changing(u) => job'[u] = job[u])
  BY <1>1, <1>3 DEF Changing
<1> QED
  BY <1>4, QuietFiles

\* A new assignment.
LEMMA AssignmentFiles ==
  ASSUME IndInv, FileInv, NEW a \in Assignments, CreateAssignment(a)
  PROVE  FileInv'
<1> USE DEF propertyVars, domainVars, siteVars, releaseVars
<1>1. /\ asg[a] = None /\ asg' = [asg EXCEPT ![a] = "candidate"]
      /\ UNCHANGED <<job, deps, flight, shown, suspect, crossing>>
  BY DEF CreateAssignment
<1>2. /\ asg'[a] = "candidate" /\ \A b \in Assignments : b # a => asg'[b] = asg[b]
      /\ asg[a] \notin {"active", "candidate", "pilot"}
  BY <1>1, NoneAssumption DEF IndInv, TypeOK, AssignmentStatus
<1>3. Active(asg)' = Active(asg)
  BY <1>2 DEF Active
<1>4. /\ ActiveAssignment' = ActiveAssignment /\ Deployed' = Deployed /\ Past' = Past
      /\ \A u \in Threads : Changing(u)' = Changing(u)
  <2>1. ActiveAssignment' = ActiveAssignment
    BY <1>3 DEF ActiveAssignment
  <2>2. Deployed' = Deployed
    BY <1>1, SitesSame
  <2>3. Past' = Past /\ \A u \in Threads : Changing(u)' = Changing(u)
    BY <1>1 DEF Past, Changing
  <2> QED
    BY <2>1, <2>2, <2>3
<1>5. Exposed' = Exposed
  BY <1>1, <1>4 DEF Exposed
<1>6. ProviderInv' /\ SitesInv'
  BY <1>1, <1>2, <1>4, <1>5 DEF FileInv, ProviderInv, SitesInv, Shows
<1>7. FreshInv' /\ RowLocks'
  BY <1>1, <1>4 DEF FileInv, FreshInv, Fresh, RowLocks, Locking
<1>8. ASSUME NEW t \in Threads, Changing(t)' PROVE Covered(t)' /\ Alone(t)' /\ Locked(t)'
  <2>1. Changing(t) /\ Covered(t) /\ Alone(t) /\ Locked(t)
    BY <1>4, <1>8 DEF FileInv, ChangeInv
  <2>2. job[t].new \in Assignments
    BY <2>1, JobTypes DEF IndInv, TypeOK, Changing
  <2>3. Covered(t)'
    BY <1>1, <1>5, <2>1 DEF Covered
  <2>4. Alone(t)'
    BY <1>1, <1>2, <1>4, <2>1, <2>2 DEF Alone
  <2>5. Locked(t)'
    BY <1>1, <1>2, <1>3, <2>1, <2>2 DEF Locked
  <2> QED
    BY <2>3, <2>4, <2>5
<1> QED
  BY <1>6, <1>7, <1>8 DEF FileInv, ChangeInv

\* Fewer deployments on their way, and no site that was not exposed before.
LEMMA FlightFiles ==
  ASSUME FileInv, UNCHANGED <<asg, job, shown, suspect>>,
         Past' \subseteq Past, \A q \in Past' : flight'[q] = flight[q],
         \A q \in Past' : q \in crossing.deployments => q \in crossing'.deployments,
         crossing'.changes = crossing.changes,
         Exposed' \subseteq Exposed, Deployed' \subseteq Deployed \/ Past # {}
  PROVE  FileInv'
<1>1. ActiveAssignment' = ActiveAssignment /\ \A u \in Threads : Changing(u)' = Changing(u)
  BY DEF ActiveAssignment, Changing
<1>2. ProviderInv' /\ SitesInv'
  BY <1>1 DEF FileInv, ProviderInv, SitesInv, Shows
<1>3. FreshInv'
  <2> SUFFICES ASSUME NEW q \in Past', q \notin crossing'.deployments
               PROVE  /\ \A t \in Threads : ~ Changing(t)'
                      /\ flight'[q].refs.assignment = ActiveAssignment'
    BY DEF FreshInv, Fresh
  <2>1. q \in Past /\ flight'[q] = flight[q] /\ q \notin crossing.deployments
    OBVIOUS
  <2> QED
    BY <1>1, <2>1 DEF FileInv, FreshInv, Fresh
<1>4. RowLocks'
  BY <1>1 DEF FileInv, RowLocks, Locking
<1>5. ASSUME NEW t \in Threads, Changing(t)' PROVE Covered(t)' /\ Alone(t)' /\ Locked(t)'
  <2>1. Changing(t) /\ Covered(t) /\ Alone(t) /\ Locked(t)
    BY <1>1, <1>5 DEF FileInv, ChangeInv
  <2>2. Covered(t)'
    BY <2>1 DEF Covered
  <2>3. Alone(t)'
    BY <1>1, <2>1 DEF Alone
  <2>4. Locked(t)'
    BY <2>1 DEF Locked, Active
  <2> QED
    BY <2>2, <2>3, <2>4
<1> QED
  BY <1>2, <1>3, <1>4, <1>5 DEF FileInv, ChangeInv

\* deploy and rollback start.
LEMMA StartFiles ==
  ASSUME IndInv, FileInv, NEW p \in Processes, NEW f,
         flight[p] = None, flight' = [flight EXCEPT ![p] = f], f.at = "adapter",
         UNCHANGED <<asg, job, deps, shown, suspect, crossing>>
  PROVE  FileInv'
<1>1. flight'[p] = f /\ \A q \in Processes : q # p => flight'[q] = flight[q]
  BY DEF IndInv, TypeOK
<1>2. Past' = Past /\ p \notin Past /\ Deployed' = Deployed
  BY <1>1, SitesSame DEF Past
<1>3. \A q \in Past' : flight'[q] = flight[q]
  BY <1>1, <1>2 DEF Past
<1>4. Exposed' \subseteq Exposed
  BY <1>2, <1>3 DEF Exposed
<1> QED
  BY <1>2, <1>3, <1>4, FlightFiles

\* A deployment fails.
LEMMA AbortFiles ==
  ASSUME IndInv, FileInv, NEW p \in Processes, AbortDeployment(p)
  PROVE  FileInv'
<1> USE DEF propertyVars, domainVars, siteVars, providerVars
<1>1. /\ flight' = [flight EXCEPT ![p] = None]
      /\ crossing' = [crossing EXCEPT !.deployments = @ \ {p}]
      /\ UNCHANGED <<asg, job, deps, shown, suspect>>
  BY DEF AbortDeployment
<1>2. flight'[p] = None /\ \A q \in Processes : q # p => flight'[q] = flight[q]
  BY <1>1 DEF IndInv, TypeOK
<1>3. /\ Past' \subseteq Past /\ p \notin Past' /\ Deployed' = Deployed
      /\ \A q \in Past' : flight'[q] = flight[q]
  BY <1>1, <1>2, SitesSame DEF Past
<1>4. crossing'.deployments = crossing.deployments \ {p} /\ crossing'.changes = crossing.changes
  BY <1>1 DEF IndInv, TypeOK
<1>5. Exposed' \subseteq Exposed
  BY <1>3 DEF Exposed
<1> QED
  BY <1>1, <1>3, <1>4, <1>5, FlightFiles

\* A deployment commits: its site was exposed before.
LEMMA CommitFiles ==
  ASSUME IndInv, FileInv, NEW p \in Processes, CommitDeployment(p)
  PROVE  FileInv'
<1> USE DEF domainVars, siteVars, providerVars
<1>0. PICK f : f = flight[p]
  OBVIOUS
<1>1. /\ f # None /\ f.at = "commit" /\ deps' = Append(Displaced(f), NewRow(f))
      /\ flight' = [flight EXCEPT ![p] = None]
      /\ crossing' = [crossing EXCEPT !.deployments = @ \ {p}]
      /\ UNCHANGED <<asg, job, shown, suspect>>
  BY <1>0 DEF CommitDeployment
<1>2. f \in Flights /\ deps \in Seq(DeploymentRow) /\ p \in Past
  BY <1>0, <1>1 DEF IndInv, TypeOK, Past
<1>3. flight'[p] = None /\ \A q \in Processes : q # p => flight'[q] = flight[q]
  BY <1>1 DEF IndInv, TypeOK
<1>4. /\ Past' \subseteq Past /\ p \notin Past' /\ \A q \in Past' : flight'[q] = flight[q]
  BY <1>3 DEF Past
<1>5. crossing'.deployments = crossing.deployments \ {p} /\ crossing'.changes = crossing.changes
  BY <1>1 DEF IndInv, TypeOK
<1>6. PICK n : n = Len(deps) + 1
  OBVIOUS
<1>7. /\ DOMAIN deps' = DOMAIN deps \cup {n} /\ deps'[n] = NewRow(f)
      /\ \A i \in DOMAIN deps :
            /\ deps'[i].build = deps[i].build
            /\ deps'[i].status = IF i = f.prior THEN "rolled_back" ELSE deps[i].status
  BY <1>1, <1>2, <1>6, RowsAfter
<1>8. Deployed' \subseteq Deployed \cup {f.build}
  <2> SUFFICES ASSUME NEW b \in Deployed' PROVE b \in Deployed \cup {f.build}
    OBVIOUS
  <2>1. PICK env \in Environments : \E i \in DOMAIN deps' :
           deps'[i].build = b /\ deps'[i].build.env = env /\ deps'[i].status = "deployed"
    BY DEF Deployed, Live
  <2>2. PICK i \in DOMAIN deps' :
           deps'[i].build = b /\ deps'[i].build.env = env /\ deps'[i].status = "deployed"
    BY <2>1
  <2>3. CASE i = n
    BY <1>7, <2>2, <2>3 DEF NewRow
  <2>4. CASE i \in DOMAIN deps
    <3>1. deps[i].build = b /\ deps[i].build.env = env /\ deps[i].status = "deployed"
      BY <1>7, <2>2, <2>4
    <3>2. i \in Live(env)
      BY <2>4, <3>1 DEF Live
    <3> QED
      BY <3>1, <3>2 DEF Deployed
  <2> QED
    BY <1>7, <2>3, <2>4
<1>9. Exposed' \subseteq Exposed
  BY <1>0, <1>2, <1>4, <1>8 DEF Exposed
<1> QED
  BY <1>1, <1>2, <1>4, <1>5, <1>9, FlightFiles

\* The adapter replaces a destination and the active provider is read.
LEMMA PublishFiles ==
  ASSUME IndInv, FileInv, NEW p \in Processes, Publish(p)
  PROVE  FileInv'
<1> USE DEF propertyVars, domainVars, siteVars, providerVars
<1>0. PICK f : f = flight[p]
  OBVIOUS
<1>1. /\ f # None /\ f.at = "adapter"
      /\ flight' = [flight EXCEPT ![p].at = "file", ![p].refs = Refs(f)]
      /\ shown' = [b \in DOMAIN shown \cup {f.build} |-> IF b = f.build THEN None ELSE shown[b]]
      /\ suspect' = suspect \cup {f.build}
      /\ UNCHANGED <<asg, deps, job>>
  BY <1>0 DEF Publish
<1>2. f \in Flights /\ flight \in [Processes -> Flights \cup {None}]
  BY <1>0, <1>1 DEF IndInv, TypeOK
<1>3. /\ flight'[p].at = "file" /\ flight'[p].build = f.build /\ flight'[p] # None
      /\ flight'[p].refs = Refs(f) /\ \A q \in Processes : q # p => flight'[q] = flight[q]
  <2> DEFINE g == [f EXCEPT !.at = "file", !.refs = Refs(f)]
  <2>1. flight'[p] = g /\ \A q \in Processes : q # p => flight'[q] = flight[q]
    BY <1>0, <1>1, <1>2
  <2>2. g.at = "file" /\ g.build = f.build /\ g.refs = Refs(f)
    BY <1>2 DEF Flights
  <2>3. g \in Flights
    BY <1>0, <1>1, <1>2, RefsTypes DEF Flights
  <2>4. g # None
    BY <2>3, FlightIsNotNone
  <2> HIDE DEF g
  <2> QED
    BY <2>1, <2>2, <2>4
<1>4. Past' = Past \cup {p} /\ p \notin Past /\ Deployed' = Deployed
  BY <1>0, <1>1, <1>3, SitesSame DEF Past
<1>5. /\ \A u \in Threads : Changing(u)' = Changing(u)
      /\ ActiveAssignment' = ActiveAssignment /\ Refs(f).assignment = ActiveAssignment
  BY <1>1 DEF Changing, ActiveAssignment, Refs
<1>6. /\ crossing'.changes = crossing.changes \cup {t \in Threads : Changing(t)}
      /\ crossing'.deployments = crossing.deployments
            \cup {q \in {p} : {t \in Threads : Changing(t)} # {}}
  BY DEF Publish
<1>7. Exposed' = Exposed \cup {f.build}
  <2>1. \A q \in Past : flight'[q] = flight[q]
    BY <1>3, <1>4 DEF Past
  <2> QED
    BY <1>3, <1>4, <2>1 DEF Exposed
<1>8. DOMAIN shown' = DOMAIN shown \cup {f.build}
      /\ \A b \in DOMAIN shown : b # f.build => shown'[b] = shown[b]
  BY <1>1
<1>9. ProviderInv' /\ RowLocks'
  BY <1>1, <1>5 DEF FileInv, ProviderInv, RowLocks, Locking
<1>10. SitesInv'
  BY <1>1, <1>5, <1>7, <1>8 DEF FileInv, SitesInv, Shows
<1>11. FreshInv'
  <2>1. Fresh(p)'
    BY <1>3, <1>5, <1>6 DEF Fresh
  <2>2. ASSUME NEW q \in Past PROVE Fresh(q)'
    BY <1>3, <1>4, <1>5, <1>6 DEF FileInv, FreshInv, Fresh, Past
  <2> QED
    BY <1>4, <2>1, <2>2 DEF FreshInv
<1>12. ASSUME NEW t \in Threads, Changing(t)' PROVE Covered(t)' /\ Alone(t)' /\ Locked(t)'
  <2>1. Changing(t) /\ Covered(t) /\ Locked(t) /\ t \in crossing'.changes
    BY <1>5, <1>6, <1>12 DEF FileInv, ChangeInv
  <2>2. Covered(t)'
    BY <1>1, <1>7, <1>8, <2>1 DEF Covered
  <2>3. Alone(t)'
    BY <2>1 DEF Alone
  <2>4. Locked(t)'
    BY <1>1, <2>1 DEF Locked, Active
  <2> QED
    BY <2>2, <2>3, <2>4
<1> QED
  BY <1>9, <1>10, <1>11, <1>12 DEF FileInv, ChangeInv

\* A deployment writes the provider it read.
LEMMA WriteFiles ==
  ASSUME IndInv, FileInv, NEW p \in Processes, WriteFile(p)
  PROVE  FileInv'
<1> USE DEF propertyVars, domainVars, siteVars, providerVars
<1>0. PICK f : f = flight[p]
  OBVIOUS
<1>1. /\ f # None /\ f.at = "file"
      /\ flight' = [flight EXCEPT ![p].at = "commit"]
      /\ shown' = [shown EXCEPT ![f.build] = f.refs.assignment]
      /\ suspect' = IF p \in crossing.deployments THEN suspect \cup {f.build}
                    ELSE suspect \ {f.build}
      /\ UNCHANGED <<asg, deps, job, crossing>>
  BY <1>0 DEF WriteFile
<1>2. f \in Flights /\ flight \in [Processes -> Flights \cup {None}] /\ p \in Past
  BY <1>0, <1>1 DEF IndInv, TypeOK, Past
<1>3. /\ flight'[p].at = "commit" /\ flight'[p].build = f.build /\ flight'[p] # None
      /\ flight'[p].refs = f.refs /\ \A q \in Processes : q # p => flight'[q] = flight[q]
  <2> DEFINE g == [f EXCEPT !.at = "commit"]
  <2>1. flight'[p] = g /\ \A q \in Processes : q # p => flight'[q] = flight[q]
    BY <1>0, <1>1, <1>2
  <2>2. g.at = "commit" /\ g.build = f.build /\ g.refs = f.refs
    BY <1>2 DEF Flights
  <2>3. g \in Flights
    BY <1>2 DEF Flights
  <2>4. g # None
    BY <2>3, FlightIsNotNone
  <2> HIDE DEF g
  <2> QED
    BY <2>1, <2>2, <2>4
<1>4. Past' = Past /\ Deployed' = Deployed
  BY <1>1, <1>2, <1>3, SitesSame DEF Past
<1>5. /\ ActiveAssignment' = ActiveAssignment
      /\ \A u \in Threads : Changing(u)' = Changing(u)
  BY <1>1 DEF Changing, ActiveAssignment
<1>6. \A q \in Past : flight'[q].build = flight[q].build /\ flight'[q].refs = flight[q].refs
  BY <1>0, <1>3 DEF Past
<1>7. Exposed' = Exposed /\ f.build \in Exposed
  BY <1>0, <1>2, <1>4, <1>6 DEF Exposed
<1>8. f.build \in DOMAIN shown /\ DOMAIN shown' = DOMAIN shown
      /\ shown'[f.build] = f.refs.assignment
      /\ \A b \in DOMAIN shown : b # f.build => shown'[b] = shown[b]
  <2>1. f.build \in DOMAIN shown
    BY <1>7 DEF FileInv, SitesInv, Shows
  <2>2. shown \in [DOMAIN shown -> Assignments \cup {None}]
    BY DEF IndInv, TypeOK
  <2> QED
    BY <1>1, <2>1, <2>2
<1>9. ProviderInv' /\ RowLocks'
  BY <1>1, <1>5 DEF FileInv, ProviderInv, RowLocks, Locking
<1>10. FreshInv'
  <2>0. FreshInv
    BY DEF FileInv
  <2>1. ASSUME NEW q \in Past', q \notin crossing'.deployments
        PROVE  Fresh(q)'
    <3>1. q \in Past /\ q \notin crossing.deployments
      BY <1>1, <1>4, <2>1
    <3>2. Fresh(q)
      BY <2>0, <3>1 DEF FreshInv
    <3>3. flight'[q].refs = flight[q].refs
      BY <1>6, <3>1
    <3>4. flight'[q].refs.assignment = ActiveAssignment'
      BY <1>5, <3>1, <3>2, <3>3 DEF Fresh
    <3>5. ASSUME NEW t \in Threads PROVE ~ Changing(t)'
      <4>1. ~ Changing(t)
        BY <3>1, <3>2 DEF Fresh
      <4> QED
        BY <1>1, <4>1 DEF Changing
    <3> QED
      BY <3>4, <3>5 DEF Fresh
  <2> QED
    BY <2>1 DEF FreshInv, Fresh
<1>11. p \notin crossing.deployments =>
         f.refs.assignment = ActiveAssignment /\ \A t \in Threads : ~ Changing(t)
  <2>0. FreshInv
    BY DEF FileInv
  <2>1. Fresh(p)
    BY <1>2, <2>0 DEF FreshInv
  <2> QED
    BY <1>0, <2>1 DEF Fresh
<1>12. SitesInv'
  BY <1>1, <1>5, <1>7, <1>8, <1>11 DEF FileInv, SitesInv, Shows
<1>13. ASSUME NEW t \in Threads, Changing(t)' PROVE Covered(t)' /\ Alone(t)' /\ Locked(t)'
  <2>1. Changing(t) /\ Covered(t) /\ Locked(t) /\ Alone(t) /\ p \in crossing.deployments
    BY <1>5, <1>11, <1>13 DEF FileInv, ChangeInv
  <2>2. Covered(t)'
    BY <1>1, <1>7, <1>8, <2>1 DEF Covered
  <2>3. t \in crossing.changes
    BY <1>2, <2>1 DEF Alone
  <2>4. Alone(t)'
    BY <1>1, <2>3 DEF Alone
  <2>5. Locked(t)'
    BY <1>1, <2>1 DEF Locked, Active
  <2> QED
    BY <2>2, <2>4, <2>5
<1> QED
  BY <1>9, <1>10, <1>12, <1>13 DEF FileInv, ChangeInv

\* A change selects its sites.
LEMMA SelectFiles ==
  ASSUME IndInv, FileInv, NEW t \in Threads, NEW old, SelectSites(t, old),
         job[t] # None, job[t].op = "provider", job[t].at = "rows",
         old # job[t].new =>
            /\ asg[job[t].new] \in {"candidate", "pilot"} /\ Active(asg) = {old} \ {None}
            /\ \A u \in Threads : ~ Locking(u)
  PROVE  FileInv'
<1> USE DEF propertyVars, domainVars, siteVars, providerVars
<1>0. PICK j : j = job[t]
  OBVIOUS
<1> DEFINE others == {u \in Threads \ {t} : Changing(u)}
           stale == old = j.new /\ asg[old] # "active"
<1>1. /\ job' = [job EXCEPT ![t].at = "files", ![t].old = old,
                            ![t].sites = Deployed, ![t].todo = Deployed]
      /\ crossing' = [deployments |-> crossing.deployments \cup Past,
                      changes |-> crossing.changes \cup others
                                    \cup {u \in {t} : others # {} \/ Past # {} \/ stale}]
      /\ suspect' = suspect \cup {flight[q].build : q \in Past}
      /\ UNCHANGED <<asg, deps, shown, flight>>
  BY <1>0 DEF SelectSites
<1>2. job \in [Threads -> Jobs \cup {None}] /\ j \in Jobs /\ j.op = "provider"
  BY <1>0 DEF IndInv, TypeOK
<1>3. /\ job'[t].op = "provider" /\ job'[t].at = "files" /\ job'[t].old = old
      /\ job'[t].sites = Deployed /\ job'[t].todo = Deployed /\ job'[t].new = j.new
      /\ \A u \in Threads : u # t => job'[u] = job[u]
  <2> DEFINE g == [j EXCEPT !.at = "files", !.old = old, !.sites = Deployed, !.todo = Deployed]
  <2>1. job'[t] = g /\ \A u \in Threads : u # t => job'[u] = job[u]
    BY <1>0, <1>1, <1>2
  <2>2. /\ g.op = "provider" /\ g.at = "files" /\ g.old = old
        /\ g.sites = Deployed /\ g.todo = Deployed /\ g.new = j.new
    BY <1>2 DEF Jobs
  <2> HIDE DEF g
  <2> QED
    BY <2>1, <2>2
<1>4. ~ Changing(t) /\ \A u \in Threads : u # t => Changing(u)' = Changing(u)
  BY <1>3 DEF Changing
<1>5. Past' = Past /\ Deployed' = Deployed /\ ActiveAssignment' = ActiveAssignment
  BY <1>1, SitesSame DEF Past, ActiveAssignment
<1>6. Exposed' = Exposed
  BY <1>1, <1>5 DEF Exposed
<1>7. crossing'.deployments = crossing.deployments \cup Past
      /\ crossing'.changes = crossing.changes \cup others
                               \cup {u \in {t} : others # {} \/ Past # {} \/ stale}
  BY <1>1
<1>8. ProviderInv' /\ SitesInv'
  BY <1>1, <1>5, <1>6 DEF FileInv, ProviderInv, SitesInv, Shows
<1>9. FreshInv'
  BY <1>5, <1>7 DEF FreshInv, Fresh
<1>10. RowLocks'
  <2>1. \A u \in Threads : u # t => Locking(u)' = Locking(u)
    BY <1>3, <1>4 DEF Locking
  <2>2. Locking(t)' => \A u \in Threads : ~ Locking(u)
    BY <1>0, <1>3 DEF Locking
  <2> QED
    BY <2>1, <2>2 DEF FileInv, RowLocks
<1>11. Covered(t)' /\ Alone(t)' /\ Locked(t)'
  <2>1. Deployed \subseteq DOMAIN shown
    BY DEF FileInv, SitesInv, Shows, Exposed
  <2>2. Covered(t)'
    BY <1>1, <1>3, <1>6, <2>1 DEF Covered, Exposed
  <2>3. Alone(t)'
    <3> SUFFICES ASSUME t \notin crossing'.changes
                 PROVE  /\ Past' = {} /\ \A u \in Threads : Changing(u)' => u = t
                        /\ Deployed' \subseteq job'[t].sites
                        /\ \A b \in job'[t].sites : b \in job'[t].todo \/ shown'[b] = job'[t].new
                        /\ job'[t].old = job'[t].new => asg'[job'[t].new] = "active"
      BY DEF Alone
    <3>1. others = {} /\ Past = {} /\ ~ stale
      BY <1>7
    <3>2. \A u \in Threads : Changing(u)' => u = t
      BY <1>4, <3>1
    <3>3. old = j.new => asg[j.new] = "active"
      BY <3>1
    <3> HIDE DEF others, stale
    <3> QED
      BY <1>1, <1>3, <1>5, <3>1, <3>2, <3>3
  <2>4. Locked(t)'
    BY <1>0, <1>1, <1>3 DEF Locked, Active
  <2> QED
    BY <2>2, <2>3, <2>4
<1>12. ASSUME NEW u \in Threads, u # t, Changing(u)' PROVE Covered(u)' /\ Alone(u)' /\ Locked(u)'
  <2>1. Changing(u) /\ Covered(u) /\ Locked(u) /\ job'[u] = job[u] /\ u \in crossing'.changes
    BY <1>3, <1>4, <1>7, <1>12 DEF FileInv, ChangeInv
  <2>2. Covered(u)'
    BY <1>1, <1>6, <2>1 DEF Covered
  <2>3. Alone(u)'
    BY <2>1 DEF Alone
  <2>4. Locked(u)'
    BY <1>1, <2>1 DEF Locked, Active
  <2> QED
    BY <2>2, <2>3, <2>4
<1> QED
  BY <1>8, <1>9, <1>10, <1>11, <1>12 DEF FileInv, ChangeInv

\* A change writes a site.
LEMMA RewriteFiles ==
  ASSUME IndInv, FileInv, NEW t \in Threads, NEW b \in builds, RewriteFile(t, b)
  PROVE  FileInv'
<1> USE DEF propertyVars, domainVars, siteVars, providerVars
<1>0. PICK j : j = job[t]
  OBVIOUS
<1>1. /\ Changing(t) /\ b \in j.todo /\ job' = [job EXCEPT ![t].todo = @ \ {b}]
      /\ shown' = [shown EXCEPT ![b] = j.new] /\ suspect' = suspect \cup {b}
      /\ UNCHANGED <<asg, deps, flight, crossing>>
  BY <1>0 DEF RewriteFile
<1>2. job \in [Threads -> Jobs \cup {None}] /\ j \in Jobs /\ j.op = "provider"
  BY <1>0, <1>1 DEF IndInv, TypeOK, Changing
<1>3. /\ job'[t].op = "provider" /\ job'[t].at = "files" /\ job'[t].old = j.old
      /\ job'[t].sites = j.sites /\ job'[t].todo = j.todo \ {b} /\ job'[t].new = j.new
      /\ \A u \in Threads : u # t => job'[u] = job[u]
  <2> DEFINE g == [j EXCEPT !.todo = @ \ {b}]
  <2>1. job'[t] = g /\ \A u \in Threads : u # t => job'[u] = job[u]
    BY <1>0, <1>1, <1>2
  <2>2. /\ g.op = "provider" /\ g.at = j.at /\ g.old = j.old
        /\ g.sites = j.sites /\ g.todo = j.todo \ {b} /\ g.new = j.new
    BY <1>2 DEF Jobs
  <2>3. j.at = "files"
    BY <1>0, <1>1 DEF Changing
  <2> HIDE DEF g
  <2> QED
    BY <2>1, <2>2, <2>3
<1>4. \A u \in Threads : Changing(u)' => Changing(u)
  BY <1>1, <1>3 DEF Changing
<1>5. Past' = Past /\ Deployed' = Deployed /\ ActiveAssignment' = ActiveAssignment
  BY <1>1, SitesSame DEF Past, ActiveAssignment
<1>6. Exposed' = Exposed
  BY <1>1, <1>5 DEF Exposed
<1>7. Covered(t) /\ Alone(t) /\ Locked(t)
  BY <1>1 DEF FileInv, ChangeInv
<1>8. /\ b \in DOMAIN shown /\ DOMAIN shown' = DOMAIN shown /\ shown'[b] = j.new
      /\ \A c \in DOMAIN shown : c # b => shown'[c] = shown[c]
  <2>1. b \in DOMAIN shown
    BY <1>0, <1>1, <1>7 DEF Covered
  <2>2. shown \in [DOMAIN shown -> Assignments \cup {None}]
    BY DEF IndInv, TypeOK
  <2> QED
    BY <1>1, <2>1, <2>2
<1>9. ProviderInv' /\ SitesInv'
  BY <1>1, <1>5, <1>6, <1>8 DEF FileInv, ProviderInv, SitesInv, Shows
<1>10. FreshInv'
  BY <1>1, <1>4, <1>5 DEF FileInv, FreshInv, Fresh
<1>11. RowLocks'
  <2>1. \A u \in Threads : Locking(u)' => Locking(u)
    BY <1>0, <1>3, <1>4 DEF Locking
  <2> QED
    BY <2>1 DEF FileInv, RowLocks
<1>12. Covered(t)' /\ Alone(t)' /\ Locked(t)'
  <2>1. Covered(t)'
    BY <1>0, <1>1, <1>3, <1>6, <1>7, <1>8 DEF Covered
  <2>2. Alone(t)'
    BY <1>0, <1>1, <1>3, <1>4, <1>5, <1>7, <1>8 DEF Alone, Covered
  <2>3. Locked(t)'
    BY <1>0, <1>1, <1>3, <1>7 DEF Locked, Active
  <2> QED
    BY <2>1, <2>2, <2>3
<1>13. ASSUME NEW u \in Threads, u # t, Changing(u)' PROVE Covered(u)' /\ Alone(u)' /\ Locked(u)'
  <2>1. Changing(u) /\ Covered(u) /\ Alone(u) /\ Locked(u) /\ job'[u] = job[u]
    BY <1>3, <1>4, <1>13 DEF FileInv, ChangeInv
  <2>2. u \in crossing.changes
    BY <1>1, <1>13, <2>1 DEF Alone
  <2>3. Covered(u)'
    BY <1>1, <1>6, <1>8, <2>1 DEF Covered
  <2>4. Alone(u)'
    BY <1>1, <2>2 DEF Alone
  <2>5. Locked(u)'
    BY <1>1, <2>1 DEF Locked, Active
  <2> QED
    BY <2>3, <2>4, <2>5
<1> QED
  BY <1>9, <1>10, <1>11, <1>12, <1>13 DEF FileInv, ChangeInv

\* What a change that ends leaves.
LEMMA EndFiles ==
  ASSUME IndInv, FileInv, NEW t \in Threads, EndChange(t), Changing(t),
         asg' # asg => Locking(t), ProviderInv', SitesInv', suspect' = suspect \/ t \notin crossing.changes
  PROVE  FileInv'
<1>1. /\ job' = [job EXCEPT ![t] = None]
      /\ crossing' = [crossing EXCEPT !.changes = @ \ {t}]
      /\ UNCHANGED <<deps, shown, flight>>
  BY DEF EndChange
<1>2. job'[t] = None /\ \A u \in Threads : u # t => job'[u] = job[u]
  BY <1>1 DEF IndInv, TypeOK
<1>3. \A u \in Threads : Changing(u)' => u # t /\ Changing(u) /\ job'[u] = job[u]
  BY <1>2 DEF Changing
<1>4. crossing'.deployments = crossing.deployments /\ crossing'.changes = crossing.changes \ {t}
  BY <1>1 DEF IndInv, TypeOK
<1>5. Past' = Past /\ Deployed' = Deployed
  BY <1>1, SitesSame DEF Past
<1>6. Exposed' = Exposed
  BY <1>1, <1>5 DEF Exposed
\* No deployment is fresh beside a change.
<1>7. FreshInv'
  <2>1. Past \subseteq crossing.deployments
    BY DEF FileInv, FreshInv, Fresh
  <2> QED
    BY <1>4, <1>5, <2>1 DEF FreshInv, Fresh
<1>8. RowLocks'
  <2>1. \A u \in Threads : Locking(u)' => Locking(u)
    BY <1>3 DEF Locking
  <2> QED
    BY <2>1 DEF FileInv, RowLocks
<1>9. ASSUME NEW u \in Threads, Changing(u)' PROVE Covered(u)' /\ Alone(u)' /\ Locked(u)'
  <2>1. /\ u # t /\ Changing(u) /\ job'[u] = job[u] /\ Covered(u) /\ Alone(u) /\ Locked(u)
        /\ Alone(t)
    BY <1>3, <1>9 DEF FileInv, ChangeInv
  <2>2. u \in crossing.changes /\ t \in crossing.changes
    BY <2>1 DEF Alone
  <2>3. Covered(u)'
    BY <1>1, <1>6, <2>1, <2>2 DEF Covered
  <2>4. Alone(u)'
    BY <1>4, <2>1, <2>2 DEF Alone
  <2>5. Locked(u)'
    <3>1. CASE job[u].old = job[u].new
      BY <2>1, <3>1 DEF Locked
    <3>2. CASE job[u].old # job[u].new
      <4>1. Locking(u)
        BY <2>1, <3>2 DEF Locking
      <4>2. asg' = asg
        BY <2>1, <4>1 DEF FileInv, RowLocks
      <4> QED
        BY <2>1, <4>2 DEF Locked, Active
    <3> QED
      BY <3>1, <3>2
  <2> QED
    BY <2>3, <2>4, <2>5
<1> QED
  BY <1>7, <1>8, <1>9 DEF FileInv, ChangeInv

\* A change commits or fails.
LEMMA ChangeFiles ==
  ASSUME IndInv, FileInv, NEW t \in Threads, CommitChange(t) \/ FailChange(t)
  PROVE  FileInv'
<1>0. PICK j : j = job[t]
  OBVIOUS
<1>1. Changing(t) /\ Covered(t) /\ Alone(t) /\ Locked(t) /\ EndChange(t)
  BY DEF FileInv, ChangeInv, CommitChange, FailChange
<1>2. UNCHANGED <<deps, shown, flight>>
  BY <1>1 DEF EndChange
<1>3. Exposed' = Exposed
  BY <1>2, SitesSame DEF Exposed, Past
<1>4. CASE FailChange(t)
  <2>1. asg' = asg /\ suspect' = suspect
    BY <1>4 DEF FailChange
  <2>2. ProviderInv' /\ SitesInv'
    BY <1>2, <1>3, <2>1 DEF FileInv, ProviderInv, SitesInv, Shows, ActiveAssignment
  <2> QED
    BY <1>1, <2>1, <2>2, EndFiles
<1>5. CASE CommitChange(t)
  <2>1. /\ j.todo = {}
        /\ asg' = IF Locking(t)
                  THEN [a \in Assignments |-> IF a = j.new THEN "active"
                                              ELSE IF a = j.old THEN "replaced" ELSE asg[a]]
                  ELSE asg
        /\ suspect' = IF t \in crossing.changes THEN suspect ELSE suspect \ j.sites
    BY <1>0, <1>5 DEF CommitChange
  <2>2. j.new \in Assignments
    BY <1>0, <1>1, JobTypes DEF IndInv, TypeOK, Changing
  <2>3. ProviderInv' /\ (Locking(t) => asg'[j.new] = "active")
    <3>1. CASE Locking(t)
      <4>1. Active(asg) = {j.old} \ {None}
        BY <1>0, <1>1, <3>1 DEF Locked, Locking
      <4>2. \A a \in Assignments : asg'[a] = "active" => a = j.new
        BY <2>1, <3>1, <4>1 DEF Active
      <4> QED
        BY <2>1, <2>2, <3>1, <4>2 DEF ProviderInv
    <3>2. CASE ~ Locking(t)
      BY <2>1, <3>2 DEF FileInv, ProviderInv
    <3> QED
      BY <3>1, <3>2
  <2>4. t \notin crossing.changes => ActiveAssignment' = j.new
    <3> SUFFICES ASSUME t \notin crossing.changes PROVE ActiveAssignment' = j.new
      OBVIOUS
    <3>1. asg'[j.new] = "active"
      BY <1>0, <1>1, <2>1, <2>3 DEF Alone, Locking
    <3>2. {a \in Assignments : asg'[a] = "active"} = {j.new}
      BY <2>2, <2>3, <3>1 DEF ProviderInv
    <3> QED
      BY <3>2 DEF ActiveAssignment, Active
  <2>5. SitesInv'
    <3>1. Exposed \subseteq DOMAIN shown
      BY DEF FileInv, SitesInv, Shows
    <3>2. CASE t \in crossing.changes
      <4>1. Exposed \subseteq suspect'
        BY <1>0, <1>1, <2>1, <3>2 DEF Covered
      <4> QED
        BY <1>2, <1>3, <3>1, <4>1 DEF SitesInv, Shows
    <3>3. CASE t \notin crossing.changes
      <4>1. Exposed \subseteq j.sites
        BY <1>0, <1>1, <3>3 DEF Alone, Exposed
      <4>2. \A b \in j.sites : shown[b] = j.new
        BY <1>0, <1>1, <2>1, <3>3 DEF Alone
      <4> QED
        BY <1>2, <1>3, <2>4, <3>1, <3>3, <4>1, <4>2 DEF SitesInv, Shows
    <3> QED
      BY <3>2, <3>3
  <2>6. asg' # asg => Locking(t)
    BY <2>1
  <2>7. suspect' = suspect \/ t \notin crossing.changes
    BY <2>1
  <2> QED
    BY <1>1, <2>3, <2>5, <2>6, <2>7, EndFiles
<1> QED
  BY <1>4, <1>5

\* The requests on a thread.
LEMMA ThreadFiles ==
  ASSUME IndInv, FileInv, NEW t \in Threads, ThreadStep(t)
  PROVE  FileInv'
<1> USE DEF propertyVars, domainVars, siteVars, providerVars, releaseVars
<1>a. job \in [Threads -> Jobs \cup {None}]
  BY DEF IndInv, TypeOK
<1>1. ASSUME NEW j, LoadEdit(t, j), j.op # "provider" PROVE FileInv'
  <2>1. /\ job[t] = None /\ job' = [job EXCEPT ![t] = j]
        /\ UNCHANGED <<asg, deps, flight, shown, suspect, crossing>>
    BY <1>1 DEF LoadEdit
  <2> QED
    BY <1>a, <1>1, <2>1, QuietJob DEF Changing
<1>2. ASSUME LoadUpdate(t) PROVE FileInv'
  BY <1>1, <1>2 DEF LoadUpdate
<1>3. ASSUME NEW i, LoadVerifyDns(t, i) PROVE FileInv'
  BY <1>1, <1>3 DEF LoadVerifyDns
<1>4. ASSUME LoadConfig(t) PROVE FileInv'
  BY <1>1, <1>4 DEF LoadConfig
<1>5. ASSUME NEW k, NEW approved, LoadReviewConfig(t, k, approved) PROVE FileInv'
  <2> DEFINE j == [op |-> "review", config |-> k, approved |-> approved,
                   seen |-> config, active |-> prop.active]
  <2>1. /\ job[t] = None /\ job' = [job EXCEPT ![t] = j] /\ j.op # "provider"
        /\ UNCHANGED <<asg, deps, flight, shown, suspect, crossing>>
    BY <1>5 DEF LoadReviewConfig
  <2> HIDE DEF j
  <2> QED
    BY <1>a, <2>1, QuietJob DEF Changing
<1>6. ASSUME CommitEdit(t) \/ CommitReviewConfig(t) PROVE FileInv'
  <2>1. /\ job[t].op # "provider" /\ job' = [job EXCEPT ![t] = None]
        /\ UNCHANGED <<asg, deps, flight, shown, suspect, crossing>>
    BY <1>6 DEF CommitEdit, CommitReviewConfig
  <2> QED
    BY <1>a, <2>1, QuietJob DEF Changing
<1>7. ASSUME NEW a, NEW old, LoadChange(t, a, old) PROVE FileInv'
  <2> DEFINE j == [op |-> "provider", at |-> "rows", new |-> a, old |-> old,
                   sites |-> {}, todo |-> {}]
  <2>1. /\ job[t] = None /\ job' = [job EXCEPT ![t] = j] /\ j.at # "files"
        /\ UNCHANGED <<asg, deps, flight, shown, suspect, crossing>>
    BY <1>7 DEF LoadChange
  <2> HIDE DEF j
  <2> QED
    BY <1>a, <2>1, QuietJob DEF Changing
<1>8. ASSUME NEW a \in Assignments, LoadActivate(t, a) \/ LoadReplace(t, a) PROVE FileInv'
  BY <1>7, <1>8 DEF LoadActivate, LoadReplace
<1>9. ASSUME FlushChange(t) PROVE FileInv'
  <2>1. /\ job[t] # None /\ job[t].op = "provider" /\ job[t].at = "rows"
        /\ \/ /\ job[t].old # job[t].new /\ Allowed(job[t]) /\ SelectSites(t, job[t].old)
              /\ \A u \in Threads : ~ Locking(u)
           \/ SelectSites(t, job[t].new)
           \/ /\ job' = [job EXCEPT ![t] = None]
              /\ UNCHANGED <<propertyVars, domainVars, siteVars, providerVars, releaseVars>>
    BY <1>9 DEF FlushChange
  <2>2. ASSUME job' = [job EXCEPT ![t] = None],
               UNCHANGED <<propertyVars, domainVars, siteVars, providerVars, releaseVars>>
        PROVE  FileInv'
    BY <1>a, <2>1, <2>2, QuietJob DEF Changing
  <2>3. ASSUME job[t].old # job[t].new, Allowed(job[t]), SelectSites(t, job[t].old),
               \A u \in Threads : ~ Locking(u)
        PROVE  FileInv'
    <3>1. asg[job[t].new] \in {"candidate", "pilot"} /\ Active(asg) = {job[t].old} \ {None}
      BY <2>3 DEF Allowed
    <3> QED
      BY <2>1, <2>3, <3>1, SelectFiles
  <2>4. ASSUME SelectSites(t, job[t].new) PROVE FileInv'
    BY <2>1, <2>4, SelectFiles
  <2> QED
    BY <2>1, <2>2, <2>3, <2>4
<1> QED
  BY <1>2, <1>3, <1>4, <1>5, <1>6, <1>8, <1>9, RewriteFiles, ChangeFiles DEF ThreadStep

\* Every step.
LEMMA FileStep == IndInv /\ FileInv /\ [Next]_vars => FileInv'
<1> SUFFICES ASSUME IndInv, FileInv, [Next]_vars PROVE FileInv'
  OBVIOUS
<1> USE DEF propertyVars, domainVars, siteVars, providerVars, releaseVars
<1>1. ASSUME UNCHANGED <<job, asg, deps, flight, shown, suspect, crossing>> PROVE FileInv'
  <2>1. \A u \in Threads : Changing(u)' = Changing(u) /\ (Changing(u) => job'[u] = job[u])
    BY <1>1 DEF Changing
  <2> QED
    BY <1>1, <2>1, QuietFiles
<1>2. ASSUME NEW p \in Processes, DeploymentStep(p) PROVE FileInv'
  <2>1. ASSUME NEW b \in builds, NEW pilot \in BOOLEAN, StartDeploy(p, b, pilot) PROVE FileInv'
    <3> DEFINE f == [op |-> "deploy", at |-> "adapter", build |-> b,
                     prior |-> Newest(Live(b.env)), target |-> 0, refs |-> NoRefs]
    <3>1. /\ flight[p] = None /\ flight' = [flight EXCEPT ![p] = f] /\ f.at = "adapter"
          /\ UNCHANGED <<asg, job, deps, shown, suspect, crossing>>
      BY <2>1 DEF StartDeploy
    <3> HIDE DEF f
    <3> QED
      BY <3>1, StartFiles
  <2>2. ASSUME NEW target \in 1 .. MaxDeployments, StartRollback(p, target) PROVE FileInv'
    <3> DEFINE f == [op |-> "rollback", at |-> "adapter", build |-> deps[target].build,
                     prior |-> Newest(Live("production")), target |-> target, refs |-> NoRefs]
    <3>1. /\ flight[p] = None /\ flight' = [flight EXCEPT ![p] = f] /\ f.at = "adapter"
          /\ UNCHANGED <<asg, job, deps, shown, suspect, crossing>>
      BY <2>2 DEF StartRollback
    <3> HIDE DEF f
    <3> QED
      BY <3>1, StartFiles
  <2> QED
    BY <1>2, <2>1, <2>2, PublishFiles, WriteFiles, CommitFiles, AbortFiles DEF DeploymentStep
<1>3. ASSUME \/ \E verified \in BOOLEAN : CreateProperty(verified)
             \/ GenerateCandidates \/ CreateAsset \/ ReviewAsset \/ RoutingHealth
             \/ ReviewOpportunity
             \/ \E d \in Domains : DecideCandidate(d) \/ CheckAvailability(d) \/ ApprovePurchase(d)
             \/ \E i \in 1 .. Cardinality(Domains) : RecordRegistration(i)
             \/ \E k \in Configs, env \in Environments : BuildSite(k, env)
             \/ \E b \in builds : ApproveCompliance(b)
      PROVE  FileInv'
  <2>1. UNCHANGED <<job, asg, deps, flight, shown, suspect, crossing>>
    BY <1>3 DEF CreateProperty, GenerateCandidates, CreateAsset, ReviewAsset, RoutingHealth,
                ReviewOpportunity, DecideCandidate, CheckAvailability, ApprovePurchase,
                RecordRegistration, BuildSite, ApproveCompliance
  <2> QED
    BY <1>1, <2>1
<1>4. CASE UNCHANGED vars
  BY <1>1, <1>4 DEF vars
<1> QED
  BY <1>2, <1>3, <1>4, ThreadFiles, AssignmentFiles DEF Next
----------------------------------------------------------------------------
(* One line of releases.                                                   *)

\* One web process: its deployments do not overlap.
OneProcess == \A p, q \in Processes : p = q

\* The row a deployment finds deployed is the newest of its environment.
LEMMA LiveIsNewest ==
  ASSUME IndInv, LineInv, NEW env
  PROVE  /\ Newest(Live(env)) = Newest(Rows(env))
         /\ Newest(Rows(env)) \in Rows(env) \cup {0}
<1>1. deps \in Seq(DeploymentRow)
  BY DEF IndInv, TypeOK
<1>2. Rows(env) \in SUBSET DOMAIN deps
  BY DEF Rows
<1>3. /\ Newest(Rows(env)) \in Rows(env) \cup {0}
      /\ Rows(env) # {} => Newest(Rows(env)) \in Rows(env)
  BY <1>1, <1>2, NewestRow
<1>4. \A i \in Rows(env) : deps[i].build.env = env /\ i \in DOMAIN deps /\ i \in Nat
  BY <1>1 DEF Rows
<1>5. Live(env) = {i \in Rows(env) : i = Newest(Rows(env))}
  <2>1. \A i \in Rows(env) : deps[i].status = "deployed" <=> i = Newest(Rows(env))
    BY <1>4 DEF LineInv
  <2>2. Live(env) = {i \in Rows(env) : deps[i].status = "deployed"}
    BY DEF Live, Rows
  <2> QED
    BY <2>1, <2>2
<1>6. CASE Rows(env) = {}
  BY <1>3, <1>5, <1>6 DEF Newest
<1>7. CASE Rows(env) # {}
  <2>1. PICK m : m = Newest(Rows(env))
    OBVIOUS
  <2>2. Live(env) = {m} /\ m \in Nat
    BY <1>3, <1>4, <1>5, <1>7, <2>1
  <2>3. Newest(Live(env)) = m
    BY <2>2, NewestIs
  <2> QED
    BY <1>3, <2>1, <2>3
<1> QED
  BY <1>6, <1>7

\* A step that leaves the rows alone.
LEMMA LineKept ==
  ASSUME LineInv, deps' = deps,
         \A p \in Processes : flight'[p] # None =>
            flight'[p].prior = Newest(Rows(flight'[p].build.env))
  PROVE  LineInv'
<1>1. ASSUME NEW i \in DOMAIN deps
      PROVE  /\ deps'[i].status = "deployed" <=> i = Newest(Rows(deps[i].build.env))'
             /\ deps'[i].previous = Newest({j \in Rows(deps[i].build.env) : j < i})'
  <2>1. /\ deps[i].status = "deployed" <=> i = Newest(Rows(deps[i].build.env))
        /\ deps[i].previous = Newest({j \in Rows(deps[i].build.env) : j < i})
    BY DEF LineInv
  <2>2. Rows(deps[i].build.env)' = Rows(deps[i].build.env)
    BY DEF Rows
  <2> QED
    BY <2>1, <2>2
<1>2. ASSUME NEW p \in Processes, flight'[p] # None
      PROVE  flight'[p].prior = Newest(Rows(flight[p].build.env))'
  <2>1. PICK f : f = flight'[p]
    OBVIOUS
  <2>2. f.prior = Newest(Rows(f.build.env))
    BY <1>2, <2>1
  <2>3. Rows(flight[p].build.env)' = Rows(f.build.env)
    BY <2>1 DEF Rows
  <2> QED
    BY <2>1, <2>2, <2>3
<1> QED
  BY <1>1, <1>2 DEF LineInv

\* Every step keeps the line.
LEMMA LineStep ==
  ASSUME OneProcess, IndInv, LineInv, [Next]_vars
  PROVE  LineInv'
<1> USE DEF propertyVars, domainVars, siteVars, providerVars, releaseVars
<1>a. TypeOK /\ flight \in [Processes -> Flights \cup {None}] /\ deps \in Seq(DeploymentRow)
  BY DEF IndInv, TypeOK
<1>1. ASSUME UNCHANGED <<deps, flight>> PROVE LineInv'
  BY <1>1, LineKept DEF LineInv
<1>2. ASSUME NEW p \in Processes, NEW f \in Flights, deps' = deps,
             flight' = [flight EXCEPT ![p] = f], f.prior = Newest(Rows(f.build.env))
      PROVE  LineInv'
  <2>1. \A q \in Processes : flight'[q] = f
    BY <1>a, <1>2 DEF OneProcess
  <2> QED
    BY <1>2, <2>1, LineKept
<1>3. ASSUME NEW p \in Processes, NEW b \in builds, NEW pilot \in BOOLEAN, StartDeploy(p, b, pilot)
      PROVE  LineInv'
  <2> DEFINE f == [op |-> "deploy", at |-> "adapter", build |-> b,
                   prior |-> Newest(Live(b.env)), target |-> 0, refs |-> NoRefs]
  <2>1. flight' = [flight EXCEPT ![p] = f] /\ deps' = deps
    BY <1>3 DEF StartDeploy
  <2>2. f.prior = Newest(Rows(f.build.env))
    BY LiveIsNewest
  <2>3. f \in Flights
    <3>1. b \in BuildRow /\ Newest(Live(b.env)) \in 0 .. MaxDeployments
      BY <1>a, PriorTypes DEF TypeOK
    <3> QED
      BY <3>1, BoundsAssumption DEF Flights, NoRefs
  <2> HIDE DEF f
  <2> QED
    BY <1>2, <2>1, <2>2, <2>3
<1>4. ASSUME NEW p \in Processes, NEW target \in 1 .. MaxDeployments, StartRollback(p, target)
      PROVE  LineInv'
  <2> DEFINE f == [op |-> "rollback", at |-> "adapter", build |-> deps[target].build,
                   prior |-> Newest(Live("production")), target |-> target, refs |-> NoRefs]
  <2>1. /\ flight' = [flight EXCEPT ![p] = f] /\ deps' = deps
        /\ target \in DOMAIN deps /\ deps[target].build.env = "production"
    BY <1>4 DEF StartRollback
  <2>2. f.prior = Newest(Rows(f.build.env))
    BY <2>1, LiveIsNewest
  <2>3. f \in Flights
    <3>1. deps[target] \in DeploymentRow
      BY <1>a, <2>1
    <3>2. deps[target].build \in BuildRow
      BY <3>1, DeploymentTypes
    <3>3. Newest(Live("production")) \in 0 .. MaxDeployments
      BY PriorTypes
    <3> QED
      BY <3>2, <3>3, BoundsAssumption DEF Flights, NoRefs
  <2> HIDE DEF f
  <2> QED
    BY <1>2, <2>1, <2>2, <2>3
<1>5. ASSUME NEW p \in Processes, Publish(p) PROVE LineInv'
  <2>0. PICK f : f = flight[p]
    OBVIOUS
  <2> DEFINE g == [f EXCEPT !.at = "file", !.refs = Refs(f)]
  <2>1. /\ f # None /\ deps' = deps
        /\ flight' = [flight EXCEPT ![p].at = "file", ![p].refs = Refs(f)]
    BY <1>5, <2>0 DEF Publish
  <2>2. f \in Flights /\ f.prior = Newest(Rows(f.build.env))
    BY <1>a, <2>0, <2>1 DEF LineInv
  <2>3. flight' = [flight EXCEPT ![p] = g]
    BY <1>a, <2>0, <2>1, <2>2
  <2>4. Refs(f) \in [registration : Domains \cup {None}, compliance : BuildRow \cup {None},
                     assignment : Assignments \cup {None}]
    BY <2>0, <2>1, RefsTypes
  <2>5. g \in Flights /\ g.prior = f.prior /\ g.build = f.build
    BY <2>2, <2>4 DEF Flights
  <2> HIDE DEF g
  <2> QED
    BY <1>2, <2>1, <2>2, <2>3, <2>5
<1>6. ASSUME NEW p \in Processes, AbortDeployment(p) PROVE LineInv'
  <2>1. deps' = deps /\ \A q \in Processes : flight'[q] = None
    BY <1>a, <1>6 DEF AbortDeployment, OneProcess
  <2> QED
    BY <2>1, LineKept
<1>7. ASSUME NEW p \in Processes, CommitDeployment(p) PROVE LineInv'
  <2>0. PICK f : f = flight[p]
    OBVIOUS
  <2>1. f # None /\ deps' = Append(Displaced(f), NewRow(f)) /\ flight' = [flight EXCEPT ![p] = None]
    BY <1>7, <2>0 DEF CommitDeployment
  <2>2. f \in Flights /\ f.prior = Newest(Rows(f.build.env))
    BY <1>a, <2>0, <2>1 DEF LineInv
  <2>3. \A q \in Processes : flight'[q] = None
    BY <1>a, <2>1 DEF OneProcess
  <2>4. PICK n : n = Len(deps) + 1
    OBVIOUS
  <2>5. PICK e : e = f.build.env
    OBVIOUS
  <2>6. /\ DOMAIN deps' = DOMAIN deps \cup {n} /\ DOMAIN deps = 1 .. Len(deps) /\ Len(deps) \in Nat
        /\ deps'[n] = NewRow(f)
        /\ \A i \in DOMAIN deps :
              /\ deps'[i].build = deps[i].build /\ deps'[i].previous = deps[i].previous
              /\ deps'[i].status = IF i = f.prior THEN "rolled_back" ELSE deps[i].status
    BY <1>a, <2>1, <2>2, <2>4, RowsAfter
  <2>7. n \in Nat /\ n \notin DOMAIN deps /\ \A i \in DOMAIN deps : i < n /\ i \in Nat
    BY <2>4, <2>6
  <2>8. /\ deps'[n].build = f.build /\ deps'[n].status = "deployed" /\ deps'[n].previous = f.prior
    BY <2>6 DEF NewRow
  <2>9. Rows(e)' = Rows(e) \cup {n} /\ \A x : x # e => Rows(x)' = Rows(x)
    BY <2>5, <2>6, <2>7, <2>8 DEF Rows
  <2>10. Newest(Rows(e)') = n
    <3>1. Rows(e)' \in SUBSET Nat /\ n \in Rows(e)' /\ \A j \in Rows(e)' : j <= n
      BY <2>7, <2>9 DEF Rows
    <3> QED
      BY <3>1, NewestIs
  <2>11. ASSUME NEW i \in DOMAIN deps, NEW x, x = deps[i].build.env
         PROVE  /\ deps'[i].status = "deployed" <=> i = Newest(Rows(x)')
                /\ deps'[i].previous = Newest({j \in Rows(x)' : j < i})
    <3>1. /\ deps[i].status = "deployed" <=> i = Newest(Rows(x))
          /\ deps[i].previous = Newest({j \in Rows(x) : j < i})
      BY <2>11 DEF LineInv
    <3>2. {j \in Rows(x)' : j < i} = {j \in Rows(x) : j < i}
      BY <2>7, <2>9
    <3>3. CASE x = e
      BY <2>2, <2>5, <2>6, <2>7, <2>10, <3>1, <3>2, <3>3
    <3>4. CASE x # e
      <4>1. f.prior \in Rows(e) \cup {0}
        BY <2>2, <2>5, LiveIsNewest
      <4>2. i # f.prior
        BY <2>6, <2>11, <3>4, <4>1 DEF Rows
      <4> QED
        BY <2>6, <2>9, <3>1, <3>2, <3>4, <4>2
    <3> QED
      BY <3>3, <3>4
  <2>12. f.prior = Newest({j \in Rows(e)' : j < n})
    <3>1. {j \in Rows(e)' : j < n} = Rows(e)
      BY <2>7, <2>9 DEF Rows
    <3> QED
      BY <2>2, <2>5, <3>1
  <2>13. ASSUME NEW i \in DOMAIN deps'
         PROVE  /\ deps'[i].status = "deployed" <=> i = Newest(Rows(deps[i].build.env))'
                /\ deps'[i].previous = Newest({j \in Rows(deps[i].build.env) : j < i})'
    <3>0. PICK x : x = deps'[i].build.env
      OBVIOUS
    <3>1. CASE i = n
      <4>1. x = e
        BY <2>5, <2>8, <3>0, <3>1
      <4>2. Rows(deps[i].build.env)' = Rows(e)'
        BY <3>0, <4>1 DEF Rows
      <4> QED
        BY <2>8, <2>10, <2>12, <3>1, <4>2
    <3>2. CASE i \in DOMAIN deps
      <4>1. x = deps[i].build.env
        BY <2>6, <3>0, <3>2
      <4>2. Rows(deps[i].build.env)' = Rows(x)'
        BY <3>0 DEF Rows
      <4> QED
        BY <2>11, <3>2, <4>1, <4>2
    <3> QED
      BY <2>6, <3>1, <3>2
  <2> QED
    BY <2>3, <2>13 DEF LineInv
<1>b. ASSUME NEW p \in Processes, WriteFile(p) PROVE LineInv'
  <2>0. PICK f : f = flight[p]
    OBVIOUS
  <2> DEFINE g == [f EXCEPT !.at = "commit"]
  <2>1. f # None /\ deps' = deps /\ flight' = [flight EXCEPT ![p].at = "commit"]
    BY <1>b, <2>0 DEF WriteFile
  <2>2. f \in Flights /\ f.prior = Newest(Rows(f.build.env))
    BY <1>a, <2>0, <2>1 DEF LineInv
  <2>3. flight' = [flight EXCEPT ![p] = g]
    BY <1>a, <2>0, <2>1, <2>2
  <2>4. g \in Flights /\ g.prior = f.prior /\ g.build = f.build
    BY <2>2 DEF Flights
  <2> HIDE DEF g
  <2> QED
    BY <1>2, <2>1, <2>2, <2>3, <2>4
<1>8. ASSUME NEW p \in Processes, DeploymentStep(p) PROVE LineInv'
  BY <1>3, <1>4, <1>5, <1>6, <1>7, <1>8, <1>b DEF DeploymentStep
<1>9. ASSUME NEW t \in Threads, ThreadStep(t) PROVE LineInv'
  <2>1. UNCHANGED <<deps, flight>>
    BY <1>9 DEF ThreadStep, LoadUpdate, LoadVerifyDns, LoadConfig, LoadEdit, CommitEdit,
                LoadReviewConfig, CommitReviewConfig, LoadActivate, LoadReplace, LoadChange,
                FlushChange, SelectSites, RewriteFile, CommitChange, FailChange, EndChange
  <2> QED
    BY <1>1, <2>1
<1>10. ASSUME NEW a \in Assignments, CreateAssignment(a) PROVE LineInv'
  BY <1>1, <1>10 DEF CreateAssignment
<1>11. ASSUME \/ \E verified \in BOOLEAN : CreateProperty(verified)
              \/ GenerateCandidates \/ CreateAsset \/ ReviewAsset \/ RoutingHealth
              \/ ReviewOpportunity
              \/ \E d \in Domains : DecideCandidate(d) \/ CheckAvailability(d) \/ ApprovePurchase(d)
              \/ \E i \in 1 .. Cardinality(Domains) : RecordRegistration(i)
              \/ \E k \in Configs, env \in Environments : BuildSite(k, env)
              \/ \E b \in builds : ApproveCompliance(b)
       PROVE  LineInv'
  <2>1. UNCHANGED <<deps, flight>>
    BY <1>11 DEF CreateProperty, GenerateCandidates, CreateAsset, ReviewAsset, RoutingHealth,
                 ReviewOpportunity, DecideCandidate, CheckAvailability, ApprovePurchase,
                 RecordRegistration, BuildSite, ApproveCompliance
  <2> QED
    BY <1>1, <2>1
<1>12. CASE UNCHANGED vars
  BY <1>1, <1>12 DEF vars
<1> QED
  BY <1>8, <1>9, <1>10, <1>11, <1>12 DEF Next
----------------------------------------------------------------------------
(* The theorems.                                                           *)

\* The first state.
LEMMA InitInv == Init => IndInv /\ LineInv
<1> SUFFICES ASSUME Init PROVE IndInv /\ LineInv
  OBVIOUS
<1>1. /\ snaps = <<>> /\ reg = <<>> /\ config = <<>> /\ deps = <<>> /\ prop = None
      /\ job = [t \in Threads |-> None] /\ flight = [p \in Processes |-> None]
      /\ builds = {} /\ compliant = {} /\ suspect = {} /\ asg = [a \in Assignments |-> None]
      /\ shown = [b \in {} |-> None] /\ crossing = [deployments |-> {}, changes |-> {}]
  BY DEF Init
<1>2. /\ snaps \in Seq(Snapshot) /\ reg \in Seq(RegistrationRow) /\ config \in Seq(ConfigStatus)
      /\ deps \in Seq(DeploymentRow) /\ DOMAIN deps = {} /\ Len(deps) = 0
  BY <1>1
<1>3. opp \in OppStates
  BY DEF Init, OppStates
<1>c. /\ crossing \in [deployments : SUBSET Processes, changes : SUBSET Threads]
      /\ shown \in [DOMAIN shown -> Assignments \cup {None}] /\ DOMAIN shown \subseteq builds
  BY <1>1
<1>4. TypeOK
  BY <1>1, <1>2, <1>3, <1>c DEF Init, TypeOK
<1>5. HistoryInv /\ JobInv /\ FlightInv /\ BuildInv
  BY <1>1 DEF HistoryInv, JobInv, FlightInv, BuildInv
<1>7. ReleaseInv /\ LineInv
  BY <1>1, <1>2, BoundsAssumption DEF ReleaseInv, LineInv
<1> QED
  BY <1>4, <1>5, <1>7 DEF IndInv

\* Every step.
LEMMA NextInv == IndInv /\ [Next]_vars => IndInv'
<1> SUFFICES ASSUME IndInv, [Next]_vars PROVE IndInv'
  OBVIOUS
<1>1. ASSUME NEW t \in Threads, ThreadStep(t) PROVE IndInv'
  BY <1>1, LoadsInv, EditInv, ReviewInv, ChangesInv DEF ThreadStep
<1>2. ASSUME NEW p \in Processes, DeploymentStep(p) PROVE IndInv'
  BY <1>2, DeployInv, RollbackInv, PublishInv, WriteInv, CommitInv, AbortInv DEF DeploymentStep
<1>3. CASE UNCHANGED vars
  <2>1. TypeOK'
    BY <1>3 DEF IndInv, TypeOK, vars, propertyVars, domainVars, siteVars, providerVars, releaseVars
  <2> QED
    BY <1>3, <2>1, SideInv DEF vars, propertyVars, domainVars, siteVars, providerVars, releaseVars
<1> QED
  BY <1>1, <1>2, <1>3, CreateInv, DomainsInv, ReviewsInv, BuildsInv, AssignmentInv
     DEF Next

\* The inductive invariant holds in every reachable state: what a request loaded was a
\* version of the row, what a deployment publishes has passed the gates.
THEOREM Inductive == Spec => []IndInv
BY InitInv, NextInv, PTL DEF Spec

\* PropertyWorkflowService: whatever threads and processes do at the same time, the version
\* history is complete and its newest snapshot is the row.
THEOREM HistoryKept == Spec => []HistoryComplete
<1>1. IndInv => HistoryComplete
  BY DEF IndInv, HistoryInv, HistoryComplete
<1> QED
  BY <1>1, Inductive, PTL

\* deploy and rollback: what is released to production passed validation and has a
\* compliance review of that very build, for any number of processes.
THEOREM ReleasesReviewed == Spec => []ReleasedWasReviewed
<1>1. IndInv => ReleasedWasReviewed
  BY DEF IndInv, ReleaseInv, Released, Reviewable, ReleasedWasReviewed
<1> QED
  BY <1>1, Inductive, PTL

\* _update_provider_runtime_configuration: a deployed site shows the active provider, for
\* any number of deployments and provider changes at once, unless its file is on its way
\* or was last written by a request that failed or crossed another one.
THEOREM SitesShowProvider == Spec => []ShowsActiveProvider
<1>1. Init => FileInv
  <2> SUFFICES ASSUME Init PROVE FileInv
    OBVIOUS
  <2>1. /\ deps = <<>> /\ job = [t \in Threads |-> None] /\ flight = [p \in Processes |-> None]
        /\ asg = [a \in Assignments |-> None]
    BY DEF Init
  <2>2. \A t \in Threads : ~ Changing(t)
    BY <2>1 DEF Changing
  <2>3. Past = {} /\ Deployed = {}
    BY <2>1 DEF Past, Deployed, Live
  <2>4. ProviderInv
    BY <2>1, NoneAssumption DEF ProviderInv, AssignmentStatus
  <2> QED
    BY <2>2, <2>3, <2>4 DEF FileInv, SitesInv, Exposed, FreshInv, ChangeInv, RowLocks, Locking
<1>2. Spec => []FileInv
  BY <1>1, FileStep, Inductive, PTL DEF Spec
<1>3. IndInv /\ FileInv => ShowsActiveProvider
  <2> SUFFICES ASSUME IndInv, FileInv, NEW env \in Environments, NEW i \in Live(env),
                      deps[i].build \notin suspect
               PROVE  shown[deps[i].build] = ActiveAssignment
    BY DEF ShowsActiveProvider
  <2>1. i \in UNION {Live(e) : e \in Environments}
    OBVIOUS
  <2>2. deps[i].build \in Exposed
    BY <2>1 DEF Deployed, Exposed
  <2> QED
    BY <2>2 DEF FileInv, SitesInv, Shows
<1> QED
  BY <1>2, <1>3, Inductive, PTL

\* deploy and rollback in one process: the rows of an environment are one line, of which
\* only the newest is deployed and each points at the one it displaced.
THEOREM ReleaseLine ==
  ASSUME OneProcess
  PROVE  Spec => []OneReleaseLine
<1>1. IndInv /\ LineInv /\ [Next]_vars => LineInv'
  BY LineStep
<1>2. LineInv => OneReleaseLine
  <2> SUFFICES ASSUME LineInv, NEW env \in Environments, NEW i \in Rows(env)
               PROVE  /\ deps[i].status = "deployed" <=> i = Newest(Rows(env))
                      /\ deps[i].previous = Newest({j \in Rows(env) : j < i})
    BY DEF OneReleaseLine, Rows
  <2>1. i \in DOMAIN deps /\ deps[i].build.env = env
    BY DEF Rows
  <2> QED
    BY <2>1 DEF LineInv
<1>3. Spec => []LineInv
  BY <1>1, InitInv, Inductive, PTL DEF Spec
<1> QED
  BY <1>2, <1>3, PTL
----------------------------------------------------------------------------
(* The public data store.                                                  *)

USE DEF Labels, Critical, Status
----------------------------------------------------------------------------
(* The inductive invariant.                                                *)

\* Where a process is at work under a lock directory that it made.
AtWork == Critical \cup {"made", "removing"}

\* Until a lock is usurped, the lock is that of the one process at work, and a
\* process that decided on good grounds to remove it still sees a dead owner.
LockInv ==
    usurped \/
      /\ \A p \in Procs : pc[p] # "discarding"
      /\ \A p \in Procs : pc[p] \in AtWork =>
            lock # Absent /\ lock.maker = p /\ (pc[p] = "made" \/ lock.owner = p)
      /\ lock # Absent => lock.owner = Absent \/ lock.owner = lock.maker
      /\ \A p \in Procs : pc[p] = "breaking" /\ ~unfounded[p] =>
            lock # Absent /\ lock.owner = "gone"

\* A registry names installed releases only, and its parts agree.
Sound(cat, d) ==
    /\ \A v \in Versions : Registered(cat, v) => d[v] = cat.entry[v].content
    /\ \A v \in Versions : cat.entry[v].status = "active" <=> v = cat.active
    /\ IsInjective(cat.history)
    /\ cat.active # Absent => Last(cat.history) = cat.active
    /\ ToSet(cat.history) = {v \in Versions : cat.entry[v].status \in {"active", "superseded"}}

\* What a process under the lock is about to do fits its copy of the registry.
WorkInv(p) ==
    /\ Sound(copy[p], dirs)
    /\ pc[p] = "installing" => op[p].kind = "stage" /\ ~Registered(copy[p], op[p].version)
    /\ pc[p] = "writing" /\ op[p].kind = "stage" =>
          ~Registered(copy[p], op[p].version) /\ dirs[op[p].version] = op[p].content
    /\ pc[p] = "writing" /\ op[p].kind # "stage" =>
          LET v == Target(copy[p], op[p])
          IN  v \in Versions /\ Registered(copy[p], v) /\ copy[p].active # v
    /\ usurped \/ (pc[p] \in {"installing", "writing"} => copy[p] = registry)

\* The registry, what the processes are about to do to it, and what was reported.
RegistryInv ==
    /\ Sound(registry, dirs)
    /\ \A p \in Procs : WorkInv(p)
    /\ ReportedStaysRegistered

StoreInv == StoreTypeOK /\ LockInv /\ RegistryInv
----------------------------------------------------------------------------
(* Types.                                                                  *)

\* The registry of a new dataset is well formed.
LEMMA EmptyIsRegistry == EmptyRegistry \in Registries
BY StoreConstants DEF EmptyRegistry, Registries, Entries, NoEntry

\* What an operation carries.
LEMMA OperationTypes ==
  ASSUME NEW o \in Operations
  PROVE  /\ o.kind \in {"stage", "activate", "rollback"}
         /\ o.kind = "stage" => o.version \in Versions /\ o.content \in Contents
         /\ o.kind = "activate" => o.version \in Versions
BY DEF Operations
----------------------------------------------------------------------------
(* Sequences and indexes.                                                  *)

\* A nonempty set of indexes has a greatest one.
LEMMA MaxIndex ==
  ASSUME NEW n \in Nat, NEW T \in SUBSET (1 .. n), T # {}
  PROVE  Max(T) \in T
<1> DEFINE D == {n - i : i \in T}
           R == {ss \in Nat \X Nat : ss[1] < ss[2]}
<1>1. \A i \in T : n - i \in Nat
  OBVIOUS
<1>2. D \subseteq Nat /\ D # {}
  BY <1>1
<1>3. IsWellFoundedOn(R, Nat)
  BY NatLessThanWellFounded DEF OpToRel
<1>4. \E x \in D : \A y \in D : ~(<<y, x>> \in R)
  <2> HIDE DEF R, D
  <2> QED
    BY <1>2, <1>3, WFMin
<1>5. PICK k \in T : \A y \in D : ~(<<y, n - k>> \in R)
  BY <1>4
<1>6. ASSUME NEW j \in T PROVE k >= j
  <2>1. ~(<<n - j, n - k>> \in R)
    BY <1>5
  <2>2. ~(n - j < n - k)
    BY <1>1, <2>1
  <2> QED
    BY <2>2
<1> QED
  BY <1>6 DEF Max

\* _activate_locked moves the release to the end of the history, once.
LEMMA MovedToEnd ==
  ASSUME NEW h \in Seq(Versions), IsInjective(h), NEW v \in Versions
  PROVE  LET new == Append(Without(h, v), v) IN
         /\ new \in Seq(Versions)
         /\ IsInjective(new)
         /\ ToSet(new) = ToSet(h) \cup {v}
         /\ Last(new) = v
<1> DEFINE w == Without(h, v)
           new == Append(w, v)
<1>1. /\ w \in Seq(Versions)
      /\ \A i \in 1 .. Len(w) : w[i] # v /\ w[i] \in ToSet(h)
      /\ IsInjective(w)
      /\ \A u \in ToSet(h) : u # v => \E i \in 1 .. Len(w) : w[i] = u
  <2>1. CASE v \notin ToSet(h)
    BY <2>1 DEF Without, ToSet, IsInjective
  <2>2. CASE v \in ToSet(h)
    <3> DEFINE k == CHOOSE i \in DOMAIN h : h[i] = v
    <3>1. k \in 1 .. Len(h) /\ h[k] = v
      BY <2>2 DEF ToSet
    <3> HIDE DEF k
    <3>2. w = SubSeq(h, 1, k - 1) \o SubSeq(h, k + 1, Len(h))
      BY <2>2 DEF Without, RemoveAt, k
    <3>3. /\ SubSeq(h, 1, k - 1) \in Seq(Versions)
          /\ Len(SubSeq(h, 1, k - 1)) = k - 1
          /\ \A i \in 1 .. k - 1 : SubSeq(h, 1, k - 1)[i] = h[i]
      BY <3>1, SubSeqProperties
    <3>4. /\ SubSeq(h, k + 1, Len(h)) \in Seq(Versions)
          /\ Len(SubSeq(h, k + 1, Len(h))) = Len(h) - k
          /\ \A i \in 1 .. Len(h) - k : SubSeq(h, k + 1, Len(h))[i] = h[i + k]
      BY <3>1, SubSeqProperties
    <3>5. /\ w \in Seq(Versions)
          /\ Len(w) = Len(h) - 1
          /\ \A i \in 1 .. Len(w) : w[i] = IF i < k THEN h[i] ELSE h[i + 1]
      <4> DEFINE a == SubSeq(h, 1, k - 1)
                 b == SubSeq(h, k + 1, Len(h))
      <4> HIDE DEF a, b, w
      <4>1. a \in Seq(Versions) /\ b \in Seq(Versions) /\ w = a \o b
        BY <3>2, <3>3, <3>4 DEF a, b
      <4>2. /\ w \in Seq(Versions)
            /\ Len(w) = Len(a) + Len(b)
            /\ \A i \in 1 .. Len(a) + Len(b) : w[i] = IF i <= Len(a) THEN a[i] ELSE b[i - Len(a)]
        BY <4>1, ConcatProperties
      <4>3. /\ Len(a) = k - 1 /\ Len(b) = Len(h) - k
            /\ \A i \in 1 .. k - 1 : a[i] = h[i]
            /\ \A i \in 1 .. Len(h) - k : b[i] = h[i + k]
        BY <3>3, <3>4 DEF a, b
      <4>4. Len(w) = Len(h) - 1
        BY <3>1, <4>2, <4>3
      <4>5. ASSUME NEW i \in 1 .. Len(w)
            PROVE  w[i] = IF i < k THEN h[i] ELSE h[i + 1]
        <5>1. CASE i < k
          BY <5>1, <3>1, <4>2, <4>3, <4>4
        <5>2. CASE i >= k
          <6>1. i - (k - 1) \in 1 .. Len(h) - k
            BY <5>2, <3>1, <4>4
          <6>2. w[i] = b[i - (k - 1)]
            BY <5>2, <3>1, <4>2, <4>3, <4>4
          <6>3. b[i - (k - 1)] = h[i - (k - 1) + k]
            BY <6>1, <4>3
          <6>4. i - (k - 1) + k = i + 1 /\ ~(i < k)
            BY <5>2, <3>1, <4>4
          <6> QED
            BY <6>2, <6>3, <6>4
        <5> QED
          BY <5>1, <5>2, <3>1, <4>4
      <4> QED
        BY <4>2, <4>4, <4>5
    <3> HIDE DEF w
    <3>6. \A i \in 1 .. Len(w) : w[i] # v /\ w[i] \in ToSet(h)
      <4> SUFFICES ASSUME NEW i \in 1 .. Len(w) PROVE w[i] # v /\ w[i] \in ToSet(h)
        OBVIOUS
      <4>1. PICK x : x = IF i < k THEN i ELSE i + 1
        OBVIOUS
      <4>2. x \in 1 .. Len(h) /\ x # k /\ w[i] = h[x]
        BY <3>1, <3>5, <4>1
      <4>3. h[x] # h[k]
        BY <3>1, <4>2 DEF IsInjective
      <4>4. h[x] \in ToSet(h)
        BY <4>2 DEF ToSet
      <4> QED
        BY <3>1, <4>2, <4>3, <4>4
    <3>7. IsInjective(w)
      <4>1. ASSUME NEW i \in 1 .. Len(w), NEW j \in 1 .. Len(w), w[i] = w[j]
            PROVE  i = j
        <5> DEFINE up(x) == IF x < k THEN x ELSE x + 1
        <5>1. up(i) \in DOMAIN h /\ up(j) \in DOMAIN h /\ h[up(i)] = h[up(j)]
          BY <3>1, <3>5, <4>1
        <5>2. up(i) = up(j)
          BY <5>1 DEF IsInjective
        <5> QED
          BY <5>2, <3>1, <3>5
      <4> QED
        BY <3>5, <4>1 DEF IsInjective
    <3>8. ASSUME NEW u \in ToSet(h), u # v
          PROVE  \E i \in 1 .. Len(w) : w[i] = u
      <4>1. PICK i \in 1 .. Len(h) : h[i] = u
        BY DEF ToSet
      <4>2. i # k
        BY <3>1, <3>8, <4>1
      <4>3. CASE i < k
        BY <4>1, <4>3, <3>1, <3>5
      <4>4. CASE i > k
        <5>1. i - 1 \in 1 .. Len(w) /\ w[i - 1] = h[i]
          BY <4>4, <3>1, <3>5
        <5> QED
          BY <5>1, <4>1
      <4> QED
        BY <4>2, <4>3, <4>4, <3>1
    <3> QED
      BY <3>5, <3>6, <3>7, <3>8
  <2> QED
    BY <2>1, <2>2
<1> HIDE DEF w
<1>2. /\ new \in Seq(Versions)
      /\ Len(new) = Len(w) + 1
      /\ \A i \in 1 .. Len(w) : new[i] = w[i]
      /\ new[Len(w) + 1] = v
  BY <1>1, AppendProperties
<1> HIDE DEF new
<1>3. IsInjective(new)
  BY <1>1, <1>2 DEF IsInjective
<1>4. ToSet(new) = ToSet(h) \cup {v}
  <2>1. ASSUME NEW u \in ToSet(h) PROVE u \in ToSet(new)
    <3>1. CASE u = v
      BY <3>1, <1>1, <1>2 DEF ToSet
    <3>2. CASE u # v
      <4>1. PICK i \in 1 .. Len(w) : w[i] = u
        BY <3>2, <1>1
      <4> QED
        BY <4>1, <1>1, <1>2 DEF ToSet
    <3> QED
      BY <3>1, <3>2
  <2>2. v \in ToSet(new)
    BY <1>1, <1>2 DEF ToSet
  <2>3. ASSUME NEW u \in ToSet(new) PROVE u \in ToSet(h) \cup {v}
    BY <1>1, <1>2 DEF ToSet
  <2> QED
    BY <2>1, <2>2, <2>3
<1> QED
  BY <1>2, <1>3, <1>4 DEF Last, new, w
----------------------------------------------------------------------------
(* Registries.                                                             *)

\* The registry of a new dataset fits whatever is installed.
LEMMA EmptyIsSound == ASSUME NEW d PROVE Sound(EmptyRegistry, d)
<1>1. \A v \in Versions : EmptyRegistry.entry[v] = NoEntry
  BY DEF EmptyRegistry
<1>2. NoEntry.status = Absent /\ Absent \notin Status
  BY StoreConstants DEF NoEntry
<1>3. EmptyRegistry.active = Absent /\ EmptyRegistry.history = <<>>
  BY DEF EmptyRegistry
<1>4. ToSet(<<>>) = {} /\ IsInjective(<<>>)
  BY DEF ToSet, IsInjective
<1>5. \A v \in Versions : v # Absent
  BY StoreConstants
<1> QED
  BY <1>1, <1>2, <1>3, <1>4, <1>5 DEF Sound, Registered

\* A registered version has a content.
LEMMA EntryContent ==
  ASSUME NEW cat \in Registries, NEW v \in Versions, Registered(cat, v)
  PROVE  cat.entry[v].content \in Contents /\ cat.entry[v].content # Absent
BY StoreConstants DEF Registries, Registered, Entries, NoEntry

\* Directories that appear do not disturb a registry.
LEMMA SoundGrows ==
  ASSUME NEW cat \in Registries, NEW d, NEW e, Sound(cat, d),
         \A v \in Versions : d[v] # Absent => e[v] = d[v]
  PROVE  Sound(cat, e)
BY EntryContent DEF Sound

\* Registering an installed release.
LEMMA StagedSound ==
  ASSUME NEW cat \in Registries, NEW d, Sound(cat, d), NEW v \in Versions, NEW c \in Contents,
         ~Registered(cat, v), d[v] = c
  PROVE  /\ Staged(cat, v, c) \in Registries
         /\ Sound(Staged(cat, v, c), d)
         /\ \A u \in Versions : Registered(Staged(cat, v, c), u) <=> u = v \/ Registered(cat, u)
         /\ \A u \in Versions \ {v} : Staged(cat, v, c).entry[u] = cat.entry[u]
<1> DEFINE new == Staged(cat, v, c)
<1>1. /\ new.entry = [cat.entry EXCEPT ![v] = [content |-> c, status |-> "staged"]]
      /\ new.active = cat.active /\ new.history = cat.history
      /\ new \in Registries
  BY DEF Staged, Registries, Entries
<1> HIDE DEF new
<1>2. cat.entry \in [Versions -> Entries]
  BY DEF Registries
<1>3. /\ new.entry[v] = [content |-> c, status |-> "staged"]
      /\ \A u \in Versions \ {v} : new.entry[u] = cat.entry[u]
  BY <1>1, <1>2
<1>4. cat.entry[v] = NoEntry /\ NoEntry.status = Absent /\ Absent \notin Status /\ c # Absent
  BY StoreConstants DEF Registered, NoEntry
<1>5. [content |-> c, status |-> "staged"] # NoEntry
  BY <1>4 DEF NoEntry
<1>6. \A u \in Versions : Registered(new, u) <=> u = v \/ Registered(cat, u)
  BY <1>3, <1>5 DEF Registered
<1>7. \A u \in Versions : new.entry[u].status \in {"active", "superseded"}
                             <=> cat.entry[u].status \in {"active", "superseded"}
  BY <1>3, <1>4
<1>8. \A u \in Versions : new.entry[u].status = "active" <=> cat.entry[u].status = "active"
  BY <1>3, <1>4
<1>9. \A u \in Versions : Registered(new, u) => d[u] = new.entry[u].content
  BY <1>3, <1>6 DEF Sound
<1>10. Sound(new, d)
  BY <1>1, <1>7, <1>8, <1>9 DEF Sound
<1> QED
  BY <1>1, <1>3, <1>6, <1>10 DEF new

\* Activating a registered release.
LEMMA ActivatedSound ==
  ASSUME NEW cat \in Registries, NEW d, Sound(cat, d), NEW v \in Versions,
         Registered(cat, v), cat.active # v
  PROVE  /\ Activated(cat, v) \in Registries
         /\ Sound(Activated(cat, v), d)
         /\ \A u \in Versions : Registered(Activated(cat, v), u) <=> Registered(cat, u)
         /\ \A u \in Versions : Activated(cat, v).entry[u].content = cat.entry[u].content
         /\ Activated(cat, v).active = v
<1> DEFINE new == Activated(cat, v)
<1>1. /\ new.active = v
      /\ new.history = Append(Without(cat.history, v), v)
      /\ new.entry = [u \in Versions |->
                  CASE u = v -> [cat.entry[u] EXCEPT !.status = "active"]
                    [] u = cat.active /\ u # v -> [cat.entry[u] EXCEPT !.status = "superseded"]
                    [] OTHER -> cat.entry[u]]
      /\ DOMAIN new = {"entry", "active", "history"}
      /\ new = [entry |-> new.entry, active |-> new.active, history |-> new.history]
  BY DEF Activated
<1> HIDE DEF new
<1>2. /\ cat.entry \in [Versions -> Entries]
      /\ cat.history \in Seq(Versions) /\ cat.active \in Versions \cup {Absent}
      /\ Absent \notin Versions
  BY StoreConstants DEF Registries
<1>3. /\ new.history \in Seq(Versions) /\ IsInjective(new.history)
      /\ ToSet(new.history) = ToSet(cat.history) \cup {v}
      /\ Last(new.history) = v
  BY <1>1, <1>2, MovedToEnd DEF Sound
<1>4. cat.active \in Versions => Registered(cat, cat.active)
  BY StoreConstants DEF Sound, Registered, NoEntry
<1>5. \A u \in Versions : Registered(cat, u) =>
         /\ cat.entry[u] \in [content : Contents, status : Status]
  BY <1>2 DEF Registered, Entries
<1>6. /\ new.entry[v] = [cat.entry[v] EXCEPT !.status = "active"]
      /\ cat.active \in Versions =>
            new.entry[cat.active] = [cat.entry[cat.active] EXCEPT !.status = "superseded"]
      /\ \A u \in Versions : u # v /\ u # cat.active => new.entry[u] = cat.entry[u]
  BY <1>1
<1>7. \A u \in Versions :
         /\ new.entry[u].content = cat.entry[u].content
         /\ new.entry[u].status = IF u = v THEN "active"
                                  ELSE IF u = cat.active THEN "superseded"
                                  ELSE cat.entry[u].status
  BY <1>4, <1>5, <1>6
<1>8. \A u \in Versions : Registered(cat, u) =>
         new.entry[u] \in [content : Contents, status : Status]
  BY <1>2, <1>4, <1>5, <1>6
<1>9. \A u \in Versions : ~Registered(cat, u) => new.entry[u] = NoEntry
  BY <1>2, <1>4, <1>6 DEF Registered
<1>10. \A e \in [content : Contents, status : Status] : e # NoEntry
  BY StoreConstants DEF NoEntry
<1>11. \A u \in Versions : Registered(new, u) <=> Registered(cat, u)
  BY <1>8, <1>9, <1>10 DEF Registered
<1>12. new.entry \in [Versions -> Entries]
  BY <1>1, <1>8, <1>9 DEF Entries
<1>13. new \in Registries
  BY <1>1, <1>3, <1>12 DEF Registries
<1>14. \A u \in Versions : new.entry[u].status = "active" <=> u = v
  BY <1>7 DEF Sound
<1>15. \A u \in Versions : new.entry[u].status \in {"active", "superseded"} <=>
                               u = v \/ cat.entry[u].status \in {"active", "superseded"}
  BY <1>7 DEF Sound
<1>16. ToSet(new.history) = {u \in Versions : new.entry[u].status \in {"active", "superseded"}}
  BY <1>3, <1>15 DEF Sound
<1>17. \A u \in Versions : Registered(new, u) => d[u] = new.entry[u].content
  BY <1>7, <1>11 DEF Sound
<1>18. Sound(new, d)
  BY <1>1, <1>3, <1>14, <1>16, <1>17 DEF Sound
<1> QED
  BY <1>1, <1>7, <1>11, <1>13, <1>18 DEF new
----------------------------------------------------------------------------
(* The steps.                                                              *)

\* The release a rollback or an activation asks for, once it passed the checks.
LEMMA TargetVersion ==
  ASSUME NEW cat \in Registries, NEW o \in Operations, o.kind # "stage",
         Target(cat, o) # Absent
  PROVE  Target(cat, o) \in Versions
<1>1. CASE o.kind = "activate"
  BY <1>1, OperationTypes DEF Target
<1>2. CASE o.kind # "activate"
  <2>1. cat.history \in Seq(Versions)
    BY DEF Registries
  <2>2. Previous(cat) # {} /\ Previous(cat) \subseteq 1 .. Len(cat.history)
    BY <1>2, <2>1 DEF Target, Previous
  <2>3. Len(cat.history) \in Nat
    BY <2>1
  <2>4. Max(Previous(cat)) \in Previous(cat)
    <3> HIDE DEF Registries
    <3> QED
      BY <2>2, <2>3, MaxIndex
  <2> QED
    BY <1>2, <2>1, <2>2, <2>4 DEF Target
<1> QED
  BY <1>1, <1>2

\* What WriteRegistry writes is a sound registry, and it changes no content that
\* the copy had.
LEMMA WrittenSound ==
  ASSUME StoreTypeOK, NEW p \in Procs, pc[p] = "writing", WorkInv(p)
  PROVE  /\ Written(p) \in Registries
         /\ Sound(Written(p), dirs)
         /\ op[p].kind = "stage" =>
               /\ Written(p).entry[op[p].version].content = op[p].content
               /\ Written(p).active = copy[p].active
               /\ \A u \in Versions : Registered(Written(p), u) <=>
                                         u = op[p].version \/ Registered(copy[p], u)
         /\ op[p].kind # "stage" =>
               /\ Written(p).active \in Versions
               /\ Registered(copy[p], Written(p).active)
               /\ \A u \in Versions : Registered(Written(p), u) <=> Registered(copy[p], u)
         /\ \A u \in Versions : Registered(copy[p], u) =>
               Written(p).entry[u].content = copy[p].entry[u].content
<1>1. copy[p] \in Registries /\ Sound(copy[p], dirs)
  BY DEF StoreTypeOK, WorkInv
<1>2. op[p] \in Operations
  BY DEF StoreTypeOK, Idle
<1>3. CASE op[p].kind = "stage"
  <2>1. op[p].version \in Versions /\ op[p].content \in Contents
    BY <1>2, <1>3, OperationTypes
  <2>2. ~Registered(copy[p], op[p].version) /\ dirs[op[p].version] = op[p].content
    BY <1>3 DEF WorkInv
  <2>3. Written(p) = Staged(copy[p], op[p].version, op[p].content)
    BY <1>3 DEF Written
  <2>4. Staged(copy[p], op[p].version, op[p].content).entry[op[p].version].content = op[p].content
    BY <1>1, <2>1 DEF Staged, Registries
  <2>5. Staged(copy[p], op[p].version, op[p].content).active = copy[p].active
    BY <1>1 DEF Staged, Registries
  <2> QED
    BY <1>1, <1>3, <2>1, <2>2, <2>3, <2>4, <2>5, StagedSound
<1>4. CASE op[p].kind # "stage"
  <2> DEFINE v == Target(copy[p], op[p])
  <2>1. v \in Versions /\ Registered(copy[p], v) /\ copy[p].active # v
    BY <1>4 DEF WorkInv
  <2>2. Written(p) = Activated(copy[p], v)
    BY <1>4 DEF Written
  <2> HIDE DEF v
  <2> QED
    BY <1>1, <1>4, <2>1, <2>2, ActivatedSound
<1> QED
  BY <1>3, <1>4

\* Every step keeps every variable well typed.
LEMMA TypeStep == StoreInv /\ [StoreNext]_storeVars => StoreTypeOK'
<1> SUFFICES ASSUME StoreInv, [StoreNext]_storeVars PROVE StoreTypeOK'
  OBVIOUS
<1> USE StoreConstants, EmptyIsRegistry DEF StoreInv, StoreTypeOK, Goto, Locks
<1>1. ASSUME NEW p \in Procs, NEW o \in Operations, Begin(p, o) PROVE StoreTypeOK'
  BY <1>1, OperationTypes DEF Begin
<1>2. ASSUME NEW p \in Procs, MakeLock(p) PROVE StoreTypeOK'
  BY <1>2 DEF MakeLock
<1>3. ASSUME NEW p \in Procs, WriteOwner(p) PROVE StoreTypeOK'
  <2>1. CASE lock = Absent
    BY <1>3, <2>1 DEF WriteOwner
  <2>2. CASE lock # Absent
    <3>1. lock' \in Locks
      BY <1>3, <2>2 DEF WriteOwner
    <3>2. /\ pc' = [pc EXCEPT ![p] = "owned"] /\ pc[p] = "made"
          /\ UNCHANGED <<registry, dirs, op, copy, unfounded, reported, usurped>>
      BY <1>3, <2>2 DEF WriteOwner
    <3> HIDE DEF Locks
    <3> QED
      BY <3>1, <3>2
  <2> QED
    BY <2>1, <2>2
<1>4. ASSUME NEW p \in Procs, Discard(p) PROVE StoreTypeOK'
  BY <1>4 DEF Discard, DropLock, Finish, Idle
<1>5. ASSUME NEW p \in Procs, Examine(p) PROVE StoreTypeOK'
  BY <1>5 DEF Examine
<1>6. ASSUME NEW p \in Procs, Break(p) PROVE StoreTypeOK'
  BY <1>6 DEF Break, DropLock, Finish, Idle
<1>7. ASSUME NEW p \in Procs, TimeOut(p) PROVE StoreTypeOK'
  BY <1>7 DEF TimeOut, Finish, Idle
<1>8. ASSUME NEW p \in Procs, Release(p) PROVE StoreTypeOK'
  BY <1>8 DEF Release, Finish, Idle
<1>9. ASSUME NEW p \in Procs, RemoveLock(p) PROVE StoreTypeOK'
  BY <1>9 DEF RemoveLock, DropLock, Finish, Idle
<1>10. ASSUME NEW p \in Procs, ReadForStage(p) PROVE StoreTypeOK'
  BY <1>10, OperationTypes DEF ReadForStage, Report, Idle
<1>11. ASSUME NEW p \in Procs, Install(p) PROVE StoreTypeOK'
  BY <1>11, OperationTypes DEF Install, Idle, RegistryInv, WorkInv
<1>12. ASSUME NEW p \in Procs, ReadForActivation(p) PROVE StoreTypeOK'
  BY <1>12 DEF ReadForActivation
<1>13. ASSUME NEW p \in Procs, WriteRegistry(p) PROVE StoreTypeOK'
  BY <1>13, WrittenSound, OperationTypes DEF WriteRegistry, Report, Idle, RegistryInv
<1>14. ASSUME NEW p \in Procs, Crash(p) PROVE StoreTypeOK'
  BY <1>14 DEF Crash, Finish, Idle
<1>15. CASE LockAges
  BY <1>15 DEF LockAges
<1>16. CASE UNCHANGED storeVars
  BY <1>16 DEF storeVars
<1> QED
  BY <1>1, <1>2, <1>3, <1>4, <1>5, <1>6, <1>7, <1>8, <1>9, <1>10, <1>11, <1>12,
     <1>13, <1>14, <1>15, <1>16 DEF StoreNext, ProcStep
\* Until a lock is usurped it stays with the one process at work: nobody makes a
\* second one, a founded breaker removes a dead owner's, and who releases the lock
\* removes its own.
LEMMA LockStep == StoreInv /\ [StoreNext]_storeVars => LockInv'
<1> SUFFICES ASSUME StoreTypeOK, LockInv, [StoreNext]_storeVars, ~usurped' PROVE LockInv'
  BY DEF StoreInv, LockInv
<1>0. ~usurped
  <2>1. ASSUME NEW p \in Procs, ProcStep(p) PROVE ~usurped
    BY <2>1 DEF ProcStep, Begin, MakeLock, WriteOwner, Discard, Examine, Break, TimeOut,
       ReadForStage, Install, ReadForActivation, WriteRegistry, Release, RemoveLock, Crash
  <2> QED
    BY <2>1 DEF StoreNext, LockAges, storeVars
<1> USE <1>0, StoreConstants DEF StoreTypeOK, LockInv, Goto, Locks, AtWork
<1>1. ASSUME NEW p \in Procs, NEW o \in Operations, Begin(p, o) PROVE LockInv'
  BY <1>1 DEF Begin
<1>2. ASSUME NEW p \in Procs, MakeLock(p) PROVE LockInv'
  <2>1. lock' # Absent /\ lock'.maker = p /\ lock'.owner = Absent
    <3>1. lock' = [maker |-> p, owner |-> Absent, old |-> FALSE]
      BY <1>2 DEF MakeLock
    <3>2. lock' \in Locks
      BY <3>1
    <3> QED
      BY <3>1, <3>2
  <2>2. \A q \in Procs : pc[q] \notin AtWork /\ (pc[q] = "breaking" => unfounded[q])
    BY <1>2 DEF MakeLock
  <2> QED
    BY <1>2, <2>1, <2>2 DEF MakeLock
<1>3. ASSUME NEW p \in Procs, WriteOwner(p) PROVE LockInv'
  <2>1. lock # Absent /\ lock.maker = p /\ lock.owner # "gone"
    BY <1>3 DEF WriteOwner
  <2>2. lock' # Absent /\ lock'.maker = p /\ lock'.owner = p
    <3>1. lock' = [lock EXCEPT !.owner = p, !.old = FALSE] /\ lock \in Locks
      BY <1>3, <2>1 DEF WriteOwner
    <3>2. lock' \in Locks
      BY <3>1
    <3> QED
      BY <3>1, <3>2, <2>1
  <2>3. pc' = [pc EXCEPT ![p] = "owned"] /\ UNCHANGED <<unfounded, usurped>>
    BY <1>3, <2>1 DEF WriteOwner
  <2>4. \A q \in Procs \ {p} : pc[q] \notin AtWork
    BY <2>1
  <2>5. \A q \in Procs : pc[q] = "breaking" => unfounded[q]
    BY <2>1
  <2> HIDE DEF Locks
  <2> QED
    BY <2>2, <2>3, <2>4, <2>5
<1>4. ASSUME NEW p \in Procs, Discard(p) PROVE LockInv'
  BY <1>4 DEF Discard
<1>5. ASSUME NEW p \in Procs, Examine(p) PROVE LockInv'
  BY <1>5 DEF Examine, Removable
<1>6. ASSUME NEW p \in Procs, Break(p) PROVE LockInv'
  <2>1. lock = Absent \/ ~Alive \/ ~unfounded[p]
    BY <1>6 DEF Break
  <2>2. \A q \in Procs : pc[q] \notin AtWork
    <3>1. CASE lock = Absent
      BY <3>1
    <3>2. CASE lock # Absent /\ ~Alive
      BY <3>2 DEF Alive
    <3>3. CASE ~unfounded[p]
      <4>1. lock # Absent /\ lock.owner = "gone"
        BY <1>6, <3>3 DEF Break
      <4>2. lock.maker = "gone"
        BY <4>1
      <4> QED
        BY <4>1, <4>2
    <3> QED
      BY <2>1, <3>1, <3>2, <3>3
  <2>3. lock' = Absent /\ pc'[p] # "breaking" /\ pc'[p] \in {"idle", "waiting"}
    BY <1>6 DEF Break, DropLock, Finish
  <2>4. \A q \in Procs \ {p} : pc'[q] = pc[q] /\ (pc[q] = "breaking" => unfounded'[q])
    BY <1>6 DEF Break, DropLock, Finish
  <2> HIDE DEF Locks
  <2> QED
    BY <2>2, <2>3, <2>4
<1>7. ASSUME NEW p \in Procs, TimeOut(p) PROVE LockInv'
  BY <1>7 DEF TimeOut, Finish
<1>8. ASSUME NEW p \in Procs, Release(p) PROVE LockInv'
  BY <1>8 DEF Release, Finish
<1>9. ASSUME NEW p \in Procs, RemoveLock(p) PROVE LockInv'
  BY <1>9 DEF RemoveLock, DropLock, Finish
<1>10. ASSUME NEW p \in Procs, ReadForStage(p) PROVE LockInv'
  BY <1>10 DEF ReadForStage
<1>11. ASSUME NEW p \in Procs, Install(p) PROVE LockInv'
  BY <1>11 DEF Install
<1>12. ASSUME NEW p \in Procs, ReadForActivation(p) PROVE LockInv'
  BY <1>12 DEF ReadForActivation
<1>13. ASSUME NEW p \in Procs, WriteRegistry(p) PROVE LockInv'
  BY <1>13 DEF WriteRegistry
<1>14. ASSUME NEW p \in Procs, Crash(p) PROVE LockInv'
  <2>1. /\ pc' = [pc EXCEPT ![p] = "idle"]
        /\ unfounded' = [unfounded EXCEPT ![p] = FALSE]
    BY <1>14 DEF Crash, Finish
  <2>2. CASE lock = Absent
    BY <1>14, <2>1, <2>2 DEF Crash
  <2>3. CASE lock # Absent
    <3>1. /\ lock' # Absent
          /\ lock'.owner = IF lock.owner = p THEN "gone" ELSE lock.owner
          /\ lock'.maker = IF lock.maker = p THEN "gone" ELSE lock.maker
      <4>1. /\ lock' = [lock EXCEPT !.owner = IF @ = p THEN "gone" ELSE @,
                                    !.maker = IF @ = p THEN "gone" ELSE @]
            /\ lock \in Locks
        BY <1>14, <2>3 DEF Crash
      <4>2. lock' \in Locks
        BY <4>1
      <4> QED
        BY <4>1, <4>2
    <3> HIDE DEF Locks
    <3>2. \A q \in Procs : pc'[q] # "discarding"
      BY <2>1
    <3>3. \A q \in Procs : pc'[q] \in AtWork =>
             lock' # Absent /\ lock'.maker = q /\ (pc'[q] = "made" \/ lock'.owner = q)
      BY <2>1, <3>1
    <3>4. lock'.owner = Absent \/ lock'.owner = lock'.maker
      BY <2>3, <3>1
    <3>5. \A q \in Procs : pc'[q] = "breaking" /\ ~unfounded'[q] =>
             lock' # Absent /\ lock'.owner = "gone"
      BY <2>1, <3>1
    <3> QED
      BY <3>2, <3>3, <3>4, <3>5
  <2> QED
    BY <2>2, <2>3
<1>15. CASE LockAges
  <2>1. lock' # Absent /\ lock'.maker = lock.maker /\ lock'.owner = lock.owner
    BY <1>15 DEF LockAges
  <2>2. UNCHANGED <<pc, unfounded, usurped>> /\ lock # Absent
    BY <1>15 DEF LockAges
  <2> HIDE DEF Locks
  <2> QED
    BY <2>1, <2>2
<1>16. CASE UNCHANGED storeVars
  BY <1>16 DEF storeVars
<1> QED
  BY <1>1, <1>2, <1>3, <1>4, <1>5, <1>6, <1>7, <1>8, <1>9, <1>10, <1>11, <1>12,
     <1>13, <1>14, <1>15, <1>16 DEF StoreNext, ProcStep
\* A process that does not step keeps what it relies on, as long as directories only
\* appear and the registry is replaced only when it is not about to write it.
LEMMA WorkKept ==
  ASSUME StoreTypeOK, NEW q \in Procs, WorkInv(q),
         pc'[q] = pc[q], op'[q] = op[q], copy'[q] = copy[q],
         \A v \in Versions : dirs[v] # Absent => dirs'[v] = dirs[v],
         usurped => usurped',
         usurped' \/ registry' = registry \/ pc[q] \notin {"installing", "writing"}
  PROVE  WorkInv(q)'
<1>1. Sound(copy[q], dirs')
  BY SoundGrows DEF StoreTypeOK, WorkInv
<1>2. ASSUME pc[q] = "writing", op[q].kind = "stage"
      PROVE  dirs'[op[q].version] = op[q].content
  <2>1. op[q] \in Operations
    BY <1>2 DEF StoreTypeOK, Idle
  <2>2. op[q].version \in Versions /\ op[q].content \in Contents
    BY <1>2, <2>1, OperationTypes
  <2> QED
    BY <1>2, <2>2, StoreConstants DEF WorkInv
<1> QED
  BY <1>1, <1>2 DEF WorkInv

\* A step that leaves the registry and the directories alone, and after which the
\* process is not about to change them.
LEMMA QuietStep ==
  ASSUME StoreInv, NEW p \in Procs,
         UNCHANGED <<registry, dirs, reported>>, usurped => usurped',
         pc'[p] \notin {"installing", "writing"}, copy'[p] \in {copy[p], EmptyRegistry},
         \A q \in Procs \ {p} : pc'[q] = pc[q] /\ op'[q] = op[q] /\ copy'[q] = copy[q]
  PROVE  RegistryInv'
<1>1. Sound(registry, dirs)' /\ ReportedStaysRegistered'
  BY DEF StoreInv, RegistryInv, ReportedStaysRegistered
<1>2. \A q \in Procs \ {p} : WorkInv(q)'
  BY WorkKept DEF StoreInv, RegistryInv
<1>3. WorkInv(p)'
  <2>1. Sound(copy[p], dirs) /\ Sound(EmptyRegistry, dirs)
    BY EmptyIsSound DEF StoreInv, RegistryInv, WorkInv
  <2> QED
    BY <2>1 DEF WorkInv
<1> QED
  BY <1>1, <1>2, <1>3 DEF RegistryInv

\* Every step keeps the registry sound, and what stage reported in it.
LEMMA RegistryStep == StoreInv /\ [StoreNext]_storeVars => RegistryInv'
<1> SUFFICES ASSUME StoreInv, [StoreNext]_storeVars PROVE RegistryInv'
  OBVIOUS
<1>0. StoreTypeOK /\ \A p \in Procs : WorkInv(p)
  BY DEF StoreInv, RegistryInv
<1>1. ASSUME NEW p \in Procs, NEW o \in Operations, Begin(p, o) PROVE RegistryInv'
  BY <1>0, <1>1, QuietStep DEF Begin, Goto, StoreTypeOK
<1>2. ASSUME NEW p \in Procs, MakeLock(p) PROVE RegistryInv'
  BY <1>0, <1>2, QuietStep DEF MakeLock, Goto, StoreTypeOK
<1>3. ASSUME NEW p \in Procs, WriteOwner(p) PROVE RegistryInv'
  BY <1>0, <1>3, QuietStep DEF WriteOwner, Goto, StoreTypeOK
<1>4. ASSUME NEW p \in Procs, Discard(p) PROVE RegistryInv'
  BY <1>0, <1>4, QuietStep DEF Discard, Finish, Goto, StoreTypeOK
<1>5. ASSUME NEW p \in Procs, Examine(p) PROVE RegistryInv'
  BY <1>0, <1>5, QuietStep DEF Examine, Goto, StoreTypeOK
<1>6. ASSUME NEW p \in Procs, Break(p) PROVE RegistryInv'
  BY <1>0, <1>6, QuietStep DEF Break, Finish, Goto, StoreTypeOK
<1>7. ASSUME NEW p \in Procs, TimeOut(p) PROVE RegistryInv'
  BY <1>0, <1>7, QuietStep DEF TimeOut, Finish, Goto, StoreTypeOK
<1>8. ASSUME NEW p \in Procs, Release(p) PROVE RegistryInv'
  BY <1>0, <1>8, QuietStep DEF Release, Finish, Goto, StoreTypeOK
<1>9. ASSUME NEW p \in Procs, RemoveLock(p) PROVE RegistryInv'
  BY <1>0, <1>9, QuietStep DEF RemoveLock, Finish, Goto, StoreTypeOK
<1>14. ASSUME NEW p \in Procs, Crash(p) PROVE RegistryInv'
  BY <1>0, <1>14, QuietStep DEF Crash, Finish, Goto, StoreTypeOK
<1>10. ASSUME NEW p \in Procs, ReadForStage(p) PROVE RegistryInv'
  <2> DEFINE v == op[p].version
  <2>1. op[p] \in Operations /\ op[p].kind = "stage"
    BY <1>0, <1>10 DEF ReadForStage, StoreTypeOK, Idle
  <2>2. v \in Versions /\ op[p].content \in Contents
    BY <2>1, OperationTypes
  <2>3. /\ copy'[p] = registry /\ UNCHANGED <<registry, dirs, op, usurped>>
        /\ \A q \in Procs \ {p} : pc'[q] = pc[q] /\ copy'[q] = copy[q]
    BY <1>0, <1>10 DEF ReadForStage, Goto, StoreTypeOK
  <2>4. Sound(registry, dirs)
    BY DEF StoreInv, RegistryInv
  <2>5. \A q \in Procs \ {p} : WorkInv(q)'
    BY <1>0, <2>3, WorkKept
  <2>6. pc'[p] = "installing" => dirs[v] = Absent
    BY <1>0, <1>10 DEF ReadForStage, Goto, StoreTypeOK
  <2>7. pc'[p] = "writing" => dirs[v] = op[p].content /\ ~Registered(registry, v)
    BY <1>0, <1>10 DEF ReadForStage, Goto, StoreTypeOK
  <2>8. Registered(registry, v) => dirs[v] = registry.entry[v].content /\ dirs[v] # Absent
    BY <1>0, <2>2, <2>4, EntryContent DEF Sound, StoreTypeOK
  <2>9. WorkInv(p)'
    BY <2>1, <2>3, <2>4, <2>6, <2>7, <2>8 DEF WorkInv
  <2>10. reported' = reported \/ /\ reported' = reported \cup {<<v, op[p].content>>}
                                 /\ dirs[v] = op[p].content /\ Registered(registry, v)
    BY <1>10 DEF ReadForStage, Report
  <2>11. ReportedStaysRegistered'
    BY <2>2, <2>3, <2>8, <2>10 DEF StoreInv, RegistryInv, ReportedStaysRegistered
  <2> QED
    BY <2>3, <2>4, <2>5, <2>9, <2>11 DEF RegistryInv
<1>11. ASSUME NEW p \in Procs, Install(p) PROVE RegistryInv'
  <2> DEFINE v == op[p].version
  <2>1. op[p] \in Operations /\ op[p].kind = "stage" /\ ~Registered(copy[p], v)
    BY <1>0, <1>11 DEF Install, StoreTypeOK, Idle, WorkInv
  <2>2. v \in Versions /\ op[p].content \in Contents
    BY <2>1, OperationTypes
  <2>3. /\ UNCHANGED <<registry, op, copy, reported, usurped>>
        /\ \A q \in Procs \ {p} : pc'[q] = pc[q]
        /\ pc[p] = "installing" /\ pc'[p] \in {"writing", "releasing"}
    BY <1>0, <1>11 DEF Install, Goto, StoreTypeOK
  <2>4. /\ \A u \in Versions : dirs[u] # Absent => dirs'[u] = dirs[u]
        /\ pc'[p] = "writing" => dirs'[v] = op[p].content
    BY <1>0, <1>11, <2>2 DEF Install, Goto, StoreTypeOK
  <2>5. \A q \in Procs \ {p} : WorkInv(q)'
    BY <1>0, <2>3, <2>4, WorkKept
  <2>6. Sound(registry, dirs') /\ Sound(copy[p], dirs')
    BY <1>0, <2>4, SoundGrows DEF StoreInv, RegistryInv, WorkInv, StoreTypeOK
  <2>7. WorkInv(p)'
    BY <1>0, <2>1, <2>3, <2>4, <2>6 DEF WorkInv
  <2>8. ReportedStaysRegistered'
    <3>1. \A r \in reported : r[1] \in Versions /\ r[2] # Absent
      BY <1>0, StoreConstants DEF StoreTypeOK
    <3> QED
      BY <2>3, <2>4, <3>1 DEF StoreInv, RegistryInv, ReportedStaysRegistered
  <2> QED
    BY <2>3, <2>5, <2>6, <2>7, <2>8 DEF RegistryInv
<1>12. ASSUME NEW p \in Procs, ReadForActivation(p) PROVE RegistryInv'
  <2> DEFINE v == Target(registry, op[p])
  <2>1. op[p] \in Operations /\ op[p].kind # "stage"
    BY <1>0, <1>12 DEF ReadForActivation, StoreTypeOK, Idle
  <2>2. /\ copy'[p] = registry /\ UNCHANGED <<registry, dirs, op, reported, usurped>>
        /\ \A q \in Procs \ {p} : pc'[q] = pc[q] /\ copy'[q] = copy[q]
    BY <1>0, <1>12 DEF ReadForActivation, Goto, StoreTypeOK
  <2>3. Sound(registry, dirs) /\ ReportedStaysRegistered
    BY DEF StoreInv, RegistryInv
  <2>4. \A q \in Procs \ {p} : WorkInv(q)'
    BY <1>0, <2>2, WorkKept
  <2>5. /\ pc'[p] # "installing"
        /\ pc'[p] = "writing" => v # Absent /\ Registered(registry, v) /\ registry.active # v
    BY <1>0, <1>12 DEF ReadForActivation, Goto, StoreTypeOK, Valid
  <2>6. v # Absent => v \in Versions
    BY <1>0, <2>1, TargetVersion DEF StoreTypeOK
  <2>7. WorkInv(p)'
    BY <2>1, <2>2, <2>3, <2>5, <2>6 DEF WorkInv
  <2>8. ReportedStaysRegistered'
    BY <2>2, <2>3 DEF ReportedStaysRegistered
  <2> QED
    BY <2>2, <2>3, <2>4, <2>7, <2>8 DEF RegistryInv
<1>13. ASSUME NEW p \in Procs, WriteRegistry(p) PROVE RegistryInv'
  <2>1. /\ registry' = Written(p) /\ UNCHANGED <<dirs, op, copy, usurped>>
        /\ pc[p] = "writing" /\ pc'[p] = "releasing"
        /\ \A q \in Procs \ {p} : pc'[q] = pc[q]
    BY <1>0, <1>13 DEF WriteRegistry, Goto, StoreTypeOK
  <2>2. Sound(Written(p), dirs)
    BY <1>0, <2>1, WrittenSound
  <2>3. ~usurped => \A q \in Procs \ {p} : pc[q] \notin {"installing", "writing"}
    BY <2>1 DEF StoreInv, LockInv, AtWork
  <2>4. \A q \in Procs \ {p} : WorkInv(q)'
    BY <1>0, <2>1, <2>3, WorkKept
  <2>5. WorkInv(p)'
    BY <1>0, <2>1 DEF WorkInv
  <2>6. ReportedStaysRegistered'
    <3>1. ASSUME NEW r \in reported
          PROVE  dirs[r[1]] = r[2] /\ (usurped \/ Written(p).entry[r[1]].content = r[2])
      <4>1. r[1] \in Versions /\ r[2] # Absent
        BY <1>0, StoreConstants DEF StoreTypeOK
      <4>2. dirs[r[1]] = r[2] /\ (usurped \/ registry.entry[r[1]].content = r[2])
        BY DEF StoreInv, RegistryInv, ReportedStaysRegistered
      <4>3. usurped \/ copy[p] = registry
        BY <1>0, <2>1 DEF WorkInv
      <4>4. usurped \/ Registered(copy[p], r[1])
        BY <4>1, <4>2, <4>3 DEF Registered, NoEntry
      <4> QED
        BY <1>0, <2>1, <4>1, <4>2, <4>3, <4>4, WrittenSound
    <3>2. op[p].kind = "stage" => /\ dirs[op[p].version] = op[p].content
                                  /\ Written(p).entry[op[p].version].content = op[p].content
      BY <1>0, <2>1, WrittenSound DEF WorkInv
    <3>3. reported' = reported \/ /\ op[p].kind = "stage"
                                  /\ reported' = reported \cup {<<op[p].version, op[p].content>>}
      BY <1>13 DEF WriteRegistry, Report
    <3> QED
      BY <2>1, <3>1, <3>2, <3>3 DEF ReportedStaysRegistered
  <2> QED
    BY <2>1, <2>2, <2>4, <2>5, <2>6 DEF RegistryInv
<1>15. CASE LockAges \/ UNCHANGED storeVars
  <2>1. UNCHANGED <<registry, dirs, pc, op, copy, reported, usurped>>
    BY <1>15 DEF LockAges, storeVars
  <2>2. \A q \in Procs : WorkInv(q)'
    BY <1>0, <2>1, WorkKept
  <2> QED
    BY <2>1, <2>2 DEF StoreInv, RegistryInv, ReportedStaysRegistered
<1> QED
  BY <1>1, <1>2, <1>3, <1>4, <1>5, <1>6, <1>7, <1>8, <1>9, <1>10, <1>11, <1>12,
     <1>13, <1>14, <1>15 DEF StoreNext, ProcStep
----------------------------------------------------------------------------
(* The theorems.                                                           *)

\* A new store satisfies the invariant.
LEMMA StoreInitInv == StoreInit => StoreInv
<1> SUFFICES ASSUME StoreInit PROVE StoreInv
  OBVIOUS
<1>1. StoreTypeOK
  BY EmptyIsRegistry, StoreConstants DEF StoreInit, StoreTypeOK, Idle
<1>2. LockInv
  BY DEF StoreInit, LockInv, AtWork
<1>3. RegistryInv
  BY EmptyIsSound DEF StoreInit, RegistryInv, WorkInv, ReportedStaysRegistered
<1> QED
  BY <1>1, <1>2, <1>3 DEF StoreInv

\* The inductive invariant: the type of every variable, who holds the lock, and that
\* the registry and every process's copy of it are sound.
THEOREM StoreInductive == StoreSpec => []StoreInv
<1>1. StoreInv /\ [StoreNext]_storeVars => StoreInv'
  BY TypeStep, LockStep, RegistryStep DEF StoreInv
<1> QED
  BY StoreInitInv, <1>1, PTL DEF StoreSpec

\* Two processes never both believe they hold the registry lock (_registry_lock),
\* whatever crashes, waits and removals of stale locks happen, until
\* _remove_stale_lock takes the lock from a live process.
THEOREM LockExclusion == StoreSpec => []LockExcludes
<1>1. StoreInv => LockExcludes
  <2> SUFFICES ASSUME StoreInv, ~usurped
               PROVE  Cardinality({p \in Procs : pc[p] \in Critical}) <= 1
    BY DEF LockExcludes
  <2> DEFINE H == {p \in Procs : pc[p] \in Critical}
  <2>1. \A p, q \in H : p = q
    BY DEF StoreInv, LockInv, AtWork
  <2>2. CASE H = {}
    BY <2>2, FS_EmptySet
  <2>3. CASE H # {}
    <3>1. PICK p : H = {p}
      BY <2>1, <2>3
    <3> QED
      BY <3>1, FS_Singleton
  <2> QED
    BY <2>2, <2>3
<1> QED
  BY StoreInductive, <1>1, PTL

\* The registry that readers load names installed releases only and its parts agree,
\* even after a lock was usurped and processes overwrote each other's registries.
THEOREM RegistrySoundness == StoreSpec => []RegistryConsistent
<1>1. StoreInv => RegistryConsistent
  BY DEF StoreInv, RegistryInv, Sound, RegistryConsistent
<1> QED
  BY StoreInductive, <1>1, PTL

\* What stage reported stays on disk, and registered until a lock is usurped.
THEOREM ReportsKept == StoreSpec => []ReportedStaysRegistered
<1>1. StoreInv => ReportedStaysRegistered
  BY DEF StoreInv, RegistryInv
<1> QED
  BY StoreInductive, <1>1, PTL
\* Every step of the store is a step of the catalog, or none that its readers see.
LEMMA CatalogStep == StoreInv /\ [StoreNext]_storeVars => [Catalog!Next]_(Catalog!vars)
<1> SUFFICES ASSUME StoreInv, [StoreNext]_storeVars PROVE [Catalog!Next]_(Catalog!vars)
  OBVIOUS
<1> DEFINE cat == {v \in Versions : Registered(registry, v)}
<1>0. StoreTypeOK /\ (\A p \in Procs : WorkInv(p)) /\ Sound(registry, dirs)
  BY DEF StoreInv, RegistryInv
<1>1. CASE UNCHANGED <<dirs, registry, usurped>>
  BY <1>1 DEF Catalog!vars
<1>2. ASSUME NEW p \in Procs, Break(p) PROVE [Catalog!Next]_(Catalog!vars)
  <2>1. UNCHANGED <<dirs, registry>> /\ (usurped' = usurped \/ usurped' = TRUE)
    BY <1>0, <1>2 DEF Break, StoreTypeOK
  <2>2. CASE usurped' = TRUE
    <3>1. Catalog!Break
      BY <2>1, <2>2 DEF Catalog!Break
    <3> QED
      BY <3>1 DEF Catalog!Next
  <2> QED
    BY <1>1, <2>1, <2>2
<1>3. ASSUME NEW p \in Procs, Install(p) PROVE [Catalog!Next]_(Catalog!vars)
  <2>1. op[p] \in Operations /\ op[p].kind = "stage"
    BY <1>0, <1>3 DEF Install, StoreTypeOK, Idle, WorkInv
  <2>2. op[p].version \in Versions /\ op[p].content \in Contents
    BY <2>1, OperationTypes
  <2>3. UNCHANGED <<registry, usurped>>
    BY <1>3 DEF Install
  <2>4. CASE dirs[op[p].version] = Absent
    <3>1. Catalog!Install(op[p].version, op[p].content)
      BY <1>3, <2>3, <2>4 DEF Install, Catalog!Install
    <3> QED
      BY <2>2, <3>1 DEF Catalog!Next
  <2>5. CASE dirs[op[p].version] # Absent
    BY <1>1, <1>3, <2>3, <2>5 DEF Install
  <2> QED
    BY <2>4, <2>5
<1>4. ASSUME NEW p \in Procs, WriteRegistry(p) PROVE [Catalog!Next]_(Catalog!vars)
  <2>1. /\ registry' = Written(p) /\ UNCHANGED <<dirs, usurped>> /\ pc[p] = "writing"
        /\ copy[p] \in Registries
    BY <1>0, <1>4 DEF WriteRegistry, StoreTypeOK
  <2>2. Written(p) \in Registries /\ Sound(Written(p), dirs)
    BY <1>0, <2>1, WrittenSound
  <2>3. op[p] \in Operations
    BY <1>0, <2>1 DEF StoreTypeOK, Idle
  <2>4. cat' = {v \in Versions : Registered(Written(p), v)}
    BY <2>1
  <2>5. CASE usurped
    <3>1. cat' \in SUBSET {v \in Versions : dirs[v] # Absent}
      BY <2>2, <2>4, EntryContent DEF Sound
    <3>2. Written(p).active \in cat' \cup {Absent}
      <4>1. Written(p).active \in Versions \cup {Absent}
        BY <2>2 DEF Registries
      <4>2. Written(p).active \in Versions => Registered(Written(p), Written(p).active)
        BY <2>2, StoreConstants DEF Sound, Registered, NoEntry
      <4> QED
        BY <2>4, <4>1, <4>2
    <3>3. Catalog!Revert
      BY <2>1, <2>5, <3>1, <3>2 DEF Catalog!Revert
    <3> QED
      BY <3>3 DEF Catalog!Next
  <2>6. CASE ~usurped /\ op[p].kind = "stage"
    <3>1. op[p].version \in Versions /\ op[p].content \in Contents
      BY <2>3, <2>6, OperationTypes
    <3>2. copy[p] = registry /\ dirs[op[p].version] # Absent
      BY <1>0, <2>1, <2>6, <3>1, StoreConstants DEF WorkInv
    <3>3. cat' = cat \cup {op[p].version} /\ Written(p).active = registry.active
      BY <1>0, <2>1, <2>4, <2>6, <3>1, <3>2, WrittenSound
    <3>4. Catalog!Register(op[p].version)
      BY <2>1, <3>2, <3>3 DEF Catalog!Register
    <3> QED
      BY <3>1, <3>4 DEF Catalog!Next
  <2>7. CASE ~usurped /\ op[p].kind # "stage"
    <3>1. copy[p] = registry
      BY <1>0, <2>1, <2>7 DEF WorkInv
    <3>2. Written(p).active \in cat /\ cat' = cat
      BY <1>0, <2>1, <2>4, <2>7, <3>1, WrittenSound
    <3>3. Catalog!Activate(Written(p).active)
      BY <2>1, <3>2 DEF Catalog!Activate
    <3> QED
      BY <3>2, <3>3 DEF Catalog!Next
  <2> QED
    BY <2>5, <2>6, <2>7
<1>5. CASE LockAges \/ UNCHANGED storeVars
  BY <1>1, <1>5 DEF LockAges, storeVars
<1>6. ASSUME NEW p \in Procs, ProcStep(p), ~Break(p), ~Install(p), ~WriteRegistry(p)
      PROVE  UNCHANGED <<dirs, registry, usurped>>
  BY <1>6 DEF ProcStep, Begin, MakeLock, WriteOwner, Discard, Examine, TimeOut, ReadForStage,
              ReadForActivation, Release, RemoveLock, Crash
<1> QED
  BY <1>1, <1>2, <1>3, <1>4, <1>5, <1>6 DEF StoreNext

\* The store implements the catalog that its readers rely on (ReleaseCatalog): an
\* installed release never changes, a registered one stays registered, and an active
\* one is replaced by a registered one only, until a live process loses its lock.
THEOREM CatalogRefinement == StoreSpec => ImplementsCatalog
<1>1. StoreInit => Catalog!Init
  BY DEF StoreInit, Catalog!Init, EmptyRegistry, Registered
<1> QED
  BY StoreInductive, <1>1, CatalogStep, PTL DEF StoreSpec, ImplementsCatalog, Catalog!Spec
=============================================================================
