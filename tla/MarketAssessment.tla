-------------------------- MODULE MarketAssessment --------------------------
(* What DiscoveryPipeline.run computes for one scan: the market is assessed  *)
(* from public data, the provider calls are planned and admitted, keywords   *)
(* are planned and clustered, SERPs classified, competitors chosen and       *)
(* enriched, providers scored, the SERPs classified again with them, and the *)
(* result gated, scored and published on the opportunity.  A request for a   *)
(* shortlist assesses a batch of markets with the same code and stops there. *)
(* Releases of public data change meanwhile (PublicDataStore).  Leases,      *)
(* stages and cancellation are in ScanExecution.                             *)
(*                                                                           *)
(* A text is the set of its words.  Keywords and URLs are numbers in their   *)
(* alphabetical order.                                                       *)
EXTENDS MarketPrefilter

CONSTANTS
    Setups,           \* what a scan or a shortlist starts from
    Releases,         \* [dataset, old, rows] of every release of public data
    Words,            \* the words of every keyword
    Service,          \* [words, seeds, negatives, categories]: token sets
    Seeds,            \* service_seed_keywords
    MarketWords,      \* the words of the market's name, cities and state
    CloseText,        \* pairs of cluster keys SequenceMatcher finds 92% alike
    CandidateLists,   \* what discover_keywords may answer
    MetricAnswers,    \* what get_keyword_metrics may say of each keyword
    SerpAnswers,      \* the items get_serp_snapshot may be answered with
    CompetitorAnswers,\* what get_competitor_metrics may say of each domain
    ProviderLists     \* what find_providers may answer

\* A market of the geography index; only its id and its population are always there
MarketRecord ==
    [id : Int, county : STRING \cup {None}, population : Nat, households : Nat \cup {None},
     housing_units : Nat \cup {None}, owner_occupied_units : Nat \cup {None},
     median_year_built : Nat \cup {None}, year : Nat, area : Nat]

ASSUME SetupConstants ==
    \A su \in Setups :
        /\ su.mode \in {"live", "sandbox", "replay", "fixture"}
        /\ su.profile \in {"testing", "full"}
        /\ su.cached \in [Endpoints -> Nat]
        /\ su.kept \in [Endpoints -> Nat]
        /\ su.allowed.cost \in Nat
        /\ su.market.population \in Nat \cup {None}
        /\ su.market.reference \in (Nat \ {0}) \cup {None}
        /\ su.markets \in Seq(MarketRecord) /\ su.limit \in Int
        /\ su.active \in [ToSet(Datasets) -> DOMAIN Releases \cup {None}]
        /\ \A d \in ToSet(Datasets) :
              su.active[d] # None => Releases[su.active[d]].dataset = d

\* A release is of one dataset; DatasetRecord: a measurement is a number or missing
ASSUME ReleaseConstants ==
    \A v \in DOMAIN Releases :
        /\ v # None /\ Releases[v].dataset \in ToSet(Datasets) /\ IsFiniteSet(Releases[v].rows)
        /\ \A r \in Releases[v].rows : \A m \in DOMAIN r.values : r.values[m] \in Int \cup {None}

ASSUME KeywordConstants ==
    /\ DOMAIN Words \subseteq Int
    /\ \A k \in DOMAIN Words : IsFiniteSet(Words[k])
    /\ IsFiniteSet(Service.words) /\ IsFiniteSet(MarketWords)
    /\ IsFiniteSet(Service.categories) /\ \A c \in Service.categories : IsFiniteSet(c)
    /\ Seeds \in Seq(DOMAIN Words)
    /\ CandidateLists \subseteq Seq(DOMAIN Words)

\* What an answer says of one keyword: no count and no price is negative
KeywordAnswer ==
    [volume : Nat \cup {None}, cpc : Nat \cup {None}, paid : Nat \cup {None},
     intent : STRING \cup {None}]

ASSUME MetricConstants ==
    \A a \in MetricAnswers :
        /\ a.stale \in BOOLEAN
        /\ \A k \in DOMAIN Words : a.of[k] \in KeywordAnswer \cup {None}

\* SerpResult; an item without a URL does not become one
Item ==
    [order : Nat, url : Int \cup {None}, domain : STRING \cup {None}, words : SUBSET STRING,
     site : SUBSET STRING, type : STRING, class : {"unknown"}]

\* A URL is of one domain; rank_absolute is the place of an item, and no other has it
ASSUME SerpConstants ==
    \A a, b \in SerpAnswers :
        /\ a.stale \in BOOLEAN /\ IsFiniteSet(a.items) /\ a.items \subseteq Item
        /\ \A r \in a.items, q \in b.items : r.url # None /\ r.url = q.url => r.domain = q.domain
        /\ \A r, q \in a.items : r.url # None /\ q.url # None /\ r.order = q.order => r = q

\* ProviderCandidate
Listing ==
    [domain : STRING \cup {None}, name : SUBSET STRING, categories : SUBSET (SUBSET STRING),
     km : Int \cup {None}, area : BOOLEAN, address : BOOLEAN, status : STRING,
     channels : SUBSET {"website", "phone", "email", "contact_form"},
     contact : Int \cup {None}, listed : BOOLEAN, rating : Int \cup {None},
     reviews : Int \cup {None}]

ASSUME ProviderConstants ==
    \A list \in ProviderLists :
        list \in Seq(Listing) /\ \A i \in DOMAIN list : IsFiniteSet(list[i].categories)

VARIABLES setup, stage, included, metrics, selected, serps, competitors, providers,
          score, quality, opp,
          active, changes,  \* the active release of each dataset, how often it changed
          reading,          \* the snapshot that is being read, dataset by dataset
          assessed,         \* the markets assessed, or the shortlist
          plan, made, spent \* the admitted plan, the calls made, their price

evidence == <<included, metrics, selected, serps, competitors, providers, score, quality>>
public == <<active, changes, reading, assessed>>
calls == <<plan, made, spent>>
vars == <<setup, stage, evidence, opp, public, calls>>

---------------------------------------------------------------------------
(* Keywords                                                                  *)

\* The elements of s at the given positions, in their order
At(s, positions) ==
    [n \in 1..Cardinality(positions) |->
        s[CHOOSE i \in positions : Cardinality({j \in positions : j < i}) = n - 1]]

\* s sorted by falling value, ties as they came
Ahead(value, positions, i) ==
    {j \in positions : value[j] > value[i] \/ (value[j] = value[i] /\ j < i)}
Ranked(s, value) ==
    [n \in DOMAIN s |->
        s[CHOOSE i \in DOMAIN s : Cardinality(Ahead(value, DOMAIN s, i)) = n - 1]]

\* plan_keyword_candidates: no empty, negative or repeated keyword
Negative(k) == \E term \in Service.negatives : term \subseteq Words[k]

PlanCandidates(list) ==
    At(list, {i \in DOMAIN list : /\ Words[list[i]] # {}
                                  /\ ~Negative(list[i])
                                  /\ \A j \in 1..(i - 1) : Words[list[j]] # Words[list[i]]})

\* DataForSEOLiveProvider.discover_keywords: the seeds when there is no answer,
\* and _rank_keyword_candidates
BuyerTerms == {"contractor", "company", "companies", "repair", "installation", "installer",
               "service", "services", "near", "me"}
CandidateValue(k) ==
    100 * (10 * Cardinality(Words[k] \cap Service.words) + 4 * Cardinality(Words[k] \cap BuyerTerms)
             - (IF \E t \in Service.negatives : Cardinality(t) = 1 /\ t \subseteq Words[k]
                THEN 6 ELSE 0)) - k

AskedSeeds(su) == SubSeq(Seeds, 1, Least(Len(Seeds), SeedLimit(su.profile)))
Candidates(su, list) ==
    IF su.mode = "fixture" THEN list
    ELSE LET found == IF list = <<>> THEN AskedSeeds(su) ELSE list
         IN  Ranked(found, [i \in DOMAIN found |-> CandidateValue(found[i])])

\* _infer_intent, for a keyword the provider states none of
TransactionalTerms == {"repair", "replacement", "installation", "emergency", "service"}
Intent(k, stated) ==
    IF stated # None THEN stated
    ELSE IF Words[k] \cap TransactionalTerms # {} \/ {"near", "me"} \subseteq Words[k]
    THEN "transactional" ELSE "commercial"

\* _labs_granularity: live and replayed volumes of a U.S. market are national
Granularity(su) == IF su.mode = "fixture" THEN su.market.kind ELSE "country"

\* _cluster_key: the keyword without its local words
LocalModifiers == {"near", "me", "nearby", "local", "in"}
ClusterKey(k) == Words[k] \ (LocalModifiers \cup MarketWords)

\* _matching_cluster_key
SameCluster(a, b) ==
    \/ a = b
    \/ /\ a # {} /\ b # {}
       /\ 10 * Cardinality(a \cap b) >= 9 * Most(Cardinality(a), Cardinality(b))
    \/ {a, b} \in CloseText

\* A metric joins the first group whose key is like its own, or opens one: the
\* metric that opened the group of each
Clusters(ms) ==
    LET opener[i \in DOMAIN ms] ==
            LET alike == {j \in 1..(i - 1) :
                            /\ opener[j] = j
                            /\ SameCluster(ClusterKey(ms[i].keyword), ClusterKey(ms[j].keyword))}
            IN  IF alike = {} THEN i ELSE Min(alike)
    IN  opener

\* _metric_value_score, in hundredths: relevance, intent, CPC, volume, locality
LocalQuality(k) ==
    IF {"near", "me"} \subseteq Words[k] THEN 80
    ELSE IF Words[k] \cap MarketWords # {} THEN 100 ELSE 45

MetricValue(m) ==
    Round(4000 * Cardinality(Words[m.keyword] \cap Service.words),
          Most(1, Cardinality(Service.words)))
      + (IF m.intent \in HighIntents THEN 2500 ELSE 625)
      + Round(1800 * Least(OrZero(m.cpc), 3000), 3000)
      + Round(1200 * Least(OrZero(m.volume), 1000), 1000)
      + 5 * LocalQuality(m.keyword)

\* A group counts once, as its best keyword with the largest of its volumes
Representative(ms, members) ==
    LET value == [i \in DOMAIN ms |-> MetricValue(ms[i])]
    IN  [ms[CHOOSE i \in members : Ahead(value, members, i) = {}] EXCEPT !.volume =
            Max({OrZero(ms[i].volume) : i \in members})]

\* rank_and_cluster_keyword_metrics
Grouped(ms) ==
    LET opener == Clusters(ms)
    IN  At([i \in DOMAIN ms |-> Representative(ms, {j \in DOMAIN ms : opener[j] = i})],
           {i \in DOMAIN ms : opener[i] = i})
ScoringMetrics(ms) ==
    LET groups == Grouped(ms)
    IN  Ranked(groups, [i \in DOMAIN groups |-> MetricValue(groups[i])])

Keywords(ms, limit) == [i \in 1..Least(Len(ms), limit) |-> ms[i].keyword]

---------------------------------------------------------------------------
(* Search results                                                            *)

\* Mutant: the local rule before the language rules
MutLocalFirst == <<
    [class |-> "marketplace", domains |-> {"thumbtack.com", "taskrabbit.com"}, text |-> {}],
    [class |-> "directory", domains |-> {"yelp.com", "angi.com", "houzz.com"}, text |-> {}],
    [class |-> "local_provider", domains |-> {}, text |-> {}],
    [class |-> "informational_publisher", domains |-> {}, text |-> {"guide", "diy"}] >>

\* config/serp_classification.yaml, in its order, with some of its domains and words: the
\* last rule is the local one
Rules == <<
    [class |-> "marketplace", domains |-> {"thumbtack.com", "taskrabbit.com"}, text |-> {}],
    [class |-> "directory", domains |-> {"yelp.com", "angi.com", "houzz.com"}, text |-> {}],
    [class |-> "national_brand", domains |-> {"homedepot.com", "lowes.com"}, text |-> {}],
    [class |-> "government_or_nonprofit", domains |-> {"usa.gov"}, text |-> {}],
    [class |-> "lead_generator", domains |-> {}, text |-> {"quotes", "referral"}],
    [class |-> "informational_publisher", domains |-> {}, text |-> {"guide", "diy"}],
    [class |-> "local_provider", domains |-> {}, text |-> {}] >>

RuleMatches(rule, r) == r.domain \in rule.domains \/ rule.text \cap r.words # {}

ServiceTerms == {"repair", "service", "installation", "contractor", "emergency"}
IdentityTerms == {"licensed", "insured"}
BusinessTerms == {"co", "company", "contractors", "pros", "plumbing", "repair"}

\* _provider_listing_match: the listing's site, or most of its name
ListingMatches(r, p) ==
    \/ p.domain # None /\ p.domain = r.domain
    \/ /\ p.name # {}
       /\ 10 * Cardinality(r.words \cap p.name) >= 6 * Cardinality(p.name)

\* _local_provider_match: service, market and business evidence together
LocalMatches(r, listings) ==
    /\ r.words \cap (Service.words \cup Service.seeds \cup ServiceTerms) # {}
    /\ r.words \cap MarketWords # {}
    /\ \/ r.words \cap IdentityTerms # {}
       \/ r.site \cap BusinessTerms # {}
       \/ \E i \in DOMAIN listings : ListingMatches(r, listings[i])

\* classify_result: the first rule that matches
ClassOf(r, listings) ==
    LET hits == {i \in DOMAIN Rules :
                    IF Rules[i].class = "local_provider" THEN LocalMatches(r, listings)
                                                         ELSE RuleMatches(Rules[i], r)}
    IN  IF hits = {} THEN "unknown" ELSE Rules[Min(hits)].class

Classified(snapshot, listings) ==
    [snapshot EXCEPT !.results = {[r EXCEPT !.class = ClassOf(r, listings)] : r \in @}]

\* get_serp_snapshot: an item without a URL is a feature only
Snapshot(query, answer) ==
    [query |-> query, stale |-> answer.stale,
     results |-> {r \in answer.items : r.url # None},
     features |-> {r.type : r \in answer.items} \ {"organic"},
     relevant |-> Words[query] \cap (Service.words \cup Service.seeds) # {}]

---------------------------------------------------------------------------
(* Competitors                                                               *)

\* _serp_observations_by_domain
Observations(snapshots) ==
    UNION {{[domain |-> r.domain, query |-> snapshots[i].query, position |-> r.order,
             url |-> r.url] : r \in Organic(snapshots[i])} : i \in DOMAIN snapshots}

\* _observation_sort_key
Before(a, b) ==
    \/ a.position < b.position
    \/ a.position = b.position /\ a.query < b.query
    \/ a.position = b.position /\ a.query = b.query /\ a.url < b.url

First(observations) ==
    CHOOSE o \in observations : \A p \in observations \ {o} : Before(o, p)

OfDomain(d, snapshots) == {o \in Observations(snapshots) : o.domain = d}

\* select_competitor_urls: the best placed page of each domain, the best domains
SelectCompetitors(snapshots, limit) ==
    LET best == {First(OfDomain(d, snapshots)) : d \in {o.domain : o \in Observations(snapshots)}}
        rank(o) == Cardinality({p \in best : Before(p, o)}) + 1
        chosen == {o \in best : rank(o) <= limit}
    IN  [n \in 1..Cardinality(chosen) |-> (CHOOSE o \in chosen : rank(o) = n).domain]

\* The result behind an observation
ResultAt(o, snapshots) ==
    CHOOSE r \in UNION {Organic(snapshots[i]) : i \in {j \in DOMAIN snapshots :
                                                        snapshots[j].query = o.query}} :
        r.order = o.position /\ r.url = o.url

Overlap(words, expected) ==
    Round(Unit * Cardinality(words \cap expected), Most(1, Cardinality(expected)))

\* The type of its page as the SERP says, or the provider when the SERP does not
PageType(class, reported) == IF class = "unknown" THEN reported ELSE class

Archetype(page) ==
    IF page \in {"directory", "marketplace", "lead_generator", "national_brand", "local_provider",
                 "informational_publisher", "government_or_nonprofit"} THEN page ELSE "unknown"

\* get_competitor_metrics: only a fixture knows relevance and page type
Reported(su, answer) ==
    [d \in DOMAIN answer |->
        IF answer[d] = None \/ su.mode = "fixture" THEN answer[d]
        ELSE [answer[d] EXCEPT !.relevance = None, !.local = None, !.page = "unknown"]]

CompetitorAnswer ==
    [refs : Nat \cup {None}, relevance : Nat \cup {None}, local : Nat \cup {None},
     page : {"unknown", "local_provider", "directory"}]

\* An answer is about every domain that can be asked for.  Only the fixture states
\* a page type, and what it takes for a directory the rules know as one
ASSUME CompetitorConstants ==
    \A answer \in CompetitorAnswers :
        /\ \A a \in SerpAnswers : \A r \in a.items :
              r.url # None /\ r.type = "organic" => r.domain \in DOMAIN answer
        /\ \A d \in DOMAIN answer : answer[d] # None =>
              /\ answer[d] \in CompetitorAnswer
              /\ answer[d].page = "directory" =>
                    \E i \in DOMAIN Rules : Rules[i].class = "directory" /\ d \in Rules[i].domains

\* enrich_competitors, for the domains answered
Enriched(domains, answer, snapshots) ==
    LET answered == At(domains, {i \in DOMAIN domains : answer[domains[i]] # None})
        enrich(d) ==
            LET seen == OfDomain(d, snapshots)
                result == ResultAt(First(seen), snapshots)
            IN  [domain |-> d, refs |-> answer[d].refs, reported |-> answer[d].page,
                 relevance |-> Most(OrZero(answer[d].relevance), Overlap(result.words, Service.words)),
                 local |-> Most(OrZero(answer[d].local), Overlap(result.words, MarketWords)),
                 archetype |-> Archetype(PageType(result.class, answer[d].page)),
                 observations |-> seen]
    IN  [i \in DOMAIN answered |-> enrich(answered[i])]

---------------------------------------------------------------------------
(* Providers                                                                 *)

\* _token_coverage, in thousandths like every provider signal
Coverage(words, expected) ==
    IF words = {} \/ expected = {} THEN 0
    ELSE Round(1000 * Cardinality(words \cap expected), Cardinality(expected))

\* _service_fit: a configured category, or how much of one, or of the service's
\* language, the listing covers
ServiceFit(p) ==
    LET text == p.name \cup UNION p.categories
        configured == Max({0} \cup {Coverage(c, e) : c \in p.categories, e \in Service.categories})
        language == Max({Coverage(text, e) : e \in Service.categories \cup {Service.words}})
    IN  IF p.categories \cap Service.categories # {} THEN 1000
        ELSE Most(configured, Round(65 * language, 100))

\* _geographic_fit: within 25 km, nothing past 100; the service area; the address
GeographicFit(p) ==
    Max({0} \cup (IF p.km = None THEN {} ELSE {Clamp(Round(1000 * (100 - p.km), 75), 1000)})
            \cup (IF p.area THEN {1000} ELSE {}) \cup (IF p.address THEN {850} ELSE {}))

ChannelStrength == [website |-> 300, phone |-> 850, email |-> 1000, contact_form |-> 900]

\* find_providers: how certain a contact is, and the status of a shop that is shut
FoundProvider(su, p) ==
    IF su.mode = "fixture" THEN p
    ELSE [p EXCEPT
        !.contact = IF p.channels \cap {"phone", "email"} # {} THEN (IF p.listed THEN 90 ELSE 80)
                    ELSE IF "website" \in p.channels THEN 55 ELSE None,
        !.status = IF @ = "close" THEN "closed_now" ELSE @]

\* _contactability: the strongest channel, less as the contact is less certain
Contactability(p) ==
    LET certain == IF p.contact = None THEN 50 ELSE Clamp(p.contact, 100)
    IN  Round(Max({0} \cup {ChannelStrength[c] : c \in p.channels}) * (300 + certain), 400)

\* _reputation: the rating in tenths of a star, and up to 100 reviews
Reputation(p) ==
    Round(700 * Clamp(OrZero(p.rating), 50), 50) + Round(300 * Clamp(OrZero(p.reviews), 100), 100)

\* _score_provider
ScoredProvider(p) ==
    LET total == Round(30 * ServiceFit(p) + 25 * GeographicFit(p) + 15 * StatusValue(p.status)
                         + 20 * Contactability(p) + 10 * Reputation(p), 10)
    IN  [domain |-> p.domain, name |-> p.name, status |-> p.status,
         service |-> ServiceFit(p), geographic |-> GeographicFit(p),
         score |-> IF StatusValue(p.status) <= 0 THEN Least(total, 4000) ELSE Clamp(total, 10000)]

---------------------------------------------------------------------------
(* The scan                                                                  *)

Preliminary == Live(setup) /\ setup.profile = "testing"

\* Mutant: the depth of the settings, not of this scan
MutSerpLimit == 3

SerpLimit == IF Preliminary THEN 1 ELSE 3
CompetitorLimit == IF Preliminary THEN 0 ELSE 5

NoReading == [parts |-> <<>>, named |-> None, rows |-> None, torn |-> {}]

Init ==
    /\ setup \in Setups
    /\ stage = "prefiltering"
    /\ included = <<>> /\ metrics = <<>> /\ selected = <<>> /\ serps = <<>>
    /\ competitors = <<>> /\ providers = <<>>
    /\ score = None /\ quality = None
    /\ opp = [latest |-> setup.latest,
              confidence |-> IF setup.latest = None THEN "insufficient" ELSE "high",
              state |-> "queued"]
    /\ active = setup.active /\ changes = 0
    /\ reading = NoReading /\ assessed = <<>>
    /\ plan = None /\ made = NoCalls /\ spent = 0

---------------------------------------------------------------------------
(* Public data                                                               *)

Reading == stage = "prefiltering" /\ Len(assessed) < Len(setup.markets)
Current == setup.markets[Len(assessed) + 1]
AtDataset == Datasets[Len(reading.parts) + 1]
Unread == Reading /\ Len(reading.parts) < Len(Datasets)

\* A process activates a release or goes back to one: torn remembers that it did
\* between two reads of that dataset
Activate(r) ==
    LET d == Releases[r].dataset
    IN  /\ Reading /\ changes < setup.changes
        /\ active[d] # r
        /\ active' = [active EXCEPT ![d] = r]
        /\ changes' = changes + 1
        /\ reading' = IF Unread /\ reading.named # None /\ d = AtDataset
                      THEN [reading EXCEPT !.torn = @ \cup {d}] ELSE reading
        /\ UNCHANGED <<setup, stage, evidence, opp, assessed, calls>>

Part(named, rows) ==
    [reading EXCEPT !.parts = Append(@, [release |-> named, rows |-> rows]),
                    !.named = None, !.rows = None]

\* snapshot names the active release of a dataset ...
ReadManifest ==
    /\ Unread /\ reading.named = None
    /\ reading' = IF active[AtDataset] = None THEN Part(None, {})
                  ELSE [reading EXCEPT !.named = active[AtDataset]]
    /\ UNCHANGED <<setup, stage, evidence, opp, active, changes, assessed, calls>>

\* ... then active_records looks for the active release again and reads it ...
ReadRecords ==
    LET rows == {r \in Releases[active[AtDataset]].rows : r.geo = Current.id}
    IN  /\ Unread /\ reading.named # None /\ reading.rows = None
        /\ reading' = IF AtDataset \in Supply /\ Current.county # None
                      THEN [reading EXCEPT !.rows = rows] ELSE Part(reading.named, rows)
        /\ UNCHANGED <<setup, stage, evidence, opp, active, changes, assessed, calls>>

\* ... and a third time for the county's rows of the supply datasets.
Identity(r) == <<r.geo, r.geoid, r.code>>
ReadCounty ==
    LET known == {Identity(r) : r \in reading.rows}
        county == {r \in Releases[active[AtDataset]].rows :
                      r.geoid = Current.county /\ Identity(r) \notin known}
    IN  /\ Unread /\ reading.rows # None
        /\ reading' = Part(reading.named, reading.rows \cup county)
        /\ UNCHANGED <<setup, stage, evidence, opp, active, changes, assessed, calls>>

Parts ==
    LET at(d) == CHOOSE i \in DOMAIN Datasets : Datasets[i] = d
    IN  [d \in {Datasets[i] : i \in {j \in DOMAIN Datasets : reading.parts[j].release # None}} |->
            reading.parts[at(d)]]

\* assess_record
AssessMarket ==
    /\ Reading /\ ~Unread
    /\ LET stale == \E d \in DOMAIN Parts : Releases[Parts[d].release].old
           a == Assessment(setup.service, Current, Parts, stale)
       IN  assessed' = Append(assessed,
                Merged(a, [torn |-> reading.torn,
                           versions |-> {Parts[d].release : d \in DOMAIN Parts}]))
    /\ reading' = NoReading
    /\ UNCHANGED <<setup, stage, evidence, opp, active, changes, calls>>

\* api_market_prefilter: the shortlist is stored
ListMarkets ==
    /\ stage = "prefiltering" /\ setup.batch /\ ~Reading
    /\ assessed' = Shortlist(assessed, setup.limit)
    /\ stage' = "listed"
    /\ UNCHANGED <<setup, evidence, opp, active, changes, reading, calls>>

---------------------------------------------------------------------------
(* The scan                                                                  *)

\* A blocked plan ends the run before it touches the opportunity
PlanScan ==
    /\ stage = "prefiltering" /\ ~setup.batch /\ ~Reading
    /\ plan' = ScanPlan(setup, Len(Seeds))
    /\ IF plan'.blocked THEN stage' = "blocked" /\ UNCHANGED opp
       ELSE stage' = "discovering_keywords" /\ opp' = [opp EXCEPT !.state = "running"]
    /\ UNCHANGED <<setup, evidence, public, made, spent>>

\* n calls of the live provider; the cache may have lost (or found) since the
\* plan was made what it answers now
Call(e, n) ==
    LET free == IF e \in RequestKnown THEN Least(n, setup.kept[e])
                ELSE IF setup.warm THEN n ELSE 0
    IN  /\ made' = IF Live(setup) THEN [made EXCEPT ![e] = @ + n] ELSE made
        /\ spent' = IF setup.mode = "live" THEN spent + Price[e] * (n - free) ELSE spent
        /\ UNCHANGED plan

DiscoverKeywords(list) ==
    /\ stage = "discovering_keywords"
    /\ included' = PlanCandidates(Candidates(setup, list))
    /\ stage' = "fetching_metrics"
    /\ Call("keyword_discovery", Len(AskedSeeds(setup)))
    /\ UNCHANGED <<setup, metrics, selected, serps, competitors, providers, score, quality, opp,
                   public>>

\* get_keyword_metrics answers for some of the keywords
Answered(answer) == At(included, {i \in DOMAIN included : answer.of[included[i]] # None})

FetchMetrics(answer) ==
    /\ stage = "fetching_metrics"
    /\ LET ks == Answered(answer)
           ms == [i \in DOMAIN ks |->
                    [keyword |-> ks[i], volume |-> answer.of[ks[i]].volume,
                     cpc |-> answer.of[ks[i]].cpc, paid |-> answer.of[ks[i]].paid,
                     intent |-> Intent(ks[i], answer.of[ks[i]].intent), granularity |-> Granularity(setup),
                     stale |-> answer.stale,
                     relevant |-> Words[ks[i]] \cap (Service.words \cup Service.seeds) # {}]]
       IN  /\ metrics' = ScoringMetrics(ms)
           /\ selected' = Keywords(metrics', SerpLimit)
    /\ stage' = "fetching_serps"
    /\ Call("keyword_metrics", IF included = <<>> THEN 0 ELSE 1)
    /\ UNCHANGED <<setup, included, serps, competitors, providers, score, quality, opp, public>>

\* One representative keyword after another, classified without the providers
FetchSerp(answer) ==
    /\ stage = "fetching_serps"
    /\ Len(serps) < Len(selected)
    /\ serps' = Append(serps, Classified(Snapshot(selected[Len(serps) + 1], answer), <<>>))
    /\ Call("serp", 1)
    /\ UNCHANGED <<setup, stage, included, metrics, selected, competitors, providers, score,
                   quality, opp, public>>

\* No call when there is no competitor to ask about
FetchCompetitors(answer) ==
    /\ stage = "fetching_serps"
    /\ Len(serps) = Len(selected)
    /\ LET domains == SelectCompetitors(serps, CompetitorLimit)
       IN  /\ competitors' = Enriched(domains, Reported(setup, answer), serps)
           /\ Call("competitors", Len(domains))
    /\ stage' = "fetching_providers"
    /\ UNCHANGED <<setup, included, metrics, selected, serps, providers, score, quality, opp,
                   public>>

\* The SERPs are classified again; the competitors keep what they were told
FetchProviders(list) ==
    /\ stage = "fetching_providers"
    /\ providers' = [i \in DOMAIN list |-> ScoredProvider(FoundProvider(setup, list[i]))]
    /\ Call("provider_discovery", 1)
    /\ serps' = [i \in DOMAIN serps |-> Classified(serps[i], providers')]
    /\ stage' = "scoring"
    /\ UNCHANGED <<setup, included, metrics, selected, competitors, score, quality, opp, public>>

Evidence ==
    [metrics |-> metrics, serps |-> serps, competitors |-> competitors, providers |-> providers,
     market |-> setup.market, mode |-> setup.mode, configured |-> setup.configured,
     assessment |-> IF Preliminary THEN "preliminary" ELSE "full"]

ScoreScan ==
    /\ stage = "scoring"
    /\ quality' = Quality(Evidence)
    /\ score' = ApplyToScore(Score(Evidence), quality')
    /\ stage' = "persisting_results"
    /\ UNCHANGED <<setup, included, metrics, selected, serps, competitors, providers, opp, public,
                   calls>>

\* Mutant: a partial assessment ranks too
MutRanksPartial(result) == ~Preliminary /\ result.status # "unusable"

\* What the opportunity keeps of the assessment
Ranks(result) == ~Preliminary /\ result.status = "complete"

NextState ==
    IF quality = "fail" \/ (~Preliminary /\ score.status # "complete") THEN "needs_more_evidence"
    ELSE IF Preliminary THEN "preliminary_review" ELSE "full_review"

PublishedConfidence ==
    CASE Preliminary /\ opp.latest = None ->
            IF quality = "fail" THEN "insufficient" ELSE "preliminary"
      [] ~Preliminary /\ (Ranks(score) \/ opp.latest = None) -> score.confidence
      [] OTHER -> opp.confidence

Publish ==
    /\ stage = "persisting_results"
    /\ opp' = [latest |-> IF Ranks(score) THEN score.total ELSE opp.latest,
               confidence |-> PublishedConfidence, state |-> NextState]
    /\ stage' = "completed"
    /\ UNCHANGED <<setup, evidence, public, calls>>

\* Any call may raise: the run fails and the ranked score stays; before the scan
\* has started the opportunity does not change
Fail ==
    /\ stage \notin {"completed", "failed", "blocked", "listed"}
    /\ stage' = "failed"
    /\ opp' = IF stage = "prefiltering" THEN opp ELSE [opp EXCEPT !.state = "needs_more_evidence"]
    /\ UNCHANGED <<setup, evidence, public, calls>>

Next ==
    \/ \E r \in DOMAIN Releases : Activate(r)
    \/ ReadManifest
    \/ ReadRecords
    \/ ReadCounty
    \/ AssessMarket
    \/ ListMarkets
    \/ PlanScan
    \/ \E list \in CandidateLists : DiscoverKeywords(list)
    \/ \E answer \in MetricAnswers : FetchMetrics(answer)
    \/ \E answer \in SerpAnswers : FetchSerp(answer)
    \/ \E answer \in CompetitorAnswers : FetchCompetitors(answer)
    \/ \E list \in ProviderLists : FetchProviders(list)
    \/ ScoreScan
    \/ Publish
    \/ Fail

Spec == Init /\ [][Next]_vars

---------------------------------------------------------------------------
(* Properties                                                                *)

\* Every component lies between zero and its weight, the score between zero and
\* one hundred and under its cap (_bounded, score.py:37; the caps, score.py:143).
TypeOK ==
    /\ stage \in {"prefiltering", "listed", "blocked", "discovering_keywords", "fetching_metrics",
                  "fetching_serps", "fetching_providers", "scoring", "persisting_results", "completed", "failed"}
    /\ opp.state \in {"queued", "running", "needs_more_evidence", "preliminary_review", "full_review"}
    /\ score # None =>
         /\ \A c \in Components : score.components[c] \in 0..(100 * Weights[c])
         /\ score.total \in Nat /\ score.total <= 10000
         /\ score.cap # None => score.total <= score.cap
         /\ score.confidence \in ToSet(Levels)

Abs(n) == IF n < 0 THEN -n ELSE n

\* "Signed calculation steps that reconcile to the component score"
\* (docs/scoring_v2.md:40): the trace of every component adds up to the score it
\* explains, page clamping and conditional steps included, to rounding.
TraceReconciles ==
    TypeOK /\ (stage = "persisting_results" =>
        \A c \in Components :
            Abs(Steps(score.trace[c]) - 100 * score.components[c]) <= 100)

\* The competitors are enriched before the providers are known and the SERPs are
\* classified again after (scanner.py:221-234), so an archetype may be stale when
\* it is scored.  Scoring the competitors with the classes of the final SERPs
\* gives the same points.
Fresh(c) ==
    [c EXCEPT !.archetype =
        Archetype(PageType(ResultAt(First(c.observations), serps).class, c.reported))]
StaleArchetypeHarmless ==
    stage = "scoring" =>
        CompetitorWeakness([i \in DOMAIN competitors |-> Fresh(competitors[i])], metrics)
          = CompetitorWeakness(competitors, metrics)

\* "Missing evidence ... applies field-specific attractiveness penalties"
\* (docs/scoring_v2.md:21): evidence that lacks a group scores no more than the
\* same evidence with it, although the missing group also moves the weights of
\* the queries in two other components (_query_keyword_evidence).
Withheld(e) ==
    {[e EXCEPT !.metrics = <<>>], [e EXCEPT !.serps = <<>>], [e EXCEPT !.competitors = <<>>],
     [e EXCEPT !.providers = <<>>],
     [e EXCEPT !.serps = [i \in DOMAIN e.serps |-> [e.serps[i] EXCEPT !.results = {}]]]}
WithheldNeverOutranks ==
    stage = "persisting_results" /\ score.missing = {} =>
        \A e \in Withheld(Evidence) : Score(e).uncapped <= score.uncapped

\* An opportunity's ranked score is replaced only by a full assessment of a
\* configured service with relevant keywords and queries, at least three
\* competitors and no missing evidence, and then it goes to review; on live
\* evidence such a score always has some confidence (scanner.py:310-324).
RankedIsSound ==
    [][opp'.latest # opp.latest =>
         /\ ~Preliminary /\ setup.configured
         /\ Len(competitors) >= 3 /\ serps # <<>> /\ providers # <<>>
         /\ \E i \in DOMAIN metrics : metrics[i].relevant
         /\ opp'.state = "full_review"
         /\ setup.mode = "live" => opp'.confidence # "insufficient"]_vars

\* What a scan publishes never claims more than its evidence: nothing is ever
\* high, because live and replayed volumes are national (live.py:1190) and the
\* population estimate caps the confidence, and fixtures are capped at low;
\* medium needs an estimate of local demand, competitors, and keywords or SERPs
\* that are not stale (docs/scoring_v2.md:21, docs/evidence_quality.md:17).
ConfidenceHonest ==
    stage = "completed" /\ (setup.latest = None \/ Ranks(score)) =>
        /\ opp.confidence # "high"
        /\ opp.confidence = "medium" =>
             /\ setup.mode # "fixture" /\ quality # "fail" /\ competitors # <<>>
             /\ Demand(metrics, setup.market).market # None
             /\ ~(StaleMetrics(Evidence) /\ StaleSerps(Evidence))

\* A scan makes no more provider calls than its admitted plan has, endpoint by
\* endpoint (a call without a planned request is refused, live.py:929), and
\* spends no more than the plan: nothing over MAX_SCAN_COST_USD unless a response
\* that the plan counted as cached is gone when it is asked for.
PlanCoversCalls ==
    plan # None =>
        /\ \A e \in Endpoints : made[e] <= plan.calls[e]
        /\ spent <= plan.cached + plan.uncached
        /\ (\A e \in Endpoints : setup.kept[e] >= setup.cached[e]) =>
               spent <= plan.uncached /\ (spent > 0 => spent <= setup.allowed.cost)

\* "Each assessment includes component points, raw values, source versions"
\* (docs/market_prefilter.md:46): a measure has the value of the release, or of
\* the embedded record, that the assessment names for it, and a confident
\* assessment names only releases within their age, unless that dataset's
\* release changed between the reads of it (snapshot, store.py:227).
EvidenceTraceable ==
    \A i \in DOMAIN assessed :
        LET a == assessed[i] IN
        /\ \A s \in DOMAIN a.evidence \cap Measures :
            LET e == a.evidence[s] IN
            \/ e.source = "embedded" /\ e.value = (IF s \in Embedded THEN a.market[s] ELSE None)
            \/ e.source \in a.versions /\ Releases[e.source].dataset \in a.torn
            \/ /\ e.source \in a.versions
               /\ \E r \in Releases[e.source].rows :
                     r.geo = a.market.id /\ s \in DOMAIN r.values /\ r.values[s] = e.value
        /\ a.confidence \in {"medium", "high"} => \A v \in a.versions : ~Releases[v].old
=============================================================================
