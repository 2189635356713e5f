---------------------------- MODULE ScoringRules ----------------------------
(* OpportunityScorer, analyze_demand and the evidence-quality gate, as      *)
(* operators on the evidence of one scan.  Shares and signals are integers  *)
(* in ten-thousandths (Unit is one), calculation steps are in               *)
(* ten-thousandths of a point and scores in hundredths of a point, the two  *)
(* precisions the code rounds to.  The code computes between the two in     *)
(* floats: a score here may differ from it by one hundredth.  The           *)
(* configuration is config/scoring.yaml and config/evidence_quality.yaml.   *)
EXTENDS Integers, Sequences, FiniteSets, FiniteSetsExt, SequencesExt

CONSTANT None \* the code's None

Unit == 10000

Round(n, d) == (2 * n + d) \div (2 * d)
Least(a, b) == IF a < b THEN a ELSE b
Most(a, b) == IF a > b THEN a ELSE b
Clamp(v, top) == Most(0, Least(top, v))

\* _bounded, from ten-thousandths of a point to hundredths
Bounded(v, weight) == Round(Clamp(v, weight * Unit), 100)

SumOver(S, f(_)) == SumFunctionOnSet([x \in S |-> f(x)], S)
SumSeq(s, f(_)) == SumOver(DOMAIN s, LAMBDA i : f(s[i]))
OrZero(v) == IF v = None THEN 0 ELSE v

\* mean(values or [0]), as a numerator and a denominator
Known(metrics, field) == {i \in DOMAIN metrics : metrics[i][field] # None}
Total(metrics, field) == SumOver(Known(metrics, field), LAMBDA i : metrics[i][field])

Weights == [demand_evidence |-> 24, commercial_value |-> 16, competitor_weakness |-> 22,
            organic_click_availability |-> 16, provider_suitability |-> 14,
            data_completeness |-> 8]
Components == DOMAIN Weights

---------------------------------------------------------------------------
(* Demand                                                                    *)

HighIntents == {"transactional", "commercial"}
National == {"country", "national"}
Local == {"city", "postal_code", "county", "metro", "market", "local"}

VolumeAt(metrics, granularities) ==
    SumOver({i \in DOMAIN metrics : metrics[i].granularity \in granularities},
            LAMBDA i : OrZero(metrics[i].volume))

\* PopulationShareDemandEstimator.estimate, in hundredths of a monthly search
Estimate(national, market) ==
    IF national <= 0 \/ market.population = None \/ market.reference = None
    THEN None
    ELSE Round(100 * national * market.population, market.reference)

LocalConfidence(metrics) ==
    LET local == {metrics[i].granularity : i \in DOMAIN metrics} \cap Local
    IN  IF local # {} /\ local \subseteq {"city", "postal_code", "local"}
        THEN "high" ELSE "medium"

\* analyze_demand: volumes in hundredths of a monthly search
Demand(metrics, market) ==
    LET national == VolumeAt(metrics, National)
        measured == VolumeAt(metrics, Local)
        estimate == Estimate(national, market)
    IN  IF measured > 0
        THEN [service |-> national, market |-> 100 * measured, kind |-> "measured_local",
              confidence |-> LocalConfidence(metrics)]
        ELSE [service |-> national, market |-> estimate,
              kind |-> IF estimate = None THEN "missing" ELSE "estimated_local",
              confidence |-> IF estimate = None THEN "none" ELSE "low"]

\* _demand_evidence: 65% of the points for the service, 35% for the market, of
\* which a population estimate can earn two fifths
MarketProfile(demand) ==
    IF demand.kind = "measured_local" THEN [strong |-> 50, credit |-> 100]
                                      ELSE [strong |-> 15, credit |-> 40]

\* _demand_component_detail: the two steps of the demand trace
DemandSteps(demand) ==
    LET profile == MarketProfile(demand)
    IN  << 100 * Round(Least(demand.service, 900) * 1560, 900),
           100 * Round(Least(OrZero(demand.market) * 840, 840 * profile.strong * profile.credit),
                       100 * profile.strong) >>

\* The points of a trace, a function on the labels of its steps
Steps(trace) == SumOver(DOMAIN trace, LAMBDA label : trace[label])

---------------------------------------------------------------------------
(* Commercial value                                                          *)

\* 9 points for CPC against $28 (in cents), 3 for paid competition against 0.80
\* (in percent) and 4 for the share of high-intent keywords
CommercialSteps(metrics) ==
    LET cpcs == Most(1, Cardinality(Known(metrics, "cpc")))
        paid == Most(1, Cardinality(Known(metrics, "paid")))
        high == Cardinality({i \in DOMAIN metrics : metrics[i].intent \in HighIntents})
    IN  << Round(9 * Unit * Least(Total(metrics, "cpc"), 2800 * cpcs), 2800 * cpcs),
           Round(3 * Unit * Least(Total(metrics, "paid"), 80 * paid), 80 * paid),
           Round(4 * Unit * high, Most(1, Len(metrics))) >>

---------------------------------------------------------------------------
(* How much a query's results count                                          *)

PositionWeight == <<100, 90, 80, 65, 55, 45, 35, 28, 22, 18>>
PositionCapacity == SumSeq(PositionWeight, LAMBDA w : w)

\* metrics_by_query, with setdefault: the first metric of that keyword
MetricOf(query, metrics) ==
    LET matches == {i \in DOMAIN metrics : metrics[i].keyword = query}
    IN  IF matches = {} THEN None ELSE metrics[Min(matches)]

Largest(queries, metrics, field) ==
    Max({0} \cup {OrZero(MetricOf(q, metrics)[field]) :
                  q \in {r \in queries : MetricOf(r, metrics) # None}})

\* _query_keyword_evidence: 60% demand and 40% CPC, relative to the largest of
\* the queries compared, at least a quarter; a query without a signal weighs one
KeywordWeight(query, queries, metrics) ==
    LET m == MetricOf(query, metrics)
        signal(field, share) ==
            LET top == Largest(queries, metrics, field)
            IN  IF m = None \/ top = 0 THEN <<0, 0>>
                ELSE IF m[field] = None THEN <<0, 0>>
                ELSE <<share, share * Round(Unit * m[field], top)>>
        demand == signal("volume", 60)
        commercial == signal("cpc", 40)
        shares == demand[1] + commercial[1]
    IN  IF shares = 0 THEN Unit
        ELSE Most(Unit \div 4, Round(demand[2] + commercial[2], shares))

---------------------------------------------------------------------------
(* Competitor weakness                                                       *)

ArchetypeAdjustment(archetype) ==
    CASE archetype = "directory" -> 1500
      [] archetype \in {"marketplace", "informational_publisher"} -> 800
      [] archetype = "lead_generator" -> 400
      [] archetype = "national_brand" -> -1000
      [] OTHER -> 0

\* A page with 35 referring domains or fewer is weak, with 260 or more strong
LinkWeakness(refs) ==
    IF refs = None THEN 4500
    ELSE Unit - Round(Unit * Clamp(refs - 35, 225), 225)

\* Service relevance, local relevance and their interaction, and the weakness
\* they take away
RelevanceDeduction(c) ==
    LET service == IF c.relevance = None THEN Unit \div 2 ELSE Clamp(c.relevance, Unit)
        local == Clamp(OrZero(c.local), Unit)
        direct == Round(55 * service + 25 * local + 20 * Round(service * local, Unit), 100)
    IN  -Round(LinkWeakness(c.refs) * Round(65 * direct, 100), Unit)

RawWeakness(c) ==
    LinkWeakness(c.refs) + RelevanceDeduction(c) + ArchetypeAdjustment(c.archetype)

\* _competitor_position_weight: positions past the tenth weigh the least
CompetitorPositionWeight(position) ==
    IF position \in DOMAIN PositionWeight THEN PositionWeight[position]
    ELSE Min(ToSet(PositionWeight))

Queries(competitors) ==
    UNION {{o.query : o \in competitors[i].observations} : i \in DOMAIN competitors}

\* _competitor_exposures: every place the domain holds, weighted by its query
Exposure(c, queries, metrics) ==
    IF c.observations = {} THEN Unit
    ELSE SumOver(c.observations,
                 LAMBDA o : Round(KeywordWeight(o.query, queries, metrics)
                                    * CompetitorPositionWeight(o.position), 100))

\* _unique_domain_competitors: one record per domain, the best placed one, with
\* the observations of all of them
BestPosition(c) ==
    IF c.observations = {} THEN None ELSE Min({o.position : o \in c.observations})

BetterPlaced(c, d) ==
    /\ BestPosition(c) # None
    /\ BestPosition(d) = None \/ BestPosition(c) < BestPosition(d)

UniqueDomains(competitors) ==
    LET same(i) == {j \in DOMAIN competitors : competitors[j].domain = competitors[i].domain}
        chosen == {i \in DOMAIN competitors : \A j \in same(i) \ {i} :
                       \/ BetterPlaced(competitors[i], competitors[j])
                       \/ i < j /\ ~BetterPlaced(competitors[j], competitors[i])}
    IN  [i \in chosen |-> [competitors[i] EXCEPT !.observations =
                             UNION {competitors[j].observations : j \in same(i)}]]

\* The exposure-weighted mean of f over unique competitors, as points
ExposureMean(competitors, metrics, f(_)) ==
    LET queries == Queries(competitors)
        weight(i) == Exposure(competitors[i], queries, metrics)
    IN  Weights.competitor_weakness
          * Round(SumOver(DOMAIN competitors, LAMBDA i : f(competitors[i]) * weight(i)),
                  SumOver(DOMAIN competitors, weight))

\* Mutant: page clamping is not traced
MutStepsUnclamped(competitors, metrics) ==
    IF competitors = <<>> THEN <<0>>
    ELSE LET unique == UniqueDomains(competitors)
         IN  << ExposureMean(unique, metrics, LAMBDA c : LinkWeakness(c.refs)),
                ExposureMean(unique, metrics, RelevanceDeduction),
                ExposureMean(unique, metrics, LAMBDA c : ArchetypeAdjustment(c.archetype)) >>

\* The trace: links, relevance, archetypes, and what clamping single pages gave
\* back
CompetitorSteps(competitors, metrics) ==
    IF competitors = <<>> THEN <<0>>
    ELSE LET unique == UniqueDomains(competitors)
             mean(f(_)) == ExposureMean(unique, metrics, f)
         IN  << mean(LAMBDA c : LinkWeakness(c.refs)),
                mean(RelevanceDeduction),
                mean(LAMBDA c : ArchetypeAdjustment(c.archetype)),
                mean(LAMBDA c : Clamp(RawWeakness(c), Unit) - RawWeakness(c)) >>

CompetitorWeakness(competitors, metrics) ==
    IF competitors = <<>> THEN 0
    ELSE Bounded(ExposureMean(UniqueDomains(competitors), metrics,
                              LAMBDA c : Clamp(RawWeakness(c), Unit)),
                 Weights.competitor_weakness)

---------------------------------------------------------------------------
(* Organic click availability                                                *)

ClassPenalty == [directory |-> 35, marketplace |-> 30, national_brand |-> 30,
                 lead_generator |-> 20, informational_publisher |-> 10, unknown |-> 8]
FeaturePenalty == [shopping |-> 16, local_pack |-> 14, ads_top |-> 12]

Organic(snapshot) == {r \in snapshot.results : r.type = "organic"}
NoOrganic(serps) == \A i \in DOMAIN serps : Organic(serps[i]) = {}

SerpWeights(serps, metrics) ==
    LET queries == {serps[i].query : i \in DOMAIN serps}
    IN  [i \in DOMAIN serps |-> KeywordWeight(serps[i].query, queries, metrics)]

\* The results of a class among the first ten
Placed(class, snapshot) ==
    {r \in Organic(snapshot) : r.class = class /\ r.order \in DOMAIN PositionWeight}

\* The share of the weighted top-ten capacity they hold
ClassShare(class, serps, metrics) ==
    LET weights == SerpWeights(serps, metrics)
        held == SumOver(DOMAIN serps, LAMBDA i : weights[i]
                  * SumOver(Placed(class, serps[i]), LAMBDA r : PositionWeight[r.order]))
        capacity == PositionCapacity * SumSeq(weights, LAMBDA w : w)
    IN  Round(100 * held, capacity \div 100)

ShoppingTypes == {"shopping", "popular_products", "product_considerations",
                  "refine_products", "explore_brands"}

HasFeature(snapshot, feature) ==
    IF feature = "shopping"
    THEN ShoppingTypes \cap (snapshot.features \cup {r.type : r \in snapshot.results}) # {}
    ELSE feature \in snapshot.features

\* _weighted_serp_feature_share
FeatureShare(feature, serps, metrics) ==
    LET weights == SerpWeights(serps, metrics)
        affected == {i \in DOMAIN serps : HasFeature(serps[i], feature)}
    IN  Round(Unit * SumOver(affected, LAMBDA i : weights[i]),
              SumSeq(weights, LAMBDA w : w))

ClassDeduction(class, serps, metrics) ==
    Round(ClassShare(class, serps, metrics) * ClassPenalty[class] * 16, 100)
FeatureDeduction(feature, serps, metrics) ==
    Round(FeatureShare(feature, serps, metrics) * FeaturePenalty[feature] * 16, 100)

\* _organic_click_availability: what every displacement leaves of the allowance
OrganicAvailability(serps, metrics) ==
    IF NoOrganic(serps) THEN 0
    ELSE Bounded(16 * Unit
           - SumOver(DOMAIN ClassPenalty, LAMBDA c : ClassDeduction(c, serps, metrics))
           - SumOver(DOMAIN FeaturePenalty, LAMBDA f : FeatureDeduction(f, serps, metrics)), 16)

\* Its trace has a step for the classes and the features met only
OrganicSteps(serps, metrics) ==
    LET classes == {r.class : r \in UNION {Organic(serps[i]) : i \in DOMAIN serps}}
                     \cap DOMAIN ClassPenalty
        features == {f \in DOMAIN FeaturePenalty : FeatureShare(f, serps, metrics) > 0}
    IN  IF NoOrganic(serps) THEN [missing |-> 0]
        ELSE [label \in {"baseline"} \cup classes \cup features |->
                CASE label = "baseline" -> 16 * Unit
                  [] label \in classes -> -ClassDeduction(label, serps, metrics)
                  [] label \in features -> -FeatureDeduction(label, serps, metrics)]

UnknownShare(serps, metrics) ==
    IF NoOrganic(serps) THEN 0 ELSE ClassShare("unknown", serps, metrics)

---------------------------------------------------------------------------
(* Provider suitability                                                      *)

StatusValue(status) ==
    CASE status \in {"open", "closed_now", "active", "operational"} -> 1000
      [] status \in {"temporarily_closed", "closed", "closed_forever", "permanently_closed"} -> 0
      [] OTHER -> 250

\* provider_suitability_summary: the credible tenants and the mean of the best five
Suitable(providers) ==
    {i \in DOMAIN providers : providers[i].score >= 5500 /\ StatusValue(providers[i].status) > 0}

TopQuality(providers) ==
    LET suitable == Suitable(providers)
        ahead(i) == {j \in suitable : \/ providers[j].score > providers[i].score
                                      \/ providers[j].score = providers[i].score /\ j < i}
        top == {i \in suitable : Cardinality(ahead(i)) < 5}
    IN  Round(SumOver(top, LAMBDA i : providers[i].score), Most(1, Cardinality(top)))

\* Mutant: with no listing at all, supply is assumed
MutSupplyAssumed(providers) ==
    LET weight == Weights.provider_suitability
        suitable == IF providers = <<>> THEN 2 ELSE Cardinality(Suitable(providers))
        supply == Round(65 * weight * Unit * Least(suitable, 2), 200)
        multiplier == IF suitable > 14 THEN 72 ELSE IF suitable > 8 THEN 88 ELSE 100
    IN  << supply, -Round(supply * (100 - multiplier), 100),
           Round(35 * weight * TopQuality(providers), 100) >>

\* _provider_suitability: supply up to two, less when there are too many, and
\* the quality of the best
ProviderSteps(providers) ==
    LET weight == Weights.provider_suitability
        suitable == Cardinality(Suitable(providers))
        supply == Round(65 * weight * Unit * Least(suitable, 2), 200)
        multiplier == IF suitable > 14 THEN 72 ELSE IF suitable > 8 THEN 88 ELSE 100
    IN  << supply, -Round(supply * (100 - multiplier), 100),
           Round(35 * weight * TopQuality(providers), 100) >>

---------------------------------------------------------------------------
(* What is missing and what it costs                                         *)

MissingFields(e, demand) ==
    {f \in {"keyword_metrics", "local_demand", "serp_snapshots", "competitor_metrics",
            "provider_candidates", "keyword_cpc", "serp_results"} :
        CASE f = "keyword_metrics" -> e.metrics = <<>>
          [] f = "local_demand" -> demand.market = None
          [] f = "serp_snapshots" -> e.serps = <<>>
          [] f = "competitor_metrics" -> e.competitors = <<>>
          [] f = "provider_candidates" -> e.providers = <<>>
          [] f = "keyword_cpc" -> e.metrics # <<>> /\ Known(e.metrics, "cpc") = {}
          [] f = "serp_results" ->
                e.serps # <<>> /\ \A i \in DOMAIN e.serps : e.serps[i].results = {}}

CompletenessSteps(missing) ==
    << 8 * Unit, -Round(8 * Unit * Cardinality(missing), 7) >>

Severity == [keyword_metrics |-> 8, keyword_cpc |-> 1, local_demand |-> 3,
             provider_candidates |-> 4, competitor_metrics |-> 8, serp_snapshots |-> 10,
             serp_results |-> 10]

\* _missing_data_penalties: proportional, 24 points together at most
MissingPenalty(missing) ==
    LET raw == SumOver(missing, LAMBDA f : Severity[f])
    IN  SumOver(missing, LAMBDA f : IF raw > 24 THEN Round(2400 * Severity[f], raw)
                                                ELSE 100 * Severity[f])

EvidenceStatus(missing, assessment) ==
    IF assessment = "preliminary" THEN "preliminary"
    ELSE IF "competitor_metrics" \in missing THEN "unusable"
    ELSE IF missing # {} THEN "partial" ELSE "complete"

\* _missing_evidence_score_cap
ScoreCap(missing, assessment) ==
    IF assessment = "preliminary" THEN None
    ELSE IF "competitor_metrics" \in missing THEN 4000
    ELSE IF missing \cap {"serp_snapshots", "serp_results"} # {} THEN 6000 ELSE None

---------------------------------------------------------------------------
(* Confidence                                                                *)

Levels == <<"insufficient", "low", "medium", "high">>
Rank(level) == CHOOSE i \in DOMAIN Levels : Levels[i] = level
Lower(a, b) == IF Rank(a) < Rank(b) THEN a ELSE b

\* _source_mode and its penalty, in hundredths of a point like the rest
SourcePenalty(mode) ==
    CASE mode = "live" -> 0 [] mode = "replay" -> 500 [] mode = "sandbox" -> 1500
      [] mode = "fixture" -> 2500 [] OTHER -> 1000

\* Missing evidence and how well the market's demand is known
DemandDeduction(demand) ==
    IF demand.market = None THEN 2000
    ELSE CASE demand.confidence = "low" -> 1200
           [] demand.confidence = "medium" -> 400
           [] OTHER -> 0

\* _oldest_age_days against 90 and 30 days
StaleMetrics(e) == \E i \in DOMAIN e.metrics : e.metrics[i].stale
StaleSerps(e) == \E i \in DOMAIN e.serps : e.serps[i].stale

AgeDeduction(e) ==
    (IF StaleMetrics(e) THEN 1000 ELSE 0) + (IF StaleSerps(e) THEN 1500 ELSE 0)

\* The samples: three SERPs, three competitors, two providers
Short(actual, target) == Most(0, target - actual)
SampleDeduction(e) ==
    Round(1000 * Short(Len(e.serps), 3), 3) + Round(1000 * Short(Len(e.competitors), 3), 3)
      + Round(800 * Short(Len(e.providers), 2), 2)
Undersampled(e) == Len(e.serps) < 3 \/ Len(e.competitors) < 3 \/ Len(e.providers) < 2

\* Unknown results past a quarter of the capacity
PoorlyClassified(e) == UnknownShare(e.serps, e.metrics) > Unit \div 4

\* Mutant: a population estimate only loses points
MutCapsIgnoreEstimate(e, missing, demand) ==
    LET full == e.assessment # "preliminary"
        medium == \/ e.mode = "sandbox" \/ StaleMetrics(e) \/ StaleSerps(e)
                  \/ PoorlyClassified(e) \/ Undersampled(e) \/ ~full
        low == \/ demand.market = None \/ e.mode = "fixture"
               \/ full /\ missing \cap {"serp_snapshots", "serp_results"} # {}
        none == full /\ "competitor_metrics" \in missing
    IN  {"high"} \cup (IF medium THEN {"medium"} ELSE {})
          \cup (IF low THEN {"low"} ELSE {}) \cup (IF none THEN {"insufficient"} ELSE {})

\* The levels the evidence is capped at, by what is wrong with it
ConfidenceCaps(e, missing, demand) ==
    LET full == e.assessment # "preliminary"
        medium == \/ demand.market # None /\ demand.confidence = "low"
                  \/ e.mode = "sandbox" \/ StaleMetrics(e) \/ StaleSerps(e)
                  \/ PoorlyClassified(e) \/ Undersampled(e) \/ ~full
        low == \/ demand.market = None \/ e.mode = "fixture"
               \/ full /\ missing \cap {"serp_snapshots", "serp_results"} # {}
        none == full /\ "competitor_metrics" \in missing
    IN  {"high"} \cup (IF medium THEN {"medium"} ELSE {})
          \cup (IF low THEN {"low"} ELSE {}) \cup (IF none THEN {"insufficient"} ELSE {})

\* _confidence: what is left of 100 against the thresholds, then the caps
Level(left) ==
    IF left >= 8500 THEN "high" ELSE IF left >= 6500 THEN "medium"
    ELSE IF left >= 4000 THEN "low" ELSE "insufficient"

Lowest(levels) == CHOOSE c \in levels : \A d \in levels : Rank(c) <= Rank(d)

Confidence(e, missing, demand) ==
    LET left == Clamp(10000 - 800 * Cardinality(missing \ {"local_demand"})
                  - DemandDeduction(demand) - SourcePenalty(e.mode) - AgeDeduction(e)
                  - (IF PoorlyClassified(e) THEN Round(UnknownShare(e.serps, e.metrics), 10) ELSE 0)
                  - SampleDeduction(e), 10000)
    IN  Lower(Level(left), Lowest(ConfidenceCaps(e, missing, demand)))

---------------------------------------------------------------------------
(* The score                                                                 *)

\* The calculation steps of every component
Trace(e, missing, demand) ==
    [demand_evidence |-> DemandSteps(demand),
     commercial_value |-> CommercialSteps(e.metrics),
     competitor_weakness |-> CompetitorSteps(e.competitors, e.metrics),
     organic_click_availability |-> OrganicSteps(e.serps, e.metrics),
     provider_suitability |-> ProviderSteps(e.providers),
     data_completeness |-> CompletenessSteps(missing)]

\* The component scores: competitor weakness and click availability have
\* formulas of their own, the others add the points they also trace
ComponentScores(e, trace) ==
    [c \in Components |->
        CASE c = "competitor_weakness" -> CompetitorWeakness(e.competitors, e.metrics)
          [] c = "organic_click_availability" -> OrganicAvailability(e.serps, e.metrics)
          [] OTHER -> Bounded(Steps(trace[c]), Weights[c])]

\* The components added up, with the penalties and the cap for what is missing
Combined(components, trace, missing, assessment, confidence) ==
    LET uncapped == Most(0, SumOver(Components, LAMBDA c : components[c]) - MissingPenalty(missing))
        cap == ScoreCap(missing, assessment)
    IN  [total |-> IF cap = None THEN uncapped ELSE Least(uncapped, cap),
         uncapped |-> uncapped, cap |-> cap, components |-> components, trace |-> trace,
         missing |-> missing, status |-> EvidenceStatus(missing, assessment),
         confidence |-> confidence]

ScoreTraced(e, missing, demand, trace) ==
    Combined(ComponentScores(e, trace), trace, missing, e.assessment,
             Confidence(e, missing, demand))

ScoreKnowing(e, missing, demand) == ScoreTraced(e, missing, demand, Trace(e, missing, demand))

\* OpportunityScorer.score
Score(e) ==
    LET demand == Demand(e.metrics, e.market)
    IN  ScoreKnowing(e, MissingFields(e, demand), demand)

---------------------------------------------------------------------------
(* The evidence-quality gate                                                 *)

\* _text_relevance_share against a minimum, in percent; no text is irrelevant
Relevant(flags, minimum) ==
    /\ flags # <<>>
    /\ 100 * Cardinality({i \in DOMAIN flags : flags[i]}) >= minimum * Len(flags)

\* EvidenceQualityEvaluator.assess: what makes evidence unusable
QualityErrors(e) ==
    {issue \in {"keyword_service_relevance", "representative_query_relevance",
                "provider_service_relevance", "competitor_sample_coverage",
                "unconfigured_service"} :
        CASE issue = "keyword_service_relevance" ->
                ~Relevant([i \in DOMAIN e.metrics |-> e.metrics[i].relevant], 60)
          [] issue = "representative_query_relevance" ->
                ~Relevant([i \in DOMAIN e.serps |-> e.serps[i].relevant], 67)
          [] issue = "provider_service_relevance" ->
                e.providers # <<>> /\
                ~Relevant([i \in DOMAIN e.providers |-> e.providers[i].service >= 350], 20)
          [] issue = "competitor_sample_coverage" ->
                e.assessment = "full" /\ Len(e.competitors) < 3
          [] issue = "unconfigured_service" -> e.assessment = "full" /\ ~e.configured}

\* ... and what makes it doubtful
QualityWarnings(e) ==
    LET organic == SumSeq(e.serps, LAMBDA s : Cardinality(Organic(s)))
        unknown == SumSeq(e.serps, LAMBDA s : Cardinality({r \in Organic(s) : r.class = "unknown"}))
    IN  (IF e.providers # <<>> /\
            ~Relevant([i \in DOMAIN e.providers |-> e.providers[i].geographic >= 500], 50)
         THEN {"provider_geographic_relevance"} ELSE {})
        \cup (IF organic = 0 \/ 100 * unknown > 60 * organic
              THEN {"serp_classification_coverage"} ELSE {})

Quality(e) ==
    IF QualityErrors(e) # {} THEN "fail"
    ELSE IF QualityWarnings(e) # {} THEN "warning" ELSE "pass"

\* apply_to_score
ApplyToScore(score, quality) ==
    CASE quality = "pass" -> score
      [] quality = "warning" ->
            [score EXCEPT !.confidence = Lower(score.confidence, "medium")]
      [] OTHER -> [score EXCEPT !.total = Least(score.total, 3500), !.status = "unusable",
                       !.cap = IF score.cap = None THEN 3500 ELSE Least(score.cap, 3500),
                       !.confidence = "insufficient"]
=============================================================================
