--------------------------- MODULE MarketPrefilter ---------------------------
(* AddressableMarketPrefilter: what a market's public data, the embedded      *)
(* record and the active dataset releases, says of it for a service profile.  *)
(* Rates are in ten-thousandths, densities in thousandths per 10,000          *)
(* households, scores in hundredths of a point.  A market's id stands for its *)
(* label.  The profiles and mappings are those of config/addressable_market.  *)
EXTENDS ScanPlanning

\* DatasetKind, in the order snapshot reads
Datasets == <<"acs", "cbp", "nes", "noaa", "fema">>
Supply == {"cbp", "nes"}

\* A signal of a profile: its weight, its maximum credit and how a value is scored
Higher(weight, scale, strong) ==
    [weight |-> weight, credit |-> 100, scale |-> scale, strong |-> strong]
Ideal(weight, low, high, top) ==
    [weight |-> weight, credit |-> 75, scale |-> "ideal", low |-> low, high |-> high, top |-> top]

\* config/addressable_market/profiles.yaml, three of its profiles
Profiles == [
    plumbing |-> [target |-> "owner_occupied_units", minimum |-> 55, signals |->
        [households |-> Higher(25, "log", 120000),
         owner_occupied_units |-> Higher(25, "log", 80000),
         housing_age |-> Higher(20, "linear", 60),
         homeownership_rate |-> Higher(15, "linear", 7500),
         combined_supply_density |-> Ideal(15, 12000, 42000, 100000)]],
    hvac_services |-> [target |-> "owner_occupied_units", minimum |-> 60, signals |->
        [households |-> Higher(25, "log", 120000),
         housing_age |-> Higher(20, "linear", 50),
         owner_occupied_units |-> Higher(20, "log", 80000),
         storm_exposure |-> [Higher(15, "linear", 10000) EXCEPT !.credit = 60],
         combined_supply_density |-> Ideal(20, 14000, 46000, 110000)]],
    generic_local_service |-> [target |-> "households", minimum |-> 75, signals |->
        [population |-> Higher(30, "log", 300000),
         households |-> Higher(30, "log", 120000),
         housing_units |-> Higher(20, "log", 140000),
         household_density |-> Higher(20, "log", 1200)]]]

\* _profile_for_service
ProfileOf(service) ==
    Profiles[IF service \in DOMAIN Profiles THEN service ELSE "generic_local_service"]

\* config/addressable_market/naics.yaml: the reviewed mapping both trades share
Mappings(service) ==
    IF service \in {"plumbing", "hvac_services"}
    THEN [code \in {"238220"} |-> [relationship |-> "broad_parent", confidence |-> "medium"]]
    ELSE <<>>

EvidenceWeight(mapping) ==
    LET relation == CASE mapping.relationship = "exact" -> 100
                      [] mapping.relationship = "broad_parent" -> 55
                      [] mapping.relationship = "adjacent" -> 25
        certain == CASE mapping.confidence = "high" -> 100
                     [] mapping.confidence = "medium" -> 75
                     [] mapping.confidence = "low" -> 50
    IN  relation * certain

----------------------------------------------------------------------------
(* Signals.  A part of a snapshot is [release, rows]: the manifest of the     *)
(* dataset and the rows of this market.                                       *)

Measures == {"population", "households", "housing_units", "owner_occupied_units",
             "median_year_built", "median_household_income", "storm_exposure"}
Derived == {"homeownership_rate", "housing_age", "household_density", "purchasing_power"}
Embedded == Measures \ {"median_household_income", "storm_exposure"}

\* Two dictionaries as one
Merged(f, g) == [x \in DOMAIN f \cup DOMAIN g |-> IF x \in DOMAIN f THEN f[x] ELSE g[x]]

Rate(part, whole) ==
    IF part = None \/ whole = None \/ whole = 0 THEN None
    ELSE IF whole > 0 THEN Round(Unit * part, whole) ELSE Round(-(Unit * part), -whole)
Age(market, built) == IF built = None THEN None ELSE Most(0, market.year - built)
PerArea(market, households) ==
    IF households = None \/ market.area = 0 THEN None ELSE Round(households, market.area)

\* Mutant: a release's value under the embedded record's name
MutMeasured(market, parts, m) ==
    LET says == {d \in DOMAIN parts \ Supply : \E r \in parts[d].rows : m \in DOMAIN r.values}
        d == CHOOSE d \in says : TRUE
        row == CHOOSE r \in parts[d].rows : m \in DOMAIN r.values
        own == IF m \in Embedded THEN market[m] ELSE None
    IN  IF says = {} THEN [value |-> own, source |-> "embedded"]
        ELSE [value |-> row.values[m], source |-> IF own = None THEN parts[d].release ELSE "embedded"]

\* A measure of a release, missing ones too, replaces the embedded one.  No two
\* of these datasets measure the same thing.
Measured(market, parts, m) ==
    LET says == {d \in DOMAIN parts \ Supply : \E r \in parts[d].rows : m \in DOMAIN r.values}
        d == CHOOSE d \in says : TRUE
        row == CHOOSE r \in parts[d].rows : m \in DOMAIN r.values
    IN  IF says = {} THEN [value |-> IF m \in Embedded THEN market[m] ELSE None,
                           source |-> "embedded"]
        ELSE [value |-> row.values[m], source |-> parts[d].release]

\* The derived signals are the embedded record's; what it cannot derive is
\* derived from the releases, under the embedded record's name.
MarketSignals(market, parts) ==
    LET got(m) == Measured(market, parts, m)
        or(own, other) == [value |-> IF own # None THEN own ELSE other, source |-> "embedded"]
        derived == [
            homeownership_rate |->
                or(Rate(market.owner_occupied_units, market.households),
                   Rate(got("owner_occupied_units").value, got("households").value)),
            housing_age |->
                or(Age(market, market.median_year_built), Age(market, got("median_year_built").value)),
            household_density |->
                or(PerArea(market, market.households), PerArea(market, got("households").value)),
            purchasing_power |-> got("median_household_income")]
    IN  Merged([m \in Measures |-> got(m)], derived)

----------------------------------------------------------------------------
(* Provider density                                                           *)

\* _aggregate_industry_records, the weighted total in thousandths
Aggregated(rows, mappings, measure) ==
    LET used == {r \in rows : /\ r.code \in DOMAIN mappings
                              /\ measure \in DOMAIN r.values /\ r.values[measure] # None}
    IN  IF used = {} THEN None
        ELSE SumOver(used, LAMBDA r : Round(r.values[measure] * EvidenceWeight(mappings[r.code]), 10))

\* _density
Density(total, households) ==
    IF total = None \/ households = None \/ households <= 0 THEN None
    ELSE Round(total * 10000, households)

SupplyMeasure == [cbp |-> "establishments", nes |-> "nonemployer_businesses"]

\* _provider_density
ProviderDensity(service, parts, signals) ==
    LET mappings == Mappings(service)
        target == signals[ProfileOf(service).target].value
        rows(d) == {r \in parts[d].rows : r.code \in DOMAIN mappings}
        totals == [d \in Supply |-> IF d \in DOMAIN parts
                                    THEN Aggregated(rows(d), mappings, SupplyMeasure[d]) ELSE None]
        known == {d \in Supply : Density(totals[d], target) # None}
        used == {mappings[r.code] : r \in UNION {rows(d) : d \in {x \in Supply : totals[x] # None}}}
    IN  [combined |-> IF known = {} THEN None ELSE SumOver(known, LAMBDA d : Density(totals[d], target)),
         confidence |->
            IF known = {} THEN "insufficient"
            ELSE IF /\ {m.confidence : m \in used} = {"high"}
                    /\ {m.relationship : m \in used} = {"exact"}
                    /\ \A d \in Supply : totals[d] # None THEN "high"
            ELSE IF \A m \in used : m.confidence # "low" THEN "medium" ELSE "low"]

----------------------------------------------------------------------------
(* The assessment                                                             *)

\* A whole-number stand-in for log1p
Log(n) == Cardinality({k \in 1..30 : 2^k <= n + 1})

\* _normalize_signal; every configured hard minimum is zero
Normalized(value, signal) ==
    LET v == Most(0, value)
    IN  CASE signal.scale = "linear" -> Least(Unit, Round(Unit * v, signal.strong))
          [] signal.scale = "log" -> Least(Unit, Round(Unit * Log(v), Log(signal.strong)))
          [] OTHER ->
                IF v < signal.low THEN Round(Unit * v, signal.low)
                ELSE IF v <= signal.high THEN Unit
                ELSE Round(Unit * Most(0, signal.top - v), signal.top - signal.high)

\* _assessment_confidence
AssessmentConfidence(coverage, stale, supply) ==
    IF coverage < 50 THEN "insufficient"
    ELSE IF coverage >= 90 /\ ~stale /\ supply \in {"high", "medium"} THEN "high"
    ELSE IF coverage >= 65 /\ ~stale THEN "medium" ELSE "low"

Recommendation(score) ==
    IF score = None THEN "insufficient_evidence"
    ELSE IF score >= 6500 THEN "advance_to_testing"
    ELSE IF score >= 4500 THEN "review" ELSE "defer"

\* The points of every signal of the profile that has a value
Assessed(market, profile, signals, supply, stale) ==
    LET there == {s \in DOMAIN profile.signals : signals[s].value # None}
        points == [s \in DOMAIN profile.signals |->
                    IF s \notin there THEN 0
                    ELSE LET p == profile.signals[s]
                         IN  Round(Normalized(signals[s].value, p) * p.credit * p.weight, Unit)]
        coverage == SumOver(there, LAMBDA s : profile.signals[s].weight)
        score == IF coverage < profile.minimum THEN None
                 ELSE SumOver(DOMAIN points, LAMBDA s : points[s])
    IN  [market |-> market, score |-> score, coverage |-> coverage, points |-> points,
         evidence |-> [s \in DOMAIN profile.signals |-> signals[s]],
         confidence |-> AssessmentConfidence(coverage, stale, supply.confidence),
         recommendation |-> Recommendation(score)]

\* The base signals with the density of providers
Supplied(base, supply) ==
    Merged(base, [combined_supply_density |-> [value |-> supply.combined, source |-> "supply"]])

\* assess_record, from the parts that were read; stale says that a release that
\* was named is past the age the catalog warns about
Assessment(service, market, parts, stale) ==
    LET base == MarketSignals(market, parts)
        supply == ProviderDensity(service, parts, base)
    IN  Assessed(market, ProfileOf(service), Supplied(base, supply), supply, stale)

\* _assessment_sort_key
SortKey(a) ==
    <<IF a.score = None THEN -1 ELSE a.score, a.coverage, a.market.population, a.market.id>>

Higher4(k, l) == \E i \in 1..4 : k[i] > l[i] /\ \A j \in 1..(i - 1) : k[j] = l[j]

\* assess_batch: the best of the batch, at most the limit and at least one
MaximumResults == 500
Shortlist(batch, limit) ==
    LET key == [i \in DOMAIN batch |-> SortKey(batch[i])]
        ahead(i) == {j \in DOMAIN batch : Higher4(key[j], key[i]) \/ (key[j] = key[i] /\ j < i)}
        length == Least(Len(batch), Most(1, Least(limit, MaximumResults)))
    IN  [n \in 1..length |-> batch[CHOOSE i \in DOMAIN batch : Cardinality(ahead(i)) = n - 1]]
=============================================================================
