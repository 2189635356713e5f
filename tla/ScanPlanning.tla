---------------------------- MODULE ScanPlanning ----------------------------
(* build_scan_plan: the provider calls a live scan may make, what they are   *)
(* estimated to cost, and whether the scan is admitted.  Money is in         *)
(* thousandths of a dollar.  Scoring's arithmetic is in ScoringRules.        *)
EXTENDS ScoringRules

\* A scan against the DataForSEO sandbox is a live scan that costs nothing
Live(su) == su.mode \in {"live", "sandbox"}

Price == [keyword_discovery |-> 12, keyword_metrics |-> 12, serp |-> 2, competitors |-> 20,
          provider_discovery |-> 10]
Endpoints == DOMAIN Price
NoCalls == [e \in Endpoints |-> 0]

SeedLimit(profile) == IF profile = "testing" THEN 1 ELSE 3

\* The calls of a profile, for a service with so many seed keywords
PlannedCalls(profile, seeds) ==
    [keyword_discovery |-> Least(seeds, SeedLimit(profile)),
     keyword_metrics |-> 1,
     serp |-> IF profile = "testing" THEN 1 ELSE 3,
     competitors |-> IF profile = "testing" THEN 0 ELSE 5,
     provider_discovery |-> 1]

Charge(su, calls) ==
    IF su.mode = "sandbox" THEN 0 ELSE SumOver(Endpoints, LAMBDA e : Price[e] * calls[e])

\* _live_switch_block_reason
SwitchedOff(su) ==
    \/ ~su.allowed.live
    \/ su.allowed.stopped
    \/ su.mode = "live" /\ ~su.allowed.production
    \/ su.profile = "full" /\ ~su.allowed.full

\* Only a request that is known in advance (request_known) can be found in the
\* cache: su.cached says how many are
RequestKnown == {"keyword_discovery", "provider_discovery"}
CacheHits(su, calls) ==
    [e \in Endpoints |-> IF e \in RequestKnown THEN Least(su.cached[e], calls[e]) ELSE 0]

\* A scan that is not live plans no call
ScanPlan(su, seeds) ==
    LET calls == PlannedCalls(su.profile, seeds)
        hits == CacheHits(su, calls)
        uncached == Charge(su, [e \in Endpoints |-> calls[e] - hits[e]])
    IN  IF ~Live(su) \/ SwitchedOff(su)
        THEN [calls |-> NoCalls, cached |-> 0, uncached |-> 0, blocked |-> Live(su)]
        ELSE [calls |-> calls, cached |-> Charge(su, hits), uncached |-> uncached,
              blocked |-> \/ uncached > su.allowed.cost
                          \/ SumOver(Endpoints, LAMBDA e : calls[e]) > su.allowed.requests]
=============================================================================
