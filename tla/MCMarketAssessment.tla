------------------------- MODULE MCMarketAssessment -------------------------
(* Instances of MarketAssessment for TLC.                                   *)
EXTENDS MarketAssessment

\* Drain repair in Austin.  Keyword 2 is a close variant of 1, 4 is another
\* trade's and 5 is a product.
TestWords == <<{"drain", "repair"}, {"drain", "repair", "near", "me"}, {"drain", "cleaning"},
               {"tile", "grout"}, {"drain", "kit"}, {"sewer", "repair"}>>
TestService == [words |-> {"drain", "repair"}, seeds |-> {"cleaning", "sewer"},
                negatives |-> {{"kit"}}, categories |-> {{"plumber"}, {"drainage", "repair"}}]
TestLists == {<<1, 3, 6>>, <<1, 2, 4, 1>>, <<5>>, <<>>}
TestSeeds == <<1, 3, 6>>

----------------------------------------------------------------------------
(* Public data: three markets of one county.  The second has no household     *)
(* count of its own, the third is tiny and new.  A release may change while   *)
(* it is read.                                                                *)

City(id, households, owners, built) ==
    [id |-> id, county |-> "48453", population |-> 50000, households |-> households,
     housing_units |-> 20000, owner_occupied_units |-> owners, median_year_built |-> built,
     year |-> 2023, area |-> 40]
Austin == City(1, 18000, 10000, 1980)
Kyle == City(2, None, 3000, 1980)
Niederwald == City(3, 40, 5, 2020)

AcsRow(id, households, owners) ==
    [geo |-> id, geoid |-> "place", code |-> None,
     values |-> [households |-> households, owner_occupied_units |-> owners,
                 median_household_income |-> 80000]]
CountyRow(measure, n) ==
    [geo |-> 0, geoid |-> "48453", code |-> "238220", values |-> (measure :> n)]
TestReleases == [
    acs1 |-> [dataset |-> "acs", old |-> FALSE,
              rows |-> {AcsRow(1, 19000, 11000), AcsRow(2, 9000, 6000)}],
    acs2 |-> [dataset |-> "acs", old |-> TRUE, rows |-> {AcsRow(1, None, 9000)}],
    cbp1 |-> [dataset |-> "cbp", old |-> FALSE, rows |-> {CountyRow("establishments", 40)}],
    cbp2 |-> [dataset |-> "cbp", old |-> FALSE, rows |-> {CountyRow("establishments", None)}],
    nes1 |-> [dataset |-> "nes", old |-> FALSE, rows |-> {CountyRow("nonemployer_businesses", 90)}],
    noaa1 |-> [dataset |-> "noaa", old |-> FALSE,
               rows |-> {[geo |-> 1, geoid |-> "place", code |-> None,
                          values |-> [storm_exposure |-> 6000]]}]]
NoReleases == [d \in {"acs", "cbp", "nes", "noaa", "fema"} |-> None]
SomeReleases == [NoReleases EXCEPT !["acs"] = "acs1", !["cbp"] = "cbp1", !["nes"] = "nes1",
                                   !["noaa"] = "noaa1"]

----------------------------------------------------------------------------
(* Scans, and the switches and limits they start under                        *)

Market(population) == [population |-> population, reference |-> 1000, kind |-> "city"]
Open == [live |-> TRUE, stopped |-> FALSE, production |-> TRUE, full |-> TRUE,
         cost |-> 10000, requests |-> 15]
FullScan ==
    [mode |-> "live", profile |-> "full", configured |-> TRUE, market |-> Market(20),
     latest |-> None, service |-> "plumbing", batch |-> FALSE, limit |-> 1, markets |-> <<Austin>>,
     active |-> NoReleases, changes |-> 0, allowed |-> Open,
     cached |-> NoCalls, kept |-> NoCalls, warm |-> FALSE]
Hits(seeds, listings) ==
    [NoCalls EXCEPT !["keyword_discovery"] = seeds, !["provider_discovery"] = listings]
Scans == {
    FullScan,
    [FullScan EXCEPT !.profile = "testing", !.market = Market(None), !.cached = Hits(1, 1),
                     !.service = "tree_trimming"],
    [FullScan EXCEPT !.mode = "replay", !.markets = <<>>, !.latest = 5000, !.cached = Hits(3, 1)],
    [FullScan EXCEPT !.mode = "fixture", !.market = Market(None), !.latest = 5000, !.warm = TRUE],
    [FullScan EXCEPT !.mode = "sandbox", !.configured = FALSE, !.latest = 5000,
                     !.allowed.production = FALSE]}

\* The plan of a full scan costs 164: 36 for its seeds, 12, 6, 100 and 10
Refused == {
    [FullScan EXCEPT !.allowed.live = FALSE], [FullScan EXCEPT !.allowed.stopped = TRUE],
    [FullScan EXCEPT !.allowed.production = FALSE], [FullScan EXCEPT !.allowed.full = FALSE],
    [FullScan EXCEPT !.allowed.cost = 163], [FullScan EXCEPT !.allowed.requests = 12]}
Batches ==
    {[FullScan EXCEPT !.batch = TRUE, !.markets = <<Kyle, Niederwald, Austin>>, !.limit = 2, !.changes = 2,
                      !.service = s, !.active = a] :
        s \in {"plumbing", "hvac_services", "tree_trimming"}, a \in {NoReleases, SomeReleases}}
TestSetups == Scans \cup Refused \cup Batches

----------------------------------------------------------------------------
(* What the provider answers                                                  *)

\* A keyword everyone searches and pays for, one nobody does, and one the
\* provider knows nothing about but its name
Strong == [volume |-> 900, cpc |-> 2800, paid |-> 80, intent |-> "transactional"]
Weak == [volume |-> 40, cpc |-> 300, paid |-> 20, intent |-> "informational"]
Bare == [volume |-> None, cpc |-> None, paid |-> None, intent |-> None]
Of(a, b, c) == <<a, Weak, b, c, Weak, c>>
Volumes == {Of(Strong, Weak, Weak), Of(Weak, Strong, Weak), Of(Bare, Weak, Strong),
            Of(Bare, Bare, Bare), Of(Weak, None, None)}
TestMetrics ==
    {[of |-> v, stale |-> FALSE] : v \in Volumes}
      \cup {[of |-> Of(Strong, Strong, Weak), stale |-> TRUE],
            [of |-> Of(None, None, None), stale |-> FALSE]}

Page(order, url, domain, words, site) ==
    [order |-> order, url |-> url, domain |-> domain, words |-> words, site |-> site,
     type |-> "organic", class |-> "unknown"]
Feature(type) ==
    [order |-> 4, url |-> None, domain |-> None, words |-> {}, site |-> {}, type |-> type,
     class |-> "unknown"]
Shop == [Feature("popular_products") EXCEPT !.url = 9, !.domain = "shop.com"]
Drained == Page(1, 1, "drained.com", {"drain", "repair", "austin"}, {"drained"})
Licensed == Page(2, 2, "acme.com", {"drain", "austin", "licensed"}, {"acme"})
Blog == Page(3, 3, "blog.com", {"drain", "guide", "austin", "bob", "plumbing"}, {"blog"})
TestSerps == {
    [items |-> {Drained, Licensed, Blog}, stale |-> FALSE],
    [items |-> {Page(1, 4, "yelp.com", {"drain"}, {"yelp"}),
                Page(2, 5, "homedepot.com", {"drain"}, {"homedepot"}),
                Page(3, 6, "who.com", {"drain"}, {"who"}), Shop, Feature("ads_top"),
                Feature("local_pack")},
     stale |-> TRUE],
    [items |-> {}, stale |-> FALSE]}

Domains == {"drained.com", "acme.com", "blog.com", "yelp.com", "homedepot.com", "who.com"}
Weakly == [refs |-> 20, relevance |-> None, local |-> None, page |-> "unknown"]
Strongly == [refs |-> 300, relevance |-> 10000, local |-> 10000, page |-> "unknown"]
Unmeasured == [refs |-> None, relevance |-> 2000, local |-> 0, page |-> "local_provider"]
Directory == [refs |-> 420, relevance |-> 4200, local |-> 2500, page |-> "directory"]
TestCompetitors == {
    [d \in Domains |-> Weakly],
    [d \in Domains |-> IF d \in {"drained.com", "acme.com", "blog.com"} THEN Weakly ELSE Strongly],
    [d \in Domains |-> IF d = "who.com" THEN None
                       ELSE IF d = "yelp.com" THEN Directory ELSE Unmeasured],
    [d \in Domains |-> None]}

Plumber == [domain |-> "drained.com", name |-> {"bob", "plumbing"}, categories |-> {{"plumber"}},
            km |-> 10, area |-> FALSE, address |-> FALSE, status |-> "open",
            channels |-> {"phone", "website"}, contact |-> 80, listed |-> TRUE,
            rating |-> 45, reviews |-> 80]
Closed == [Plumber EXCEPT !.domain = "old.com", !.status = "closed_forever", !.km = None,
                          !.address = TRUE]
Remote == [Plumber EXCEPT !.domain = None, !.categories = {{"drainage", "supply"}}, !.km = 95,
                          !.status = "unknown", !.channels = {"website"}, !.contact = None,
                          !.rating = None, !.reviews = None]
TestProviders == {<<>>, <<Plumber>>, <<Plumber, Plumber, Closed>>, <<Remote, Remote>>}
=============================================================================
