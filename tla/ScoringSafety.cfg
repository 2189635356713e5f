CONSTANTS
    None = None
    Setups <- TestSetups
    Releases <- TestReleases
    Seeds <- TestSeeds
    Words <- TestWords
    Service <- TestService
    MarketWords = {"austin", "texas"}
    CloseText = {}
    CandidateLists <- TestLists
    MetricAnswers <- TestMetrics
    SerpAnswers <- TestSerps
    CompetitorAnswers <- TestCompetitors
    ProviderLists <- TestProviders
SPECIFICATION Spec
INVARIANTS
    TraceReconciles
    StaleArchetypeHarmless
    WithheldNeverOutranks
    ConfidenceHonest
    PlanCoversCalls
    EvidenceTraceable
PROPERTIES
    RankedIsSound
CHECK_DEADLOCK FALSE
