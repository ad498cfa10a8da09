\* Compose: the API only enqueues, two workers claim; one error, one crash.
SPECIFICATION Spec
CONSTANTS
    api = api
    w1 = w1
    w2 = w2
    r1 = r1
    r2 = r2
    demo = demo
    frozen = frozen
    Runs <- TwoRuns
    Api = api
    Workers <- TwoWorkers
    External = TRUE
    Batch = 2
    Threads = 1
    Snaps <- BothSnaps
    Seeded = {frozen}
    Live = demo
    NoSnap = NoSnap
    NoResult = NoResult
    MayStop <- TwoWorkers
    PricingRaises = FALSE
    MaxVersion = 2
    MaxFaults = 1
    MaxCrashes = 1
SYMMETRY Symmetric
INVARIANTS
    IInv
    OneExecutor
    NoSilentLoss
    ResultBookNotOlder
PROPERTIES
    RefinesLifecycle
