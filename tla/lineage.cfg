\* Compose: the book is updated between submit and claim.
SPECIFICATION Spec
CONSTANTS
    api = api
    w1 = w1
    w2 = w2
    r1 = r1
    r2 = r2
    demo = demo
    frozen = frozen
    Runs <- TwoRuns
    Api = api
    Workers <- OneWorker
    External = TRUE
    Batch = 2
    Threads = 1
    Snaps <- BothSnaps
    Seeded = {frozen}
    Live = demo
    NoSnap = NoSnap
    NoResult = NoResult
    MayStop = {}
    PricingRaises = TRUE
    MaxVersion = 2
    MaxFaults = 0
    MaxCrashes = 0
INVARIANTS
    ResultBookIsHeaderBook
