\* Compose without errors or crashes, one worker may be stopped.
SPECIFICATION FairSpec
CONSTANTS
    api = api
    w1 = w1
    w2 = w2
    r1 = r1
    r2 = r2
    demo = demo
    frozen = frozen
    Runs <- TwoRuns
    Api = api
    Workers <- TwoWorkers
    External = TRUE
    Batch = 2
    Threads = 1
    Snaps <- BothSnaps
    Seeded = {frozen}
    Live = demo
    NoSnap = NoSnap
    NoResult = NoResult
    MayStop = {w2}
    PricingRaises = TRUE
    MaxVersion = 2
    MaxFaults = 0
    MaxCrashes = 0
PROPERTIES
    EveryRunEnds
