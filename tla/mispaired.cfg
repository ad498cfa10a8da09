\* The API executes and a worker claims: the pairing worker.py warns against;
\* with an error and a crash no run hangs in the hands of a live process, and the
\* API prices the book it was given.
SPECIFICATION FairSpec
CONSTANTS
    api = api
    w1 = w1
    w2 = w2
    r1 = r1
    r2 = r2
    demo = demo
    frozen = frozen
    Runs <- OneRun
    Api = api
    Workers <- OneWorker
    External = FALSE
    Batch = 2
    Threads = 1
    Snaps <- BothSnaps
    Seeded = {frozen}
    Live = demo
    NoSnap = NoSnap
    NoResult = NoResult
    MayStop = {}
    PricingRaises = TRUE
    MaxVersion = 2
    MaxFaults = 1
    MaxCrashes = 1
INVARIANTS
    TypeOK
    ApiBookIsHeaderBook
    ResultMarketIsStored
PROPERTIES
    EndsOrAbandoned
