\* Three threads, two engines, a cache of one entry each; d3 is no ql.Date.
SPECIFICATION Spec
CONSTANTS
    t1 = t1
    t2 = t2
    t3 = t3
    e1 = e1
    e2 = e2
    swap = swap
    option = option
    d1 = d1
    d2 = d2
    d3 = d3
    Threads <- ThreeThreads
    Engines <- BothEngines
    EngineOf <- SharedAndOwn
    Items <- BothItems
    Swaps = {swap}
    Dates <- ThreeDates
    NoQlDates = {d3}
    Label = Label
    Base = d1
    Today = d2
    NoThread = NoThread
    NoPrice = NoPrice
    MaxSize = 1
    MaxRequests = 3
SYMMETRY Symmetric
INVARIANTS
    TypeOK
    SessionRestored
    DatedAnswersRight
    CacheIsSound
PROPERTIES
    EntriesStable
