\* A request with an engine label beside one with a calendar date.
SPECIFICATION Spec
CONSTANTS
    t1 = t1
    t2 = t2
    t3 = t3
    e1 = e1
    e2 = e2
    swap = swap
    option = option
    d1 = d1
    d2 = d2
    d3 = d3
    Threads <- ThreeThreads
    Engines <- BothEngines
    EngineOf <- SharedAndOwn
    Items <- BothItems
    Swaps = {swap}
    Dates <- BothDates
    NoQlDates = {}
    Label = Label
    Base = d1
    Today = d2
    NoThread = NoThread
    NoPrice = NoPrice
    MaxSize = 1
    MaxRequests = 2
INVARIANTS
    LabelPricedOnEngineDate
