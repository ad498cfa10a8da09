\* A run of a frozen history, which is frozen again while the run is queued.
SPECIFICATION PlatformSpec
CONSTANTS
    None = None
    thread1 = thread1
    thread2 = thread2
    Threads <- TwoThreads
    Requests <- MCRequests
    Markets <- MCMarkets
    Risk <- MCRisk
    MemoSize = 2
    MaxIterations = 10
    CoordinatePasses = 2
    DemoDt = 1
    DEFAULT_LIMITS <- MCLimits
    WarningPct = 80
    Exp <- MCExp
    ToZero <- MCToZero
    Foreign <- MCForeign
    Domestic <- MCDomestic
    European <- MCEuropean
    Black <- MCBlack
    MinAlignedReturns = 2
    DemoRows <- MCDemoRows
    DemoMacros <- Macros
    Torn = Torn
    DefaultObservations = 4
    Draw <- MCDraw
    Services <- RefrozenServices
CHECK_DEADLOCK FALSE
INVARIANTS
    PinnedRunsResolve
