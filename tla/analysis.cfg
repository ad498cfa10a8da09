\* Either every analytics operation on one thread, short scenario runs on
\* another, two markets of one id and a memo of two entries; or one run and
\* three other events, or two runs and one or two, in each of seven deployments
\* of the run service.
SPECIFICATION PlatformSpec
CONSTANTS
    None = None
    thread1 = thread1
    thread2 = thread2
    Threads <- TwoThreads
    Requests <- MCRequests
    Markets <- MCMarkets
    Risk <- MCRisk
    MemoSize = 2
    MaxIterations = 10
    CoordinatePasses = 2
    DemoDt = 1
    DEFAULT_LIMITS <- MCLimits
    WarningPct = 80
    Exp <- MCExp
    ToZero <- MCToZero
    Foreign <- MCForeign
    Domestic <- MCDomestic
    European <- MCEuropean
    Black <- MCBlack
    MinAlignedReturns = 2
    DemoRows <- MCDemoRows
    DemoMacros <- Macros
    Torn = Torn
    DefaultObservations = 4
    Draw <- MCDraw
    Services <- MCServices
CHECK_DEADLOCK FALSE
INVARIANTS
    PlatformTypeOK
    RunsReplay
    MovesRebuildLevels
PROPERTIES
    ComparesWhatRan
    ResidualIsDisclosed
    AnswersAreFresh
    ReverseIsMinimal
    SlicesAgree
    NodeIsItsBook
    AllocationsReconcile
    WhatIfIsTheTrade
    HedgeIsWhatIf
    BridgesClose
    LinearBooksExplained
    DrilldownIsLimits
    OnlyNamedMarksMove
    ShapesAgree
    CurveCacheIsSound
    WindowsJoin
    SearchesNarrow
