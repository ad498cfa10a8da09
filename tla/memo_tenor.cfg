\* The memo's docstring calls the shocks' identity part of its key; two key-rate
\* shocks of one amount at two tenors share an entry.
SPECIFICATION Spec
CONSTANTS
    None = None
    thread1 = thread1
    thread2 = thread2
    Threads <- TwoThreads
    Requests <- TenorRequests
    Markets <- MCMarkets
    Risk <- MCRisk
    MemoSize = 2
    MaxIterations = 10
    CoordinatePasses = 2
    DemoDt = 1
    DEFAULT_LIMITS <- MCLimits
    WarningPct = 80
    Exp <- MCExp
    ToZero <- MCToZero
    Foreign <- MCForeign
    Domestic <- MCDomestic
    European <- MCEuropean
    Black <- MCBlack
CHECK_DEADLOCK FALSE
PROPERTY AnswersAreFresh
