\* Two updates that name the same version.
SPECIFICATION Spec
CONSTANTS
    q1 = q1
    q2 = q2
    q3 = q3
    t1 = t1
    t2 = t2
    Requests <- ThreeRequests
    TradeIds <- TwoTrades
    NoRow = NoRow
    MaxVersion = 2
INVARIANTS
    AcceptedOncePerVersion
