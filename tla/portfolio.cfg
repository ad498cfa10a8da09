\* Three requests on one portfolio, in any order and interleaving.
SPECIFICATION Spec
CONSTANTS
    q1 = q1
    q2 = q2
    q3 = q3
    t1 = t1
    t2 = t2
    Requests <- ThreeRequests
    TradeIds <- TwoTrades
    NoRow = NoRow
    MaxVersion = 2
SYMMETRY Symmetric
INVARIANTS
    TypeOK
    SerialBook
    SupersededTradesGone
    WritesAreWhole
    CreatedOnce
