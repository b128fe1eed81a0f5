SPECIFICATION FairSpec
CONSTANTS
    Names = {n1}
    Types <- TwoTypes
    Requests = {r1, r2}
    NsCount = 2
    Retries = 1
    MaxId = 4
    UdpMax = 2
    CacheOn = TRUE
    MaxFails = 1
    NoQuery = NoQuery
    NoEntry = NoEntry
INVARIANTS RequestsExact AnswersRight
PROPERTY RequestsAnswered
