SPECIFICATION FairSpec
CONSTANTS
    Request = {r1, r2, r3}
    Key = {k1}
    NoKey = NoKey
    NoEntry = NoEntry
    Code = {accepted, failed}
    NoCode = NoCode
    TTL = 1
    MaxTime = 2
    MaxRestarts = 1
INVARIANTS
    TypeOK
    ReplayIsFaithful
    NoLossBeforeExpiry
    SweptIsClean
PROPERTY
    ExpiredIsRemoved
CHECK_DEADLOCK FALSE
