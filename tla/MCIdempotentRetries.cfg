SPECIFICATION SerialSpec
CONSTANTS
    Request = {r1, r2, r3}
    Key = {k1, k2}
    NoKey = NoKey
    NoEntry = NoEntry
    Code = {accepted, failed}
    NoCode = NoCode
    TTL = 2
    MaxTime = 2
    MaxRestarts = 0
PROPERTY
    ImplementsOnce
CHECK_DEADLOCK FALSE
