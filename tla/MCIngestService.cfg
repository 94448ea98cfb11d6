SPECIFICATION SerialSpec
CONSTANTS
    Request = {r1, r2}
    Reader = {}
    Org = {o1}
    NoOrg = NoOrg
    Store = {}
    NoStore = NoStore
    Key = {k1}
    NoKey = NoKey
    NoEntry = NoEntry
    TTL = 1
    MaxTime = 2
    MaxRestarts = 1
SYMMETRY Symmetry
INVARIANTS
    AcceptedAnswerIsDurable
    RetriesIngestOnce
CHECK_DEADLOCK FALSE
