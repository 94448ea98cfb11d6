SPECIFICATION MCSpec
CONSTANTS
    Request = {r1, r2}
    Reader = {x1}
    Org = {o1, o2}
    NoOrg = NoOrg
    Store = {s1}
    NoStore = NoStore
    MaxCrashes = 1
    PageSize = 1
    Moment = {2, 3}
INVARIANTS
    TypeOK
    ReadsTypeOK
    AcceptedIsDurable
    JobHasDocument
    FoundIsReadable
    WalkMissesNothing
    WalkGoesForward
    ReadyHasSections
PROPERTY
    AcceptedIsProcessed
CHECK_DEADLOCK FALSE
