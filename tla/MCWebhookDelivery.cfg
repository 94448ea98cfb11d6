SPECIFICATION MCSpec
CONSTANTS
    Request = {r1, r2}
    Principal = {alice, anonymous}
    Anonymous = anonymous
    Nobody = Nobody
    PositiveNumber = {"60", "600"}
    File <- MCFile
    Env <- MCEnv
    Engine <- MCEngine
INVARIANTS
    TypeOK
    ServerTypeOK
    WriterIsAlive
    StoresOutliveHandlers
    StopLosesNothing
    NobodyBlocks
    WebhookTypeOK
    HeardIsTrue
    RunsAgainForAReason
    ServesWhatWasValidated
    PrecedenceHolds
PROPERTIES
    DeadlineEndsRequest
    StopsWhenAsked
CHECK_DEADLOCK FALSE
