SPECIFICATION LimiterSpec
CONSTANTS
    RPM = 3
    Minute = 4
    MaxAge = 6
    Thread = {t1, t2}
    Key = {alice, bob}
    Watched = alice
    Bucket = {b1, b2, b3, b4, b5}
    None = None
    Interval = 5
INVARIANTS
    TypeOK
    LimiterTypeOK
    WindowBound
    StraysAreFew
PROPERTY
    OwnBucket
SYMMETRY Alike
