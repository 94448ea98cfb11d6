SPECIFICATION ClientSpec
CONSTANTS
    RPM = 60
    Minute = 120
    MaxAge = 0
    Client = {c1, c2}
    RetryAfter = 2
PROPERTY
    SomebodyIsAdmitted
