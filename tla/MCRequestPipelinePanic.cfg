SPECIFICATION Spec
CONSTANTS
    Request = {r1, r2}
    Principal = {alice, anonymous}
    Anonymous = anonymous
    Nobody = Nobody
INVARIANT
    NoPanicEscapes
CHECK_DEADLOCK FALSE
