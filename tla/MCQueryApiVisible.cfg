SPECIFICATION Spec
CONSTANTS
    Doc = {d1, d2}
    Section = {s1, fake}
    Tree = {s1}
    NoSection = NoSection
    MaxSections = 1
    MaxPicks = 2
    Buffer = 1
    Room = 1
INVARIANT
    EventsAreVisible
CHECK_DEADLOCK FALSE
