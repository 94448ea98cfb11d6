SPECIFICATION Spec
CONSTANTS
    Doc = {d1, d2}
    Section = {s1, fake}
    Tree = {s1}
    NoSection = NoSection
    MaxSections = 0
    MaxPicks = 2
    Buffer = 1
    Room = 1
INVARIANT
    SelectedSectionIsNamed
CHECK_DEADLOCK FALSE
