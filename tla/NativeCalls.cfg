SPECIFICATION Spec
CONSTANTS
    Callers = {c1, c2}
    NSlots = 2
    NHandles = 2
    MaxThreads = 3
    MaxFiltered = 2
SYMMETRY CallerSymmetry
CONSTRAINT UntilTaken
INVARIANTS
    TypeOK
    LostOnlyByClash
    CountsAddUp
