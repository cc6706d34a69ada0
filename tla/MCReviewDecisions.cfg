SPECIFICATION Spec
CONSTANTS
    s1 = s1
    s2 = s2
    f1 = f1
    f2 = f2
    Nothing = Nothing
    Sessions <- MCSessions
    Facts <- MCFacts
    MaxId = 3
    MaxTime = 2
SYMMETRY Symmetry
INVARIANTS
    TypeOK
    RevokeStandsOnAccept
    CorrectionsPointBack
PROPERTIES
    ImplementsTimeline
    PastIsSettled
CHECK_DEADLOCK FALSE
