SPECIFICATION Spec
CONSTANTS
    s1 = s1
    s2 = s2
    r1 = r1
    r2 = r2
    src1 = src1
    src2 = src2
    original = original
    revision = revision
    nobody = nobody
    Nobody <- nobody
    Sessions <- MCSessions
    Runs <- MCRuns
    Sources <- MCSources
    Artifacts <- MCArtifacts
    ArtifactSource <- MCArtifactSource
    Superseding <- MCSuperseding
    MaxObservations = 3
SYMMETRY Symmetry
INVARIANTS
    TypeOK
    TerminalCountersAreExact
    NoChangeMeansNoEvidence
    RestartLineageIsSound
PROPERTIES
    TerminalRunsAreFrozen
CHECK_DEADLOCK FALSE
