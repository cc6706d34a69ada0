SPECIFICATION Spec
CONSTANTS
    o1 = o1
    o2 = o2
    None = None
    Absent = Absent
    Ambiguous = Ambiguous
    Observers <- MCObservers
    Releases <- MCReleases
INVARIANTS
    TypeOK
    VerdictsRestOnOneChain
    AuditAcceptsPublishedResults
PROPERTIES
    UpToDateWriterKeepsTheChain
CHECK_DEADLOCK FALSE
