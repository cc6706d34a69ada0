SPECIFICATION Spec
CONSTANTS
    c1 = c1
    c2 = c2
    Calls <- MCCalls
    CreateAttempts = 2
    ReadAttempts = 3
INVARIANTS
    TypeOK
    CleanFirstFailure
PROPERTIES
    ImplementsWriteOnce
    EveryCallEnds
CHECK_DEADLOCK FALSE
