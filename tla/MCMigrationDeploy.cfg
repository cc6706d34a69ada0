SPECIFICATION Spec
CONSTANTS
    Legacy <- MCLegacy
    Files <- MCFiles
    Outsiders <- MCOutsiders
    Scripts <- MCScripts
    MaxTrees = 2
    MaxOutside = 1
    MaxDeployments = 2
INVARIANTS
    TypeOK
    
    SuccessMeansApplied
    
PROPERTIES
    PushAppliesTheNextMigration
CHECK_DEADLOCK FALSE
