SPECIFICATION Spec
CONSTANTS
    catalogA = catalogA
    catalogB = catalogB
    archive = archive
    moved = moved
    mirror = mirror
    elsewhere = elsewhere
    Order <- MCOrder
    ZipRoles = {"historical_series_data"}
    Urls <- MCUrls
    Official <- MCOfficial
    Requested <- MCRequested
    MaxAttempts = 3
    MaxRedirects = 3
    MaxBytes = 2
    Undeclared = Undeclared
INVARIANTS
    TypeOK
    ChainIsAnOfficialPath
    ReleaseIsComplete
PROPERTIES
    ObservationEnds
CHECK_DEADLOCK FALSE
