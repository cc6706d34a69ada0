SPECIFICATION ServingSpec
CONSTANTS
    f1 = f1
    f2 = f2
    f3 = f3
    a1 = a1
    a2 = a2
    a3 = a3
    src = src
    Nothing = Nothing
    FactIds <- MCFactIds
    Registrations = {"bank"}
    Details = {"balance"}
    Artifacts <- MCArtifacts
    Locators = {"cell"}
    Extractors = {"parser"}
    Identities = {"h"}
    ArtifactSource <- MCArtifactSource
    Times = {1, 2}
    MaxDecisions = 3
SYMMETRY Symmetry
INVARIANTS
    ServingTypeOK
    PublishedIsUndisputed
    CurrentIsAsOfTheEnd
    ObservedQueryLosesNoBranch
PROPERTIES
    OnlyAcceptanceDisplaces
    LaterNewsIsInvisible
    FallsBackToLastAccepted
CHECK_DEADLOCK FALSE
