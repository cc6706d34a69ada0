SPECIFICATION Spec
CONSTANTS
    f1 = f1
    f2 = f2
    f3 = f3
    a1 = a1
    a2 = a2
    b1 = b1
    srcA = srcA
    srcB = srcB
    g1 = g1
    g2 = g2
    x1 = x1
    x2 = x2
    Nothing = Nothing
    FactIds <- MCFactIds
    Registrations <- MCRegistrations
    Details = {"balance"}
    Artifacts <- MCArtifacts
    Locators = {"cell"}
    Extractors <- MCPairs
    Identities = {"h1", "h2"}
    ArtifactSource <- MCArtifactSource
    Times = {1}
SYMMETRY Symmetry
INVARIANT SourceRevisionBringsNewEvidence
CHECK_DEADLOCK FALSE
