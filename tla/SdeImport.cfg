SPECIFICATION ScopeSpec
CONSTANTS
    s1 = s1
    s2 = s2
    Sources = {s1, s2}
    HasRows <- MCHasRows
    Imports = {i1, i2}
    Practices <- MCPractices
    Nothing = Nothing
    SystemsOf <- MCSystemsOf
    GatesOf <- MCGatesOf
    Centers = {1}
    Radii = {1, 2}
    MaxSystems = 3
    NoWatch = NoWatch
    Exceeds = Exceeds
SYMMETRY MCSymmetry
INVARIANTS
    TypeOK
    StagingIsOwn
    ScopeIsOfOneBuild
PROPERTIES
    LookupEndsWhole
    ImplementsSnapshot
    SearchIsExact
CHECK_DEADLOCK FALSE
