SPECIFICATION Spec
CONSTANTS
    Killmails = {k1}
    Hashes = {h1}
    Bodies = {b1, b2}
    ActorScopes = {}
    RadiusScopes = {radiusScope}
    ManualScopes = {manualScope}
    ActorRuns = {}
    RadiusRuns = {r1}
    ExpandRuns = {e1}
    DiscoverRuns = {d1}
    MaxExpansions = 2
    NoContent = NoContent
    NoRef = NoRef
    NoScope = NoScope
INVARIANTS
    TypeOK
    ClosedRefHasEvidence
    EventsMatchEvidence
PROPERTIES
    EvidencePreserved
    ScopesIsolated
    SuccessClosesItsRefs
    ImplementsLedger
CHECK_DEADLOCK FALSE
