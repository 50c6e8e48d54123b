SPECIFICATION CalmSpec
CONSTANTS
    Killmails = {k1, k2}
    Hashes = {h1}
    Bodies = {b1}
    ActorScopes = {actorScope}
    RadiusScopes = {}
    ManualScopes = {}
    ActorRuns = {a1, a2}
    RadiusRuns = {}
    ExpandRuns = {}
    DiscoverRuns = {}
    MaxExpansions = 1
    NoContent = NoContent
    NoRef = NoRef
    NoScope = NoScope
INVARIANTS
    EvidenceWhole
PROPERTIES
    OpenRefsAreClosed
CHECK_DEADLOCK FALSE
