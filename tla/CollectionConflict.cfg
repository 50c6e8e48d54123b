SPECIFICATION Spec
CONSTANTS
    Killmails = {k1}
    Hashes = {h1}
    Bodies = {b1, b2}
    ActorScopes = {actorScope}
    RadiusScopes = {}
    ManualScopes = {manualScope}
    ActorRuns = {a1}
    RadiusRuns = {}
    ExpandRuns = {e1}
    DiscoverRuns = {d1}
    MaxExpansions = 2
    NoContent = NoContent
    NoRef = NoRef
    NoScope = NoScope
INVARIANTS
    EvidenceWhole
CHECK_DEADLOCK FALSE
