SPECIFICATION Spec
CONSTANTS
    Killmails = {k1, k2}
    Hashes = {h1}
    Bodies = {b1}
    ActorScopes = {actorScope}
    RadiusScopes = {}
    ManualScopes = {}
    ActorRuns = {a1}
    RadiusRuns = {}
    ExpandRuns = {}
    DiscoverRuns = {}
    MaxExpansions = 2
    NoContent = NoContent
    NoRef = NoRef
    NoScope = NoScope
PROPERTIES
    FailedExpansionKeepsPackage
CHECK_DEADLOCK FALSE
