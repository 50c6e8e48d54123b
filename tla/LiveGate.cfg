SPECIFICATION HFairSpec
CONSTANTS
    esi = esi
    radius = radius
    c1 = c1
    c2 = c2
    Fingerprints = {esi, radius}
    RadiusFingerprints = {radius}
    ReadFingerprints = {esi}
    NoFingerprint = NoFingerprint
    Calls = {c1, c2}
    Keyings = {TRUE, FALSE}
    CooldownSeconds <- MCCooldowns
    AbuseLockout = 3
    AbuseWindow = 2
    AbuseThreshold = 3
INVARIANT TypeOK
PROPERTIES ImplementsPacing LockoutEarnedAnew AskingIsAnswered
