SPECIFICATION Spec
CONSTANTS
    Clients = {c1, c2}
    NParts = 2
    MaxBytes = 4
    MaxWrites = 2
    MaxFaults = 1
INVARIANTS
    AtMostOnce
    ClaimExclusive
    UsageCovers
    ManifestAssembled
    ReplayTruthful
PROPERTIES
    UploadEnds
