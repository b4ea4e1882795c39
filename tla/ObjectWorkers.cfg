SPECIFICATION Spec
CONSTANTS
    Versioned = TRUE
    Kinds = {"clean", "infected", "ssec"}
    MaxPuts = 2
    SubBuffer = 1
    MaxFaults = 1
INVARIANTS
    VerdictSound
    ReplicaSound
    QuarantineSound
CHECK_DEADLOCK FALSE
