SPECIFICATION Spec
CONSTANTS
    Relays = {r1, r2}
    Hosts = {h1}
    HostOf <- SameHost
    Targets = {t1}
    MaxDeletes = 1
    BatchSize = 2
    ClaimTTL = 1
    MaxAttempts = 2
    MaxBackoff = 1
    MaxFaults = 1
INVARIANTS ClaimExclusive FidelityAgrees AttemptBudget
PROPERTIES TerminalAbsorbing DeliveredWasSent KeepsPromise
SYMMETRY RelaySymmetry
