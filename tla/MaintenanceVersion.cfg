SPECIFICATION Spec
SYMMETRY ClientSymmetry
CONSTANTS
    Clients = {c1, c2}
    Sweepers = {s1}
    MaxReqs = 4
    MaxBytes = 0
    MaxEvents = 0
    MaxActive = 1
PROPERTIES
    OthersIntact
