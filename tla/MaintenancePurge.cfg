SPECIFICATION Spec
SYMMETRY ClientSymmetry
CONSTANTS
    Clients = {c1, c2}
    Sweepers = {s1}
    MaxReqs = 3
    MaxBytes = 5
    MaxEvents = 0
    MaxActive = 1
PROPERTIES
    PurgesOnlyDeleted
