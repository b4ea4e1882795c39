SPECIFICATION Spec
SYMMETRY ClientSymmetry
CONSTANTS
    Clients = {c1, c2}
    Sweepers = {s1}
    MaxReqs = 3
    MaxBytes = 5
    MaxEvents = 1
    MaxActive = 2
PROPERTIES
    InFlightKept
