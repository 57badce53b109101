SPECIFICATION Spec
CONSTANTS
    Plate = {p1, p2}
    Worker = {w1, w2}
    Cron = w1
    MaxEdits = 1
    MaxDays = 1
    MaxCrashes = 1
INVARIANTS
    OneCallPerPlate
PROPERTIES
    DeletionIsKept
SYMMETRY Symmetry
