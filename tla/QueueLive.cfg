SPECIFICATION FairSpec
CONSTANTS
    Plate = {p1, p2}
    Worker = {w1}
    Cron = w1
    MaxEdits = 2
    MaxDays = 1
    MaxCrashes = 1
PROPERTIES
    DueIsSynced
    FleetIsTracked
