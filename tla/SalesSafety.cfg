SPECIFICATION FairSpec
CONSTANTS
    Rows = 3
    Qty <- MCQty
    House <- MCHouse
    Stocked = {1, 2}
    Withheld = {2}
    Job = job
    Web = {w1}
    MaxNotes = 3
    MaxEntries = 2
INVARIANTS
    DeliveredIsActual
    StatusIsActual
PROPERTIES
    SoleMakerFits
    SecondEntryNeedsStaleForm
    PendingGetsNote
CHECK_DEADLOCK FALSE
