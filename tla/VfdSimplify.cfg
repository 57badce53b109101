SPECIFICATION Spec
CONSTANTS
    Invoice = {i1}
    Web = {w1}
    Scheduler = sched
    Terms <- MCSimplifyTerms
    Attempts = 2
    MaxReceipts = 2
    MaxCrashes = 1
INVARIANTS
    SimplifySuccessIsFiscalised
