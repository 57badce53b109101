SPECIFICATION Spec
CONSTANTS
    Invoice = {i1}
    Web = {w1, w2}
    Scheduler = sched
    Terms <- MCAllTerms
    Attempts = 2
    MaxReceipts = 2
    MaxCrashes = 1
INVARIANTS
    SuccessIsFiscalised
    SubmittedWithReceipt
PROPERTIES
    SettledIsFinal
    LedgerSpec
