SPECIFICATION FairSpec
CONSTANTS
    Invoice = {i1, i2}
    Web = {w1}
    Scheduler = sched
    Terms <- MCRetriedTerms
    Attempts = 1
    MaxReceipts = 1
    MaxCrashes = 1
PROPERTIES
    OpenIsRetried
    OpenIsSettled
