SPECIFICATION Spec
CONSTANTS
    Invoice = {i1}
    Web = {w1, w2}
    Scheduler = sched
    Terms <- MCFormTerms
    Attempts = 1
    MaxReceipts = 1
    MaxCrashes = 0
PROPERTIES
    SentIsNotCancelled
