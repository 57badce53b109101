SPECIFICATION FairSpec
CONSTANTS
    i1 = i1
    i2 = i2
    p1 = p1
    v1 = v1
    None = None
    Invoice = {i1, i2}
    Payment = {p1}
    Voucher = {v1}
    Amount <- AmountDef
    Paid <- PaidDef
    Day <- DayDef
    Differs <- DiffersDef
    Payable <- PayableDef
    MaxEntries <- MaxEntriesDef
    MaxManual <- MaxManualDef
INVARIANTS
    DifferencesMatchRows
    CancelledLeavesNoEntry
    CompletedIsPaid
PROPERTIES
    PaymentTakesItsEntries
    PaidIsCompleted
CHECK_DEADLOCK FALSE
