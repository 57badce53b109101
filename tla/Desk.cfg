SPECIFICATION MCSpec
CONSTANTS
    Code = {c1, c2}
    Malformed = {c2}
    Session = {s1, s2}
    MaxInvoices = 3
    e1 = e1
    e2 = e2
    Repeated = {e1, e2}
    Weekly = {e1}
    Begins <- MCBegins
    Ends <- MCEnds
    MonthDays <- MCMonthDays
    Week = 2
    Lead = 3
    Job = job
    Web = {w1}
    MaxFaults = 1
    MaxOffences = 2
    LastDay = 6
    MaxRows = 3
    MaxBatches = 2
    MaxQty = 3
    Factors = {1, 2}
    MaxLines = 2
    Rate = {0, 3, 97, 320}
    Qty = {1, 5}
    Inexact = {15, 320, 485}
    Apart = {15, 485}
    Price = 2
    MaxEntries = 2
    MaxFuture = 1
    Account = {a1, a2}
    Days = 3
    Money = {0, 1}
    Clock = 5
    Grace = {0, 1}
    Receivable = {a1}
    Paper = {v1, v2}
    NoPaper = nothing
    MaxLedger = 3
    MaxCurrency = 2
    MaxOthers = 2
    MaxSlips = 3
    OwedInvoice = {i1}
    Payment = {p1}
    Clerk = {k1, k2}
    Worth = 2
    Nobody = nobody
    FiscalInvoice = {n1, n2}
    Manager = {m1, m2}
    Exact = TRUE
    Rounding <- MCRounding
    Difference <- MCDifference
    Charge = 10
    Tolerance = 1
    MaxArchived = 2
INVARIANTS
    SecondInvoiceNeedsRace
    PeriodsAreDrafted
    WrittenOffOnce
    SharesFit
    DeclaredIsCharged
    ReportsAddUp
    ReportsFollowPergamon
PROPERTIES
    LinkIsKept
    LoneRunIsFaithful
CHECK_DEADLOCK FALSE
