SPECIFICATION StanbicSpec
CONSTANTS
    Batches = {b1, b2}
    Sources = {s1, s2, p}
    Payrolls = {p}
    Users = {u1, u2}
    MaxSaves = 2
    MaxAttempts = 3
    Docs = {d1, d2}
    Payers = {r1, r2}
    Kinds = {ack}
    None = none
    Seconds = 2
    MaxFaults = 1
INVARIANTS
    PayrollPaidOnce
PROPERTIES
    SubmittedReachesBank
    AnswerApplied
CHECK_DEADLOCK FALSE
