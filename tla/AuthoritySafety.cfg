SPECIFICATION MCSpec
CONSTANTS
    Ref = {r1}
    Queue = worker
    Web = {w1}
    MaxFaults = 1
    Offences = {off}
    Licences = {lic}
    MaxRows = 2
    PageSize = 1
    Token = {t1, t2, t3, t4, t5, t6}
INVARIANTS
    MarkedIsMailed
    PagesCoverStart
PROPERTIES
    SoleCallClosesSettled
    RecordsFollowTpf
    ClosedIsTold
    RunsFetch
