SPECIFICATION Spec
CONSTANTS
    c1 = c1
    c2 = c2
    d1 = d1
    d2 = d2
    None = None
    Account = {c1, d1, d2}
    Client = {c1, d2}
    Device = {d1, d2}
    ExistentialDeposit = 2
    ParaId = {0}
    TestParaId = 0
    Fees = {2}
    Penalties = {2}
    Wcds = {1}
    MaxTime = 2
    MomentModulus = 16
    MaxOutbox = 1
    MaxBatch = 1
    Incoming <- FromAnyone
    KilledHook = TRUE
    Endowment <- Rich
INVARIANTS
    TypeOK
    OrderHasDevice
    PenaltyExact
PROPERTIES
    TermsFrozen
    CancelCompensates
    NoPenaltyOnTime
