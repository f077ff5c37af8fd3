SPECIFICATION Spec
CONSTANTS
    c1 = c1
    d1 = d1
    d2 = d2
    None = None
    Account = {c1, d1, d2}
    Client = {c1, d1}
    Device = {d1, d2}
    ExistentialDeposit = 1
    ParaId = {0, 100, 200}
    SelfParaId = 200
    Fees = {0, 1}
    Penalties = {1}
    Wcds = {1}
    MaxTime = 2
    MomentModulus = 16
    MaxOutbox = 1
    MaxBatch = 2
    Incoming <- FromSibling
    OnReceived = {"Busy", "Accepted", None}
    KilledHook = TRUE
    Endowment <- Bare
INVARIANTS
    OrderHasDevice
PROPERTIES
    AnswerClosesOrder
