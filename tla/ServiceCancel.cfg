SPECIFICATION Spec
CONSTANTS
    c1 = c1
    d1 = d1
    d2 = d2
    None = None
    Account = {c1, d1}
    Client = {c1}
    Device = {d1}
    ExistentialDeposit = 1
    ParaId = {0, 100, 200}
    SelfParaId = 200
    Fees = {0}
    Penalties = {0}
    Wcds = {1}
    MaxTime = 2
    MomentModulus = 16
    MaxOutbox = 1
    MaxBatch = 1
    Incoming <- FromSibling
    OnReceived = {"Accepted"}
    KilledHook = FALSE
    Endowment <- Bare
PROPERTIES
    CancelKeepsState
