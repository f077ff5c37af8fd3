SPECIFICATION Spec
CONSTANTS
    c1 = c1
    d1 = d1
    d2 = d2
    None = None
    Account = {c1, d1, d2}
    Client = {c1}
    Device = {d1, d2}
    ExistentialDeposit = 2
    ParaId = {0, 100, 200}
    SelfParaId = 200
    Fees = {0, 2}
    Penalties = {1, 2}
    Wcds = {1}
    MaxTime = 2
    MomentModulus = 16
    MaxOutbox = 0
    MaxBatch = 1
    Incoming <- FromSibling
    OnReceived = {"Accepted"}
    KilledHook = TRUE
    Endowment <- Rich
INVARIANTS
    TypeOK
    OrderHasDevice
    PenaltyBacked
    FeesBacked
PROPERTIES
    TermsFrozen
    DoneSettles
    ImplementsEscrow
