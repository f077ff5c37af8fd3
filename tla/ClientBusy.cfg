SPECIFICATION Spec
CONSTANTS
    c1 = c1
    c2 = c2
    d1 = d1
    d2 = d2
    None = None
    Account = {c1, d1}
    Client = {c1}
    Device = {d1}
    ExistentialDeposit = 2
    ParaId = {0, 200}
    TestParaId = 200
    Fees = {0, 2}
    Penalties = {2}
    Wcds = {1}
    MaxTime = 2
    MomentModulus = 16
    MaxOutbox = 0
    MaxBatch = 1
    Incoming <- FromAnyone
    KilledHook = FALSE
    Endowment <- Rich
INVARIANTS
    BusyHasOrder
