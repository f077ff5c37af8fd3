SPECIFICATION Spec
CONSTANTS
    c1 = c1
    d1 = d1
    None = None
    Account = {c1, d1}
    Client = {c1}
    Device = {d1}
    ExistentialDeposit = 2
    ParaId = {0, 200}
    SelfParaId = 200
    TestParaId = 200
    Fees = {0, 2}
    Penalties = {0, 2}
    Wcds = {1}
    MaxTime = 2
    MomentModulus = 16
    MaxOutbox = 1
    Endowment <- Money
INVARIANTS
    FeesAddUp
    PenaltiesAddUp
