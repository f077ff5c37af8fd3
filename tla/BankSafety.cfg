SPECIFICATION Spec
CONSTANTS
    c1 = c1
    c2 = c2
    d1 = d1
    d2 = d2
    None = None
    Account = {c1, c2, d1}
    Client = {c1, c2}
    Device = {d1}
    ExistentialDeposit = 1
    ParaId = {0, 100, 200}
    ClientPara = 100
    ServicePara = 200
    Fees = {1}
    Penalties = {1}
    Wcds = {1}
    MaxTime = 2
    MomentModulus = 16
    MaxOutbox = 2
    MaxBatch = 1
    OnReceived = {"Accepted"}
    CarefulClients = TRUE
    QuietRebind = TRUE
    ClientEndowment <- Money
    ServiceEndowment <- Money
INVARIANTS
    TypeOK
    
    
    

    
    
    
