SPECIFICATION Spec
CONSTANTS
    a = a
    b = b
    foreign = foreign
    alice = alice
    remark = remark
    inherent = inherent
    Relay = Relay
    Executive = Executive
    Unlimited = Unlimited
    None = None
    Chain = {a, b}
    Foreign = {foreign}
    User = {alice}
    Programs <- Attempts
    Call = {remark, inherent}
    CallWeight <- Weights
    UnitWeightCost = 1
    Funds = 8
    Savings = 6
    TeleportAmount = 6
    MaxSent = 3
INVARIANTS
    TypeOK
    SpeaksForItself
PROPERTIES
    
    UserSpendsNothing
    NothingMinted
    PalletsUnheard
CHECK_DEADLOCK FALSE
