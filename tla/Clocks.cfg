SPECIFICATION FairSpec
CONSTANTS
    fast = fast
    good = good
    slow = slow
    wrong = wrong
    None = None
    Node = {fast, good, slow, wrong}
    Authorities <- Turns
    Offset <- Machines
    SlotDuration = 2
    MaxDrift = 2
    Start = 4
    LastBlock = 10
    MaxTime = 10
INVARIANTS
    TypeOK
    FollowsRelay
PROPERTIES
    GoesForward
    KeepsGoing
    EveryNodeFollows
CHECK_DEADLOCK FALSE
