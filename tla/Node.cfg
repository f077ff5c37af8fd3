SPECIFICATION FairSpec
CONSTANTS
    m1 = m1
    m2 = m2
    None = None
    Machine = {m1, m2}
    Collator = {m1, m2}
    ParaId = {2000, 2001}
    PresetId = 2000
    Argument = {"local", "path"}
    CarefulEdits = TRUE
    MaxHeight = 2
INVARIANTS
    TypeOK
    BlocksBelong
PROPERTIES
    ChainGrows
