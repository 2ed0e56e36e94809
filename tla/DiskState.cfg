CONSTANTS
    b1a = b1a
    b2a = b2a
    b3a = b3a
    b2b = b2b
    b3b = b3b
    b4b = b4b
    Blocks = {b1a, b2a, b3a, b2b, b3b}
    Genesis = Genesis
    Parent <- MCParent
    Number <- MCNumber
    IdLess <- MCIdLess
    Types = {"account", "balance"}
    Lag = 2
    KillInSwitch = FALSE
    None = None
SPECIFICATION Spec
INVARIANTS
    TypeOK
    
    LogCoversSavedState
    
