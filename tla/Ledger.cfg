CONSTANTS
    None = None
SPECIFICATION Spec
INVARIANTS
    FundsAccounted
    ContractsKept
PROPERTIES
    ExpiredAreSettled
    
CHECK_DEADLOCK FALSE
