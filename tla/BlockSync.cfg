CONSTANTS
    b1a = b1a
    b2a = b2a
    b3a = b3a
    b2b = b2b
    b3b = b3b
    b4b = b4b
    p1 = p1
    p2 = p2
    Peers = {p1, p2}
    Blocks = {b1a, b2a, b3a, b2b, b3b, b4b}
    Genesis = Genesis
    Parent <- MCParent
    Number <- MCNumber
    Start = b1a
    UndoSize = 1
    IdsPerReply = 2
    MinPrefetch = 2
    PerPeer = 2
    AtOnce = 2
    Scenarios <- MCScenarios
    None = None
SPECIFICATION Spec
INVARIANTS TypeOK PushedInOrder RequestsAreOwed 
CHECK_DEADLOCK FALSE
