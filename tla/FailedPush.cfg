CONSTANTS
    b1a = b1a
    b2a = b2a
    b3a = b3a
    b2b = b2b
    b3b = b3b
    b4b = b4b
    b3c = b3c
    b4c = b4c
    b2d = b2d
    b3d = b3d
    b1b = b1b
    t1 = t1
    t2 = t2
    w1 = w1
    w2 = w2
    Blocks <- DeepBlocks
    Genesis = Genesis
    Parent <- DeepParent
    Number <- MCNumber
    None = None
    Txs = {t1, t2}
    TxsOf <- DeepTxsOf
    Conflicts <- TwoConflicts
    ProposalTxs = {}
    BadBlocks = {}
    LateBadBlocks = {}
    Witnesses = {w1, w2}
    Signer <- DeepSigner
    MinUndoHistory = 10
    MaxUndoHistory = 100
    ForkHistory = 1024
    ReplayWindow = 1
    MaxBlockTxs = 1
    MaxPending = 2
SPECIFICATION Spec
PROPERTY FailedPushUnwound
CHECK_DEADLOCK FALSE
