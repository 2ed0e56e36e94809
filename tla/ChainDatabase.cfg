CONSTANTS
    b1a = b1a
    b2a = b2a
    b3a = b3a
    b2b = b2b
    b3b = b3b
    b4b = b4b
    b3c = b3c
    b4c = b4c
    b2d = b2d
    b3d = b3d
    b1b = b1b
    t1 = t1
    t2 = t2
    w1 = w1
    w2 = w2
    Blocks <- ShallowBlocks
    Genesis = Genesis
    Parent <- ShallowParent
    Number <- MCNumber
    None = None
    Txs = {t1, t2}
    TxsOf <- ShallowTxsOf
    Conflicts <- NoConflicts
    ProposalTxs = {t2}
    BadBlocks = {b3b}
    LateBadBlocks = {b3d}
    Witnesses = {w1, w2}
    Signer <- ShallowSigner
    MinUndoHistory = 10
    MaxUndoHistory = 100
    ForkHistory = 1024
    ReplayWindow = 1
    MaxBlockTxs = 1
    MaxPending = 2
SPECIFICATION Spec
INVARIANTS TypeOK StateFollowsChain ChainIsValid LogFollowsChain CanRewindToIrreversible RestartKeepsChain CanExtend
PROPERTY NoTransactionLost HeadsStayTogether
CHECK_DEADLOCK FALSE
