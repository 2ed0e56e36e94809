CONSTANTS
    Types = {order}
    MaxInstance = 2
    Keys = {k1, k2}
    Data = {d1, d2}
    None = None
    MaxSizes = {1, 2}
    MaxNesting = 3
    MaxStack = 3
SPECIFICATION Spec
SYMMETRY Symmetry
INVARIANTS TypeOK UndoRestores UndoNeverThrows OpenSessionsKept DeltasDescribeHistory
PROPERTY ImplementsSnapshotStore
CHECK_DEADLOCK FALSE
