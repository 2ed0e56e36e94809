SPECIFICATION WitnessesSpec
CONSTANTS
    Witnesses = {1, 2, 3, 4}
    SkipSlots = 1
    MaintInterval = 9
    MaxUndo = 4
    Window = 3
    Checkpoint = 1
    Intervals = {2, 3}
    Elections = {{1, 2, 3}, {2, 3, 4}, {3}}
    Start = 6
    First <- MCFirst
    MaxBlocks = 4
    MaxGap = 7
    Part = {"chain", "nodes"}
    Required = 51
    RateWindow = 3
    MaxTime = 18
INVARIANTS TypeOK SlotsMatchTimes MissesAccounted IrreversibleByMajority 
    
PROPERTY EveryoneGetsATurn
CHECK_DEADLOCK FALSE
