SPECIFICATION SimSpec
CONSTANTS
    Regs = {x0, a5}
    Zero = x0
    Ranges <- MCRanges
    MultCycles = 17
    DivCycles = 33
    CsrCycles = 5
    LoadCycles = 2
    Stalls = {1, 3}
    CYCLES = 20
    Branches = {4, 12}
    BranchTarget <- MCBranchTarget
    Jumps = {20}
    Calls = {24, 32}
    Returns = {36}
    Targets = {100, 108}
    BtbEntries = 16
    BhtEntries = 8
    RasSize = 2
    NumHistoryBits = 2
    CounterThreshold = 2
    DEPTH = 4
    Tags = {t0, t1}
    Heads = {h0, h1, h2, h3}
    Cold = h0
    Flags = {NV, NX}
INVARIANTS
    AssertionsHold
    NoFlagLost
    UnsavedIsDirty
PROPERTIES
    AsSoonAsReady
    ShallowReturnsFree
    Learns
    EvictsOldest
CHECK_DEADLOCK FALSE
