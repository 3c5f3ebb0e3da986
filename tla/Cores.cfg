SPECIFICATION Spec
CONSTANTS
    h1 = h1
    h2 = h2
    Handlers = {h1, h2}
    Topologies <- MCTopologies
    Configs <- MCConfigs
    Selections <- MCSelections
    VcpuCounts = {3, 4}
    Blocks <- MCBlocks
    MaxRequests = 3
INVARIANTS
    TypeOK
    GuestTopologyFits
    PinningReadsBack
    CoresAreNotShared
    HalfStaysFree
    IsolationReadsBack
SYMMETRY HandlerSymmetry
CHECK_DEADLOCK TRUE
