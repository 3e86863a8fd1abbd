SPECIFICATION Spec
CONSTANTS
    Names = {n1}
    Pids = {p1}
    NoPid = NoPid
    Handlers = {h1, h2}
    Commands = {c1}
    Kinds = {"start", "stop", "restart", "refresh"}
    MaxRestarts = 1
    FailThreshold = 1
SYMMETRY Symmetry
INVARIANTS TypeOK StartingHasOwner RestartBudget CooldownBlocks
PROPERTY MarkFreezesRestarts
