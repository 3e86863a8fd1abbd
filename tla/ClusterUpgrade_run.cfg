\* Two nodes, each upgraded in place or into a second directory, and three faults.
SPECIFICATION Spec
CONSTANTS
    Nodes = {a, b}
    MaxFaults = 3
SYMMETRY Symmetry
INVARIANTS TypeOK RollbackIsReal OldVersionKept NodesFollow
PROPERTIES KeepsPromise
CHECK_DEADLOCK FALSE
