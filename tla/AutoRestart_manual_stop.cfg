SPECIFICATION Spec
CONSTANTS
    Names = {n1}
    Pids = {p1}
    NoPid = NoPid
    Handlers = {h1}
    Commands = {c1}
    Kinds = {"start", "stop"}
    MaxRestarts = 1
    FailThreshold = 1
PROPERTY ManualStopHonoured
