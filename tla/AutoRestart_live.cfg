SPECIFICATION FairSpec
CONSTANTS
    Names = {n1}
    Pids = {p1}
    NoPid = NoPid
    Handlers = {h1}
    Commands = {c1}
    Kinds = {"start", "stop", "restart", "refresh"}
    MaxRestarts = 1
    FailThreshold = 2
PROPERTIES CrashNoticed
