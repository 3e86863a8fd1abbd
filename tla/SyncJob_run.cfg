\* One stop request by one canceller, and one restart of the control plane.
SPECIFICATION FairSpec
CONSTANTS
    Cancellers = {c1}
    MaxCancels = 1
    MaxCrashes = 1
INVARIANTS TypeOK EndedIsTrue
PROPERTIES CancelKept Settles
CHECK_DEADLOCK FALSE
