SPECIFICATION Spec
CONSTANTS
    MaxTasks = 1
    MaxRuns = 2
    Plans = {"standalone", "deferred", "start"}
INVARIANTS TypeOK SuccessIsEarned OverlapNeedsCancel
CHECK_DEADLOCK FALSE
