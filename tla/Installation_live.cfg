SPECIFICATION FairSpec
CONSTANTS
    MaxTasks = 2
    MaxRuns = 1
    Plans = {"start"}
INVARIANTS EndedMeansStopped CompletedIsWhole
PROPERTIES EndsIfNotCancelled
CHECK_DEADLOCK FALSE
