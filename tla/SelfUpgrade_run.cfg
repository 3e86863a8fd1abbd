SPECIFICATION FairSpec
CONSTANTS
    Latest = 3
    MaxTasks = 3
    MaxFaults = 3
INVARIANTS TypeOK RecordIsTrue OldKept
PROPERTIES Concludes
CHECK_DEADLOCK FALSE
