SPECIFICATION FairSpec
CONSTANTS
    Streams = {s1, s2}
    NoStream = NoStream
    LateStreams = FALSE
    MaxFaults = 2
INVARIANT TypeOK
PROPERTIES Stabilises DeadIsNoticed
