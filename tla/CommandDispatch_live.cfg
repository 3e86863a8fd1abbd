SPECIFICATION FairSpec
CONSTANTS
    Sync = {c1}
    Async = {a1}
    NoMsg = NoMsg
    MaxStreams = 1
    MaxReports = 1
PROPERTIES CallerReturns AsyncSettles
