SPECIFICATION Spec
CONSTANTS
    Sync = {c1}
    Async = {a1}
    NoMsg = NoMsg
    MaxStreams = 2
    MaxReports = 1
INVARIANTS TypeOK NoFalseSuccess SuccessIsLogged
PROPERTIES KeepsOutcome
