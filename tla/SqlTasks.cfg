SPECIFICATION Spec
CONSTANTS
    NoPid = NoPid  NoHost = NoHost  NoNode = NoNode
    Scans = {s1, s2}
    Hosts = {h1, h2}
    Targets = {1}
    Window <- EverySecond
    Hands = {1}
    Grace = 1
    OperatorCloses = TRUE
    StopMayFail = FALSE
    MaxRuns = 2
    MaxAge = 1
SYMMETRY Alike
INVARIANTS
    OneAtATime
    ReportedOnce
PROPERTIES
    ResultIsFinal
