SPECIFICATION FairSpec
CONSTANTS
    NoCommand = NoCommand  NoDaemon = NoDaemon
    Daemons = {d1}
    Clients = {k1, k2}
    Commands = {c1}
    MaxRequests = 2
    MaxLapses = 1
    MayCancel = TRUE
PROPERTIES
    
    EndedStays
    PendingIsResolved
    StartedIsResolved
