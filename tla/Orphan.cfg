SPECIFICATION FairSpecWorkEnds
CONSTANTS
    NoPid = NoPid  NoHost = NoHost  NoNode = NoNode  NoCommand = NoCommand  NoLog = NoLog
    d1 = d1  d2 = d2  m1 = m1  m2 = m2  h1 = h1  h2 = h2  c1 = c1  c2 = c2  n1 = n1  n2 = n2
    Daemons = {d1}
    Machines = {m1}
    Hosts = {h1}
    Nodes = {n1, n2}
    Commands = {c1}
    Pids = {p1, p2}
    LogIds = {l1, l2}
    MachineOf <- OneMachine
    Identity <- Identities
    HostNames <- OwnNames
    RoleCommands <- AllRoles
    Window <- ShortJobs
    Async = {}
    MaxParallel <- Two
    Windowed = {}
    Requestable = {}
    Editable = {}
    StrangerPids = {}
    Grace = 5
    MaxAge = 2
    ChildrenSurvive = TRUE
    SpawnMayFail = FALSE
    StoreMayFail = FALSE
PROPERTY CommandsKeepRunning
