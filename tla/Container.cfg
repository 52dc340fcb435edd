SPECIFICATION FairSpec
CONSTANTS
    NoPid = NoPid  NoHost = NoHost  NoNode = NoNode  NoCommand = NoCommand  NoLog = NoLog
    d1 = d1  d2 = d2  m1 = m1  m2 = m2  h1 = h1  h2 = h2  c1 = c1  c2 = c2  n1 = n1  n2 = n2
    Daemons = {d1}
    Machines = {m1}
    Hosts = {h1, h2}
    Nodes = {n1, n2}
    Commands = {c1}
    Pids = {p1}
    LogIds = {l1, l2}
    MachineOf <- OneMachine
    Identity <- Identities
    HostNames <- Renamed
    RoleCommands <- AllRoles
    Window <- ShortJobs
    Async = {}
    MaxParallel <- Two
    Windowed = {}
    Requestable = {}
    Editable = {c1}
    StrangerPids = {}
    Grace = 1
    MaxAge = 3
    ChildrenSurvive = FALSE
    SpawnMayFail = FALSE
    StoreMayFail = FALSE
PROPERTIES
    CommandsKeepRunning
