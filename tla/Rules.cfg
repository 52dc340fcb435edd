SPECIFICATION Spec
CONSTANTS
    NoPid = NoPid
    NoHost = NoHost
    NoNode = NoNode
    Pids = {p1}
    Hosts = {h1, h2}
    Nodes = {n1, n2}
    ThisHost = h1
    Timeouts = {0, 2}
    Grace = 2
    MaxElapsed = 5
    Repeats = {0, 1, 20, 600, 1200}
    Retries = {0, 5, 600}
    TimeoutValues = {0, 2, 900}
    Instants = {0, 1, 2, 4, 5, 18, 19, 20, 59, 60, 299, 300, 569, 570, 599, 600, 899, 900, 1169, 1170, 1199, 1200, 1201}
    LastHour = 3
    LastMinute = 1
    WeekdaySets = {{}, {7}, {1, 2, 3, 4, 5, 6, 7}}
    NoCode = NoCode
    TRANSIENT_SQLSTATES = {s57P03}
    DEFINITE_SQLSTATES = {s28P01}
    BUDGET_SECONDS = 100
    MAX_WAIT_SECONDS = 30
    MaxChain = 2
    MaxLocks = 2
INVARIANTS
    FreesExactlyTheTable
    ReapedUnstoppedIsDead
    RunningHoldsTheNext
    IntervalIsKept
    FailureIsRetried
    OutageIsWaitedOut
PROPERTIES
    VerdictsAreStable
    DueIsStable
    OpensAndClosesOnItsBounds
    WindowComesRound
    OnlyNotNowIsWaitedFor
CHECK_DEADLOCK FALSE
