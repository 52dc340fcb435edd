SPECIFICATION FairSpec
CONSTANTS
    Files = {1, 2, 3}
    Fulls <- TwoChains
    Start <- SecondBeganEarly
    Directories = {}
    StayYoung = {1, 2, 3}
    Passes = {p1}
    Host <- OneHost
    PerPass = 1
    DeleteSource = TRUE
    Lockdowns = FALSE
    Harmable <- TheFirst
INVARIANTS ServerKeepsTheNewestChain
PROPERTIES EveryBackupIsProven TheServerIsFreed
CHECK_DEADLOCK FALSE
