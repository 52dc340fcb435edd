SPECIFICATION Spec
CONSTANTS
    Files = {1, 2, 3}
    Fulls <- TwoChains
    Start <- NoLogBetween
    Directories = {1}
    StayYoung = {3}
    Passes = {p1, p2}
    Host <- OneHost
    PerPass = 1
    DeleteSource = TRUE
    Lockdowns = TRUE
    Harmable = {}
SYMMETRY PassesAreAlike
INVARIANTS NothingLost ReleasedIsVouchedFor VerifiedIsThere RepositoryKeepsTheNewestChain
PROPERTIES ExpiresWithItsChain
CHECK_DEADLOCK FALSE
