SPECIFICATION HandedSpec
CONSTANTS
    None = None
    Messages = {1}
    Chat <- TwoInOne
    Parts <- LongThenShort
    Document <- FirstIsFile
    Passes = {p1, p2}
    Hands = {h1}
    PerChat = 1
    Limit = 1
    RetryCount = 2
    Timeout = 2
    StaleFloor = 1
SYMMETRY PassesAreAlike
INVARIANTS TypeOK SentIsWhole RepeatsAreExcused
PROPERTIES RequeuesOnlyTheAbandoned KeepsItsPromiseUnaided
