SPECIFICATION FairSpec
CONSTANTS
    None = None
    Messages = {1, 2, 3}
    Chat <- OtherChatLast
    Parts <- AllShort
    Document <- NoFiles
    Passes = {p1}
    Hands = {}
    PerChat = 2
    Limit = 2
    RetryCount = 1
    Timeout = 1
    StaleFloor = 0
PROPERTIES NothingOvertakes EveryMessageIsSettled
