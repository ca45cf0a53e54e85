\* Every request is answered.
SPECIFICATION MCFair
CONSTANTS
    HourLen = 1
    HoursPerDay = 2
    WorkingHours <- AlwaysWorking
    ZoneOffset = 0
    DefaultHourlyTokens = 15
    DefaultDailyTokens = 15
    Normal <- MCNormal
    u1 = u1
    u2 = u2
    UserIDs = {u1, u2}
    KeyIDs = {1, 2}
    AccessKeyIDs = {a1}
    Tokens = {}
    Usernames = {"u1", "u2"}
    FoldCase <- MCFoldCase
    Hashes = {"h"}
    Secrets = {"s"}
    ModelNames = {"GPT", "gpt", ""}
    Blank = ""
    Limits = {0, 8, 15}
    Amounts = {6}
    SessionTTL = 1
    InitialDisks <- SmallKeys
    Nil = Nil
    Half = 1048576
    Requests = {r1, r2}
    Payloads <- Chats
    Codes = {200, 400, 500}
    Usage = {6}
    Chars = {1}
    MaxManage = 0
    MaxSaves = 0
    MaxRestarts = 0
    MaxClock = 0
    Limited = FALSE
    MayCancel = TRUE
PROPERTIES EveryRequestAnswered
CHECK_DEADLOCK FALSE
