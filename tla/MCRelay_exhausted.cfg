\* Two requests for what is left of the hour of the only key.
SPECIFICATION MCSpec
CONSTANTS
    HourLen = 1
    HoursPerDay = 2
    WorkingHours <- AlwaysWorking
    ZoneOffset = 0
    DefaultHourlyTokens = 5
    DefaultDailyTokens = 5
    Normal <- MCNormal
    u1 = u1
    u2 = u2
    UserIDs = {u1, u2}
    KeyIDs = {1, 2}
    AccessKeyIDs = {a1}
    Tokens = {}
    Usernames = {"u1", "u2"}
    FoldCase <- MCFoldCase
    Hashes = {"h"}
    Secrets = {"s"}
    ModelNames = {"GPT", "gpt", ""}
    Blank = ""
    Limits = {0, 3, 5}
    Amounts = {1, 2, 3}
    SessionTTL = 1
    InitialDisks <- SmallKey
    Nil = Nil
    Half = 1048576
    Requests = {r1, r2}
    Payloads <- CompleteOnly
    Codes = {200}
    Usage = {1}
    Chars = {0}
    MaxManage = 0
    MaxSaves = 0
    MaxRestarts = 0
    MaxClock = 0
    Limited = FALSE
    MayCancel = FALSE
INVARIANTS HourlyExhaustionIs429
SYMMETRY RequestSymmetry
CHECK_DEADLOCK FALSE
