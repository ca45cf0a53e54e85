\* A refund after the end of the hour frees tokens that others reserved.
SPECIFICATION MCSpec
CONSTANTS
    HourLen = 1
    HoursPerDay = 2
    WorkingHours <- AlwaysWorking
    ZoneOffset = 0
    DefaultHourlyTokens = 3
    DefaultDailyTokens = 5
    Normal <- MCNormal
    u1 = u1
    u2 = u2
    UserIDs = {u1, u2}
    KeyIDs = {1, 2}
    AccessKeyIDs = {a1}
    Tokens = {}
    Usernames = {"u1", "u2"}
    FoldCase <- MCFoldCase
    Hashes = {"h"}
    Secrets = {"s"}
    ModelNames = {"GPT", "gpt", ""}
    Blank = ""
    Limits = {0, 3, 5}
    Amounts = {1, 2, 3}
    SessionTTL = 1
    InitialDisks <- OneKey
    Nil = Nil
    Half = 1048576
    Requests = {r1, r2, r3}
    Payloads <- CompleteOnly
    Codes = {200, 500}
    Usage = {1}
    Chars = {0}
    MaxManage = 0
    MaxSaves = 0
    MaxRestarts = 0
    MaxClock = 1
    Limited = FALSE
    MayCancel = FALSE
INVARIANTS NoOversell
SYMMETRY RequestSymmetry
CHECK_DEADLOCK FALSE
