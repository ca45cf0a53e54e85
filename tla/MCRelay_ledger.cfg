\* Two requests of one user over an hour's end: every counter is exact.
SPECIFICATION MCSpec
CONSTANTS
    HourLen = 1
    HoursPerDay = 2
    WorkingHours <- AlwaysWorking
    ZoneOffset = 0
    DefaultHourlyTokens = 3
    DefaultDailyTokens = 5
    Normal <- MCNormal
    u1 = u1
    u2 = u2
    UserIDs = {u1, u2}
    KeyIDs = {1, 2}
    AccessKeyIDs = {a1}
    Tokens = {}
    Usernames = {"u1", "u2"}
    FoldCase <- MCFoldCase
    Hashes = {"h"}
    Secrets = {"s"}
    ModelNames = {"GPT", "gpt", ""}
    Blank = ""
    Limits = {0, 3, 5}
    Amounts = {1, 2, 3}
    SessionTTL = 1
    InitialDisks <- TwoKeys
    Nil = Nil
    Half = 1048576
    Requests = {r1, r2}
    Payloads <- CompleteAndEmbed
    Codes = {200, 400, 403, 429, 500}
    Usage = {1, 3}
    Chars = {0, 3}
    MaxManage = 0
    MaxSaves = 0
    MaxRestarts = 0
    MaxClock = 1
    Limited = TRUE
    MayCancel = TRUE
INVARIANTS RelayTypeOK UserLedgerExact KeyLedgerExact RetryElsewhere 
PROPERTIES KeyWindowForward RewoundOnlyLate
SYMMETRY RequestSymmetry
CHECK_DEADLOCK FALSE
