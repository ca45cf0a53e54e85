\* Deletions while requests run: on two keys with second calls, and on one
\* with saves and restarts.
SPECIFICATION MCSpec
CONSTANTS
    HourLen = 1
    HoursPerDay = 2
    WorkingHours <- AlwaysWorking
    ZoneOffset = 0
    DefaultHourlyTokens = 5
    DefaultDailyTokens = 5
    Normal <- MCNormal
    u1 = u1
    u2 = u2
    UserIDs = {u1, u2}
    KeyIDs = {1, 2}
    AccessKeyIDs = {a1}
    Tokens = {}
    Usernames = {"u1", "u2"}
    FoldCase <- MCFoldCase
    Hashes = {"h"}
    Secrets = {"s"}
    ModelNames = {"GPT", "gpt", ""}
    Blank = ""
    Limits = {0, 5}
    Amounts = {2}
    SessionTTL = 1
    InitialDisks <- OneOrTwoKeys
    Nil = Nil
    Half = 1048576
    Requests = {r1, r2}
    Payloads <- CompleteOnly
    Codes = {200, 400, 429}
    Usage = {2}
    Chars = {1}
    MaxManage = 1
    MaxSaves = 1
    MaxRestarts = 1
    MaxClock = 0
    Limited = FALSE
    MayCancel = TRUE
INVARIANTS InFlightBounded InFlightExact
PROPERTIES ReservationLife
SYMMETRY RequestSymmetry
CHECK_DEADLOCK FALSE
