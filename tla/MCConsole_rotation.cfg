\* Two updates of one key: the one that leaves the API key out brings the old
\* one back.
SPECIFICATION MCSpec
CONSTANTS
    HourLen = 1
    HoursPerDay = 2
    WorkingHours = {}
    ZoneOffset = 0
    DefaultHourlyTokens = 4
    DefaultDailyTokens = 4
    Normal <- MCNormal
    u1 = u1
    u2 = u2
    a1 = a1
    t0 = t0
    t1 = t1
    t2 = t2
    UserIDs = {u1, u2, u3}
    KeyIDs = {1, 2}
    AccessKeyIDs = {a1, a2}
    Tokens = {t0, t1, t2, t3}
    Usernames = {"u1", "u2", "u3"}
    FoldCase <- MCFoldCase
    Hashes = {"h"}
    Secrets = {"s1", "s2"}
    ModelNames = {""}
    Blank = ""
    Limits = {0, 4}
    Amounts = {1}
    SessionTTL = 1
    InitialDisks <- ConsoleDisk
    Nil = Nil
    Handlers = {h1, h2}
    MaxRestarts = 1
    MaxClock = 1
INVARIANT RotationKept
SYMMETRY HandlerSymmetry
CHECK_DEADLOCK FALSE
