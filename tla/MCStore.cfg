\* The registry, and the ledger over two days of two hours, with their saves
\* and restarts.
SPECIFICATION MCFair
CONSTANTS
    HourLen = 1
    HoursPerDay = 2
    WorkingHours <- MCWorkingHours
    ZoneOffset = 0
    DefaultHourlyTokens = 4
    DefaultDailyTokens = 4
    Normal <- MCNormal
    UserIDs = {u1, u2}
    KeyIDs = {1}
    AccessKeyIDs = {a1}
    Tokens = {t1}
    Usernames = {"ann", "Ann"}
    FoldCase <- MCFoldCase
    Hashes = {"h"}
    Secrets = {"s"}
    ModelNames = {""}
    Blank = ""
    Limits = {0, 4}
    Amounts <- MCAmounts
    SessionTTL = 1
    InitialDisks <- MCDisks
    Nil = Nil
    MaxFailures = 1
    MaxRestarts = 1
INVARIANTS StoreTypeOK NoDangling UniqueUsernames SaveScheduled CleanMeansSaved
PROPERTIES OverdrawnOnlyReserved EventuallySaved RegistryWrittenBehind
CHECK_DEADLOCK FALSE
