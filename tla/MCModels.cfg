\* Three callers and three keys, over the life of two lists.
SPECIFICATION MCFair
CONSTANTS
    Callers = {c1, c2, c3}
    KeyIDs = {1, 2, 3}
    Names = {"a", "b"}
    Offers <- MCOffers
    TTL = 2
    Nil = Nil
    MaxClock = 3
    MaxChanges = 1
INVARIANTS ModelsTypeOK ListComplete
PROPERTIES AskedOnce EveryoneAnswered
CHECK_DEADLOCK FALSE
