\* Five requests over twice the window.
SPECIFICATION MCSpec
CONSTANTS
    Users = {u1}
    Requests = {r1, r2, r3, r4, r5}
    Limit = 2
    Window = 3
    MaxClock = 6
INVARIANTS LimiterTypeOK SlidingWindow LatestWindow RetryHonoured
SYMMETRY Symmetry
CHECK_DEADLOCK FALSE
