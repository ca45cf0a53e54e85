----------------------------- MODULE QuotaRules -----------------------------
(* internal/quota/quota.go: when the hourly limits are enforced, and which  *)
(* limit applies to a user.                                                 *)
EXTENDS Windows

CONSTANTS WorkingHours,         \* cfg.Server.WorkingHours: [start, end) hours
          ZoneOffset,           \* hours from local time to the configured zone
          DefaultHourlyTokens,
          DefaultDailyTokens

\* config.validate (config.go:147-166) refuses anything else.
ASSUME QuotaAssumption ==
    /\ WorkingHours \subseteq [start : 0 .. HoursPerDay, end : 0 .. HoursPerDay]
    /\ ZoneOffset \in 0 .. HoursPerDay - 1
    /\ DefaultHourlyTokens \in Nat \ {0}
    /\ DefaultDailyTokens \in Nat \ {0}

\* The hour of the day, in the configured time zone, of the local time t.
hourInZone(t) == ((t \div HourLen) + ZoneOffset) % HoursPerDay

IsWorkingHour(t) ==
    \E w \in WorkingHours : hourInZone(t) >= w.start /\ hourInZone(t) < w.end

\* A limit that is not positive stands for the configured default.
HourlyLimit(u) == IF u.hourly > 0 THEN u.hourly ELSE DefaultHourlyTokens
DailyLimit(u)  == IF u.daily > 0 THEN u.daily ELSE DefaultDailyTokens
=============================================================================
