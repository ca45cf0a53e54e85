---------------------------- MODULE RelayLedger ----------------------------
(* What the token counters of the store owe to the requests: properties of  *)
(* Relay that add up the estimates and charges of all requests.             *)
EXTENDS Relay, Functions

Settled(c) == c.pc = "done" /\ c.reply.body = "upstream"

\* Tokens of the request with record c that its user's counters should hold:
\* the estimate from ReserveUser to the refund, the actual number after a
\* settlement.
UserTokens(c) ==
    IF c.pc \in {"select", "reserveKey", "call", "cancelUser", "refund",
                 "forward"} THEN Est(c.body)
    ELSE IF c.pc = "settleKey" \/ Settled(c) THEN c.actual
    ELSE 0

\* The same for the counter of the key it was sent to.
KeyTokens(c) ==
    IF c.pc \in {"call", "forward", "settleKey"} THEN Est(c.body)
    ELSE IF Settled(c) THEN c.actual
    ELSE 0

\* What request c owes to the hour h and the day d of user u, and to the hour
\* h of key k.
HourCharge(c, u, h) ==
    IF c.user = u /\ c.window = h THEN UserTokens(c) ELSE 0

DayCharge(c, u, d) ==
    IF c.user = u /\ c.window # ZeroTime /\ dayStart(c.window) = d
    THEN UserTokens(c) ELSE 0

KeyCharge(c, k, h) ==
    IF c.key = k /\ c.keyWindow = h THEN KeyTokens(c) ELSE 0

\* What all requests owe to a user's hour and day, and to a key's hour, at t.
HourOwed(u, t) ==
    SumFunction([r \in Requests |-> HourCharge(call[r], u, hourStart(t))])

DayOwed(u, t) ==
    SumFunction([r \in Requests |-> DayCharge(call[r], u, dayStart(t))])

KeyOwed(k, t) ==
    SumFunction([r \in Requests |-> KeyCharge(call[r], k, hourStart(t))])

\* No process has ended, and no request has acted on another window than the
\* one it reserved in.
Punctual == \A r \in Requests : call[r].pc # "dead" /\ ~call[r].late

\* The hour and the day of a user hold exactly what its requests of that hour
\* and day were charged: estimates while they run, actual numbers afterwards,
\* nothing for those that failed, on every path through the loop.
UserLedgerExact ==
    Punctual =>
        \A u \in Present(users) :
            /\ countersAt(u, clock).hour.value = HourOwed(u, clock)
            /\ countersAt(u, clock).day.value = DayOwed(u, clock)

\* So does the hour of an upstream key, while no client has gone away: both as
\* ReserveKey reads it and as routing does.
KeyLedgerExact ==
    Punctual /\ Cancelled = {} =>
        \A k \in Present(upstreamKeys) :
            /\ keyHourAt(k).value = KeyOwed(k, clock)
            /\ windowValue(keyHours[k], clock) = KeyOwed(k, clock)

\* The counters of state s hold no tokens.
Unused(s) ==
    /\ \A u \in UserIDs : /\ s.counters[u].hour.value = 0
                          /\ s.counters[u].day.value = 0
    /\ \A k \in KeyIDs : s.keyHours[k].value = 0

\* No product of max_tokens and n wraps, and no upstream reports a negative
\* usage.
Measured == \A b \in Payloads : {Est(b)} \cup ActualTokens(b) \subseteq Nat

\* The files that a first start can find hold no tokens of its hour and day,
\* which the requests to come could not account for.  (Windows that were over
\* before clock 0 have no times of their own: they are empty counters.)
FirstUnused == \A d \in InitialDisks : Unused(d)
=============================================================================
