------------------------------- MODULE Relay -------------------------------
(* internal/api/relay.go, proxy: one goroutine per client request, which    *)
(* reserves the estimated tokens of its user and of an upstream key, calls  *)
(* the upstream at most twice, and refunds or settles the reservations.     *)
(*                                                                          *)
(* The goroutines share nothing but the store; every call of a store method *)
(* is one step, and the steps of all requests, of the administration and of *)
(* the background saves interleave.  Work on local data is part of the step *)
(* that follows it.                                                         *)
EXTENDS Store, Estimates

CONSTANTS Requests,     \* the requests that may arrive
          Payloads,     \* what their bodies say
          Codes,        \* status codes of upstream replies
          Usage,        \* token totals that upstreams report
          Chars         \* characters counted in a stream that reports none

Payload == [model : ModelNames, stream : BOOLEAN, contents : Contents]

\* injectUsage: ServeEmbeddings does not ask for the usage in a stream.
inject(b) == b.contents.kind # "embedding"

Est(b) == prompt(b.contents) + completion(b.contents)

\* 35 tokens for 100 characters, rounded up.
completionEstimate(chars) ==
    IF chars <= 0 THEN 0 ELSE (35 * chars + 99) \div 100

\* What proxyJSON or proxyStream returns: the usage the upstream reports, or
\* an estimate; a stream may be cut off by its client at any line.
ActualTokens(b) ==
    Usage \cup IF b.stream
               THEN {prompt(b.contents) + completionEstimate(n) : n \in Chars}
               ELSE {Est(b)}

ASSUME RelayAssumption ==
    /\ Payloads \subseteq Payload
    /\ Codes \subseteq 200 .. 599
    /\ Usage \subseteq Int
    /\ Chars \subseteq Nat
    /\ Nil \notin KeyIDs
    /\ UserIDs # {} /\ Payloads # {}
    /\ IsFiniteSet(Requests)
    /\ \A b \in Payloads : {Est(b)} \cup ActualTokens(b) \subseteq Amounts

VARIABLE call

vars == <<storeVars, call>>

\* The pc names the next call on the store, or what the request waits for.
PC == {"idle", "check", "reserve", "select", "reserveKey", "call", "forward",
       "settleKey", "refund", "cancelUser", "cancelKey", "done", "dead"}

NoReply == [code |-> 0, body |-> "none"]

\* An attempt that reached the upstream: its key, whether the body had the
\* injected stream_options, and the answer (0 when none came).
Attempt == [key : KeyIDs, opts : BOOLEAN, code : Codes \cup {0}]

Reply == [code : Codes \cup {0, 429, 499, 502},
          body : {"none", "own", "upstream", "drained"}]

Call == [pc : PC, user : UserIDs, body : Payloads, now : Time,
         hourly : Limits, daily : Limits, key : KeyIDs \cup {Nil},
         limit : Limits, exclude : SUBSET KeyIDs, attempt : 0 .. 2,
         stripped : BOOLEAN, lastResp : Reply, actual : Amounts \cup {0},
         reply : Reply,
         \* histories
         tried : Seq(Attempt), window : Time \cup {ZeroTime},
         keyWindow : Time \cup {ZeroTime}, late : BOOLEAN]

working(r) == IsWorkingHour(call[r].now)
est(r)     == Est(call[r].body)

\* The body still carries the field when the attempt is made.
hasOpts(r) == inject(call[r].body) /\ call[r].body.stream /\ ~call[r].stripped

Becomes(r, c) == call' = [call EXCEPT ![r] = c]

Own(code) == [code |-> code, body |-> "own"]

-----------------------------------------------------------------------------
(* Up to the reservation.                                                   *)

\* authenticate, the parsing of the body, and the rate limiter (here: any
\* answer; a refusal leaves no trace in the store).  now is read here and is
\* used until the end of the request.  One step stands for two locked reads
\* (UserByAccessKey, GetUser) and the reading of the body: Check looks the user
\* up again, so that a deletion between them is one before Check.
Arrive(r, a, b, allowed) ==
    /\ call[r].pc = "idle"
    /\ proc = "up"                          \* Shutdown closes the listener
    /\ accessKeys[a] # Nil
    /\ users[accessKeys[a]] # Nil
    /\ users[accessKeys[a]].enabled
    /\ Becomes(r, [call[r] EXCEPT !.pc = IF allowed THEN "check" ELSE "done",
                                  !.user = accessKeys[a], !.body = b,
                                  !.now = clock,
                                  !.reply = IF allowed THEN NoReply ELSE Own(429)])
    /\ UNCHANGED storeVars

\* CheckAndReserve reads the limits in a copy of the user ...
Check(r) ==
    /\ call[r].pc = "check"
    /\ LET u == users[call[r].user] IN
       \/ /\ u = Nil
          /\ Becomes(r, [call[r] EXCEPT !.pc = "done", !.reply = Own(429)])
       \/ /\ u # Nil
          /\ Becomes(r, [call[r] EXCEPT !.pc = "reserve",
                                        !.hourly = HourlyLimit(u),
                                        !.daily = DailyLimit(u)])
    /\ UNCHANGED storeVars

\* ... and reserves under the lock taken a second time.
Reserve(r) ==
    /\ call[r].pc = "reserve"
    /\ LET c == call[r] IN
       \/ /\ ReserveUser(c.user, est(r), c.hourly, c.daily, working(r), c.now)
          /\ Becomes(r, [call[r] EXCEPT
                        !.pc = "select",
                        !.window = hourStart(c.now),
                        !.late = hourStart(c.now) # hourStart(clock)])
       \/ /\ ReserveUserErr(c.user, est(r), c.hourly, c.daily, working(r),
                            c.now) # "nil"
          /\ Becomes(r, [call[r] EXCEPT !.pc = "done", !.reply = Own(429)])
          /\ UNCHANGED storeVars

-----------------------------------------------------------------------------
(* The attempts.                                                            *)

\* Fault: one attempt too many.
NextAttemptLate(r) == IF call[r].attempt <= 2 THEN "select" ELSE "refund"

\* Where the loop goes on: another attempt, or the end without a usable key.
NextAttempt(r) == IF call[r].attempt < 2 THEN "select" ELSE "refund"

\* The answer that goes with the refund.
LoopReply(c) == IF c.lastResp # NoReply THEN c.lastResp ELSE Own(502)

ChooseKey(r) ==
    /\ call[r].pc = "select"
    /\ LET s == SelectKey(call[r].user, call[r].body.model, working(r),
                          call[r].exclude) IN
       \/ \E k \in s.key :
             Becomes(r, [call[r] EXCEPT
                        !.pc = "reserveKey", !.key = k,
                        !.limit = hourlyLimit(upstreamKeys[k],
                                                 DefaultHourlyTokens)])
       \/ /\ s.err # "nil"
          /\ Becomes(r, [call[r] EXCEPT
                        !.pc = "refund",
                        !.reply = IF s.err = "ErrHourlyExhausted"
                                     THEN Own(429) ELSE Own(502)])
    /\ UNCHANGED storeVars

\* A key that is refused is excluded; the attempt does not count.
BookKey(r) ==
    /\ call[r].pc = "reserveKey"
    /\ LET c == call[r] IN
       \/ /\ ReserveKey(c.key, est(r), c.limit, working(r))
          /\ Becomes(r, [call[r] EXCEPT
                        !.pc = "call", !.attempt = @ + 1,
                        !.tried = Append(@, [key |-> c.key,
                                                opts |-> hasOpts(r),
                                                code |-> 0]),
                        !.keyWindow = hourStart(clock)])
       \/ /\ ReserveKeyRefused(c.key, est(r), c.limit, working(r))
          /\ Becomes(r, [call[r] EXCEPT !.pc = "select",
                                        !.exclude = @ \cup {c.key}])

\* Fault: the key's reservation is forgotten.
UnbookForgotten(r) == UNCHANGED storeVars

\* The key's reservation is given back.
Unbook(r) == ReleaseKey(call[r].key, est(r))

LateForKey(r)  == call[r].late \/ call[r].keyWindow # hourStart(clock)
LateForUser(r) == call[r].late \/ call[r].window # hourStart(clock)

\* Do returns an error: no connection, a timeout, a key that cannot be
\* decrypted.
CallFails(r) ==
    /\ call[r].pc = "call"
    /\ Unbook(r)
    /\ Becomes(r, [call[r] EXCEPT !.pc = NextAttempt(r),
                                  !.exclude = @ \cup {call[r].key},
                                  !.late = LateForKey(r),
                                  !.reply = IF call[r].attempt < 2 THEN NoReply
                                               ELSE LoopReply(call[r])])

\* Do returns an error and the client is gone: quota.Release follows, which
\* releases the user and then, once more, the key.
CallCancelled(r) ==
    /\ call[r].pc = "call"
    /\ Unbook(r)
    /\ Becomes(r, [call[r] EXCEPT !.pc = "cancelUser", !.late = LateForKey(r)])

CancelUser(r) ==
    /\ call[r].pc = "cancelUser"
    /\ ReleaseUser(call[r].user, est(r))
    /\ Becomes(r, [call[r] EXCEPT !.pc = "cancelKey", !.late = LateForUser(r)])

CancelKey(r) ==
    /\ call[r].pc = "cancelKey"
    /\ Unbook(r)
    /\ Becomes(r, [call[r] EXCEPT !.pc = "done", !.reply = Own(499)])

Retryable(code) == code = 429 \/ code >= 500

\* The history of the current attempt, with its answer.
Answered(r, code) ==
    [call[r].tried EXCEPT ![Len(call[r].tried)].code = code]

\* 400 to a body with stream_options: the same keys may be tried without it.
CallRejectsOptions(r) ==
    /\ call[r].pc = "call"
    /\ 400 \in Codes
    /\ hasOpts(r)
    /\ Unbook(r)
    /\ Becomes(r, [call[r] EXCEPT !.pc = NextAttempt(r), !.stripped = TRUE,
                                  !.tried = Answered(r, 400),
                                  !.late = LateForKey(r),
                                  !.reply = IF call[r].attempt < 2 THEN NoReply
                                               ELSE LoopReply(call[r])])

\* Fault: the first error is kept, as if the second call had not been made.
CallRefusedFirst(r, code) ==
    /\ call[r].pc = "call"
    /\ code \in Codes \ (200 .. 299)
    /\ ~(code = 400 /\ hasOpts(r))
    /\ Unbook(r)
    /\ LET first == IF call[r].lastResp = NoReply
                    THEN [code |-> code, body |-> "drained"]
                    ELSE call[r].lastResp
           again == Retryable(code) /\ call[r].attempt < 2
       IN  Becomes(r, [call[r] EXCEPT
                      !.pc = IF again THEN "select" ELSE "refund",
                      !.exclude = IF Retryable(code)
                                     THEN @ \cup {call[r].key} ELSE @,
                      !.tried = Answered(r, code),
                      !.late = LateForKey(r),
                      !.lastResp = first,
                      !.reply = IF again THEN NoReply ELSE first])

\* Any other error of the upstream: its body is read to the end and closed.
CallRefused(r, code) ==
    /\ call[r].pc = "call"
    /\ code \in Codes \ (200 .. 299)
    /\ ~(code = 400 /\ hasOpts(r))
    /\ Unbook(r)
    /\ LET drained == [code |-> code, body |-> "drained"]
           again   == Retryable(code) /\ call[r].attempt < 2
       IN  Becomes(r, [call[r] EXCEPT
                      !.pc = IF again THEN "select" ELSE "refund",
                      !.exclude = IF Retryable(code)
                                     THEN @ \cup {call[r].key} ELSE @,
                      !.tried = Answered(r, code),
                      !.late = LateForKey(r),
                      !.lastResp = drained,
                      !.reply = IF again THEN NoReply ELSE drained])

\* Fault: the key is given back when the headers arrive, as on an error.
CallSucceedsReleases(r, code) ==
    /\ call[r].pc = "call"
    /\ code \in Codes \cap (200 .. 299)
    /\ Unbook(r)
    /\ Becomes(r, [call[r] EXCEPT !.pc = "forward",
                                  !.tried = Answered(r, code),
                                  !.reply = [code |-> code, body |-> "upstream"]])

CallSucceeds(r, code) ==
    /\ call[r].pc = "call"
    /\ code \in Codes \cap (200 .. 299)
    /\ Becomes(r, [call[r] EXCEPT !.pc = "forward",
                                  !.tried = Answered(r, code),
                                  !.reply = [code |-> code, body |-> "upstream"]])
    /\ UNCHANGED storeVars

-----------------------------------------------------------------------------
(* The end.                                                                 *)

\* The answer is written (passthrough, or an error of the relay's own) and
\* the user's reservation is given back.
Refund(r) ==
    /\ call[r].pc = "refund"
    /\ ReleaseUser(call[r].user, est(r))
    /\ Becomes(r, [call[r] EXCEPT !.pc = "done", !.late = LateForUser(r)])

\* Fault: the user is charged in the hour of the reservation.
ForwardOldHour(r, actual) ==
    /\ call[r].pc = "forward"
    /\ actual \in ActualTokens(call[r].body)
    /\ counters' = [counters EXCEPT ![call[r].user] =
            AdjustedUser(countersAt(call[r].user, call[r].window),
                         actual - est(r))]
    /\ markDirtyLocked
    /\ Becomes(r, [call[r] EXCEPT !.pc = "settleKey", !.actual = actual,
                                  !.late = LateForUser(r)])
    /\ UNCHANGED <<clock, proc, registry, keyHours, inFlight>>

\* The reply is forwarded to its end, then Settle: the user, and the key.
Forward(r, actual) ==
    /\ call[r].pc = "forward"
    /\ actual \in ActualTokens(call[r].body)
    /\ SettleUser(call[r].user, est(r), actual)
    /\ Becomes(r, [call[r] EXCEPT !.pc = "settleKey", !.actual = actual,
                                  !.late = LateForUser(r)])

\* Fault: the key is charged in the hour of its reservation.
SettleOldHour(r) ==
    /\ call[r].pc = "settleKey"
    /\ keyHours' = [keyHours EXCEPT ![call[r].key] =
            Adjusted(ensureWindow(@, call[r].keyWindow),
                     call[r].actual - est(r))]
    /\ inFlight' = [inFlight EXCEPT ![call[r].key] = max64(0, @ - 1)]
    /\ markDirtyLocked
    /\ Becomes(r, [call[r] EXCEPT !.pc = "done", !.late = LateForKey(r)])
    /\ UNCHANGED <<clock, proc, registry, counters>>

Settle(r) ==
    /\ call[r].pc = "settleKey"
    /\ SettleKey(call[r].key, est(r), call[r].actual)
    /\ Becomes(r, [call[r] EXCEPT !.pc = "done", !.late = LateForKey(r)])

-----------------------------------------------------------------------------

\* user and body mean nothing before Arrive.
NotArrived ==
    [pc |-> "idle", user |-> CHOOSE u \in UserIDs : TRUE,
     body |-> CHOOSE b \in Payloads : TRUE, now |-> 0,
     hourly |-> 0, daily |-> 0, key |-> Nil, limit |-> 0,
     exclude |-> {}, attempt |-> 0, stripped |-> FALSE,
     lastResp |-> NoReply, actual |-> 0, reply |-> NoReply, tried |-> <<>>,
     window |-> ZeroTime, keyWindow |-> ZeroTime, late |-> FALSE]

RelayInit ==
    /\ Init
    /\ call = [r \in Requests |-> NotArrived]

Start(r) == \E a \in AccessKeyIDs, b \in Payloads, allowed \in BOOLEAN :
                Arrive(r, a, b, allowed)

Returns(r) == \/ CallFails(r) \/ CallCancelled(r) \/ CallRejectsOptions(r)
              \/ \E code \in Codes : CallRefused(r, code) \/ CallSucceeds(r, code)

\* The steps of a request that has arrived.
Handle(r) == \/ Check(r) \/ Reserve(r)
             \/ ChooseKey(r) \/ BookKey(r) \/ Returns(r)
             \/ CancelUser(r) \/ CancelKey(r) \/ Refund(r)
             \/ \E n \in Amounts : Forward(r, n)
             \/ Settle(r)

Administer == /\ \/ ManageUsers \/ ManageKeys \/ ManageSessions
                 \/ \E u \in UserIDs : UserCounters(u)
                 \/ \E k \in KeyIDs : KeyHourCounter(k)
              /\ UNCHANGED call

\* The goroutines end with the process.
Die == /\ Restart
       /\ call' = [r \in Requests |->
                     IF call[r].pc = "idle" THEN call[r]
                     ELSE [call[r] EXCEPT !.pc = "dead"]]

RelayNext == \/ \E r \in Requests : Start(r) \/ Handle(r)
             \/ Administer
             \/ Background /\ UNCHANGED call
             \/ Die
             \/ Tick /\ UNCHANGED call

RelaySpec == RelayInit /\ [][RelayNext]_vars

-----------------------------------------------------------------------------
(* Properties.                                                              *)

RelayTypeOK == StoreTypeOK /\ call \in [Requests -> Call]

\* The requests that hold a reservation of key k, and of user u.
KeyHolders(k) == {r \in Requests :
                    /\ call[r].pc \in {"call", "forward", "settleKey"}
                    /\ call[r].key = k}
UserHolders(u) == {r \in Requests :
                    /\ call[r].pc \in {"select", "reserveKey", "call",
                                      "cancelUser", "refund", "forward"}
                    /\ call[r].user = u}

\* The requests whose client went away during a call.
Cancelled == {r \in Requests : \/ call[r].pc \in {"cancelUser", "cancelKey"}
                               \/ call[r].reply = Own(499)}

\* The routing tie-breaker never counts a request that is over: a key's
\* number of requests in flight is at most the number of requests between
\* ReserveKey and their ReleaseKey or SettleKey, across deletions of the key
\* or its owner, restarts and clients that go away.  (A number that is too low,
\* as after the second release of CancelKey, is the matter of InFlightExact.)
InFlightBounded ==
    \A k \in KeyIDs : inFlight[k] <= Cardinality(KeyHolders(k))

\* As long as no client has gone away during a call, the number is exact for
\* every key that exists: no path through the loop (error, 400, 429, 5xx, the
\* end of a reply), in the first call or in the second on another key, forgets
\* to give the key back or gives it back twice.
InFlightExact ==
    Cancelled = {} =>
        \A k \in Present(upstreamKeys) :
            inFlight[k] = Cardinality(KeyHolders(k))

\* An upstream is called at most twice for a request, and the second call
\* goes to another key unless the first was answered 400 to a body with
\* stream_options: then it goes without them.
RetryElsewhere ==
    \A r \in Requests :
        LET t == call[r].tried IN
        /\ Len(t) <= 2
        /\ Len(t) = 2 =>
              \/ t[1].key # t[2].key
              \/ t[1].opts /\ t[1].code = 400 /\ ~t[2].opts

\* Whether an upstream answered the attempt with an error; a 400 to a body with
\* stream_options does not count as one.
Failed(a) == a.code \notin {0} \cup (200 .. 299) /\ ~(a.opts /\ a.code = 400)

\* An upstream's error reaches the client as a status, and only the last one
\* does: a request whose second call was answered with an error ends with that
\* status, and a status that is passed on is that of the last error answered
\* to this request; 429 and 5xx are passed on only after a second call.
UpstreamErrorTold ==
    \A r \in Requests :
        LET c == call[r]
            t == c.tried
        IN  c.pc \in {"refund", "done"} =>
              /\ Len(t) = 2 /\ Failed(t[2]) => c.reply.code = t[2].code
              /\ c.reply.body = "drained" =>
                    /\ \E i \in DOMAIN t :
                          /\ Failed(t[i]) /\ t[i].code = c.reply.code
                          /\ \A j \in DOMAIN t : j > i => ~Failed(t[j])
                    /\ Retryable(c.reply.code) => Len(t) = 2

\* While a key exists its window only moves forward: a late settlement or a
\* stale clock reading never brings back an hour that is over.
KeyWindowForward ==
    [][\/ Restart
       \/ \A k \in Present(upstreamKeys) :
             upstreamKeys'[k] # Nil => keyHours'[k].start >= keyHours[k].start
      ]_vars

\* The hour of a user that exists moves backwards only by a reservation that
\* was granted to a request which read the clock in an earlier hour: proxy
\* hands ReserveUser a reading taken before the lock, every other call reads
\* the clock under it.
RewoundOnlyLate ==
    [][\/ Restart
       \/ \A u \in Present(users) :
             \/ users'[u] = Nil
             \/ counters'[u].hour.start >= counters[u].hour.start
             \/ \E r \in Requests :
                   /\ call[r].pc = "reserve" /\ call'[r].pc = "select"
                   /\ call[r].user = u
                   /\ hourStart(call[r].now) < hourStart(clock)]_vars

\* Every request that arrives is answered: it ends, or the reply of an upstream
\* is being forwarded to its client, or it is a stream whose upstream does not
\* answer.  The loop that excludes refused keys runs out of them, and no path
\* waits for another request.
EveryRequestAnswered ==
    \A r \in Requests :
        call[r].pc # "idle" ~> \/ call[r].pc \in {"done", "dead", "forward"}
                               \/ call[r].pc = "call" /\ call[r].body.stream
=============================================================================
