---------------------------- MODULE RelayProofs ----------------------------
(* Theorems about Relay, for all values of its constants: any number of     *)
(* requests, users and keys.                                                *)
EXTENDS Relay, Configuration, StoreProofs

-----------------------------------------------------------------------------
(* What a request may assume of its own record, at each of its steps.       *)

KeyPC     == {"reserveKey", "call", "forward", "settleKey", "cancelUser",
              "cancelKey"}
AttemptPC == {"select", "reserveKey"}
EndPC     == {"done", "dead"}
HoldPC    == {"call", "forward", "settleKey"}

\* A second attempt is under way only with another key, or without the field.
SecondTry(c) ==
    \/ c.tried[1].key \in c.exclude
    \/ c.tried[1].opts /\ c.tried[1].code = 400 /\ c.stripped

Elsewhere(t) ==
    \/ t[1].key # t[2].key
    \/ t[1].opts /\ t[1].code = 400 /\ ~t[2].opts

EarlyPC   == {"idle", "check", "reserve"}

Local(c) ==
    /\ c.pc \in KeyPC => c.key \in KeyIDs
    /\ c.pc \in EarlyPC => c.attempt = 0
    /\ c.pc \in AttemptPC => c.attempt < 2
    /\ c.pc = "call" => c.attempt > 0
    /\ c.pc = "settleKey" => c.actual \in Amounts
    /\ Len(c.tried) = c.attempt
    /\ c.pc = "reserveKey" => c.key \notin c.exclude
    /\ c.pc \in AttemptPC /\ c.attempt = 1 => SecondTry(c)
    /\ c.pc = "call" => c.tried[c.attempt].key = c.key
    /\ c.pc = "call" => c.tried[c.attempt].opts =
                          (inject(c.body) /\ c.body.stream /\ ~c.stripped)
    /\ c.attempt = 2 => Elsewhere(c.tried)
    /\ c.lastResp # Own(499)
    /\ c.pc \notin EndPC => c.reply # Own(499)

Sound(c) == c \in Call /\ Local(c)

Calls == /\ call \in [Requests -> Call]
         /\ \A r \in Requests : Local(call[r]) /\ call[r].now <= clock

RelayInv == Typed /\ Calls

LEMMA EstType ==
    ASSUME NEW b \in Payloads
    PROVE  Est(b) \in Amounts /\ Est(b) \in Int
    BY RelayAssumption, StoreAssumption

-----------------------------------------------------------------------------
(* The cap of an estimate (tokenize.go, EstimateCompletionTokens).          *)

LEMMA SmallRemainder ==
    ASSUME NEW m \in Nat \ {0}, NEW i \in 0 .. m - 1
    PROVE  i % m = i
    OBVIOUS

LEMMA WrappedInRange ==
    ASSUME NEW i \in Int64
    PROVE  Wrapped(i) = i
<1>0. Half \in Nat \ {0} /\ i \in Int /\ i >= 0 - Half /\ i < Half
    BY WidthAssumption DEF Int64, MaxCompletionEstimate
<1> DEFINE m == 2 * Half
           j == i + Half
<1>1. m \in Nat \ {0} /\ j \in 0 .. m - 1
    BY <1>0
<1>2. j - Half = i
    BY <1>0
<1> HIDE DEF m, j
<1>3. j % m = j
    BY <1>1, SmallRemainder
<1> QED BY <1>2, <1>3 DEF Wrapped, m, j

LEMMA Positive ==
    ASSUME NEW a \in Nat \ {0}, NEW b \in Nat \ {0}
    PROVE  a * b \in Nat /\ a * b >= 1
    OBVIOUS

\* Whatever the file says, the program runs only with working hours that are
\* inside a day and hold at least one hour of it, and with limits that
\* are positive: what QuotaAssumption and LimiterAssumption take for granted.
THEOREM ConfigurationAdmitted ==
    ASSUME NEW files \in SUBSET File, NEW cfg \in LoadConfig(files),
           HoursPerDay = 24
    PROVE  /\ cfg.hours \subseteq [start : 0 .. HoursPerDay, end : 0 .. HoursPerDay]
           /\ \E wh \in cfg.hours : \E hour \in 0 .. 23 :
                 hour >= wh.start /\ hour < wh.end
           /\ cfg.hourly \in Nat \ {0} /\ cfg.daily \in Nat \ {0}
           /\ cfg.perMinute \in Nat \ {0}
<1>1. ASSUME NEW n \in Node, NEW d \in Int  PROVE  asInt(n, d) \in Int
    <2>1. n.value \in Int
        BY DEF Node
    <2> QED
        BY <2>1 DEF asInt
<1>2. Default \in Config /\ validate(Default) /\ Default.hours # {}
    <2>1. /\ [start |-> 9, end |-> 12] \in Default.hours
          /\ \A wh \in Default.hours : wh \in WorkingHour /\ ValidHours(wh)
        BY DEF Default, WorkingHour, ValidHours
    <2>2. /\ Default.addr = "set" /\ Default.admin = "set"
          /\ Default.hourly = 10000000 /\ Default.daily = 400000000
          /\ Default.perMinute = 10
          /\ Default = [addr |-> "set", hours |-> Default.hours,
                         hourly |-> 10000000, daily |-> 400000000,
                         perMinute |-> 10, admin |-> "set"]
        BY DEF Default
    <2> QED
        BY <2>1, <2>2 DEF Config, validate
<1>3. ASSUME NEW f \in File
      PROVE  LET c == apply(f, Default) IN c \in Config /\ c.hours # {}
    <2>1. \A n \in Node : asString(n, "set") \in {"blank", "set"}
        BY DEF asString
    <2>2. ReadHours(f.hours, Default.hours) \in SUBSET WorkingHour
        BY <1>1, <1>2 DEF ReadHours, File, Item, WorkingHour, Config
    <2>3. ReadHours(f.hours, Default.hours) # {}
        BY <1>2 DEF ReadHours
    <2>4. /\ asInt(f.hourly, Default.hourly) \in Int
          /\ asInt(f.daily, Default.daily) \in Int
          /\ asInt(f.perMinute, Default.perMinute) \in Int
        BY <1>1 DEF File, Default
    <2>5. /\ asString(f.addr, Default.addr) \in {"blank", "set"}
          /\ asString(f.admin, Default.admin) \in {"blank", "set"}
        BY <2>1 DEF File, Default
    <2> QED
        BY <2>2, <2>3, <2>4, <2>5 DEF apply, Config
<1>4. cfg \in Config /\ validate(cfg) /\ cfg.hours # {}
    BY <1>2, <1>3 DEF LoadConfig
<1>5. \A wh \in cfg.hours : wh \in WorkingHour /\ ValidHours(wh)
    BY <1>4 DEF Config, validate
<1>6. cfg.hours \subseteq [start : 0 .. HoursPerDay, end : 0 .. HoursPerDay]
    BY <1>5 DEF WorkingHour, ValidHours
<1>7. PICK wh \in cfg.hours : TRUE
    BY <1>4
<1>8. wh.start \in 0 .. 23 /\ wh.start >= wh.start /\ wh.start < wh.end
    BY <1>5, <1>7 DEF WorkingHour, ValidHours
<1> QED
    BY <1>4, <1>6, <1>8 DEF Config, validate

\* As the comment of MaxCompletionEstimate says, no request reserves more than
\* the cap for its completion, and each reserves something, as long as
\* max_tokens times n is within 64 bits: the code multiplies before it caps.
THEOREM EstimateCapped ==
    ASSUME NEW maxTokens \in Int64, NEW n \in Int64,
           Asked(maxTokens, n) < Half
    PROVE  EstimateCompletionTokens(maxTokens, n) \in 1 .. MaxCompletionEstimate
<1> DEFINE a == IF maxTokens <= 0 THEN 4096 ELSE maxTokens
           b == IF n <= 0 THEN 1 ELSE n
           p == a * b
<1>1. a \in Nat \ {0} /\ b \in Nat \ {0}
    BY WidthAssumption DEF Int64
<1>2. p < Half
    BY DEF Asked
<1> HIDE DEF a, b
<1>3. p \in Int64 /\ p \in Nat /\ p >= 1
    BY <1>1, <1>2, Positive, WidthAssumption DEF Int64
<1>4. Wrapped(p) = p
    BY <1>3, WrappedInRange
<1>5. EstimateCompletionTokens(maxTokens, n)
          = IF p > MaxCompletionEstimate THEN MaxCompletionEstimate ELSE p
    BY <1>4 DEF EstimateCompletionTokens, Asked, a, b
<1> HIDE DEF p
<1> QED BY <1>3, <1>5 DEF MaxCompletionEstimate

-----------------------------------------------------------------------------
(* Every step of the relay is a step of the store, or none of it.           *)

LEMMA HandleIsStoreStep ==
    ASSUME RelayInv, NEW r \in Requests, Start(r) \/ Handle(r)
    PROVE  [StoreNext]_storeVars
<1> DEFINE c == call[r]
<1>1. c \in Call /\ Local(c)
    BY DEF RelayInv, Calls
<1>2. c.user \in UserIDs /\ c.body \in Payloads /\ c.hourly \in Limits
      /\ c.daily \in Limits /\ c.limit \in Limits /\ c.actual \in Amounts \cup {0}
      /\ c.now \in Time
    BY <1>1 DEF Call
<1>3. est(r) \in Amounts
    BY <1>2, EstType DEF est
<1>4. working(r) \in BOOLEAN
    BY DEF working, IsWorkingHour
<1>5. CASE Start(r) \/ Check(r) \/ ChooseKey(r)
    BY <1>5 DEF Start, Arrive, Check, ChooseKey
<1>6. CASE Reserve(r)
    <2>1. c.now \in 0 .. clock
        BY <1>1, <1>2 DEF Calls, Time, RelayInv, Typed, TypedClock
    <2>2. CASE ReserveUser(c.user, est(r), c.hourly, c.daily, working(r), c.now)
        BY <1>2, <1>3, <2>1, <2>2 DEF working, StoreNext, AccountUser
    <2>3. CASE UNCHANGED storeVars
        BY <2>3
    <2> QED
        BY <1>6, <2>2, <2>3 DEF Reserve
<1>7. CASE BookKey(r)
    <2>1. c.key \in KeyIDs
        BY <1>1, <1>7 DEF BookKey, Local, KeyPC
    <2> QED
        BY <1>2, <1>3, <1>4, <1>7, <2>1 DEF BookKey, StoreNext, AccountKey
<1>8. ASSUME c.pc \in KeyPC, Unbook(r)
      PROVE  StoreNext
    <2>1. c.key \in KeyIDs
        BY <1>1, <1>8 DEF Local
    <2> QED
        BY <1>3, <1>8, <2>1 DEF Unbook, StoreNext, AccountKey
<1>9. CASE Returns(r) \/ CancelKey(r)
    BY <1>8, <1>9 DEF Returns, CallFails, CallCancelled, CallRejectsOptions,
                      CallRefused, CallSucceeds, CancelKey, KeyPC
<1>10. CASE CancelUser(r) \/ Refund(r)
    BY <1>2, <1>3, <1>10 DEF CancelUser, Refund, StoreNext, AccountUser
<1>11. ASSUME NEW n \in Amounts, Forward(r, n)
       PROVE  StoreNext
    BY <1>2, <1>3, <1>11 DEF Forward, StoreNext, AccountUser
<1>12. CASE Settle(r)
    <2>1. c.key \in KeyIDs
        BY <1>1, <1>12 DEF Settle, Local, KeyPC
    <2>2. c.actual \in Amounts
        BY <1>1, <1>12 DEF Settle, Local
    <2> QED
        BY <1>3, <1>12, <2>1, <2>2 DEF Settle, StoreNext, AccountKey
<1> QED
    BY <1>5, <1>6, <1>7, <1>9, <1>10, <1>11, <1>12 DEF Handle

-----------------------------------------------------------------------------
(* Every step of a request keeps its own record in order: what each action  *)
(* makes of a sound record is sound.                                        *)

LEMMA ArriveRecord ==
    ASSUME NEW c, Sound(c), c.pc = "idle", NEW u \in UserIDs,
           NEW b \in Payloads, NEW t \in Time, NEW p \in {"check", "done"},
           NEW y \in Reply, y # Own(499)
    PROVE  Sound([c EXCEPT !.pc = p, !.user = u, !.body = b, !.now = t,
                           !.reply = y])
<1> DEFINE d == [c EXCEPT !.pc = p, !.user = u, !.body = b, !.now = t,
                          !.reply = y]
<1>1. p \in PC
    BY DEF PC
<1>2. d \in Call
    BY <1>1 DEF Sound, Call
<1>3. Local(d)
    BY DEF Sound, Local, Call, KeyPC, AttemptPC, EarlyPC, EndPC
<1> QED
    BY <1>2, <1>3 DEF Sound

LEMMA RejectRecord ==
    ASSUME NEW c, Sound(c), c.pc \in {"check", "reserve", "cancelKey"}, NEW y \in Reply
    PROVE  Sound([c EXCEPT !.pc = "done", !.reply = y])
<1> DEFINE d == [c EXCEPT !.pc = "done", !.reply = y]
<1>1. "done" \in PC
    BY DEF PC
<1>2. d \in Call
    BY <1>1 DEF Sound, Call
<1>3. Local(d)
    BY <1>1 DEF Sound, Local, Call, KeyPC, AttemptPC, EarlyPC, EndPC
<1> QED
    BY <1>2, <1>3 DEF Sound

LEMMA CheckRecord ==
    ASSUME NEW c, Sound(c), c.pc = "check", NEW h \in Limits, NEW l \in Limits
    PROVE  Sound([c EXCEPT !.pc = "reserve", !.hourly = h, !.daily = l])
<1> DEFINE d == [c EXCEPT !.pc = "reserve", !.hourly = h, !.daily = l]
<1>1. "reserve" \in PC
    BY DEF PC
<1>2. d \in Call
    BY <1>1 DEF Sound, Call
<1>3. Local(d)
    BY <1>1 DEF Sound, Local, Call, KeyPC, AttemptPC, EarlyPC, EndPC
<1> QED
    BY <1>2, <1>3 DEF Sound

LEMMA ReserveRecord ==
    ASSUME NEW c, Sound(c), c.pc = "reserve",
           NEW w \in Time, NEW late \in BOOLEAN
    PROVE  Sound([c EXCEPT !.pc = "select", !.window = w, !.late = late])
<1> DEFINE d == [c EXCEPT !.pc = "select", !.window = w, !.late = late]
<1>1. "select" \in PC
    BY DEF PC
<1>2. d \in Call
    BY <1>1 DEF Sound, Call
<1>3. Local(d)
    BY <1>1 DEF Sound, Local, Call, KeyPC, AttemptPC, EarlyPC, EndPC
<1> QED
    BY <1>2, <1>3 DEF Sound

LEMMA ChooseRecord ==
    ASSUME NEW c, Sound(c), c.pc = "select",
           NEW k \in KeyIDs \ c.exclude, NEW l \in Limits
    PROVE  Sound([c EXCEPT !.pc = "reserveKey", !.key = k, !.limit = l])
<1> DEFINE d == [c EXCEPT !.pc = "reserveKey", !.key = k, !.limit = l]
<1>1. "reserveKey" \in PC
    BY DEF PC
<1>2. d \in Call
    BY <1>1 DEF Sound, Call
<1>3. Local(d)
    BY <1>1 DEF Sound, Local, Call, KeyPC, AttemptPC, EarlyPC, EndPC, SecondTry
<1> QED
    BY <1>2, <1>3 DEF Sound

LEMMA NoKeyRecord ==
    ASSUME NEW c, Sound(c), c.pc = "select", NEW y \in Reply, y # Own(499)
    PROVE  Sound([c EXCEPT !.pc = "refund", !.reply = y])
<1> DEFINE d == [c EXCEPT !.pc = "refund", !.reply = y]
<1>1. "refund" \in PC
    BY DEF PC
<1>2. d \in Call
    BY <1>1 DEF Sound, Call
<1>3. Local(d)
    BY <1>1 DEF Sound, Local, Call, KeyPC, AttemptPC, EarlyPC, EndPC
<1> QED
    BY <1>2, <1>3 DEF Sound

LEMMA RefusedRecord ==
    ASSUME NEW c, Sound(c), c.pc = "reserveKey"
    PROVE  Sound([c EXCEPT !.pc = "select", !.exclude = @ \cup {c.key}])
<1> DEFINE d == [c EXCEPT !.pc = "select", !.exclude = @ \cup {c.key}]
<1>1. "select" \in PC /\ c.key \in KeyIDs
    BY DEF PC, Sound, Local, KeyPC
<1>2. d \in Call
    BY <1>1 DEF Sound, Call
<1>3. Local(d)
    BY <1>1 DEF Sound, Local, Call, KeyPC, AttemptPC, EarlyPC, EndPC, SecondTry
<1> QED
    BY <1>2, <1>3 DEF Sound

LEMMA CancelRecord ==
    ASSUME NEW c, Sound(c), c.pc = "call", NEW late \in BOOLEAN
    PROVE  Sound([c EXCEPT !.pc = "cancelUser", !.late = late])
<1> DEFINE d == [c EXCEPT !.pc = "cancelUser", !.late = late]
<1>1. "cancelUser" \in PC
    BY DEF PC
<1>2. d \in Call
    BY <1>1 DEF Sound, Call
<1>3. Local(d)
    BY <1>1 DEF Sound, Local, Call, KeyPC, AttemptPC, EarlyPC, EndPC
<1> QED
    BY <1>2, <1>3 DEF Sound

LEMMA CancelUserRecord ==
    ASSUME NEW c, Sound(c), c.pc = "cancelUser", NEW late \in BOOLEAN
    PROVE  Sound([c EXCEPT !.pc = "cancelKey", !.late = late])
<1> DEFINE d == [c EXCEPT !.pc = "cancelKey", !.late = late]
<1>1. "cancelKey" \in PC
    BY DEF PC
<1>2. d \in Call
    BY <1>1 DEF Sound, Call
<1>3. Local(d)
    BY <1>1 DEF Sound, Local, Call, KeyPC, AttemptPC, EarlyPC, EndPC
<1> QED
    BY <1>2, <1>3 DEF Sound

LEMMA EndRecord ==
    ASSUME NEW c, Sound(c), c.pc \in {"refund", "settleKey"}, NEW late \in BOOLEAN
    PROVE  Sound([c EXCEPT !.pc = "done", !.late = late])
<1> DEFINE d == [c EXCEPT !.pc = "done", !.late = late]
<1>1. "done" \in PC
    BY DEF PC
<1>2. d \in Call
    BY <1>1 DEF Sound, Call
<1>3. Local(d)
    BY <1>1 DEF Sound, Local, Call, KeyPC, AttemptPC, EarlyPC, EndPC
<1> QED
    BY <1>2, <1>3 DEF Sound

LEMMA ForwardRecord ==
    ASSUME NEW c, Sound(c), c.pc = "forward", NEW n \in Amounts,
           NEW late \in BOOLEAN
    PROVE  Sound([c EXCEPT !.pc = "settleKey", !.actual = n, !.late = late])
<1> DEFINE d == [c EXCEPT !.pc = "settleKey", !.actual = n, !.late = late]
<1>1. "settleKey" \in PC
    BY DEF PC
<1>2. d \in Call
    BY <1>1 DEF Sound, Call
<1>3. Local(d)
    BY <1>1 DEF Sound, Local, Call, KeyPC, AttemptPC, EarlyPC, EndPC
<1> QED
    BY <1>2, <1>3 DEF Sound

LEMMA BookRecord ==
    ASSUME NEW c, Sound(c), c.pc = "reserveKey", NEW w \in Time,
           NEW a \in Attempt, a.key = c.key,
           a.opts = (inject(c.body) /\ c.body.stream /\ ~c.stripped)
    PROVE  Sound([c EXCEPT !.pc = "call", !.attempt = @ + 1,
                           !.tried = Append(@, a), !.keyWindow = w])
<1> DEFINE t == Append(c.tried, a)
           n == c.attempt + 1
           d == [c EXCEPT !.pc = "call", !.attempt = n, !.tried = t,
                          !.keyWindow = w]
<1>1. "call" \in PC
    BY DEF PC
<1>2. /\ c.key \in KeyIDs /\ c.key \notin c.exclude
      /\ c.tried \in Seq(Attempt) /\ Len(c.tried) = c.attempt
      /\ c.attempt \in 0 .. 1
      /\ c.attempt = 1 => SecondTry(c)
    BY DEF Sound, Local, Call, KeyPC, AttemptPC
<1>3. /\ t \in Seq(Attempt) /\ Len(t) = n /\ n \in 1 .. 2 /\ t[n] = a
      /\ n = 2 => t[1] = c.tried[1] /\ t[2] = a
    BY <1>2
<1>4. n = 2 => Elsewhere(t)
    <2>1. a.opts => ~c.stripped
        OBVIOUS
    <2> HIDE DEF t
    <2> QED
        BY <1>2, <1>3, <2>1 DEF SecondTry, Elsewhere
<1>5. d \in Call
    <2>1. t \in Seq(Attempt) /\ n \in 0 .. 2
        BY <1>3
    <2> HIDE DEF t, n
    <2> QED
        BY <1>1, <2>1 DEF Sound, Call
<1>6. Local(d)
    <2> HIDE DEF t, n
    <2> QED
        BY <1>2, <1>3, <1>4 DEF Sound, Local, Call, KeyPC, AttemptPC, EarlyPC,
                                EndPC
<1> QED
    BY <1>5, <1>6 DEF Sound

\* Where the loop goes on after an attempt.
LEMMA AnsweredSeq ==
    ASSUME NEW t \in Seq(Attempt), Len(t) \in 1 .. 2, NEW code \in Codes
    PROVE  LET s == [t EXCEPT ![Len(t)].code = code] IN
           /\ s \in Seq(Attempt) /\ Len(s) = Len(t)
           /\ s[1].key = t[1].key /\ s[1].opts = t[1].opts
           /\ s[Len(t)].code = code
           /\ Len(t) = 2 => /\ s[1] = t[1]
                            /\ s[2].key = t[2].key /\ s[2].opts = t[2].opts
<1> DEFINE a == [t[Len(t)] EXCEPT !.code = code]
           s == [t EXCEPT ![Len(t)] = a]
<1>0. t[Len(t)] \in Attempt
    <2>1. \A i \in 1 .. Len(t) : t[i] \in Attempt
        OBVIOUS
    <2> QED
        BY <2>1
<1>1. a \in Attempt /\ a.key = t[Len(t)].key /\ a.opts = t[Len(t)].opts
      /\ a.code = code
    BY <1>0 DEF Attempt
<1>2. s \in Seq(Attempt) /\ Len(s) = Len(t) /\ s[Len(t)] = a
      /\ Len(t) = 2 => s[1] = t[1]
    BY <1>1
<1> QED
    BY <1>1, <1>2

LEMMA AnsweredLocal ==
    ASSUME NEW c, Sound(c), c.pc = "call", NEW code \in Codes
    PROVE  LET s == [c.tried EXCEPT ![Len(c.tried)].code = code] IN
           /\ s \in Seq(Attempt) /\ Len(s) = c.attempt /\ c.attempt \in 1 .. 2
           /\ c.attempt = 1 => /\ s[1].key = c.key
                               /\ s[1].opts = (inject(c.body) /\ c.body.stream
                                                 /\ ~c.stripped)
                               /\ s[1].code = code
           /\ c.attempt = 2 => Elsewhere(s)
<1>1. /\ c.tried \in Seq(Attempt) /\ Len(c.tried) = c.attempt
      /\ c.attempt \in 1 .. 2
      /\ c.tried[c.attempt].key = c.key
      /\ c.tried[c.attempt].opts = (inject(c.body) /\ c.body.stream
                                     /\ ~c.stripped)
      /\ c.attempt = 2 => Elsewhere(c.tried)
    BY DEF Sound, Local, Call
<1> DEFINE s == [c.tried EXCEPT ![Len(c.tried)].code = code]
<1>0. Len(c.tried) \in 1 .. 2
    BY <1>1
<1>2. /\ s \in Seq(Attempt) /\ Len(s) = Len(c.tried)
      /\ s[1].key = c.tried[1].key /\ s[1].opts = c.tried[1].opts
      /\ s[Len(c.tried)].code = code
      /\ Len(c.tried) = 2 => /\ s[1] = c.tried[1]
                             /\ s[2].key = c.tried[2].key
                             /\ s[2].opts = c.tried[2].opts
    <2>1. c.tried \in Seq(Attempt)
        BY <1>1
    <2> QED
        BY <1>0, <2>1, AnsweredSeq, Zenon
<1> HIDE DEF s
<1>3. c.attempt = 2 => Elsewhere(s)
    BY <1>1, <1>2 DEF Elsewhere
<1> QED
    BY <1>1, <1>2, <1>3 DEF s

\* The loop goes on, or ends without a usable key, when the attempt failed.
LEMMA FailRecord ==
    ASSUME NEW c, Sound(c), c.pc = "call", NEW late \in BOOLEAN,
           NEW p, p = (IF c.attempt < 2 THEN "select" ELSE "refund"),
           NEW y \in Reply, y # Own(499)
    PROVE  Sound([c EXCEPT !.pc = p, !.exclude = @ \cup {c.key},
                           !.late = late, !.reply = y])
<1> DEFINE e == c.exclude \cup {c.key}
           d == [c EXCEPT !.pc = p, !.exclude = e, !.late = late, !.reply = y]
<1>1. p \in PC /\ c.key \in KeyIDs /\ c.attempt \in 1 .. 2
      /\ p \in {"select", "refund"} /\ (p = "select" <=> c.attempt = 1)
    BY DEF PC, Sound, Local, KeyPC, Call
<1>2. d \in Call
    BY <1>1 DEF Sound, Call
<1>3. c.attempt = 1 => c.tried[1].key \in e
    BY DEF Sound, Local
<1> HIDE DEF e
<1>4. Local(d)
    BY <1>1, <1>3 DEF Sound, Local, Call, KeyPC, AttemptPC, EarlyPC, EndPC,
                      SecondTry
<1> QED
    BY <1>2, <1>4 DEF Sound, e

LEMMA RefusalRecord ==
    ASSUME NEW c, Sound(c), c.pc = "call", NEW code \in Codes,
           NEW late \in BOOLEAN, NEW p \in {"select", "refund"},
           NEW e \in SUBSET KeyIDs,
           p = "select" => c.attempt < 2 /\ c.key \in e,
           NEW x \in Reply, x # Own(499), NEW y \in Reply, y # Own(499)
    PROVE  Sound([c EXCEPT !.pc = p,
                  !.exclude = e,
                  !.tried = [c.tried EXCEPT ![Len(c.tried)].code = code],
                  !.late = late, !.lastResp = x, !.reply = y])
<1> DEFINE s == [c.tried EXCEPT ![Len(c.tried)].code = code]
           d == [c EXCEPT !.pc = p, !.exclude = e, !.tried = s,
                          !.late = late, !.lastResp = x, !.reply = y]
<1>1. p \in PC
    BY DEF PC
<1>2. /\ s \in Seq(Attempt) /\ Len(s) = c.attempt /\ c.attempt \in 1 .. 2
      /\ c.attempt = 1 => s[1].key = c.key
      /\ c.attempt = 2 => Elsewhere(s)
    BY AnsweredLocal
<1> HIDE DEF s
<1>3. d \in Call
    BY <1>1, <1>2 DEF Sound, Call
<1>4. Local(d)
    BY <1>1, <1>2 DEF Sound, Local, Call, KeyPC, AttemptPC, EarlyPC, EndPC,
                      SecondTry
<1> QED
    BY <1>3, <1>4 DEF Sound, s

LEMMA SuccessRecord ==
    ASSUME NEW c, Sound(c), c.pc = "call", NEW code \in Codes,
           NEW y \in Reply, y # Own(499)
    PROVE  Sound([c EXCEPT !.pc = "forward",
                  !.tried = [c.tried EXCEPT ![Len(c.tried)].code = code],
                  !.reply = y])
<1> DEFINE s == [c.tried EXCEPT ![Len(c.tried)].code = code]
           d == [c EXCEPT !.pc = "forward", !.tried = s, !.reply = y]
<1>1. "forward" \in PC
    BY DEF PC
<1>2. /\ s \in Seq(Attempt) /\ Len(s) = c.attempt /\ c.attempt \in 1 .. 2
      /\ c.attempt = 2 => Elsewhere(s)
    BY AnsweredLocal
<1> HIDE DEF s
<1>3. d \in Call
    BY <1>1, <1>2 DEF Sound, Call
<1>4. Local(d)
    BY <1>1, <1>2 DEF Sound, Local, Call, KeyPC, AttemptPC, EarlyPC, EndPC
<1> QED
    BY <1>3, <1>4 DEF Sound, s

-----------------------------------------------------------------------------
(* The records of all requests.                                             *)

\* d is what the record of r becomes.
Good(r, d) == /\ Becomes(r, d)
              /\ Sound(d)
              /\ d.key \in Present(upstreamKeys) \cup {call[r].key}
              /\ d.now <= clock
              /\ clock' = clock

LEMMA OwnRecord ==
    ASSUME RelayInv, NEW r \in Requests
    PROVE  /\ Sound(call[r]) /\ call[r] \in Call /\ call[r].now <= clock
           /\ clock \in Time
    BY DEF RelayInv, Calls, Sound, Typed, TypedClock

LEMMA StoreClock ==
    ASSUME NEW u, NEW k, NEW n, NEW h, NEW d, NEW w, NEW t,
           \/ UNCHANGED storeVars
           \/ AdjustUser(u, n) \/ AdjustKey(k, n)
           \/ ReserveUser(u, n, h, d, w, t)
           \/ ReserveKey(k, n, h, w) \/ ReserveKeyRefused(k, n, h, w)
    PROVE  clock' = clock
    BY DEF storeVars, AdjustUser, AdjustKey, ReserveUser, ReserveKey,
           ReserveKeyRefused, KeyHourCounter

LEMMA LimitType ==
    ASSUME RelayInv
    PROVE  /\ \A u \in UserIDs : users[u] # Nil =>
                 HourlyLimit(users[u]) \in Limits /\ DailyLimit(users[u]) \in Limits
           /\ \A k \in KeyIDs : upstreamKeys[k] # Nil =>
                 hourlyLimit(upstreamKeys[k], DefaultHourlyTokens) \in Limits
    BY StoreAssumption DEF RelayInv, Typed, TypedRegistry, User, UpstreamKey,
                           HourlyLimit, DailyLimit, hourlyLimit

\* Select returns keys that exist and are not excluded.
LEMMA SelectedKey ==
    ASSUME NEW u, NEW m, NEW w, NEW x, NEW k \in SelectKey(u, m, w, x).key
    PROVE  k \in Present(upstreamKeys) /\ k \notin x
<1> DEFINE keys == [i \in Present(upstreamKeys) |-> upstreamKeys[i]]
           all  == Candidates(keys, Normal[m], x)
<1>1. DOMAIN keys = Present(upstreamKeys)
    OBVIOUS
<1> HIDE DEF keys
<1>2. k \in all
    BY DEF SelectKey, Select, best, qualified, keys
<1> QED
    BY <1>1, <1>2 DEF Candidates

LEMMA StartGood ==
    ASSUME RelayInv, NEW r \in Requests, Start(r)
    PROVE  \E d : Good(r, d) /\ d.pc \notin HoldPC
<1> PICK a \in AccessKeyIDs, b \in Payloads, allowed \in BOOLEAN :
        Arrive(r, a, b, allowed)
    BY DEF Start
<1>1. Sound(call[r]) /\ clock \in Time /\ call[r] \in Call
    BY OwnRecord
<1>2. accessKeys[a] \in UserIDs
    BY DEF Arrive, RelayInv, Typed, TypedRegistry
<1> DEFINE p == IF allowed THEN "check" ELSE "done"
           y == IF allowed THEN NoReply ELSE Own(429)
           d == [call[r] EXCEPT !.pc = p, !.user = accessKeys[a], !.body = b,
                                !.now = clock, !.reply = y]
<1>3. Becomes(r, d) /\ clock' = clock /\ call[r].pc = "idle"
    BY DEF Arrive, storeVars
<1>4. Sound(d)
    <2>1. p \in {"check", "done"} /\ y \in Reply /\ y # Own(499)
        BY DEF Reply, NoReply, Own
    <2> HIDE DEF p, y
    <2> QED
        BY <1>1, <1>2, <1>3, <2>1, ArriveRecord
<1>5. d.now <= clock /\ d.pc = p /\ d.key = call[r].key
    BY <1>1 DEF Call, Time
<1>6. p \notin HoldPC
    BY DEF HoldPC
<1> HIDE DEF p, y
<1> QED
    BY <1>3, <1>4, <1>5, <1>6 DEF Good

LEMMA EarlyGood ==
    ASSUME RelayInv, NEW r \in Requests, Check(r) \/ Reserve(r)
    PROVE  \E d : Good(r, d) /\ d.pc \notin HoldPC
<1> DEFINE c == call[r]
<1>1. Sound(c) /\ c \in Call /\ c.now <= clock /\ clock \in Time
    BY OwnRecord
<1>2. c.user \in UserIDs /\ c.now \in Time /\ Own(429) \in Reply
    BY <1>1 DEF Call, Own, Reply
<1> DEFINE d == [c EXCEPT !.pc = "done", !.reply = Own(429)]
<1>3. ASSUME Becomes(r, d), clock' = clock, c.pc \in {"check", "reserve"}
      PROVE  Good(r, d) /\ d.pc \notin HoldPC
    <2>1. Sound(d)
        BY <1>1, <1>2, <1>3, RejectRecord, ZenonT(60)
    <2>2. d.now = c.now /\ d.key = c.key /\ d.pc = "done"
        BY <1>1 DEF Call
    <2> QED
        BY <1>1, <1>3, <2>1, <2>2 DEF Good, HoldPC
<1>4. CASE Check(r)
    <2> DEFINE e == [c EXCEPT !.pc = "reserve",
                              !.hourly = HourlyLimit(users[c.user]),
                              !.daily = DailyLimit(users[c.user])]
    <2>1. c.pc = "check" /\ clock' = clock
          /\ (Becomes(r, d) \/ (users[c.user] # Nil /\ Becomes(r, e)))
        BY <1>4 DEF Check, storeVars
    <2>2. CASE users[c.user] # Nil /\ Becomes(r, e)
        <3>1. HourlyLimit(users[c.user]) \in Limits
              /\ DailyLimit(users[c.user]) \in Limits
            BY <1>2, <2>2, LimitType
        <3>2. Sound(e)
            BY <1>1, <2>1, <3>1, CheckRecord
        <3>3. e.now = c.now /\ e.key = c.key /\ e.pc = "reserve"
            BY <1>1 DEF Call
        <3> QED
            BY <1>1, <2>1, <2>2, <3>2, <3>3 DEF Good, HoldPC
    <2> QED
        BY <1>3, <2>1, <2>2
<1>5. CASE Reserve(r)
    <2> DEFINE late == hourStart(c.now) # hourStart(clock)
               e == [c EXCEPT !.pc = "select", !.window = hourStart(c.now),
                              !.late = late]
    <2>1. c.pc = "reserve" /\ (Becomes(r, d) \/ Becomes(r, e))
        BY <1>5 DEF Reserve
    <2>2. clock' = clock
        BY <1>5 DEF Reserve, ReserveUser, storeVars
    <2>3. Sound(e)
        <3>1. hourStart(c.now) \in Time /\ late \in BOOLEAN
            BY <1>2, StartType
        <3> HIDE DEF late
        <3> QED
            BY <1>1, <2>1, <3>1, ReserveRecord
    <2>4. e.now = c.now /\ e.key = c.key /\ e.pc = "select"
        BY <1>1 DEF Call
    <2> QED
        BY <1>1, <1>3, <2>1, <2>2, <2>3, <2>4 DEF Good, HoldPC
<1> QED
    BY <1>4, <1>5

LEMMA ChooseGood ==
    ASSUME RelayInv, NEW r \in Requests, ChooseKey(r)
    PROVE  \E d : Good(r, d) /\ d.pc \notin HoldPC
<1> DEFINE c == call[r]
           s == SelectKey(c.user, c.body.model, working(r), c.exclude)
<1>1. Sound(c) /\ c \in Call /\ c.now <= clock /\ clock \in Time
    BY OwnRecord
<1>2. c.pc = "select" /\ clock' = clock
    BY DEF ChooseKey, storeVars
<1>3. ASSUME NEW k \in s.key,
             Becomes(r, [c EXCEPT !.pc = "reserveKey", !.key = k,
                                  !.limit = hourlyLimit(upstreamKeys[k],
                                                        DefaultHourlyTokens)])
      PROVE  \E d : Good(r, d) /\ d.pc \notin HoldPC
    <2> DEFINE l == hourlyLimit(upstreamKeys[k], DefaultHourlyTokens)
               d == [c EXCEPT !.pc = "reserveKey", !.key = k, !.limit = l]
    <2>1. k \in Present(upstreamKeys) /\ k \notin c.exclude
        BY SelectedKey
    <2>2. k \in KeyIDs /\ l \in Limits
        BY <2>1, LimitType DEF Present, RelayInv, Typed, TypedRegistry
    <2> HIDE DEF l
    <2>3. Sound(d)
        BY <1>1, <1>2, <2>1, <2>2, ChooseRecord
    <2>4. d.now = c.now /\ d.key = k /\ d.pc = "reserveKey"
        BY <1>1 DEF Call
    <2> QED
        BY <1>1, <1>2, <1>3, <2>1, <2>3, <2>4 DEF Good, l, HoldPC
<1>4. ASSUME NEW y, y = Own(429) \/ y = Own(502),
             Becomes(r, [c EXCEPT !.pc = "refund", !.reply = y])
      PROVE  \E d : Good(r, d) /\ d.pc \notin HoldPC
    <2> DEFINE d == [c EXCEPT !.pc = "refund", !.reply = y]
    <2>1. y \in Reply /\ y # Own(499)
        BY <1>4 DEF Own, Reply
    <2>2. Sound(d)
        BY <1>1, <1>2, <2>1, NoKeyRecord
    <2>3. d.now = c.now /\ d.key = c.key /\ d.pc = "refund"
        BY <1>1 DEF Call
    <2> QED
        BY <1>1, <1>2, <1>4, <2>2, <2>3 DEF Good, HoldPC
<1>5. \/ \E k \in s.key :
            Becomes(r, [c EXCEPT !.pc = "reserveKey", !.key = k,
                                 !.limit = hourlyLimit(upstreamKeys[k],
                                                       DefaultHourlyTokens)])
      \/ Becomes(r, [c EXCEPT !.pc = "refund", !.reply = Own(429)])
      \/ Becomes(r, [c EXCEPT !.pc = "refund", !.reply = Own(502)])
    <2>1. CASE s.err = "ErrHourlyExhausted"
        BY <2>1 DEF ChooseKey
    <2>2. CASE s.err # "ErrHourlyExhausted"
        BY <2>2 DEF ChooseKey
    <2> QED
        BY <2>1, <2>2
<1> HIDE DEF s
<1> QED
    BY <1>3, <1>4, <1>5, ZenonT(60)

LEMMA BookGood ==
    ASSUME RelayInv, NEW r \in Requests, BookKey(r)
    PROVE  \E d : /\ Good(r, d)
                  /\ d.key = call[r].key
                  /\ \/ /\ ReserveKey(call[r].key, est(r), call[r].limit,
                                      working(r))
                        /\ d.pc = "call"
                     \/ /\ ReserveKeyRefused(call[r].key, est(r),
                                             call[r].limit, working(r))
                        /\ d.pc \notin HoldPC
<1> DEFINE c == call[r]
           a == [key |-> c.key, opts |-> hasOpts(r), code |-> 0]
           w == hourStart(clock)
           d == [c EXCEPT !.pc = "call", !.attempt = @ + 1,
                          !.tried = Append(@, a), !.keyWindow = w]
           e == [c EXCEPT !.pc = "select", !.exclude = @ \cup {c.key}]
<1>1. Sound(c) /\ c \in Call /\ c.now <= clock /\ clock \in Time
    BY OwnRecord
<1>2. /\ c.pc = "reserveKey"
      /\ \/ ReserveKey(c.key, est(r), c.limit, working(r)) /\ Becomes(r, d)
         \/ ReserveKeyRefused(c.key, est(r), c.limit, working(r)) /\ Becomes(r, e)
    BY DEF BookKey
<1>3. clock' = clock
    BY DEF BookKey, ReserveKey, ReserveKeyRefused, KeyHourCounter, storeVars
<1>4. /\ d.now = c.now /\ d.key = c.key /\ d.pc = "call"
      /\ e.now = c.now /\ e.key = c.key /\ e.pc = "select"
    <2> HIDE DEF a, w
    <2> QED
        BY <1>1 DEF Call
<1>5. Sound(e)
    BY <1>1, <1>2, RefusedRecord
<1>6. Sound(d)
    <2>1. /\ a \in Attempt /\ a.key = c.key
          /\ a.opts = (inject(c.body) /\ c.body.stream /\ ~c.stripped)
        BY <1>1, <1>2 DEF Sound, Local, KeyPC, Attempt, hasOpts
    <2>2. w \in Time
        BY <1>1, StartType
    <2> HIDE DEF a, w
    <2> QED
        BY <1>1, <1>2, <2>1, <2>2, BookRecord
<1> QED
    BY <1>1, <1>2, <1>3, <1>4, <1>5, <1>6 DEF Good, HoldPC

\* What the loop may answer when it ends.
LEMMA LoopReplyType ==
    ASSUME NEW c, Sound(c)
    PROVE  /\ NoReply \in Reply /\ NoReply # Own(499)
           /\ LoopReply(c) \in Reply /\ LoopReply(c) # Own(499)
    BY DEF Sound, Local, Call, LoopReply, Reply, NoReply, Own

LEMMA FailGood ==
    ASSUME RelayInv, NEW r \in Requests,
           CallFails(r) \/ CallCancelled(r) \/ CallRejectsOptions(r)
    PROVE  \E d : Good(r, d) /\ d.pc \notin HoldPC
<1> DEFINE c == call[r]
           p == IF c.attempt < 2 THEN "select" ELSE "refund"
           y == IF c.attempt < 2 THEN NoReply ELSE LoopReply(c)
           l == LateForKey(r)
<1>1. Sound(c) /\ c \in Call /\ c.now <= clock /\ clock \in Time
    BY OwnRecord
<1>2. c.pc = "call" /\ clock' = clock
    BY DEF CallFails, CallCancelled, CallRejectsOptions, Unbook, ReleaseKey,
           AdjustKey
<1>3. y \in Reply /\ y # Own(499)
    BY <1>1, LoopReplyType
<1>4. l \in BOOLEAN
    BY <1>1 DEF LateForKey, Call
<1>0. p \notin HoldPC /\ "cancelUser" \notin HoldPC
    BY DEF HoldPC
<1>5. CASE CallFails(r)
    <2> DEFINE d == [c EXCEPT !.pc = p, !.exclude = @ \cup {c.key}, !.late = l,
                              !.reply = y]
    <2>1. Becomes(r, d)
        BY <1>5 DEF CallFails, NextAttempt
    <2>2. d.now = c.now /\ d.key = c.key /\ d.pc = p
        BY <1>1 DEF Call
    <2>3. Sound(d)
        <3> HIDE DEF y, l
        <3> QED
            BY <1>1, <1>2, <1>3, <1>4, FailRecord
    <2> HIDE DEF p, y, l
    <2> QED
        BY <1>0, <1>1, <1>2, <2>1, <2>2, <2>3 DEF Good
<1>6. CASE CallCancelled(r)
    <2> DEFINE d == [c EXCEPT !.pc = "cancelUser", !.late = l]
    <2>1. Becomes(r, d)
        BY <1>6 DEF CallCancelled
    <2>2. d.now = c.now /\ d.key = c.key /\ d.pc = "cancelUser"
        BY <1>1 DEF Call
    <2>3. Sound(d)
        <3> HIDE DEF l
        <3> QED
            BY <1>1, <1>2, <1>4, CancelRecord
    <2> QED
        BY <1>0, <1>1, <1>2, <2>1, <2>2, <2>3 DEF Good
<1>7. CASE CallRejectsOptions(r)
    <2> DEFINE t == [c.tried EXCEPT ![Len(c.tried)].code = 400]
               st == TRUE
               d == [c EXCEPT !.pc = p, !.stripped = st, !.tried = t,
                              !.late = l, !.reply = y]
    <2>1. Becomes(r, d)
        BY <1>7 DEF CallRejectsOptions, NextAttempt, Answered
    <2>2. 400 \in Codes /\ inject(c.body) /\ c.body.stream /\ ~c.stripped
        BY <1>7 DEF CallRejectsOptions, hasOpts
    <2>3. /\ t \in Seq(Attempt) /\ Len(t) = c.attempt /\ c.attempt \in 1 .. 2
          /\ c.attempt = 1 => /\ t[1].opts = (inject(c.body) /\ c.body.stream
                                               /\ ~c.stripped)
                              /\ t[1].code = 400
          /\ c.attempt = 2 => Elsewhere(t)
        BY <1>1, <1>2, <2>2, AnsweredLocal
    <2>4. c.attempt = 1 => t[1].opts /\ t[1].code = 400 /\ st
        BY <2>2, <2>3
    <2>5. p \in {"select", "refund"} /\ (p = "select" => c.attempt < 2)
        OBVIOUS
    <2>6. st \in BOOLEAN
        OBVIOUS
    <2> HIDE DEF t, st, p, y, l, c
    <2>7. d \in Call
        <3>1. p \in PC
            BY <2>5 DEF PC
        <3> QED
            BY <1>1, <1>3, <1>4, <2>3, <2>6, <3>1, ZenonT(30) DEF Call
    <2>8. Local(d)
        BY <1>1, <1>2, <1>3, <2>3, <2>4, <2>5
           DEF Sound, Local, Call, KeyPC, AttemptPC, EarlyPC, EndPC, SecondTry
    <2>9. Sound(d)
        BY <2>7, <2>8 DEF Sound
    <2>10. d.now = c.now /\ d.key = c.key /\ d.pc = p
        BY <1>1 DEF Call
    <2> QED
        BY <1>0, <1>1, <1>2, <2>1, <2>9, <2>10 DEF Good, c
<1> QED
    BY <1>5, <1>6, <1>7

LEMMA AnswerGood ==
    ASSUME RelayInv, NEW r \in Requests, NEW code \in Codes,
           CallRefused(r, code) \/ CallSucceeds(r, code)
    PROVE  \E d : /\ Good(r, d)
                  /\ \/ CallRefused(r, code) /\ d.pc \notin HoldPC
                     \/ /\ CallSucceeds(r, code)
                        /\ d.pc = "forward" /\ d.key = call[r].key
<1> DEFINE c == call[r]
           s == [c.tried EXCEPT ![Len(c.tried)].code = code]
<1>1. Sound(c) /\ c \in Call /\ c.now <= clock /\ clock \in Time
    BY OwnRecord
<1>2. c.pc = "call" /\ clock' = clock
    BY DEF CallRefused, CallSucceeds, Unbook, ReleaseKey, AdjustKey, storeVars
<1>3. CASE CallSucceeds(r, code)
    <2> DEFINE y == [code |-> code, body |-> "upstream"]
               d == [c EXCEPT !.pc = "forward", !.tried = s, !.reply = y]
    <2>1. Becomes(r, d)
        BY <1>3 DEF CallSucceeds, Answered
    <2>2. y \in Reply /\ y # Own(499)
        BY DEF Reply, Own
    <2>3. d.now = c.now /\ d.key = c.key /\ d.pc = "forward"
        BY <1>1 DEF Call
    <2>4. Sound(d)
        <3> HIDE DEF y
        <3> QED
            BY <1>1, <1>2, <2>2, SuccessRecord
    <2> QED
        BY <1>1, <1>2, <1>3, <2>1, <2>3, <2>4 DEF Good
<1>4. CASE CallRefused(r, code)
    <2> DEFINE x == [code |-> code, body |-> "drained"]
               again == Retryable(code) /\ c.attempt < 2
               p == IF again THEN "select" ELSE "refund"
               y == IF again THEN NoReply ELSE x
               e == IF Retryable(code) THEN c.exclude \cup {c.key} ELSE c.exclude
               l == LateForKey(r)
               d == [c EXCEPT !.pc = p,
                              !.exclude = e, !.tried = s, !.late = l,
                              !.lastResp = x, !.reply = y]
    <2>1. Becomes(r, d)
        BY <1>4 DEF CallRefused, Answered
    <2>2. /\ x \in Reply /\ x # Own(499)
          /\ y \in Reply /\ y # Own(499)
        BY DEF Reply, Own, NoReply
    <2>3. l \in BOOLEAN /\ again \in BOOLEAN /\ (again => c.attempt < 2)
        BY <1>1 DEF LateForKey, Retryable, Call
    <2>4. e \in SUBSET KeyIDs /\ (again => c.key \in e)
        BY <1>1, <1>2 DEF Sound, Local, KeyPC, Call
    <2>5. d.now = c.now /\ d.key = c.key /\ d.pc = p
        BY <1>1 DEF Call
    <2>7. p \notin HoldPC
        BY DEF HoldPC
    <2>6. Sound(d)
        <3>1. p \in {"select", "refund"} /\ (p = "select" => again)
            OBVIOUS
        <3> HIDE DEF p, x, y, e, l, again
        <3> QED
            BY <1>1, <1>2, <2>2, <2>3, <2>4, <3>1, RefusalRecord, ZenonT(60)
    <2> HIDE DEF p, x, y, e, l, again
    <2> QED
        BY <1>1, <1>2, <1>4, <2>1, <2>5, <2>6, <2>7 DEF Good
<1> QED
    BY <1>3, <1>4

LEMMA EndGood ==
    ASSUME RelayInv, NEW r \in Requests, NEW n \in Amounts,
           \/ CancelUser(r) \/ CancelKey(r) \/ Refund(r)
           \/ Forward(r, n) \/ Settle(r)
    PROVE  \E d : /\ Good(r, d)
                  /\ \/ /\ CancelUser(r) \/ CancelKey(r) \/ Refund(r) \/ Settle(r)
                        /\ d.pc \notin HoldPC
                     \/ /\ Forward(r, n)
                        /\ d.pc = "settleKey" /\ d.key = call[r].key
<1> DEFINE c == call[r]
           lu == LateForUser(r)
           lk == LateForKey(r)
<1>1. Sound(c) /\ c \in Call /\ c.now <= clock /\ clock \in Time
    BY OwnRecord
<1>2. clock' = clock
    BY DEF CancelUser, CancelKey, Refund, Forward, Settle, Unbook, ReleaseKey,
           SettleKey, ReleaseUser, SettleUser, AdjustKey, AdjustUser
<1>3. lu \in BOOLEAN /\ lk \in BOOLEAN /\ Own(499) \in Reply
    BY <1>1 DEF LateForUser, LateForKey, Call, Own, Reply
<1>4. ASSUME NEW d, Becomes(r, d), Sound(d), d.now = c.now /\ d.key = c.key
      PROVE  Good(r, d)
    BY <1>1, <1>2, <1>4 DEF Good
<1>5. CASE CancelUser(r)
    <2> DEFINE d == [c EXCEPT !.pc = "cancelKey", !.late = lu]
    <2>1. c.pc = "cancelUser" /\ Becomes(r, d)
        BY <1>5 DEF CancelUser
    <2>2. d.now = c.now /\ d.key = c.key /\ d.pc = "cancelKey"
        BY <1>1 DEF Call
    <2>3. Sound(d)
        <3> HIDE DEF lu
        <3> QED
            BY <1>1, <1>3, <2>1, CancelUserRecord
    <2> QED
        BY <1>4, <1>5, <2>1, <2>2, <2>3 DEF HoldPC
<1>6. CASE CancelKey(r)
    <2> DEFINE d == [c EXCEPT !.pc = "done", !.reply = Own(499)]
    <2>1. c.pc = "cancelKey" /\ Becomes(r, d)
        BY <1>6 DEF CancelKey
    <2>2. d.now = c.now /\ d.key = c.key /\ d.pc = "done"
        BY <1>1 DEF Call
    <2>3. Sound(d)
        BY <1>1, <1>3, <2>1, RejectRecord, ZenonT(60)
    <2> QED
        BY <1>4, <1>6, <2>1, <2>2, <2>3, ZenonT(60) DEF HoldPC
<1>7. CASE Refund(r) \/ Settle(r)
    <2> DEFINE d(l) == [c EXCEPT !.pc = "done", !.late = l]
    <2>1. c.pc \in {"refund", "settleKey"} /\ (Becomes(r, d(lu)) \/ Becomes(r, d(lk)))
        BY <1>7 DEF Refund, Settle
    <2>2. ASSUME NEW l \in BOOLEAN
          PROVE  d(l).now = c.now /\ d(l).key = c.key /\ d(l).pc = "done" /\ Sound(d(l))
        <3>1. d(l).now = c.now /\ d(l).key = c.key /\ d(l).pc = "done"
            BY <1>1 DEF Call
        <3> QED
            BY <1>1, <2>1, <3>1, EndRecord
    <2> HIDE DEF d
    <2> QED
        BY <1>3, <1>4, <1>7, <2>1, <2>2 DEF HoldPC
<1>8. CASE Forward(r, n)
    <2> DEFINE d == [c EXCEPT !.pc = "settleKey", !.actual = n, !.late = lu]
    <2>1. c.pc = "forward" /\ Becomes(r, d)
        BY <1>8 DEF Forward
    <2>2. d.now = c.now /\ d.key = c.key /\ d.pc = "settleKey"
        BY <1>1 DEF Call
    <2>3. Sound(d)
        <3> HIDE DEF lu
        <3> QED
            BY <1>1, <1>3, <2>1, ForwardRecord
    <2> QED
        BY <1>4, <1>8, <2>1, <2>2, <2>3 DEF HoldPC
<1> QED
    BY <1>5, <1>6, <1>7, <1>8

LEMMA RequestGood ==
    ASSUME RelayInv, NEW r \in Requests, Start(r) \/ Handle(r)
    PROVE  \E d : Good(r, d)
<1>1. CASE Start(r)
    BY <1>1, StartGood
<1>2. CASE Check(r) \/ Reserve(r)
    BY <1>2, EarlyGood
<1>3. CASE ChooseKey(r) \/ BookKey(r)
    BY <1>3, ChooseGood, BookGood
<1>4. CASE Returns(r)
    BY <1>4, FailGood, AnswerGood DEF Returns
<1>5. CASE CancelUser(r) \/ CancelKey(r) \/ Refund(r) \/ Settle(r)
    <2>1. PICK n \in Amounts : TRUE
        BY RelayAssumption
    <2> QED
        BY <1>5, <2>1, EndGood
<1>6. CASE \E n \in Amounts : Forward(r, n)
    BY <1>6, EndGood
<1> QED
    BY <1>1, <1>2, <1>3, <1>4, <1>5, <1>6 DEF Handle

\* The clock never goes back.
LEMMA ClockStep ==
    ASSUME Typed, StoreNext
    PROVE  clock' >= clock
<1>1. CASE Tick
    BY <1>1 DEF Tick, Typed, TypedClock, Time
<1>2. CASE ~Tick
    <2>1. clock' = clock
        <3>1. CASE ManageUsers
            BY <3>1 DEF ManageUsers, CreateUser, UpdateUserQuota,
                        UpdateUserPassword, SetUserEnabled, SetUser, DeleteUser,
                        AddAccessKey, RemoveAccessKey
        <3>2. CASE ManageKeys \/ ManageSessions
            BY <3>2 DEF ManageKeys, ManageSessions, CreateUpstreamKey,
                        ReplaceUpstreamKey, DeleteUpstreamKey, PutSession,
                        DeleteSession
        <3>3. CASE AccountUser
            BY <3>3 DEF AccountUser, UserCounters, ReserveUser, ReleaseUser,
                        SettleUser, AdjustUser
        <3>4. CASE AccountKey
            BY <3>4 DEF AccountKey, KeyHourCounter, ReserveKey,
                        ReserveKeyRefused, ReleaseKey, SettleKey, AdjustKey,
                        storeVars
        <3>5. CASE Background \/ Restart
            BY <3>5 DEF Background, TimerFires, TimerFlush, FinalFlush,
                        StopSignal, Restart
        <3> QED
            BY <1>2, <3>1, <3>2, <3>3, <3>4, <3>5 DEF StoreNext
    <2> QED
        BY <2>1 DEF Typed, TypedClock, Time
<1> QED
    BY <1>1, <1>2

LEMMA RelayIsStoreStep ==
    RelayInv /\ [RelayNext]_vars => [StoreNext]_storeVars
<1> SUFFICES ASSUME RelayInv, [RelayNext]_vars PROVE [StoreNext]_storeVars
    OBVIOUS
<1>1. CASE \E r \in Requests : Start(r) \/ Handle(r)
    BY <1>1, HandleIsStoreStep
<1>2. CASE Administer
    BY <1>2 DEF Administer, StoreNext, AccountUser, AccountKey
<1>3. CASE Background \/ Die \/ Tick
    BY <1>3 DEF Die, StoreNext
<1>4. CASE UNCHANGED vars
    BY <1>4 DEF vars
<1> QED
    BY <1>1, <1>2, <1>3, <1>4 DEF RelayNext

LEMMA RelayInitInv == RelayInit => RelayInv
<1> SUFFICES ASSUME RelayInit PROVE RelayInv
    OBVIOUS
<1>1. Typed /\ clock = 0
    BY InitType DEF RelayInit, Init
<1>2. NotArrived \in Call
    BY RelayAssumption, StoreAssumption
       DEF NotArrived, Call, PC, Reply, NoReply, Time, ZeroTime
<1>3. Local(NotArrived) /\ NotArrived.now = 0
    BY DEF NotArrived, Local, KeyPC, AttemptPC, EarlyPC, EndPC, NoReply, Own
<1> QED
    BY <1>1, <1>2, <1>3 DEF RelayInit, RelayInv, Calls

LEMMA DeadRecord ==
    ASSUME NEW c, Sound(c)
    PROVE  Sound([c EXCEPT !.pc = "dead"]) /\ [c EXCEPT !.pc = "dead"].now = c.now
<1> DEFINE d == [c EXCEPT !.pc = "dead"]
<1>1. "dead" \in PC
    BY DEF PC
<1>2. d \in Call /\ d.now = c.now
    BY <1>1 DEF Sound, Call
<1>3. Local(d)
    BY DEF Sound, Local, Call, KeyPC, AttemptPC, EarlyPC, EndPC
<1> QED
    BY <1>2, <1>3 DEF Sound

LEMMA RelayStep == RelayInv /\ [RelayNext]_vars => RelayInv'
<1> SUFFICES ASSUME RelayInv, [RelayNext]_vars PROVE RelayInv'
    OBVIOUS
<1>1. [StoreNext]_storeVars
    BY RelayIsStoreStep
<1>2. Typed'
    BY <1>1, StoreTypeStep DEF RelayInv
<1>3. clock' >= clock /\ clock \in Nat /\ clock' \in Nat
    <2>1. CASE StoreNext
        BY <1>2, <2>1, ClockStep DEF RelayInv, Typed, TypedClock, Time
    <2>2. CASE UNCHANGED storeVars
        BY <2>2 DEF storeVars, RelayInv, Typed, TypedClock, Time
    <2> QED
        BY <1>1, <2>1, <2>2
<1>4. \A r \in Requests : call[r] \in Call /\ Sound(call[r])
                           /\ call[r].now <= clock /\ call[r].now \in Nat
    BY DEF RelayInv, Calls, Sound, Call, Time
<1>5. Calls'
    <2>1. ASSUME NEW r \in Requests, Start(r) \/ Handle(r)
          PROVE  Calls'
        <3>1. PICK d : Good(r, d)
            BY <2>1, RequestGood
        <3>2. call' = [call EXCEPT ![r] = d] /\ d \in Call /\ Local(d)
              /\ d.now <= clock /\ clock' = clock
            BY <3>1 DEF Good, Becomes, Sound
        <3> QED
            BY <3>2 DEF RelayInv, Calls
    <2>2. CASE UNCHANGED call
        BY <1>3, <1>4, <2>2 DEF RelayInv, Calls
    <2>3. CASE Die
        <3>1. \A r \in Requests : Sound(call'[r]) /\ call'[r].now = call[r].now
            BY <1>4, <2>3, DeadRecord DEF Die
        <3>2. call' \in [Requests -> Call]
            BY <2>3, <3>1 DEF Die, Sound
        <3> QED
            BY <1>3, <1>4, <3>1, <3>2 DEF Calls, Sound
    <2> QED
        BY <2>1, <2>2, <2>3 DEF RelayNext, Administer, vars
<1> QED
    BY <1>2, <1>5 DEF RelayInv

LEMMA RelayInvariant == RelaySpec => []RelayInv
    BY RelayInitInv, RelayStep, PTL DEF RelaySpec

\* Whatever the handlers, the administration and the crashes do, every value
\* stays in the domain the code's types and its arithmetic promise.
THEOREM RelayTypeCorrect == RelaySpec => []RelayTypeOK
<1>1. RelayInv => RelayTypeOK
    BY TypedIsTypeOK DEF RelayInv, Calls, RelayTypeOK
<1> QED
    BY <1>1, RelayInvariant, PTL

\* The relay uses the store only through its methods: every behaviour of the
\* relay is one of the store with an arbitrary caller, so that what is proved
\* of the store holds while requests run.
THEOREM RelayImplementsStore == RelaySpec => StoreSpec
<1>1. RelayInit => Init
    BY DEF RelayInit
<1> QED
    BY <1>1, RelayInvariant, RelayIsStoreStep, PTL DEF RelaySpec, StoreSpec

\* RetryElsewhere: at most two calls, the second to another key or without
\* the field that was refused.
THEOREM RelayRetryElsewhere == RelaySpec => []RetryElsewhere
<1>1. RelayInv => RetryElsewhere
    <2> SUFFICES ASSUME RelayInv, NEW r \in Requests
                 PROVE  LET t == call[r].tried IN
                        Len(t) <= 2 /\ (Len(t) = 2 => Elsewhere(t))
        BY DEF RetryElsewhere, Elsewhere
    <2>1. Local(call[r]) /\ call[r].attempt \in 0 .. 2
        BY DEF RelayInv, Calls, Call
    <2> QED
        BY <2>1 DEF Local
<1> QED
    BY <1>1, RelayInvariant, PTL

-----------------------------------------------------------------------------
(* The last error is told.                                                  *)

Errors(t) == {i \in DOMAIN t : Failed(t[i])}

\* What the loop has to tell after these attempts, when none succeeded.
LatestError(t) ==
    IF Errors(t) = {} THEN Own(502)
    ELSE [code |-> t[CHOOSE i \in Errors(t) : \A j \in Errors(t) : j <= i].code,
          body |-> "drained"]

\* The last attempt was no error: it succeeded, or its client went away.
Unfailed(c) == \/ c.pc \in {"cancelUser", "cancelKey"}
               \/ c.reply = Own(499) \/ c.reply.body = "upstream"

\* lastResp is the last error among the attempts, at every step; so it can be
\* told when the loop ends.
Told(c) ==
    /\ LoopReply(c) = LatestError(c.tried)
    /\ c.pc = "call" => c.tried[Len(c.tried)].code = 0
    /\ c.pc \in {"forward", "settleKey"} => c.reply.body = "upstream"
    /\ Unfailed(c) => ~Failed(c.tried[Len(c.tried)])
    /\ c.pc \in {"refund", "done"} =>
          \/ Unfailed(c)
          \/ Len(c.tried) # 2 /\ c.reply.body = "own"
          \/ /\ c.reply = LoopReply(c)
             /\ Len(c.tried) = 2 \/ ~Retryable(c.reply.code)

\* Attempts that are no errors make no difference.
LEMMA SameErrors ==
    ASSUME NEW n \in 0 .. 2, NEW t, DOMAIN t = 1 .. n, NEW s,
           Errors(s) = Errors(t), \A i \in Errors(t) : s[i].code = t[i].code
    PROVE  LatestError(s) = LatestError(t)
<1> DEFINE m == CHOOSE i \in Errors(t) : \A j \in Errors(t) : j <= i
<1>1. CASE Errors(t) = {}
    BY <1>1 DEF LatestError
<1>2. CASE Errors(t) # {}
    <2>1. Errors(t) \subseteq 1 .. 2
        BY DEF Errors
    <2>2. \E i \in Errors(t) : \A j \in Errors(t) : j <= i
        BY <1>2, <2>1
    <2>3. m \in Errors(t)
        BY <2>2
    <2>4. s[m].code = t[m].code
        BY <2>3
    <2> QED
        BY <1>2, <2>4 DEF LatestError
<1> QED
    BY <1>1, <1>2

LEMMA AppendedError ==
    ASSUME NEW t \in Seq(Attempt), Len(t) \in 0 .. 1, NEW a \in Attempt,
           a.code = 0
    PROVE  /\ LatestError(Append(t, a)) = LatestError(t)
           /\ Append(t, a)[Len(Append(t, a))].code = 0
<1> DEFINE s == Append(t, a)
<1>1. /\ DOMAIN t = 1 .. Len(t) /\ DOMAIN s = 1 .. Len(t) + 1
      /\ \A i \in 1 .. Len(t) : s[i] = t[i]
      /\ s[Len(t) + 1] = a /\ Len(s) = Len(t) + 1
    OBVIOUS
<1>0. Len(t) \in 0 .. 2
    OBVIOUS
<1> HIDE DEF s
<1>2. ~Failed(a)
    BY DEF Failed
<1>3. Errors(s) = Errors(t)
    BY <1>1, <1>2 DEF Errors
<1>4. \A i \in Errors(t) : s[i].code = t[i].code
    BY <1>1 DEF Errors
<1>5. LatestError(s) = LatestError(t)
    BY <1>0, <1>1, <1>3, <1>4, SameErrors
<1> QED
    BY <1>0, <1>1, <1>5 DEF s

\* The current attempt is answered.
LEMMA AnsweredEntries ==
    ASSUME NEW t \in Seq(Attempt), Len(t) \in 1 .. 2, NEW code \in Codes
    PROVE  LET s == [t EXCEPT ![Len(t)].code = code] IN
           /\ DOMAIN s = 1 .. Len(t) /\ DOMAIN t = 1 .. Len(t)
           /\ \A i \in 1 .. Len(t) : i # Len(t) => s[i] = t[i]
           /\ s[Len(t)].code = code /\ s[Len(t)].opts = t[Len(t)].opts
<1>1. t[Len(t)] \in Attempt
    <2>1. \A i \in 1 .. Len(t) : t[i] \in Attempt
        OBVIOUS
    <2> QED
        BY <2>1
<1> DEFINE a == [t[Len(t)] EXCEPT !.code = code]
<1>2. a.code = code /\ a.opts = t[Len(t)].opts
    BY <1>1 DEF Attempt
<1> HIDE DEF a
<1>3. LET s == [t EXCEPT ![Len(t)] = a] IN
      /\ DOMAIN s = 1 .. Len(t) /\ DOMAIN t = 1 .. Len(t)
      /\ \A i \in 1 .. Len(t) : i # Len(t) => s[i] = t[i]
      /\ s[Len(t)] = a
    OBVIOUS
<1> QED
    BY <1>2, <1>3 DEF a

LEMMA LastOne ==
    ASSUME NEW n \in 1 .. 2, NEW E, E \subseteq 1 .. n, n \in E
    PROVE  (CHOOSE i \in E : \A j \in E : j <= i) = n
<1> DEFINE m == CHOOSE i \in E : \A j \in E : j <= i
<1>1. \A j \in E : j <= n
    OBVIOUS
<1>2. m \in E /\ \A j \in E : j <= m
    BY <1>1
<1> HIDE DEF m
<1>3. m \in 1 .. n /\ n <= m
    BY <1>2
<1> QED
    BY <1>3 DEF m

\* The last attempt's error is the latest, ...
LEMMA NewError ==
    ASSUME NEW n \in 1 .. 2, NEW s, DOMAIN s = 1 .. n, Failed(s[n])
    PROVE  LatestError(s) = [code |-> s[n].code, body |-> "drained"]
<1>1. n \in Errors(s) /\ Errors(s) \subseteq 1 .. n
    BY DEF Errors
<1>2. (CHOOSE i \in Errors(s) : \A j \in Errors(s) : j <= i) = n
    BY <1>1, LastOne
<1>3. Errors(s) # {}
    BY <1>1
<1> QED
    BY <1>2, <1>3 DEF LatestError

\* ... and an answer that is none changes nothing.
LEMMA NoNewError ==
    ASSUME NEW n \in 1 .. 2, NEW s, NEW t, DOMAIN s = 1 .. n, DOMAIN t = 1 .. n,
           \A i \in 1 .. n : i # n => s[i] = t[i],
           ~Failed(s[n]), ~Failed(t[n])
    PROVE  LatestError(s) = LatestError(t)
<1>1. Errors(s) = Errors(t)
    BY DEF Errors
<1>2. \A i \in Errors(t) : s[i].code = t[i].code
    BY DEF Errors
<1>3. n \in 0 .. 2
    OBVIOUS
<1> QED
    BY <1>1, <1>2, <1>3, SameErrors

\* A step that makes no attempt and gets no answer.
LEMMA QuietTold ==
    ASSUME NEW c, Told(c), NEW d, d.tried = c.tried, d.lastResp = c.lastResp,
           d.pc \notin {"call", "forward"},
           d.pc = "settleKey" => d.reply.body = "upstream",
           Unfailed(d) => Unfailed(c) \/ ~Failed(c.tried[Len(c.tried)]),
           \/ d.pc \notin {"refund", "done"}
           \/ Unfailed(d)
           \/ Len(c.tried) # 2 /\ d.reply.body = "own"
           \/ /\ d.reply = LoopReply(c)
              /\ Len(c.tried) = 2 \/ ~Retryable(d.reply.code)
    PROVE  Told(d)
<1>1. LoopReply(d) = LoopReply(c)
    BY DEF LoopReply
<1> QED
    BY <1>1 DEF Told

\* The steps of a request keep it: those before the first attempt, ...
LEMMA EarlyTold ==
    ASSUME RelayInv, NEW r \in Requests, Told(call[r]),
           Start(r) \/ Check(r) \/ Reserve(r)
    PROVE  Told(call'[r])
<1> DEFINE c == call[r]
<1>1. c \in Call /\ call \in [Requests -> Call] /\ Local(c)
    BY OwnRecord DEF RelayInv, Calls, Sound
<1>2. Len(c.tried) # 2
    <2>1. c.pc \in EarlyPC
        BY DEF Start, Arrive, Check, Reserve, EarlyPC
    <2> HIDE DEF c
    <2>2. c.attempt = 0 /\ Len(c.tried) = c.attempt
        BY <1>1, <2>1 DEF Local
    <2> QED
        BY <2>2
<1>3. ASSUME NEW d, Becomes(r, d), d.tried = c.tried, d.lastResp = c.lastResp,
             d.pc \in {"check", "reserve", "select", "done"},
             \/ d.reply = Own(429)
             \/ d.pc # "done" /\ d.reply \in {NoReply, c.reply}
      PROVE  Told(call'[r])
    <2>1. /\ Unfailed(d) => Unfailed(c)
          /\ d.pc = "done" => d.reply.body = "own"
        BY <1>3 DEF Unfailed, NoReply, Own
    <2>2. Told(d)
        BY <1>2, <1>3, <2>1, QuietTold
    <2> QED
        BY <1>1, <1>3, <2>2 DEF Becomes
<1>4. CASE Start(r)
    <2>1. PICK a \in AccessKeyIDs, b \in Payloads, allowed \in BOOLEAN :
                Arrive(r, a, b, allowed)
        BY <1>4 DEF Start
    <2> DEFINE p == IF allowed THEN "check" ELSE "done"
               y == IF allowed THEN NoReply ELSE Own(429)
               d == [c EXCEPT !.pc = p, !.user = accessKeys[a], !.body = b,
                              !.now = clock, !.reply = y]
    <2>2. /\ Becomes(r, d) /\ p \in {"check", "done"}
          /\ (y = Own(429)) \/ (p # "done" /\ y = NoReply)
        BY <2>1 DEF Arrive
    <2> HIDE DEF p, y
    <2>3. /\ d.tried = c.tried /\ d.lastResp = c.lastResp /\ d.pc = p
          /\ d.reply = y
        BY <1>1 DEF Call
    <2> QED
        BY <1>3, <2>2, <2>3
<1>5. CASE Check(r)
    <2> DEFINE h == HourlyLimit(users[c.user])
               y == DailyLimit(users[c.user])
               d == [c EXCEPT !.pc = "done", !.reply = Own(429)]
               e == [c EXCEPT !.pc = "reserve", !.hourly = h, !.daily = y]
    <2>1. Becomes(r, d) \/ Becomes(r, e)
        BY <1>5 DEF Check
    <2> HIDE DEF h, y
    <2>2. /\ d.tried = c.tried /\ d.lastResp = c.lastResp /\ d.pc = "done"
          /\ e.tried = c.tried /\ e.lastResp = c.lastResp /\ e.pc = "reserve"
          /\ d.reply = Own(429) /\ e.reply = c.reply
        BY <1>1 DEF Call
    <2> QED
        BY <1>3, <2>1, <2>2
<1>6. CASE Reserve(r)
    <2> DEFINE w == hourStart(c.now)
               l == hourStart(c.now) # hourStart(clock)
               d == [c EXCEPT !.pc = "done", !.reply = Own(429)]
               e == [c EXCEPT !.pc = "select", !.window = w, !.late = l]
    <2>1. Becomes(r, d) \/ Becomes(r, e)
        BY <1>6 DEF Reserve
    <2> HIDE DEF w, l
    <2>2. /\ d.tried = c.tried /\ d.lastResp = c.lastResp /\ d.pc = "done"
          /\ e.tried = c.tried /\ e.lastResp = c.lastResp /\ e.pc = "select"
          /\ d.reply = Own(429) /\ e.reply = c.reply
        BY <1>1 DEF Call
    <2> QED
        BY <1>3, <2>1, <2>2
<1> QED
    BY <1>4, <1>5, <1>6

\* ... the choice of a key and its reservation, ...
LEMMA BookTold ==
    ASSUME RelayInv, NEW r \in Requests, Told(call[r]), ChooseKey(r) \/ BookKey(r)
    PROVE  Told(call'[r])
<1> DEFINE c == call[r]
<1>1. c \in Call /\ call \in [Requests -> Call]
    BY OwnRecord DEF RelayInv, Calls
<1>2. c.tried \in Seq(Attempt) /\ Len(c.tried) \in 0 .. 1 /\ Len(c.tried) # 2
    <2>1. c.pc \in AttemptPC
        BY DEF ChooseKey, BookKey, AttemptPC
    <2>2. Len(c.tried) = c.attempt /\ c.attempt < 2 /\ c.attempt \in 0 .. 2
          /\ c.tried \in Seq(Attempt)
        BY <2>1, OwnRecord DEF Sound, Local, Call
    <2> QED
        BY <2>2
<1>3. ASSUME NEW d, Becomes(r, d), Told(d)
      PROVE  Told(call'[r])
    BY <1>1, <1>3 DEF Becomes
<1>4. CASE ChooseKey(r)
    <2>1. ASSUME NEW d, Becomes(r, d), d.tried = c.tried,
                 d.lastResp = c.lastResp,
                 \/ d.pc = "reserveKey" /\ d.reply = c.reply
                 \/ d.pc = "refund" /\ d.reply \in {Own(429), Own(502)}
          PROVE  Told(call'[r])
        <3>1. /\ Unfailed(d) => Unfailed(c)
              /\ d.pc = "refund" => d.reply.body = "own"
            BY <2>1 DEF Unfailed, Own
        <3>2. Told(d)
            BY <1>2, <2>1, <3>1, QuietTold
        <3> QED
            BY <1>3, <2>1, <3>2
    <2>2. \/ \E k, h : Becomes(r, [c EXCEPT !.pc = "reserveKey", !.key = k,
                                            !.limit = h])
          \/ \E y \in {Own(429), Own(502)} :
                Becomes(r, [c EXCEPT !.pc = "refund", !.reply = y])
        <3> DEFINE x(k, h) == [c EXCEPT !.pc = "reserveKey", !.key = k,
                                        !.limit = h]
                   z(y) == [c EXCEPT !.pc = "refund", !.reply = y]
                   s == SelectKey(c.user, c.body.model, working(r), c.exclude)
                   n(k) == hourlyLimit(upstreamKeys[k], DefaultHourlyTokens)
        <3>1. \/ \E k \in s.key : Becomes(r, x(k, n(k)))
              \/ Becomes(r, z(Own(429))) \/ Becomes(r, z(Own(502)))
            BY <1>4 DEF ChooseKey
        <3> HIDE DEF x, z, s, n
        <3>2. \/ \E k, h : Becomes(r, x(k, h))
              \/ \E y \in {Own(429), Own(502)} : Becomes(r, z(y))
            BY <3>1
        <3> QED
            BY <3>2 DEF x, z
    <2>3. ASSUME NEW k, NEW h, Becomes(r, [c EXCEPT !.pc = "reserveKey",
                                                    !.key = k, !.limit = h])
          PROVE  Told(call'[r])
        <3> DEFINE d == [c EXCEPT !.pc = "reserveKey", !.key = k, !.limit = h]
        <3>1. d.tried = c.tried /\ d.lastResp = c.lastResp /\ d.pc = "reserveKey"
              /\ d.reply = c.reply
            BY <1>1 DEF Call
        <3> QED
            BY <2>1, <2>3, <3>1
    <2>4. ASSUME NEW y \in {Own(429), Own(502)},
                 Becomes(r, [c EXCEPT !.pc = "refund", !.reply = y])
          PROVE  Told(call'[r])
        <3> DEFINE d == [c EXCEPT !.pc = "refund", !.reply = y]
        <3>1. d.tried = c.tried /\ d.lastResp = c.lastResp /\ d.pc = "refund"
              /\ d.reply = y
            BY <1>1 DEF Call
        <3>2. Becomes(r, d) /\ d.reply \in {Own(429), Own(502)}
            BY <2>4, <3>1
        <3> HIDE DEF d
        <3> QED
            BY <2>1, <3>1, <3>2
    <2>5. CASE \E k, h : Becomes(r, [c EXCEPT !.pc = "reserveKey", !.key = k,
                                              !.limit = h])
        BY <2>3, <2>5
    <2> QED
        BY <2>2, <2>4, <2>5
<1>5. CASE BookKey(r)
    <2> DEFINE a == [key |-> c.key, opts |-> hasOpts(r), code |-> 0]
               t == Append(c.tried, a)
               w == hourStart(clock)
               d == [c EXCEPT !.pc = "call", !.attempt = @ + 1, !.tried = t,
                              !.keyWindow = w]
               e == [c EXCEPT !.pc = "select", !.exclude = @ \cup {c.key}]
    <2>1. c.pc = "reserveKey" /\ (Becomes(r, d) \/ Becomes(r, e))
        BY <1>5 DEF BookKey
    <2>2. a \in Attempt /\ a.code = 0
        BY <1>1, <2>1, OwnRecord
           DEF Sound, Local, KeyPC, Call, Attempt, hasOpts
    <2>3. LatestError(t) = LatestError(c.tried) /\ t[Len(t)].code = 0
        <3> HIDE DEF a
        <3> QED
            BY <1>2, <2>2, AppendedError
    <2>4. Told(e)
        <3>1. e.tried = c.tried /\ e.lastResp = c.lastResp /\ e.pc = "select"
              /\ e.reply = c.reply
            BY <1>1 DEF Call
        <3> HIDE DEF e
        <3>2. Unfailed(e) => Unfailed(c)
            BY <3>1 DEF Unfailed
        <3> QED
            BY <3>1, <3>2, QuietTold
    <2>5. Told(d)
        <3> HIDE DEF a, t, w
        <3>1. d.tried = t /\ d.lastResp = c.lastResp /\ d.pc = "call"
            BY <1>1 DEF Call
        <3> HIDE DEF d
        <3>2. LoopReply(d) = LoopReply(c)
            BY <3>1 DEF LoopReply
        <3>3. ~Failed(t[Len(t)])
            BY <2>3 DEF Failed
        <3> QED
            BY <2>3, <3>1, <3>2, <3>3 DEF Told
    <2> HIDE DEF d, e
    <2> QED
        BY <1>3, <2>1, <2>4, <2>5
<1> QED
    BY <1>4, <1>5

\* ... an attempt that ends without an answer that counts, ...
LEMMA FailTold ==
    ASSUME RelayInv, NEW r \in Requests, Told(call[r]),
           CallFails(r) \/ CallCancelled(r) \/ CallRejectsOptions(r)
    PROVE  Told(call'[r])
<1> DEFINE c == call[r]
           p == IF c.attempt < 2 THEN "select" ELSE "refund"
           y == IF c.attempt < 2 THEN NoReply ELSE LoopReply(c)
           l == LateForKey(r)
<1>1. c \in Call /\ call \in [Requests -> Call] /\ Sound(c)
    BY OwnRecord DEF RelayInv, Calls
<1>2. c.pc = "call"
    BY DEF CallFails, CallCancelled, CallRejectsOptions
<1>3. ASSUME NEW d, Becomes(r, d), Told(d)
      PROVE  Told(call'[r])
    BY <1>1, <1>3 DEF Becomes
<1>4. /\ p \in {"select", "refund"}
      /\ p = "refund" => y = LoopReply(c) /\ Len(c.tried) = 2
    BY <1>1, <1>2 DEF Sound, Local, Call
<1>8. y.body # "upstream" /\ y # Own(499)
    <2>1. LoopReply(c) = LatestError(c.tried)
        BY DEF Told
    <2> QED
        BY <2>1 DEF LatestError, Own, NoReply
<1>9. ~Failed(c.tried[Len(c.tried)])
    BY <1>2 DEF Told, Failed
<1>5. CASE CallFails(r)
    <2> DEFINE e == c.exclude \cup {c.key}
               d == [c EXCEPT !.pc = p, !.exclude = e, !.late = l, !.reply = y]
    <2>1. Becomes(r, d)
        BY <1>5 DEF CallFails, NextAttempt
    <2> HIDE DEF p, y, l, e
    <2>2. d.tried = c.tried /\ d.lastResp = c.lastResp /\ d.pc = p /\ d.reply = y
        BY <1>1 DEF Call
    <2> HIDE DEF d
    <2>3. Told(d)
        BY <1>4, <1>9, <2>2, QuietTold
    <2> QED
        BY <1>3, <2>1, <2>3
<1>7. CASE CallCancelled(r)
    <2> DEFINE d == [c EXCEPT !.pc = "cancelUser", !.late = l]
    <2>1. Becomes(r, d)
        BY <1>7 DEF CallCancelled
    <2> HIDE DEF l
    <2>2. d.tried = c.tried /\ d.lastResp = c.lastResp /\ d.pc = "cancelUser"
        BY <1>1 DEF Call
    <2> HIDE DEF d
    <2>3. Told(d)
        BY <1>9, <2>2, QuietTold
    <2> QED
        BY <1>3, <2>1, <2>3
<1>6. CASE CallRejectsOptions(r)
    <2> DEFINE n == Len(c.tried)
               code == 400
               t == [c.tried EXCEPT ![Len(c.tried)].code = code]
               d == [c EXCEPT !.pc = p, !.stripped = TRUE, !.tried = t,
                              !.late = l, !.reply = y]
    <2>0. code \in Codes
        BY <1>6 DEF CallRejectsOptions
    <2>1. Becomes(r, d) /\ code = 400 /\ hasOpts(r)
        BY <1>6 DEF CallRejectsOptions, NextAttempt, Answered
    <2> HIDE DEF code
    <2>2. c.tried \in Seq(Attempt) /\ n \in 1 .. 2
          /\ c.tried[n].opts = hasOpts(r) /\ c.tried[n].code = 0
        BY <1>1, <1>2 DEF Sound, Local, Call, hasOpts, Told
    <2>3. /\ DOMAIN t = 1 .. n /\ DOMAIN c.tried = 1 .. n
          /\ \A i \in 1 .. n : i # n => t[i] = c.tried[i]
          /\ t[n].code = code /\ t[n].opts = c.tried[n].opts
        BY <2>0, <2>2, AnsweredEntries
    <2>4. ~Failed(t[n]) /\ ~Failed(c.tried[n])
        <3> HIDE DEF t, n
        <3> QED
            BY <2>1, <2>2, <2>3 DEF Failed
    <2>5. LatestError(t) = LatestError(c.tried)
        <3> HIDE DEF t, n
        <3> QED
            BY <2>2, <2>3, <2>4, NoNewError
    <2> HIDE DEF t, n, p, y, l
    <2>6. d.tried = t /\ d.lastResp = c.lastResp /\ d.pc = p /\ d.reply = y
        BY <1>1 DEF Call
    <2> HIDE DEF d
    <2>7. LoopReply(d) = LoopReply(c)
        BY <2>6 DEF LoopReply
    <2>8. Told(d)
        <3>1. Len(t) = Len(c.tried)
            BY <2>2, <2>3 DEF t, n
        <3>2. ~Unfailed(d)
            BY <1>4, <1>8, <2>6 DEF Unfailed
        <3> QED
            BY <1>4, <2>5, <2>6, <2>7, <3>1, <3>2 DEF Told
    <2> QED
        BY <1>3, <2>1, <2>8
<1> QED
    BY <1>5, <1>6, <1>7

\* ... one that is answered, ...
LEMMA AnswerTold ==
    ASSUME RelayInv, NEW r \in Requests, Told(call[r]), NEW code \in Codes,
           CallRefused(r, code) \/ CallSucceeds(r, code)
    PROVE  Told(call'[r])
<1> DEFINE c == call[r]
           n == Len(c.tried)
           t == [c.tried EXCEPT ![Len(c.tried)].code = code]
<1>1. c \in Call /\ call \in [Requests -> Call] /\ Sound(c)
    BY OwnRecord DEF RelayInv, Calls
<1>2. c.pc = "call"
    BY DEF CallRefused, CallSucceeds
<1>3. ASSUME NEW d, Becomes(r, d), Told(d)
      PROVE  Told(call'[r])
    BY <1>1, <1>3 DEF Becomes
<1>4. c.tried \in Seq(Attempt) /\ n \in 1 .. 2 /\ c.tried[n].opts = hasOpts(r)
      /\ c.tried[n].code = 0
    BY <1>1, <1>2 DEF Sound, Local, Call, hasOpts, Told
<1>5. /\ DOMAIN t = 1 .. n /\ DOMAIN c.tried = 1 .. n
      /\ \A i \in 1 .. n : i # n => t[i] = c.tried[i]
      /\ t[n].code = code /\ t[n].opts = c.tried[n].opts
    BY <1>4, AnsweredEntries
<1>6. CASE CallSucceeds(r, code)
    <2> DEFINE y == [code |-> code, body |-> "upstream"]
               d == [c EXCEPT !.pc = "forward", !.tried = t, !.reply = y]
    <2>1. Becomes(r, d) /\ code \in 200 .. 299
        BY <1>6 DEF CallSucceeds, Answered
    <2>2. y.body = "upstream"
        OBVIOUS
    <2> HIDE DEF t, n, y
    <2>3. ~Failed(t[n]) /\ ~Failed(c.tried[n])
        BY <1>4, <1>5, <2>1 DEF Failed
    <2>4. LatestError(t) = LatestError(c.tried)
        BY <1>4, <1>5, <2>3, NoNewError
    <2>5. d.tried = t /\ d.lastResp = c.lastResp /\ d.pc = "forward"
          /\ d.reply = y
        BY <1>1 DEF Call
    <2> HIDE DEF d
    <2>6. LoopReply(d) = LoopReply(c)
        BY <2>5 DEF LoopReply
    <2>7. Len(t) = n
        BY <1>4, <1>5 DEF n, t
    <2>8. Told(d)
        BY <2>2, <2>3, <2>4, <2>5, <2>6, <2>7 DEF Told
    <2> QED
        BY <1>3, <2>1, <2>8
<1>7. CASE CallRefused(r, code)
    <2> DEFINE x == [code |-> code, body |-> "drained"]
               again == Retryable(code) /\ c.attempt < 2
               p == IF again THEN "select" ELSE "refund"
               y == IF again THEN NoReply ELSE x
               e == IF Retryable(code) THEN c.exclude \cup {c.key} ELSE c.exclude
               l == LateForKey(r)
               d == [c EXCEPT !.pc = p, !.exclude = e, !.tried = t, !.late = l,
                              !.lastResp = x, !.reply = y]
    <2>1. Becomes(r, d) /\ code \notin 200 .. 299 /\ ~(code = 400 /\ hasOpts(r))
        BY <1>7 DEF CallRefused, Answered
    <2>2. x # NoReply /\ x.code = code
        BY DEF NoReply
    <2>3. /\ p \in {"select", "refund"}
          /\ p = "refund" => /\ y = x
                             /\ n = 2 \/ ~Retryable(code)
          /\ y.body # "upstream" /\ y # Own(499)
        BY <1>1, <1>2 DEF Sound, Local, Call, NoReply, Own
    <2>4. code # 0
        BY RelayAssumption
    <2>5. Failed(t[n])
        <3> HIDE DEF t, n
        <3> QED
            BY <1>4, <1>5, <2>1, <2>4 DEF Failed
    <2>6. LatestError(t) = x
        <3> HIDE DEF t, n
        <3>1. LatestError(t) = [code |-> t[n].code, body |-> "drained"]
            BY <1>4, <1>5, <2>5, NewError
        <3> QED
            BY <1>5, <3>1
    <2> HIDE DEF t, n, p, x, y, e, l
    <2>7. d.tried = t /\ d.lastResp = x /\ d.pc = p /\ d.reply = y
        BY <1>1 DEF Call
    <2> HIDE DEF d
    <2>8. LoopReply(d) = x
        BY <2>2, <2>7 DEF LoopReply
    <2>9. Told(d)
        <3>1. Len(t) = n
            BY <1>4, <1>5 DEF n, t
        <3>2. ~Unfailed(d)
            BY <2>3, <2>7 DEF Unfailed
        <3> QED
            BY <2>2, <2>3, <2>6, <2>7, <2>8, <3>1, <3>2 DEF Told
    <2> QED
        BY <1>3, <2>1, <2>9
<1> QED
    BY <1>6, <1>7

\* ... and the end.
LEMMA EndTold ==
    ASSUME RelayInv, NEW r \in Requests, Told(call[r]),
           \/ CancelUser(r) \/ CancelKey(r) \/ Refund(r) \/ Settle(r)
           \/ \E n \in Amounts : Forward(r, n)
    PROVE  Told(call'[r])
<1> DEFINE c == call[r]
<1>1. c \in Call /\ call \in [Requests -> Call]
    BY OwnRecord DEF RelayInv, Calls
<1>2. /\ c.pc \in {"forward", "settleKey"} => c.reply.body = "upstream"
      /\ c.pc = "refund" =>
            \/ Unfailed(c)
            \/ Len(c.tried) # 2 /\ c.reply.body = "own"
            \/ /\ c.reply = LoopReply(c)
               /\ Len(c.tried) = 2 \/ ~Retryable(c.reply.code)
    BY DEF Told
<1>3. ASSUME NEW d, Becomes(r, d), d.tried = c.tried, d.lastResp = c.lastResp,
             \/ d.pc = "cancelKey" /\ c.pc = "cancelUser"
             \/ d.pc = "done" /\ d.reply = Own(499) /\ c.pc = "cancelKey"
             \/ /\ d.pc = "done" /\ d.reply = c.reply
                /\ c.pc \in {"refund", "settleKey"}
             \/ d.pc = "settleKey" /\ d.reply = c.reply /\ c.pc = "forward"
      PROVE  Told(call'[r])
    <2>1. Unfailed(d) => Unfailed(c)
        BY <1>3 DEF Unfailed
    <2>2. d.pc = "done" /\ c.pc = "refund" => (Unfailed(c) => Unfailed(d))
        BY <1>3 DEF Unfailed
    <2>3. d.pc = "done" /\ c.pc = "settleKey" => Unfailed(d)
        BY <1>2, <1>3 DEF Unfailed
    <2>4. Told(d)
        BY <1>2, <1>3, <2>1, <2>2, <2>3, QuietTold DEF Unfailed
    <2> QED
        BY <1>1, <1>3, <2>4 DEF Becomes
<1> DEFINE lu == LateForUser(r)
           lk == LateForKey(r)
<1>4. CASE CancelUser(r)
    <2> DEFINE d == [c EXCEPT !.pc = "cancelKey", !.late = lu]
    <2>1. Becomes(r, d) /\ c.pc = "cancelUser"
        BY <1>4 DEF CancelUser
    <2> HIDE DEF lu
    <2>2. d.tried = c.tried /\ d.lastResp = c.lastResp /\ d.pc = "cancelKey"
        BY <1>1 DEF Call
    <2> QED
        BY <1>3, <2>1, <2>2
<1>5. CASE CancelKey(r)
    <2> DEFINE d == [c EXCEPT !.pc = "done", !.reply = Own(499)]
    <2>1. Becomes(r, d) /\ c.pc = "cancelKey"
        BY <1>5 DEF CancelKey
    <2>2. d.tried = c.tried /\ d.lastResp = c.lastResp /\ d.pc = "done"
          /\ d.reply = Own(499)
        BY <1>1 DEF Call
    <2> QED
        BY <1>3, <2>1, <2>2
<1>6. CASE Refund(r) \/ Settle(r)
    <2> DEFINE d(l) == [c EXCEPT !.pc = "done", !.late = l]
    <2>1. c.pc \in {"refund", "settleKey"} /\ (Becomes(r, d(lu)) \/ Becomes(r, d(lk)))
        BY <1>6 DEF Refund, Settle
    <2> HIDE DEF lu, lk
    <2>2. \A l : /\ d(l).tried = c.tried /\ d(l).lastResp = c.lastResp
                 /\ d(l).pc = "done" /\ d(l).reply = c.reply
        BY <1>1 DEF Call
    <2> HIDE DEF d
    <2> QED
        BY <1>3, <2>1, <2>2
<1>7. CASE \E n \in Amounts : Forward(r, n)
    <2>1. PICK n \in Amounts : Forward(r, n)
        BY <1>7
    <2> DEFINE d == [c EXCEPT !.pc = "settleKey", !.actual = n, !.late = lu]
    <2>2. c.pc = "forward" /\ Becomes(r, d)
        BY <2>1 DEF Forward
    <2> HIDE DEF lu
    <2>3. d.tried = c.tried /\ d.lastResp = c.lastResp /\ d.pc = "settleKey"
          /\ d.reply = c.reply
        BY <1>1 DEF Call
    <2> QED
        BY <1>3, <2>2, <2>3
<1> QED
    BY <1>4, <1>5, <1>6, <1>7

TellInv == RelayInv /\ \A r \in Requests : Told(call[r])

LEMMA TellInit == RelayInit => TellInv
<1> SUFFICES ASSUME RelayInit PROVE TellInv
    OBVIOUS
<1>1. RelayInv
    BY RelayInitInv
<1>2. Errors(<<>>) = {}
    BY DEF Errors
<1>3. Told(NotArrived)
    BY <1>2 DEF Told, Unfailed, NotArrived, LoopReply, LatestError, NoReply, Own
<1> QED
    BY <1>1, <1>3 DEF TellInv, RelayInit

LEMMA TellStep == TellInv /\ [RelayNext]_vars => TellInv'
<1> SUFFICES ASSUME TellInv, [RelayNext]_vars PROVE TellInv'
    OBVIOUS
<1>1. RelayInv /\ RelayInv' /\ \A r \in Requests : Told(call[r])
    BY RelayStep DEF TellInv
<1>2. ASSUME NEW r \in Requests, Start(r) \/ Handle(r)
      PROVE  \A q \in Requests : Told(call'[q])
    <2>1. Told(call'[r])
        BY <1>1, <1>2, EarlyTold, BookTold, FailTold, AnswerTold, EndTold
           DEF Handle, Returns
    <2>2. PICK d : call' = [call EXCEPT ![r] = d]
        BY <1>1, <1>2, RequestGood DEF Good, Becomes
    <2>3. \A q \in Requests : q # r => call'[q] = call[q]
        BY <1>1, <2>2 DEF RelayInv, Calls
    <2> QED
        BY <1>1, <2>1, <2>3
<1>3. ASSUME Die, NEW q \in Requests
      PROVE  Told(call'[q])
    <2>1. call[q] \in Call /\ Told(call[q])
        BY <1>1, OwnRecord
    <2>2. Told(call'[q])
        <3>1. CASE call[q].pc = "idle"
            BY <1>3, <2>1, <3>1 DEF Die
        <3>2. CASE call[q].pc # "idle"
            <4> DEFINE d == [call[q] EXCEPT !.pc = "dead"]
            <4>1. call'[q] = d
                BY <1>3, <3>2 DEF Die
            <4>2. d.tried = call[q].tried /\ d.lastResp = call[q].lastResp
                  /\ d.pc = "dead" /\ d.reply = call[q].reply
                BY <2>1 DEF Call
            <4> HIDE DEF d
            <4>3. Unfailed(d) => Unfailed(call[q])
                BY <4>2 DEF Unfailed
            <4> QED
                BY <2>1, <4>1, <4>2, <4>3, QuietTold
        <3> QED
            BY <3>1, <3>2
    <2> QED
        BY <2>2
<1>4. ASSUME UNCHANGED call, NEW q \in Requests
      PROVE  Told(call'[q])
    BY <1>1, <1>4
<1> QED
    BY <1>1, <1>2, <1>3, <1>4 DEF RelayNext, Administer, vars, TellInv

\* UpstreamErrorTold: the status of a second call that was answered with an
\* error is passed on, and none is passed on but that of the last error.
THEOREM RelayUpstreamErrorTold == RelaySpec => []UpstreamErrorTold
<1>1. TellInv => UpstreamErrorTold
    <2> SUFFICES ASSUME TellInv, NEW r \in Requests,
                        call[r].pc \in {"refund", "done"}
                 PROVE  LET c == call[r]
                            t == c.tried
                        IN  /\ Len(t) = 2 /\ Failed(t[2]) => c.reply.code = t[2].code
                            /\ c.reply.body = "drained" =>
                                  /\ \E i \in DOMAIN t :
                                        /\ Failed(t[i]) /\ t[i].code = c.reply.code
                                        /\ \A j \in DOMAIN t : j > i => ~Failed(t[j])
                                  /\ Retryable(c.reply.code) => Len(t) = 2
        BY DEF UpstreamErrorTold
    <2> DEFINE c == call[r]
               t == c.tried
               n == Len(t)
    <2>1. Told(c) /\ n \in 0 .. 2 /\ t \in Seq(Attempt) /\ DOMAIN t = 1 .. n
        <3>1. Told(call[r]) /\ call[r] \in Call /\ Local(call[r])
            BY DEF TellInv, RelayInv, Calls
        <3>2. /\ Len(call[r].tried) = call[r].attempt /\ call[r].attempt \in 0 .. 2
              /\ call[r].tried \in Seq(Attempt)
            BY <3>1 DEF Local, Call
        <3> QED
            BY <3>1, <3>2
    <2>0. c.pc \in {"refund", "done"}
        OBVIOUS
    <2> DEFINE Goal == /\ n = 2 /\ Failed(t[2]) => c.reply.code = t[2].code
                       /\ c.reply.body = "drained" =>
                            /\ \E i \in DOMAIN t :
                                  /\ Failed(t[i]) /\ t[i].code = c.reply.code
                                  /\ \A j \in DOMAIN t : j > i => ~Failed(t[j])
                            /\ Retryable(c.reply.code) => n = 2
    <2> SUFFICES Goal
        OBVIOUS
    <2> HIDE DEF c
    <2>2. CASE Unfailed(c) /\ c.reply.body # "drained"
        BY <2>1, <2>2 DEF Told
    <2>3. CASE n # 2 /\ c.reply.body = "own"
        BY <2>3
    <2>4. CASE c.reply = LoopReply(c) /\ (n = 2 \/ ~Retryable(c.reply.code))
        <3>1. c.reply = LatestError(t)
            BY <2>1, <2>4 DEF Told
        <3>2. ASSUME n = 2, Failed(t[2])
              PROVE  c.reply.code = t[2].code
            BY <2>1, <3>1, <3>2, NewError
        <3>3. ASSUME c.reply.body = "drained"
              PROVE  \E i \in DOMAIN t :
                        /\ Failed(t[i]) /\ t[i].code = c.reply.code
                        /\ \A j \in DOMAIN t : j > i => ~Failed(t[j])
            <4> DEFINE m == CHOOSE i \in Errors(t) : \A j \in Errors(t) : j <= i
            <4>1. Errors(t) # {}
                BY <3>1, <3>3 DEF LatestError, Own
            <4>2. Errors(t) \subseteq 1 .. 2
                BY <2>1 DEF Errors
            <4>3. \E i \in Errors(t) : \A j \in Errors(t) : j <= i
                BY <4>1, <4>2
            <4>4. m \in Errors(t) /\ \A j \in Errors(t) : j <= m
                BY <4>3
            <4>5. c.reply.code = t[m].code
                BY <3>1, <4>1 DEF LatestError
            <4> HIDE DEF m
            <4>6. \A j \in DOMAIN t : j > m => ~Failed(t[j])
                BY <2>1, <4>2, <4>4 DEF Errors
            <4> QED
                BY <4>4, <4>5, <4>6 DEF Errors
        <3> QED
            BY <2>4, <3>2, <3>3
    <2>5. CASE Unfailed(c) /\ c.reply.body = "drained"
        BY <2>0, <2>5 DEF Unfailed, Own
    <2> QED
        BY <2>0, <2>1, <2>2, <2>3, <2>4, <2>5 DEF Told
<1> QED
    BY <1>1, TellInit, TellStep, PTL DEF RelaySpec

-----------------------------------------------------------------------------
(* The windows move forward.                                                *)

\* The hour of a key that stays is left alone, or is put to the current one.
LEMMA KeyHourStep ==
    ASSUME Typed, StoreNext, NEW k \in KeyIDs
    PROVE  \/ Restart
           \/ upstreamKeys'[k] = Nil /\ keyHours'[k] = ZeroCounter
           \/ keyHours'[k] = keyHours[k]
           \/ keyHours'[k].start = hourStart(clock)
<1> DEFINE P == \/ upstreamKeys'[k] = Nil /\ keyHours'[k] = ZeroCounter
                \/ keyHours'[k] = keyHours[k]
                \/ keyHours'[k].start = hourStart(clock)
<1>0. /\ keyHours \in [KeyIDs -> WindowCounter]
      /\ upstreamKeys \in [KeyIDs -> UpstreamKey \cup {Nil}]
    BY DEF Typed, TypedLedger, TypedRegistry
<1>1. CASE UNCHANGED keyHours
    BY <1>1
<1>2. ASSUME NEW j \in KeyIDs, NEW c, c.start = hourStart(clock),
             keyHours' = [keyHours EXCEPT ![j] = c]
      PROVE  P
    BY <1>0, <1>2
<1>3. \A j \in KeyIDs : keyHourAt(j).start = hourStart(clock)
    BY WindowStarts DEF keyHourAt
<1>4. \A j \in KeyIDs : \A d :
          /\ Adjusted(keyHourAt(j), d).start = hourStart(clock)
          /\ Added(keyHourAt(j), d).start = hourStart(clock)
    <2>1. \A j \in KeyIDs : keyHourAt(j) \in WindowCounter
        BY KeyHourAtType DEF Typed
    <2> QED
        BY <1>3, <2>1, WindowStarts
<1>5. CASE ManageUsers
    <2>1. PICK u \in UserIDs : UNCHANGED keyHours \/ DeleteUser(u)
        BY <1>5 DEF ManageUsers, CreateUser, UpdateUserQuota,
                    UpdateUserPassword, SetUserEnabled, SetUser, AddAccessKey,
                    RemoveAccessKey, ledger
    <2>2. CASE DeleteUser(u)
        BY <2>2 DEF DeleteUser
    <2> QED
        BY <2>1, <2>2
<1>6. CASE ManageKeys
    <2>1. PICK j \in KeyIDs : UNCHANGED keyHours \/ DeleteUpstreamKey(j)
        BY <1>6 DEF ManageKeys, CreateUpstreamKey, ReplaceUpstreamKey, ledger
    <2>2. CASE DeleteUpstreamKey(j)
        BY <1>0, <2>2 DEF DeleteUpstreamKey
    <2> QED
        BY <2>1, <2>2
<1>7. CASE ManageSessions
    BY <1>7 DEF ManageSessions, PutSession, DeleteSession, ledger
<1>8. CASE AccountUser
    BY <1>8 DEF AccountUser, UserCounters, ReserveUser, ReleaseUser, SettleUser,
                AdjustUser
<1>9. CASE AccountKey
    <2>1. PICK j \in KeyIDs :
             \/ UNCHANGED keyHours
             \/ keyHours' = [keyHours EXCEPT ![j] = keyHourAt(j)]
             \/ \E d : keyHours' = [keyHours EXCEPT ![j] = Added(keyHourAt(j), d)]
             \/ \E d : keyHours' = [keyHours EXCEPT ![j] = Adjusted(keyHourAt(j), d)]
        BY <1>9 DEF AccountKey, KeyHourCounter, ReserveKey, ReserveKeyRefused,
                    ReleaseKey, SettleKey, AdjustKey, storeVars, ledger
    <2> QED
        BY <1>2, <1>3, <1>4, <2>1
<1>10. CASE Background \/ Tick
    BY <1>10 DEF Background, TimerFires, TimerFlush, FinalFlush, StopSignal,
                 Tick, ledger
<1> QED
    BY <1>5, <1>6, <1>7, <1>8, <1>9, <1>10 DEF StoreNext

\* No refund, settlement or reservation of a request brings back an hour of a
\* key that is over, however late it comes.
THEOREM RelayKeyWindowForward == RelaySpec => KeyWindowForward
<1> DEFINE Forwards == \/ Restart
                       \/ \A k \in Present(upstreamKeys) :
                             upstreamKeys'[k] # Nil =>
                                keyHours'[k].start >= keyHours[k].start
<1>1. RelayInv /\ BegunInv /\ [RelayNext]_vars => [Forwards]_vars
    <2> SUFFICES ASSUME RelayInv, BegunInv, [RelayNext]_vars, ~Restart,
                        NEW k \in Present(upstreamKeys), upstreamKeys'[k] # Nil
                 PROVE  keyHours'[k].start >= keyHours[k].start
        OBVIOUS
    <2>1. [StoreNext]_storeVars
        BY RelayIsStoreStep
    <2>2. k \in KeyIDs /\ clock \in Time /\ keyHours[k] \in WindowCounter
        BY DEF Present, RelayInv, Typed, TypedClock, TypedRegistry, TypedLedger
    <2>3. keyHours[k].start <= hourStart(clock) /\ hourStart(clock) \in Time
        BY <2>2, BegunMemory, StartType DEF BegunInv
    <2>4. \/ keyHours'[k] = keyHours[k]
          \/ keyHours'[k].start = hourStart(clock)
        BY <2>1, <2>2, KeyHourStep DEF RelayInv, storeVars, ledger
    <2> QED
        BY <2>2, <2>3, <2>4 DEF WindowCounter, Time, ZeroTime
<1>2. RelaySpec => []BegunInv
    BY RelayImplementsStore, StoreBegun, PTL
<1> QED
    BY <1>1, <1>2, RelayInvariant, PTL DEF RelaySpec, KeyWindowForward

\* The hour of a user that stays is left alone, or is put to the current one.
UserHourStays(u) ==
    \/ users'[u] = Nil
    \/ counters'[u] = counters[u]
    \/ counters'[u].hour.start = hourStart(clock)

LEMMA UserHourStep ==
    ASSUME Typed, NEW u \in UserIDs,
           \/ ManageUsers \/ ManageKeys \/ ManageSessions
           \/ Background \/ Tick
           \/ \E v \in UserIDs : UserCounters(v)
           \/ \E v \in UserIDs, n \in Int : AdjustUser(v, n)
           \/ UNCHANGED counters
    PROVE  UserHourStays(u)
<1>0. /\ counters \in [UserIDs -> UserCounter]
      /\ users \in [UserIDs -> User \cup {Nil}]
      /\ clock \in Time
    BY DEF Typed, TypedLedger, TypedRegistry, TypedClock
<1>1. CASE UNCHANGED counters
    BY <1>1 DEF UserHourStays
<1>2. CASE ManageUsers
    <2>1. PICK v \in UserIDs : UNCHANGED counters \/ DeleteUser(v)
        BY <1>2 DEF ManageUsers, CreateUser, UpdateUserQuota,
                    UpdateUserPassword, SetUserEnabled, SetUser, AddAccessKey,
                    RemoveAccessKey, ledger
    <2>2. CASE DeleteUser(v)
        BY <1>0, <2>2 DEF DeleteUser, UserHourStays
    <2> QED
        BY <1>1, <2>1, <2>2
<1>3. CASE ManageKeys
    BY <1>1, <1>3 DEF ManageKeys, CreateUpstreamKey, ReplaceUpstreamKey,
                      DeleteUpstreamKey, ledger
<1>4. CASE ManageSessions
    BY <1>1, <1>4 DEF ManageSessions, PutSession, DeleteSession, ledger
<1>5. CASE Background \/ Tick
    BY <1>1, <1>5 DEF Background, TimerFires, TimerFlush, FinalFlush,
                      StopSignal, Tick, ledger
<1>6. \A v \in UserIDs : /\ countersAt(v, clock) \in UserCounter
                         /\ countersAt(v, clock).hour.start = hourStart(clock)
    BY <1>0, CountersAtType, WindowStarts DEF countersAt, Typed
<1>7. ASSUME NEW v \in UserIDs, UserCounters(v) PROVE UserHourStays(u)
    BY <1>0, <1>6, <1>7 DEF UserCounters, UserHourStays
<1>8. ASSUME NEW v \in UserIDs, NEW n \in Int, AdjustUser(v, n)
      PROVE  UserHourStays(u)
    <2>1. AdjustedUser(countersAt(v, clock), n).hour.start = hourStart(clock)
        BY <1>6, WindowStarts DEF AdjustedUser, UserCounter
    <2> QED
        BY <1>0, <1>8, <2>1 DEF AdjustUser, UserHourStays
<1> QED
    BY <1>1, <1>2, <1>3, <1>4, <1>5, <1>7, <1>8

\* A reservation, the only call that brings its own reading of the clock.
LEMMA ReserveRewinds ==
    ASSUME RelayInv, NEW r \in Requests, Reserve(r), NEW u \in UserIDs
    PROVE  \/ UserHourStays(u)
           \/ /\ call[r].pc = "reserve" /\ call'[r].pc = "select"
              /\ call[r].user = u
              /\ hourStart(call[r].now) < hourStart(clock)
<1> DEFINE c == call[r]
<1>1. /\ c \in Call /\ c.now \in Time /\ c.now <= clock /\ c.user \in UserIDs
      /\ clock \in Time
    BY DEF RelayInv, Calls, Call, Typed, TypedClock
<1>2. CASE UNCHANGED storeVars
    BY <1>2 DEF storeVars, ledger, UserHourStays
<1>3. CASE /\ ReserveUser(c.user, est(r), c.hourly, c.daily, working(r), c.now)
           /\ Becomes(r, [c EXCEPT !.pc = "select",
                                   !.window = hourStart(c.now),
                                   !.late = hourStart(c.now) # hourStart(clock)])
    <2>1. CASE u # c.user
        BY <1>3, <2>1 DEF ReserveUser, UserHourStays
    <2>2. CASE u = c.user /\ hourStart(c.now) = hourStart(clock)
        <3>1. /\ countersAt(u, c.now) \in UserCounter
              /\ countersAt(u, c.now).hour.start = hourStart(clock)
            BY <1>1, <2>2, CountersAtType, WindowStarts
               DEF countersAt, RelayInv, Typed
        <3>2. AddedUser(countersAt(u, c.now), est(r)).hour.start
                = hourStart(clock)
            BY <3>1, WindowStarts DEF AddedUser, UserCounter
        <3>3. counters'[u] = AddedUser(countersAt(u, c.now), est(r))
            BY <1>1, <1>3, <2>2 DEF ReserveUser, RelayInv, Typed, TypedLedger
        <3> QED
            BY <3>2, <3>3 DEF UserHourStays
    <2>3. CASE u = c.user /\ hourStart(c.now) # hourStart(clock)
        <3>1. hourStart(c.now) < hourStart(clock)
            <4>1. hourStart(c.now) <= hourStart(clock)
                BY <1>1, StartMonotone
            <4>2. hourStart(c.now) \in Nat /\ hourStart(clock) \in Nat
                BY <1>1, StartType DEF Time
            <4> QED
                BY <2>3, <4>1, <4>2
        <3>2. call[r].pc = "reserve"
            BY DEF Reserve
        <3>3. call'[r].pc = "select"
            BY <1>1, <1>3 DEF Becomes, RelayInv, Calls, Call
        <3> QED
            BY <2>3, <3>1, <3>2, <3>3
    <2> QED
        BY <2>1, <2>2, <2>3
<1> QED
    BY <1>2, <1>3 DEF Reserve

LEMMA HandleUserHour ==
    ASSUME RelayInv, NEW r \in Requests, Start(r) \/ Handle(r), ~Reserve(r),
           NEW u \in UserIDs
    PROVE  UserHourStays(u)
<1>1. /\ call[r].user \in UserIDs /\ est(r) \in Int
      /\ call[r].body \in Payloads
    BY EstType DEF RelayInv, Calls, Call, est
<1>2. \A v, n : UNCHANGED storeVars \/ AdjustKey(v, n) => UNCHANGED counters
    BY DEF storeVars, ledger, AdjustKey
<1>3. CASE Start(r) \/ Check(r) \/ ChooseKey(r)
    BY <1>3, UserHourStep
       DEF Start, Arrive, Check, ChooseKey, storeVars, ledger, RelayInv
<1>4. CASE BookKey(r)
    BY <1>4, UserHourStep
       DEF BookKey, ReserveKey, ReserveKeyRefused, KeyHourCounter, storeVars,
           ledger, RelayInv
<1>5. CASE Returns(r) \/ CancelKey(r) \/ Settle(r)
    <2>1. UNCHANGED counters
        BY <1>2, <1>5 DEF Returns, CallFails, CallCancelled, CallRejectsOptions,
                          CallRefused, CallSucceeds, CancelKey, Settle, Unbook,
                          ReleaseKey, SettleKey
    <2> QED
        BY <2>1, UserHourStep DEF RelayInv
<1>6. CASE CancelUser(r) \/ Refund(r)
    <2>1. AdjustUser(call[r].user, -est(r)) /\ -est(r) \in Int
        BY <1>1, <1>6 DEF CancelUser, Refund, ReleaseUser
    <2> QED
        BY <1>1, <2>1, UserHourStep DEF RelayInv
<1>7. ASSUME NEW n \in Amounts, Forward(r, n) PROVE UserHourStays(u)
    <2>1. AdjustUser(call[r].user, n - est(r)) /\ n - est(r) \in Int
        BY <1>1, <1>7, StoreAssumption DEF Forward, SettleUser
    <2> QED
        BY <1>1, <2>1, UserHourStep DEF RelayInv
<1> QED
    BY <1>3, <1>4, <1>5, <1>6, <1>7 DEF Handle

\* Only a reservation that read the clock in an earlier hour moves the hour
\* of a user back; no refund, settlement, read or administration does.
THEOREM RelayRewoundOnlyLate == RelaySpec => RewoundOnlyLate
<1> DEFINE OnlyLate ==
        \/ Restart
        \/ \A u \in Present(users) :
              \/ users'[u] = Nil
              \/ counters'[u].hour.start >= counters[u].hour.start
              \/ \E r \in Requests :
                    /\ call[r].pc = "reserve" /\ call'[r].pc = "select"
                    /\ call[r].user = u
                    /\ hourStart(call[r].now) < hourStart(clock)
<1>1. RelayInv /\ BegunInv /\ [RelayNext]_vars => [OnlyLate]_vars
    <2> SUFFICES ASSUME RelayInv, BegunInv, RelayNext, ~Restart,
                        NEW u \in Present(users)
                 PROVE  \/ users'[u] = Nil
                        \/ counters'[u].hour.start >= counters[u].hour.start
                        \/ \E r \in Requests :
                              /\ call[r].pc = "reserve" /\ call'[r].pc = "select"
                              /\ call[r].user = u
                              /\ hourStart(call[r].now) < hourStart(clock)
        OBVIOUS
    <2>1. u \in UserIDs /\ clock \in Time /\ counters[u] \in UserCounter
        BY DEF Present, RelayInv, Typed, TypedClock, TypedRegistry, TypedLedger
    <2>2. counters[u].hour.start <= hourStart(clock) /\ hourStart(clock) \in Time
        BY <2>1, BegunMemory, StartType DEF BegunInv, BegunUser
    <2>3. UserHourStays(u) => \/ users'[u] = Nil
                              \/ counters'[u].hour.start >= counters[u].hour.start
        BY <2>1, <2>2 DEF UserHourStays, UserCounter, WindowCounter, Time, ZeroTime
    <2>4. ASSUME NEW r \in Requests, Start(r) \/ Handle(r)
          PROVE  \/ UserHourStays(u)
                 \/ /\ call[r].pc = "reserve" /\ call'[r].pc = "select"
                    /\ call[r].user = u
                    /\ hourStart(call[r].now) < hourStart(clock)
        BY <2>1, <2>4, ReserveRewinds, HandleUserHour
    <2>5. CASE Administer
        <3>1. (\E k \in KeyIDs : KeyHourCounter(k)) => UNCHANGED counters
            BY DEF KeyHourCounter
        <3> QED
            BY <2>1, <2>3, <2>5, <3>1, UserHourStep DEF Administer, RelayInv
    <2>6. CASE Background \/ Tick
        BY <2>1, <2>3, <2>6, UserHourStep DEF RelayInv
    <2> QED
        BY <2>3, <2>4, <2>5, <2>6 DEF RelayNext, Die
<1>2. RelaySpec => []BegunInv
    BY RelayImplementsStore, StoreBegun, PTL
<1> QED
    BY <1>1, <1>2, RelayInvariant, PTL DEF RelaySpec, RewoundOnlyLate
=============================================================================
