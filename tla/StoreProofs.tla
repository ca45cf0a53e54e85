---------------------------- MODULE StoreProofs ----------------------------
(* Theorems about Store, for all values of its constants.                   *)
EXTENDS Durability, TLAPS

-----------------------------------------------------------------------------
(* The operators on windows.                                                *)

LEMMA RemainderType ==
    ASSUME NEW t \in Nat, NEW n \in Nat \ {0}
    PROVE  t % n \in 0 .. t
<1>1. t % n \in 0 .. n - 1
    OBVIOUS
<1>2. CASE t < n
    <2>1. t % n = t
        BY <1>2
    <2> QED
        BY <2>1
<1>3. CASE t >= n
    BY <1>1, <1>3
<1> QED
    BY <1>2, <1>3

LEMMA StartType ==
    ASSUME NEW t \in Time
    PROVE  hourStart(t) \in Time /\ dayStart(t) \in Time
<1>1. HourLen \in Nat \ {0} /\ HourLen * HoursPerDay \in Nat \ {0}
    BY ClockAssumption
<1>2. t % HourLen \in 0 .. t
    BY <1>1, RemainderType DEF Time
<1>3. t % (HourLen * HoursPerDay) \in 0 .. t
    BY <1>1, RemainderType DEF Time
<1> QED
    BY <1>2, <1>3 DEF hourStart, dayStart, Time

LEMMA EnsureWindowType ==
    ASSUME NEW c \in WindowCounter, NEW start \in Time
    PROVE  ensureWindow(c, start) \in WindowCounter
    BY DEF WindowCounter, ensureWindow

LEMMA AdjustedType ==
    ASSUME NEW c \in WindowCounter, NEW d \in Int
    PROVE  Adjusted(c, d) \in WindowCounter
    BY DEF WindowCounter, Adjusted, max64, Time, ZeroTime

LEMMA AddedType ==
    ASSUME NEW c \in WindowCounter, NEW d \in Int
    PROVE  Added(c, d) \in WindowCounter
    BY DEF WindowCounter, Added, Time, ZeroTime

LEMMA ZeroType == ZeroCounter \in WindowCounter /\ ZeroUser \in UserCounter
    BY DEF ZeroCounter, ZeroUser, WindowCounter, UserCounter, Time, ZeroTime

LEMMA WindowStarts ==
    /\ \A c, start : ensureWindow(c, start).start = start
    /\ \A c \in WindowCounter : \A d : /\ Adjusted(c, d).start = c.start
                                      /\ Added(c, d).start = c.start
<1>1. ASSUME NEW c, NEW start PROVE ensureWindow(c, start).start = start
    BY DEF ensureWindow
<1>2. ASSUME NEW c \in WindowCounter, NEW d
      PROVE  Adjusted(c, d).start = c.start /\ Added(c, d).start = c.start
    BY DEF Adjusted, Added, WindowCounter
<1> QED
    BY <1>1, <1>2

\* The beginning of the window of t among windows of n seconds.
LEMMA Divided ==
    ASSUME NEW n \in Nat \ {0}, NEW t \in Nat
    PROVE  \E q \in Int : /\ n * q \in Int /\ n * (q + 1) = n * q + n
                          /\ n * q <= t /\ t < n * q + n
                          /\ t - (t % n) = n * q
<1> DEFINE q == t \div n
<1>1. q \in Int /\ t = n * q + (t % n) /\ t % n \in 0 .. n - 1
    OBVIOUS
<1> HIDE DEF q
<1>2. n * q \in Int /\ n * (q + 1) = n * q + n
    BY <1>1
<1> QED
    BY <1>1, <1>2

\* A window is known by its beginning.
LEMMA Floor ==
    ASSUME NEW n \in Nat \ {0}, NEW q \in Int, NEW t \in Nat,
           n * q <= t, t < n * q + n
    PROVE  t - (t % n) = n * q
<1>1. PICK p \in Int : /\ n * p \in Int /\ n * (p + 1) = n * p + n
                       /\ n * p <= t /\ t < n * p + n
                       /\ t - (t % n) = n * p
    BY Divided
<1>2. n * q \in Int /\ n * (q + 1) = n * q + n
    OBVIOUS
<1>3. ~(p >= q + 1)
    <2> SUFFICES ASSUME p >= q + 1 PROVE FALSE
        OBVIOUS
    <2>1. n * p >= n * (q + 1)
        BY <1>1
    <2> QED
        BY <1>1, <1>2, <2>1
<1>4. ~(q >= p + 1)
    <2> SUFFICES ASSUME q >= p + 1 PROVE FALSE
        OBVIOUS
    <2>1. n * q >= n * (p + 1)
        BY <1>1
    <2> QED
        BY <1>1, <1>2, <2>1
<1>5. p = q
    BY <1>1, <1>3, <1>4
<1> QED
    BY <1>1, <1>5

\* A window goes on, or the next one begins.
LEMMA NextFloor ==
    ASSUME NEW n \in Nat \ {0}, NEW t \in Nat
    PROVE  (t + 1) - ((t + 1) % n) \in {t - (t % n), t + 1}
<1>1. PICK q \in Int : /\ n * q \in Int /\ n * (q + 1) = n * q + n
                       /\ n * q <= t /\ t < n * q + n
                       /\ t - (t % n) = n * q
    BY Divided
<1>2. CASE t + 1 < n * q + n
    <2>1. (t + 1) - ((t + 1) % n) = n * q
        <3>1. t + 1 \in Nat /\ n * q <= t + 1
            BY <1>1
        <3> QED
            BY <1>1, <1>2, <3>1, Floor
    <2> QED
        BY <1>1, <2>1
<1>3. CASE t + 1 >= n * q + n
    <2>1. t + 1 = n * (q + 1) /\ t + 1 \in Nat /\ q + 1 \in Int
        BY <1>1, <1>3
    <2>2. n * (q + 1) <= t + 1 /\ t + 1 < n * (q + 1) + n
        BY <2>1
    <2>3. (t + 1) - ((t + 1) % n) = n * (q + 1)
        BY <2>1, <2>2, Floor
    <2> QED
        BY <2>1, <2>3
<1> QED
    BY <1>1, <1>2, <1>3

LEMMA NextStart ==
    ASSUME NEW t \in Time
    PROVE  /\ hourStart(t + 1) \in {hourStart(t), t + 1}
           /\ dayStart(t + 1) \in {dayStart(t), t + 1}
<1>1. HourLen \in Nat \ {0} /\ HourLen * HoursPerDay \in Nat \ {0} /\ t \in Nat
    BY ClockAssumption DEF Time
<1> QED
    BY <1>1, NextFloor DEF hourStart, dayStart

\* A day is made of whole hours: it is the day of the beginning of each.
LEMMA HourOfDay ==
    ASSUME NEW t \in Time
    PROVE  dayStart(hourStart(t)) = dayStart(t)
<1> DEFINE h == HourLen
           p == HoursPerDay
           n == h * p
<1>1. h \in Nat \ {0} /\ p \in Nat \ {0} /\ n \in Nat \ {0} /\ t \in Nat
    BY ClockAssumption DEF Time
<1>2. PICK q \in Int : /\ n * q \in Int
                       /\ n * q <= t /\ t < n * q + n /\ t - (t % n) = n * q
    BY <1>1, Divided
<1>3. PICK k \in Int : /\ h * k \in Int /\ h * (k + 1) = h * k + h
                       /\ h * k <= t /\ t < h * k + h /\ t - (t % h) = h * k
    BY <1>1, Divided
<1>4. p * q \in Int /\ n * q = h * (p * q)
    BY <1>1, <1>2
<1>5. p * q <= k
    <2> SUFFICES ASSUME k + 1 <= p * q PROVE FALSE
        BY <1>3, <1>4
    <2> HIDE DEF n
    <2> DEFINE m == p * q
    <2>1. m \in Int /\ n * q = h * m /\ k + 1 <= m
        BY <1>4
    <2> HIDE DEF m
    <2>2. h * (k + 1) <= h * m /\ h * m \in Int
        BY <1>1, <1>3, <2>1
    <2> QED
        BY <1>1, <1>2, <1>3, <2>1, <2>2
<1>6. n * q <= h * k
    <2> DEFINE m == p * q
    <2>1. m \in Int /\ n * q = h * m /\ m <= k
        BY <1>4, <1>5
    <2> HIDE DEF m, n
    <2> QED
        BY <1>1, <1>3, <2>1
<1>7. h * k \in Nat /\ h * k < n * q + n
    <2>1. hourStart(t) \in Time /\ hourStart(t) = h * k
        BY <1>3, StartType DEF hourStart
    <2> HIDE DEF n
    <2> QED
        BY <1>1, <1>2, <1>3, <2>1 DEF Time
<1>8. h * k - ((h * k) % n) = n * q
    <2> HIDE DEF n
    <2> QED
        BY <1>1, <1>6, <1>7, Floor
<1> QED
    BY <1>2, <1>3, <1>8 DEF dayStart, hourStart

LEMMA SameDay ==
    ASSUME NEW s \in Time, NEW t \in Time, hourStart(s) = hourStart(t)
    PROVE  dayStart(s) = dayStart(t)
    BY HourOfDay

LEMMA WindowIsHour ==
    ASSUME NEW t \in Time
    PROVE  /\ hourStart(t) # ZeroTime /\ dayStart(t) # ZeroTime
           /\ hourStart(t) <= t
    BY StartType, ClockAssumption, RemainderType DEF hourStart, Time, ZeroTime

\* A counter that is written in the current window reads as it was written.
LEMMA WindowReads ==
    ASSUME NEW c \in WindowCounter, NEW h \in Time, NEW n \in Int
    PROVE  LET w == ensureWindow(c, h) IN
           /\ w \in WindowCounter /\ w.value \in Int
           /\ ensureWindow(w, h) = w
           /\ Added(w, n) = [start |-> h, value |-> w.value + n]
           /\ ensureWindow(Added(w, n), h) = Added(w, n)
           /\ Adjusted(w, n) = [start |-> h, value |-> max64(0, w.value + n)]
           /\ ensureWindow(Adjusted(w, n), h) = Adjusted(w, n)
<1> DEFINE w == ensureWindow(c, h)
<1>1. h # ZeroTime
    BY DEF Time, ZeroTime
<1>2. w \in WindowCounter /\ w.start = h
    BY EnsureWindowType, WindowStarts
<1>3. w = [start |-> w.start, value |-> w.value] /\ w.value \in Int
    BY <1>2 DEF WindowCounter
<1> HIDE DEF w
<1>4. Adjusted(w, n) = [start |-> h, value |-> max64(0, w.value + n)]
    BY <1>2, <1>3 DEF Adjusted
<1>5. ensureWindow(w, h) = w /\ ensureWindow(Adjusted(w, n), h) = Adjusted(w, n)
    BY <1>1, <1>2, <1>4 DEF ensureWindow
<1>6. Added(w, n) = [start |-> h, value |-> w.value + n]
    BY <1>2, <1>3 DEF Added
<1>7. ensureWindow(Added(w, n), h) = Added(w, n)
    BY <1>1, <1>6 DEF ensureWindow
<1> QED
    BY <1>2, <1>3, <1>4, <1>5, <1>6, <1>7 DEF w

-----------------------------------------------------------------------------
(* Type correctness.                                                        *)

\* StoreTypeOK, by group of variables.
TypedClock == clock \in Time /\ proc \in {"up", "stopping", "flushed"}

TypedRegistry ==
    /\ users \in [UserIDs -> User \cup {Nil}]
    /\ accessKeys \in [AccessKeyIDs -> UserIDs \cup {Nil}]
    /\ upstreamKeys \in [KeyIDs -> UpstreamKey \cup {Nil}]
    /\ sessions \in [Tokens -> Session \cup {Nil}]
    /\ issued \subseteq UserIDs \cup AccessKeyIDs \cup KeyIDs \cup Tokens

TypedLedger ==
    /\ counters \in [UserIDs -> UserCounter]
    /\ keyHours \in [KeyIDs -> WindowCounter]
    /\ inFlight \in [KeyIDs -> Nat]

TypedSaving ==
    /\ dirty \in BOOLEAN
    /\ timer \in {"nil", "armed", "fired"}
    /\ callbacks \in Nat
    /\ flushErr \in BOOLEAN
    /\ disk \in State

Typed == TypedClock /\ TypedRegistry /\ TypedLedger /\ TypedSaving

LEMMA TypedIsTypeOK == Typed <=> StoreTypeOK
    BY DEF Typed, TypedClock, TypedRegistry, TypedLedger, TypedSaving,
           StoreTypeOK, Memory, State

LEMMA CountersAtType ==
    ASSUME TypedLedger, NEW u \in UserIDs, NEW t \in Time
    PROVE  countersAt(u, t) \in UserCounter
    BY StartType, EnsureWindowType DEF TypedLedger, countersAt, UserCounter

LEMMA AdjustedUserType ==
    ASSUME NEW c \in UserCounter, NEW d \in Int
    PROVE  AdjustedUser(c, d) \in UserCounter
    BY AdjustedType DEF UserCounter, AdjustedUser

LEMMA AddedUserType ==
    ASSUME NEW c \in UserCounter, NEW d \in Int
    PROVE  AddedUser(c, d) \in UserCounter
    BY AddedType DEF UserCounter, AddedUser

LEMMA KeyHourAtType ==
    ASSUME TypedClock, TypedLedger, NEW k \in KeyIDs
    PROVE  keyHourAt(k) \in WindowCounter
    BY StartType, EnsureWindowType DEF TypedClock, TypedLedger, keyHourAt
LEMMA MarkDirtyType ==
    ASSUME TypedSaving, markDirtyLocked
    PROVE  TypedSaving'
    BY DEF TypedSaving, markDirtyLocked

LEMMA FlushType ==
    ASSUME Typed, NEW ok \in BOOLEAN, Flush(ok), callbacks' \in Nat
    PROVE  TypedSaving'
<1>1. Memory \in State
    BY DEF Typed, TypedRegistry, TypedLedger, Memory, State
<1> QED
    BY <1>1 DEF Typed, TypedSaving, Flush

LEMMA RestartType == Typed /\ Restart => Typed'
<1> SUFFICES ASSUME Typed, Restart PROVE Typed'
    OBVIOUS
<1> USE DEF Typed, Restart, Load
<1>1. disk \in State
    BY DEF TypedSaving
<1>2. TypedRegistry'
    BY <1>1 DEF TypedRegistry, State
<1>3. TypedLedger'
    BY <1>1 DEF TypedLedger, State
<1>4. TypedSaving'
    BY <1>1 DEF TypedSaving
<1> QED
    BY <1>2, <1>3, <1>4 DEF TypedClock

LEMMA freshStateType == freshState \in State
    BY ZeroType DEF freshState, State

LEMMA InitType == Init => Typed
<1> SUFFICES ASSUME Init PROVE Typed
    OBVIOUS
<1>1. disk \in State
    BY freshStateType, DiskAssumption DEF Init
<1>2. TypedRegistry
    <2>1. /\ users \in [UserIDs -> User \cup {Nil}]
          /\ accessKeys \in [AccessKeyIDs -> UserIDs \cup {Nil}]
          /\ upstreamKeys \in [KeyIDs -> UpstreamKey \cup {Nil}]
          /\ sessions \in [Tokens -> Session \cup {Nil}]
        BY <1>1 DEF Init, State
    <2>2. issued \subseteq UserIDs \cup AccessKeyIDs \cup KeyIDs \cup Tokens
        BY <2>1 DEF Init, Present
    <2> QED
        BY <2>1, <2>2 DEF TypedRegistry
<1>3. TypedLedger
    BY <1>1 DEF Init, State, TypedLedger
<1>4. TypedClock /\ TypedSaving
    BY <1>1 DEF Init, TypedClock, TypedSaving, Time
<1> QED
    BY <1>2, <1>3, <1>4 DEF Typed

\* The registry: each group of operations changes what belongs to it, and
\* marks the change for a save.
LEMMA ManageUsersType == Typed /\ ManageUsers => Typed'
<1> SUFFICES ASSUME Typed, ManageUsers PROVE Typed'
    OBVIOUS
<1> USE DEF Typed, ledger
<1> PICK u \in UserIDs :
        \/ \E n \in Usernames, h \in Hashes, on \in BOOLEAN :
               CreateUser(u, n, h, on)
        \/ \E h, d \in Limits : UpdateUserQuota(u, h, d)
        \/ \E h \in Hashes : UpdateUserPassword(u, h)
        \/ \E on \in BOOLEAN : SetUserEnabled(u, on)
        \/ DeleteUser(u)
        \/ \E a \in AccessKeyIDs : AddAccessKey(u, a) \/ RemoveAccessKey(u, a)
    BY DEF ManageUsers
<1>1. ASSUME NEW n \in Usernames, NEW h \in Hashes, NEW on \in BOOLEAN,
             CreateUser(u, n, h, on)
      PROVE  Typed'
    <2>1. [name |-> n, hash |-> h, enabled |-> on, hourly |-> 0, daily |-> 0]
            \in User
        BY StoreAssumption DEF User
    <2>2. TypedRegistry'
        BY <1>1, <2>1 DEF CreateUser, TypedRegistry, Draw
    <2>3. TypedSaving'
        BY <1>1, MarkDirtyType DEF CreateUser
    <2> QED
        BY <1>1, <2>2, <2>3 DEF CreateUser, TypedClock, TypedLedger
<1>2. ASSUME NEW v \in User, SetUser(u, v)
      PROVE  Typed'
    <2>1. TypedRegistry'
        BY <1>2 DEF SetUser, TypedRegistry
    <2>2. TypedSaving'
        BY <1>2, MarkDirtyType DEF SetUser
    <2> QED
        BY <1>2, <2>1, <2>2 DEF SetUser, TypedClock, TypedLedger
<1>3. users[u] # Nil => users[u] \in User
    BY DEF TypedRegistry
<1>4. ASSUME NEW h \in Limits, NEW d \in Limits, UpdateUserQuota(u, h, d)
      PROVE  Typed'
    <2>1. [users[u] EXCEPT !.hourly = h, !.daily = d] \in User
        BY <1>3, <1>4 DEF UpdateUserQuota, SetUser, User
    <2> QED
        BY <1>2, <1>4, <2>1 DEF UpdateUserQuota
<1>5. ASSUME NEW h \in Hashes, UpdateUserPassword(u, h)
      PROVE  Typed'
    <2>1. [users[u] EXCEPT !.hash = h] \in User
        BY <1>3, <1>5 DEF UpdateUserPassword, SetUser, User
    <2> QED
        BY <1>2, <1>5, <2>1 DEF UpdateUserPassword
<1>6. ASSUME NEW on \in BOOLEAN, SetUserEnabled(u, on)
      PROVE  Typed'
    <2>1. [users[u] EXCEPT !.enabled = on] \in User
        BY <1>3, <1>6 DEF SetUserEnabled, SetUser, User
    <2> QED
        BY <1>2, <1>6, <2>1 DEF SetUserEnabled
<1>7. CASE DeleteUser(u)
    <2>1. TypedRegistry'
        BY <1>7 DEF DeleteUser, TypedRegistry
    <2>2. TypedLedger'
        BY <1>7, ZeroType DEF DeleteUser, TypedLedger
    <2>3. TypedSaving'
        BY <1>7, MarkDirtyType DEF DeleteUser
    <2> QED
        BY <1>7, <2>1, <2>2, <2>3 DEF DeleteUser, TypedClock
<1>8. ASSUME NEW a \in AccessKeyIDs, AddAccessKey(u, a) \/ RemoveAccessKey(u, a)
      PROVE  Typed'
    <2>1. TypedRegistry'
        BY <1>8 DEF AddAccessKey, RemoveAccessKey, TypedRegistry, Draw
    <2>2. TypedSaving'
        BY <1>8, MarkDirtyType DEF AddAccessKey, RemoveAccessKey
    <2> QED
        BY <1>8, <2>1, <2>2 DEF AddAccessKey, RemoveAccessKey, TypedClock,
                                TypedLedger
<1> QED
    BY <1>1, <1>4, <1>5, <1>6, <1>7, <1>8
LEMMA ManageKeysType == Typed /\ ManageKeys => Typed'
<1> SUFFICES ASSUME Typed, ManageKeys PROVE Typed'
    OBVIOUS
<1> USE DEF Typed, ledger
<1> PICK k \in KeyIDs :
        \/ \E c \in Secrets, ms \in SUBSET ModelNames, on \in BOOLEAN,
              l \in Limits :
              \/ \E u \in UserIDs : CreateUpstreamKey(u, k, c, ms, on, l)
              \/ ReplaceUpstreamKey(k, c, ms, on, l)
        \/ DeleteUpstreamKey(k)
    BY DEF ManageKeys
<1>1. ASSUME NEW ms \in SUBSET ModelNames
      PROVE  normalizeModels(ms) \in SUBSET ModelNames
    BY StoreAssumption DEF normalizeModels
<1>2. ASSUME NEW c \in Secrets, NEW ms \in SUBSET ModelNames,
             NEW on \in BOOLEAN, NEW l \in Limits, NEW u \in UserIDs,
             CreateUpstreamKey(u, k, c, ms, on, l)
      PROVE  Typed'
    <2>1. [user |-> u, enc |-> c, models |-> normalizeModels(ms),
           enabled |-> on, limit |-> l] \in UpstreamKey
        BY <1>1 DEF UpstreamKey
    <2>2. TypedRegistry'
        BY <1>2, <2>1 DEF CreateUpstreamKey, TypedRegistry, Draw
    <2>3. TypedSaving'
        BY <1>2, MarkDirtyType DEF CreateUpstreamKey
    <2> QED
        BY <1>2, <2>2, <2>3 DEF CreateUpstreamKey, TypedClock, TypedLedger
<1>3. ASSUME NEW c \in Secrets, NEW ms \in SUBSET ModelNames,
             NEW on \in BOOLEAN, NEW l \in Limits,
             ReplaceUpstreamKey(k, c, ms, on, l)
      PROVE  Typed'
    <2>1. upstreamKeys[k] \in UpstreamKey
        BY <1>3 DEF ReplaceUpstreamKey, TypedRegistry
    <2>2. [user |-> upstreamKeys[k].user, enc |-> c,
           models |-> normalizeModels(ms), enabled |-> on,
           limit |-> l] \in UpstreamKey
        BY <1>1, <2>1 DEF UpstreamKey
    <2>3. TypedRegistry'
        BY <1>3, <2>2 DEF ReplaceUpstreamKey, TypedRegistry
    <2>4. TypedSaving'
        BY <1>3, MarkDirtyType DEF ReplaceUpstreamKey
    <2> QED
        BY <1>3, <2>3, <2>4 DEF ReplaceUpstreamKey, TypedClock, TypedLedger
<1>4. CASE DeleteUpstreamKey(k)
    <2>1. TypedRegistry'
        BY <1>4 DEF DeleteUpstreamKey, TypedRegistry
    <2>2. TypedLedger'
        BY <1>4, ZeroType DEF DeleteUpstreamKey, TypedLedger
    <2>3. TypedSaving'
        BY <1>4, MarkDirtyType DEF DeleteUpstreamKey
    <2> QED
        BY <1>4, <2>1, <2>2, <2>3 DEF DeleteUpstreamKey, TypedClock
<1> QED
    BY <1>2, <1>3, <1>4

LEMMA ManageSessionsType == Typed /\ ManageSessions => Typed'
<1> SUFFICES ASSUME Typed, ManageSessions PROVE Typed'
    OBVIOUS
<1> USE DEF Typed, ledger
<1> PICK t \in Tokens : \/ PutSession(t, "admin", Nil)
                        \/ \E u \in UserIDs : PutSession(t, "user", u)
                        \/ DeleteSession(t)
    BY DEF ManageSessions
<1>1. ASSUME NEW role \in {"admin", "user"}, NEW u \in UserIDs \cup {Nil},
             PutSession(t, role, u)
      PROVE  Typed'
    <2>1. [role |-> role, user |-> u, expiry |-> clock + SessionTTL] \in Session
        BY StoreAssumption DEF Session, TypedClock, Time
    <2>2. TypedRegistry'
        BY <1>1, <2>1 DEF PutSession, TypedRegistry, Draw
    <2>3. TypedSaving'
        BY <1>1, MarkDirtyType DEF PutSession
    <2> QED
        BY <1>1, <2>2, <2>3 DEF PutSession, TypedClock, TypedLedger
<1>2. CASE DeleteSession(t)
    <2>1. TypedRegistry'
        BY <1>2 DEF DeleteSession, TypedRegistry
    <2>2. TypedSaving'
        BY <1>2, MarkDirtyType DEF DeleteSession
    <2> QED
        BY <1>2, <2>1, <2>2 DEF DeleteSession, TypedClock, TypedLedger
<1> QED
    BY <1>1, <1>2

\* The ledger.
LEMMA AdjustUserType ==
    ASSUME Typed, NEW u \in UserIDs, NEW d \in Int, AdjustUser(u, d)
    PROVE  Typed'
<1> USE DEF Typed
<1>1. AdjustedUser(countersAt(u, clock), d) \in UserCounter
    BY CountersAtType, AdjustedUserType DEF TypedClock
<1>2. TypedLedger'
    BY <1>1 DEF AdjustUser, TypedLedger
<1>3. TypedSaving'
    BY MarkDirtyType DEF AdjustUser
<1> QED
    BY <1>2, <1>3 DEF AdjustUser, TypedClock, TypedRegistry, registry

LEMMA ReserveUserType ==
    ASSUME Typed, NEW u \in UserIDs, NEW est \in Int, NEW h \in Int,
           NEW d \in Int, NEW w \in BOOLEAN, NEW now \in Time,
           ReserveUser(u, est, h, d, w, now)
    PROVE  Typed'
<1> USE DEF Typed
<1>1. AddedUser(countersAt(u, now), est) \in UserCounter
    BY CountersAtType, AddedUserType
<1>2. TypedLedger'
    BY <1>1 DEF ReserveUser, TypedLedger
<1>3. TypedSaving'
    BY MarkDirtyType DEF ReserveUser
<1> QED
    BY <1>2, <1>3 DEF ReserveUser, TypedClock, TypedRegistry, registry

LEMMA UserCountersType ==
    ASSUME Typed, NEW u \in UserIDs, UserCounters(u)
    PROVE  Typed'
<1> USE DEF Typed, registry, saving
<1>1. countersAt(u, clock) \in UserCounter
    BY CountersAtType DEF TypedClock
<1>2. TypedLedger'
    BY <1>1 DEF UserCounters, TypedLedger
<1> QED
    BY <1>2 DEF UserCounters, TypedClock, TypedRegistry, TypedSaving

LEMMA KeyHourCounterType ==
    ASSUME Typed, NEW k \in KeyIDs, KeyHourCounter(k)
    PROVE  Typed'
<1> USE DEF Typed, registry, saving
<1>1. TypedLedger'
    BY KeyHourAtType DEF KeyHourCounter, TypedLedger
<1> QED
    BY <1>1 DEF KeyHourCounter, TypedClock, TypedRegistry, TypedSaving

LEMMA ReserveKeyType ==
    ASSUME Typed, NEW k \in KeyIDs, NEW est \in Int, NEW l \in Int,
           NEW w \in BOOLEAN, ReserveKey(k, est, l, w)
    PROVE  Typed'
<1> USE DEF Typed
<1>1. Added(keyHourAt(k), est) \in WindowCounter
    BY KeyHourAtType, AddedType
<1>2. TypedLedger'
    BY <1>1 DEF ReserveKey, TypedLedger
<1>3. TypedSaving'
    BY MarkDirtyType DEF ReserveKey
<1> QED
    BY <1>2, <1>3 DEF ReserveKey, TypedClock, TypedRegistry, registry

LEMMA ReserveKeyRefusedType ==
    ASSUME Typed, NEW k \in KeyIDs, NEW est \in Int, NEW l \in Int,
           NEW w \in BOOLEAN, ReserveKeyRefused(k, est, l, w)
    PROVE  Typed'
<1>1. CASE UNCHANGED storeVars
    BY <1>1 DEF storeVars, registry, ledger, saving, Typed, TypedClock,
                TypedRegistry, TypedLedger, TypedSaving
<1>2. CASE KeyHourCounter(k)
    BY <1>2, KeyHourCounterType
<1> QED
    BY <1>1, <1>2 DEF ReserveKeyRefused

LEMMA AdjustKeyType ==
    ASSUME Typed, NEW k \in KeyIDs, NEW d \in Int, AdjustKey(k, d)
    PROVE  Typed'
<1> USE DEF Typed
<1>1. Adjusted(keyHourAt(k), d) \in WindowCounter
    BY KeyHourAtType, AdjustedType
<1>2. max64(0, inFlight[k] - 1) \in Nat
    BY DEF max64, TypedLedger
<1>3. TypedLedger'
    BY <1>1, <1>2 DEF AdjustKey, TypedLedger
<1>4. TypedSaving'
    BY MarkDirtyType DEF AdjustKey
<1> QED
    BY <1>3, <1>4 DEF AdjustKey, TypedClock, TypedRegistry, registry

LEMMA AccountUserType == Typed /\ AccountUser => Typed'
<1> SUFFICES ASSUME Typed, AccountUser PROVE Typed'
    OBVIOUS
<1> PICK u \in UserIDs :
        \/ UserCounters(u)
        \/ \E est \in Amounts :
              \/ \E h, d \in Limits, now \in 0 .. clock :
                    ReserveUser(u, est, h, d, IsWorkingHour(now), now)
              \/ ReleaseUser(u, est)
              \/ \E actual \in Amounts : SettleUser(u, est, actual)
    BY DEF AccountUser
<1>1. CASE UserCounters(u)
    BY <1>1, UserCountersType
<1>2. ASSUME NEW est \in Amounts, NEW h \in Limits, NEW d \in Limits,
             NEW now \in 0 .. clock,
             ReserveUser(u, est, h, d, IsWorkingHour(now), now)
      PROVE  Typed'
    <2>1. est \in Int /\ h \in Int /\ d \in Int /\ now \in Time
        BY StoreAssumption DEF Typed, TypedClock, Time
    <2>2. IsWorkingHour(now) \in BOOLEAN
        BY DEF IsWorkingHour
    <2> QED
        BY <1>2, <2>1, <2>2, ReserveUserType
<1>3. ASSUME NEW est \in Amounts, ReleaseUser(u, est)
      PROVE  Typed'
    <2>1. -est \in Int
        BY StoreAssumption
    <2> QED
        BY <1>3, <2>1, AdjustUserType DEF ReleaseUser
<1>4. ASSUME NEW est \in Amounts, NEW actual \in Amounts,
             SettleUser(u, est, actual)
      PROVE  Typed'
    <2>1. actual - est \in Int
        BY StoreAssumption
    <2> QED
        BY <1>4, <2>1, AdjustUserType DEF SettleUser
<1> QED
    BY <1>1, <1>2, <1>3, <1>4

LEMMA AccountKeyType == Typed /\ AccountKey => Typed'
<1> SUFFICES ASSUME Typed, AccountKey PROVE Typed'
    OBVIOUS
<1> PICK k \in KeyIDs :
        \/ KeyHourCounter(k)
        \/ \E est \in Amounts :
              \/ \E l \in Limits, w \in BOOLEAN :
                    ReserveKey(k, est, l, w) \/ ReserveKeyRefused(k, est, l, w)
              \/ ReleaseKey(k, est)
              \/ \E actual \in Amounts : SettleKey(k, est, actual)
    BY DEF AccountKey
<1>1. CASE KeyHourCounter(k)
    BY <1>1, KeyHourCounterType
<1>2. ASSUME NEW est \in Amounts, NEW l \in Limits, NEW w \in BOOLEAN,
             ReserveKey(k, est, l, w) \/ ReserveKeyRefused(k, est, l, w)
      PROVE  Typed'
    <2>1. est \in Int /\ l \in Int
        BY StoreAssumption
    <2> QED
        BY <1>2, <2>1, ReserveKeyType, ReserveKeyRefusedType
<1>3. ASSUME NEW est \in Amounts, ReleaseKey(k, est)
      PROVE  Typed'
    <2>1. -est \in Int
        BY StoreAssumption
    <2> QED
        BY <1>3, <2>1, AdjustKeyType DEF ReleaseKey
<1>4. ASSUME NEW est \in Amounts, NEW actual \in Amounts,
             SettleKey(k, est, actual)
      PROVE  Typed'
    <2>1. actual - est \in Int
        BY StoreAssumption
    <2> QED
        BY <1>4, <2>1, AdjustKeyType DEF SettleKey
<1> QED
    BY <1>1, <1>2, <1>3, <1>4

\* Saves and the clock.
LEMMA BackgroundType == Typed /\ Background => Typed'
<1> SUFFICES ASSUME Typed, Background PROVE Typed'
    OBVIOUS
<1> USE DEF Typed, registry, ledger, saving
<1>1. CASE TimerFires
    BY <1>1 DEF TimerFires, TypedClock, TypedRegistry, TypedLedger, TypedSaving
<1>2. ASSUME NEW ok \in BOOLEAN, TimerFlush(ok)
      PROVE  Typed'
    <2>1. callbacks' \in Nat
        BY <1>2 DEF TimerFlush, TypedSaving
    <2>2. TypedSaving'
        BY <1>2, <2>1, FlushType DEF TimerFlush
    <2> QED
        BY <1>2, <2>2 DEF TimerFlush, TypedClock, TypedRegistry, TypedLedger
<1>3. ASSUME NEW ok \in BOOLEAN, FinalFlush(ok)
      PROVE  Typed'
    <2>1. callbacks' \in Nat
        BY <1>3 DEF FinalFlush, TypedSaving
    <2>2. TypedSaving'
        BY <1>3, <2>1, FlushType DEF FinalFlush
    <2> QED
        BY <1>3, <2>2 DEF FinalFlush, TypedClock, TypedRegistry, TypedLedger
<1>4. CASE StopSignal
    BY <1>4 DEF StopSignal, TypedClock, TypedRegistry, TypedLedger, TypedSaving
<1> QED
    BY <1>1, <1>2, <1>3, <1>4 DEF Background

LEMMA TickType == Typed /\ Tick => Typed'
    BY DEF Tick, Typed, TypedClock, TypedRegistry, TypedLedger, TypedSaving,
           registry, ledger, saving, Time

LEMMA StoreTypeStep == Typed /\ [StoreNext]_storeVars => Typed'
<1> SUFFICES ASSUME Typed, [StoreNext]_storeVars PROVE Typed'
    OBVIOUS
<1>1. CASE StoreNext
    BY <1>1, ManageUsersType, ManageKeysType, ManageSessionsType,
       AccountUserType, AccountKeyType, BackgroundType, RestartType, TickType
       DEF StoreNext
<1>2. CASE UNCHANGED storeVars
    BY <1>2 DEF storeVars, registry, ledger, saving, Typed, TypedClock,
                TypedRegistry, TypedLedger, TypedSaving
<1> QED
    BY <1>1, <1>2

\* Whatever the callers of the store do, every map, counter and flag of it,
\* and of the file, keeps its type, and no number of requests in flight is ever
\* negative.  (Counters of tokens may be: see OverdrawnOnlyReserved.)
THEOREM StoreTypeCorrect == StoreSpec => []StoreTypeOK
<1>1. Init => Typed
    BY InitType
<1>2. Typed /\ [StoreNext]_storeVars => Typed'
    BY StoreTypeStep
<1>3. Typed => StoreTypeOK
    BY TypedIsTypeOK
<1> QED
    BY <1>1, <1>2, <1>3, PTL DEF StoreSpec
-----------------------------------------------------------------------------
(* Every step of the store treats the file and its flags in one of five     *)
(* ways, and the registry in one of few.                                    *)

LEMMA SavingStep ==
    ASSUME StoreNext
    PROVE  \/ markDirtyLocked
           \/ UNCHANGED saving
           \/ TimerFires
           \/ \E ok \in BOOLEAN : Flush(ok) /\ UNCHANGED registry
           \/ Restart
<1> USE DEF saving
<1>1. CASE ManageUsers
    BY <1>1 DEF ManageUsers, CreateUser, UpdateUserQuota, UpdateUserPassword,
                SetUserEnabled, SetUser, DeleteUser, AddAccessKey,
                RemoveAccessKey
<1>2. CASE ManageKeys
    BY <1>2 DEF ManageKeys, CreateUpstreamKey, ReplaceUpstreamKey,
                DeleteUpstreamKey
<1>3. CASE ManageSessions
    BY <1>3 DEF ManageSessions, PutSession, DeleteSession
<1>4. CASE AccountUser
    BY <1>4 DEF AccountUser, UserCounters, ReserveUser, ReleaseUser,
                SettleUser, AdjustUser
<1>5. CASE AccountKey
    BY <1>5 DEF AccountKey, KeyHourCounter, ReserveKey, ReserveKeyRefused,
                ReleaseKey, SettleKey, AdjustKey, storeVars
<1>6. CASE Background
    BY <1>6 DEF Background, TimerFlush, FinalFlush, StopSignal
<1>7. CASE Restart \/ Tick
    BY <1>7 DEF Tick
<1> QED
    BY <1>1, <1>2, <1>3, <1>4, <1>5, <1>6, <1>7 DEF StoreNext

LEMMA RegistryStep ==
    ASSUME StoreNext
    PROVE  \/ ManageUsers
           \/ ManageKeys
           \/ UNCHANGED <<users, accessKeys, upstreamKeys>>
           \/ Restart
<1> USE DEF registry
<1>1. CASE ManageSessions
    BY <1>1 DEF ManageSessions, PutSession, DeleteSession
<1>2. CASE AccountUser
    BY <1>2 DEF AccountUser, UserCounters, ReserveUser, ReleaseUser,
                SettleUser, AdjustUser
<1>3. CASE AccountKey
    BY <1>3 DEF AccountKey, KeyHourCounter, ReserveKey, ReserveKeyRefused,
                ReleaseKey, SettleKey, AdjustKey, storeVars
<1>4. CASE Background
    BY <1>4 DEF Background, TimerFires, TimerFlush, FinalFlush, StopSignal
<1>5. CASE Restart \/ Tick
    BY <1>5 DEF Tick
<1> QED
    BY <1>1, <1>2, <1>3, <1>4, <1>5 DEF StoreNext

\* What the file holds after a step: what it held, or what the memory held.
LEMMA DiskStep ==
    ASSUME StoreNext
    PROVE  disk' = disk \/ disk' = Memory
    BY SavingStep DEF saving, markDirtyLocked, TimerFires, Flush, Restart

-----------------------------------------------------------------------------
(* A change that is not saved has a save on its way.                        *)

\* SaveScheduled is not inductive: a timer that has fired must be known to
\* have its callback still to come.
SaveInv ==
    /\ dirty /\ ~flushErr => timer # "nil"
    /\ timer = "fired" => callbacks > 0

LEMMA SaveStep == Typed /\ SaveInv /\ [StoreNext]_storeVars => SaveInv'
<1> SUFFICES ASSUME Typed, SaveInv, [StoreNext]_storeVars PROVE SaveInv'
    OBVIOUS
<1> USE DEF SaveInv
<1>1. CASE markDirtyLocked
    BY <1>1 DEF markDirtyLocked
<1>2. CASE UNCHANGED saving
    BY <1>2 DEF saving
<1>3. CASE TimerFires
    BY <1>3 DEF TimerFires, Typed, TypedSaving
<1>4. ASSUME NEW ok \in BOOLEAN, Flush(ok) PROVE SaveInv'
    BY <1>4 DEF Flush
<1>5. CASE Restart
    BY <1>5 DEF Restart, Load
<1> QED
    BY <1>1, <1>2, <1>3, <1>4, <1>5, SavingStep DEF storeVars, saving

\* No race of Reset, Stop, the timer's goroutine and the final flush leaves a
\* change in memory without a save to come.
THEOREM StoreSaveScheduled == StoreSpec => []SaveScheduled
<1>1. Init => SaveInv
    BY DEF Init, SaveInv
<1>2. Typed /\ SaveInv /\ [StoreNext]_storeVars => SaveInv'
    BY SaveStep
<1>3. Typed /\ SaveInv => SaveScheduled
    BY DEF Typed, TypedSaving, SaveInv, SaveScheduled
<1>4. Init => Typed
    BY InitType
<1>5. Typed /\ [StoreNext]_storeVars => Typed'
    BY StoreTypeStep
<1> QED
    BY <1>1, <1>2, <1>3, <1>4, <1>5, PTL DEF StoreSpec

-----------------------------------------------------------------------------
(* No key without its owner, in memory or in the file.                      *)

\* Attached, for the maps of the running process.
Owned ==
    /\ \A a \in AccessKeyIDs : accessKeys[a] # Nil => users[accessKeys[a]] # Nil
    /\ \A k \in KeyIDs :
          upstreamKeys[k] # Nil => users[upstreamKeys[k].user] # Nil

LEMMA OwnedIsAttached == Owned <=> Attached(Memory)
    BY DEF Owned, Attached, Memory

LEMMA OwnedUsersStep == Typed /\ Owned /\ ManageUsers => Owned'
<1> SUFFICES ASSUME Typed, Owned, ManageUsers PROVE Owned'
    OBVIOUS
<1> USE DEF Owned, Typed, TypedRegistry
<1>0. Nil \notin User /\ Nil \notin UserIDs
    BY NilAssumption
<1> PICK u \in UserIDs :
        \/ \E n \in Usernames, h \in Hashes, on \in BOOLEAN :
               CreateUser(u, n, h, on)
        \/ \E h, d \in Limits : UpdateUserQuota(u, h, d)
        \/ \E h \in Hashes : UpdateUserPassword(u, h)
        \/ \E on \in BOOLEAN : SetUserEnabled(u, on)
        \/ DeleteUser(u)
        \/ \E a \in AccessKeyIDs : AddAccessKey(u, a) \/ RemoveAccessKey(u, a)
    BY DEF ManageUsers
<1>1. ASSUME NEW v \in User, users' = [users EXCEPT ![u] = v],
             UNCHANGED <<accessKeys, upstreamKeys>>
      PROVE  Owned'
    BY <1>0, <1>1
<1>2. ASSUME NEW n \in Usernames, NEW h \in Hashes, NEW on \in BOOLEAN,
             CreateUser(u, n, h, on)
      PROVE  Owned'
    <2>1. [name |-> n, hash |-> h, enabled |-> on, hourly |-> 0, daily |-> 0]
            \in User
        BY StoreAssumption DEF User
    <2> QED
        BY <1>1, <1>2, <2>1 DEF CreateUser
<1>3. ASSUME NEW v, SetUser(u, v), users[u] \in User => v \in User
      PROVE  Owned'
    BY <1>1, <1>3 DEF SetUser
<1>4. ASSUME NEW h \in Limits, NEW d \in Limits, UpdateUserQuota(u, h, d)
      PROVE  Owned'
    <2>1. users[u] \in User
            => [users[u] EXCEPT !.hourly = h, !.daily = d] \in User
        BY DEF User
    <2> QED
        BY <1>3, <1>4, <2>1 DEF UpdateUserQuota
<1>5. ASSUME NEW h \in Hashes, UpdateUserPassword(u, h)
      PROVE  Owned'
    <2>1. users[u] \in User => [users[u] EXCEPT !.hash = h] \in User
        BY DEF User
    <2> QED
        BY <1>3, <1>5, <2>1 DEF UpdateUserPassword
<1>6. ASSUME NEW on \in BOOLEAN, SetUserEnabled(u, on)
      PROVE  Owned'
    <2>1. users[u] \in User => [users[u] EXCEPT !.enabled = on] \in User
        BY DEF User
    <2> QED
        BY <1>3, <1>6, <2>1 DEF SetUserEnabled
<1>7. CASE DeleteUser(u)
    BY <1>7 DEF DeleteUser, OwnKeys, Present
<1>8. ASSUME NEW a \in AccessKeyIDs, AddAccessKey(u, a) \/ RemoveAccessKey(u, a)
      PROVE  Owned'
    BY <1>8 DEF AddAccessKey, RemoveAccessKey
<1> QED
    BY <1>2, <1>4, <1>5, <1>6, <1>7, <1>8

LEMMA OwnedKeysStep == Typed /\ Owned /\ ManageKeys => Owned'
<1> SUFFICES ASSUME Typed, Owned, ManageKeys PROVE Owned'
    OBVIOUS
<1> USE DEF Owned, Typed, TypedRegistry
<1> PICK k \in KeyIDs :
        \/ \E c \in Secrets, ms \in SUBSET ModelNames, on \in BOOLEAN,
              l \in Limits :
              \/ \E u \in UserIDs : CreateUpstreamKey(u, k, c, ms, on, l)
              \/ ReplaceUpstreamKey(k, c, ms, on, l)
        \/ DeleteUpstreamKey(k)
    BY DEF ManageKeys
<1>1. ASSUME NEW c, NEW ms, NEW on, NEW l, NEW u \in UserIDs,
             CreateUpstreamKey(u, k, c, ms, on, l)
      PROVE  Owned'
    BY <1>1 DEF CreateUpstreamKey
<1>2. ASSUME NEW c, NEW ms, NEW on, NEW l, ReplaceUpstreamKey(k, c, ms, on, l)
      PROVE  Owned'
    BY <1>2 DEF ReplaceUpstreamKey
<1>3. CASE DeleteUpstreamKey(k)
    BY <1>3 DEF DeleteUpstreamKey
<1> QED
    BY <1>1, <1>2, <1>3

LEMMA OwnedStep ==
    Typed /\ Owned /\ Attached(disk) /\ [StoreNext]_storeVars
        => Owned' /\ Attached(disk)'
<1> SUFFICES ASSUME Typed, Owned, Attached(disk), [StoreNext]_storeVars
             PROVE  Owned' /\ Attached(disk)'
    OBVIOUS
<1>1. CASE UNCHANGED storeVars
    BY <1>1 DEF storeVars, registry, saving, Owned, Attached
<1>2. CASE StoreNext
    <2>1. Attached(disk)'
        BY <1>2, DiskStep, OwnedIsAttached DEF Attached
    <2>2. UNCHANGED <<users, accessKeys, upstreamKeys>> => Owned'
        BY DEF Owned
    <2>3. Restart => Owned'
        BY DEF Restart, Load, Owned, Attached
    <2> QED
        BY <1>2, <2>1, <2>2, <2>3, RegistryStep, OwnedUsersStep, OwnedKeysStep
<1> QED
    BY <1>1, <1>2

\* An access key or an upstream key never outlives its owner, whatever
\* operations, saves and restarts come between.
THEOREM StoreNoDangling == StoreSpec => []NoDangling
<1>1. Init => Owned /\ Attached(disk)
    <2> SUFFICES ASSUME Init PROVE Owned /\ Attached(disk)
        OBVIOUS
    <2>1. Attached(disk)
        BY DiskAssumption DEF Init, freshState, Attached
    <2> QED
        BY <2>1 DEF Init, Owned, Attached
<1>2. Owned /\ Attached(disk) => NoDangling
    BY OwnedIsAttached DEF NoDangling
<1>3. Init => Typed
    BY InitType
<1>4. Typed /\ [StoreNext]_storeVars => Typed'
    BY StoreTypeStep
<1> QED
    BY <1>1, <1>2, <1>3, <1>4, OwnedStep, PTL DEF StoreSpec

-----------------------------------------------------------------------------
(* User names.                                                              *)

LEMMA DistinctStep ==
    Typed /\ Distinct(users) /\ Distinct(disk.users) /\ [StoreNext]_storeVars
        => Distinct(users)' /\ Distinct(disk.users)'
<1> SUFFICES ASSUME Typed, Distinct(users), Distinct(disk.users),
                    [StoreNext]_storeVars
             PROVE  Distinct(users)' /\ Distinct(disk.users)'
    OBVIOUS
<1>1. CASE UNCHANGED storeVars
    BY <1>1 DEF storeVars, registry, saving
<1>2. CASE StoreNext
    <2>1. Distinct(disk.users)'
        BY <1>2, DiskStep DEF Memory
    <2>2. UNCHANGED <<users, accessKeys, upstreamKeys>> => Distinct(users)'
        OBVIOUS
    <2>3. Restart => Distinct(users)'
        BY DEF Restart, Load
    <2>4. ManageKeys => Distinct(users)'
        BY DEF ManageKeys, CreateUpstreamKey, ReplaceUpstreamKey,
                    DeleteUpstreamKey
    <2>5. ASSUME ManageUsers PROVE Distinct(users)'
        <3> USE DEF Typed, TypedRegistry, Distinct
        <3> PICK u \in UserIDs :
                \/ \E n \in Usernames, h \in Hashes, on \in BOOLEAN :
                       CreateUser(u, n, h, on)
                \/ \E h, d \in Limits : UpdateUserQuota(u, h, d)
                \/ \E h \in Hashes : UpdateUserPassword(u, h)
                \/ \E on \in BOOLEAN : SetUserEnabled(u, on)
                \/ DeleteUser(u)
                \/ \E a \in AccessKeyIDs :
                       AddAccessKey(u, a) \/ RemoveAccessKey(u, a)
            BY <2>5 DEF ManageUsers
        <3>1. ASSUME NEW n, NEW h, NEW on, CreateUser(u, n, h, on)
              PROVE  Distinct(users)'
            BY <3>1 DEF CreateUser, Present
        <3>2. ASSUME NEW v, SetUser(u, v), v.name = users[u].name
              PROVE  Distinct(users)'
            BY <3>2 DEF SetUser
        <3>3. users[u] # Nil => users[u] \in User
            OBVIOUS
        <3>4. ASSUME NEW h, NEW d, UpdateUserQuota(u, h, d)
              PROVE  Distinct(users)'
            <4>1. [users[u] EXCEPT !.hourly = h, !.daily = d].name
                    = users[u].name
                BY <3>3, <3>4 DEF UpdateUserQuota, SetUser, User
            <4> QED
                BY <3>2, <3>4, <4>1 DEF UpdateUserQuota
        <3>5. ASSUME NEW h, UpdateUserPassword(u, h)
              PROVE  Distinct(users)'
            <4>1. [users[u] EXCEPT !.hash = h].name = users[u].name
                BY <3>3, <3>5 DEF UpdateUserPassword, SetUser, User
            <4> QED
                BY <3>2, <3>5, <4>1 DEF UpdateUserPassword
        <3>6. ASSUME NEW on, SetUserEnabled(u, on)
              PROVE  Distinct(users)'
            <4>1. [users[u] EXCEPT !.enabled = on].name = users[u].name
                BY <3>3, <3>6 DEF SetUserEnabled, SetUser, User
            <4> QED
                BY <3>2, <3>6, <4>1 DEF SetUserEnabled
        <3>7. CASE DeleteUser(u)
            BY <3>7 DEF DeleteUser
        <3>8. ASSUME NEW a, AddAccessKey(u, a) \/ RemoveAccessKey(u, a)
              PROVE  Distinct(users)'
            BY <3>8 DEF AddAccessKey, RemoveAccessKey
        <3> QED
            BY <3>1, <3>4, <3>5, <3>6, <3>7, <3>8
    <2> QED
        BY <1>2, <2>1, <2>2, <2>3, <2>4, RegistryStep, <2>5
<1> QED
    BY <1>1, <1>2

\* No two users, in memory or in the file, have the same name up to case.
THEOREM StoreUniqueUsernames == StoreSpec => []UniqueUsernames
<1>1. Init => Distinct(users) /\ Distinct(disk.users)
    <2> SUFFICES ASSUME Init PROVE Distinct(disk.users)
        BY DEF Init
    <2> QED
        BY DiskAssumption DEF Init, freshState, Distinct
<1>2. Distinct(users) /\ Distinct(disk.users) => UniqueUsernames
    BY DEF UniqueUsernames
<1>3. Init => Typed
    BY InitType
<1>4. Typed /\ [StoreNext]_storeVars => Typed'
    BY StoreTypeStep
<1> QED
    BY <1>1, <1>2, <1>3, <1>4, DistinctStep, PTL DEF StoreSpec

-----------------------------------------------------------------------------
(* Which upstream keys exist, and which can still come into existence.      *)

\* Every key that exists, or comes back with a restart, was drawn before.
KeysIssued ==
    /\ Present(upstreamKeys) \subseteq issued
    /\ \A k \in KeyIDs : disk.upstreamKeys[k] # Nil => k \in issued

\* Key k was there before the step, with the owner it has afterwards.
Stays(k) == /\ k \in Present(upstreamKeys)
            /\ upstreamKeys'[k].user = upstreamKeys[k].user

LEMMA ManageUsersIssue ==
    ASSUME Typed, KeysIssued, ManageUsers
    PROVE  /\ issued \subseteq issued'
           /\ \A k \in Present(upstreamKeys)' : Stays(k)
<1> USE DEF Typed, TypedRegistry, Present, Stays
<1> PICK u \in UserIDs :
        \/ \E n \in Usernames, h \in Hashes, on \in BOOLEAN :
               CreateUser(u, n, h, on)
        \/ \E h, d \in Limits : UpdateUserQuota(u, h, d)
        \/ \E h \in Hashes : UpdateUserPassword(u, h)
        \/ \E on \in BOOLEAN : SetUserEnabled(u, on)
        \/ DeleteUser(u)
        \/ \E a \in AccessKeyIDs : AddAccessKey(u, a) \/ RemoveAccessKey(u, a)
    BY DEF ManageUsers
<1>1. CASE \E n \in Usernames, h \in Hashes, on \in BOOLEAN :
               CreateUser(u, n, h, on)
    BY <1>1 DEF CreateUser, Draw
<1>2. CASE \/ \E h, d \in Limits : UpdateUserQuota(u, h, d)
           \/ \E h \in Hashes : UpdateUserPassword(u, h)
           \/ \E on \in BOOLEAN : SetUserEnabled(u, on)
    BY <1>2 DEF UpdateUserQuota, UpdateUserPassword, SetUserEnabled, SetUser
<1>3. CASE DeleteUser(u)
    BY <1>3 DEF DeleteUser
<1>4. CASE \E a \in AccessKeyIDs : AddAccessKey(u, a) \/ RemoveAccessKey(u, a)
    BY <1>4 DEF AddAccessKey, RemoveAccessKey, Draw
<1> QED
    BY <1>1, <1>2, <1>3, <1>4

LEMMA ManageKeysIssue ==
    ASSUME Typed, KeysIssued, ManageKeys
    PROVE  /\ issued \subseteq issued'
           /\ Present(upstreamKeys)' \subseteq issued'
           /\ \A k \in Present(upstreamKeys)' :
                 k \in issued => Stays(k)
<1> USE DEF Typed, TypedRegistry, Present, Stays, KeysIssued
<1> PICK k \in KeyIDs :
        \/ \E c \in Secrets, ms \in SUBSET ModelNames, on \in BOOLEAN,
              l \in Limits :
              \/ \E u \in UserIDs : CreateUpstreamKey(u, k, c, ms, on, l)
              \/ ReplaceUpstreamKey(k, c, ms, on, l)
        \/ DeleteUpstreamKey(k)
    BY DEF ManageKeys
<1>1. CASE \E c \in Secrets, ms \in SUBSET ModelNames, on \in BOOLEAN,
              l \in Limits, u \in UserIDs : CreateUpstreamKey(u, k, c, ms, on, l)
    BY <1>1 DEF CreateUpstreamKey, Draw
<1>2. CASE \E c \in Secrets, ms \in SUBSET ModelNames, on \in BOOLEAN,
              l \in Limits :
              ReplaceUpstreamKey(k, c, ms, on, l)
    BY <1>2 DEF ReplaceUpstreamKey
<1>3. CASE DeleteUpstreamKey(k)
    BY <1>3 DEF DeleteUpstreamKey
<1> QED
    BY <1>1, <1>2, <1>3

\* The steps of a process: all but its end.
Living == \/ ManageUsers \/ ManageKeys \/ ManageSessions
          \/ AccountUser \/ AccountKey
          \/ Background \/ Tick

\* IDs are never reused: a step that is not a restart only adds a key whose
\* ID was never drawn, and none changes its owner.
LEMMA LivingIssue ==
    ASSUME Typed, KeysIssued, Living
    PROVE  /\ issued \subseteq issued'
           /\ Present(upstreamKeys)' \subseteq issued'
           /\ \A k \in Present(upstreamKeys)' : k \in issued => Stays(k)
<1>1. CASE ManageUsers
    BY <1>1, ManageUsersIssue DEF KeysIssued, Stays
<1>2. CASE ManageKeys
    BY <1>2, ManageKeysIssue
<1>3. CASE ManageSessions
    BY <1>3 DEF ManageSessions, PutSession, DeleteSession, Draw, KeysIssued,
                Present, Stays
<1>4. ASSUME ~ManageUsers, ~ManageKeys, ~ManageSessions
      PROVE  UNCHANGED registry
    BY <1>4 DEF Living, AccountUser, UserCounters, ReserveUser, ReleaseUser,
                SettleUser, AdjustUser, AccountKey, KeyHourCounter, ReserveKey,
                ReserveKeyRefused, ReleaseKey, SettleKey, AdjustKey, storeVars,
                Background, TimerFires, TimerFlush, FinalFlush, StopSignal, Tick
<1>5. CASE UNCHANGED registry
    BY <1>5 DEF registry, KeysIssued, Present, Stays
<1> QED
    BY <1>1, <1>2, <1>3, <1>4, <1>5

LEMMA IssueStep ==
    ASSUME Typed, KeysIssued, StoreNext
    PROVE  issued \subseteq issued' /\ KeysIssued'
<1>1. issued \subseteq issued' /\ Present(upstreamKeys)' \subseteq issued'
    <2>1. CASE Living
        BY <2>1, LivingIssue
    <2>2. CASE Restart
        BY <2>2 DEF Restart, Load, KeysIssued, Present, Typed, TypedSaving, State
    <2> QED
        BY <2>1, <2>2 DEF StoreNext, Living
<1>2. \A k \in KeyIDs : disk'.upstreamKeys[k] # Nil => k \in issued'
    <2>1. CASE disk' = disk
        BY <1>1, <2>1 DEF KeysIssued
    <2>2. CASE disk' = Memory
        <3>1. \A k \in KeyIDs : upstreamKeys[k] # Nil => k \in issued
            BY DEF KeysIssued, Present, Typed, TypedRegistry
        <3> QED
            BY <1>1, <2>2, <3>1 DEF Memory
    <2> QED
        BY <2>1, <2>2, DiskStep
<1> QED
    BY <1>1, <1>2 DEF KeysIssued

-----------------------------------------------------------------------------
(* Which users exist, and which can still come into existence.              *)

\* IDs of users, in memory and in the file, have been drawn.
UsersIssued ==
    /\ Present(users) \subseteq issued
    /\ \A u \in UserIDs : disk.users[u] # Nil => u \in issued

LEMMA UsersIssuedInit == Init => UsersIssued
<1> SUFFICES ASSUME Init PROVE UsersIssued
    OBVIOUS
<1>1. Typed
    BY InitType
<1> QED
    BY <1>1 DEF Init, UsersIssued, Present, Typed, TypedRegistry, TypedSaving,
                State

\* A user is made under a new ID, and comes back with the file only under its
\* own.
LEMMA UsersIssuedStep ==
    ASSUME Typed, KeysIssued, UsersIssued, StoreNext
    PROVE  UsersIssued'
<1>1. issued \subseteq issued'
    BY IssueStep
<1>2. users \in [UserIDs -> User \cup {Nil}] /\ disk \in State
    BY DEF Typed, TypedRegistry, TypedSaving
<1>3. Present(users)' \subseteq issued'
    <2>1. CASE UNCHANGED users
        BY <1>1, <2>1 DEF UsersIssued, Present
    <2>2. ASSUME NEW u \in UserIDs, NEW n, NEW p, NEW on,
                 CreateUser(u, n, p, on)
          PROVE  Present(users)' \subseteq issued'
        BY <1>1, <1>2, <2>2 DEF CreateUser, Draw, UsersIssued, Present
    <2>3. ASSUME NEW u \in UserIDs, NEW v, SetUser(u, v) \/ DeleteUser(u)
          PROVE  Present(users)' \subseteq issued'
        BY <1>1, <1>2, <2>3 DEF SetUser, DeleteUser, UsersIssued, Present
    <2>4. CASE ManageUsers
        BY <2>1, <2>2, <2>3, <2>4 DEF ManageUsers, UpdateUserQuota,
            UpdateUserPassword, SetUserEnabled, AddAccessKey, RemoveAccessKey
    <2>5. CASE Restart
        BY <1>1, <1>2, <2>5 DEF Restart, Load, UsersIssued, Present, State
    <2>6. CASE ManageKeys
        BY <2>1, <2>6 DEF ManageKeys, CreateUpstreamKey,
                          ReplaceUpstreamKey, DeleteUpstreamKey
    <2> QED
        BY <2>1, <2>4, <2>5, <2>6, RegistryStep
<1>4. disk' = disk \/ disk' = Memory
    BY DiskStep
<1> QED
    BY <1>1, <1>2, <1>3, <1>4 DEF UsersIssued, Memory, Present

\* A user, or a key, that exists or can still be made: not a deleted one.
UserCurrent(u) == users[u] # Nil \/ u \notin issued

KeyCurrent(k) == upstreamKeys[k] # Nil \/ k \notin issued

-----------------------------------------------------------------------------
(* What the steps that charge no tokens do to the counters.                 *)

Managing == \/ ManageUsers \/ ManageKeys \/ ManageSessions
            \/ \E u \in UserIDs : UserCounters(u)
            \/ \E k \in KeyIDs : KeyHourCounter(k)
            \/ Background

LEMMA ManagingIsLiving == Managing => Living
    BY DEF Managing, Living, AccountUser, AccountKey

LEMMA ManagingIsStep == Managing => StoreNext
    BY ManagingIsLiving DEF Living, StoreNext

\* They leave a counter, roll it over, or empty it with the user or the key.
\* What the steps that are no request's do to the counters.
UserKept(u) == \/ counters'[u] = counters[u]
               \/ counters'[u] = countersAt(u, clock)
               \/ counters'[u] = ZeroUser /\ users'[u] = Nil /\ u \in issued'

KeyHourKept(k) == \/ keyHours'[k] = keyHours[k]
                  \/ keyHours'[k] = keyHourAt(k)
                  \/ keyHours'[k] = ZeroCounter /\ upstreamKeys'[k] = Nil
                        /\ k \in issued'

LEMMA ManagingKeeps ==
    ASSUME Typed, KeysIssued, UsersIssued, Managing
    PROVE  /\ clock' = clock
           /\ \A u \in UserIDs : UserKept(u)
           /\ \A k \in KeyIDs : KeyHourKept(k)
<1>0. /\ counters \in [UserIDs -> UserCounter]
      /\ keyHours \in [KeyIDs -> WindowCounter]
      /\ users \in [UserIDs -> User \cup {Nil}]
      /\ upstreamKeys \in [KeyIDs -> UpstreamKey \cup {Nil}]
    BY DEF Typed, TypedLedger, TypedRegistry
<1>1. ASSUME clock' = clock, UNCHANGED ledger
      PROVE  /\ clock' = clock
             /\ \A u \in UserIDs : UserKept(u)
             /\ \A k \in KeyIDs : KeyHourKept(k)
    BY <1>1 DEF ledger, UserKept, KeyHourKept
<1>2. ASSUME NEW v \in UserIDs, DeleteUser(v)
      PROVE  /\ clock' = clock
             /\ \A u \in UserIDs : UserKept(u)
             /\ \A k \in KeyIDs : KeyHourKept(k)
    <2>1. /\ clock' = clock /\ issued' = issued /\ users[v] # Nil
          /\ users' = [users EXCEPT ![v] = Nil]
          /\ counters' = [counters EXCEPT ![v] = ZeroUser]
          /\ keyHours' = [k \in KeyIDs |-> IF k \in OwnKeys(v) THEN ZeroCounter
                                                               ELSE keyHours[k]]
          /\ upstreamKeys' = [k \in KeyIDs |-> IF k \in OwnKeys(v) THEN Nil
                                                            ELSE upstreamKeys[k]]
        BY <1>2 DEF DeleteUser
    <2>2. v \in issued
        BY <1>0, <2>1 DEF UsersIssued, Present
    <2>3. OwnKeys(v) \subseteq issued
        BY DEF OwnKeys, KeysIssued
    <2>4. ASSUME NEW u \in UserIDs PROVE UserKept(u)
        BY <1>0, <2>1, <2>2 DEF UserKept
    <2>5. ASSUME NEW k \in KeyIDs PROVE KeyHourKept(k)
        BY <2>1, <2>3 DEF KeyHourKept
    <2> QED
        BY <2>1, <2>4, <2>5
<1>3. ASSUME NEW j \in KeyIDs, DeleteUpstreamKey(j)
      PROVE  /\ clock' = clock
             /\ \A u \in UserIDs : UserKept(u)
             /\ \A k \in KeyIDs : KeyHourKept(k)
    <2>1. /\ clock' = clock /\ issued' = issued /\ counters' = counters
          /\ upstreamKeys[j] # Nil
          /\ keyHours' = [keyHours EXCEPT ![j] = ZeroCounter]
          /\ upstreamKeys' = [upstreamKeys EXCEPT ![j] = Nil]
        BY <1>3 DEF DeleteUpstreamKey
    <2>2. j \in issued
        BY <1>0, <2>1 DEF KeysIssued, Present
    <2> QED
        BY <1>0, <2>1, <2>2 DEF UserKept, KeyHourKept
<1>4. CASE ManageUsers
    BY <1>1, <1>2, <1>4
       DEF ManageUsers, CreateUser, UpdateUserQuota, UpdateUserPassword,
           SetUserEnabled, SetUser, AddAccessKey, RemoveAccessKey
<1>5. CASE ManageKeys
    BY <1>1, <1>3, <1>5
       DEF ManageKeys, CreateUpstreamKey, ReplaceUpstreamKey
<1>6. CASE ManageSessions
    BY <1>1, <1>6 DEF ManageSessions, PutSession, DeleteSession
<1>7. ASSUME NEW v \in UserIDs, UserCounters(v)
      PROVE  /\ clock' = clock
             /\ \A u \in UserIDs : UserKept(u)
             /\ \A k \in KeyIDs : KeyHourKept(k)
    BY <1>0, <1>7 DEF UserCounters, UserKept, KeyHourKept
<1>8. ASSUME NEW j \in KeyIDs, KeyHourCounter(j)
      PROVE  /\ clock' = clock
             /\ \A u \in UserIDs : UserKept(u)
             /\ \A k \in KeyIDs : KeyHourKept(k)
    BY <1>0, <1>8 DEF KeyHourCounter, UserKept, KeyHourKept
<1>9. CASE Background
    BY <1>1, <1>9 DEF Background, TimerFires, TimerFlush, FinalFlush, StopSignal
<1> QED
    BY <1>4, <1>5, <1>6, <1>7, <1>8, <1>9 DEF Managing

\* Only a new ID becomes a key, or a user, that was none.
LEMMA NoNewKey ==
    ASSUME Typed, KeysIssued, Managing \/ Tick
    PROVE  \A k \in Present(upstreamKeys)' : k \in issued
                                                => k \in Present(upstreamKeys)
<1>1. CASE ManageUsers
    BY <1>1, ManageUsersIssue DEF Stays
<1>2. CASE ManageKeys
    BY <1>2, ManageKeysIssue DEF Stays
<1>3. CASE UNCHANGED upstreamKeys
    BY <1>3 DEF Present
<1>4. ASSUME ~ManageUsers, ~ManageKeys
      PROVE  UNCHANGED upstreamKeys
    BY <1>4 DEF Managing, ManageSessions, PutSession, DeleteSession,
                UserCounters, KeyHourCounter, Background, TimerFires,
                TimerFlush, FinalFlush, StopSignal, Tick, registry
<1> QED
    BY <1>1, <1>2, <1>3, <1>4

LEMMA StillCurrent ==
    ASSUME Typed, KeysIssued, UsersIssued, Managing \/ Tick
    PROVE  /\ \A u \in UserIDs : UserCurrent(u)' => UserCurrent(u)
           /\ \A k \in KeyIDs : KeyCurrent(k)' => KeyCurrent(k)
<1>1. issued \subseteq issued'
    <2>1. StoreNext
        BY ManagingIsStep DEF StoreNext
    <2> QED
        BY <2>1, IssueStep
<1>2. /\ users \in [UserIDs -> User \cup {Nil}]
      /\ upstreamKeys \in [KeyIDs -> UpstreamKey \cup {Nil}]
    BY DEF Typed, TypedRegistry
<1>3. ASSUME NEW k \in KeyIDs, KeyCurrent(k)' PROVE KeyCurrent(k)
    <2>1. CASE k \notin issued'
        BY <1>1, <2>1 DEF KeyCurrent
    <2>2. CASE upstreamKeys'[k] # Nil
        <3>1. DOMAIN upstreamKeys' = KeyIDs
            BY <1>2 DEF Managing, ManageUsers, CreateUser, UpdateUserQuota,
               UpdateUserPassword, SetUserEnabled, SetUser, DeleteUser,
               AddAccessKey, RemoveAccessKey, ManageKeys, CreateUpstreamKey,
               ReplaceUpstreamKey, DeleteUpstreamKey, ManageSessions, PutSession,
               DeleteSession, UserCounters, KeyHourCounter, Background,
               TimerFires, TimerFlush, FinalFlush, StopSignal, Tick, registry
        <3>2. k \in Present(upstreamKeys)'
            BY <2>2, <3>1 DEF Present
        <3> QED
            BY <1>2, <3>2, NoNewKey DEF KeyCurrent, Present
    <2> QED
        BY <1>3, <2>1, <2>2 DEF KeyCurrent
<1>4. ASSUME NEW u \in UserIDs, UserCurrent(u)' PROVE UserCurrent(u)
    <2>1. CASE u \notin issued'
        BY <1>1, <2>1 DEF UserCurrent
    <2>2. CASE users'[u] # Nil
        <3>1. CASE UNCHANGED users
            BY <2>2, <3>1 DEF UserCurrent
        <3>2. ASSUME NEW v \in UserIDs, NEW n, NEW p, NEW on, CreateUser(v, n, p, on)
              PROVE  UserCurrent(u)
            BY <1>2, <2>2, <3>2 DEF CreateUser, Draw, UserCurrent
        <3>3. ASSUME NEW v \in UserIDs, NEW x, SetUser(v, x) \/ DeleteUser(v)
              PROVE  UserCurrent(u)
            BY <1>2, <2>2, <3>3 DEF SetUser, DeleteUser, UserCurrent
        <3>4. CASE ManageUsers
            BY <3>1, <3>2, <3>3, <3>4 DEF ManageUsers, UpdateUserQuota,
                UpdateUserPassword, SetUserEnabled, AddAccessKey, RemoveAccessKey
        <3>5. ASSUME ~ManageUsers PROVE UNCHANGED users
            BY <3>5 DEF Managing, ManageKeys, CreateUpstreamKey,
               ReplaceUpstreamKey, DeleteUpstreamKey, ManageSessions, PutSession,
               DeleteSession, UserCounters, KeyHourCounter, Background,
               TimerFires, TimerFlush, FinalFlush, StopSignal, Tick, registry
        <3> QED
            BY <3>1, <3>4, <3>5
    <2> QED
        BY <1>4, <2>1, <2>2 DEF UserCurrent
<1> QED
    BY <1>3, <1>4

\* Only a deletion takes a user or a key away, and with its counters.
LEMMA OnlyDeletion ==
    ASSUME Typed, Managing
    PROVE  /\ \A u \in UserIDs :
                 users'[u] = Nil => users[u] = Nil \/ counters'[u] = ZeroUser
           /\ \A k \in KeyIDs :
                 upstreamKeys'[k] = Nil
                    => upstreamKeys[k] = Nil \/ keyHours'[k] = ZeroCounter
<1> USE DEF Typed, TypedRegistry, TypedLedger
<1> DEFINE Goal == /\ \A u \in UserIDs :
                        users'[u] = Nil => users[u] = Nil \/ counters'[u] = ZeroUser
                   /\ \A k \in KeyIDs :
                        upstreamKeys'[k] = Nil
                           => upstreamKeys[k] = Nil \/ keyHours'[k] = ZeroCounter
<1>0. Nil \notin User /\ Nil \notin UpstreamKey
    BY NilAssumption
<1>1. CASE UNCHANGED <<users, upstreamKeys>>
    BY <1>1
<1>2. ASSUME NEW u \in UserIDs, NEW v \in User, users' = [users EXCEPT ![u] = v],
             UNCHANGED upstreamKeys
      PROVE  Goal
    BY <1>0, <1>2
<1>3. ASSUME NEW u \in UserIDs, DeleteUser(u)
      PROVE  Goal
    BY <1>3 DEF DeleteUser
<1>4. CASE ManageUsers
    <2>1. ASSUME NEW u \in UserIDs, NEW n \in Usernames, NEW h \in Hashes,
                 NEW on \in BOOLEAN, CreateUser(u, n, h, on)
          PROVE  Goal
        <3>1. [name |-> n, hash |-> h, enabled |-> on, hourly |-> 0, daily |-> 0]
                \in User
            BY StoreAssumption DEF User
        <3> QED
            BY <1>2, <2>1, <3>1 DEF CreateUser
    <2>2. ASSUME NEW u \in UserIDs, NEW v, SetUser(u, v), users[u] \in User => v \in User
          PROVE  Goal
        BY <1>2, <2>2 DEF SetUser
    <2>3. ASSUME NEW u \in UserIDs, NEW h \in Limits, NEW d \in Limits,
                 UpdateUserQuota(u, h, d)
          PROVE  Goal
        <3>1. users[u] \in User
                => [users[u] EXCEPT !.hourly = h, !.daily = d] \in User
            BY DEF User
        <3> QED
            BY <2>2, <2>3, <3>1 DEF UpdateUserQuota
    <2>4. ASSUME NEW u \in UserIDs, NEW h \in Hashes, UpdateUserPassword(u, h)
          PROVE  Goal
        <3>1. users[u] \in User => [users[u] EXCEPT !.hash = h] \in User
            BY DEF User
        <3> QED
            BY <2>2, <2>4, <3>1 DEF UpdateUserPassword
    <2>5. ASSUME NEW u \in UserIDs, NEW on \in BOOLEAN, SetUserEnabled(u, on)
          PROVE  Goal
        <3>1. users[u] \in User => [users[u] EXCEPT !.enabled = on] \in User
            BY DEF User
        <3> QED
            BY <2>2, <2>5, <3>1 DEF SetUserEnabled
    <2>6. ASSUME NEW u \in UserIDs, NEW a \in AccessKeyIDs,
                 AddAccessKey(u, a) \/ RemoveAccessKey(u, a)
          PROVE  Goal
        BY <1>1, <2>6 DEF AddAccessKey, RemoveAccessKey
    <2> QED
        BY <1>3, <1>4, <2>1, <2>3, <2>4, <2>5, <2>6 DEF ManageUsers
<1>5. ASSUME NEW k \in KeyIDs, NEW u, u \in UserIDs, NEW c \in Secrets,
             NEW ms \in SUBSET ModelNames, NEW on \in BOOLEAN, NEW l \in Limits,
             upstreamKeys' = [upstreamKeys EXCEPT ![k] =
                 [user |-> u, enc |-> c, models |-> normalizeModels(ms),
                  enabled |-> on, limit |-> l]],
             UNCHANGED users
      PROVE  Goal
    <2>1. normalizeModels(ms) \in SUBSET ModelNames
        BY StoreAssumption DEF normalizeModels
    <2>2. [user |-> u, enc |-> c, models |-> normalizeModels(ms),
           enabled |-> on, limit |-> l] \in UpstreamKey
        BY <1>5, <2>1 DEF UpstreamKey
    <2> QED
        BY <1>0, <1>5, <2>2
<1>6. CASE ManageKeys
    <2>1. ASSUME NEW k \in KeyIDs, NEW u \in UserIDs, NEW c \in Secrets,
                 NEW ms \in SUBSET ModelNames, NEW on \in BOOLEAN, NEW l \in Limits,
                 CreateUpstreamKey(u, k, c, ms, on, l)
          PROVE  Goal
        BY <1>5, <2>1 DEF CreateUpstreamKey
    <2>2. ASSUME NEW k \in KeyIDs, NEW c \in Secrets,
                 NEW ms \in SUBSET ModelNames, NEW on \in BOOLEAN, NEW l \in Limits,
                 ReplaceUpstreamKey(k, c, ms, on, l)
          PROVE  Goal
        <3>1. upstreamKeys[k].user \in UserIDs
            BY <2>2 DEF ReplaceUpstreamKey, UpstreamKey
        <3> QED
            BY <1>5, <2>2, <3>1 DEF ReplaceUpstreamKey
    <2>3. ASSUME NEW k \in KeyIDs, DeleteUpstreamKey(k)
          PROVE  Goal
        BY <2>3 DEF DeleteUpstreamKey
    <2> QED
        BY <1>6, <2>1, <2>2, <2>3 DEF ManageKeys
<1>7. ASSUME ~ManageUsers, ~ManageKeys
      PROVE  UNCHANGED <<users, upstreamKeys>>
    BY <1>7 DEF Managing, ManageSessions, PutSession, DeleteSession,
                UserCounters, KeyHourCounter, Background, TimerFires,
                TimerFlush, FinalFlush, StopSignal, registry
<1> QED
    BY <1>1, <1>4, <1>6, <1>7

\* A counter that a read has rolled over reads as before.
LEMMA KeptReads ==
    ASSUME Typed, clock' = clock
    PROVE  /\ \A u \in UserIDs :
                 counters'[u] \in {counters[u], countersAt(u, clock)}
                    => countersAt(u, clock)' = countersAt(u, clock)
           /\ \A k \in KeyIDs :
                 keyHours'[k] \in {keyHours[k], keyHourAt(k)}
                    => keyHourAt(k)' = keyHourAt(k)
<1> DEFINE h == hourStart(clock)
           s == dayStart(clock)
<1>1. /\ counters \in [UserIDs -> UserCounter] /\ keyHours \in [KeyIDs -> WindowCounter]
      /\ h \in Time /\ s \in Time
    BY StartType DEF Typed, TypedClock, TypedLedger
<1>2. \A c \in WindowCounter : /\ ensureWindow(ensureWindow(c, h), h) = ensureWindow(c, h)
                               /\ ensureWindow(ensureWindow(c, s), s) = ensureWindow(c, s)
    BY <1>1, WindowReads
<1>3. \A u \in UserIDs : counters[u].hour \in WindowCounter
                         /\ counters[u].day \in WindowCounter
    BY <1>1 DEF UserCounter
<1>4. hourStart(clock') = h /\ dayStart(clock') = s
    OBVIOUS
<1> HIDE DEF h, s
<1>5. /\ \A u \in UserIDs : countersAt(u, clock)' =
            [hour |-> ensureWindow(counters'[u].hour, h),
             day |-> ensureWindow(counters'[u].day, s)]
      /\ \A u \in UserIDs : countersAt(u, clock) =
            [hour |-> ensureWindow(counters[u].hour, h),
             day |-> ensureWindow(counters[u].day, s)]
      /\ \A k \in KeyIDs : /\ keyHourAt(k)' = ensureWindow(keyHours'[k], h)
                           /\ keyHourAt(k) = ensureWindow(keyHours[k], h)
    BY <1>4 DEF countersAt, keyHourAt, h, s
<1> QED
    BY <1>1, <1>2, <1>3, <1>5

-----------------------------------------------------------------------------
(* What is written behind.                                                  *)

\* Every step marks the change, saves, restarts, or changes nothing but the
\* windows that a read rolls over.
LEMMA MarkedStep ==
    ASSUME StoreNext
    PROVE  \/ markDirtyLocked /\ UNCHANGED clock
           \/ /\ UNCHANGED <<clock, users, accessKeys, upstreamKeys, sessions,
                             dirty, disk>>
              /\ \/ UNCHANGED <<counters, keyHours>>
                 \/ \E u \in UserIDs : UserCounters(u)
                 \/ \E k \in KeyIDs : KeyHourCounter(k)
           \/ /\ \E ok \in BOOLEAN : Flush(ok)
              /\ UNCHANGED <<clock, registry, ledger>>
           \/ Restart
           \/ Tick
<1> USE DEF registry, ledger, saving
<1>1. CASE ManageUsers
    BY <1>1 DEF ManageUsers, CreateUser, UpdateUserQuota, UpdateUserPassword,
                SetUserEnabled, SetUser, DeleteUser, AddAccessKey,
                RemoveAccessKey
<1>2. CASE ManageKeys
    BY <1>2 DEF ManageKeys, CreateUpstreamKey, ReplaceUpstreamKey,
                DeleteUpstreamKey
<1>3. CASE ManageSessions
    BY <1>3 DEF ManageSessions, PutSession, DeleteSession
<1>4. CASE AccountUser
    <2>1. PICK u \in UserIDs :
             \/ UserCounters(u)
             \/ markDirtyLocked /\ UNCHANGED clock
        BY <1>4 DEF AccountUser, ReserveUser, ReleaseUser, SettleUser, AdjustUser
    <2> QED
        BY <2>1 DEF UserCounters
<1>5. CASE AccountKey
    <2>1. PICK k \in KeyIDs :
             \/ KeyHourCounter(k)
             \/ UNCHANGED storeVars
             \/ markDirtyLocked /\ UNCHANGED clock
        BY <1>5 DEF AccountKey, ReserveKey, ReserveKeyRefused, ReleaseKey,
                    SettleKey, AdjustKey
    <2> QED
        BY <2>1 DEF KeyHourCounter, storeVars
<1>6. CASE Background
    BY <1>6 DEF Background, TimerFires, TimerFlush, FinalFlush, StopSignal
<1>7. CASE Restart \/ Tick
    BY <1>7 DEF Tick
<1> QED
    BY <1>1, <1>2, <1>3, <1>4, <1>5, <1>6, <1>7 DEF StoreNext

LEMMA RegistryMemory ==
    Registry(Memory) = <<users, accessKeys, upstreamKeys, sessions>>
    BY DEF Registry, Memory

\* The store implements the abstract write-behind of its registry: what is on
\* disk is the registry of one moment, and no change escapes the mark.
THEOREM StoreWrittenBehind == StoreSpec => RegistryWrittenBehind
<1>1. Init => WB!WBInit
    BY RegistryMemory DEF Init, WB!WBInit, Registry
<1>2. [StoreNext]_storeVars => [WB!WBNext]_WB!wbVars
    <2> SUFFICES ASSUME [StoreNext]_storeVars
                 PROVE  [WB!WBNext]_WB!wbVars
        OBVIOUS
    <2>0. Registry(Memory)' = <<users', accessKeys', upstreamKeys', sessions'>>
        BY DEF Registry, Memory
    <2> USE RegistryMemory, <2>0
            DEF WB!WBNext, WB!wbVars, WB!Change, WB!Save, WB!Reload
    <2>1. CASE markDirtyLocked
        BY <2>1 DEF markDirtyLocked
    <2>2. CASE UNCHANGED <<users, accessKeys, upstreamKeys, sessions, dirty, disk>>
        BY <2>2
    <2>3. ASSUME NEW ok \in BOOLEAN, Flush(ok), UNCHANGED <<registry, ledger>>
          PROVE  [WB!WBNext]_WB!wbVars
        <3>1. UNCHANGED <<users, accessKeys, upstreamKeys, sessions>>
            BY <2>3 DEF registry
        <3>2. CASE UNCHANGED <<dirty, disk>>
            BY <3>1, <3>2
        <3>3. CASE dirty /\ dirty' = FALSE /\ disk' = Memory
            BY <3>1, <3>3
        <3> QED
            BY <2>3, <3>2, <3>3 DEF Flush
    <2>4. CASE Restart
        BY <2>4 DEF Restart, Load, Registry
    <2>5. CASE UNCHANGED storeVars \/ Tick
        BY <2>5 DEF storeVars, registry, saving, Tick
    <2> QED
        BY <2>1, <2>2, <2>3, <2>4, <2>5, MarkedStep
<1> QED
    BY <1>1, <1>2, PTL DEF StoreSpec, RegistryWrittenBehind, WB!WBSpec

-----------------------------------------------------------------------------
(* What a restart loses of the counters.                                    *)

\* The windows begin one after the other.
LEMMA FloorMonotone ==
    ASSUME NEW n \in Nat \ {0}, NEW a \in Nat, NEW b \in Nat, a <= b
    PROVE  a - (a % n) <= b - (b % n)
<1> DEFINE p == a \div n
           q == b \div n
<1>1. p \in Int /\ q \in Int
    OBVIOUS
<1>2. a = n * p + (a % n) /\ b = n * q + (b % n)
    OBVIOUS
<1>3. a % n \in 0 .. n - 1 /\ b % n \in 0 .. n - 1
    OBVIOUS
<1> HIDE DEF p, q
<1>4. p <= q
    <2> SUFFICES ASSUME p >= q + 1 PROVE FALSE
        BY <1>1
    <2>1. n * p >= n * (q + 1)
        BY <1>1
    <2>2. n * (q + 1) = n * q + n
        BY <1>1
    <2>3. n * p \in Int /\ n * q \in Int
        BY <1>1
    <2> QED
        BY <2>1, <2>2, <2>3, <1>2, <1>3
<1>5. n * p <= n * q
    BY <1>1, <1>4
<1>6. n * p \in Int /\ n * q \in Int
    BY <1>1
<1> QED
    BY <1>2, <1>3, <1>5, <1>6

LEMMA StartMonotone ==
    ASSUME NEW s \in Time, NEW t \in Time, s <= t
    PROVE  hourStart(s) <= hourStart(t) /\ dayStart(s) <= dayStart(t)
<1>1. HourLen \in Nat \ {0} /\ HourLen * HoursPerDay \in Nat \ {0}
    BY ClockAssumption
<1>2. hourStart(s) <= hourStart(t)
    BY <1>1, FloorMonotone DEF hourStart, Time
<1>3. dayStart(s) <= dayStart(t)
    BY <1>1, FloorMonotone DEF dayStart, Time
<1> QED
    BY <1>2, <1>3

\* The windows in memory and in the file have begun.
BegunUser(c, t) == c.hour.start <= hourStart(t) /\ c.day.start <= dayStart(t)

BegunInv == Begun(Memory, clock) /\ Begun(disk, clock)

LEMMA BegunMemory ==
    ASSUME NEW t
    PROVE  Begun(Memory, t) <=>
              /\ \A u \in UserIDs : BegunUser(counters[u], t)
              /\ \A k \in KeyIDs : keyHours[k].start <= hourStart(t)
    BY DEF Begun, BegunUser, Memory

LEMMA BegunLater ==
    ASSUME NEW s \in State, NEW t \in Time, NEW t2 \in Time, t <= t2, Begun(s, t)
    PROVE  Begun(s, t2)
<1>1. hourStart(t) <= hourStart(t2) /\ dayStart(t) <= dayStart(t2)
    BY StartMonotone
<1>2. /\ hourStart(t) \in Time /\ hourStart(t2) \in Time
      /\ dayStart(t) \in Time /\ dayStart(t2) \in Time
    BY StartType
<1>3. \A u \in UserIDs : s.counters[u] \in UserCounter
    BY DEF State
<1>4. \A k \in KeyIDs : s.keyHours[k] \in WindowCounter
    BY DEF State
<1> QED
    BY <1>1, <1>2, <1>3, <1>4
       DEF Begun, UserCounter, WindowCounter, Time, ZeroTime

LEMMA UserRolled ==
    ASSUME TypedClock, TypedLedger, NEW u \in UserIDs, NEW t \in 0 .. clock, NEW d \in Int
    PROVE  /\ BegunUser(countersAt(u, t), clock)
           /\ BegunUser(AdjustedUser(countersAt(u, t), d), clock)
           /\ BegunUser(AddedUser(countersAt(u, t), d), clock)
<1>1. t \in Time /\ clock \in Time /\ t <= clock
    BY DEF TypedClock, Time
<1>2. hourStart(t) <= hourStart(clock) /\ dayStart(t) <= dayStart(clock)
    BY <1>1, StartMonotone
<1>3. countersAt(u, t) \in UserCounter
    BY <1>1, CountersAtType
<1>4. /\ countersAt(u, t).hour.start = hourStart(t)
      /\ countersAt(u, t).day.start = dayStart(t)
    BY WindowStarts DEF countersAt
<1>5. /\ AdjustedUser(countersAt(u, t), d).hour.start = hourStart(t)
      /\ AdjustedUser(countersAt(u, t), d).day.start = dayStart(t)
      /\ AddedUser(countersAt(u, t), d).hour.start = hourStart(t)
      /\ AddedUser(countersAt(u, t), d).day.start = dayStart(t)
    BY <1>3, <1>4, WindowStarts DEF AdjustedUser, AddedUser, UserCounter
<1> QED
    BY <1>2, <1>4, <1>5 DEF BegunUser

LEMMA KeyRolled ==
    ASSUME TypedClock, TypedLedger, NEW k \in KeyIDs, NEW d \in Int
    PROVE  /\ keyHourAt(k).start <= hourStart(clock)
           /\ Adjusted(keyHourAt(k), d).start <= hourStart(clock)
           /\ Added(keyHourAt(k), d).start <= hourStart(clock)
<1>1. keyHourAt(k) \in WindowCounter /\ keyHourAt(k).start = hourStart(clock)
    BY KeyHourAtType, WindowStarts DEF keyHourAt
<1>2. hourStart(clock) \in Time
    BY StartType DEF TypedClock
<1> QED
    BY <1>1, <1>2, WindowStarts DEF Time

LEMMA ZeroBegun ==
    ASSUME NEW t \in Time
    PROVE  BegunUser(ZeroUser, t) /\ ZeroCounter.start <= hourStart(t)
    BY StartType DEF BegunUser, ZeroUser, ZeroCounter, ZeroTime, Time

\* A window is left alone, or put where it has begun.
LedgerMoved ==
    /\ \A u \in UserIDs : \/ counters'[u] = counters[u]
                          \/ BegunUser(counters'[u], clock)
    /\ \A k \in KeyIDs : \/ keyHours'[k] = keyHours[k]
                         \/ keyHours'[k].start <= hourStart(clock)

LEMMA LedgerStep ==
    ASSUME Typed, StoreNext
    PROVE  Restart \/ LedgerMoved
<1> USE DEF Typed
<1>0. clock \in Time
    BY DEF TypedClock
<1>1. CASE UNCHANGED <<counters, keyHours>>
    BY <1>1 DEF LedgerMoved
<1>2. ASSUME NEW u \in UserIDs, NEW c,
             counters' = [counters EXCEPT ![u] = c], BegunUser(c, clock),
             UNCHANGED keyHours
      PROVE  LedgerMoved
    BY <1>2 DEF LedgerMoved, TypedLedger
<1>3. ASSUME NEW k \in KeyIDs, NEW c,
             keyHours' = [keyHours EXCEPT ![k] = c],
             c.start <= hourStart(clock), UNCHANGED counters
      PROVE  LedgerMoved
    BY <1>3 DEF LedgerMoved, TypedLedger
<1>4. CASE ManageUsers
    <2>1. PICK u \in UserIDs : \/ UNCHANGED <<counters, keyHours>>
                              \/ DeleteUser(u)
        BY <1>4 DEF ManageUsers, CreateUser, UpdateUserQuota,
                    UpdateUserPassword, SetUserEnabled, SetUser, AddAccessKey,
                    RemoveAccessKey, ledger
    <2>2. CASE DeleteUser(u)
        <3>1. \A v \in UserIDs : \/ counters'[v] = counters[v]
                                 \/ counters'[v] = ZeroUser
            BY <2>2 DEF DeleteUser, TypedLedger
        <3>2. \A k \in KeyIDs : \/ keyHours'[k] = keyHours[k]
                                \/ keyHours'[k] = ZeroCounter
            BY <2>2 DEF DeleteUser
        <3> QED
            BY <1>0, <3>1, <3>2, ZeroBegun DEF LedgerMoved
    <2> QED
        BY <1>1, <2>1, <2>2
<1>5. CASE ManageKeys
    <2>1. PICK k \in KeyIDs : \/ UNCHANGED <<counters, keyHours>>
                             \/ DeleteUpstreamKey(k)
        BY <1>5 DEF ManageKeys, CreateUpstreamKey, ReplaceUpstreamKey, ledger
    <2> QED
        BY <1>0, <1>1, <1>3, <2>1, ZeroBegun DEF DeleteUpstreamKey
<1>6. CASE ManageSessions
    BY <1>1, <1>6 DEF ManageSessions, PutSession, DeleteSession, ledger
<1>7. CASE AccountUser
    <2>0. clock \in 0 .. clock /\ 0 \in Int
        BY <1>0 DEF Time
    <2>1. PICK u \in UserIDs :
             \/ UserCounters(u)
             \/ \E est \in Amounts :
                   \/ \E h, d \in Limits, now \in 0 .. clock :
                         ReserveUser(u, est, h, d, IsWorkingHour(now), now)
                   \/ ReleaseUser(u, est)
                   \/ \E actual \in Amounts : SettleUser(u, est, actual)
        BY <1>7 DEF AccountUser
    <2>2. CASE UserCounters(u)
        BY <1>2, <2>0, <2>2, UserRolled DEF UserCounters
    <2>3. ASSUME NEW d \in Int, NEW t \in 0 .. clock,
                 counters' = [counters EXCEPT ![u] =
                                 AdjustedUser(countersAt(u, t), d)],
                 UNCHANGED keyHours
          PROVE  LedgerMoved
        BY <1>2, <2>3, UserRolled
    <2>4. ASSUME NEW est \in Amounts, NEW h \in Limits, NEW d \in Limits,
                 NEW now \in 0 .. clock,
                 ReserveUser(u, est, h, d, IsWorkingHour(now), now)
          PROVE  LedgerMoved
        <3>1. est \in Int
            BY StoreAssumption
        <3>2. /\ counters' = [counters EXCEPT ![u] =
                                 AddedUser(countersAt(u, now), est)]
              /\ UNCHANGED keyHours
            BY <2>4 DEF ReserveUser
        <3> QED
            BY <1>2, <3>1, <3>2, UserRolled
    <2>5. ASSUME NEW est \in Amounts, ReleaseUser(u, est)
          PROVE  LedgerMoved
        <3>1. -est \in Int
            BY StoreAssumption
        <3>2. /\ counters' = [counters EXCEPT ![u] =
                                 AdjustedUser(countersAt(u, clock), -est)]
              /\ UNCHANGED keyHours
            BY <2>5 DEF ReleaseUser, AdjustUser
        <3> QED
            BY <2>0, <2>3, <3>1, <3>2
    <2>6. ASSUME NEW est \in Amounts, NEW actual \in Amounts,
                 SettleUser(u, est, actual)
          PROVE  LedgerMoved
        <3>1. actual - est \in Int
            BY StoreAssumption
        <3>2. /\ counters' = [counters EXCEPT ![u] =
                                 AdjustedUser(countersAt(u, clock), actual - est)]
              /\ UNCHANGED keyHours
            BY <2>6 DEF SettleUser, AdjustUser
        <3> QED
            BY <2>0, <2>3, <3>1, <3>2
    <2> QED
        BY <2>1, <2>2, <2>4, <2>5, <2>6
<1>8. CASE AccountKey
    <2>1. PICK k \in KeyIDs :
             \/ KeyHourCounter(k)
             \/ \E est \in Amounts :
                   \/ \E l \in Limits, w \in BOOLEAN :
                         ReserveKey(k, est, l, w) \/ ReserveKeyRefused(k, est, l, w)
                   \/ ReleaseKey(k, est)
                   \/ \E actual \in Amounts : SettleKey(k, est, actual)
        BY <1>8 DEF AccountKey
    <2>2. ASSUME KeyHourCounter(k) PROVE LedgerMoved
        <3>1. keyHourAt(k).start <= hourStart(clock)
            <4>1. 0 \in Int
                OBVIOUS
            <4> QED
                BY <4>1, KeyRolled
        <3>2. /\ keyHours' = [keyHours EXCEPT ![k] = keyHourAt(k)]
              /\ UNCHANGED counters
            BY <2>2 DEF KeyHourCounter
        <3> QED
            BY <1>3, <3>1, <3>2
    <2>3. ASSUME NEW d \in Int,
                 keyHours' = [keyHours EXCEPT ![k] = Adjusted(keyHourAt(k), d)],
                 UNCHANGED counters
          PROVE  LedgerMoved
        <3>1. Adjusted(keyHourAt(k), d).start <= hourStart(clock)
            BY KeyRolled
        <3> QED
            BY <1>3, <2>3, <3>1
    <2>4. ASSUME NEW est \in Amounts, NEW l \in Limits, NEW w \in BOOLEAN,
                 ReserveKey(k, est, l, w)
          PROVE  LedgerMoved
        <3>1. est \in Int
            BY StoreAssumption
        <3>2. /\ keyHours' = [keyHours EXCEPT ![k] = Added(keyHourAt(k), est)]
              /\ UNCHANGED counters
            BY <2>4 DEF ReserveKey
        <3>3. Added(keyHourAt(k), est).start <= hourStart(clock)
            BY <3>1, KeyRolled
        <3> QED
            BY <1>3, <3>2, <3>3
    <2>5. ASSUME NEW est \in Amounts, NEW l \in Limits, NEW w \in BOOLEAN,
                 ReserveKeyRefused(k, est, l, w)
          PROVE  LedgerMoved
        <3>1. CASE KeyHourCounter(k)
            BY <2>2, <3>1
        <3>2. CASE UNCHANGED storeVars
            BY <3>2 DEF LedgerMoved, storeVars, ledger
        <3> QED
            BY <2>5, <3>1, <3>2 DEF ReserveKeyRefused
    <2>6. ASSUME NEW est \in Amounts, ReleaseKey(k, est)
          PROVE  LedgerMoved
        <3>1. -est \in Int
            BY StoreAssumption
        <3>2. /\ keyHours' = [keyHours EXCEPT ![k] = Adjusted(keyHourAt(k), -est)]
              /\ UNCHANGED counters
            BY <2>6 DEF ReleaseKey, AdjustKey
        <3> QED
            BY <2>3, <3>1, <3>2
    <2>7. ASSUME NEW est \in Amounts, NEW actual \in Amounts,
                 SettleKey(k, est, actual)
          PROVE  LedgerMoved
        <3>1. actual - est \in Int
            BY StoreAssumption
        <3>2. /\ keyHours' = [keyHours EXCEPT ![k] =
                                 Adjusted(keyHourAt(k), actual - est)]
              /\ UNCHANGED counters
            BY <2>7 DEF SettleKey, AdjustKey
        <3> QED
            BY <2>3, <3>1, <3>2
    <2> QED
        BY <2>1, <2>2, <2>4, <2>5, <2>6, <2>7
<1>9. CASE Background \/ Tick
    BY <1>1, <1>9 DEF Background, TimerFires, TimerFlush, FinalFlush,
                      StopSignal, Tick, ledger
<1> QED
    BY <1>4, <1>5, <1>6, <1>7, <1>8, <1>9 DEF StoreNext

LEMMA BegunInit == Init => BegunInv
<1> SUFFICES ASSUME Init PROVE BegunInv
    OBVIOUS
<1>1. ASSUME NEW d \in State, Begun(d, 0), disk = d PROVE BegunInv
    <2>1. clock = 0
        BY DEF Init
    <2>2. Memory.counters = d.counters /\ Memory.keyHours = d.keyHours
        BY <1>1 DEF Init, Memory
    <2> QED
        BY <1>1, <2>1, <2>2 DEF BegunInv, Begun
<1>2. Begun(freshState, 0)
    <2>1. BegunUser(ZeroUser, 0) /\ ZeroCounter.start <= hourStart(0)
        BY ZeroBegun DEF Time
    <2> QED
        BY <2>1 DEF Begun, BegunUser, freshState
<1>3. \A d \in InitialDisks \cup {freshState} : d \in State /\ Begun(d, 0)
    BY <1>2, freshStateType, DiskAssumption
<1> QED
    BY <1>1, <1>3 DEF Init

LEMMA MemoryState == Typed => Memory \in State
    BY DEF Typed, TypedRegistry, TypedLedger, Memory, State

LEMMA BegunStep == Typed /\ BegunInv /\ [StoreNext]_storeVars => BegunInv'
<1> SUFFICES ASSUME Typed, BegunInv, [StoreNext]_storeVars PROVE BegunInv'
    OBVIOUS
<1>1. clock \in Time /\ clock' \in Time /\ Memory \in State /\ disk \in State
    BY StoreTypeStep, MemoryState DEF Typed, TypedClock, TypedSaving
<1>2. CASE UNCHANGED storeVars
    BY <1>2 DEF storeVars, registry, ledger, saving, BegunInv, Begun, Memory
<1>3. CASE StoreNext
    <2>1. CASE clock' = clock
        <3>1. Begun(disk, clock)'
            BY <1>3, <2>1, DiskStep DEF BegunInv, Begun
        <3>2. CASE Restart
            <4>1. Memory'.counters = disk.counters /\ Memory'.keyHours = disk.keyHours
                BY <3>2 DEF Restart, Load, Memory
            <4> QED
                BY <2>1, <3>1, <4>1 DEF BegunInv, Begun
        <3>3. CASE LedgerMoved
            <4>1. Memory'.counters = counters' /\ Memory'.keyHours = keyHours'
                BY DEF Memory
            <4>2. \A u \in UserIDs : BegunUser(counters'[u], clock)
                BY <3>3, BegunMemory DEF LedgerMoved, BegunInv
            <4>3. \A k \in KeyIDs : keyHours'[k].start <= hourStart(clock)
                BY <3>3, BegunMemory DEF LedgerMoved, BegunInv
            <4>4. Begun(Memory, clock)'
                BY <2>1, <4>1, <4>2, <4>3 DEF Begun, BegunUser
            <4> QED
                BY <3>1, <4>4 DEF BegunInv
        <3> QED
            BY <1>3, <3>2, <3>3, LedgerStep
    <2>2. CASE UNCHANGED <<registry, ledger, disk>> /\ clock <= clock'
        <3>1. Memory' = Memory
            BY <2>2 DEF Memory, registry, ledger
        <3>2. Begun(Memory, clock') /\ Begun(disk, clock')
            BY <1>1, <2>2, BegunLater DEF BegunInv
        <3> QED
            BY <2>2, <3>1, <3>2 DEF BegunInv, Begun
    <2>3. \/ clock' = clock
          \/ UNCHANGED <<registry, ledger, disk>> /\ clock <= clock'
        <3>1. CASE Tick
            BY <1>1, <3>1 DEF Tick, Time, saving
        <3>2. CASE Restart
            BY <3>2 DEF Restart
        <3> QED
            BY <1>3, <3>1, <3>2, MarkedStep
    <2> QED
        BY <2>1, <2>2, <2>3
<1> QED
    BY <1>2, <1>3

\* A counter in memory is that of the file, or was rolled over by a read
\* after the file's window had ended.
Behind(c, d) == c = d \/ (c.value = 0 /\ d.start < c.start)

Mirrored ==
    ~dirty =>
        /\ users = disk.users /\ accessKeys = disk.accessKeys
        /\ upstreamKeys = disk.upstreamKeys /\ sessions = disk.sessions
        /\ \A k \in KeyIDs : Behind(keyHours[k], disk.keyHours[k])
        /\ \A u \in UserIDs : /\ Behind(counters[u].hour, disk.counters[u].hour)
                             /\ Behind(counters[u].day, disk.counters[u].day)

\* A memory that was just read from the file, or written to it.
LEMMA Mirror ==
    /\ disk.users = users /\ disk.accessKeys = accessKeys
    /\ disk.upstreamKeys = upstreamKeys /\ disk.sessions = sessions
    /\ disk.counters = counters /\ disk.keyHours = keyHours
    => Mirrored
<1>1. \A c : Behind(c, c)
    BY DEF Behind
<1> QED
    BY <1>1 DEF Mirrored

LEMMA BehindRolled ==
    ASSUME NEW c \in WindowCounter, NEW d \in WindowCounter, NEW s \in Time,
           c.start <= s, Behind(c, d)
    PROVE  Behind(ensureWindow(c, s), d)
    BY DEF Behind, ensureWindow, WindowCounter, Time, ZeroTime

LEMMA BehindReads ==
    ASSUME NEW c \in WindowCounter, NEW d \in WindowCounter, NEW s \in Time,
           c.start <= s, Behind(c, d)
    PROVE  ensureWindow(c, s) = ensureWindow(d, s)
<1>1. CASE c = d
    BY <1>1
<1>2. CASE c.value = 0 /\ d.start < c.start
    <2>1. ensureWindow(d, s) = [start |-> s, value |-> 0]
        BY <1>2 DEF ensureWindow, WindowCounter, Time, ZeroTime
    <2>2. CASE c.start = s
        <3>1. c = [start |-> s, value |-> 0]
            BY <1>2, <2>2 DEF WindowCounter
        <3> QED
            BY <2>1, <2>2, <3>1 DEF ensureWindow
    <2>3. CASE c.start # s
        BY <2>1, <2>3 DEF ensureWindow
    <2> QED
        BY <2>2, <2>3
<1> QED
    BY <1>1, <1>2 DEF Behind

LEMMA MirroredStep ==
    Typed /\ BegunInv /\ Mirrored /\ [StoreNext]_storeVars => Mirrored'
<1> SUFFICES ASSUME Typed, BegunInv, Mirrored, [StoreNext]_storeVars
             PROVE  Mirrored'
    OBVIOUS
<1>1. CASE dirty'
    BY <1>1 DEF Mirrored
<1>2. CASE UNCHANGED <<users, accessKeys, upstreamKeys, sessions, counters,
                       keyHours, dirty, disk>>
    BY <1>2 DEF Mirrored
<1>3. ASSUME UNCHANGED <<users, accessKeys, upstreamKeys, sessions, dirty, disk>>,
             UNCHANGED keyHours, NEW u \in UserIDs, ~dirty,
             counters' = [counters EXCEPT ![u] = countersAt(u, clock)]
      PROVE  Mirrored'
    <2>1. /\ counters[u] \in UserCounter /\ disk.counters[u] \in UserCounter
          /\ clock \in Time
        BY DEF Typed, TypedLedger, TypedSaving, TypedClock, State
    <2>2. BegunUser(counters[u], clock)
        BY BegunMemory DEF BegunInv
    <2>3. hourStart(clock) \in Time /\ dayStart(clock) \in Time
        BY <2>1, StartType
    <2>4. Behind(countersAt(u, clock).hour, disk.counters[u].hour)
        BY <1>3, <2>1, <2>2, <2>3, BehindRolled
           DEF countersAt, BegunUser, UserCounter, Mirrored
    <2>5. Behind(countersAt(u, clock).day, disk.counters[u].day)
        BY <1>3, <2>1, <2>2, <2>3, BehindRolled
           DEF countersAt, BegunUser, UserCounter, Mirrored
    <2>6. \A v \in UserIDs :
              counters'[v] = IF v = u THEN countersAt(u, clock) ELSE counters[v]
        BY <1>3 DEF Typed, TypedLedger
    <2> HIDE DEF Behind
    <2> QED
        BY <1>3, <2>4, <2>5, <2>6 DEF Mirrored
<1>4. ASSUME UNCHANGED <<users, accessKeys, upstreamKeys, sessions, dirty, disk>>,
             UNCHANGED counters, NEW k \in KeyIDs, ~dirty,
             keyHours' = [keyHours EXCEPT ![k] = keyHourAt(k)]
      PROVE  Mirrored'
    <2>1. /\ keyHours[k] \in WindowCounter /\ disk.keyHours[k] \in WindowCounter
          /\ clock \in Time
        BY DEF Typed, TypedLedger, TypedSaving, TypedClock, State
    <2>2. keyHours[k].start <= hourStart(clock) /\ hourStart(clock) \in Time
        BY <2>1, BegunMemory, StartType DEF BegunInv
    <2>3. Behind(keyHourAt(k), disk.keyHours[k])
        BY <1>4, <2>1, <2>2, BehindRolled DEF keyHourAt, Mirrored
    <2>4. \A j \in KeyIDs :
              keyHours'[j] = IF j = k THEN keyHourAt(k) ELSE keyHours[j]
        BY <1>4 DEF Typed, TypedLedger
    <2> QED
        BY <1>4, <2>3, <2>4 DEF Mirrored
<1>5. ASSUME NEW ok \in BOOLEAN, Flush(ok), UNCHANGED <<clock, registry, ledger>>
      PROVE  Mirrored'
    <2>1. UNCHANGED <<users, accessKeys, upstreamKeys, sessions, counters, keyHours>>
        BY <1>5 DEF registry, ledger
    <2>2. CASE UNCHANGED <<dirty, disk>>
        BY <1>2, <2>1, <2>2
    <2>3. CASE disk' = Memory
        <3>1. /\ disk'.users = users' /\ disk'.accessKeys = accessKeys'
              /\ disk'.upstreamKeys = upstreamKeys' /\ disk'.sessions = sessions'
              /\ disk'.counters = counters' /\ disk'.keyHours = keyHours'
            BY <2>1, <2>3 DEF Memory
        <3>2. \A c : Behind(c, c)
            BY DEF Behind
        <3> QED
            BY <3>1, <3>2 DEF Mirrored
    <2> QED
        BY <1>5, <2>2, <2>3 DEF Flush
<1>6. CASE Restart
    <2>1. \A c : Behind(c, c)
        BY DEF Behind
    <2> QED
        BY <1>6, <2>1 DEF Restart, Load, Mirrored
<1>7. CASE Tick \/ UNCHANGED storeVars
    BY <1>2, <1>7 DEF Tick, storeVars, registry, ledger, saving
<1>8. CASE markDirtyLocked
    BY <1>1, <1>8 DEF markDirtyLocked
<1>9. ASSUME UNCHANGED <<clock, users, accessKeys, upstreamKeys, sessions,
                         dirty, disk>>,
             \/ UNCHANGED <<counters, keyHours>>
             \/ \E u \in UserIDs : UserCounters(u)
             \/ \E k \in KeyIDs : KeyHourCounter(k)
      PROVE  Mirrored'
    <2>1. CASE dirty
        BY <1>1, <1>9, <2>1
    <2>2. CASE UNCHANGED <<counters, keyHours>>
        BY <1>2, <1>9, <2>2
    <2>3. ASSUME NEW u \in UserIDs, UserCounters(u), ~dirty PROVE Mirrored'
        BY <1>3, <1>9, <2>3 DEF UserCounters
    <2>4. ASSUME NEW k \in KeyIDs, KeyHourCounter(k), ~dirty PROVE Mirrored'
        BY <1>4, <1>9, <2>4 DEF KeyHourCounter
    <2> QED
        BY <1>9, <2>1, <2>2, <2>3, <2>4
<1> QED
    BY <1>5, <1>6, <1>7, <1>8, <1>9, MarkedStep

\* While nothing is marked unsaved, a restart at any moment gives back the
\* registry and every counter of the current hour and day.
THEOREM StoreCleanMeansSaved == StoreSpec => []CleanMeansSaved
<1>1. Init => Typed /\ BegunInv /\ Mirrored
    <2>1. Init => Mirrored
        BY Mirror DEF Init
    <2> QED
        BY <2>1, InitType, BegunInit
<1>2. Typed /\ BegunInv /\ Mirrored /\ [StoreNext]_storeVars
        => (Typed /\ BegunInv /\ Mirrored)'
    BY StoreTypeStep, BegunStep, MirroredStep
<1>3. Typed /\ BegunInv /\ Mirrored => CleanMeansSaved
    <2> SUFFICES ASSUME Typed, BegunInv, Mirrored, ~dirty
                 PROVE  CleanMeansSaved
        BY DEF CleanMeansSaved
    <2>1. /\ hourStart(clock) \in Time /\ dayStart(clock) \in Time
          /\ disk \in State
        BY StartType DEF Typed, TypedClock, TypedSaving
    <2>2. ASSUME NEW k \in KeyIDs
          PROVE  keyHourAt(k) = ensureWindow(disk.keyHours[k], hourStart(clock))
        <3>1. /\ keyHours[k] \in WindowCounter
              /\ disk.keyHours[k] \in WindowCounter
            BY <2>1 DEF Typed, TypedLedger, State
        <3>2. keyHours[k].start <= hourStart(clock)
            BY BegunMemory DEF BegunInv
        <3>3. Behind(keyHours[k], disk.keyHours[k])
            BY DEF Mirrored
        <3> QED
            BY <2>1, <3>1, <3>2, <3>3, BehindReads DEF keyHourAt
    <2>3. ASSUME NEW u \in UserIDs
          PROVE  countersAt(u, clock) =
                   [hour |-> ensureWindow(disk.counters[u].hour, hourStart(clock)),
                    day  |-> ensureWindow(disk.counters[u].day, dayStart(clock))]
        <3>1. /\ counters[u].hour \in WindowCounter
              /\ counters[u].day \in WindowCounter
              /\ disk.counters[u].hour \in WindowCounter
              /\ disk.counters[u].day \in WindowCounter
            BY <2>1 DEF Typed, TypedLedger, State, UserCounter
        <3>2. BegunUser(counters[u], clock)
            BY BegunMemory DEF BegunInv
        <3>3. /\ Behind(counters[u].hour, disk.counters[u].hour)
              /\ Behind(counters[u].day, disk.counters[u].day)
            BY DEF Mirrored
        <3>4. ensureWindow(counters[u].hour, hourStart(clock)) =
                ensureWindow(disk.counters[u].hour, hourStart(clock))
            BY <2>1, <3>1, <3>2, <3>3, BehindReads DEF BegunUser
        <3>5. ensureWindow(counters[u].day, dayStart(clock)) =
                ensureWindow(disk.counters[u].day, dayStart(clock))
            BY <2>1, <3>1, <3>2, <3>3, BehindReads DEF BegunUser
        <3> QED
            BY <3>4, <3>5 DEF countersAt
    <2> QED
        BY <2>2, <2>3 DEF CleanMeansSaved, Mirrored
<1> QED
    BY <1>1, <1>2, <1>3, PTL DEF StoreSpec

LEMMA StoreBegun == StoreSpec => []BegunInv
<1>1. Init => Typed /\ BegunInv
    BY InitType, BegunInit
<1>2. Typed /\ BegunInv /\ [StoreNext]_storeVars => (Typed /\ BegunInv)'
    BY StoreTypeStep, BegunStep
<1> QED
    BY <1>1, <1>2, PTL DEF StoreSpec

-----------------------------------------------------------------------------
(* Counters below zero.                                                     *)

\* What a call leaves in a counter does not sink below zero, unless it is the
\* reservation of a negative number.
LEMMA KeepsAfloat ==
    ASSUME NEW c \in WindowCounter, NEW s \in Time, NEW d \in Int
    PROVE  LET w == ensureWindow(c, s) IN
           /\ ~Sinks(c, c) /\ ~Sinks(c, ZeroCounter) /\ ~Sinks(c, w)
           /\ ~Sinks(c, Adjusted(w, d))
           /\ d >= 0 => ~Sinks(c, Added(w, d))
<1> DEFINE w == ensureWindow(c, s)
<1>1. w \in WindowCounter /\ c.value \in Int /\ w.value \in {0, c.value}
    BY EnsureWindowType DEF WindowCounter, ensureWindow
<1>2. /\ Adjusted(w, d).value = max64(0, w.value + d)
      /\ Added(w, d).value = w.value + d
    BY <1>1 DEF WindowCounter, Adjusted, Added
<1> HIDE DEF w
<1>3. ~Sinks(c, c) /\ ~Sinks(c, ZeroCounter) /\ ~Sinks(c, w)
    BY <1>1 DEF Sinks, ZeroCounter
<1>4. ~Sinks(c, Adjusted(w, d))
    BY <1>1, <1>2 DEF Sinks, max64
<1>5. d >= 0 => ~Sinks(c, Added(w, d))
    BY <1>1, <1>2 DEF Sinks
<1> QED
    BY <1>3, <1>4, <1>5 DEF w

\* The action of OverdrawnOnlyReserved.
Overdrafts ==
    /\ \A u \in UserIDs :
          UserSinks(u) => UserOverdraws(u) \/ counters'[u] = disk.counters[u]
    /\ \A k \in KeyIDs :
          Sinks(keyHours[k], keyHours'[k]) =>
              KeyOverdraws(k) \/ keyHours'[k] = disk.keyHours[k]

\* The counters of a user after each kind of call.
LEMMA UserAfloat ==
    ASSUME Typed, NEW u \in UserIDs, NEW t \in Time, NEW d \in Int
    PROVE  /\ counters'[u] = counters[u] => ~UserSinks(u)
           /\ counters'[u] = ZeroUser => ~UserSinks(u)
           /\ counters'[u] = countersAt(u, t) => ~UserSinks(u)
           /\ counters'[u] = AdjustedUser(countersAt(u, t), d) => ~UserSinks(u)
           /\ d >= 0 /\ counters'[u] = AddedUser(countersAt(u, t), d)
                  => ~UserSinks(u)
<1>1. counters[u].hour \in WindowCounter /\ counters[u].day \in WindowCounter
    BY DEF Typed, TypedLedger, UserCounter
<1>2. hourStart(t) \in Time /\ dayStart(t) \in Time
    BY StartType
<1> QED
    BY <1>1, <1>2, KeepsAfloat
       DEF UserSinks, ZeroUser, countersAt, AdjustedUser, AddedUser

LEMMA OverdraftStep ==
    ASSUME Typed, StoreNext
    PROVE  Overdrafts
<1>0. /\ clock \in Time /\ hourStart(clock) \in Time /\ 0 \in Int
      /\ keyHours \in [KeyIDs -> WindowCounter]
      /\ counters \in [UserIDs -> UserCounter]
    BY StartType DEF Typed, TypedClock, TypedLedger
<1>1. ASSUME counters' = counters, NEW u \in UserIDs PROVE ~UserSinks(u)
    BY <1>0, <1>1, UserAfloat
<1>2. ASSUME keyHours' = keyHours, NEW k \in KeyIDs
      PROVE  ~Sinks(keyHours[k], keyHours'[k])
    BY <1>0, <1>2, KeepsAfloat
<1>3. ASSUME counters' = counters, keyHours' = keyHours PROVE Overdrafts
    BY <1>1, <1>2, <1>3 DEF Overdrafts
<1>4. ASSUME NEW u \in UserIDs, NEW c, counters' = [counters EXCEPT ![u] = c],
             keyHours' = keyHours,
             UserSinks(u) => UserOverdraws(u)
      PROVE  Overdrafts
    <2>1. \A v \in UserIDs \ {u} : counters'[v] = counters[v]
        BY <1>0, <1>4
    <2>2. \A v \in UserIDs \ {u} : ~UserSinks(v)
        BY <1>0, <2>1, UserAfloat
    <2> QED
        BY <1>2, <1>4, <2>2 DEF Overdrafts
<1>5. ASSUME NEW k \in KeyIDs, NEW c, keyHours' = [keyHours EXCEPT ![k] = c],
             counters' = counters,
             Sinks(keyHours[k], c) => KeyOverdraws(k)
      PROVE  Overdrafts
    <2>1. keyHours'[k] = c /\ \A j \in KeyIDs \ {k} : keyHours'[j] = keyHours[j]
        BY <1>0, <1>5
    <2>2. \A j \in KeyIDs \ {k} : ~Sinks(keyHours[j], keyHours'[j])
        BY <1>0, <2>1, KeepsAfloat
    <2> QED
        BY <1>1, <1>5, <2>1, <2>2 DEF Overdrafts
<1>6. CASE ManageUsers
    <2>1. PICK u \in UserIDs : \/ UNCHANGED <<counters, keyHours>>
                              \/ DeleteUser(u)
        BY <1>6 DEF ManageUsers, CreateUser, UpdateUserQuota,
                    UpdateUserPassword, SetUserEnabled, SetUser, AddAccessKey,
                    RemoveAccessKey, ledger
    <2>2. CASE DeleteUser(u)
        <3>1. \A v \in UserIDs : \/ counters'[v] = counters[v]
                                 \/ counters'[v] = ZeroUser
            BY <1>0, <2>2 DEF DeleteUser
        <3>2. \A k \in KeyIDs : \/ keyHours'[k] = keyHours[k]
                                \/ keyHours'[k] = ZeroCounter
            BY <2>2 DEF DeleteUser
        <3>3. \A v \in UserIDs : ~UserSinks(v)
            BY <1>0, <3>1, UserAfloat
        <3>4. \A k \in KeyIDs : ~Sinks(keyHours[k], keyHours'[k])
            BY <1>0, <3>2, KeepsAfloat
        <3> QED
            BY <3>3, <3>4 DEF Overdrafts
    <2> QED
        BY <1>3, <2>1, <2>2
<1>7. CASE ManageKeys
    <2>1. PICK k \in KeyIDs : \/ UNCHANGED <<counters, keyHours>>
                             \/ DeleteUpstreamKey(k)
        BY <1>7 DEF ManageKeys, CreateUpstreamKey, ReplaceUpstreamKey, ledger
    <2>2. CASE DeleteUpstreamKey(k)
        <3>1. ~Sinks(keyHours[k], ZeroCounter)
            BY <1>0, KeepsAfloat
        <3> QED
            BY <1>5, <2>2, <3>1 DEF DeleteUpstreamKey
    <2> QED
        BY <1>3, <2>1, <2>2
<1>8. CASE AccountUser
    <2>1. PICK u \in UserIDs :
             \/ UserCounters(u)
             \/ \E est \in Amounts :
                   \/ \E h, d \in Limits, now \in 0 .. clock :
                         ReserveUser(u, est, h, d, IsWorkingHour(now), now)
                   \/ ReleaseUser(u, est)
                   \/ \E actual \in Amounts : SettleUser(u, est, actual)
        BY <1>8 DEF AccountUser
    <2>2. CASE UserCounters(u)
        <3>1. counters'[u] = countersAt(u, clock)
            BY <1>0, <2>2 DEF UserCounters
        <3>2. ~UserSinks(u)
            BY <1>0, <3>1, UserAfloat
        <3> QED
            BY <1>4, <2>2, <3>2 DEF UserCounters
    <2>3. ASSUME NEW d \in Int, AdjustUser(u, d)
          PROVE  Overdrafts
        <3>1. counters'[u] = AdjustedUser(countersAt(u, clock), d)
            BY <1>0, <2>3 DEF AdjustUser
        <3>2. ~UserSinks(u)
            BY <1>0, <3>1, UserAfloat
        <3> QED
            BY <1>4, <2>3, <3>2 DEF AdjustUser
    <2>4. ASSUME NEW est \in Amounts, NEW h \in Limits, NEW d \in Limits,
                 NEW now \in 0 .. clock,
                 ReserveUser(u, est, h, d, IsWorkingHour(now), now)
          PROVE  Overdrafts
        <3>1. est \in Int /\ now \in Time
            BY <1>0, StoreAssumption DEF Time
        <3>2. /\ counters' = [counters EXCEPT ![u] =
                                 AddedUser(countersAt(u, now), est)]
              /\ keyHours' = keyHours
              /\ users[u] # Nil /\ users[u].enabled
            BY <2>4 DEF ReserveUser, ReserveUserErr
        <3>3. counters'[u] = AddedUser(countersAt(u, now), est)
            BY <1>0, <3>2
        <3>4. CASE est >= 0
            <4>1. ~UserSinks(u)
                BY <3>1, <3>3, <3>4, UserAfloat
            <4> QED
                BY <1>4, <3>2, <4>1
        <3>5. CASE est < 0
            <4>1. UserOverdraws(u)
                BY <3>2, <3>3, <3>5 DEF UserOverdraws
            <4> QED
                BY <1>4, <3>2, <4>1
        <3> QED
            BY <3>1, <3>4, <3>5
    <2>5. ASSUME NEW est \in Amounts, ReleaseUser(u, est)
          PROVE  Overdrafts
        <3>1. -est \in Int
            BY StoreAssumption
        <3> QED
            BY <2>3, <2>5, <3>1 DEF ReleaseUser
    <2>6. ASSUME NEW est \in Amounts, NEW actual \in Amounts,
                 SettleUser(u, est, actual)
          PROVE  Overdrafts
        <3>1. actual - est \in Int
            BY StoreAssumption
        <3> QED
            BY <2>3, <2>6, <3>1 DEF SettleUser
    <2> QED
        BY <2>1, <2>2, <2>4, <2>5, <2>6
<1>9. CASE AccountKey
    <2>1. PICK k \in KeyIDs :
             \/ KeyHourCounter(k)
             \/ \E est \in Amounts :
                   \/ \E l \in Limits, w \in BOOLEAN :
                         ReserveKey(k, est, l, w) \/ ReserveKeyRefused(k, est, l, w)
                   \/ ReleaseKey(k, est)
                   \/ \E actual \in Amounts : SettleKey(k, est, actual)
        BY <1>9 DEF AccountKey
    <2>2. ASSUME KeyHourCounter(k) PROVE Overdrafts
        <3>1. ~Sinks(keyHours[k], keyHourAt(k))
            BY <1>0, KeepsAfloat DEF keyHourAt
        <3> QED
            BY <1>5, <2>2, <3>1 DEF KeyHourCounter
    <2>3. ASSUME NEW d \in Int, AdjustKey(k, d) PROVE Overdrafts
        <3>1. ~Sinks(keyHours[k], Adjusted(keyHourAt(k), d))
            BY <1>0, KeepsAfloat DEF keyHourAt
        <3> QED
            BY <1>5, <2>3, <3>1 DEF AdjustKey
    <2>4. ASSUME NEW est \in Amounts, NEW l \in Limits, NEW w \in BOOLEAN,
                 ReserveKey(k, est, l, w)
          PROVE  Overdrafts
        <3>1. est \in Int
            BY StoreAssumption
        <3>2. /\ keyHours' = [keyHours EXCEPT ![k] = Added(keyHourAt(k), est)]
              /\ inFlight' = [inFlight EXCEPT ![k] = @ + 1]
              /\ counters' = counters
              /\ upstreamKeys[k] # Nil /\ upstreamKeys[k].enabled
            BY <2>4 DEF ReserveKey, ReserveKeyErr
        <3>3. CASE est >= 0
            <4>1. ~Sinks(keyHours[k], Added(keyHourAt(k), est))
                BY <1>0, <3>1, <3>3, KeepsAfloat DEF keyHourAt
            <4> QED
                BY <1>5, <3>2, <4>1
        <3>4. CASE est < 0
            <4>1. inFlight'[k] = inFlight[k] + 1
                BY <3>2 DEF Typed, TypedLedger
            <4>2. keyHours'[k] = Added(keyHourAt(k), est)
                BY <1>0, <3>2
            <4>3. KeyOverdraws(k)
                BY <3>2, <3>4, <4>1, <4>2 DEF KeyOverdraws
            <4> QED
                BY <1>5, <3>2, <4>3
        <3> QED
            BY <3>1, <3>3, <3>4
    <2>5. ASSUME NEW est \in Amounts, NEW l \in Limits, NEW w \in BOOLEAN,
                 ReserveKeyRefused(k, est, l, w)
          PROVE  Overdrafts
        <3>1. CASE UNCHANGED storeVars
            BY <1>3, <3>1 DEF storeVars, ledger
        <3> QED
            BY <2>2, <2>5, <3>1 DEF ReserveKeyRefused
    <2>6. ASSUME NEW est \in Amounts, ReleaseKey(k, est)
          PROVE  Overdrafts
        <3>1. -est \in Int
            BY StoreAssumption
        <3> QED
            BY <2>3, <2>6, <3>1 DEF ReleaseKey
    <2>7. ASSUME NEW est \in Amounts, NEW actual \in Amounts,
                 SettleKey(k, est, actual)
          PROVE  Overdrafts
        <3>1. actual - est \in Int
            BY StoreAssumption
        <3> QED
            BY <2>3, <2>7, <3>1 DEF SettleKey
    <2> QED
        BY <2>1, <2>2, <2>4, <2>5, <2>6, <2>7
<1>10. CASE Restart
    BY <1>10 DEF Restart, Load, Overdrafts
<1>11. CASE ManageSessions \/ Background \/ Tick
    BY <1>3, <1>11 DEF ManageSessions, PutSession, DeleteSession, Background,
                       TimerFires, TimerFlush, FinalFlush, StopSignal, Tick, ledger
<1> QED
    BY <1>6, <1>7, <1>8, <1>9, <1>10, <1>11 DEF StoreNext

\* Whatever estimates the callers bring (a product of max_tokens and n that
\* wraps is negative), only ReserveUser and ReserveKey of a negative one take
\* a counter below zero.
THEOREM StoreOverdrawnOnlyReserved == StoreSpec => OverdrawnOnlyReserved
<1>1. Init => Typed
    BY InitType
<1>2. Typed /\ [StoreNext]_storeVars => Typed'
    BY StoreTypeStep
<1>3. Typed /\ [StoreNext]_storeVars => [Overdrafts]_storeVars
    BY OverdraftStep
<1> QED
    BY <1>1, <1>2, <1>3, PTL DEF StoreSpec, OverdrawnOnlyReserved, Overdrafts
=============================================================================
