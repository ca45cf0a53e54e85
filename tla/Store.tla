------------------------------- MODULE Store -------------------------------
(* internal/store/state.go: the relay's whole mutable state behind one      *)
(* mutex, and its debounced persistence to state.json.                      *)
(*                                                                          *)
(* Every method of Store holds the mutex for its whole body, so each is one *)
(* atomic action.  A method that fails without changing anything is a step  *)
(* that is not enabled.  Map entries that are absent are Nil (registry) or  *)
(* the zero counter (ledger).                                               *)
EXTENDS QuotaRules, Router, FiniteSets

CONSTANTS UserIDs, KeyIDs, AccessKeyIDs, Tokens,  \* what randomID can return
          Usernames, FoldCase,    \* FoldCase[n]: the strings.EqualFold class
          Hashes,                 \* password hashes
          Secrets,                \* API keys of upstreams, encrypted
          ModelNames, Blank,      \* Blank is the empty string
          Limits,                 \* values a limit field can take
          Amounts,                \* token counts charged by a request; an
                                  \* estimate that wrapped is negative
          SessionTTL,
          InitialDisks,           \* contents of state.json at the first start
          Nil

ASSUME StoreAssumption ==
    /\ KeyIDs \subseteq Nat
    /\ FoldCase \in [Usernames -> Usernames]
    /\ Normal \in [ModelNames -> ModelNames]
    /\ Blank \in ModelNames
    /\ Limits \subseteq Int
    /\ {0, DefaultHourlyTokens, DefaultDailyTokens} \subseteq Limits
    /\ Amounts \subseteq Int
    /\ SessionTTL \in Nat

User        == [name : Usernames, hash : Hashes, enabled : BOOLEAN,
                hourly : Limits, daily : Limits]
UpstreamKey == [user : UserIDs, enc : Secrets, models : SUBSET ModelNames,
                enabled : BOOLEAN, limit : Limits]
Session     == [role : {"admin", "user"}, user : UserIDs \cup {Nil},
                expiry : Nat]

ASSUME NilAssumption ==
    Nil \notin UserIDs /\ Nil \notin User /\ Nil \notin UpstreamKey

\* The part of State that is persisted: every map but InFlight.
State == [users        : [UserIDs -> User \cup {Nil}],
          accessKeys   : [AccessKeyIDs -> UserIDs \cup {Nil}],
          upstreamKeys : [KeyIDs -> UpstreamKey \cup {Nil}],
          sessions     : [Tokens -> Session \cup {Nil}],
          counters     : [UserIDs -> UserCounter],
          keyHours     : [KeyIDs -> WindowCounter]]

freshState == [users        |-> [u \in UserIDs |-> Nil],
               accessKeys   |-> [a \in AccessKeyIDs |-> Nil],
               upstreamKeys |-> [k \in KeyIDs |-> Nil],
               sessions     |-> [t \in Tokens |-> Nil],
               counters     |-> [u \in UserIDs |-> ZeroUser],
               keyHours     |-> [k \in KeyIDs |-> ZeroCounter]]

\* A record or an owner that is present belongs to a user that is present.
Attached(s) ==
    /\ \A a \in AccessKeyIDs :
          s.accessKeys[a] # Nil => s.users[s.accessKeys[a]] # Nil
    /\ \A k \in KeyIDs :
          s.upstreamKeys[k] # Nil => s.users[s.upstreamKeys[k].user] # Nil

Distinct(us) ==
    \A u, v \in UserIDs :
        u # v /\ us[u] # Nil /\ us[v] # Nil
            => FoldCase[us[u].name] # FoldCase[us[v].name]

\* No window of s begins after t.
Begun(s, t) ==
    /\ \A u \in UserIDs : /\ s.counters[u].hour.start <= hourStart(t)
                          /\ s.counters[u].day.start <= dayStart(t)
    /\ \A k \in KeyIDs : s.keyHours[k].start <= hourStart(t)

\* A file written by an earlier run of the program, before the clock's zero.
ASSUME DiskAssumption ==
    \A d \in InitialDisks :
        d \in State /\ Attached(d) /\ Distinct(d.users) /\ Begun(d, 0)

VARIABLES
    clock,          \* time.Now()
    proc,           \* main: "up", "stopping" or "flushed"
    users, accessKeys, upstreamKeys, sessions,     \* State: the registry
    counters, keyHours, inFlight,                  \* State: the ledger
    issued,         \* IDs, keys and tokens ever drawn: random, never reused
    dirty, timer,   \* Store.dirty; Store.timer: "nil", "armed" or "fired"
    callbacks,      \* timer goroutines that wait for the mutex to Flush
    disk,           \* state.json
    flushErr        \* history: the last Flush failed, and no change followed

registry  == <<users, accessKeys, upstreamKeys, sessions, issued>>
ledger    == <<counters, keyHours, inFlight>>
saving    == <<dirty, timer, callbacks, disk, flushErr>>
storeVars == <<clock, proc, registry, ledger, saving>>

Memory == [users |-> users, accessKeys |-> accessKeys,
           upstreamKeys |-> upstreamKeys, sessions |-> sessions,
           counters |-> counters, keyHours |-> keyHours]

Present(f) == {x \in DOMAIN f : f[x] # Nil}

-----------------------------------------------------------------------------
(* Persistence.                                                             *)

\* Fault: the flag is set, and no timer is created when there is none.
markDirtyNoTimer ==
    /\ dirty' = TRUE
    /\ timer' = IF timer = "nil" THEN "nil" ELSE "armed"
    /\ flushErr' = FALSE
    /\ UNCHANGED <<callbacks, disk>>

markDirtyLocked ==
    /\ dirty' = TRUE
    /\ timer' = "armed"      \* Reset, or a new AfterFunc
    /\ flushErr' = FALSE
    /\ UNCHANGED <<callbacks, disk>>

\* Fault: dirty is cleared before the file is written.
FlushClearsFirst(ok) ==
    /\ timer' = "nil"
    /\ dirty' = FALSE
    /\ disk' = IF dirty /\ ok THEN Memory ELSE disk
    /\ flushErr' = (dirty /\ ~ok)

\* The body of Flush.  The file is replaced by a rename, so it holds the old
\* or the new state; an error of MkdirAll, WriteFile or Rename leaves dirty.
Flush(ok) ==
    /\ timer' = "nil"
    /\ \/ ~dirty /\ UNCHANGED <<dirty, disk, flushErr>>
       \/ dirty /\ ok /\ dirty' = FALSE /\ disk' = Memory /\ flushErr' = FALSE
       \/ dirty /\ ~ok /\ flushErr' = TRUE /\ UNCHANGED <<dirty, disk>>

\* The runtime starts a goroutine that calls Flush.
TimerFires ==
    /\ timer = "armed"
    /\ timer' = "fired"
    /\ callbacks' = callbacks + 1
    /\ UNCHANGED <<clock, proc, registry, ledger, dirty, disk, flushErr>>

TimerFlush(ok) ==
    /\ callbacks > 0
    /\ callbacks' = callbacks - 1
    /\ Flush(ok)
    /\ UNCHANGED <<clock, proc, registry, ledger>>

\* main after a signal: Shutdown waits for the handlers, at most ten seconds,
\* while they go on; then Flush, and the process ends.
StopSignal ==
    /\ proc = "up"
    /\ proc' = "stopping"
    /\ UNCHANGED <<clock, registry, ledger, saving>>

FinalFlush(ok) ==
    /\ proc = "stopping"
    /\ proc' = "flushed"
    /\ Flush(ok)
    /\ UNCHANGED <<clock, registry, ledger, callbacks>>

\* load and New: what a new process reads from state.json.
Load ==
    /\ users' = disk.users /\ accessKeys' = disk.accessKeys
    /\ upstreamKeys' = disk.upstreamKeys /\ sessions' = disk.sessions
    /\ counters' = disk.counters /\ keyHours' = disk.keyHours
    /\ inFlight' = [k \in KeyIDs |-> 0]
    /\ dirty' = FALSE /\ timer' = "nil" /\ callbacks' = 0
    /\ flushErr' = FALSE
    /\ proc' = "up"

\* The process ends, after FinalFlush or by a crash, and is started again.
Restart ==
    /\ Load
    /\ UNCHANGED <<clock, issued, disk>>

Tick == clock' = clock + 1 /\ UNCHANGED <<proc, registry, ledger, saving>>

-----------------------------------------------------------------------------
(* The registry: users, access keys, upstream keys and sessions.            *)

Draw(id) == id \notin issued /\ issued' = issued \cup {id}

\* Fault: names are compared letter by letter.
CreateUserExact(id, name, hash, enabled) ==
    /\ \A v \in Present(users) : users[v].name # name
    /\ Draw(id)
    /\ users' = [users EXCEPT ![id] =
                    [name |-> name, hash |-> hash, enabled |-> enabled,
                     hourly |-> 0, daily |-> 0]]
    /\ markDirtyLocked
    /\ UNCHANGED <<clock, proc, accessKeys, upstreamKeys, sessions, ledger>>

CreateUser(id, name, hash, enabled) ==
    /\ \A v \in Present(users) : FoldCase[users[v].name] # FoldCase[name]
    /\ Draw(id)
    /\ users' = [users EXCEPT ![id] =
                    [name |-> name, hash |-> hash, enabled |-> enabled,
                     hourly |-> 0, daily |-> 0]]
    /\ markDirtyLocked
    /\ UNCHANGED <<clock, proc, accessKeys, upstreamKeys, sessions, ledger>>

\* UpdateUserQuota, UpdateUserPassword and SetUserEnabled assign fields of a
\* user that exists.
SetUser(id, u) ==
    /\ users[id] # Nil
    /\ users' = [users EXCEPT ![id] = u]
    /\ markDirtyLocked
    /\ UNCHANGED <<clock, proc, accessKeys, upstreamKeys, sessions, issued,
                   ledger>>

UpdateUserQuota(id, hourly, daily) ==
    SetUser(id, [users[id] EXCEPT !.hourly = hourly, !.daily = daily])

UpdateUserPassword(id, hash) == SetUser(id, [users[id] EXCEPT !.hash = hash])

SetUserEnabled(id, on) == SetUser(id, [users[id] EXCEPT !.enabled = on])

\* Fault: only the keys that are in use.
OwnKeysEnabled(id) ==
    {k \in Present(upstreamKeys) :
        upstreamKeys[k].user = id /\ upstreamKeys[k].enabled}

OwnKeys(id) == {k \in Present(upstreamKeys) : upstreamKeys[k].user = id}

\* Fault: what the user had used is kept.
DeleteUserKeepsCounters(id) ==
    /\ users[id] # Nil
    /\ users' = [users EXCEPT ![id] = Nil]
    /\ accessKeys' = [a \in AccessKeyIDs |->
                        IF accessKeys[a] = id THEN Nil ELSE accessKeys[a]]
    /\ upstreamKeys' = [k \in KeyIDs |->
                        IF k \in OwnKeys(id) THEN Nil ELSE upstreamKeys[k]]
    /\ markDirtyLocked
    /\ UNCHANGED <<clock, proc, sessions, issued, ledger>>

\* Sessions of the user are left alone.
DeleteUser(id) ==
    /\ users[id] # Nil
    /\ users' = [users EXCEPT ![id] = Nil]
    /\ accessKeys' = [a \in AccessKeyIDs |->
                        IF accessKeys[a] = id THEN Nil ELSE accessKeys[a]]
    /\ upstreamKeys' = [k \in KeyIDs |->
                        IF k \in OwnKeys(id) THEN Nil ELSE upstreamKeys[k]]
    /\ keyHours' = [k \in KeyIDs |->
                        IF k \in OwnKeys(id) THEN ZeroCounter ELSE keyHours[k]]
    /\ inFlight' = [k \in KeyIDs |->
                        IF k \in OwnKeys(id) THEN 0 ELSE inFlight[k]]
    /\ counters' = [counters EXCEPT ![id] = ZeroUser]
    /\ markDirtyLocked
    /\ UNCHANGED <<clock, proc, sessions, issued>>

AddAccessKey(user, a) ==
    /\ users[user] # Nil
    /\ Draw(a)
    /\ accessKeys' = [accessKeys EXCEPT ![a] = user]
    /\ markDirtyLocked
    /\ UNCHANGED <<clock, proc, users, upstreamKeys, sessions, ledger>>

RemoveAccessKey(user, a) ==
    /\ accessKeys[a] = user
    /\ accessKeys' = [accessKeys EXCEPT ![a] = Nil]
    /\ markDirtyLocked
    /\ UNCHANGED <<clock, proc, users, upstreamKeys, sessions, issued, ledger>>

normalizeModels(ms) == {Normal[m] : m \in ms} \ {Blank}

\* Fault: the owner is not looked up.
CreateUpstreamKeyUnowned(user, k, enc, models, enabled, limit) ==
    /\ Draw(k)
    /\ upstreamKeys' = [upstreamKeys EXCEPT ![k] =
                [user |-> user, enc |-> enc,
                 models |-> normalizeModels(models),
                 enabled |-> enabled, limit |-> limit]]
    /\ markDirtyLocked
    /\ UNCHANGED <<clock, proc, users, accessKeys, sessions, ledger>>

CreateUpstreamKey(user, k, enc, models, enabled, limit) ==
    /\ users[user] # Nil
    /\ Draw(k)
    /\ upstreamKeys' = [upstreamKeys EXCEPT ![k] =
                [user |-> user, enc |-> enc,
                 models |-> normalizeModels(models),
                 enabled |-> enabled, limit |-> limit]]
    /\ markDirtyLocked
    /\ UNCHANGED <<clock, proc, users, accessKeys, sessions, ledger>>

\* The owner is that of the stored key, whatever the caller holds.
ReplaceUpstreamKey(k, enc, models, enabled, limit) ==
    /\ upstreamKeys[k] # Nil
    /\ upstreamKeys' = [upstreamKeys EXCEPT ![k] =
                [user |-> upstreamKeys[k].user, enc |-> enc,
                 models |-> normalizeModels(models),
                 enabled |-> enabled, limit |-> limit]]
    /\ markDirtyLocked
    /\ UNCHANGED <<clock, proc, users, accessKeys, sessions, issued, ledger>>

DeleteUpstreamKey(k) ==
    /\ upstreamKeys[k] # Nil
    /\ upstreamKeys' = [upstreamKeys EXCEPT ![k] = Nil]
    /\ keyHours' = [keyHours EXCEPT ![k] = ZeroCounter]
    /\ inFlight' = [inFlight EXCEPT ![k] = 0]
    /\ markDirtyLocked
    /\ UNCHANGED <<clock, proc, users, accessKeys, sessions, issued, counters>>

\* auth.newSession draws a token and calls PutSession.
PutSession(t, role, user) ==
    /\ Draw(t)
    /\ sessions' = [sessions EXCEPT ![t] =
                [role |-> role, user |-> user, expiry |-> clock + SessionTTL]]
    /\ markDirtyLocked
    /\ UNCHANGED <<clock, proc, users, accessKeys, upstreamKeys, ledger>>

\* auth.Check deletes a session it finds expired.
DeleteSession(t) ==
    /\ sessions[t] # Nil
    /\ sessions' = [sessions EXCEPT ![t] = Nil]
    /\ markDirtyLocked
    /\ UNCHANGED <<clock, proc, users, accessKeys, upstreamKeys, issued, ledger>>

-----------------------------------------------------------------------------
(* The ledger: token counters per user and per upstream key, and the number *)
(* of requests in flight per key.                                           *)

countersAt(user, now) ==
    [hour |-> ensureWindow(counters[user].hour, hourStart(now)),
     day  |-> ensureWindow(counters[user].day, dayStart(now))]

AddedUser(c, d)    == [hour |-> Added(c.hour, d), day |-> Added(c.day, d)]
AdjustedUser(c, d) == [hour |-> Adjusted(c.hour, d), day |-> Adjusted(c.day, d)]

keyHourAt(k) == ensureWindow(keyHours[k], hourStart(clock))

\* Reading a counter rolls its window over and stores it, without a save.
UserCounters(user) ==
    /\ counters' = [counters EXCEPT ![user] = countersAt(user, clock)]
    /\ UNCHANGED <<clock, proc, registry, keyHours, inFlight, saving>>

KeyHourCounter(k) ==
    /\ keyHours' = [keyHours EXCEPT ![k] = keyHourAt(k)]
    /\ UNCHANGED <<clock, proc, registry, counters, inFlight, saving>>

\* What ReserveUser answers to a request that read the clock at now.
ReserveUserErr(user, est, hourly, daily, working, now) ==
    IF users[user] = Nil \/ ~users[user].enabled THEN "ErrUserNotFound"
    ELSE IF daily > 0 /\ countersAt(user, now).day.value + est > daily
         THEN "ErrDailyQuota"
    ELSE IF working /\ hourly > 0
              /\ countersAt(user, now).hour.value + est > hourly
         THEN "ErrHourlyQuota"
    ELSE "nil"

\* A reservation that is granted; a refusal stores nothing.
ReserveUser(user, est, hourly, daily, working, now) ==
    /\ ReserveUserErr(user, est, hourly, daily, working, now) = "nil"
    /\ counters' = [counters EXCEPT ![user] =
                        AddedUser(countersAt(user, now), est)]
    /\ markDirtyLocked
    /\ UNCHANGED <<clock, proc, registry, keyHours, inFlight>>

\* Fault: the change is not marked for a save.
AdjustUserUnsaved(user, delta) ==
    /\ counters' = [counters EXCEPT ![user] =
                        AdjustedUser(countersAt(user, clock), delta)]
    /\ UNCHANGED <<clock, proc, registry, keyHours, inFlight, saving>>

\* ReleaseUser(est) and SettleUser(est, actual) add -est and actual - est to
\* the windows of the moment they run, whether or not the user still exists.
AdjustUser(user, delta) ==
    /\ counters' = [counters EXCEPT ![user] =
                        AdjustedUser(countersAt(user, clock), delta)]
    /\ markDirtyLocked
    /\ UNCHANGED <<clock, proc, registry, keyHours, inFlight>>

ReleaseUser(user, est) == AdjustUser(user, -est)

\* Fault: the estimate stays on top of the actual number.
SettleUserOnTop(user, est, actual) == AdjustUser(user, actual)

SettleUser(user, est, actual) == AdjustUser(user, actual - est)

ReserveKeyErr(k, est, limit, working) ==
    IF upstreamKeys[k] = Nil \/ ~upstreamKeys[k].enabled
    THEN "ErrUpstreamKeyMissing"
    ELSE IF working /\ limit > 0 /\ keyHourAt(k).value + est > limit
         THEN "ErrHourlyQuota"
    ELSE "nil"

ReserveKey(k, est, limit, working) ==
    /\ ReserveKeyErr(k, est, limit, working) = "nil"
    /\ keyHours' = [keyHours EXCEPT ![k] = Added(keyHourAt(k), est)]
    /\ inFlight' = [inFlight EXCEPT ![k] = @ + 1]
    /\ markDirtyLocked
    /\ UNCHANGED <<clock, proc, registry, counters>>

\* A refusal by the hourly limit has rolled the key's window over.
ReserveKeyRefused(k, est, limit, working) ==
    \/ /\ ReserveKeyErr(k, est, limit, working) = "ErrUpstreamKeyMissing"
       /\ UNCHANGED storeVars
    \/ /\ ReserveKeyErr(k, est, limit, working) = "ErrHourlyQuota"
       /\ KeyHourCounter(k)

\* Fault: the number in flight goes down without being looked at.
AdjustKeyBelowZero(k, delta) ==
    /\ keyHours' = [keyHours EXCEPT ![k] = Adjusted(keyHourAt(k), delta)]
    /\ inFlight' = [inFlight EXCEPT ![k] = @ - 1]
    /\ markDirtyLocked
    /\ UNCHANGED <<clock, proc, registry, counters>>

\* ReleaseKey(est) and SettleKey(est, actual), likewise.
AdjustKey(k, delta) ==
    /\ keyHours' = [keyHours EXCEPT ![k] = Adjusted(keyHourAt(k), delta)]
    /\ inFlight' = [inFlight EXCEPT ![k] = max64(0, @ - 1)]
    /\ markDirtyLocked
    /\ UNCHANGED <<clock, proc, registry, counters>>

\* Fault: the key is no longer in flight, but keeps the tokens.
ReleaseKeyOnly(k, est) == AdjustKey(k, 0)

ReleaseKey(k, est) == AdjustKey(k, -est)

SettleKey(k, est, actual) == AdjustKey(k, actual - est)

\* SelectKey: nothing is stored, and the mutex is let go before ReserveKey.
SelectKey(user, m, working, exclude) ==
    Select([k \in Present(upstreamKeys) |-> upstreamKeys[k]],
           user, m, working, DefaultHourlyTokens, exclude,
           [k \in KeyIDs |-> windowValue(keyHours[k], clock)], inFlight)

-----------------------------------------------------------------------------
(* The store with any caller.                                               *)

Init ==
    /\ clock = 0
    /\ proc = "up"
    /\ disk \in InitialDisks \cup {freshState}
    /\ users = disk.users /\ accessKeys = disk.accessKeys
    /\ upstreamKeys = disk.upstreamKeys /\ sessions = disk.sessions
    /\ counters = disk.counters /\ keyHours = disk.keyHours
    /\ inFlight = [k \in KeyIDs |-> 0]
    /\ issued = Present(users) \cup Present(accessKeys)
                   \cup Present(upstreamKeys) \cup Present(sessions)
    /\ dirty = FALSE /\ timer = "nil" /\ callbacks = 0 /\ flushErr = FALSE

ManageUsers ==
    \E u \in UserIDs :
        \/ \E n \in Usernames, h \in Hashes, on \in BOOLEAN :
               CreateUser(u, n, h, on)
        \/ \E h, d \in Limits : UpdateUserQuota(u, h, d)
        \/ \E h \in Hashes : UpdateUserPassword(u, h)
        \/ \E on \in BOOLEAN : SetUserEnabled(u, on)
        \/ DeleteUser(u)
        \/ \E a \in AccessKeyIDs : AddAccessKey(u, a) \/ RemoveAccessKey(u, a)

ManageKeys ==
    \E k \in KeyIDs :
        \/ \E c \in Secrets, ms \in SUBSET ModelNames, on \in BOOLEAN,
              l \in Limits :
              \/ \E u \in UserIDs : CreateUpstreamKey(u, k, c, ms, on, l)
              \/ ReplaceUpstreamKey(k, c, ms, on, l)
        \/ DeleteUpstreamKey(k)

ManageSessions ==
    \E t \in Tokens :
        \/ PutSession(t, "admin", Nil)
        \/ \E u \in UserIDs : PutSession(t, "user", u)
        \/ DeleteSession(t)

AccountUser ==
    \E u \in UserIDs :
        \/ UserCounters(u)
        \/ \E est \in Amounts :
              \/ \E h, d \in Limits, now \in 0 .. clock :
                    ReserveUser(u, est, h, d, IsWorkingHour(now), now)
              \/ ReleaseUser(u, est)
              \/ \E actual \in Amounts : SettleUser(u, est, actual)

AccountKey ==
    \E k \in KeyIDs :
        \/ KeyHourCounter(k)
        \/ \E est \in Amounts :
              \/ \E l \in Limits, w \in BOOLEAN :
                    ReserveKey(k, est, l, w) \/ ReserveKeyRefused(k, est, l, w)
              \/ ReleaseKey(k, est)
              \/ \E actual \in Amounts : SettleKey(k, est, actual)

Background == \/ TimerFires
              \/ \E ok \in BOOLEAN : TimerFlush(ok) \/ FinalFlush(ok)
              \/ StopSignal

StoreNext == \/ ManageUsers \/ ManageKeys \/ ManageSessions
             \/ AccountUser \/ AccountKey
             \/ Background \/ Restart \/ Tick

StoreSpec == Init /\ [][StoreNext]_storeVars

-----------------------------------------------------------------------------
(* Properties.                                                              *)

StoreTypeOK ==
    /\ clock \in Time
    /\ proc \in {"up", "stopping", "flushed"}
    /\ Memory \in State
    /\ disk \in State
    /\ inFlight \in [KeyIDs -> Nat]
    /\ issued \subseteq UserIDs \cup AccessKeyIDs \cup KeyIDs \cup Tokens
    /\ dirty \in BOOLEAN
    /\ timer \in {"nil", "armed", "fired"}
    /\ callbacks \in Nat
    /\ flushErr \in BOOLEAN

\* Deleting a user takes its access keys and upstream keys with it, and no
\* interleaving with the creation of a key, no save and no restart leaves a
\* key whose owner does not exist, in memory or in state.json.
NoDangling == Attached(Memory) /\ Attached(disk)

\* No two users have names that differ only by case (CreateUser compares
\* with EqualFold under the lock), in memory or in state.json.
UniqueUsernames == Distinct(users) /\ Distinct(disk.users)

\* A change that is not yet in state.json has a save on its way, unless the
\* last attempt failed: a timer that is armed, or a callback that waits for
\* the mutex.  Reset and Stop race the timer's goroutine without losing it.
SaveScheduled ==
    dirty /\ ~flushErr => timer = "armed" \/ callbacks > 0

\* When nothing is marked unsaved, a restart loses nothing: state.json holds
\* the registry, and gives every counter the value it has in memory for the
\* current hour and day.  (Windows rolled over by a read are not saved.)
CleanMeansSaved ==
    ~dirty =>
        /\ users = disk.users /\ accessKeys = disk.accessKeys
        /\ upstreamKeys = disk.upstreamKeys /\ sessions = disk.sessions
        /\ \A k \in KeyIDs :
              keyHourAt(k) = ensureWindow(disk.keyHours[k], hourStart(clock))
        /\ \A u \in UserIDs :
              countersAt(u, clock) =
                [hour |-> ensureWindow(disk.counters[u].hour, hourStart(clock)),
                 day  |-> ensureWindow(disk.counters[u].day, dayStart(clock))]

\* The counter is below zero after the step, and lower than before it.
Sinks(c, d) == d.value < 0 /\ d.value < c.value

UserSinks(u) == \/ Sinks(counters[u].hour, counters'[u].hour)
                \/ Sinks(counters[u].day, counters'[u].day)

\* A negative estimate is reserved for a live user, or for a live key.
UserOverdraws(u) ==
    /\ users[u] # Nil /\ users[u].enabled
    /\ \E est \in Amounts, now \in 0 .. clock :
          est < 0 /\ counters'[u] = AddedUser(countersAt(u, now), est)

KeyOverdraws(k) ==
    /\ upstreamKeys[k] # Nil /\ upstreamKeys[k].enabled
    /\ inFlight'[k] = inFlight[k] + 1
    /\ \E est \in Amounts :
          est < 0 /\ keyHours'[k] = Added(keyHourAt(k), est)

\* A counter sinks below zero only by a reservation that was granted to a live
\* user or key for a negative estimate, or back with a file that was saved
\* after one.  No refund, settlement, rollover or deletion takes it there, in
\* whatever order they come and in whatever hour they run: one that comes
\* after the end of its hour, or twice, takes at most what there is.
OverdrawnOnlyReserved ==
    [][/\ \A u \in UserIDs :
             UserSinks(u) => UserOverdraws(u) \/ counters'[u] = disk.counters[u]
       /\ \A k \in KeyIDs :
             Sinks(keyHours[k], keyHours'[k]) =>
                 KeyOverdraws(k) \/ keyHours'[k] = disk.keyHours[k]]_storeVars

\* No change stays unsaved for ever, unless a save fails: a change made at any
\* time is followed by a moment when nothing is left to save, although every
\* further change puts the save off.  A restart is such a moment too; it drops
\* what was not saved, and RegistryWrittenBehind says that nothing else does.
EventuallySaved == dirty ~> ~dirty \/ flushErr
=============================================================================
