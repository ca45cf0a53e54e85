# CodeAgentRouter in TLA+

CodeAgentRouter is a relay for OpenAI-style APIs. Clients authenticate with
access keys; the relay picks one of the upstream keys that its users brought
along, forwards the request, and keeps account of the tokens that users and
keys spend per hour and per day. Everything it remembers is one JSON file and
one log file per day. This directory holds its specification: TLA+ modules
translated from the Go sources, the configurations with which TLC checks them,
and theorems that TLAPS proves for every value of the constants.

File names are relative to `src/`; "design document" is
`docs/superpowers/specs/2026-08-04-relay-station-design.md`.

## 1. Inventory

### 1.1 Components, state and operations

| Component | Code | State | Operations |
|---|---|---|---|
| Store | `internal/store/state.go`, `internal/model` | users, access keys, upstream keys, sessions; hour and day counters of users, hour counters of keys; requests in flight per key (not saved); `dirty`, the debounce timer; `state.json` | create, update and delete records; `ReserveUser/ReleaseUser/SettleUser`, `ReserveKey/ReleaseKey/SettleKey`, `SelectKey`; `markDirtyLocked`, `Flush`, `load` |
| Quota engine | `internal/quota`, `internal/config` | none | `IsWorkingHour`, limits; `CheckAndReserve`, `Release`, `Settle`: two store calls each |
| Router | `internal/router` | none | `Select`: own keys first, then the pool, least used first |
| Relay | `internal/api/relay.go` | per request: attempt, excluded keys, last response, the body (with or without `stream_options`) | `proxy`: reserve, at most two upstream calls, refund or settle; `finish`: the log entry |
| List of models | `internal/api/relay.go` (`models`), `internal/upstream` | a list and its date, behind a mutex | `GET /v1/models`: one call per enabled upstream key, once a minute |
| Upstream client | `internal/upstream` | none | `Do`: JSON with a timeout of five minutes, streams without one; `Models`: ten seconds, of which the caller gives eight |
| Rate limiter | `internal/ratelimit` | hits of each user | `Allow` |
| Log and reports | `internal/report` | open day file, day files, cached month reports | `Write`, `Close`, `Invalidate`, `Monthly` |
| Authentication | `internal/auth` | sessions (in the store) | logins, `Check`, `newSession` |
| Console API | `internal/api/admin.go`, `user.go` | none | handlers that read, merge and write store records |
| Token estimates | `internal/tokenize` | none | estimates of prompt and completion |
| Process | `cmd/relay/main.go` | | start, signal, shutdown of at most ten seconds, final flush |
| Configuration | `internal/config` | none | `Load`, `apply`, `validate`; parsing of YAML |
| Server, web console | `internal/api/server.go`, `web/` | none of the relay's own | authentication by route, recovery from panics, JSON; a browser client |

### 1.2 Interaction and what is hard in it

Each request is a goroutine. Goroutines share the store, the limiter and the
log, each behind a mutex that is held for one call. A request therefore is a
sequence of short critical sections, and what it learned in one of them is old
in the next:

* the limits of a user are read in one call and enforced in another; a key is
  chosen by `SelectKey` and reserved by `ReserveKey`, and in between other
  requests use it up, or the administrator disables or deletes it;
* the clock is read once, before the limiter's mutex (`relay.go:171`), and
  again inside the store by every release and settlement, so that a request
  that lives over the end of an hour books in several windows;
* the loop over keys has seven ways out (success, transport error, client
  gone, 400 to an injected field, other error, no key, attempts used up) and
  each has to give back exactly what was reserved;
* the timer of the debounced save races changes, flushes and the shutdown; the
  process may end at any point and starts again from the file;
* entries reach the log in another order than they were stamped, over the end
  of a day and of a month, while reports are read from files that grow;
* the logger calls the report service with its own mutex held;
* a handler of the console reads a record in one call and writes the merged
  copy in another, while other handlers change, disable or delete it, and a
  login checks a user in one call and stores the session in another;
* the list of models is built with a mutex held over slow calls of upstreams,
  while everyone else waits and the administration goes on.

### 1.3 What makes each component correct

* Store: no record without its owner; names unique up to case; no refund,
  settlement or rollover takes a counter below zero; a change is never left
  unsaved without a save on its way; a clean store equals its file; every change
  is saved at last.
* Router and relay: a retry goes elsewhere; at most two upstream calls; every
  reservation is given back or settled exactly once; the counters hold what
  was charged; a user or key is not oversold; the number of requests in flight
  is exact; every request is answered; the answer the documents promise.
* Limiter: no window holds too many requests; `Retry-After` is true.
* Log and reports: a line is in its own file; a report is complete; the cache
  is never stale; no deadlock.
* List of models: a failing upstream hides no other's models; a list that is
  kept comes from one whole poll; an upstream is asked once a minute; every
  caller is answered.
* Console and sessions: a user's session changes only keys of its user,
  whatever happened since the owner was checked; with a session of a deleted
  user nothing can be changed; a change of the quota does not undo a
  disabling; views that end late leave no tokens behind.
* Estimates and configuration: an estimate is positive and capped; what the
  program is configured with is usable.

`PROJECT.json` lists the hazards one by one, at the line where each bites.

## 2. Modules

```
Windows <- QuotaRules -+                +- RelayLedger <- RelayClaims <- MCRelay
                       +- Store <- Relay +- RelayLife -------------------+
Router ----------------+   |  |      |       |  (INSTANCE Reservation)
                           |  |  Estimates   |
                           |  |              +-- RelayProofs, LedgerProofs,
                           |  |                  ReservationProofs
                           |  +- Console <- MCConsole, ConsoleProofs
                           +- Durability (INSTANCE WriteBehind) <- MCStore
                           +- StoreProofs (used by the proofs above)
Configuration (on Estimates' integers) <- RelayProofs
Models  <- MCModels, ModelsProofs
Limiter <- MCLimiter, LimiterProofs
Reports <- MCReports, ReportsProofs
```

* **Windows**: the lazily reset counters. Time is a natural number of ticks;
  an hour has `HourLen`, a day `HoursPerDay` hours. `ensureWindow` resets on
  any difference of the window start, as the code does, earlier or later. A
  reservation is `Added` to a counter as it is; refunds and settlements
  (`Adjusted`) clamp it at zero.
* **QuotaRules**: working hours in the configured zone, and which limit
  applies. Its assumption is what `config.validate` guarantees.
* **Router**: `Select` as an operator on the map of keys.
* **Store**: one action per exported method of `Store` that changes state
  (the three user updates share `SetUser`), since each holds the mutex for its
  whole body. Absent map entries are `Nil`, or the zero counter. Saving is
  `markDirtyLocked` (part of each changing action), `TimerFires` (the runtime
  starts the callback), `TimerFlush` (the callback gets the mutex), `StopSignal`
  and `FinalFlush` (main), and `Restart` at any moment: the end of the process,
  clean or not, and the start from the file. `issued` records the random
  identifiers that were drawn; they are not drawn twice.
  `StoreSpec` is the store with arbitrary callers.
* **WriteBehind**, **Durability**: what a persistence of this kind promises
  (a value, a copy that is always one whole earlier value, a mark without
  which nothing changes), and the mapping of the store to it: `Registry` of
  memory and of the file, and `dirty`.
* **Estimates**: `tokenize` as operators. A text is its numbers of CJK and other
  characters; the product of `max_tokens` and `n` wraps at 64 bits (`Half` is
  2^63 in the program) before it is capped.
* **Relay**: one record `call[r]` per request; its `pc` names the store call
  that comes next, and each action is one such call with the local work before
  it. `Arrive`, `Check`, `Reserve`, `ChooseKey`, `BookKey`, the four answers of
  an upstream (`CallFails`, `CallCancelled`, `CallRejectsOptions`,
  `CallRefused`, `CallSucceeds`), `CancelUser`, `CancelKey`, `Refund`,
  `Forward`, `Settle`; `Administer` is any other change of the store, `Die`
  ends the goroutines with the process. Fields `tried`, `window`, `keyWindow`
  and `late` are histories.
* **Reservation**, **RelayLife**: the life of one reservation as users and owners
  of keys know it (opened once, lent to at most two keys one after the other,
  closed once by a refund or a charge), and the mapping of Relay to it: `Stage`
  reads the `pc`, `busy` is the store's `inFlight`. The second release of a
  cancelled request is in it as `GiveBackAgain`, the one departure.
* **RelayLedger**: the properties that add up the charges of all requests, with
  the library's sum over a function (`SumFunction`).
* **RelayClaims**: statements of the documents that the code does not keep.
* **Limiter**: `Allow`, with readings of the clock taken before the mutex. A
  user's hits are positions in the sequence `accepted` of all readings that
  passed, so that filtering keeps the order of the list; `promised` remembers
  what refused requests were told.
* **Reports**: `Logger` and `Service` with both mutexes explicit. A line is
  known by its writer and a report is a set of lines. `Stamp` takes the time,
  `Append` holds the log's mutex until `Invalidate` got the other one. `file` and
  `day` are the fields of `Logger`; `Opened`, `Target` and `OpenLocked` are the two
  branches of `openLocked`, which every write and every failure goes through. A
  report is asked for by a query, which is a month or any other string with the
  days its pattern fits (`Queries`, `Matches`). A
  report is `AskHit`, or `AskMiss`, `ReadFile` per day and `Finish`. Writes
  fail before the file is open, or after part of a line.
* **Console**: one record per request of an administrator or a user; each action
  is one store call of its handler. `Authenticate` and `Expire` are `Check`;
  `LoginUser` and `NewSession` the two halves of a login; `AddUser`,
  `SetQuota`, `AddFirstKey` the three calls of `CreateUser`; `ReadQuota` and
  `MergeQuota`, `ReadKey` and `ReplaceKey` the copies that are merged and
  written back; `ViewUser`, `ViewKey`, `CountUser`, `CountKey` what the answers
  read, each counter in a step of its own because reading one may store it.
  A view of a record that is gone panics, and the middleware answers 500.
  `retired` is a history of replaced ciphertexts.
* **Models**: `models` and `Client.Models`. `Poll` takes the mutex and the copy of
  the keys, `Listed` and `Fails` are the answers of the upstreams, `Found` and
  `Nothing` end the poll. The store is reduced to the state of each key, which
  `SetKey` changes at any time. A poll goes on when its client leaves.
* **Configuration**: `config.Load` on the tree of nodes that the file is parsed to.

The definitions whose comment begins with "Fault:" are the plausible bugs with
which the properties are tested: with the fault in the place of the definition
that follows it, TLC finds the property violated.

## 3. Runs

| Run | Configuration | Checks | What it shows |
|---|---|---|---|
| `store` | `MCStore` | `StoreTypeOK`, `NoDangling`, `UniqueUsernames`, `SaveScheduled`, `CleanMeansSaved`, `OverdrawnOnlyReserved`, `EventuallySaved`, `RegistryWrittenBehind` | any three changes of the registry, or any two ledger calls over two days of two hours, interleaved with the timer, a failing save, a shutdown and a restart |
| `relay_ledger` | `MCRelay_ledger` | `RelayTypeOK`, `UserLedgerExact`, `KeyLedgerExact`, `RetryElsewhere`, `UpstreamErrorTold`, `KeyWindowForward`, `RewoundOnlyLate` | two requests, two keys, all upstream answers, clients that go away, the end of an hour |
| `relay_crash` | `MCRelay_crash` | `InFlightBounded`, `InFlightExact`, `ReservationLife` | one administrative change while two requests run, answered 200, 400 or 429, failing or cancelled: on two keys, with second calls on the other one and without the field, and on one key, with a save and the end of the process |
| `relay_ends` | `MCRelay_ends` | `EveryRequestAnswered` | the loop over keys ends; only a stream may wait for its upstream |
| `limiter` | `MCLimiter` | `LimiterTypeOK`, `SlidingWindow`, `LatestWindow`, `RetryHonoured` | five requests over twice the window, in any order of mutex and clock |
| `reports` | `MCReports` | `ReportsTypeOK`, `OwnDay`, `CacheFresh`, `ReportComplete`, `EveryoneEnds` | two writers and two reports, of a month or of the year, over three days of two months |
| `console` | `MCConsole` | `ConsoleTypeOK`, `DeletedLeavesNoTokens`, `UserConfined`, `GoneUserInert`, `QuotaKeepsDisabled` | any two requests of the console, one after the other and interleaved, with the end of the sessions and of the process |
| `models` | `MCModels` | `ModelsTypeOK`, `ListComplete`, `AskedOnce`, `EveryoneAnswered` | three callers and three keys over the life of two lists, with a change by the administration |
| `cancel`, `oversell`, `exhausted` | `MCRelay_*` | one claim each | a violation: section 6 |
| `rotation` | `MCConsole_rotation` | `RotationKept` | a violation: section 6 |

**Bounds.** `MaxManage`, `MaxSaves`, `MaxFailures`, `MaxRestarts`, `MaxChanges`,
`MaxClock` and the budgets of `MCStore!MCInit` cap, in the MC modules only, how
often a kind of step is taken; `spent`, `left` and `changes` count them. The
bounds are small because the actions are large: one ledger call on a store with
any counters is already every case of `ensureWindow` (`OneCharged` starts with
counters of the first hour and the clock goes two hours on). `MCStore` spends
its budget on the registry or on the ledger, according to the file it starts
from, and its amounts include a negative one, which is what an estimate is whose
product wrapped. In `relay_ledger` two requests on two keys are
enough for each hazard of the loop: a request
meets another one in each of its gaps, a second key is what a retry needs, and
limits of 3 and 5 tokens with estimates of 1 and 2 make the second request meet
a limit with the first one's estimate or actual number in it; one body for
completions and one for embeddings bring requests with and without the injected
field. The upstream answers 200, 400, 403, 429 and 500 are one for each branch of
`proxy`. `relay_crash` has one body, with the field, and one answer for each way a
key is given back; the store has two keys, so that requests make second calls, or
one, and then saves and the end of the process are in the budget (`Spent`). No key
is added there, which only the theorems cover; a save at shutdown, to requests one
like any other, is left to `MCStore`. In `relay_ends` both
keys have room for one chat in the hour, and a reply uses what was estimated, so
that a key with something left refuses a reservation for good and the loop has to
exclude it; the clock stands still, since an hour's end only makes room. Three
requests are only needed to oversell. In the limiter five requests and a
limit of two let a window fill, a late request remove hits, and the window fill
again. Two writers and three days give a report files before, behind and at the
reader, a torn line with one appended to it, and the end of a month. The file of
`console` has two users, of whom one has a key, an access key and tokens on its
counters, and sessions of both and of an administrator; a handler has at most
five steps, and two of them meet in every gap. The three upstreams of `models`
share a model, and one lists only items without an id; a life of two ticks is
outlived within the three of the clock. Requests are symmetric where no liveness
is checked.

**Fairness.** `MCStore!MCFair`: an armed timer fires and the callback gets the
mutex. Changes are finite in number in the run, so the `Reset` of each change
cannot put the timer off for ever; with an endless stream of changes less than
two seconds apart it can, which depends on the rate of the traffic and is not in
an untimed model. `MCRelay!MCFair`: each goroutine runs on, and each call that is
no stream returns, since the client for JSON has a timeout of five minutes. The
client for streams has none (`upstream.go:29`), nor does the server limit the time
of a write, so that neither the call of a stream nor any forwarding is fair, and
`EveryRequestAnswered` lets such a request stay where it is. `MCModels!MCFair`: a call of an upstream
returns (after eight seconds at the latest) and the mutex goes to a caller that
waits for it. `MCReports!MCFair`: a writer or a reader that can take a step
takes one; Go's mutexes hand over to waiters that starve.

**Deadlock** is checked in `reports`, the one module with two mutexes in one
call (`EveryoneEnds` says more: nobody waits for ever). Elsewhere the budgets
run out and the instance stops.

## 4. Theorems

| Module | Theorem | States |
|---|---|---|
| StoreProofs | `StoreTypeCorrect` | `StoreSpec => []StoreTypeOK` |
| | `StoreSaveScheduled` | `StoreSpec => []SaveScheduled` |
| | `StoreNoDangling` | `StoreSpec => []NoDangling` |
| | `StoreUniqueUsernames` | `StoreSpec => []UniqueUsernames` |
| | `StoreCleanMeansSaved` | `StoreSpec => []CleanMeansSaved` |
| | `StoreOverdrawnOnlyReserved` | `StoreSpec => OverdrawnOnlyReserved` |
| | `StoreWrittenBehind` | `StoreSpec => RegistryWrittenBehind`, that is `WB!WBSpec` |
| RelayProofs | `RelayTypeCorrect` | `RelaySpec => []RelayTypeOK` |
| | `RelayImplementsStore` | `RelaySpec => StoreSpec` |
| | `RelayRetryElsewhere` | `RelaySpec => []RetryElsewhere` |
| | `RelayUpstreamErrorTold` | `RelaySpec => []UpstreamErrorTold` |
| | `RelayKeyWindowForward`, `RelayRewoundOnlyLate` | the two action properties of the windows |
| | `EstimateCapped` | an estimate of a completion is in `1 .. MaxCompletionEstimate` when `max_tokens` times `n` fits 64 bits |
| | `ConfigurationAdmitted` | every configuration of `LoadConfig` has hours inside a day, at least one of them, and positive limits |
| LedgerProofs | `RelayInFlightBounded` | `RelaySpec => []InFlightBounded` |
| | `RelayInFlightExact` | `RelaySpec => []InFlightExact` |
| | `RelayUserLedgerExact` | `FirstUnused` and `Measured` imply `RelaySpec => []UserLedgerExact` |
| | `RelayKeyLedgerExact` | `FirstUnused` and `Measured` imply `RelaySpec => []KeyLedgerExact` |
| ReservationProofs | `RelayImplementsReservation` | `RelaySpec => ReservationLife`, that is `Life!ResSpec` |
| ConsoleProofs | `ConsoleTypeCorrect` | `ConsoleSpec => []ConsoleTypeOK` |
| | `ConsoleImplementsStore` | `ConsoleSpec => StoreSpec` |
| | `ConsoleUserConfined`, `ConsoleGoneUserInert`, `ConsoleQuotaKeepsDisabled` | the three action properties |
| | `ConsoleDeletedLeavesNoTokens` | `FirstTidy` implies `ConsoleSpec => []DeletedLeavesNoTokens` |
| ModelsProofs | `ModelsTypeCorrect`, `ModelsListComplete`, `ModelsAskedOnce` | the three safety properties of `models` |
| LimiterProofs | `LimiterTypeCorrect`, `LimiterSlidingWindow`, `LimiterLatestWindow`, `LimiterRetryHonoured` | the four properties of `limiter` |
| ReportsProofs | `ReportsTypeCorrect`, `ReportsOwnDay`, `ReportsCacheFresh`, `ReportsComplete` | the four invariants of `reports` |

They rest on the assumptions of the modules: `ClockAssumption`,
`QuotaAssumption`, `StoreAssumption`, `NilAssumption`, `DiskAssumption` (the
file of the first start was written by the program, no later than its clock
says), `WidthAssumption`, `RelayAssumption`, `LimiterAssumption`,
`ReportsAssumption`, `ModelsAssumption`. TLC evaluates each in a run. What
`QuotaAssumption` and `LimiterAssumption` say of the configuration is itself a
theorem, `ConfigurationAdmitted`.

Three theorems have hypotheses of their own, two about the file of the first start,
which `DiskAssumption` leaves open, and without which they are false:

* `FirstUnused` (`RelayLedger`): it holds no tokens of its hour and day. A ledger
  that starts with tokens of requests nobody has a record of cannot be the sum
  of the requests that follow. A fresh installation has such a file, and so has
  every start in a new day.
* `FirstTidy` (`Console`): it holds no tokens of a user or key that is not there.
  A request that is settled after its user was deleted stores the counter
  again (`state.go:546`), and its tokens stay in the file; the identifier is
  not drawn again, so nobody reads them. The
  theorem says that the console makes no others.

* `Measured` (`RelayLedger`, with `FirstUnused`): no estimate and no charge is
  negative. `max_tokens` times `n` may wrap (`tokenize.go:65`), and an upstream may
  report any number; the refund of a negative estimate is clamped like any other,
  and the counter is then no sum.

TLC evaluates them for the constants of `MCRelay` and `MCConsole`.

**The store.** `StoreTypeOK` is inductive. It is about types, and about the number
of requests in flight, which is clamped; the counters of tokens are integers,
because `ReserveUser` and `ReserveKey` add any estimate as it is.
`OverdrawnOnlyReserved` says what the code does guarantee of them: `Adjusted`
leaves nothing below zero, a rollover leaves a counter or an empty one
(`KeepsAfloat`), and so only a negative reservation is left, or the file. `SaveScheduled` is not: `SaveInv`
adds that a timer that has fired has its callback still to come. `NoDangling`
and `UniqueUsernames` hold in memory and in the file together: a restart makes
the file the memory, a flush the memory the file, and the creation of a key
requires its owner. `CleanMeansSaved` compares counters up to windows that are
over, so it needs `BegunInv`: no window, in memory or in the file, starts after
the clock's hour or day. `StoreWrittenBehind` needs no invariant: `MarkedStep`
sorts every step of the store into a change with its mark, a save, a restart, or
a step that leaves the registry alone.

**The relay implements the store.** `StoreSpec` is the abstract specification of
the relay: the store with any caller. The variables have the same names, so the
refinement mapping is the identity, and `RelayImplementsStore` shows that every
step of a request is a call the store's specification allows, or leaves the
store alone. For that `RelayInv` says what a request knows of itself at each
`pc` (`Local`: one entry of `tried` per attempt, the second attempt excludes the
first key or goes without the field) and that its reading of the clock is not in
the future; without it `ReserveUser` would not be a legal call. By this theorem
everything proved of the store holds of the relay.

**What the client is told.** `TellInv` adds to `RelayInv` what the loop keeps
(`Told`): `lastResp` is the answer of the last attempt which an upstream answered
with an error, at every step, and a request that ends without a success and with
its client still there (not `Unfailed`) ends with it, or with an answer of the
relay's own if it made fewer than two calls.

**One reservation.** `LifeInv` adds to `RelayInv` how the `pc`, the window of the
reservation and the number of attempts go together (`Phases`), so that `Stage`
is a function of the record that moves as `Reservation` says. Each action of a
request is one step of `ResNext` or a stutter; an administrative change is
`Forget` of the keys it deletes, and `Die` is `Crash`.

**Windows.** The only call that brings a reading of the clock of its own is
`ReserveUser`; every other call reads the clock under the mutex, and the clock
does not go back, so that `ensureWindow` only moves forward. A key's window has
no such call, hence `KeyWindowForward` without an exception.

**Requests in flight.** `inFlight[k]` is compared with the set of requests that
hold a reservation of `k`. A step takes a request into the set or out of it
(`HoldersAfter`), and what it does to the number is at most what it does to the
set's cardinality. Deletions set the number to zero and identifiers are never
drawn twice (`KeysIssued`), so a key that is created has no holder; this,
with `HeldIssued` (a request holds only keys that were drawn), makes the exact
form inductive. `max64(0, n - 1)` is harmless for the
bound and would hide a double release; the exact form therefore excludes
clients that have gone away, and the run `cancel` shows why it must.

**The ledger of tokens.** `UserLedgerExact` equates a counter with a sum over the
requests, of any number and at any point of the loop. Four things are needed.

*Sums.* `SumFunction` is a fold of the library, and what a fold computes would
be an induction over its set, for which no rule can be cited here. Sets take the
place of predicates: `Least` is the least element of a set of numbers (the
naturals are well-founded), `AllNumbers` and `AllSubsets` the induction over
numbers and over subsets by their size; from them `SumExists`, `SumUnique` and
`SumAdds` show that the fold is the one function on subsets that adds one
element at a time, and `SumChange` that changing a function at one place changes
its sum by the difference. `OwedAfter` is that for a request that takes a step.

*Records.* `ChargeInv` adds to `TellInv` that the request is `Timely`: as long
as it may still choose a key it has not acted late, a refund has no answer of an
upstream to charge, and its windows do not lie in the future. With it each of
the actions of a request makes `Progress`: either it is late from now on, or
what it owes to its user and to its key moves by exactly what the action books
(`Moves`). This is one lemma per action, from `StartMoves` to `EndMoves`.

*Windows.* A counter is compared at the time the clock says, and reading it
rolls it over. When the clock leaves the hour or the day (`TickExact`), nothing
is owed to the new window, since every window of a request has begun (`Timely`),
and the counter is empty, since its own has begun as well (`BegunInv`). Within
the hour neither changes. `Started` is for keys, whose window is read as
`ZeroTime` before it begins.

*Identifiers.* A user that is created must find its counter as empty as what is
owed to it. The sums are therefore exact also for the identifiers that are still
to be drawn (`UserCurrent`, `KeyCurrent`), which `KeysIssued` and `UsersIssued`
keep apart from those of deleted records, whose requests may go on. `Untouched`
is for the process that ends before its first request: it starts again from a
file without tokens, and no record is dead. `LedgerInv` is the conjunction of
all these, and inductive.

The two theorems exclude what the code gets wrong or gives up: records of a
process that has ended and steps that are late (`Punctual`), and for keys
clients that have gone away; `oversell` and `cancel` in section 6 show both. Every
administrative change, deletion and creation included, is in them.

**The limiter.** The list of hits is not sorted, so the obvious invariant (the
list is what lies in the window) is false. `LimiterInv` says instead what was
removed: a reading that is no longer in the list was removed by some later
reading that had it at or before its cutoff (`Removed`); hence what lies in a
window and is missing was followed by a later reading, which is what `Late`
excludes. `RetryHonoured` is kept by refusals because each removes only what
every promised time has removed too.

**Reports.** `OwnDay` rests on `OwnFile`: a file that is open is that of the day the
logger remembers. `OwnFileStep` shows it for the branches of `openLocked`, for
failures that leave no file open while the day stays, and for `Close`; `TargetOwn`
concludes that what a write finds open, or opens, is its own day's file. The day
comparison alone would not do, nor would the open file alone. For the other two
`Scan` is the heart: while a reader holds the service's mutex, a
line it has passed and does not count has a writer that waits for this mutex,
and so will drop the report that is being built; and what was logged when the
report was asked for is counted or lies in a file still ahead.

**The console.** As for the relay, `ConsoleInv` says what a handler knows at each
`pc`. `UserConfined` rests on `Owns`: the key whose owner was checked may have
been deleted since, but its identifier was issued and is not drawn again
(`KeysIssued`), and `ReplaceUpstreamKey` keeps the owner, so the check stays
true. `GoneUserInert` follows from the same and `NoDangling`. `QuotaKeepsDisabled`
needs `UsersIssued`: the identifier of a user that is there, in memory or in the
file, was drawn, so `CreateUser` cannot write over it (`OnlyEnable`).

For `DeletedLeavesNoTokens` all that the console and the process do to the store
is `Managing`, and `ManagingKeeps` says what it does to a counter: nothing, a
roll-over, or the reset of a deletion. So a counter that is empty stays empty,
and only a deletion makes a record absent (`OnlyDeletion`); it resets the
counter in the same step. `TidyInv` adds the file, from which a restart takes
the counters. The same two lemmas serve the ledger for its administrative steps.

**The list of models.** `Kept` says that the list under construction is always
what the answers so far add up to (`Collects`, kept by `MergeList`); `ListFound`
carries it to the kept list. `AskedOnce` needs `HeardBefore`: an upstream that
has named models did so before the kept list was dated, or in the poll under way,
which asks each upstream once.

**Estimates.** Below the overflow `Wrapped` is the identity (`WrappedInRange`),
and the product of two positive numbers is positive; the theorem says nothing of
products that do not fit.

**Only model-checked**: liveness (`EventuallySaved`, `EveryRequestAnswered`,
`EveryoneEnds`, `EveryoneAnswered`), which is beyond TLAPS. Every invariant and
every other action property of the passing runs is a theorem. The claims of
section 6 are refuted, not proved.

## 5. What is abstracted, and what is left out

* Identifiers, names, hashes and models are members of small sets; lower-casing
  and trimming is the function `Normal`, `EqualFold` the function `FoldCase`.
  Encryption, hashes and JSON are left out; an empty hash is `Blank`.
* The body of a request is its model, whether it streams, and what `tokenize`
  looks at; the characters of a stream are turned into tokens as in
  `completionEstimate`. Estimates and usages are integers, since a product may wrap
  and an upstream may report anything; only the two theorems of the ledger suppose
  that they are not negative (`Measured`). A counter does not overflow.
* `Arrive` is one step for two locked reads (`UserByAccessKey`, `GetUser`), the
  reading of the body and that of the clock (`relay.go:38`, `:170`). An access key
  removed between the two reads of a user who is disabled at the first and enabled
  at the second is let in by the code and not by the model; nothing checked depends
  on it, because `Check` looks the user up again. Requests arrive only while the
  process is not stopping, as the listener is closed then; a connection that is
  already open may bring one more in the code.
* `state.json` is replaced as a whole by a rename, so a save succeeds or leaves
  the old file. A file that cannot be parsed stops the start and is left out.
* In Relay the limiter may give any answer; a refusal touches nothing else.
* A report's query is only the days its pattern fits. A string that is not a month
  (`admin.go:379` and `user.go:201` do not look) can be cached and is never
  invalidated; `CacheFresh` and `ReportComplete` are about months, of which the
  documents speak.
* A line of the log has no contents; the sums of a report are left out. A torn
  line that happens to be complete but for its newline is not modelled.
* In Console a request that is refused for its form, or with a wrong password,
  is left out: it changes nothing. The report handlers of both roles change
  nothing either and call `Monthly` (Reports). The list of models is a module of
  its own over the states of the keys, since it shares nothing else with the
  requests.
* The text of the configuration file is layout: `File` is the tree it is parsed
  to, without the settings that only name files and environment variables.
* `UpstreamErrorTold` is about the statuses that are passed on, not about the
  answers the relay makes itself. Four promises of the documents about answers do
  not hold and have no run, since a single request shows them: with no other key
  left, the first upstream's 429 or 5xx is replaced by the relay's own 502
  (`relay.go:217`, while the design document, 262, wants the upstream's error
  passed through); a timeout is an error of `Do` like any other, so that
  the answer is an own 502 or an earlier error (`relay.go:239`, `:288`; the design
  document, 263, wants 504); an upstream's error is passed on with its status and
  headers but without its body, which was drained (`relay.go:264`, design document,
  262; the model's `drained`); a 400 to `stream_options` on the second attempt ends
  the request instead of being retried (`relay.go:252`, `agent.md:58`).
  `GET /v1/models` says that all upstream lists failed when one did and the
  others listed nothing (`relay.go:144`).
* A reservation whose reading of the clock is from before the end of the hour
  resets the new window to the old hour (design document, 120, has windows
  reset when their length has gone by): `RewoundOnlyLate` bounds it.

### Not modelled

* The web console (`web/`): a browser client of the API.
* `yaml.go`: the parsing of text; request IDs, headers, JSON and static files of
  the server; hashes and ciphers as algorithms.
* The rate at which changes come, and so the starvation of the debounced save.

## 6. Disagreements between documents and code

| Run | The documents say | The code does |
|---|---|---|
| `cancel` | on failure the reservation is refunded (`agent.md:60`) | a client that goes away during a call has its key released twice (`relay.go:240` and `:242`), which takes another request's tokens and in-flight number |
| `oversell` | concurrent requests of a user in an hour never oversell it (design document, 170) | a refund or settlement after the end of the hour is taken from the new hour's counter, which makes room that does not exist |
| `exhausted` | used up by the hour: 429 (261) | keys with too little left are chosen, refused by `ReserveKey` and excluded; the answer is 502 |
| `rotation` | to rotate a key, set the new ciphertext before the call; the update paths of administrator and user cover it (`agent.md:145`) | the update paths merge into a copy read earlier: an update without `api_key` that overlaps a rotation stores the old ciphertext again |

## 7. Plan

Done, in the order of their weight: Windows, QuotaRules, Router, Store, Relay,
Limiter, Reports, Console, Models, Estimates, Configuration, with their runs and
theorems, and the abstract specifications WriteBehind and Reservation.

What could follow:

1. **Autosave**: a timed model of the debounce, with a bound on how long a
   change can stay unsaved as a function of the gaps between changes.
2. Process ends in Reports: a restart empties the cache and closes the file.
