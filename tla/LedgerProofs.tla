---------------------------- MODULE LedgerProofs ----------------------------
(* What the ledger of the store owes to the requests, for all values of the *)
(* constants: the numbers in flight, InFlightBounded and InFlightExact of   *)
(* Relay, and the tokens, UserLedgerExact and KeyLedgerExact of RelayLedger.*)
EXTENDS RelayProofs, RelayLedger, FiniteSetTheorems

-----------------------------------------------------------------------------
(* What the steps do to inFlight and to the holders of a key.               *)

LEMMA HolderMember ==
    ASSUME NEW r \in Requests, NEW k
    PROVE  r \in KeyHolders(k) <=> call[r].pc \in HoldPC /\ call[r].key = k
    BY DEF KeyHolders, HoldPC

LEMMA HoldersFinite ==
    ASSUME NEW k
    PROVE  /\ IsFiniteSet(KeyHolders(k))
           /\ Cardinality(KeyHolders(k)) \in Nat
<1>1. KeyHolders(k) \in SUBSET Requests
    BY DEF KeyHolders
<1>2. IsFiniteSet(KeyHolders(k))
    BY <1>1, FS_Subset, RelayAssumption
<1> QED
    BY <1>2, FS_CardinalityType

\* A step of r moves no other request into or out of a set of holders.
LEMMA HoldersAfter ==
    ASSUME RelayInv, NEW r \in Requests, NEW d, Becomes(r, d), NEW k
    PROVE  KeyHolders(k)' = IF d.pc \in HoldPC /\ d.key = k
                            THEN KeyHolders(k) \cup {r}
                            ELSE KeyHolders(k) \ {r}
    BY DEF RelayInv, Calls, Becomes, KeyHolders, HoldPC

Same == inFlight' = inFlight /\ \A k \in KeyIDs : KeyHolders(k)' = KeyHolders(k)

Booked(r) ==
    /\ call[r].key \in KeyIDs
    /\ r \notin KeyHolders(call[r].key)
    /\ inFlight' = [inFlight EXCEPT ![call[r].key] = @ + 1]
    /\ \A k \in KeyIDs : KeyHolders(k)' = IF k = call[r].key
                                         THEN KeyHolders(k) \cup {r}
                                         ELSE KeyHolders(k)

GivenBack(r) ==
    /\ call[r].key \in KeyIDs
    /\ inFlight' = [inFlight EXCEPT ![call[r].key] = max64(0, @ - 1)]

Freed(r) ==
    /\ GivenBack(r)
    /\ r \in KeyHolders(call[r].key)
    /\ \A k \in KeyIDs : KeyHolders(k)' = IF k = call[r].key
                                         THEN KeyHolders(k) \ {r}
                                         ELSE KeyHolders(k)

FreedAgain(r) ==
    /\ GivenBack(r)
    /\ \A k \in KeyIDs : KeyHolders(k)' = KeyHolders(k)
    /\ call'[r].reply = Own(499)

\* r held no key, and holds none.
LEMMA Idle ==
    ASSUME RelayInv, NEW r \in Requests, NEW d, Becomes(r, d),
           call[r].pc \notin HoldPC, d.pc \notin HoldPC, NEW k
    PROVE  KeyHolders(k)' = KeyHolders(k)
<1>1. r \notin KeyHolders(k)
    BY HolderMember
<1>2. KeyHolders(k)' = KeyHolders(k) \ {r}
    BY HoldersAfter
<1> QED
    BY <1>1, <1>2

\* r goes on holding its key.
LEMMA Keeps ==
    ASSUME RelayInv, NEW r \in Requests, NEW d, Becomes(r, d),
           call[r].pc \in HoldPC, d.pc \in HoldPC, d.key = call[r].key, NEW k
    PROVE  KeyHolders(k)' = KeyHolders(k)
<1>1. r \in KeyHolders(k) <=> k = call[r].key
    BY HolderMember
<1>2. KeyHolders(k)' = IF k = call[r].key THEN KeyHolders(k) \cup {r}
                                          ELSE KeyHolders(k) \ {r}
    BY HoldersAfter
<1> QED
    BY <1>1, <1>2

\* r gives its key back.
LEMMA Leaves ==
    ASSUME RelayInv, NEW r \in Requests, NEW d, Becomes(r, d),
           call[r].pc \in HoldPC, d.pc \notin HoldPC, GivenBack(r)
    PROVE  Freed(r)
<1>1. \A k \in KeyIDs : /\ r \in KeyHolders(k) <=> k = call[r].key
                        /\ KeyHolders(k)' = KeyHolders(k) \ {r}
    BY HolderMember, HoldersAfter
<1> QED
    BY <1>1 DEF Freed, GivenBack

LEMMA FlightStart ==
    ASSUME RelayInv, NEW r \in Requests,
           \/ Start(r) \/ Check(r) \/ Reserve(r) \/ ChooseKey(r)
           \/ CancelUser(r) \/ Refund(r)
    PROVE  Same
<1>1. call[r].pc \notin HoldPC
    BY DEF Start, Arrive, Check, Reserve, ChooseKey, CancelUser, Refund, HoldPC
<1>2. inFlight' = inFlight
    BY DEF Start, Arrive, Check, Reserve, ChooseKey, CancelUser, Refund,
           ReserveUser, ReleaseUser, AdjustUser, storeVars, ledger
<1>3. PICK d : Good(r, d) /\ d.pc \notin HoldPC
    <2>1. CASE Start(r) \/ Check(r) \/ Reserve(r) \/ ChooseKey(r)
        BY <2>1, StartGood, EarlyGood, ChooseGood
    <2>2. CASE CancelUser(r) \/ Refund(r)
        <3>1. PICK n \in Amounts : TRUE
            BY RelayAssumption
        <3>2. ~Forward(r, n)
            BY <2>2 DEF Forward, CancelUser, Refund
        <3> QED
            BY <2>2, <3>1, <3>2, EndGood
    <2> QED
        BY <2>1, <2>2
<1> QED
    BY <1>1, <1>2, <1>3, Idle DEF Same, Good

\* The upstream has answered: the key stays with the request until Settle.
LEMMA FlightKept ==
    ASSUME RelayInv, NEW r \in Requests,
           \/ \E code \in Codes : CallSucceeds(r, code)
           \/ \E n \in Amounts : Forward(r, n)
    PROVE  Same
<1>1. call[r].pc \in HoldPC
    BY DEF CallSucceeds, Forward, HoldPC
<1>2. inFlight' = inFlight
    BY DEF CallSucceeds, Forward, SettleUser, AdjustUser, storeVars, ledger
<1>3. PICK d : Good(r, d) /\ d.pc \in HoldPC /\ d.key = call[r].key
    <2>1. ASSUME NEW code \in Codes, CallSucceeds(r, code)
          PROVE  \E d : Good(r, d) /\ d.pc \in HoldPC /\ d.key = call[r].key
        <3>1. ~CallRefused(r, code)
            BY <2>1 DEF CallSucceeds, CallRefused
        <3> QED
            BY <2>1, <3>1, AnswerGood DEF HoldPC
    <2>2. ASSUME NEW n \in Amounts, Forward(r, n)
          PROVE  \E d : Good(r, d) /\ d.pc \in HoldPC /\ d.key = call[r].key
        <3>1. ~(CancelUser(r) \/ CancelKey(r) \/ Refund(r) \/ Settle(r))
            BY <2>2 DEF Forward, CancelUser, CancelKey, Refund, Settle
        <3> QED
            BY <2>2, <3>1, EndGood DEF HoldPC
    <2> QED
        BY <2>1, <2>2
<1> QED
    BY <1>1, <1>2, <1>3, Keeps DEF Same, Good

LEMMA FlightBook ==
    ASSUME RelayInv, NEW r \in Requests, BookKey(r)
    PROVE  Booked(r) \/ Same
<1>1. call[r].pc = "reserveKey" /\ call[r].key \in KeyIDs
    BY OwnRecord DEF BookKey, Sound, Local, KeyPC
<1>2. call[r].pc \notin HoldPC
    BY <1>1 DEF HoldPC
<1>3. PICK d : /\ Good(r, d)
               /\ d.key = call[r].key
               /\ \/ /\ ReserveKey(call[r].key, est(r), call[r].limit,
                                   working(r))
                     /\ d.pc = "call"
                  \/ /\ ReserveKeyRefused(call[r].key, est(r), call[r].limit,
                                          working(r))
                     /\ d.pc \notin HoldPC
    BY BookGood
<1>4. Becomes(r, d)
    BY <1>3 DEF Good
<1>5. CASE /\ ReserveKey(call[r].key, est(r), call[r].limit, working(r))
           /\ d.pc = "call"
    <2>1. inFlight' = [inFlight EXCEPT ![call[r].key] = @ + 1]
        BY <1>5 DEF ReserveKey
    <2>2. \A k \in KeyIDs : r \notin KeyHolders(k)
        BY <1>2, HolderMember
    <2>3. \A k \in KeyIDs : KeyHolders(k)' = IF k = call[r].key
                                           THEN KeyHolders(k) \cup {r}
                                           ELSE KeyHolders(k) \ {r}
        BY <1>3, <1>4, <1>5, HoldersAfter DEF HoldPC
    <2> QED
        BY <1>1, <2>1, <2>2, <2>3 DEF Booked
<1>6. CASE /\ ReserveKeyRefused(call[r].key, est(r), call[r].limit, working(r))
           /\ d.pc \notin HoldPC
    <2>1. inFlight' = inFlight
        BY <1>6 DEF ReserveKeyRefused, KeyHourCounter, storeVars, ledger
    <2> QED
        BY <1>2, <1>4, <1>6, <2>1, Idle DEF Same
<1> QED
    BY <1>3, <1>5, <1>6

LEMMA FlightFreed ==
    ASSUME RelayInv, NEW r \in Requests,
           \/ CallFails(r) \/ CallCancelled(r) \/ CallRejectsOptions(r)
           \/ \E code \in Codes : CallRefused(r, code)
           \/ Settle(r)
    PROVE  Freed(r)
<1>1. call[r].pc \in {"call", "settleKey"}
    BY DEF CallFails, CallCancelled, CallRejectsOptions, CallRefused, Settle
<1>2. call[r].pc \in HoldPC /\ call[r].key \in KeyIDs
    BY <1>1, OwnRecord DEF Sound, Local, KeyPC, HoldPC
<1>3. GivenBack(r)
    BY <1>2 DEF CallFails, CallCancelled, CallRejectsOptions, CallRefused,
           Settle, Unbook, ReleaseKey, SettleKey, AdjustKey, GivenBack
<1>4. PICK d : Good(r, d) /\ d.pc \notin HoldPC
    <2>1. CASE CallFails(r) \/ CallCancelled(r) \/ CallRejectsOptions(r)
        BY <2>1, FailGood
    <2>2. ASSUME NEW code \in Codes, CallRefused(r, code)
          PROVE  \E d : Good(r, d) /\ d.pc \notin HoldPC
        <3>1. ~CallSucceeds(r, code)
            BY <2>2 DEF CallSucceeds, CallRefused
        <3> QED
            BY <2>2, <3>1, AnswerGood
    <2>3. CASE Settle(r)
        <3>1. PICK n \in Amounts : TRUE
            BY RelayAssumption
        <3>2. ~Forward(r, n)
            BY <2>3 DEF Forward, Settle
        <3> QED
            BY <2>3, <3>1, <3>2, EndGood
    <2> QED
        BY <2>1, <2>2, <2>3
<1> QED
    BY <1>2, <1>3, <1>4, Leaves DEF Good

LEMMA FlightAgain ==
    ASSUME RelayInv, NEW r \in Requests, CancelKey(r)
    PROVE  FreedAgain(r)
<1> DEFINE d == [call[r] EXCEPT !.pc = "done", !.reply = Own(499)]
<1>1. call[r].pc = "cancelKey" /\ call[r].key \in KeyIDs
    BY OwnRecord DEF CancelKey, Sound, Local, KeyPC
<1>2. GivenBack(r) /\ Becomes(r, d)
    BY <1>1 DEF CancelKey, Unbook, ReleaseKey, AdjustKey, GivenBack
<1>3. d.pc = "done" /\ d.reply = Own(499)
    BY OwnRecord DEF Call
<1>4. call'[r] = d
    BY <1>2 DEF RelayInv, Calls, Becomes
<1> HIDE DEF d
<1>5. call[r].pc \notin HoldPC /\ d.pc \notin HoldPC
    BY <1>1, <1>3 DEF HoldPC
<1> QED
    BY <1>2, <1>3, <1>4, <1>5, Idle DEF FreedAgain

\* The steps of the others forget a number only together with its key.
LEMMA FlightOthers ==
    ASSUME RelayInv, Administer \/ Background \/ Tick, UNCHANGED call
    PROVE  \A k \in KeyIDs :
              /\ KeyHolders(k)' = KeyHolders(k)
              /\ \/ inFlight'[k] = inFlight[k]
                 \/ inFlight'[k] = 0 /\ upstreamKeys'[k] = Nil
<1>1. \A k \in KeyIDs : KeyHolders(k)' = KeyHolders(k)
    BY DEF KeyHolders
<1>0. /\ inFlight \in [KeyIDs -> Nat]
      /\ upstreamKeys \in [KeyIDs -> UpstreamKey \cup {Nil}]
    BY DEF RelayInv, Typed, TypedRegistry, TypedLedger
<1>2. CASE UNCHANGED inFlight
    BY <1>1, <1>2
<1>3. ASSUME NEW u \in UserIDs, DeleteUser(u)
      PROVE  \A k \in KeyIDs : \/ inFlight'[k] = inFlight[k]
                               \/ inFlight'[k] = 0 /\ upstreamKeys'[k] = Nil
    <2>1. /\ inFlight' = [k \in KeyIDs |->
                           IF k \in OwnKeys(u) THEN 0 ELSE inFlight[k]]
          /\ upstreamKeys' = [k \in KeyIDs |->
                            IF k \in OwnKeys(u) THEN Nil ELSE upstreamKeys[k]]
        BY <1>3 DEF DeleteUser
    <2> QED
        BY <2>1
<1>4. ASSUME NEW q \in KeyIDs, DeleteUpstreamKey(q)
      PROVE  \A k \in KeyIDs : \/ inFlight'[k] = inFlight[k]
                               \/ inFlight'[k] = 0 /\ upstreamKeys'[k] = Nil
    <2>1. /\ inFlight' = [inFlight EXCEPT ![q] = 0]
          /\ upstreamKeys' = [upstreamKeys EXCEPT ![q] = Nil]
        BY <1>4 DEF DeleteUpstreamKey
    <2> QED
        BY <1>0, <2>1
<1>5. CASE ManageUsers
    BY <1>1, <1>2, <1>3, <1>5
       DEF ManageUsers, CreateUser, UpdateUserQuota, UpdateUserPassword,
           SetUserEnabled, SetUser, AddAccessKey, RemoveAccessKey, ledger
<1>6. CASE ManageKeys
    BY <1>1, <1>2, <1>4, <1>6
       DEF ManageKeys, CreateUpstreamKey, ReplaceUpstreamKey, ledger
<1>7. CASE ManageSessions
    BY <1>2, <1>7 DEF ManageSessions, PutSession, DeleteSession, ledger
<1>8. CASE \/ \E u \in UserIDs : UserCounters(u)
           \/ \E k \in KeyIDs : KeyHourCounter(k)
    BY <1>2, <1>8 DEF UserCounters, KeyHourCounter
<1>9. CASE Background \/ Tick
    BY <1>2, <1>9 DEF Background, TimerFires, TimerFlush, FinalFlush,
                      StopSignal, Tick, ledger
<1> QED
    BY <1>5, <1>6, <1>7, <1>8, <1>9 DEF Administer

\* Which of these a step of the relay is.
LEMMA FlightStep ==
    ASSUME RelayInv, NEW r \in Requests, Start(r) \/ Handle(r)
    PROVE  Same \/ Booked(r) \/ Freed(r) \/ FreedAgain(r)
<1>1. CASE \/ Start(r) \/ Check(r) \/ Reserve(r) \/ ChooseKey(r)
           \/ CancelUser(r) \/ Refund(r)
    BY <1>1, FlightStart
<1>2. CASE BookKey(r)
    BY <1>2, FlightBook
<1>3. CASE Returns(r)
    BY <1>3, FlightFreed, FlightKept DEF Returns
<1>4. CASE CancelKey(r)
    BY <1>4, FlightAgain
<1>5. CASE Settle(r) \/ \E n \in Amounts : Forward(r, n)
    BY <1>5, FlightFreed, FlightKept
<1> QED
    BY <1>1, <1>2, <1>3, <1>4, <1>5 DEF Handle

-----------------------------------------------------------------------------
(* The bound.                                                               *)

\* Nothing is in flight, and nobody holds a key, when the goroutines are gone.
LEMMA FlightDies ==
    ASSUME RelayInv, Die
    PROVE  \A k \in KeyIDs : inFlight'[k] = 0 /\ KeyHolders(k)' = {}
<1>1. \A k \in KeyIDs : inFlight'[k] = 0
    BY DEF Die, Restart, Load
<1>2. \A r \in Requests : call'[r].pc \notin HoldPC
    <2> TAKE r \in Requests
    <2>1. call[r] \in Call
        BY OwnRecord
    <2>2. [call[r] EXCEPT !.pc = "dead"].pc = "dead"
        BY <2>1 DEF Call
    <2> QED
        BY <2>2 DEF Die, HoldPC
<1> QED
    BY <1>1, <1>2 DEF KeyHolders, HoldPC

LEMMA BoundedStep ==
    RelayInv /\ InFlightBounded /\ [RelayNext]_vars => InFlightBounded'
<1> SUFFICES ASSUME RelayInv, InFlightBounded, [RelayNext]_vars,
                    NEW k \in KeyIDs
             PROVE  inFlight'[k] <= Cardinality(KeyHolders(k)')
    BY DEF InFlightBounded
<1>1. /\ inFlight \in [KeyIDs -> Nat] /\ inFlight[k] \in Nat
      /\ inFlight[k] <= Cardinality(KeyHolders(k))
    BY DEF RelayInv, Typed, TypedLedger, InFlightBounded
<1>2. /\ IsFiniteSet(KeyHolders(k)) /\ Cardinality(KeyHolders(k)) \in Nat
    BY HoldersFinite
<1>3. ASSUME NEW r \in Requests, Start(r) \/ Handle(r)
      PROVE  inFlight'[k] <= Cardinality(KeyHolders(k)')
    <2>1. CASE Same
        BY <1>1, <2>1 DEF Same
    <2>2. CASE Booked(r)
        <3>1. CASE k = call[r].key
            <4>1. Cardinality(KeyHolders(k) \cup {r}) = Cardinality(KeyHolders(k)) + 1
                BY <1>2, <2>2, <3>1, FS_AddElement DEF Booked
            <4> QED
                BY <1>1, <1>2, <2>2, <3>1, <4>1 DEF Booked
        <3> QED
            BY <1>1, <2>2, <3>1 DEF Booked
    <2>3. CASE Freed(r)
        <3>1. CASE k = call[r].key
            <4>1. Cardinality(KeyHolders(k) \ {r}) = Cardinality(KeyHolders(k)) - 1
                BY <1>2, <2>3, <3>1, FS_RemoveElement DEF Freed
            <4>2. KeyHolders(k) # {}
                BY <2>3, <3>1 DEF Freed
            <4>3. Cardinality(KeyHolders(k)) # 0
                BY <1>2, <4>2, FS_EmptySet
            <4>4. inFlight'[k] = max64(0, inFlight[k] - 1)
                BY <1>1, <2>3, <3>1 DEF Freed, GivenBack
            <4>5. KeyHolders(k)' = KeyHolders(k) \ {r}
                BY <2>3, <3>1 DEF Freed
            <4> QED
                BY <1>1, <1>2, <4>1, <4>3, <4>4, <4>5 DEF max64
        <3> QED
            BY <1>1, <2>3, <3>1 DEF Freed, GivenBack
    <2>4. CASE FreedAgain(r)
        BY <1>1, <1>2, <2>4 DEF FreedAgain, GivenBack, max64
    <2> QED
        BY <1>3, <2>1, <2>2, <2>3, <2>4, FlightStep
<1>4. CASE Die
    BY <1>4, FlightDies, FS_EmptySet
<1>5. CASE (Administer \/ Background \/ Tick) /\ UNCHANGED call
    BY <1>1, <1>2, <1>5, FlightOthers
<1>6. CASE UNCHANGED vars
    BY <1>1, <1>6 DEF vars, storeVars, ledger, KeyHolders
<1> QED
    BY <1>3, <1>4, <1>5, <1>6 DEF RelayNext, Administer

\* InFlightBounded: routing never counts a request that is over, across
\* deletions, restarts and clients that go away, whatever is released twice.
THEOREM RelayInFlightBounded == RelaySpec => []InFlightBounded
<1>1. RelayInit => InFlightBounded
    <2> SUFFICES ASSUME RelayInit, NEW k \in KeyIDs
                 PROVE  inFlight[k] <= Cardinality(KeyHolders(k))
        BY DEF InFlightBounded
    <2>1. inFlight[k] = 0
        BY DEF RelayInit, Init
    <2>2. Cardinality(KeyHolders(k)) \in Nat
        BY HoldersFinite
    <2> QED
        BY <2>1, <2>2
<1> QED
    BY <1>1, BoundedStep, RelayInvariant, PTL DEF RelaySpec

-----------------------------------------------------------------------------
(* Exactness, as long as no client has gone away during a call.             *)

\* A request that has chosen a key has chosen one that was drawn.
HeldIssued == \A r \in Requests : call[r].key \in issued \cup {Nil}

ExactInv == RelayInv /\ InFlightBounded /\ KeysIssued /\ HeldIssued /\ InFlightExact

LEMMA HandleRegistry ==
    ASSUME NEW r \in Requests, Start(r) \/ Handle(r)
    PROVE  UNCHANGED registry
<1>1. CASE Start(r) \/ Check(r) \/ Reserve(r) \/ ChooseKey(r) \/ BookKey(r)
    BY <1>1 DEF Start, Arrive, Check, Reserve, ReserveUser, ChooseKey, BookKey,
                ReserveKey, ReserveKeyRefused, KeyHourCounter, storeVars
<1>2. CASE Returns(r) \/ CancelKey(r) \/ Settle(r)
    BY <1>2 DEF Returns, CallFails, CallCancelled, CallRejectsOptions,
                CallRefused, CallSucceeds, CancelKey, Settle, Unbook,
                ReleaseKey, SettleKey, AdjustKey, storeVars
<1>3. CASE CancelUser(r) \/ Refund(r) \/ \E n \in Amounts : Forward(r, n)
    BY <1>3 DEF CancelUser, Refund, Forward, ReleaseUser, SettleUser, AdjustUser
<1> QED
    BY <1>1, <1>2, <1>3 DEF Handle

\* A request whose client has gone away stays one.
LEMMA CancelledStep ==
    ASSUME RelayInv, NEW r \in Requests, Start(r) \/ Handle(r), Cancelled' = {}
    PROVE  Cancelled = {}
<1> PICK d : Good(r, d)
    BY RequestGood
<1>1. \A q \in Requests : call'[q] = IF q = r THEN d ELSE call[q]
    BY DEF Good, Becomes, RelayInv, Calls
<1>2. \A q \in Requests : /\ call'[q].pc \notin {"cancelUser", "cancelKey"}
                          /\ call'[q].reply # Own(499)
    BY DEF Cancelled
<1>3. call[r].pc # "cancelUser"
    <2> SUFFICES ASSUME call[r].pc = "cancelUser" PROVE FALSE
        OBVIOUS
    <2>1. CancelUser(r)
        BY DEF Start, Arrive, Handle, Check, Reserve, ChooseKey, BookKey,
               Returns, CallFails, CallCancelled, CallRejectsOptions,
               CallRefused, CallSucceeds, CancelKey, Refund, Forward, Settle
    <2> DEFINE l == LateForUser(r)
               e == [call[r] EXCEPT !.pc = "cancelKey", !.late = l]
    <2>2. call' = [call EXCEPT ![r] = e]
        BY <2>1 DEF CancelUser, Becomes
    <2> HIDE DEF l
    <2>3. e.pc = "cancelKey"
        BY OwnRecord DEF Call
    <2> HIDE DEF e
    <2>4. call'[r] = e
        BY <2>2 DEF RelayInv, Calls
    <2> QED
        BY <1>2, <2>3, <2>4
<1>4. call[r].pc # "cancelKey"
    <2> SUFFICES ASSUME call[r].pc = "cancelKey" PROVE FALSE
        OBVIOUS
    <2>1. CancelKey(r)
        BY DEF Start, Arrive, Handle, Check, Reserve, ChooseKey, BookKey,
               Returns, CallFails, CallCancelled, CallRejectsOptions,
               CallRefused, CallSucceeds, CancelUser, Refund, Forward, Settle
    <2> QED
        BY <1>2, <2>1, FlightAgain DEF FreedAgain
<1>5. call[r].reply # Own(499)
    <2>1. call[r].pc \notin EndPC
        BY DEF EndPC, Start, Arrive, Handle, Check, Reserve, ChooseKey, BookKey,
               Returns, CallFails, CallCancelled, CallRejectsOptions,
               CallRefused, CallSucceeds, CancelUser, CancelKey, Refund,
               Forward, Settle
    <2> QED
        BY <2>1, OwnRecord DEF Sound, Local
<1> QED
    BY <1>1, <1>2, <1>3, <1>4, <1>5 DEF Cancelled

LEMMA HeldStep ==
    ASSUME RelayInv, KeysIssued, HeldIssued, [RelayNext]_vars
    PROVE  KeysIssued' /\ HeldIssued'
<1>1. issued \subseteq issued' /\ KeysIssued'
    <2>1. CASE StoreNext
        BY <2>1, IssueStep DEF RelayInv
    <2>2. CASE UNCHANGED storeVars
        BY <2>2 DEF storeVars, registry, saving, KeysIssued, Present
    <2> QED
        BY <2>1, <2>2, RelayIsStoreStep
<1>2. HeldIssued'
    <2>1. ASSUME NEW r \in Requests, Start(r) \/ Handle(r)
          PROVE  HeldIssued'
        <3>1. PICK d : Good(r, d)
            BY <2>1, RequestGood
        <3>2. \A q \in Requests : call'[q] = IF q = r THEN d ELSE call[q]
            BY <3>1 DEF Good, Becomes, RelayInv, Calls
        <3>3. d.key \in issued \cup {Nil}
            BY <3>1 DEF Good, KeysIssued, HeldIssued
        <3> QED
            BY <1>1, <3>2, <3>3 DEF HeldIssued
    <2>2. CASE UNCHANGED call
        BY <1>1, <2>2 DEF HeldIssued
    <2>3. CASE Die
        <3>1. \A q \in Requests : call'[q].key = call[q].key
            <4> TAKE q \in Requests
            <4>1. call[q] \in Call
                BY OwnRecord
            <4>2. [call[q] EXCEPT !.pc = "dead"].key = call[q].key
                BY <4>1 DEF Call
            <4> QED
                BY <2>3, <4>2 DEF Die
        <3> QED
            BY <1>1, <3>1 DEF HeldIssued
    <2> QED
        BY <2>1, <2>2, <2>3 DEF RelayNext, Administer, vars
<1> QED
    BY <1>1, <1>2

\* Nobody holds a key that was never drawn, so its number is zero.
LEMMA NewKey ==
    ASSUME RelayInv, InFlightBounded, HeldIssued, NEW k \in KeyIDs, k \notin issued
    PROVE  inFlight[k] = 0 /\ Cardinality(KeyHolders(k)) = 0
<1>1. KeyHolders(k) = {}
    BY RelayAssumption DEF HeldIssued, KeyHolders
<1>2. Cardinality(KeyHolders(k)) = 0
    BY <1>1, FS_EmptySet
<1> QED
    BY <1>2 DEF InFlightBounded, RelayInv, Typed, TypedLedger

LEMMA ExactStep ==
    ASSUME ExactInv, [RelayNext]_vars
    PROVE  InFlightExact'
<1> SUFFICES ASSUME Cancelled' = {}, NEW k \in Present(upstreamKeys)'
             PROVE  inFlight'[k] = Cardinality(KeyHolders(k)')
    BY DEF InFlightExact
<1> USE DEF ExactInv
<1>0. RelayInv'
    BY RelayStep
<1>1. k \in KeyIDs /\ upstreamKeys'[k] # Nil
    BY <1>0 DEF RelayInv, Typed, TypedRegistry, Present
<1>2. inFlight \in [KeyIDs -> Nat] /\ inFlight[k] \in Nat
    BY <1>1 DEF RelayInv, Typed, TypedLedger
<1>3. ASSUME Cancelled = {}, k \in Present(upstreamKeys) \/ k \notin issued
      PROVE  inFlight[k] = Cardinality(KeyHolders(k))
    BY <1>1, <1>3, NewKey DEF InFlightExact
<1>4. ASSUME NEW r \in Requests, Start(r) \/ Handle(r)
      PROVE  inFlight'[k] = Cardinality(KeyHolders(k)')
    <2>1. k \in Present(upstreamKeys)
        BY <1>4, HandleRegistry DEF registry, Present
    <2>2. Cancelled = {}
        BY <1>4, CancelledStep
    <2>3. inFlight[k] = Cardinality(KeyHolders(k))
        BY <1>3, <2>1, <2>2
    <2>4. IsFiniteSet(KeyHolders(k))
        BY HoldersFinite
    <2>5. CASE Same
        BY <1>1, <2>3, <2>5 DEF Same
    <2>6. CASE Booked(r)
        <3>1. CASE k = call[r].key
            <4>1. Cardinality(KeyHolders(k) \cup {r}) = Cardinality(KeyHolders(k)) + 1
                BY <2>4, <2>6, <3>1, FS_AddElement DEF Booked
            <4>2. inFlight'[k] = inFlight[k] + 1
                BY <1>1, <1>2, <2>6, <3>1 DEF Booked
            <4>3. KeyHolders(k)' = KeyHolders(k) \cup {r}
                BY <1>1, <2>6, <3>1 DEF Booked
            <4> QED
                BY <2>3, <4>1, <4>2, <4>3
        <3> QED
            BY <1>1, <1>2, <2>3, <2>6, <3>1 DEF Booked
    <2>7. CASE Freed(r)
        <3>1. CASE k = call[r].key
            <4>1. r \in KeyHolders(k) /\ KeyHolders(k)' = KeyHolders(k) \ {r}
                BY <1>1, <2>7, <3>1 DEF Freed
            <4>2. Cardinality(KeyHolders(k) \ {r}) = Cardinality(KeyHolders(k)) - 1
                BY <2>4, <4>1, FS_RemoveElement
            <4>3. inFlight[k] # 0
                BY <2>3, <2>4, <4>1, FS_EmptySet
            <4>4. inFlight'[k] = max64(0, inFlight[k] - 1)
                BY <1>1, <1>2, <2>7, <3>1 DEF Freed, GivenBack
            <4> QED
                BY <1>2, <2>3, <4>1, <4>2, <4>3, <4>4 DEF max64
        <3> QED
            BY <1>1, <1>2, <2>3, <2>7, <3>1 DEF Freed, GivenBack
    <2>8. CASE FreedAgain(r)
        BY <2>8 DEF FreedAgain, Cancelled
    <2> QED
        BY <1>4, <2>5, <2>6, <2>7, <2>8, FlightStep
<1>5. CASE Die
    BY <1>1, <1>5, FlightDies, FS_EmptySet
<1>6. CASE (Administer \/ Background \/ Tick) /\ UNCHANGED call
    <2>1. Cancelled = {}
        BY <1>6 DEF Cancelled
    <2>2. inFlight'[k] = inFlight[k] /\ KeyHolders(k)' = KeyHolders(k)
        BY <1>1, <1>6, FlightOthers
    <2>3. k \in Present(upstreamKeys) \/ k \notin issued
        BY <1>6, NoNewKey DEF RelayInv, Administer, Managing
    <2> QED
        BY <1>3, <2>1, <2>2, <2>3
<1>7. CASE UNCHANGED vars
    <2>1. k \in Present(upstreamKeys) /\ Cancelled = {}
        BY <1>7 DEF vars, storeVars, registry, Present, Cancelled
    <2> QED
        BY <1>3, <1>7, <2>1 DEF vars, storeVars, ledger, KeyHolders
<1> QED
    BY <1>4, <1>5, <1>6, <1>7 DEF RelayNext, Administer

LEMMA ExactInit == RelayInit => ExactInv
<1> SUFFICES ASSUME RelayInit PROVE ExactInv
    OBVIOUS
<1>1. RelayInv
    BY RelayInitInv
<1>2. \A k : KeyHolders(k) = {}
    BY DEF RelayInit, NotArrived, KeyHolders
<1>3. \A k \in KeyIDs : inFlight[k] = 0 /\ Cardinality(KeyHolders(k)) = 0
    BY <1>2, FS_EmptySet DEF RelayInit, Init
<1>4. InFlightBounded
    BY <1>3 DEF InFlightBounded
<1>5. KeysIssued
    BY <1>1 DEF RelayInit, Init, KeysIssued, Present, RelayInv, Typed,
                TypedRegistry
<1>6. HeldIssued
    BY DEF RelayInit, NotArrived, HeldIssued
<1>7. InFlightExact
    BY <1>1, <1>3 DEF InFlightExact, Present, RelayInv, Typed, TypedRegistry
<1> QED
    BY <1>1, <1>4, <1>5, <1>6, <1>7 DEF ExactInv

\* InFlightExact: every path through the loop gives a key back exactly once,
\* for any number of requests, as long as no client goes away during a call.
THEOREM RelayInFlightExact == RelaySpec => []InFlightExact
<1>1. ExactInv /\ [RelayNext]_vars => ExactInv'
    BY RelayStep, BoundedStep, HeldStep, ExactStep DEF ExactInv
<1>2. ExactInv => InFlightExact
    BY DEF ExactInv
<1> QED
    BY <1>1, <1>2, ExactInit, PTL DEF RelaySpec

-----------------------------------------------------------------------------
(* Sums over a finite set.  The library folds a function over a set, taking *)
(* one element after the other; what such a fold is for all sets cannot be  *)
(* had from an induction rule for operators, so the least counterexample is *)
(* taken of a set of numbers, or of subsets.                                *)

LEMMA Least ==
    ASSUME NEW T \in SUBSET Nat, T # {}
    PROVE  \E n \in T : \A m \in T : n <= m
<1> DEFINE R == OpToRel(<, Nat)
<1>1. IsWellFoundedOn(R, Nat)
    BY NatLessThanWellFounded, Zenon
<1>2. \A m, n \in Nat : m < n => <<m, n>> \in R
    BY DEF OpToRel
<1> HIDE DEF R
<1>3. PICK n \in T : \A m \in T : ~(<<m, n>> \in R)
    BY <1>1, WFMin
<1>4. ASSUME NEW m \in T
      PROVE  n <= m
    <2>1. m \in Nat /\ n \in Nat
        OBVIOUS
    <2>2. ~(m < n)
        BY <1>2, <1>3, <2>1
    <2> QED
        BY <2>1, <2>2
<1> QED
    BY <1>4

\* Induction over the numbers, of a set instead of a predicate.
LEMMA AllNumbers ==
    ASSUME NEW T, 0 \in T, \A n \in Nat : n \in T => n + 1 \in T
    PROVE  Nat \subseteq T
<1> DEFINE R == Nat \ T
<1> SUFFICES ASSUME R # {} PROVE FALSE
    OBVIOUS
<1>1. PICK n \in R : \A m \in R : n <= m
    BY Least
<1>2. n \in Nat /\ n # 0
    OBVIOUS
<1>3. n - 1 \in Nat /\ n - 1 \notin R
    BY <1>1, <1>2
<1> QED
    BY <1>2, <1>3

\* The element a fold takes first.
First(s) == CHOOSE x \in s : TRUE

\* g adds up f over s, from what it is without one element.
Adds(f, g, s) == g[s] = IF s = {} THEN 0 ELSE f[First(s)] + g[s \ {First(s)}]

\* The subsets of S with n elements at most.
UpTo(S, n) == {s \in SUBSET S : Cardinality(s) <= n}

\* A subset that loses its first element is smaller.
LEMMA Smaller ==
    ASSUME NEW S, IsFiniteSet(S), NEW n \in Nat, NEW s \in UpTo(S, n), s # {}
    PROVE  /\ n # 0
           /\ First(s) \in s
           /\ s \ {First(s)} \in UpTo(S, n - 1)
           /\ s \ {First(s)} \in UpTo(S, n)
<1>1. First(s) \in s
    BY DEF First
<1>2. IsFiniteSet(s) /\ Cardinality(s) \in Nat /\ Cardinality(s) # 0
    BY FS_Subset, FS_CardinalityType, FS_EmptySet DEF UpTo
<1>3. Cardinality(s \ {First(s)}) = Cardinality(s) - 1
    BY <1>1, <1>2, FS_RemoveElement
<1> QED
    BY <1>1, <1>2, <1>3 DEF UpTo

LEMMA UpToAll ==
    ASSUME NEW S, IsFiniteSet(S)
    PROVE  /\ Cardinality(S) \in Nat
           /\ SUBSET S = UpTo(S, Cardinality(S))
           /\ UpTo(S, 0) = {{}}
<1>1. \A s \in SUBSET S : IsFiniteSet(s) /\ Cardinality(s) \in Nat
                          /\ Cardinality(s) <= Cardinality(S)
                          /\ (Cardinality(s) = 0 <=> s = {})
    BY FS_Subset, FS_CardinalityType, FS_EmptySet
<1>2. Cardinality({}) = 0
    BY FS_EmptySet
<1> QED
    BY <1>1, <1>2, FS_CardinalityType DEF UpTo

\* Induction over the subsets of S, one element more at a time.
LEMMA AllSubsets ==
    ASSUME NEW S, IsFiniteSet(S), NEW T, {} \in T,
           \A s \in SUBSET S : s # {} /\ s \ {First(s)} \in T => s \in T
    PROVE  SUBSET S \subseteq T
<1> DEFINE N == {n \in Nat : UpTo(S, n) \subseteq T}
<1>1. 0 \in N
    BY UpToAll
<1>2. ASSUME NEW n \in Nat, n \in N
      PROVE  n + 1 \in N
    <2>1. n + 1 \in Nat /\ (n + 1) - 1 = n
        OBVIOUS
    <2>2. ASSUME NEW s \in UpTo(S, n + 1)
          PROVE  s \in T
        <3>1. s \in SUBSET S
            BY DEF UpTo
        <3>2. s # {} => s \ {First(s)} \in UpTo(S, n)
            BY <2>1, Smaller
        <3> QED
            BY <1>2, <3>1, <3>2
    <2> QED
        BY <2>1, <2>2
<1> HIDE DEF N
<1>3. Nat \subseteq N
    BY <1>1, <1>2, AllNumbers
<1>4. Cardinality(S) \in N
    BY <1>3, UpToAll
<1> QED
    BY <1>4, UpToAll DEF N

\* There is such an addition: one for the subsets of n elements at most gives
\* one for those of n + 1.
LEMMA SumExists ==
    ASSUME NEW S, IsFiniteSet(S), NEW f \in [S -> Int]
    PROVE  \E g \in [SUBSET S -> Int] : \A s \in SUBSET S : Adds(f, g, s)
<1> DEFINE Works(n) == \E g \in [SUBSET S -> Int] :
                          \A s \in UpTo(S, n) : Adds(f, g, s)
<1>1. Works(0)
    <2> DEFINE g == [s \in SUBSET S |-> 0]
    <2>1. g \in [SUBSET S -> Int] /\ \A s \in UpTo(S, 0) : Adds(f, g, s)
        BY UpToAll DEF Adds
    <2> QED
        BY <2>1
<1>2. ASSUME NEW n \in Nat, Works(n)
      PROVE  Works(n + 1)
    <2> PICK g \in [SUBSET S -> Int] : \A s \in UpTo(S, n) : Adds(f, g, s)
        BY <1>2
    <2> DEFINE Next(s) == IF s = {} THEN 0 ELSE f[First(s)] + g[s \ {First(s)}]
               h == [s \in SUBSET S |-> Next(s)]
    <2>1. ASSUME NEW s \in SUBSET S, s # {}
          PROVE  First(s) \in S
        BY <2>1 DEF First
    <2>a. ASSUME NEW s \in SUBSET S
          PROVE  Next(s) \in Int
        <3>1. CASE s = {}
            BY <3>1
        <3>2. CASE s # {}
            <4>1. First(s) \in S /\ s \ {First(s)} \in SUBSET S
                BY <2>1, <3>2
            <4>2. f[First(s)] \in Int /\ g[s \ {First(s)}] \in Int
                BY <4>1
            <4> QED
                BY <3>2, <4>2
        <3> QED
            BY <3>1, <3>2
    <2>b. \A s \in SUBSET S : h[s] = Next(s)
        OBVIOUS
    <2>2. h \in [SUBSET S -> Int]
        <3> HIDE DEF Next
        <3> QED
            BY <2>a
    <2>3. ASSUME NEW s \in UpTo(S, n + 1)
          PROVE  Adds(f, h, s)
        <3>1. s \in SUBSET S
            BY DEF UpTo
        <3>2. CASE s = {}
            BY <3>1, <3>2 DEF Adds
        <3>3. CASE s # {}
            <4>1. s \ {First(s)} \in UpTo(S, n)
                <5>1. n + 1 \in Nat /\ (n + 1) - 1 = n
                    OBVIOUS
                <5> QED
                    BY <3>3, <5>1, Smaller
            <4>2. g[s \ {First(s)}] = h[s \ {First(s)}]
                BY <4>1 DEF Adds, UpTo
            <4>3. h[s] = f[First(s)] + g[s \ {First(s)}]
                BY <3>1, <3>3
            <4> QED
                BY <3>3, <4>2, <4>3 DEF Adds
        <3> QED
            BY <3>2, <3>3
    <2> QED
        BY <2>2, <2>3
<1> HIDE DEF Works
<1>3. Nat \subseteq {n \in Nat : Works(n)}
    <2> DEFINE N == {n \in Nat : Works(n)}
    <2>1. 0 \in N /\ \A n \in Nat : n \in N => n + 1 \in N
        BY <1>1, <1>2
    <2>2. Nat \subseteq N
        <3> HIDE DEF N
        <3> QED
            BY <2>1, AllNumbers
    <2> QED
        BY <2>2
<1>4. Works(Cardinality(S))
    BY <1>3, UpToAll
<1> QED
    BY <1>4, UpToAll DEF Works

\* There is one result.
LEMMA SumUnique ==
    ASSUME NEW S, IsFiniteSet(S), NEW f \in [S -> Int], NEW c, NEW g,
           \A s \in SUBSET S : Adds(f, c, s) /\ Adds(f, g, s)
    PROVE  c[S] = g[S]
<1> DEFINE T == {s \in SUBSET S : c[s] = g[s]}
<1>1. {} \in T
    BY DEF Adds
<1>2. \A s \in SUBSET S : s # {} /\ s \ {First(s)} \in T => s \in T
    BY DEF Adds
<1>3. SUBSET S \subseteq T
    <2> HIDE DEF T
    <2> QED
        BY <1>1, <1>2, AllSubsets
<1> QED
    BY <1>3

\* The library's sum is its result.
LEMMA SumAdds ==
    ASSUME NEW S, IsFiniteSet(S), NEW f \in [S -> Int]
    PROVE  \E g \in [SUBSET S -> Int] :
              /\ \A s \in SUBSET S : Adds(f, g, s)
              /\ SumFunction(f) = g[S]
<1> DEFINE G(g) == [s \in SUBSET S |-> IF s = {} THEN 0
                                      ELSE f[First(s)] + g[s \ {First(s)}]]
           c == CHOOSE g : g = G(g)
<1>1. SumFunction(f) = c[S]
    BY DEF SumFunction, SumFunctionOnSet, FoldFunctionOnSet, MapThenFoldSet, First
<1>2. PICK g \in [SUBSET S -> Int] : \A s \in SUBSET S : Adds(f, g, s)
    BY SumExists
<1>3. g = G(g)
    BY <1>2 DEF Adds
<1>4. c = G(c)
    BY <1>3
<1> HIDE DEF c
<1>5. \A s \in SUBSET S : /\ Adds(f, c, s) /\ Adds(f, g, s)
    BY <1>2, <1>4 DEF Adds
<1> HIDE DEF G
<1>6. c[S] = g[S]
    BY <1>5, SumUnique
<1> QED
    BY <1>1, <1>2, <1>6

LEMMA SumType ==
    ASSUME NEW S, IsFiniteSet(S), NEW f \in [S -> Nat]
    PROVE  SumFunction(f) \in Nat
<1>1. f \in [S -> Int]
    OBVIOUS
<1>2. PICK g \in [SUBSET S -> Int] : /\ \A s \in SUBSET S : Adds(f, g, s)
                                     /\ SumFunction(f) = g[S]
    BY <1>1, SumAdds
<1> DEFINE T == {s \in SUBSET S : g[s] \in Nat}
<1>3. {} \in T
    <2>1. g[{}] = 0
        BY <1>2 DEF Adds
    <2> QED
        BY <2>1
<1>4. ASSUME NEW s \in SUBSET S, s # {}, s \ {First(s)} \in T
      PROVE  s \in T
    <2>1. First(s) \in S
        BY <1>4 DEF First
    <2>2. f[First(s)] \in Nat /\ g[s \ {First(s)}] \in Nat
        BY <1>4, <2>1
    <2>3. g[s] = f[First(s)] + g[s \ {First(s)}]
        BY <1>2, <1>4 DEF Adds
    <2> QED
        BY <2>2, <2>3
<1>5. SUBSET S \subseteq T
    <2> HIDE DEF T
    <2> QED
        BY <1>3, <1>4, AllSubsets
<1> QED
    BY <1>2, <1>5

LEMMA SumZero ==
    ASSUME NEW S, IsFiniteSet(S), NEW f \in [S -> Int], \A x \in S : f[x] = 0
    PROVE  SumFunction(f) = 0
<1>1. PICK g \in [SUBSET S -> Int] : /\ \A s \in SUBSET S : Adds(f, g, s)
                                     /\ SumFunction(f) = g[S]
    BY SumAdds
<1> DEFINE T == {s \in SUBSET S : g[s] = 0}
<1>2. {} \in T
    BY <1>1 DEF Adds
<1>3. ASSUME NEW s \in SUBSET S, s # {}, s \ {First(s)} \in T
      PROVE  s \in T
    <2>1. First(s) \in S
        BY <1>3 DEF First
    <2> QED
        BY <1>1, <1>3, <2>1 DEF Adds
<1>4. SUBSET S \subseteq T
    <2> HIDE DEF T
    <2> QED
        BY <1>2, <1>3, AllSubsets
<1> QED
    BY <1>1, <1>4

\* One summand changes, and the sum by as much.
LEMMA SumChange ==
    ASSUME NEW S, IsFiniteSet(S), NEW f \in [S -> Int], NEW h \in [S -> Int],
           NEW x \in S, \A y \in S \ {x} : h[y] = f[y]
    PROVE  SumFunction(h) = SumFunction(f) + (h[x] - f[x])
<1>1. PICK g \in [SUBSET S -> Int] : /\ \A s \in SUBSET S : Adds(f, g, s)
                                     /\ SumFunction(f) = g[S]
    BY SumAdds
<1>2. PICK i \in [SUBSET S -> Int] : /\ \A s \in SUBSET S : Adds(h, i, s)
                                     /\ SumFunction(h) = i[S]
    BY SumAdds
<1> DEFINE Moved(s) == i[s] = IF x \in s THEN g[s] + (h[x] - f[x]) ELSE g[s]
           T == {s \in SUBSET S : Moved(s)}
<1>3. {} \in T
    BY <1>1, <1>2 DEF Adds
<1>4. ASSUME NEW s \in SUBSET S, s # {}, s \ {First(s)} \in T
      PROVE  s \in T
    <2> DEFINE y == First(s)
               t == s \ {First(s)}
    <2>1. y \in s /\ y \in S /\ t \in SUBSET S
        BY <1>4 DEF First
    <2>2. g[s] = f[y] + g[t] /\ i[s] = h[y] + i[t]
        BY <1>1, <1>2, <1>4 DEF Adds
    <2>3. f[y] \in Int /\ h[y] \in Int /\ f[x] \in Int /\ h[x] \in Int
          /\ g[t] \in Int /\ i[t] \in Int
        BY <2>1
    <2>4. y # x => h[y] = f[y]
        BY <2>1
    <2>5. (x \in s <=> x = y \/ x \in t) /\ y \notin t
        BY <2>1
    <2>6. i[t] = IF x \in t THEN g[t] + (h[x] - f[x]) ELSE g[t]
        BY <1>4
    <2> HIDE DEF y, t
    <2>7. CASE x = y
        BY <2>2, <2>3, <2>5, <2>6, <2>7
    <2>8. CASE x # y
        BY <2>2, <2>3, <2>4, <2>5, <2>6, <2>8
    <2> QED
        BY <2>7, <2>8
<1>5. SUBSET S \subseteq T
    <2> HIDE DEF T
    <2> QED
        BY <1>3, <1>4, AllSubsets
<1> QED
    BY <1>1, <1>2, <1>5

-----------------------------------------------------------------------------
(* What all requests owe.                                                   *)

LEMMA TokensType ==
    ASSUME NEW c \in Call
    PROVE  UserTokens(c) \in Int /\ KeyTokens(c) \in Int
<1>1. c.actual \in Int
    <2>1. c.actual \in Amounts \cup {0}
        BY DEF Call
    <2>2. Amounts \cup {0} \subseteq Int
        BY StoreAssumption
    <2> QED
        BY <2>1, <2>2
<1>2. Est(c.body) \in Int
    BY EstType DEF Call
<1> QED
    BY <1>1, <1>2 DEF UserTokens, KeyTokens

LEMMA ChargesType ==
    ASSUME NEW c \in Call, NEW i, NEW t
    PROVE  /\ HourCharge(c, i, t) \in Int /\ DayCharge(c, i, t) \in Int
           /\ KeyCharge(c, i, t) \in Int
    BY TokensType DEF HourCharge, DayCharge, KeyCharge

LEMMA OwedType ==
    ASSUME call \in [Requests -> Call], NEW i, NEW t
    PROVE  HourOwed(i, t) \in Int /\ DayOwed(i, t) \in Int /\ KeyOwed(i, t) \in Int
<1>1. IsFiniteSet(Requests)
    BY RelayAssumption
<1>2. \A r \in Requests : call[r] \in Call
    OBVIOUS
<1>3. /\ [r \in Requests |-> HourCharge(call[r], i, hourStart(t))] \in [Requests -> Int]
      /\ [r \in Requests |-> DayCharge(call[r], i, dayStart(t))] \in [Requests -> Int]
      /\ [r \in Requests |-> KeyCharge(call[r], i, hourStart(t))] \in [Requests -> Int]
    BY <1>2, ChargesType
<1>4. ASSUME NEW f \in [Requests -> Int] PROVE SumFunction(f) \in Int
    <2>1. PICK g \in [SUBSET Requests -> Int] : SumFunction(f) = g[Requests]
        BY <1>1, SumAdds
    <2> QED
        BY <2>1
<1> QED
    BY <1>3, <1>4 DEF HourOwed, DayOwed, KeyOwed

\* A step of r changes the sums by what r owes more.
LEMMA OwedAfter ==
    ASSUME call \in [Requests -> Call], NEW r \in Requests, NEW d \in Call,
           call' = [call EXCEPT ![r] = d], clock' = clock, NEW i
    PROVE  LET c == call[r]
               h == hourStart(clock)
               s == dayStart(clock)
           IN  /\ HourOwed(i, clock)' = HourOwed(i, clock)
                      + (HourCharge(d, i, h) - HourCharge(c, i, h))
               /\ DayOwed(i, clock)' = DayOwed(i, clock)
                      + (DayCharge(d, i, s) - DayCharge(c, i, s))
               /\ KeyOwed(i, clock)' = KeyOwed(i, clock)
                      + (KeyCharge(d, i, h) - KeyCharge(c, i, h))
<1> DEFINE c == call[r]
           h == hourStart(clock)
           s == dayStart(clock)
           a1 == [q \in Requests |-> HourCharge(call[q], i, h)]
           a2 == [q \in Requests |-> DayCharge(call[q], i, s)]
           a3 == [q \in Requests |-> KeyCharge(call[q], i, h)]
           b1 == [q \in Requests |-> HourCharge(call'[q], i, h)]
           b2 == [q \in Requests |-> DayCharge(call'[q], i, s)]
           b3 == [q \in Requests |-> KeyCharge(call'[q], i, h)]
<1>1. IsFiniteSet(Requests)
    BY RelayAssumption
<1>2. /\ \A q \in Requests : call[q] \in Call /\ call'[q] \in Call
      /\ \A q \in Requests \ {r} : call'[q] = call[q]
      /\ call'[r] = d
    OBVIOUS
<1>3. /\ a1 \in [Requests -> Int] /\ b1 \in [Requests -> Int]
      /\ \A q \in Requests \ {r} : b1[q] = a1[q]
      /\ a1[r] = HourCharge(c, i, h) /\ b1[r] = HourCharge(d, i, h)
    BY <1>2, ChargesType
<1>4. /\ a2 \in [Requests -> Int] /\ b2 \in [Requests -> Int]
      /\ \A q \in Requests \ {r} : b2[q] = a2[q]
      /\ a2[r] = DayCharge(c, i, s) /\ b2[r] = DayCharge(d, i, s)
    BY <1>2, ChargesType
<1>5. /\ a3 \in [Requests -> Int] /\ b3 \in [Requests -> Int]
      /\ \A q \in Requests \ {r} : b3[q] = a3[q]
      /\ a3[r] = KeyCharge(c, i, h) /\ b3[r] = KeyCharge(d, i, h)
    BY <1>2, ChargesType
<1>6. /\ HourOwed(i, clock) = SumFunction(a1) /\ HourOwed(i, clock)' = SumFunction(b1)
      /\ DayOwed(i, clock) = SumFunction(a2) /\ DayOwed(i, clock)' = SumFunction(b2)
      /\ KeyOwed(i, clock) = SumFunction(a3) /\ KeyOwed(i, clock)' = SumFunction(b3)
    BY DEF HourOwed, DayOwed, KeyOwed, hourStart, dayStart
<1> HIDE DEF a1, a2, a3, b1, b2, b3
<1>9. SumFunction(b1) = SumFunction(a1) + (b1[r] - a1[r])
    BY <1>1, <1>3, SumChange, ZenonT(60)
<1>10. SumFunction(b2) = SumFunction(a2) + (b2[r] - a2[r])
    BY <1>1, <1>4, SumChange, ZenonT(60)
<1>11. SumFunction(b3) = SumFunction(a3) + (b3[r] - a3[r])
    BY <1>1, <1>5, SumChange, ZenonT(60)
<1> QED
    BY <1>3, <1>4, <1>5, <1>6, <1>9, <1>10, <1>11

\* Nothing is owed where no request owes anything.
LEMMA NothingOwed ==
    ASSUME NEW i, NEW t
    PROVE  /\ (\A r \in Requests : HourCharge(call[r], i, hourStart(t)) = 0)
                => HourOwed(i, t) = 0
           /\ (\A r \in Requests : DayCharge(call[r], i, dayStart(t)) = 0)
                => DayOwed(i, t) = 0
           /\ (\A r \in Requests : KeyCharge(call[r], i, hourStart(t)) = 0)
                => KeyOwed(i, t) = 0
<1> DEFINE a1 == [r \in Requests |-> HourCharge(call[r], i, hourStart(t))]
           a2 == [r \in Requests |-> DayCharge(call[r], i, dayStart(t))]
           a3 == [r \in Requests |-> KeyCharge(call[r], i, hourStart(t))]
<1>0. /\ HourOwed(i, t) = SumFunction(a1) /\ DayOwed(i, t) = SumFunction(a2)
      /\ KeyOwed(i, t) = SumFunction(a3)
    BY DEF HourOwed, DayOwed, KeyOwed
<1>1. IsFiniteSet(Requests)
    BY RelayAssumption
<1>2. ASSUME \A r \in Requests : HourCharge(call[r], i, hourStart(t)) = 0
      PROVE  HourOwed(i, t) = 0
    <2>1. a1 \in [Requests -> Int] /\ \A r \in Requests : a1[r] = 0
        BY <1>2
    <2> HIDE DEF a1
    <2> QED
        BY <1>0, <1>1, <2>1, SumZero
<1>3. ASSUME \A r \in Requests : DayCharge(call[r], i, dayStart(t)) = 0
      PROVE  DayOwed(i, t) = 0
    <2>1. a2 \in [Requests -> Int] /\ \A r \in Requests : a2[r] = 0
        BY <1>3
    <2> HIDE DEF a2
    <2> QED
        BY <1>0, <1>1, <2>1, SumZero
<1>4. ASSUME \A r \in Requests : KeyCharge(call[r], i, hourStart(t)) = 0
      PROVE  KeyOwed(i, t) = 0
    <2>1. a3 \in [Requests -> Int] /\ \A r \in Requests : a3[r] = 0
        BY <1>4
    <2> HIDE DEF a3
    <2> QED
        BY <1>0, <1>1, <2>1, SumZero
<1> QED
    BY <1>2, <1>3, <1>4

LEMMA SameOwed ==
    ASSUME call' = call, clock' = clock, NEW i
    PROVE  /\ HourOwed(i, clock)' = HourOwed(i, clock)
           /\ DayOwed(i, clock)' = DayOwed(i, clock)
           /\ KeyOwed(i, clock)' = KeyOwed(i, clock)
    BY DEF HourOwed, DayOwed, KeyOwed, hourStart, dayStart

-----------------------------------------------------------------------------
(* How a step of a request moves what it owes and what is charged.          *)

\* What the proofs need of the record of a request, beside Local and Told.
Timely(c) ==
    /\ c.pc \in EarlyPC => ~c.late
    /\ c.pc = "refund" => c.reply.body # "upstream"
    /\ c.window <= clock /\ c.keyWindow <= clock
    /\ c.actual \in Nat

ChargeInv == TellInv /\ Measured /\ \A r \in Requests : Timely(call[r])

\* As long as every charge is a natural number, so is every sum of them.
LEMMA OwedNatural ==
    ASSUME ChargeInv, NEW i, NEW t
    PROVE  HourOwed(i, t) \in Nat /\ DayOwed(i, t) \in Nat /\ KeyOwed(i, t) \in Nat
<1>1. IsFiniteSet(Requests)
    BY RelayAssumption
<1>2. ASSUME NEW r \in Requests
      PROVE  UserTokens(call[r]) \in Nat /\ KeyTokens(call[r]) \in Nat
    <2>1. call[r].body \in Payloads /\ call[r].actual \in Nat
        BY DEF ChargeInv, TellInv, RelayInv, Calls, Call, Timely
    <2>2. Est(call[r].body) \in Nat
        BY <2>1 DEF ChargeInv, Measured
    <2> QED
        BY <2>1, <2>2 DEF UserTokens, KeyTokens
<1>3. /\ [r \in Requests |-> HourCharge(call[r], i, hourStart(t))] \in [Requests -> Nat]
      /\ [r \in Requests |-> DayCharge(call[r], i, dayStart(t))] \in [Requests -> Nat]
      /\ [r \in Requests |-> KeyCharge(call[r], i, hourStart(t))] \in [Requests -> Nat]
    BY <1>2 DEF HourCharge, DayCharge, KeyCharge
<1> QED
    BY <1>1, <1>3, SumType DEF HourOwed, DayOwed, KeyOwed

NaturalOwed == \A i : /\ HourOwed(i, clock) \in Nat /\ DayOwed(i, clock) \in Nat
                      /\ KeyOwed(i, clock) \in Nat

LEMMA OwedNow == ChargeInv => NaturalOwed
    BY OwedNatural DEF NaturalOwed

\* A step that leaves the fields which the charges of a user are made of ...
Kept(c, d) == /\ d.user = c.user /\ d.body = c.body
              /\ d.window = c.window /\ d.actual = c.actual

\* ... and those of a key.
KeyKept(c, d) == Kept(c, d) /\ d.key = c.key /\ d.keyWindow = c.keyWindow

\* A step that leaves the user's counters alone, and what c owes to them.
UserQuiet(c, d) ==
    /\ counters' = counters
    /\ UserTokens(d) = UserTokens(c)
    /\ UserTokens(c) # 0 => d.user = c.user /\ d.window = c.window

\* A step that adds to the user's counters what is owed more.
UserCharged(c, d) ==
    /\ d.user = c.user
    /\ d.window = hourStart(clock)
    /\ UserTokens(c) # 0 => c.window = hourStart(clock)
    /\ LET a == countersAt(c.user, clock)
           n == UserTokens(d) - UserTokens(c)
       IN  \/ counters' = [counters EXCEPT ![c.user] = AddedUser(a, n)]
           \/ counters' = [counters EXCEPT ![c.user] = AdjustedUser(a, n)]

\* The same for the counter of a key, as ReserveKey reads it ...
KeyQuiet(c, d) ==
    /\ \A k \in KeyIDs : keyHourAt(k)' = keyHourAt(k)
    /\ KeyTokens(d) = KeyTokens(c)
    /\ KeyTokens(c) # 0 => d.key = c.key /\ d.keyWindow = c.keyWindow

\* ... and as it writes it.
KeyCharged(c, d) ==
    /\ d.key = c.key /\ c.key \in KeyIDs
    /\ d.keyWindow = hourStart(clock)
    /\ KeyTokens(c) # 0 => c.keyWindow = hourStart(clock)
    /\ LET a == keyHourAt(c.key)
           n == KeyTokens(d) - KeyTokens(c)
       IN  \/ keyHours' = [keyHours EXCEPT ![c.key] = Added(a, n)]
           \/ keyHours' = [keyHours EXCEPT ![c.key] = Adjusted(a, n)]

\* The request's client has not gone away.
Staying(d) == d.pc \notin {"cancelUser", "cancelKey"} /\ d.reply # Own(499)

\* In time, a step keeps what is owed and what is charged together.
Moves(c, d) == /\ UserQuiet(c, d) \/ UserCharged(c, d)
               /\ Staying(d) => KeyQuiet(c, d) \/ KeyCharged(c, d)

\* What a step makes of the record of its request.
Progress(c, d) == /\ Timely(d) /\ d.pc # "idle"
                  /\ c.late => d.late
                  /\ ~d.late => Moves(c, d)

LEMMA OwnCharge ==
    ASSUME ChargeInv, NEW r \in Requests
    PROVE  /\ RelayInv /\ call[r] \in Call /\ Local(call[r]) /\ Timely(call[r])
           /\ Told(call[r]) /\ clock \in Time /\ call[r].now <= clock
           /\ call[r].user \in UserIDs /\ call[r].body \in Payloads
           /\ Est(call[r].body) \in Int
    BY OwnRecord, EstType DEF ChargeInv, TellInv, Sound, Call

\* Where nothing is owed and nothing charged, nothing moves.
LEMMA Unmoved ==
    ASSUME RelayInv, UNCHANGED <<counters, keyHours, clock>>,
           NEW c, NEW d, UserTokens(c) = 0, UserTokens(d) = 0,
           KeyTokens(c) = 0, KeyTokens(d) = 0
    PROVE  Moves(c, d)
    BY DEF Moves, UserQuiet, KeyQuiet, keyHourAt

LEMMA Afterwards ==
    ASSUME RelayInv, NEW r \in Requests, NEW d, Becomes(r, d)
    PROVE  call'[r] = d
    BY DEF RelayInv, Calls, Becomes

\* No tokens are touched before the reservation ...
LEMMA StartMoves ==
    ASSUME ChargeInv, NEW r \in Requests, Start(r) \/ Check(r)
    PROVE  Progress(call[r], call'[r])
<1> DEFINE c == call[r]
<1>1. c \in Call /\ Timely(c) /\ RelayInv
    BY OwnCharge
<1>2. UNCHANGED <<counters, keyHours, clock>>
    BY DEF Start, Arrive, Check, storeVars, ledger
<1>3. ASSUME NEW d, call'[r] = d, c.pc \in {"idle", "check"},
             d.pc \in {"check", "reserve", "done"},
             d.pc = "done" => d.reply = Own(429),
             d.window = c.window, d.keyWindow = c.keyWindow, d.late = c.late,
             d.actual = c.actual
      PROVE  Progress(c, d)
    <2>1. /\ UserTokens(c) = 0 /\ UserTokens(d) = 0
          /\ KeyTokens(c) = 0 /\ KeyTokens(d) = 0
        BY <1>3 DEF UserTokens, KeyTokens, Settled, Own
    <2>2. Timely(d)
        BY <1>1, <1>3 DEF Timely, EarlyPC
    <2> QED
        BY <1>1, <1>2, <1>3, <2>1, <2>2, Unmoved DEF Progress
<1>4. CASE Start(r)
    <2> PICK a \in AccessKeyIDs, b \in Payloads, allowed \in BOOLEAN :
            Arrive(r, a, b, allowed)
        BY <1>4 DEF Start
    <2> DEFINE p == IF allowed THEN "check" ELSE "done"
               y == IF allowed THEN NoReply ELSE Own(429)
               d == [c EXCEPT !.pc = p, !.user = accessKeys[a], !.body = b,
                              !.now = clock, !.reply = y]
    <2>1. call'[r] = d /\ c.pc = "idle"
        BY <1>1, Afterwards DEF Arrive
    <2>2. /\ d.pc = p /\ d.reply = y /\ d.actual = c.actual
          /\ d.window = c.window /\ d.keyWindow = c.keyWindow /\ d.late = c.late
        BY <1>1 DEF Call
    <2> HIDE DEF d
    <2> QED
        BY <1>3, <2>1, <2>2
<1>5. CASE Check(r)
    <2> DEFINE x == [c EXCEPT !.pc = "done", !.reply = Own(429)]
               y(h, l) == [c EXCEPT !.pc = "reserve", !.hourly = h, !.daily = l]
    <2>1. c.pc = "check" /\ (call'[r] = x \/ \E h, l : call'[r] = y(h, l))
        <3> DEFINE u == users[c.user]
        <3>1. /\ c.pc = "check"
              /\ \/ Becomes(r, x)
                 \/ Becomes(r, y(HourlyLimit(u), DailyLimit(u)))
            BY <1>5 DEF Check
        <3> HIDE DEF x, y
        <3> QED
            BY <1>1, <3>1, Afterwards
    <2>2. /\ x.pc = "done" /\ x.reply = Own(429) /\ x.late = c.late
          /\ x.window = c.window /\ x.keyWindow = c.keyWindow
          /\ x.actual = c.actual
          /\ \A h, l : /\ y(h, l).pc = "reserve" /\ y(h, l).late = c.late
                       /\ y(h, l).actual = c.actual
                       /\ y(h, l).window = c.window
                       /\ y(h, l).keyWindow = c.keyWindow
        BY <1>1 DEF Call
    <2> HIDE DEF x, y
    <2> QED
        BY <1>3, <2>1, <2>2
<1> QED
    BY <1>4, <1>5

\* ... which charges the estimate to the user, in the window of the request's
\* arrival: the current one, or the request is late.
LEMMA ReserveMoves ==
    ASSUME ChargeInv, NEW r \in Requests, Reserve(r)
    PROVE  Progress(call[r], call'[r])
<1> DEFINE c == call[r]
           x == [c EXCEPT !.pc = "done", !.reply = Own(429)]
           w == hourStart(c.now)
           l == hourStart(c.now) # hourStart(clock)
           y == [c EXCEPT !.pc = "select", !.window = w, !.late = l]
<1>1. /\ c \in Call /\ c.pc = "reserve" /\ c.user \in UserIDs
      /\ c.body \in Payloads /\ c.now \in Time /\ clock \in Time
      /\ RelayInv /\ c.now <= clock /\ Timely(c) /\ ~c.late
    BY OwnCharge DEF Reserve, Call, Timely, EarlyPC
<1>2. UserTokens(c) = 0 /\ KeyTokens(c) = 0
    BY <1>1 DEF UserTokens, KeyTokens, Settled
<1>3. CASE call'[r] = x /\ UNCHANGED storeVars
    <2>1. /\ x.pc = "done" /\ x.reply = Own(429) /\ x.window = c.window
          /\ x.keyWindow = c.keyWindow /\ x.actual = c.actual
        BY <1>1 DEF Call
    <2>2. UserTokens(x) = 0 /\ KeyTokens(x) = 0
        <3> HIDE DEF x
        <3> QED
            BY <2>1 DEF UserTokens, KeyTokens, Settled, Own
    <2> HIDE DEF x
    <2>3. Timely(x)
        BY <1>1, <2>1 DEF Timely, EarlyPC
    <2> QED
        BY <1>1, <1>2, <1>3, <2>1, <2>2, <2>3, Unmoved DEF Progress, storeVars, ledger
<1>4. CASE /\ call'[r] = y
           /\ ReserveUser(c.user, est(r), c.hourly, c.daily, working(r), c.now)
    <2>1. /\ y.pc = "select" /\ y.window = w /\ y.late = l /\ y.user = c.user
          /\ y.body = c.body /\ y.keyWindow = c.keyWindow
          /\ y.actual = c.actual
        BY <1>1 DEF Call
    <2> HIDE DEF y
    <2>a. w <= clock
        <3>1. c.now % HourLen \in 0 .. c.now
            BY <1>1, ClockAssumption, RemainderType DEF Time
        <3> QED
            BY <1>1, <3>1 DEF hourStart, Time
    <2>b. Timely(y)
        <3> HIDE DEF w
        <3> QED
            BY <1>1, <2>1, <2>a DEF Timely, EarlyPC
    <2> SUFFICES ASSUME ~y.late PROVE Moves(c, y)
        BY <1>1, <1>4, <2>1, <2>b DEF Progress
    <2>2. hourStart(c.now) = hourStart(clock)
        BY <1>4, <2>1
    <2>3. countersAt(c.user, c.now) = countersAt(c.user, clock)
        BY <1>1, <2>2, SameDay DEF countersAt
    <2>4. UserTokens(y) = est(r) /\ KeyTokens(y) = 0
        BY <2>1 DEF UserTokens, KeyTokens, Settled, est
    <2>5. est(r) - 0 = est(r)
        BY <1>1, EstType DEF est
    <2>6. counters' = [counters EXCEPT ![c.user] =
                          AddedUser(countersAt(c.user, clock), est(r))]
          /\ keyHours' = keyHours /\ clock' = clock
        BY <1>4, <2>3 DEF ReserveUser
    <2>7. UserCharged(c, y)
        BY <1>2, <2>1, <2>2, <2>4, <2>5, <2>6 DEF UserCharged
    <2>8. KeyQuiet(c, y)
        BY <1>2, <2>4, <2>6 DEF KeyQuiet, keyHourAt
    <2> QED
        BY <2>7, <2>8 DEF Moves
<1> QED
    BY <1>1, <1>3, <1>4, Afterwards DEF Reserve

\* Routing only reads the counters.
LEMMA ChooseMoves ==
    ASSUME ChargeInv, NEW r \in Requests, ChooseKey(r)
    PROVE  Progress(call[r], call'[r])
<1> DEFINE c == call[r]
           x(k, n) == [c EXCEPT !.pc = "reserveKey", !.key = k, !.limit = n]
           y(m) == [c EXCEPT !.pc = "refund", !.reply = Own(m)]
<1>1. /\ c \in Call /\ c.pc = "select" /\ UNCHANGED storeVars
      /\ RelayInv /\ Timely(c)
    BY OwnCharge DEF ChooseKey
<1>2. (\E k, n : Becomes(r, x(k, n))) \/ (\E m : Becomes(r, y(m)))
    <2> DEFINE s == SelectKey(c.user, c.body.model, working(r), c.exclude)
               l(k) == hourlyLimit(upstreamKeys[k], DefaultHourlyTokens)
    <2>1. \/ \E k \in s.key : Becomes(r, x(k, l(k)))
          \/ Becomes(r, y(429)) \/ Becomes(r, y(502))
        BY DEF ChooseKey
    <2> HIDE DEF s, l, x, y
    <2> QED
        BY <2>1
<1>3. /\ \A k, n : /\ x(k, n).pc = "reserveKey" /\ Kept(c, x(k, n))
                   /\ x(k, n).keyWindow = c.keyWindow /\ x(k, n).late = c.late
      /\ \A m : /\ y(m).pc = "refund" /\ Kept(c, y(m)) /\ y(m).reply = Own(m)
                /\ y(m).keyWindow = c.keyWindow /\ y(m).late = c.late
    BY <1>1 DEF Call, Kept
<1> HIDE DEF x, y
<1>4. PICK d : /\ call'[r] = d /\ d.pc \in {"reserveKey", "refund"} /\ Kept(c, d)
               /\ d.keyWindow = c.keyWindow /\ d.late = c.late
               /\ d.pc = "refund" => d.reply.body = "own"
    <2>1. CASE \E k, n : Becomes(r, x(k, n))
        <3>1. PICK k, n : call'[r] = x(k, n)
            BY <1>1, <2>1, Afterwards
        <3> QED
            BY <1>3, <3>1
    <2>2. CASE \E m : Becomes(r, y(m))
        <3>1. PICK m : call'[r] = y(m)
            BY <1>1, <2>2, Afterwards
        <3>2. Own(m).body = "own"
            BY DEF Own
        <3> QED
            BY <1>3, <3>1, <3>2
    <2> QED
        BY <1>2, <2>1, <2>2
<1>5. UserTokens(d) = UserTokens(c) /\ KeyTokens(c) = 0 /\ KeyTokens(d) = 0
    BY <1>1, <1>4 DEF Kept, UserTokens, KeyTokens, Settled
<1>6. Timely(d)
    BY <1>1, <1>4 DEF Timely, EarlyPC, Kept
<1>7. Moves(c, d)
    BY <1>1, <1>4, <1>5
       DEF Kept, Moves, UserQuiet, KeyQuiet, storeVars, ledger, keyHourAt
<1> QED
    BY <1>4, <1>6, <1>7 DEF Progress

\* A refusal rolls the hour of the key over at most.
LEMMA RefusedReads ==
    ASSUME RelayInv, NEW k \in KeyIDs, NEW n, NEW l, NEW w,
           ReserveKeyRefused(k, n, l, w)
    PROVE  counters' = counters /\ \A j \in KeyIDs : keyHourAt(j)' = keyHourAt(j)
<1>1. CASE UNCHANGED storeVars
    BY <1>1 DEF storeVars, ledger, keyHourAt
<1>2. CASE KeyHourCounter(k)
    <2>1. counters' = counters /\ clock' = clock
          /\ keyHours' = [keyHours EXCEPT ![k] = keyHourAt(k)]
        BY <1>2 DEF KeyHourCounter
    <2>2. keyHours \in [KeyIDs -> WindowCounter] /\ clock \in Time
        BY DEF RelayInv, Typed, TypedLedger, TypedClock
    <2>3. hourStart(clock) # ZeroTime
        BY <2>2, StartType DEF Time, ZeroTime
    <2>4. ensureWindow(keyHourAt(k), hourStart(clock)) = keyHourAt(k)
        BY <2>3 DEF keyHourAt, ensureWindow
    <2>5. \A j \in KeyIDs : keyHours'[j] = IF j = k THEN keyHourAt(k) ELSE keyHours[j]
        BY <2>1, <2>2
    <2> QED
        BY <2>1, <2>4, <2>5 DEF keyHourAt
<1> QED
    BY <1>1, <1>2 DEF ReserveKeyRefused

\* The key is charged the estimate, or the request looks for another one.
LEMMA BookMoves ==
    ASSUME ChargeInv, NEW r \in Requests, BookKey(r)
    PROVE  Progress(call[r], call'[r])
<1> DEFINE c == call[r]
           h == hourStart(clock)
           x(a, t) == [c EXCEPT !.pc = "call", !.attempt = a, !.tried = t,
                                !.keyWindow = h]
           y(e) == [c EXCEPT !.pc = "select", !.exclude = e]
<1>1. /\ c \in Call /\ c.pc = "reserveKey" /\ c.key \in KeyIDs
      /\ c.body \in Payloads /\ RelayInv /\ Timely(c) /\ h <= clock
    <2>1. c.pc = "reserveKey"
        BY DEF BookKey
    <2>2. h <= clock
        <3>1. clock \in Time /\ clock % HourLen \in 0 .. clock
            BY OwnCharge, ClockAssumption, RemainderType DEF Time
        <3> QED
            BY <3>1 DEF hourStart, Time
    <2> QED
        BY <2>1, <2>2, OwnCharge DEF Local, KeyPC
<1>2. /\ \A a, t : /\ x(a, t).pc = "call" /\ Kept(c, x(a, t))
                   /\ x(a, t).key = c.key /\ x(a, t).keyWindow = h
                   /\ x(a, t).late = c.late
      /\ \A e : /\ y(e).pc = "select" /\ Kept(c, y(e))
                /\ y(e).keyWindow = c.keyWindow /\ y(e).late = c.late
    BY <1>1 DEF Call, Kept
<1>3. \/ /\ ReserveKey(c.key, est(r), c.limit, working(r))
         /\ \E a, t : call'[r] = x(a, t)
      \/ /\ ReserveKeyRefused(c.key, est(r), c.limit, working(r))
         /\ \E e : call'[r] = y(e)
    BY <1>1, Afterwards DEF BookKey
<1> HIDE DEF x, y
<1>4. CASE /\ ReserveKey(c.key, est(r), c.limit, working(r))
           /\ \E a, t : call'[r] = x(a, t)
    <2>1. PICK d : /\ call'[r] = d /\ d.pc = "call" /\ Kept(c, d)
                   /\ d.key = c.key /\ d.keyWindow = h /\ d.late = c.late
        BY <1>2, <1>4
    <2>2. /\ UserTokens(d) = UserTokens(c)
          /\ KeyTokens(c) = 0 /\ KeyTokens(d) = est(r)
        BY <1>1, <2>1 DEF Kept, UserTokens, KeyTokens, Settled, est
    <2>3. est(r) - 0 = est(r)
        BY <1>1, EstType DEF est
    <2>4. counters' = counters
          /\ keyHours' = [keyHours EXCEPT ![c.key] = Added(keyHourAt(c.key), est(r))]
        BY <1>4 DEF ReserveKey
    <2>5. Timely(d)
        BY <1>1, <2>1 DEF Timely, EarlyPC, Kept
    <2>6. Moves(c, d)
        BY <1>1, <2>1, <2>2, <2>3, <2>4 DEF Kept, Moves, UserQuiet, KeyCharged
    <2> QED
        BY <2>1, <2>5, <2>6 DEF Progress
<1>5. CASE /\ ReserveKeyRefused(c.key, est(r), c.limit, working(r))
           /\ \E e : call'[r] = y(e)
    <2>1. PICK d : /\ call'[r] = d /\ d.pc = "select" /\ Kept(c, d)
                   /\ d.keyWindow = c.keyWindow /\ d.late = c.late
        BY <1>2, <1>5
    <2>2. UserTokens(d) = UserTokens(c) /\ KeyTokens(c) = 0 /\ KeyTokens(d) = 0
        BY <1>1, <2>1 DEF Kept, UserTokens, KeyTokens, Settled
    <2>3. counters' = counters /\ \A j \in KeyIDs : keyHourAt(j)' = keyHourAt(j)
        BY <1>1, <1>5, RefusedReads
    <2>4. Timely(d)
        BY <1>1, <2>1 DEF Timely, EarlyPC, Kept
    <2>5. Moves(c, d)
        BY <2>1, <2>2, <2>3 DEF Kept, Moves, UserQuiet, KeyQuiet
    <2> QED
        BY <2>1, <2>4, <2>5 DEF Progress
<1> QED
    BY <1>3, <1>4, <1>5

\* A call that came to nothing gives the key its tokens back.
LEMMA FreedMoves ==
    ASSUME ChargeInv, NEW r \in Requests, Unbook(r), call[r].pc = "call",
           NEW d, call'[r] = d, KeyKept(call[r], d),
           d.pc \in {"select", "refund"}, d.late = LateForKey(r),
           d.pc = "refund" => d.reply.body # "upstream"
    PROVE  Progress(call[r], d)
<1> DEFINE c == call[r]
           e == est(r)
<1>1. /\ RelayInv /\ c.key \in KeyIDs /\ e \in Int /\ Timely(c)
      /\ e = Est(c.body)
    BY OwnCharge DEF Local, KeyPC, est
<1>2. Timely(d)
    BY <1>1 DEF Timely, EarlyPC, KeyKept, Kept
<1>3. c.late => d.late
    BY DEF LateForKey
<1>4. /\ UserTokens(d) = UserTokens(c)
      /\ KeyTokens(c) = e /\ KeyTokens(d) = 0
    BY <1>1 DEF KeyKept, Kept, UserTokens, KeyTokens, Settled
<1>5. counters' = counters
      /\ keyHours' = [keyHours EXCEPT ![c.key] = Adjusted(keyHourAt(c.key), -e)]
    BY DEF Unbook, ReleaseKey, AdjustKey
<1>6. 0 - e = -e
    BY <1>1
<1>7. ASSUME ~d.late PROVE Moves(c, d)
    <2>1. c.keyWindow = hourStart(clock)
        BY <1>7 DEF LateForKey
    <2>2. UserQuiet(c, d)
        BY <1>4, <1>5 DEF UserQuiet, KeyKept, Kept
    <2>3. KeyCharged(c, d)
        BY <1>1, <1>4, <1>5, <1>6, <2>1 DEF KeyCharged, KeyKept
    <2> QED
        BY <2>2, <2>3 DEF Moves
<1> QED
    BY <1>2, <1>3, <1>7 DEF Progress

\* Every outcome of a call.
LEMMA ReturnMoves ==
    ASSUME ChargeInv, NEW r \in Requests, Returns(r)
    PROVE  Progress(call[r], call'[r])
<1> DEFINE c == call[r]
           l == LateForKey(r)
           p == NextAttempt(r)
           y == IF c.attempt < 2 THEN NoReply ELSE LoopReply(c)
<1>1. /\ RelayInv /\ c \in Call /\ Timely(c) /\ c.pc = "call"
      /\ c.attempt \in 0 .. 2
    BY OwnCharge DEF Returns, CallFails, CallCancelled, CallRejectsOptions,
                     CallRefused, CallSucceeds, Call
<1>2. LoopReply(c).body # "upstream"
    <2>1. LoopReply(c) = LatestError(c.tried)
        BY OwnCharge DEF Told
    <2> QED
        BY <2>1 DEF LatestError, Own
<1>3. p \in {"select", "refund"} /\ (p = "refund" => y.body # "upstream")
    BY <1>1, <1>2 DEF NextAttempt
<1>4. CASE CallFails(r)
    <2> DEFINE e == c.exclude \cup {c.key}
               d == [c EXCEPT !.pc = p, !.exclude = e, !.late = l, !.reply = y]
    <2>1. call'[r] = d /\ Unbook(r)
        BY <1>1, <1>4, Afterwards DEF CallFails
    <2> HIDE DEF p, y, l, e
    <2>2. KeyKept(c, d) /\ d.pc = p /\ d.late = l /\ d.reply = y
        BY <1>1 DEF Call, KeyKept, Kept
    <2> HIDE DEF d
    <2> QED
        BY <1>1, <1>3, <2>1, <2>2, FreedMoves DEF l
<1>5. CASE CallRejectsOptions(r)
    <2> DEFINE t == Answered(r, 400)
               d == [c EXCEPT !.pc = p, !.stripped = TRUE, !.tried = t,
                              !.late = l, !.reply = y]
    <2>1. call'[r] = d /\ Unbook(r)
        BY <1>1, <1>5, Afterwards DEF CallRejectsOptions
    <2> HIDE DEF p, y, l, t
    <2>2. KeyKept(c, d) /\ d.pc = p /\ d.late = l /\ d.reply = y
        BY <1>1 DEF Call, KeyKept, Kept
    <2> HIDE DEF d
    <2> QED
        BY <1>1, <1>3, <2>1, <2>2, FreedMoves DEF l
<1>6. ASSUME NEW code \in Codes, CallRefused(r, code)
      PROVE  Progress(c, call'[r])
    <2> DEFINE x == [code |-> code, body |-> "drained"]
               again == Retryable(code) /\ c.attempt < 2
               q == IF again THEN "select" ELSE "refund"
               z == IF again THEN NoReply ELSE x
               e == IF Retryable(code) THEN c.exclude \cup {c.key} ELSE c.exclude
               s == Answered(r, code)
               d == [c EXCEPT !.pc = q, !.exclude = e, !.tried = s, !.late = l,
                              !.lastResp = x, !.reply = z]
    <2>1. call'[r] = d /\ Unbook(r)
        BY <1>1, <1>6, Afterwards DEF CallRefused
    <2>3. q \in {"select", "refund"} /\ (q = "refund" => z.body # "upstream")
        OBVIOUS
    <2> HIDE DEF q, z, l, e, s, x, again
    <2>2. KeyKept(c, d) /\ d.pc = q /\ d.late = l /\ d.reply = z
        BY <1>1 DEF Call, KeyKept, Kept
    <2> HIDE DEF d
    <2> QED
        BY <1>1, <2>1, <2>2, <2>3, FreedMoves DEF l
<1>7. CASE CallCancelled(r)
    <2> DEFINE d == [c EXCEPT !.pc = "cancelUser", !.late = l]
    <2>1. call'[r] = d /\ counters' = counters
        BY <1>1, <1>7, Afterwards DEF CallCancelled, Unbook, ReleaseKey, AdjustKey
    <2>2. c.late => l
        BY DEF LateForKey
    <2> HIDE DEF l
    <2>3. KeyKept(c, d) /\ d.pc = "cancelUser" /\ d.late = l
        BY <1>1 DEF Call, KeyKept, Kept
    <2> HIDE DEF d
    <2>4. UserTokens(d) = UserTokens(c)
        BY <1>1, <2>3 DEF KeyKept, Kept, UserTokens
    <2>5. Moves(c, d)
        BY <2>1, <2>3, <2>4 DEF Moves, UserQuiet, KeyKept, Kept, Staying
    <2>6. Timely(d)
        BY <1>1, <2>3 DEF Timely, EarlyPC, KeyKept, Kept
    <2> QED
        BY <2>1, <2>2, <2>3, <2>5, <2>6 DEF Progress
<1>8. ASSUME NEW code \in Codes, CallSucceeds(r, code)
      PROVE  Progress(c, call'[r])
    <2> DEFINE s == Answered(r, code)
               z == [code |-> code, body |-> "upstream"]
               d == [c EXCEPT !.pc = "forward", !.tried = s, !.reply = z]
    <2>1. call'[r] = d /\ UNCHANGED storeVars
        BY <1>1, <1>8, Afterwards DEF CallSucceeds
    <2> HIDE DEF s, z
    <2>2. KeyKept(c, d) /\ d.pc = "forward" /\ d.late = c.late
        BY <1>1 DEF Call, KeyKept, Kept
    <2> HIDE DEF d
    <2>3. UserTokens(d) = UserTokens(c) /\ KeyTokens(d) = KeyTokens(c)
        BY <1>1, <2>2 DEF KeyKept, Kept, UserTokens, KeyTokens
    <2>4. Moves(c, d)
        BY <2>1, <2>2, <2>3 DEF Moves, UserQuiet, KeyQuiet, KeyKept, Kept,
                                storeVars, ledger, keyHourAt
    <2>5. Timely(d)
        BY <1>1, <2>2 DEF Timely, EarlyPC, KeyKept, Kept
    <2> QED
        BY <2>1, <2>2, <2>4, <2>5 DEF Progress
<1> QED
    BY <1>4, <1>5, <1>6, <1>7, <1>8 DEF Returns

\* A user is charged the difference, in the window of its reservation.
LEMMA ChargedMoves ==
    ASSUME ChargeInv, NEW r \in Requests, NEW n \in Int,
           AdjustUser(call[r].user, n),
           NEW d, call'[r] = d, d.user = call[r].user, d.actual \in Nat,
           d.window = call[r].window, d.keyWindow = call[r].keyWindow,
           d.pc \notin EarlyPC, d.pc # "refund", d.late = LateForUser(r),
           UserTokens(d) - UserTokens(call[r]) = n,
           ~Staying(d) \/ /\ KeyTokens(d) = KeyTokens(call[r])
                          /\ d.key = call[r].key
    PROVE  Progress(call[r], d)
<1> DEFINE c == call[r]
<1>1. RelayInv /\ Timely(c)
    BY OwnCharge
<1>2. Timely(d) /\ (c.late => d.late)
    BY <1>1 DEF Timely, LateForUser
<1>3. /\ counters' = [counters EXCEPT ![c.user] =
                         AdjustedUser(countersAt(c.user, clock), n)]
      /\ keyHours' = keyHours /\ clock' = clock
    BY DEF AdjustUser
<1>4. ASSUME ~d.late PROVE Moves(c, d)
    <2>1. c.window = hourStart(clock)
        BY <1>4 DEF LateForUser
    <2>2. UserCharged(c, d)
        BY <1>3, <2>1 DEF UserCharged
    <2>3. Staying(d) => KeyQuiet(c, d)
        BY <1>3 DEF KeyQuiet, keyHourAt
    <2> QED
        BY <2>2, <2>3 DEF Moves
<1> QED
    BY <1>2, <1>4 DEF Progress, EarlyPC

\* The settlement replaces the estimates by the actual number, a refund takes
\* them back.
LEMMA EndMoves ==
    ASSUME ChargeInv, NEW r \in Requests,
           \/ CancelUser(r) \/ CancelKey(r) \/ Refund(r) \/ Settle(r)
           \/ \E n \in Amounts : Forward(r, n)
    PROVE  Progress(call[r], call'[r])
<1> DEFINE c == call[r]
           e == est(r)
           lu == LateForUser(r)
           lk == LateForKey(r)
<1>1. /\ RelayInv /\ c \in Call /\ Timely(c) /\ Told(c)
      /\ e \in Int /\ e = Est(c.body)
    BY OwnCharge DEF est
<1>2. -e \in Int /\ 0 - e = -e
    BY <1>1
<1>3. CASE CancelUser(r)
    <2> DEFINE d == [c EXCEPT !.pc = "cancelKey", !.late = lu]
    <2>1. call'[r] = d /\ c.pc = "cancelUser" /\ AdjustUser(c.user, -e)
        BY <1>1, <1>3, Afterwards DEF CancelUser, ReleaseUser
    <2> HIDE DEF lu
    <2>2. KeyKept(c, d) /\ d.pc = "cancelKey" /\ d.late = lu
        BY <1>1 DEF Call, KeyKept, Kept
    <2> HIDE DEF d
    <2>3. UserTokens(c) = e /\ UserTokens(d) = 0
        BY <1>1, <2>1, <2>2 DEF UserTokens, Settled
    <2> HIDE DEF e
    <2> QED
        BY <1>1, <1>2, <2>1, <2>2, <2>3, ChargedMoves
           DEF KeyKept, Kept, EarlyPC, Staying, Timely, lu
<1>4. CASE CancelKey(r)
    <2> DEFINE d == [c EXCEPT !.pc = "done", !.reply = Own(499)]
    <2>1. call'[r] = d /\ c.pc = "cancelKey" /\ counters' = counters
        BY <1>1, <1>4, Afterwards DEF CancelKey, Unbook, ReleaseKey, AdjustKey
    <2>2. KeyKept(c, d) /\ d.pc = "done" /\ d.late = c.late /\ d.reply = Own(499)
        BY <1>1 DEF Call, KeyKept, Kept
    <2> HIDE DEF d
    <2>3. UserTokens(c) = 0 /\ UserTokens(d) = 0
        BY <2>1, <2>2 DEF UserTokens, Settled, Own
    <2>4. Timely(d)
        BY <1>1, <2>2 DEF Timely, EarlyPC, KeyKept, Kept
    <2> QED
        BY <2>1, <2>2, <2>3, <2>4 DEF Progress, Moves, UserQuiet, Staying
<1>5. CASE Refund(r)
    <2> DEFINE d == [c EXCEPT !.pc = "done", !.late = lu]
    <2>1. call'[r] = d /\ c.pc = "refund" /\ AdjustUser(c.user, -e)
        BY <1>1, <1>5, Afterwards DEF Refund, ReleaseUser
    <2> HIDE DEF lu
    <2>2. KeyKept(c, d) /\ d.pc = "done" /\ d.late = lu /\ d.reply = c.reply
        BY <1>1 DEF Call, KeyKept, Kept
    <2> HIDE DEF d
    <2>3. /\ UserTokens(c) = e /\ UserTokens(d) = 0
          /\ KeyTokens(c) = 0 /\ KeyTokens(d) = 0
        BY <1>1, <2>1, <2>2 DEF UserTokens, KeyTokens, Settled, Timely
    <2> HIDE DEF e
    <2> QED
        BY <1>1, <1>2, <2>1, <2>2, <2>3, ChargedMoves
           DEF KeyKept, Kept, EarlyPC, Timely, lu
<1>6. ASSUME NEW n \in Amounts, Forward(r, n)
      PROVE  Progress(c, call'[r])
    <2> DEFINE d == [c EXCEPT !.pc = "settleKey", !.actual = n, !.late = lu]
    <2>1. call'[r] = d /\ c.pc = "forward" /\ AdjustUser(c.user, n - e)
        BY <1>1, <1>6, Afterwards DEF Forward, SettleUser
    <2> HIDE DEF lu
    <2>2. /\ d.user = c.user /\ d.body = c.body /\ d.window = c.window
          /\ d.actual = n /\ d.key = c.key /\ d.keyWindow = c.keyWindow
          /\ d.pc = "settleKey" /\ d.late = lu
        BY <1>1 DEF Call
    <2>5. n \in Nat
        BY <1>1, <1>6 DEF Forward, ChargeInv, Measured, Call
    <2> HIDE DEF d
    <2>3. /\ UserTokens(c) = e /\ UserTokens(d) = n
          /\ KeyTokens(d) = KeyTokens(c)
        BY <1>1, <2>1, <2>2 DEF UserTokens, KeyTokens, Settled
    <2>4. n - e \in Int
        BY <1>1, StoreAssumption
    <2> HIDE DEF e
    <2> QED
        BY <2>1, <2>2, <2>3, <2>4, <2>5, ChargedMoves DEF EarlyPC, lu
<1>7. CASE Settle(r)
    <2> DEFINE d == [c EXCEPT !.pc = "done", !.late = lk]
               a == c.actual
    <2>1. /\ call'[r] = d /\ c.pc = "settleKey" /\ counters' = counters
          /\ c.key \in KeyIDs
          /\ keyHours' = [keyHours EXCEPT ![c.key] = Adjusted(keyHourAt(c.key), a - e)]
        <3>1. c.pc = "settleKey"
            BY <1>7 DEF Settle
        <3>2. c.key \in KeyIDs
            BY <3>1, OwnCharge DEF Local, KeyPC
        <3> QED
            BY <1>1, <1>7, <3>1, <3>2, Afterwards DEF Settle, SettleKey, AdjustKey
    <2>2. c.late => lk
        BY DEF LateForKey
    <2>3. ~lk => c.keyWindow = hourStart(clock)
        BY DEF LateForKey
    <2> HIDE DEF lk
    <2>4. KeyKept(c, d) /\ d.pc = "done" /\ d.late = lk /\ d.reply = c.reply
        BY <1>1 DEF Call, KeyKept, Kept
    <2> HIDE DEF d
    <2>5. Settled(d)
        BY <1>1, <2>1, <2>4 DEF Settled, Told
    <2>6. /\ UserTokens(d) = UserTokens(c)
          /\ KeyTokens(c) = e /\ KeyTokens(d) = a
        BY <1>1, <2>1, <2>4, <2>5 DEF UserTokens, KeyTokens, KeyKept, Kept
    <2>7. Timely(d)
        BY <1>1, <2>4 DEF Timely, EarlyPC, KeyKept, Kept
    <2> HIDE DEF e, a
    <2>8. ASSUME ~d.late PROVE Moves(c, d)
        <3>1. UserQuiet(c, d)
            BY <2>1, <2>4, <2>6 DEF UserQuiet, KeyKept, Kept
        <3>2. KeyCharged(c, d)
            BY <2>1, <2>3, <2>4, <2>6, <2>8 DEF KeyCharged, KeyKept
        <3> QED
            BY <3>1, <3>2 DEF Moves
    <2> QED
        BY <2>1, <2>2, <2>4, <2>7, <2>8 DEF Progress
<1> QED
    BY <1>3, <1>4, <1>5, <1>6, <1>7

LEMMA RequestMoves ==
    ASSUME ChargeInv, NEW r \in Requests, Start(r) \/ Handle(r)
    PROVE  Progress(call[r], call'[r])
    BY StartMoves, ReserveMoves, ChooseMoves, BookMoves, ReturnMoves, EndMoves
       DEF Handle

-----------------------------------------------------------------------------
(* Exactness of the token counters.                                         *)

\* The counters of u and of k are what the requests owe them.
UserExact(u) == /\ countersAt(u, clock).hour.value = HourOwed(u, clock)
                /\ countersAt(u, clock).day.value = DayOwed(u, clock)

KeyExact(k) == keyHourAt(k).value = KeyOwed(k, clock)

\* UserLedgerExact and KeyLedgerExact, also of the IDs that are still to be
\* drawn: a user that is created must find its counter empty.
UsersExact == Punctual => \A u \in UserIDs : UserCurrent(u) => UserExact(u)

KeysExact == Punctual /\ Cancelled = {} =>
                \A k \in KeyIDs : KeyCurrent(k) => KeyExact(k)

\* Before the first request nothing is charged, in memory or in the file: a
\* process that starts again without any has no reservation to account for.
Untouched ==
    (\A r \in Requests : call[r].pc = "idle") => Unused(Memory) /\ Unused(disk)

\* A key's window that has never begun is empty.
Started(s) ==
    \A k \in KeyIDs : s.keyHours[k].start = ZeroTime => s.keyHours[k].value = 0

\* The records of the requests are timely, no window lies in the future, IDs
\* are not drawn twice, and the counters are exact.
LedgerInv ==
    /\ ChargeInv /\ BegunInv /\ KeysIssued /\ UsersIssued /\ Untouched
    /\ Started(Memory) /\ Started(disk)
    /\ UsersExact /\ KeysExact

LEMMA UnusedMemory ==
    /\ Unused(Memory) <=>
          /\ \A u \in UserIDs : counters[u].hour.value = 0 /\ counters[u].day.value = 0
          /\ \A k \in KeyIDs : keyHours[k].value = 0
    /\ Started(Memory) <=>
          \A k \in KeyIDs : keyHours[k].start = ZeroTime => keyHours[k].value = 0
    BY DEF Unused, Started, Memory

\* Every record stays timely.
LEMMA ChargeStep == ChargeInv /\ [RelayNext]_vars => ChargeInv'
<1> SUFFICES ASSUME ChargeInv, [RelayNext]_vars PROVE ChargeInv'
    OBVIOUS
<1>1. TellInv /\ TellInv' /\ RelayInv /\ RelayInv'
    BY TellStep DEF ChargeInv, TellInv
<1>2. \A q \in Requests : call[q] \in Call /\ Timely(call[q])
    BY OwnCharge
<1>3. clock' >= clock /\ clock \in Nat /\ clock' \in Nat
    <2>1. CASE StoreNext
        BY <1>1, <2>1, ClockStep DEF RelayInv, Typed, TypedClock, Time
    <2>2. CASE UNCHANGED storeVars
        BY <1>1, <2>2 DEF storeVars, RelayInv, Typed, TypedClock, Time
    <2> QED
        BY <1>1, <2>1, <2>2, RelayIsStoreStep
<1>4. ASSUME NEW c \in Call, Timely(c) PROVE Timely(c)'
    BY <1>3, <1>4 DEF Timely, Call, Time, ZeroTime
<1>5. ASSUME NEW r \in Requests, Start(r) \/ Handle(r), NEW q \in Requests
      PROVE  Timely(call[q])'
    <2>1. PICK d : call' = [call EXCEPT ![r] = d] /\ clock' = clock
        BY <1>1, <1>5, RequestGood DEF Good, Becomes
    <2>2. Timely(call'[r])
        BY <1>5, RequestMoves DEF Progress
    <2>3. q # r => call'[q] = call[q]
        BY <1>1, <2>1 DEF RelayInv, Calls
    <2> QED
        BY <1>2, <2>1, <2>2, <2>3 DEF Timely
<1>6. ASSUME Die, NEW q \in Requests PROVE Timely(call[q])'
    <2>1. clock' = clock
        BY <1>6 DEF Die, Restart
    <2>2. CASE call[q].pc = "idle"
        BY <1>2, <1>6, <2>1, <2>2 DEF Die, Timely
    <2>3. CASE call[q].pc # "idle"
        <3> DEFINE d == [call[q] EXCEPT !.pc = "dead"]
        <3>1. call'[q] = d
            BY <1>6, <2>3 DEF Die
        <3>2. d.pc = "dead" /\ d.window = call[q].window
              /\ d.keyWindow = call[q].keyWindow /\ d.actual = call[q].actual
            BY <1>2 DEF Call
        <3> HIDE DEF d
        <3> QED
            BY <1>2, <2>1, <3>1, <3>2 DEF Timely, EarlyPC
    <2> QED
        BY <2>2, <2>3
<1>7. ASSUME UNCHANGED call, NEW q \in Requests PROVE Timely(call[q])'
    BY <1>2, <1>3, <1>7 DEF Timely, Call, Time, ZeroTime
<1> QED
    BY <1>1, <1>5, <1>6, <1>7 DEF ChargeInv, RelayNext, Administer, vars

\* A step that leaves what a user is charged and owed keeps it exact, ...
LEMMA UserQuietExact ==
    ASSUME RelayInv, RelayInv', NEW r \in Requests, NEW d,
           call' = [call EXCEPT ![r] = d], clock' = clock,
           UserQuiet(call[r], d), NEW u \in UserIDs, UserExact(u)
    PROVE  UserExact(u)'
<1> DEFINE c == call[r]
           h == hourStart(clock)
           s == dayStart(clock)
<1>1. /\ call \in [Requests -> Call] /\ call' \in [Requests -> Call]
      /\ c \in Call /\ d \in Call
    BY DEF RelayInv, Calls
<1>2. /\ HourOwed(u, clock)' = HourOwed(u, clock)
                                  + (HourCharge(d, u, h) - HourCharge(c, u, h))
      /\ DayOwed(u, clock)' = DayOwed(u, clock)
                                  + (DayCharge(d, u, s) - DayCharge(c, u, s))
    BY <1>1, OwedAfter, ZenonT(60)
<1>3. /\ HourOwed(u, clock) \in Int /\ DayOwed(u, clock) \in Int
      /\ HourCharge(c, u, h) \in Int /\ DayCharge(c, u, s) \in Int
    BY <1>1, OwedType, ChargesType
<1>4. /\ HourCharge(d, u, h) = HourCharge(c, u, h)
      /\ DayCharge(d, u, s) = DayCharge(c, u, s)
    BY DEF UserQuiet, HourCharge, DayCharge
<1>5. HourOwed(u, clock)' = HourOwed(u, clock) /\ DayOwed(u, clock)' = DayOwed(u, clock)
    BY <1>2, <1>3, <1>4
<1>6. countersAt(u, clock)' = countersAt(u, clock)
    BY DEF UserQuiet, countersAt, hourStart, dayStart
<1> QED
    BY <1>5, <1>6 DEF UserExact

\* ... and so does one that charges what is owed more: the counter is never cut
\* off at zero, because it holds what the others owe as well.
LEMMA UserChargedExact ==
    ASSUME ChargeInv, ChargeInv', NEW r \in Requests, NEW d,
           call' = [call EXCEPT ![r] = d], clock' = clock,
           UserCharged(call[r], d),
           NEW u \in UserIDs, UserExact(u)
    PROVE  UserExact(u)'
<1> DEFINE c == call[r]
           h == hourStart(clock)
           s == dayStart(clock)
           n == UserTokens(d) - UserTokens(c)
<1>1. /\ call \in [Requests -> Call] /\ call' \in [Requests -> Call]
      /\ c \in Call /\ c.user \in UserIDs /\ clock \in Time
      /\ counters \in [UserIDs -> UserCounter]
    BY OwnCharge DEF RelayInv, Calls, ChargeInv, TellInv, Typed, TypedLedger
<1>2. d \in Call
    BY <1>1
<1>3. UserTokens(c) \in Int /\ UserTokens(d) \in Int /\ n \in Int
    BY <1>1, <1>2, TokensType
<1>4. h \in Time /\ s \in Time /\ h # ZeroTime /\ dayStart(h) = s
    BY <1>1, StartType, WindowIsHour, HourOfDay
<1>5. /\ HourOwed(u, clock)' = HourOwed(u, clock)
                                  + (HourCharge(d, u, h) - HourCharge(c, u, h))
      /\ DayOwed(u, clock)' = DayOwed(u, clock)
                                  + (DayCharge(d, u, s) - DayCharge(c, u, s))
    BY <1>1, <1>2, OwedAfter, ZenonT(60)
<1>6. /\ HourOwed(u, clock) \in Int /\ DayOwed(u, clock) \in Int
    BY <1>1, OwedType
<1>7. /\ HourOwed(u, clock)' \in Nat /\ DayOwed(u, clock)' \in Nat
      /\ countersAt(u, clock)' = [hour |-> ensureWindow(counters'[u].hour, h),
                                  day |-> ensureWindow(counters'[u].day, s)]
    <2>1. NaturalOwed'
        BY OwedNow, PTL
    <2> QED
        BY <2>1 DEF NaturalOwed, countersAt, hourStart, dayStart
<1>8. CASE u # c.user
    <2>1. /\ HourCharge(c, u, h) = 0 /\ HourCharge(d, u, h) = 0
          /\ DayCharge(c, u, s) = 0 /\ DayCharge(d, u, s) = 0
        BY <1>8 DEF HourCharge, DayCharge, UserCharged
    <2>2. counters'[u] = counters[u]
        BY <1>1, <1>8 DEF UserCharged
    <2>3. countersAt(u, clock)' = countersAt(u, clock)
        BY <1>7, <2>2 DEF countersAt
    <2>4. HourOwed(u, clock)' = HourOwed(u, clock) /\ DayOwed(u, clock)' = DayOwed(u, clock)
        BY <1>5, <1>6, <2>1
    <2> QED
        BY <2>3, <2>4 DEF UserExact
<1>9. CASE u = c.user
    <2>1. /\ HourCharge(c, u, h) = UserTokens(c) /\ HourCharge(d, u, h) = UserTokens(d)
          /\ DayCharge(c, u, s) = UserTokens(c) /\ DayCharge(d, u, s) = UserTokens(d)
        BY <1>3, <1>4, <1>9 DEF HourCharge, DayCharge, UserCharged
    <2> DEFINE a == ensureWindow(counters[u].hour, h)
               b == ensureWindow(counters[u].day, s)
    <2>2. counters[u].hour \in WindowCounter /\ counters[u].day \in WindowCounter
        BY <1>1 DEF UserCounter
    <2>3. \/ counters'[u].hour = Added(a, n) /\ counters'[u].day = Added(b, n)
          \/ counters'[u].hour = Adjusted(a, n) /\ counters'[u].day = Adjusted(b, n)
        BY <1>1, <1>9 DEF UserCharged, AddedUser, AdjustedUser, countersAt
    <2>4. /\ countersAt(u, clock)'.hour = counters'[u].hour
          /\ countersAt(u, clock)'.day = counters'[u].day
        BY <1>3, <1>4, <1>7, <2>2, <2>3, WindowReads
    <2>5. /\ countersAt(u, clock)'.hour.value \in {a.value + n, max64(0, a.value + n)}
          /\ countersAt(u, clock)'.day.value \in {b.value + n, max64(0, b.value + n)}
        <3> HIDE DEF n
        <3>1. /\ Added(a, n) = [start |-> h, value |-> a.value + n]
              /\ Adjusted(a, n) = [start |-> h, value |-> max64(0, a.value + n)]
            BY <1>3, <1>4, <2>2, WindowReads
        <3>2. /\ Added(b, n) = [start |-> s, value |-> b.value + n]
              /\ Adjusted(b, n) = [start |-> s, value |-> max64(0, b.value + n)]
            BY <1>3, <1>4, <2>2, WindowReads
        <3> HIDE DEF a, b
        <3> QED
            BY <2>3, <2>4, <3>1, <3>2
    <2>6. a.value = HourOwed(u, clock) /\ b.value = DayOwed(u, clock)
        BY DEF UserExact, countersAt
    <2> HIDE DEF a, b
    <2>7. /\ HourOwed(u, clock)' = a.value + n
          /\ DayOwed(u, clock)' = b.value + n
        BY <1>5, <2>1, <2>6
    <2> QED
        BY <1>7, <2>5, <2>7 DEF UserExact, max64
<1> QED
    BY <1>8, <1>9

\* Either, for a key.
LEMMA KeyMovesExact ==
    ASSUME ChargeInv, ChargeInv', NEW r \in Requests, NEW d,
           call' = [call EXCEPT ![r] = d], clock' = clock,
           KeyQuiet(call[r], d) \/ KeyCharged(call[r], d),
           NEW k \in KeyIDs, KeyExact(k)
    PROVE  KeyExact(k)'
<1> DEFINE c == call[r]
           h == hourStart(clock)
           n == KeyTokens(d) - KeyTokens(c)
<1>1. /\ call \in [Requests -> Call] /\ call' \in [Requests -> Call]
      /\ c \in Call /\ d \in Call /\ clock \in Time
      /\ keyHours \in [KeyIDs -> WindowCounter]
    BY DEF ChargeInv, TellInv, RelayInv, Calls, Typed, TypedClock, TypedLedger
<1>2. /\ KeyOwed(k, clock)' = KeyOwed(k, clock)
                                + (KeyCharge(d, k, h) - KeyCharge(c, k, h))
      /\ KeyOwed(k, clock)' \in Nat
    <2>1. NaturalOwed'
        BY OwedNow, PTL
    <2> QED
        BY <1>1, <2>1, OwedAfter DEF NaturalOwed
<1>3. /\ KeyOwed(k, clock) \in Int /\ KeyCharge(c, k, h) \in Int
      /\ KeyCharge(d, k, h) \in Int
      /\ KeyTokens(c) \in Int /\ KeyTokens(d) \in Int /\ n \in Int
    BY <1>1, OwedType, ChargesType, TokensType
<1>4. CASE KeyQuiet(c, d)
    <2>1. KeyCharge(d, k, h) = KeyCharge(c, k, h)
        BY <1>4 DEF KeyQuiet, KeyCharge
    <2>2. KeyOwed(k, clock)' = KeyOwed(k, clock)
        BY <1>2, <1>3, <2>1
    <2> QED
        BY <1>4, <2>2 DEF KeyQuiet, KeyExact
<1>5. CASE KeyCharged(c, d) /\ k # c.key
    <2>1. KeyCharge(c, k, h) = 0 /\ KeyCharge(d, k, h) = 0
        BY <1>5 DEF KeyCharge, KeyCharged
    <2>2. KeyOwed(k, clock)' = KeyOwed(k, clock)
        BY <1>2, <1>3, <2>1
    <2>3. keyHours'[k] = keyHours[k]
        BY <1>1, <1>5 DEF KeyCharged
    <2>4. keyHourAt(k)' = keyHourAt(k)
        BY <2>3 DEF keyHourAt, hourStart
    <2> QED
        BY <2>2, <2>4 DEF KeyExact
<1>6. CASE KeyCharged(c, d) /\ k = c.key
    <2>1. KeyCharge(c, k, h) = KeyTokens(c) /\ KeyCharge(d, k, h) = KeyTokens(d)
        BY <1>3, <1>6 DEF KeyCharge, KeyCharged
    <2> DEFINE a == ensureWindow(keyHours[k], h)
    <2>2. keyHours[k] \in WindowCounter /\ h \in Time
        BY <1>1, StartType
    <2>3. keyHours'[k] = Added(a, n) \/ keyHours'[k] = Adjusted(a, n)
        BY <1>1, <1>6 DEF KeyCharged, keyHourAt
    <2>4. keyHourAt(k)' = ensureWindow(keyHours'[k], h)
        BY DEF keyHourAt, hourStart
    <2>5. keyHourAt(k)'.value \in {a.value + n, max64(0, a.value + n)}
        BY <1>3, <2>2, <2>3, <2>4, WindowReads
    <2>6. a.value = KeyOwed(k, clock)
        BY DEF KeyExact, keyHourAt
    <2> HIDE DEF a
    <2>7. KeyOwed(k, clock)' = a.value + n
        BY <1>2, <1>3, <2>1, <2>6
    <2> QED
        BY <1>2, <2>5, <2>7 DEF KeyExact, max64
<1> QED
    BY <1>4, <1>5, <1>6

\* When a window ends, its counter reads as empty, and no request owes
\* anything to the next one.
LEMMA TickExact ==
    ASSUME ChargeInv, BegunInv, Tick, call' = call
    PROVE  /\ \A u \in UserIDs : UserExact(u) => UserExact(u)'
           /\ \A k \in KeyIDs : KeyExact(k) => KeyExact(k)'
<1> DEFINE t == clock + 1
<1>1. /\ counters \in [UserIDs -> UserCounter] /\ keyHours \in [KeyIDs -> WindowCounter]
      /\ clock \in Time /\ clock \in Nat /\ t \in Time
      /\ \A r \in Requests : call[r] \in Call /\ Timely(call[r])
    BY OwnCharge DEF ChargeInv, TellInv, RelayInv, Typed, TypedClock, TypedLedger, Time
<1>2. clock' = t /\ counters' = counters /\ keyHours' = keyHours
    BY DEF Tick, ledger
<1>3. /\ hourStart(t) \in {hourStart(clock), t} /\ dayStart(t) \in {dayStart(clock), t}
      /\ hourStart(clock) <= clock /\ dayStart(clock) <= clock
      /\ hourStart(clock) \in Nat /\ dayStart(clock) \in Nat
    <2>1. HourLen * HoursPerDay \in Nat \ {0} /\ HourLen \in Nat \ {0}
        BY ClockAssumption
    <2>2. clock % HourLen \in 0 .. clock /\ clock % (HourLen * HoursPerDay) \in 0 .. clock
        BY <1>1, <2>1, RemainderType
    <2> QED
        BY <1>1, <2>2, NextStart, StartType DEF hourStart, dayStart, Time
<1>4. \A u \in UserIDs : /\ counters[u].hour.start <= hourStart(clock)
                         /\ counters[u].day.start <= dayStart(clock)
                         /\ counters[u].hour \in WindowCounter
                         /\ counters[u].day \in WindowCounter
    BY <1>1, BegunMemory DEF BegunInv, BegunUser, UserCounter
<1>5. \A k \in KeyIDs : /\ keyHours[k].start <= hourStart(clock)
                        /\ keyHours[k] \in WindowCounter
    BY <1>1, BegunMemory DEF BegunInv
<1>6. ASSUME NEW c \in WindowCounter, NEW s \in Nat, c.start <= s, s <= clock
      PROVE  ensureWindow(c, t).value = 0
    <2>1. c.start # t
        BY <1>1, <1>6 DEF WindowCounter, ZeroTime, Time
    <2> QED
        BY <2>1 DEF ensureWindow
<1>7. \A r \in Requests : /\ call[r].window # t /\ call[r].keyWindow # t
                          /\ call[r].window # ZeroTime => dayStart(call[r].window) # t
    <2> TAKE r \in Requests
    <2>1. /\ call[r].window \in Time \cup {ZeroTime} /\ call[r].window <= clock
          /\ call[r].keyWindow \in Time \cup {ZeroTime} /\ call[r].keyWindow <= clock
        BY <1>1 DEF Timely, Call
    <2>2. ASSUME call[r].window # ZeroTime PROVE dayStart(call[r].window) # t
        <3>1. call[r].window \in Nat
            BY <2>1, <2>2 DEF Time
        <3>2. HourLen * HoursPerDay \in Nat \ {0}
            BY ClockAssumption
        <3>3. call[r].window % (HourLen * HoursPerDay) \in 0 .. call[r].window
            BY <3>1, <3>2, RemainderType
        <3>4. dayStart(call[r].window) <= call[r].window
            BY <3>1, <3>3 DEF dayStart
        <3> QED
            BY <1>1, <2>1, <3>1, <3>3, <3>4 DEF dayStart
    <2> QED
        BY <1>1, <2>1, <2>2 DEF Time, ZeroTime
<1>8. \A i : /\ HourOwed(i, clock)' = HourOwed(i, t)
             /\ DayOwed(i, clock)' = DayOwed(i, t)
             /\ KeyOwed(i, clock)' = KeyOwed(i, t)
    BY <1>2 DEF HourOwed, DayOwed, KeyOwed, hourStart, dayStart
<1>9. /\ \A u \in UserIDs :
            /\ countersAt(u, clock)'.hour = ensureWindow(counters[u].hour, hourStart(t))
            /\ countersAt(u, clock)'.day = ensureWindow(counters[u].day, dayStart(t))
      /\ \A k \in KeyIDs : keyHourAt(k)' = ensureWindow(keyHours[k], hourStart(t))
    BY <1>2 DEF countersAt, keyHourAt, hourStart, dayStart
<1> HIDE DEF t
<1>10. ASSUME NEW u \in UserIDs, UserExact(u)
       PROVE  countersAt(u, clock)'.hour.value = HourOwed(u, clock)'
    <2>1. CASE hourStart(t) = hourStart(clock)
        BY <1>8, <1>9, <1>10, <2>1 DEF UserExact, countersAt, HourOwed
    <2>2. CASE hourStart(t) = t
        <3>1. HourOwed(u, t) = 0
            BY <1>7, <2>2, NothingOwed DEF HourCharge
        <3> QED
            BY <1>3, <1>4, <1>6, <1>8, <1>9, <2>2, <3>1
    <2> QED
        BY <1>3, <2>1, <2>2
<1>11. ASSUME NEW u \in UserIDs, UserExact(u)
       PROVE  countersAt(u, clock)'.day.value = DayOwed(u, clock)'
    <2>1. CASE dayStart(t) = dayStart(clock)
        BY <1>8, <1>9, <1>11, <2>1 DEF UserExact, countersAt, DayOwed
    <2>2. CASE dayStart(t) = t
        <3>1. DayOwed(u, t) = 0
            BY <1>7, <2>2, NothingOwed DEF DayCharge
        <3> QED
            BY <1>3, <1>4, <1>6, <1>8, <1>9, <2>2, <3>1
    <2> QED
        BY <1>3, <2>1, <2>2
<1>12. ASSUME NEW k \in KeyIDs, KeyExact(k)
       PROVE  keyHourAt(k)'.value = KeyOwed(k, clock)'
    <2>1. CASE hourStart(t) = hourStart(clock)
        BY <1>8, <1>9, <1>12, <2>1 DEF KeyExact, keyHourAt, KeyOwed
    <2>2. CASE hourStart(t) = t
        <3>1. KeyOwed(k, t) = 0
            BY <1>7, <2>2, NothingOwed DEF KeyCharge
        <3> QED
            BY <1>3, <1>5, <1>6, <1>8, <1>9, <2>2, <3>1
    <2> QED
        BY <1>3, <2>1, <2>2
<1>13. ASSUME NEW u \in UserIDs, UserExact(u) PROVE UserExact(u)'
    BY <1>10, <1>11, <1>13 DEF UserExact
<1>14. ASSUME NEW k \in KeyIDs, KeyExact(k) PROVE KeyExact(k)'
    BY <1>12, <1>14 DEF KeyExact
<1> QED
    BY <1>13, <1>14

AllIdle == \A r \in Requests : call[r].pc = "idle"

AllExact == /\ \A u \in UserIDs : UserExact(u)
            /\ \A k \in KeyIDs : KeyExact(k)

\* Where no request was ever charged, empty counters are exact.
LEMMA UnusedExact == AllIdle /\ Untouched => AllExact
<1> SUFFICES ASSUME AllIdle, Untouched PROVE AllExact
    OBVIOUS
<1> USE DEF AllIdle
<1>0. Unused(Memory)
    BY DEF Untouched
<1>1. \A r \in Requests : UserTokens(call[r]) = 0 /\ KeyTokens(call[r]) = 0
    BY DEF UserTokens, KeyTokens, Settled
<1>2. \A i : HourOwed(i, clock) = 0 /\ DayOwed(i, clock) = 0 /\ KeyOwed(i, clock) = 0
    BY <1>1, NothingOwed DEF HourCharge, DayCharge, KeyCharge
<1>3. \A u \in UserIDs : counters[u].hour.value = 0 /\ counters[u].day.value = 0
    BY <1>0, UnusedMemory
<1>4. \A k \in KeyIDs : keyHours[k].value = 0
    BY <1>0, UnusedMemory
<1>5. \A c, s : c.value = 0 => ensureWindow(c, s).value = 0
    BY DEF ensureWindow
<1> QED
    BY <1>2, <1>3, <1>4, <1>5
       DEF AllExact, UserExact, KeyExact, countersAt, keyHourAt

\* The requests of a process that ended are dead, unless there were none.
LEMMA DeadOrIdle ==
    ASSUME RelayInv, Die, \A r \in Requests : call'[r].pc # "dead"
    PROVE  \A r \in Requests : call[r].pc = "idle" /\ call'[r].pc = "idle"
<1> TAKE r \in Requests
<1>1. call[r] \in Call
    BY OwnRecord
<1>2. [call[r] EXCEPT !.pc = "dead"].pc = "dead"
    BY <1>1 DEF Call
<1> QED
    BY <1>2 DEF Die

LEMMA UntouchedStep ==
    ASSUME ChargeInv, KeysIssued, UsersIssued, Untouched, [RelayNext]_vars
    PROVE  Untouched'
<1> SUFFICES ASSUME \A r \in Requests : call'[r].pc = "idle"
             PROVE  Unused(Memory)' /\ Unused(disk)'
    BY DEF Untouched
<1>1. RelayInv /\ Typed /\ counters \in [UserIDs -> UserCounter]
      /\ keyHours \in [KeyIDs -> WindowCounter]
    BY DEF ChargeInv, TellInv, RelayInv, Typed, TypedLedger
<1>2. \A r \in Requests : ~(Start(r) \/ Handle(r))
    BY RequestMoves DEF Progress
<1>3. \A r \in Requests : call[r].pc = "idle"
    BY <1>1, <1>2, DeadOrIdle DEF RelayNext, Administer, vars
<1>4. Unused(Memory) /\ Unused(disk)
    BY <1>3 DEF Untouched
<1>5. Unused(disk)'
    <2>1. disk' = disk \/ disk' = Memory
        BY <1>1, RelayIsStoreStep, DiskStep DEF storeVars, saving
    <2> QED
        BY <1>4, <2>1 DEF Unused
<1>6. Unused(Memory)'
    <2>1. CASE Die
        BY <1>4, <2>1 DEF Die, Restart, Load, Memory, Unused
    <2>2. CASE UNCHANGED ledger
        BY <1>4, <2>2 DEF ledger, Memory, Unused
    <2>3. CASE Managing
        <3>1. /\ \A u \in UserIDs : UserKept(u)
              /\ \A k \in KeyIDs : KeyHourKept(k)
            BY <1>1, <2>3, ManagingKeeps
        <3>2. /\ \A u \in UserIDs : counters[u].hour.value = 0 /\ counters[u].day.value = 0
              /\ \A k \in KeyIDs : keyHours[k].value = 0
            BY <1>4, UnusedMemory
        <3>3. \A c, s : c.value = 0 => ensureWindow(c, s).value = 0
            BY DEF ensureWindow
        <3>4. \A u \in UserIDs : counters'[u].hour.value = 0 /\ counters'[u].day.value = 0
            <4> TAKE u \in UserIDs
            <4>1. /\ countersAt(u, clock).hour.value = 0
                  /\ countersAt(u, clock).day.value = 0
                BY <3>2, <3>3 DEF countersAt
            <4>2. ZeroUser.hour.value = 0 /\ ZeroUser.day.value = 0
                BY DEF ZeroUser, ZeroCounter
            <4>3. counters'[u] \in {counters[u], countersAt(u, clock), ZeroUser}
                BY <3>1 DEF UserKept
            <4> QED
                BY <3>2, <4>1, <4>2, <4>3
        <3>5. \A k \in KeyIDs : keyHours'[k].value = 0
            BY <3>1, <3>2, <3>3 DEF KeyHourKept, keyHourAt, ZeroCounter
        <3> QED
            BY <3>4, <3>5 DEF Unused, Memory
    <2>4. CASE Tick \/ UNCHANGED vars
        BY <2>2, <2>4 DEF Tick, vars, storeVars
    <2> QED
        BY <1>2, <2>1, <2>3, <2>4 DEF RelayNext, Administer, Managing
<1> QED
    BY <1>5, <1>6

\* A counter is written with a window, or emptied.
LEMMA StartedStep ==
    ASSUME Typed, Typed', Started(Memory), Started(disk), [StoreNext]_storeVars
    PROVE  Started(Memory)' /\ Started(disk)'
<1>1. clock \in Time /\ hourStart(clock) # ZeroTime
    BY WindowIsHour, StartType DEF Typed, TypedClock, Time, ZeroTime
<1>2. Started(disk)'
    <2>1. disk' = disk \/ disk' = Memory
        BY DiskStep DEF storeVars, saving
    <2> QED
        BY <2>1 DEF Started
<1>3. CASE Restart
    BY <1>2, <1>3 DEF Restart, Load, Memory, Started
<1>4. CASE UNCHANGED storeVars
    BY <1>2, <1>4 DEF storeVars, ledger, Memory, Started
<1>5. CASE StoreNext /\ ~Restart
    <2>1. ASSUME NEW k \in KeyIDs, keyHours'[k].start = ZeroTime
          PROVE  keyHours'[k].value = 0
        <3>1. \/ keyHours'[k] = ZeroCounter
              \/ keyHours'[k] = keyHours[k]
              \/ keyHours'[k].start = hourStart(clock)
            BY <1>5, KeyHourStep
        <3>2. ZeroCounter.value = 0
            BY DEF ZeroCounter
        <3> QED
            BY <1>1, <2>1, <3>1, <3>2, UnusedMemory
    <2> QED
        BY <1>2, <2>1 DEF Started, Memory
<1> QED
    BY <1>3, <1>4, <1>5

\* A step of a request keeps what is charged and what is owed together.
LEMMA RequestExact ==
    ASSUME LedgerInv, ChargeInv', NEW r \in Requests, Start(r) \/ Handle(r)
    PROVE  UsersExact' /\ KeysExact'
<1>1. RelayInv /\ RelayInv' /\ ChargeInv /\ UsersExact /\ KeysExact
    BY DEF LedgerInv, ChargeInv, TellInv
<1>2. PICK d : call' = [call EXCEPT ![r] = d] /\ clock' = clock
    BY <1>1, RequestGood DEF Good, Becomes
<1>3. call'[r] = d /\ \A q \in Requests : q # r => call'[q] = call[q]
    BY <1>1, <1>2 DEF RelayInv, Calls
<1>4. Progress(call[r], d)
    BY <1>1, <1>3, RequestMoves
<1>5. UNCHANGED registry
    BY HandleRegistry
<1>6. ASSUME Punctual' PROVE Punctual /\ Moves(call[r], d)
    <2>1. ~d.late /\ ~call[r].late
        BY <1>3, <1>4, <1>6 DEF Punctual, Progress
    <2>2. call[r].pc # "dead"
        BY DEF Start, Arrive, Handle, Check, Reserve, ChooseKey, BookKey,
               Returns, CallFails, CallCancelled, CallRejectsOptions,
               CallRefused, CallSucceeds, CancelUser, CancelKey, Refund,
               Forward, Settle
    <2> QED
        BY <1>3, <1>4, <1>6, <2>1, <2>2 DEF Punctual, Progress
<1>7. UsersExact'
    <2> SUFFICES ASSUME Punctual', NEW u \in UserIDs, UserCurrent(u)'
                 PROVE  UserExact(u)'
        BY DEF UsersExact
    <2>1. Punctual /\ (UserQuiet(call[r], d) \/ UserCharged(call[r], d))
        BY <1>6 DEF Moves
    <2>2. UserCurrent(u)
        BY <1>5 DEF UserCurrent, registry
    <2>3. UserExact(u)
        BY <1>1, <2>1, <2>2 DEF UsersExact
    <2> QED
        BY <1>1, <1>2, <2>1, <2>3, UserQuietExact, UserChargedExact
<1>8. KeysExact'
    <2> SUFFICES ASSUME Punctual', Cancelled' = {}, NEW k \in KeyIDs, KeyCurrent(k)'
                 PROVE  KeyExact(k)'
        BY DEF KeysExact
    <2>1. Staying(d)
        BY <1>3 DEF Staying, Cancelled
    <2>2. Punctual /\ (KeyQuiet(call[r], d) \/ KeyCharged(call[r], d))
        BY <1>6, <2>1 DEF Moves
    <2>3. KeyCurrent(k) /\ Cancelled = {}
        BY <1>1, <1>5, CancelledStep DEF KeyCurrent, registry
    <2>4. KeyExact(k)
        BY <1>1, <2>2, <2>3 DEF KeysExact
    <2> QED
        BY <1>1, <1>2, <2>2, <2>4, KeyMovesExact
<1> QED
    BY <1>7, <1>8

\* So does a step that is none of theirs.
LEMMA OtherExact ==
    ASSUME LedgerInv, Managing \/ Tick, UNCHANGED call
    PROVE  UsersExact' /\ KeysExact'
<1>1. /\ ChargeInv /\ Typed /\ KeysIssued /\ UsersIssued /\ BegunInv
      /\ UsersExact /\ KeysExact
    BY DEF LedgerInv, ChargeInv, TellInv, RelayInv
<1>2. call' = call
    OBVIOUS
<1>3. (Punctual' => Punctual) /\ Cancelled' = Cancelled
    BY <1>2 DEF Punctual, Cancelled
<1>4. /\ \A u \in UserIDs : UserCurrent(u)' => UserCurrent(u)
      /\ \A k \in KeyIDs : KeyCurrent(k)' => KeyCurrent(k)
    BY <1>1, StillCurrent
<1>5. /\ \A u \in UserIDs : UserCurrent(u)' /\ UserExact(u) => UserExact(u)'
      /\ \A k \in KeyIDs : KeyCurrent(k)' /\ KeyExact(k) => KeyExact(k)'
    <2>1. CASE Tick
        BY <1>1, <1>2, <2>1, TickExact
    <2>2. CASE Managing
        <3>1. /\ clock' = clock
              /\ \A u \in UserIDs : UserKept(u)
              /\ \A k \in KeyIDs : KeyHourKept(k)
            BY <1>1, <2>2, ManagingKeeps
        <3>2. ASSUME NEW u \in UserIDs, UserCurrent(u)', UserExact(u)
              PROVE  UserExact(u)'
            <4>1. counters'[u] \in {counters[u], countersAt(u, clock)}
                BY <3>1, <3>2 DEF UserKept, UserCurrent
            <4>2. countersAt(u, clock)' = countersAt(u, clock)
                BY <1>1, <3>1, <4>1, KeptReads
            <4> QED
                BY <1>2, <3>1, <3>2, <4>2, SameOwed DEF UserExact
        <3>3. ASSUME NEW k \in KeyIDs, KeyCurrent(k)', KeyExact(k)
              PROVE  KeyExact(k)'
            <4>1. keyHours'[k] \in {keyHours[k], keyHourAt(k)}
                BY <3>1, <3>3 DEF KeyHourKept, KeyCurrent
            <4>2. keyHourAt(k)' = keyHourAt(k)
                BY <1>1, <3>1, <4>1, KeptReads
            <4> QED
                BY <1>2, <3>1, <3>3, <4>2, SameOwed DEF KeyExact
        <3> QED
            BY <3>2, <3>3
    <2> QED
        BY <2>1, <2>2
<1>6. ASSUME Punctual', NEW u \in UserIDs, UserCurrent(u)' PROVE UserExact(u)'
    BY <1>1, <1>3, <1>4, <1>5, <1>6 DEF UsersExact
<1>7. ASSUME Punctual', Cancelled' = {}, NEW k \in KeyIDs, KeyCurrent(k)'
      PROVE  KeyExact(k)'
    BY <1>1, <1>3, <1>4, <1>5, <1>7 DEF KeysExact
<1> QED
    BY <1>6, <1>7 DEF UsersExact, KeysExact

\* A process that served a request leaves dead ones, and one that served none
\* finds an unused file.
LEMMA DieExact ==
    ASSUME LedgerInv, RelayInv', Untouched', Die
    PROVE  UsersExact' /\ KeysExact'
<1>1. RelayInv
    BY DEF LedgerInv, ChargeInv, TellInv
<1>2. AllIdle' /\ Untouched' => AllExact'
    BY UnusedExact, PTL
<1>3. ASSUME Punctual' PROVE AllExact'
    <2>1. \A r \in Requests : call'[r].pc = "idle"
        BY <1>1, <1>3, DeadOrIdle DEF Punctual
    <2> QED
        BY <1>2, <2>1 DEF AllIdle
<1> QED
    BY <1>3 DEF AllExact, UsersExact, KeysExact

\* LedgerInv is inductive.
LEMMA LedgerStepInv == LedgerInv /\ [RelayNext]_vars => LedgerInv'
<1> SUFFICES ASSUME LedgerInv, [RelayNext]_vars PROVE LedgerInv'
    OBVIOUS
<1>1. /\ ChargeInv /\ RelayInv /\ Typed /\ BegunInv /\ KeysIssued /\ UsersIssued
      /\ Untouched /\ Started(Memory) /\ Started(disk) /\ UsersExact /\ KeysExact
    BY DEF LedgerInv, ChargeInv, TellInv, RelayInv
<1>2. ChargeInv' /\ RelayInv' /\ Typed' /\ [StoreNext]_storeVars
    BY <1>1, ChargeStep, RelayStep, RelayIsStoreStep DEF RelayInv
<1>3. BegunInv'
    BY <1>1, <1>2, BegunStep
<1>4. KeysIssued' /\ UsersIssued'
    <2>1. CASE StoreNext
        BY <1>1, <2>1, IssueStep, UsersIssuedStep
    <2>2. CASE UNCHANGED storeVars
        BY <1>1, <2>2 DEF storeVars, registry, saving, KeysIssued, UsersIssued, Present
    <2> QED
        BY <1>2, <2>1, <2>2
<1>5. Untouched'
    BY <1>1, UntouchedStep
<1>6. Started(Memory)' /\ Started(disk)'
    BY <1>1, <1>2, StartedStep
<1>7. UsersExact' /\ KeysExact'
    <2>1. CASE \E r \in Requests : Start(r) \/ Handle(r)
        BY <1>2, <2>1, RequestExact
    <2>2. CASE (Managing \/ Tick) /\ UNCHANGED call
        BY <2>2, OtherExact
    <2>3. CASE Die
        BY <1>2, <1>5, <2>3, DieExact
    <2>4. CASE UNCHANGED vars
        BY <1>1, <2>4 DEF vars, storeVars, registry, ledger, UsersExact, KeysExact,
           Punctual, Cancelled, UserCurrent, KeyCurrent, UserExact, KeyExact,
           countersAt, keyHourAt, HourOwed, DayOwed, KeyOwed, hourStart, dayStart
    <2> QED
        BY <2>1, <2>2, <2>3, <2>4
           DEF RelayNext, Administer, Managing
<1> QED
    BY <1>2, <1>3, <1>4, <1>5, <1>6, <1>7 DEF LedgerInv

LEMMA LedgerInit == FirstUnused /\ Measured /\ RelayInit => LedgerInv
<1> SUFFICES ASSUME FirstUnused, Measured, RelayInit PROVE LedgerInv
    OBVIOUS
<1>1. TellInv /\ BegunInv /\ Typed
    BY TellInit, BegunInit DEF RelayInit, TellInv, RelayInv
<1>2. \A r \in Requests : call[r] = NotArrived
    BY DEF RelayInit
<1>3. ChargeInv
    <2>1. clock = 0
        BY DEF RelayInit, Init
    <2>2. /\ NotArrived.pc = "idle" /\ ~NotArrived.late
          /\ NotArrived.window = -1 /\ NotArrived.keyWindow = -1
          /\ NotArrived.actual = 0
        BY DEF NotArrived, ZeroTime
    <2>3. Timely(NotArrived)
        BY <2>1, <2>2 DEF Timely
    <2> QED
        BY <1>1, <1>2, <2>3 DEF ChargeInv
<1>4. disk \in InitialDisks \cup {freshState} /\ Memory.counters = disk.counters
      /\ Memory.keyHours = disk.keyHours /\ Memory.users = disk.users
      /\ Memory.upstreamKeys = disk.upstreamKeys
    BY DEF RelayInit, Init, Memory
<1>5. Unused(freshState)
    BY DEF Unused, freshState, ZeroUser, ZeroCounter
<1>6. Unused(disk) /\ Unused(Memory)
    BY <1>4, <1>5 DEF FirstUnused, Unused
<1>7. Untouched /\ Started(Memory) /\ Started(disk)
    BY <1>6 DEF Untouched, Started, Unused
<1>8. KeysIssued /\ UsersIssued
    BY <1>1 DEF RelayInit, Init, KeysIssued, UsersIssued, Present, Typed, TypedRegistry
<1>9. AllExact
    <2>1. AllIdle
        <3>1. NotArrived.pc = "idle"
            BY DEF NotArrived
        <3> QED
            BY <1>2, <3>1 DEF AllIdle
    <2> QED
        BY <1>7, <2>1, UnusedExact
<1> QED
    BY <1>1, <1>3, <1>7, <1>8, <1>9 DEF LedgerInv, AllExact, UsersExact, KeysExact

LEMMA LedgerInvariant == FirstUnused /\ Measured => (RelaySpec => []LedgerInv)
    BY LedgerInit, LedgerStepInv, PTL DEF RelaySpec

-----------------------------------------------------------------------------
(* Theorems.                                                                *)

\* The hour and the day of a user hold exactly the sum of what its requests
\* were charged, on every path through the loop and whatever other requests
\* do between its steps, as long as none acts on another window than its own
\* and no process has ended.  The file of the first start must hold no tokens,
\* which no request would account for, and no charge may be negative.
THEOREM RelayUserLedgerExact ==
    ASSUME FirstUnused, Measured PROVE RelaySpec => []UserLedgerExact
<1>1. LedgerInv => UserLedgerExact
    BY DEF LedgerInv, ChargeInv, TellInv, RelayInv, Typed, TypedRegistry, UsersExact,
           UserCurrent, UserExact, UserLedgerExact, Present
<1> QED
    BY <1>1, LedgerInvariant, PTL

\* So does the hour of an upstream key, while no client has gone away during a
\* call, for ReserveKey and for the routing that reads it without rolling it
\* over.
THEOREM RelayKeyLedgerExact ==
    ASSUME FirstUnused, Measured PROVE RelaySpec => []KeyLedgerExact
<1>1. LedgerInv => KeyLedgerExact
    <2> SUFFICES ASSUME LedgerInv, Punctual, Cancelled = {},
                        NEW k \in Present(upstreamKeys)
                 PROVE  /\ keyHourAt(k).value = KeyOwed(k, clock)
                        /\ windowValue(keyHours[k], clock) = KeyOwed(k, clock)
        BY DEF KeyLedgerExact
    <2>1. Typed /\ k \in KeyIDs /\ KeyCurrent(k)
        BY DEF LedgerInv, ChargeInv, TellInv, RelayInv, Typed, TypedRegistry,
               KeyCurrent, Present
    <2>2. keyHourAt(k).value = KeyOwed(k, clock)
        BY <2>1 DEF LedgerInv, KeysExact, KeyExact
    <2>3. keyHours[k].start = ZeroTime => keyHours[k].value = 0
        BY <2>1, UnusedMemory DEF LedgerInv
    <2>4. windowValue(keyHours[k], clock) = keyHourAt(k).value
        BY <2>3 DEF windowValue, keyHourAt, ensureWindow
    <2> QED
        BY <2>2, <2>4
<1> QED
    BY <1>1, LedgerInvariant, PTL
=============================================================================
