------------------------- MODULE ReservationProofs -------------------------
(* Relay implements Reservation, for all values of its constants.           *)
EXTENDS RelayLife, RelayProofs

-----------------------------------------------------------------------------
(* The window of a request tells whether it has reserved.                   *)

LatePC == {"select", "reserveKey", "call", "forward", "settleKey", "refund",
           "cancelUser", "cancelKey"}

Phase(c) == /\ c.pc \in EarlyPC => c.window = ZeroTime
            /\ c.pc \in LatePC => c.window # ZeroTime

Phases == \A r \in Requests : Phase(call[r])

LifeInv == RelayInv /\ Phases

LEMMA PhaseKept ==
    ASSUME LifeInv, NEW r \in Requests, NEW d, call' = [call EXCEPT ![r] = d],
           Phase(d)
    PROVE  Phases'
    BY DEF LifeInv, RelayInv, Calls, Phases

LEMMA CallOf ==
    ASSUME LifeInv, NEW r \in Requests
    PROVE  call[r] \in Call /\ Local(call[r]) /\ Phase(call[r])
    BY DEF LifeInv, RelayInv, Calls, Phases

-----------------------------------------------------------------------------
(* The records of the actions.                                              *)

\* The pcs from which and to which a request goes, with its window, its key
\* and its number of attempts kept.
Goes(r, from, to) ==
    /\ call[r].pc \in from
    /\ \E d : /\ call' = [call EXCEPT ![r] = d]
              /\ d.pc \in to /\ d.window = call[r].window
              /\ d.key = call[r].key /\ d.attempt = call[r].attempt

LEMMA GoesBy ==
    ASSUME NEW r, NEW from, NEW to, NEW d, Becomes(r, d),
           call[r].pc \in from, d.pc \in to, d.window = call[r].window,
           d.key = call[r].key, d.attempt = call[r].attempt
    PROVE  Goes(r, from, to)
    BY DEF Goes, Becomes

LEMMA StartGoes ==
    ASSUME LifeInv, NEW r \in Requests, Start(r)
    PROVE  Goes(r, {"idle"}, {"check", "done"})
<1> PICK a \in AccessKeyIDs, b \in Payloads, allowed \in BOOLEAN :
             Arrive(r, a, b, allowed)
    BY DEF Start
<1> DEFINE d == [call[r] EXCEPT !.pc = IF allowed THEN "check" ELSE "done",
                                !.user = accessKeys[a], !.body = b,
                                !.now = clock,
                                !.reply = IF allowed THEN NoReply ELSE Own(429)]
<1>1. Becomes(r, d) /\ call[r].pc \in {"idle"}
    BY DEF Arrive
<1>2. /\ d.pc \in {"check", "done"} /\ d.window = call[r].window
      /\ d.key = call[r].key /\ d.attempt = call[r].attempt
    BY CallOf DEF Call
<1> HIDE DEF d
<1> QED
    BY <1>1, <1>2, GoesBy

LEMMA CheckGoes ==
    ASSUME LifeInv, NEW r \in Requests, Check(r)
    PROVE  Goes(r, {"check"}, {"reserve", "done"})
<1> DEFINE u == users[call[r].user]
           d == [call[r] EXCEPT !.pc = "done", !.reply = Own(429)]
           e == [call[r] EXCEPT !.pc = "reserve", !.hourly = HourlyLimit(u),
                                !.daily = DailyLimit(u)]
<1>1. (Becomes(r, d) \/ Becomes(r, e)) /\ call[r].pc \in {"check"}
    BY DEF Check
<1>2. /\ d.pc \in {"reserve", "done"} /\ d.window = call[r].window
      /\ d.key = call[r].key /\ d.attempt = call[r].attempt
    BY CallOf DEF Call
<1>3. /\ e.pc \in {"reserve", "done"} /\ e.window = call[r].window
      /\ e.key = call[r].key /\ e.attempt = call[r].attempt
    BY CallOf DEF Call
<1> HIDE DEF d, e
<1> QED
    BY <1>1, <1>2, <1>3, GoesBy

LEMMA FailsGoes ==
    ASSUME LifeInv, NEW r \in Requests, CallFails(r)
    PROVE  Goes(r, {"call"}, {"select", "refund"})
<1> DEFINE d == [call[r] EXCEPT !.pc = NextAttempt(r),
                       !.exclude = @ \cup {call[r].key},
                       !.late = LateForKey(r),
                       !.reply = IF call[r].attempt < 2 THEN NoReply
                                    ELSE LoopReply(call[r])]
<1>1. Becomes(r, d) /\ call[r].pc \in {"call"}
    BY DEF CallFails
<1>2. /\ d.pc \in {"select", "refund"} /\ d.window = call[r].window
      /\ d.key = call[r].key /\ d.attempt = call[r].attempt
    BY CallOf DEF Call, NextAttempt
<1> HIDE DEF d
<1> QED
    BY <1>1, <1>2, GoesBy

LEMMA RejectsGoes ==
    ASSUME LifeInv, NEW r \in Requests, CallRejectsOptions(r)
    PROVE  Goes(r, {"call"}, {"select", "refund"})
<1> DEFINE d == [call[r] EXCEPT !.pc = NextAttempt(r), !.stripped = TRUE,
                       !.tried = Answered(r, 400),
                       !.late = LateForKey(r),
                       !.reply = IF call[r].attempt < 2 THEN NoReply
                                    ELSE LoopReply(call[r])]
<1>1. Becomes(r, d) /\ call[r].pc \in {"call"}
    BY DEF CallRejectsOptions
<1>2. /\ d.pc \in {"select", "refund"} /\ d.window = call[r].window
      /\ d.key = call[r].key /\ d.attempt = call[r].attempt
    BY CallOf DEF Call, NextAttempt
<1> HIDE DEF d
<1> QED
    BY <1>1, <1>2, GoesBy

LEMMA RefusedGoes ==
    ASSUME LifeInv, NEW r \in Requests, NEW code \in Codes, CallRefused(r, code)
    PROVE  Goes(r, {"call"}, {"select", "refund"})
<1> DEFINE drained == [code |-> code, body |-> "drained"]
           again   == Retryable(code) /\ call[r].attempt < 2
           d == [call[r] EXCEPT
                   !.pc = IF again THEN "select" ELSE "refund",
                   !.exclude = IF Retryable(code)
                                  THEN @ \cup {call[r].key} ELSE @,
                   !.tried = Answered(r, code),
                   !.late = LateForKey(r),
                   !.lastResp = drained,
                   !.reply = IF again THEN NoReply ELSE drained]
<1>1. Becomes(r, d) /\ call[r].pc \in {"call"}
    BY DEF CallRefused
<1>2. /\ d.pc \in {"select", "refund"} /\ d.window = call[r].window
      /\ d.key = call[r].key /\ d.attempt = call[r].attempt
    BY CallOf DEF Call
<1> HIDE DEF d
<1> QED
    BY <1>1, <1>2, GoesBy

LEMMA SucceedsGoes ==
    ASSUME LifeInv, NEW r \in Requests, NEW code \in Codes,
           CallSucceeds(r, code)
    PROVE  Goes(r, {"call"}, {"forward"})
<1> DEFINE d == [call[r] EXCEPT !.pc = "forward",
                       !.tried = Answered(r, code),
                       !.reply = [code |-> code, body |-> "upstream"]]
<1>1. Becomes(r, d) /\ call[r].pc \in {"call"}
    BY DEF CallSucceeds
<1>2. /\ d.pc \in {"forward"} /\ d.window = call[r].window
      /\ d.key = call[r].key /\ d.attempt = call[r].attempt
    BY CallOf DEF Call, NextAttempt
<1> HIDE DEF d
<1> QED
    BY <1>1, <1>2, GoesBy

LEMMA CancelledGoes ==
    ASSUME LifeInv, NEW r \in Requests, CallCancelled(r)
    PROVE  Goes(r, {"call"}, {"cancelUser"})
<1> DEFINE d == [call[r] EXCEPT !.pc = "cancelUser", !.late = LateForKey(r)]
<1>1. Becomes(r, d) /\ call[r].pc \in {"call"}
    BY DEF CallCancelled
<1>2. /\ d.pc \in {"cancelUser"} /\ d.window = call[r].window
      /\ d.key = call[r].key /\ d.attempt = call[r].attempt
    BY CallOf DEF Call, NextAttempt
<1> HIDE DEF d
<1> QED
    BY <1>1, <1>2, GoesBy

LEMMA CancelUserGoes ==
    ASSUME LifeInv, NEW r \in Requests, CancelUser(r)
    PROVE  Goes(r, {"cancelUser"}, {"cancelKey"})
<1> DEFINE d == [call[r] EXCEPT !.pc = "cancelKey", !.late = LateForUser(r)]
<1>1. Becomes(r, d) /\ call[r].pc \in {"cancelUser"}
    BY DEF CancelUser
<1>2. /\ d.pc \in {"cancelKey"} /\ d.window = call[r].window
      /\ d.key = call[r].key /\ d.attempt = call[r].attempt
    BY CallOf DEF Call, NextAttempt
<1> HIDE DEF d
<1> QED
    BY <1>1, <1>2, GoesBy

LEMMA CancelKeyGoes ==
    ASSUME LifeInv, NEW r \in Requests, CancelKey(r)
    PROVE  Goes(r, {"cancelKey"}, {"done"})
<1> DEFINE d == [call[r] EXCEPT !.pc = "done", !.reply = Own(499)]
<1>1. Becomes(r, d) /\ call[r].pc \in {"cancelKey"}
    BY DEF CancelKey
<1>2. /\ d.pc \in {"done"} /\ d.window = call[r].window
      /\ d.key = call[r].key /\ d.attempt = call[r].attempt
    BY CallOf DEF Call, NextAttempt
<1> HIDE DEF d
<1> QED
    BY <1>1, <1>2, GoesBy

LEMMA RefundGoes ==
    ASSUME LifeInv, NEW r \in Requests, Refund(r)
    PROVE  Goes(r, {"refund"}, {"done"})
<1> DEFINE d == [call[r] EXCEPT !.pc = "done", !.late = LateForUser(r)]
<1>1. Becomes(r, d) /\ call[r].pc \in {"refund"}
    BY DEF Refund
<1>2. /\ d.pc \in {"done"} /\ d.window = call[r].window
      /\ d.key = call[r].key /\ d.attempt = call[r].attempt
    BY CallOf DEF Call, NextAttempt
<1> HIDE DEF d
<1> QED
    BY <1>1, <1>2, GoesBy

LEMMA ForwardGoes ==
    ASSUME LifeInv, NEW r \in Requests, NEW n \in Amounts,
           Forward(r, n)
    PROVE  Goes(r, {"forward"}, {"settleKey"})
<1> DEFINE d == [call[r] EXCEPT !.pc = "settleKey", !.actual = n,
                       !.late = LateForUser(r)]
<1>1. Becomes(r, d) /\ call[r].pc \in {"forward"}
    BY DEF Forward
<1>2. /\ d.pc \in {"settleKey"} /\ d.window = call[r].window
      /\ d.key = call[r].key /\ d.attempt = call[r].attempt
    BY CallOf DEF Call, NextAttempt
<1> HIDE DEF d
<1> QED
    BY <1>1, <1>2, GoesBy

LEMMA SettleGoes ==
    ASSUME LifeInv, NEW r \in Requests, Settle(r)
    PROVE  Goes(r, {"settleKey"}, {"done"})
<1> DEFINE d == [call[r] EXCEPT !.pc = "done", !.late = LateForKey(r)]
<1>1. Becomes(r, d) /\ call[r].pc \in {"settleKey"}
    BY DEF Settle
<1>2. /\ d.pc \in {"done"} /\ d.window = call[r].window
      /\ d.key = call[r].key /\ d.attempt = call[r].attempt
    BY CallOf DEF Call, NextAttempt
<1> HIDE DEF d
<1> QED
    BY <1>1, <1>2, GoesBy

LEMMA GoesPhase ==
    ASSUME LifeInv, NEW r \in Requests, NEW from, NEW to, Goes(r, from, to),
           \/ from \subseteq EarlyPC /\ to \subseteq EarlyPC \cup {"done"}
           \/ from \subseteq LatePC /\ to \subseteq LatePC \cup {"done"}
    PROVE  Phases'
<1>1. PICK d : /\ call' = [call EXCEPT ![r] = d]
               /\ d.pc \in to /\ d.window = call[r].window
    BY DEF Goes
<1>2. EarlyPC \cap LatePC = {} /\ "done" \notin EarlyPC /\ "done" \notin LatePC
    BY DEF EarlyPC, LatePC
<1>3. call[r].pc \in from
    BY DEF Goes
<1>4. Phase(d)
    BY <1>1, <1>2, <1>3, CallOf DEF Phase
<1> QED
    BY <1>1, <1>4, PhaseKept

-----------------------------------------------------------------------------
(* A step of a request, seen from its reservation.                          *)

LEMMA Mapped ==
    ASSUME LifeInv, NEW r \in Requests, NEW d, call' = [call EXCEPT ![r] = d]
    PROVE  /\ stages' = [stages EXCEPT ![r] = Stage(d)]
           /\ heldKeys' = [heldKeys EXCEPT ![r] = HeldKey(d)]
           /\ attempts' = [attempts EXCEPT ![r] = d.attempt]
           /\ extras' = [extras EXCEPT ![r] = ExtraKey(d)]
<1>1. \A q \in Requests : call'[q] = IF q = r THEN d ELSE call[q]
    BY DEF LifeInv, RelayInv, Calls
<1>2. stages' = [stages EXCEPT ![r] = Stage(d)]
  <2>1. \A q \in Requests : Stage(call'[q]) = IF q = r THEN Stage(d)
                                                      ELSE Stage(call[q])
      BY <1>1
  <2> QED
      BY <2>1 DEF stages
<1>3. heldKeys' = [heldKeys EXCEPT ![r] = HeldKey(d)]
  <2>1. \A q \in Requests : HeldKey(call'[q]) = IF q = r THEN HeldKey(d)
                                                        ELSE HeldKey(call[q])
      BY <1>1
  <2> QED
      BY <2>1 DEF heldKeys
<1>4. attempts' = [attempts EXCEPT ![r] = d.attempt]
  <2>1. \A q \in Requests : call'[q].attempt = IF q = r THEN d.attempt
                                                       ELSE call[q].attempt
      BY <1>1
  <2> QED
      BY <2>1 DEF attempts
<1>5. extras' = [extras EXCEPT ![r] = ExtraKey(d)]
  <2>1. \A q \in Requests : ExtraKey(call'[q]) = IF q = r THEN ExtraKey(d)
                                                         ELSE ExtraKey(call[q])
      BY <1>1
  <2> QED
      BY <2>1 DEF extras
<1> QED
    BY <1>2, <1>3, <1>4, <1>5

LEMMA MappedSame ==
    ASSUME NEW r \in Requests
    PROVE  /\ stages = [stages EXCEPT ![r] = Stage(call[r])]
           /\ heldKeys = [heldKeys EXCEPT ![r] = HeldKey(call[r])]
           /\ attempts = [attempts EXCEPT ![r] = call[r].attempt]
           /\ extras = [extras EXCEPT ![r] = ExtraKey(call[r])]
           /\ stages[r] = Stage(call[r]) /\ heldKeys[r] = HeldKey(call[r])
           /\ attempts[r] = call[r].attempt /\ extras[r] = ExtraKey(call[r])
    BY DEF stages, heldKeys, attempts, extras

\* Nothing of the reservation changes.
Still == UNCHANGED <<stages, heldKeys, attempts, extras, inFlight>>

LEMMA StillStep ==
    ASSUME LifeInv, NEW r \in Requests, NEW d, call' = [call EXCEPT ![r] = d],
           Stage(d) = Stage(call[r]), HeldKey(d) = HeldKey(call[r]),
           ExtraKey(d) = ExtraKey(call[r]), d.attempt = call[r].attempt,
           UNCHANGED inFlight
    PROVE  Still
<1>1. /\ stages' = [stages EXCEPT ![r] = Stage(d)]
      /\ heldKeys' = [heldKeys EXCEPT ![r] = HeldKey(d)]
      /\ attempts' = [attempts EXCEPT ![r] = d.attempt]
      /\ extras' = [extras EXCEPT ![r] = ExtraKey(d)]
    BY Mapped
<1>2. /\ stages = [stages EXCEPT ![r] = Stage(call[r])]
      /\ heldKeys = [heldKeys EXCEPT ![r] = HeldKey(call[r])]
      /\ attempts = [attempts EXCEPT ![r] = call[r].attempt]
      /\ extras = [extras EXCEPT ![r] = ExtraKey(call[r])]
    BY MappedSame
<1> QED
    BY <1>1, <1>2 DEF Still

LEMMA StageOf ==
    ASSUME NEW c
    PROVE  /\ c.window = ZeroTime => Stage(c) = "none"
           /\ c.window # ZeroTime =>
                /\ c.pc = "settleKey" => Stage(c) = "charged"
                /\ c.pc \in {"cancelKey", "done"} => Stage(c) = "closed"
                /\ c.pc \in LatePC \ {"settleKey", "cancelKey"} => Stage(c) = "open"
                /\ c.pc = "dead" => Stage(c) = "lost"
                /\ Stage(c) # "none"
<1>1. c.window = ZeroTime => Stage(c) = "none"
    BY DEF Stage
<1>2. c.window # ZeroTime /\ c.pc = "settleKey" => Stage(c) = "charged"
    BY DEF Stage
<1>3. c.window # ZeroTime /\ c.pc \in {"cancelKey", "done"} => Stage(c) = "closed"
    BY DEF Stage
<1>4. c.window # ZeroTime /\ c.pc \in LatePC \ {"settleKey", "cancelKey"}
        => Stage(c) = "open"
    BY DEF Stage, LatePC
<1>5. c.window # ZeroTime /\ c.pc = "dead" => Stage(c) = "lost"
    BY DEF Stage
<1>6. c.window # ZeroTime => Stage(c) # "none"
    BY DEF Stage
<1> QED
    BY <1>1, <1>2, <1>3, <1>4, <1>5, <1>6

\* A request that has reserved.
LEMMA LateStage ==
    ASSUME LifeInv, NEW r \in Requests, call[r].pc \in LatePC
    PROVE  /\ call[r].window # ZeroTime
           /\ call[r].pc \in KeyPC => call[r].key \in KeyIDs /\ call[r].key # Nil
           /\ call[r].pc \notin {"settleKey", "cancelKey"} => Stage(call[r]) = "open"
<1>1. call[r].window # ZeroTime
    BY CallOf DEF Phase
<1>2. call[r].pc \in KeyPC => call[r].key \in KeyIDs /\ call[r].key # Nil
    BY CallOf, RelayAssumption DEF Local
<1> QED
    BY <1>1, <1>2, StageOf

\* ReleaseKey and SettleKey count one request less.
LEMMA BusyLess ==
    ASSUME LifeInv, NEW k \in KeyIDs, NEW n, AdjustKey(k, n)
    PROVE  inFlight' = Life!GivenBack(k)
<1>1. inFlight \in [KeyIDs -> Nat]
    BY DEF LifeInv, RelayInv, Typed, TypedLedger
<1>2. inFlight' = [inFlight EXCEPT ![k] = max64(0, inFlight[k] - 1)]
    BY DEF AdjustKey
<1>3. max64(0, inFlight[k] - 1) = IF inFlight[k] > 0 THEN inFlight[k] - 1 ELSE 0
    BY <1>1 DEF max64
<1> QED
    BY <1>2, <1>3 DEF Life!GivenBack

LEMMA EarlyStill ==
    ASSUME LifeInv, NEW r \in Requests, NEW from, NEW to, Goes(r, from, to),
           from \subseteq EarlyPC, to \subseteq EarlyPC \cup {"done"},
           UNCHANGED inFlight
    PROVE  Still
<1>1. PICK d : /\ call' = [call EXCEPT ![r] = d]
               /\ d.pc \in to /\ d.window = call[r].window
               /\ d.key = call[r].key /\ d.attempt = call[r].attempt
    BY DEF Goes
<1>2. call[r].pc \in EarlyPC /\ call[r].window = ZeroTime
    BY CallOf DEF Goes, Phase
<1>3. Stage(d) = "none" /\ Stage(call[r]) = "none"
    BY <1>1, <1>2, StageOf
<1>4. /\ HeldKey(d) = Nil /\ HeldKey(call[r]) = Nil
      /\ ExtraKey(d) = Nil /\ ExtraKey(call[r]) = Nil
    BY <1>1, <1>2 DEF HeldKey, ExtraKey, EarlyPC
<1> QED
    BY <1>1, <1>3, <1>4, StillStep

LEMMA DropStep ==
    ASSUME LifeInv, NEW r \in Requests, Goes(r, {"call"}, {"select", "refund"}),
           Unbook(r)
    PROVE  Life!Drop(r)
<1>1. PICK d : /\ call' = [call EXCEPT ![r] = d]
               /\ d.pc \in {"select", "refund"} /\ d.window = call[r].window
               /\ d.key = call[r].key /\ d.attempt = call[r].attempt
    BY DEF Goes
<1>2. call[r].pc = "call"
    BY DEF Goes
<1>3. /\ call[r].window # ZeroTime /\ call[r].key \in KeyIDs
      /\ call[r].key # Nil /\ Stage(call[r]) = "open"
    BY <1>2, LateStage DEF LatePC, KeyPC
<1>4. Stage(d) = "open" /\ HeldKey(d) = Nil /\ ExtraKey(d) = Nil
    BY <1>1, <1>3, StageOf DEF LatePC, HeldKey, ExtraKey
<1>5. HeldKey(call[r]) = call[r].key /\ ExtraKey(call[r]) = Nil
    BY <1>2 DEF HeldKey, ExtraKey
<1>6. inFlight' = Life!GivenBack(call[r].key)
    BY <1>3, BusyLess DEF Unbook, ReleaseKey
<1>7. /\ stages' = [stages EXCEPT ![r] = Stage(d)]
      /\ heldKeys' = [heldKeys EXCEPT ![r] = HeldKey(d)]
      /\ attempts' = [attempts EXCEPT ![r] = d.attempt]
      /\ extras' = [extras EXCEPT ![r] = ExtraKey(d)]
    BY <1>1, Mapped
<1>8. /\ stages' = stages
      /\ heldKeys' = [heldKeys EXCEPT ![r] = Nil]
      /\ attempts' = attempts
      /\ extras' = extras
    BY <1>1, <1>3, <1>4, <1>5, <1>6, <1>7, MappedSame
<1>9. /\ stages[r] = Stage(call[r])
      /\ heldKeys[r] = HeldKey(call[r])
      /\ extras[r] = ExtraKey(call[r])
    BY MappedSame
<1> QED
    BY <1>1, <1>3, <1>4, <1>5, <1>6, <1>8, <1>9 DEF Life!Drop

LEMMA AbandonStep ==
    ASSUME LifeInv, NEW r \in Requests, Goes(r, {"call"}, {"cancelUser"}),
           Unbook(r)
    PROVE  Life!Abandon(r)
<1>1. PICK d : /\ call' = [call EXCEPT ![r] = d]
               /\ d.pc = "cancelUser" /\ d.window = call[r].window
               /\ d.key = call[r].key /\ d.attempt = call[r].attempt
    BY DEF Goes
<1>2. call[r].pc = "call"
    BY DEF Goes
<1>3. /\ call[r].window # ZeroTime /\ call[r].key \in KeyIDs
      /\ call[r].key # Nil /\ Stage(call[r]) = "open"
    BY <1>2, LateStage DEF LatePC, KeyPC
<1>4. Stage(d) = "open" /\ HeldKey(d) = Nil /\ ExtraKey(d) = call[r].key
    BY <1>1, <1>3, StageOf DEF LatePC, HeldKey, ExtraKey
<1>5. HeldKey(call[r]) = call[r].key /\ ExtraKey(call[r]) = Nil
    BY <1>2 DEF HeldKey, ExtraKey
<1>6. inFlight' = Life!GivenBack(call[r].key)
    BY <1>3, BusyLess DEF Unbook, ReleaseKey
<1>7. /\ stages' = [stages EXCEPT ![r] = Stage(d)]
      /\ heldKeys' = [heldKeys EXCEPT ![r] = HeldKey(d)]
      /\ attempts' = [attempts EXCEPT ![r] = d.attempt]
      /\ extras' = [extras EXCEPT ![r] = ExtraKey(d)]
    BY <1>1, Mapped
<1>8. /\ stages' = stages
      /\ heldKeys' = [heldKeys EXCEPT ![r] = Nil]
      /\ attempts' = attempts
      /\ extras' = [extras EXCEPT ![r] = call[r].key]
    BY <1>1, <1>3, <1>4, <1>5, <1>6, <1>7, MappedSame
<1>9. /\ stages[r] = Stage(call[r])
      /\ heldKeys[r] = HeldKey(call[r])
      /\ extras[r] = ExtraKey(call[r])
    BY MappedSame
<1> QED
    BY <1>1, <1>3, <1>4, <1>5, <1>6, <1>8, <1>9 DEF Life!Abandon

LEMMA ForwardStill ==
    ASSUME LifeInv, NEW r \in Requests, Goes(r, {"call"}, {"forward"}),
           UNCHANGED inFlight
    PROVE  Still
<1>1. PICK d : /\ call' = [call EXCEPT ![r] = d]
               /\ d.pc = "forward" /\ d.window = call[r].window
               /\ d.key = call[r].key /\ d.attempt = call[r].attempt
    BY DEF Goes
<1>2. call[r].pc = "call"
    BY DEF Goes
<1>3. call[r].window # ZeroTime /\ Stage(call[r]) = "open"
    BY <1>2, LateStage DEF LatePC
<1>4. Stage(d) = "open"
    BY <1>1, <1>3, StageOf DEF LatePC
<1>5. /\ HeldKey(d) = HeldKey(call[r])
      /\ ExtraKey(d) = ExtraKey(call[r])
    BY <1>1, <1>2 DEF HeldKey, ExtraKey
<1> QED
    BY <1>1, <1>3, <1>4, <1>5, StillStep

LEMMA RefundStep ==
    ASSUME LifeInv, NEW r \in Requests, UNCHANGED inFlight,
           \/ Goes(r, {"cancelUser"}, {"cancelKey"})
           \/ Goes(r, {"refund"}, {"done"})
    PROVE  Life!Refund(r)
<1>1. PICK d : /\ call' = [call EXCEPT ![r] = d]
               /\ \/ call[r].pc = "cancelUser" /\ d.pc = "cancelKey"
                  \/ call[r].pc = "refund" /\ d.pc = "done"
               /\ d.window = call[r].window
               /\ d.key = call[r].key /\ d.attempt = call[r].attempt
    BY DEF Goes
<1>2. call[r].window # ZeroTime /\ Stage(call[r]) = "open"
    BY <1>1, LateStage DEF LatePC
<1>3. Stage(d) = "closed"
    BY <1>1, <1>2, StageOf
<1>4. /\ HeldKey(d) = Nil /\ HeldKey(call[r]) = Nil
      /\ ExtraKey(d) = ExtraKey(call[r])
    BY <1>1 DEF HeldKey, ExtraKey
<1>5. /\ stages' = [stages EXCEPT ![r] = Stage(d)]
      /\ heldKeys' = [heldKeys EXCEPT ![r] = HeldKey(d)]
      /\ attempts' = [attempts EXCEPT ![r] = d.attempt]
      /\ extras' = [extras EXCEPT ![r] = ExtraKey(d)]
    BY <1>1, Mapped
<1>6. /\ stages' = [stages EXCEPT ![r] = "closed"]
      /\ heldKeys' = heldKeys
      /\ attempts' = attempts
      /\ extras' = extras
    BY <1>1, <1>2, <1>3, <1>4, <1>5, MappedSame
<1>7. /\ stages[r] = Stage(call[r])
      /\ heldKeys[r] = HeldKey(call[r])
      /\ extras[r] = ExtraKey(call[r])
    BY MappedSame
<1> QED
    BY <1>1, <1>2, <1>3, <1>4, <1>6, <1>7 DEF Life!Refund

LEMMA AgainStep ==
    ASSUME LifeInv, NEW r \in Requests, Goes(r, {"cancelKey"}, {"done"}),
           Unbook(r)
    PROVE  Life!GiveBackAgain(r)
<1>1. PICK d : /\ call' = [call EXCEPT ![r] = d]
               /\ d.pc = "done" /\ d.window = call[r].window
               /\ d.key = call[r].key /\ d.attempt = call[r].attempt
    BY DEF Goes
<1>2. call[r].pc = "cancelKey"
    BY DEF Goes
<1>3. /\ call[r].window # ZeroTime /\ call[r].key \in KeyIDs
      /\ call[r].key # Nil
    BY <1>2, LateStage DEF LatePC, KeyPC
<1>4. Stage(d) = "closed" /\ Stage(call[r]) = "closed"
    BY <1>1, <1>2, <1>3, StageOf
<1>5. /\ HeldKey(d) = Nil /\ HeldKey(call[r]) = Nil
      /\ ExtraKey(d) = Nil /\ ExtraKey(call[r]) = call[r].key
    BY <1>1, <1>2 DEF HeldKey, ExtraKey
<1>6. inFlight' = Life!GivenBack(call[r].key)
    BY <1>3, BusyLess DEF Unbook, ReleaseKey
<1>7. /\ stages' = [stages EXCEPT ![r] = Stage(d)]
      /\ heldKeys' = [heldKeys EXCEPT ![r] = HeldKey(d)]
      /\ attempts' = [attempts EXCEPT ![r] = d.attempt]
      /\ extras' = [extras EXCEPT ![r] = ExtraKey(d)]
    BY <1>1, Mapped
<1>8. /\ stages' = stages
      /\ heldKeys' = heldKeys
      /\ attempts' = attempts
      /\ extras' = [extras EXCEPT ![r] = Nil]
    BY <1>1, <1>3, <1>4, <1>5, <1>6, <1>7, MappedSame
<1>9. /\ stages[r] = Stage(call[r])
      /\ heldKeys[r] = HeldKey(call[r])
      /\ extras[r] = ExtraKey(call[r])
    BY MappedSame
<1> QED
    BY <1>1, <1>3, <1>4, <1>5, <1>6, <1>8, <1>9 DEF Life!GiveBackAgain

LEMMA ChargeStep ==
    ASSUME LifeInv, NEW r \in Requests, Goes(r, {"forward"}, {"settleKey"}),
           UNCHANGED inFlight
    PROVE  Life!Charge(r)
<1>1. PICK d : /\ call' = [call EXCEPT ![r] = d]
               /\ d.pc = "settleKey" /\ d.window = call[r].window
               /\ d.key = call[r].key /\ d.attempt = call[r].attempt
    BY DEF Goes
<1>2. call[r].pc = "forward"
    BY DEF Goes
<1>3. /\ call[r].window # ZeroTime /\ call[r].key # Nil
      /\ Stage(call[r]) = "open"
    BY <1>2, LateStage DEF LatePC, KeyPC
<1>4. Stage(d) = "charged"
    BY <1>1, <1>3, StageOf
<1>5. /\ HeldKey(d) = call[r].key /\ HeldKey(call[r]) = call[r].key
      /\ ExtraKey(d) = ExtraKey(call[r])
    BY <1>1, <1>2 DEF HeldKey, ExtraKey
<1>6. /\ stages' = [stages EXCEPT ![r] = Stage(d)]
      /\ heldKeys' = [heldKeys EXCEPT ![r] = HeldKey(d)]
      /\ attempts' = [attempts EXCEPT ![r] = d.attempt]
      /\ extras' = [extras EXCEPT ![r] = ExtraKey(d)]
    BY <1>1, Mapped
<1>7. /\ stages' = [stages EXCEPT ![r] = "charged"]
      /\ heldKeys' = heldKeys
      /\ attempts' = attempts
      /\ extras' = extras
    BY <1>1, <1>3, <1>4, <1>5, <1>6, MappedSame
<1>8. /\ stages[r] = Stage(call[r])
      /\ heldKeys[r] = HeldKey(call[r])
      /\ extras[r] = ExtraKey(call[r])
    BY MappedSame
<1> QED
    BY <1>1, <1>3, <1>4, <1>5, <1>7, <1>8 DEF Life!Charge

LEMMA CloseStep ==
    ASSUME LifeInv, NEW r \in Requests, Goes(r, {"settleKey"}, {"done"}),
           AdjustKey(call[r].key, call[r].actual - est(r))
    PROVE  Life!Close(r)
<1>1. PICK d : /\ call' = [call EXCEPT ![r] = d]
               /\ d.pc = "done" /\ d.window = call[r].window
               /\ d.key = call[r].key /\ d.attempt = call[r].attempt
    BY DEF Goes
<1>2. call[r].pc = "settleKey"
    BY DEF Goes
<1>3. call[r].window # ZeroTime /\ call[r].key \in KeyIDs
    BY <1>2, LateStage DEF LatePC, KeyPC
<1>4. Stage(d) = "closed" /\ Stage(call[r]) = "charged"
    BY <1>1, <1>2, <1>3, StageOf
<1>5. /\ HeldKey(d) = Nil /\ HeldKey(call[r]) = call[r].key
      /\ ExtraKey(d) = Nil /\ ExtraKey(call[r]) = Nil
    BY <1>1, <1>2 DEF HeldKey, ExtraKey
<1>6. inFlight' = Life!GivenBack(call[r].key)
    BY <1>3, BusyLess
<1>7. /\ stages' = [stages EXCEPT ![r] = Stage(d)]
      /\ heldKeys' = [heldKeys EXCEPT ![r] = HeldKey(d)]
      /\ attempts' = [attempts EXCEPT ![r] = d.attempt]
      /\ extras' = [extras EXCEPT ![r] = ExtraKey(d)]
    BY <1>1, Mapped
<1>8. /\ stages' = [stages EXCEPT ![r] = "closed"]
      /\ heldKeys' = [heldKeys EXCEPT ![r] = Nil]
      /\ attempts' = attempts
      /\ extras' = extras
    BY <1>1, <1>3, <1>4, <1>5, <1>6, <1>7, MappedSame
<1>9. /\ stages[r] = Stage(call[r])
      /\ heldKeys[r] = HeldKey(call[r])
      /\ extras[r] = ExtraKey(call[r])
    BY MappedSame
<1> QED
    BY <1>1, <1>3, <1>4, <1>5, <1>6, <1>8, <1>9 DEF Life!Close

LEMMA ReserveLife ==
    ASSUME LifeInv, NEW r \in Requests, Reserve(r)
    PROVE  (Life!Open(r) \/ Still) /\ Phases'
<1> DEFINE d == [call[r] EXCEPT !.pc = "select",
                       !.window = hourStart(call[r].now),
                       !.late = hourStart(call[r].now) # hourStart(clock)]
           e == [call[r] EXCEPT !.pc = "done", !.reply = Own(429)]
<1>0. call[r].pc = "reserve" /\ call[r].window = ZeroTime /\ call[r].now \in Time
    BY CallOf DEF Reserve, Phase, EarlyPC, Call
<1>1. Stage(call[r]) = "none" /\ HeldKey(call[r]) = Nil /\ ExtraKey(call[r]) = Nil
    BY <1>0, StageOf DEF HeldKey, ExtraKey
<1>2. /\ d.pc = "select" /\ d.window = hourStart(call[r].now)
      /\ d.attempt = call[r].attempt
      /\ e.pc = "done" /\ e.window = call[r].window
      /\ e.attempt = call[r].attempt
    BY CallOf DEF Call
<1>3. d.window # ZeroTime
    BY <1>0, <1>2, StartType DEF Time, ZeroTime
<1>4. CASE call' = [call EXCEPT ![r] = d] /\ UNCHANGED inFlight
  <2> HIDE DEF d
  <2>1. Stage(d) = "open" /\ HeldKey(d) = Nil /\ ExtraKey(d) = Nil
      BY <1>2, <1>3, StageOf DEF LatePC, HeldKey, ExtraKey
  <2>2. /\ stages' = [stages EXCEPT ![r] = Stage(d)]
        /\ heldKeys' = [heldKeys EXCEPT ![r] = HeldKey(d)]
        /\ attempts' = [attempts EXCEPT ![r] = d.attempt]
        /\ extras' = [extras EXCEPT ![r] = ExtraKey(d)]
      BY <1>4, Mapped
  <2>3. /\ stages' = [stages EXCEPT ![r] = "open"]
        /\ heldKeys' = heldKeys /\ attempts' = attempts /\ extras' = extras
      BY <1>1, <1>2, <2>1, <2>2, MappedSame
  <2>4. stages[r] = "none"
      BY <1>1, MappedSame
  <2>5. Life!Open(r)
      BY <1>4, <2>3, <2>4 DEF Life!Open
  <2>6. Phase(d)
      BY <1>2, <1>3 DEF Phase, EarlyPC
  <2> QED
      BY <1>4, <2>5, <2>6, PhaseKept
<1>5. CASE call' = [call EXCEPT ![r] = e] /\ UNCHANGED inFlight
  <2> HIDE DEF e
  <2>1. Stage(e) = "none" /\ HeldKey(e) = Nil /\ ExtraKey(e) = Nil
      BY <1>0, <1>2, StageOf DEF HeldKey, ExtraKey
  <2>2. Still
      BY <1>1, <1>2, <1>5, <2>1, StillStep
  <2>3. Phase(e)
      BY <1>2 DEF Phase, EarlyPC, LatePC
  <2> QED
      BY <1>5, <2>2, <2>3, PhaseKept
<1> QED
    BY <1>4, <1>5 DEF Reserve, ReserveUser, Becomes, storeVars, ledger

\* A step between two places of the loop where no key holds the reservation.
LEMMA LoopStill ==
    ASSUME LifeInv, NEW r \in Requests, NEW d, call' = [call EXCEPT ![r] = d],
           call[r].pc \in {"select", "reserveKey"},
           d.pc \in {"select", "reserveKey", "refund"},
           d.window = call[r].window, d.attempt = call[r].attempt,
           UNCHANGED inFlight
    PROVE  Still /\ Phases'
<1>1. call[r].window # ZeroTime /\ Stage(call[r]) = "open"
    BY LateStage DEF LatePC
<1>2. Stage(d) = "open"
    BY <1>1, StageOf DEF LatePC
<1>3. /\ HeldKey(d) = Nil /\ HeldKey(call[r]) = Nil
      /\ ExtraKey(d) = Nil /\ ExtraKey(call[r]) = Nil
    BY DEF HeldKey, ExtraKey
<1>4. Still
    BY <1>1, <1>2, <1>3, StillStep
<1>5. Phase(d)
    BY <1>1 DEF Phase, EarlyPC
<1> QED
    BY <1>4, <1>5, PhaseKept

LEMMA ChooseLife ==
    ASSUME LifeInv, NEW r \in Requests, ChooseKey(r)
    PROVE  Still /\ Phases'
<1>1. call[r].pc = "select" /\ UNCHANGED inFlight
    BY DEF ChooseKey, storeVars, ledger
<1>2. ASSUME NEW k, NEW l,
             Becomes(r, [call[r] EXCEPT !.pc = "reserveKey", !.key = k,
                                        !.limit = l])
      PROVE  Still /\ Phases'
  <2> DEFINE d == [call[r] EXCEPT !.pc = "reserveKey", !.key = k, !.limit = l]
  <2>1. /\ d.pc = "reserveKey" /\ d.window = call[r].window
        /\ d.attempt = call[r].attempt /\ call' = [call EXCEPT ![r] = d]
      BY <1>2, CallOf DEF Call, Becomes
  <2> HIDE DEF d
  <2> QED
      BY <1>1, <2>1, LoopStill
<1>3. ASSUME NEW y, Becomes(r, [call[r] EXCEPT !.pc = "refund", !.reply = y])
      PROVE  Still /\ Phases'
  <2> DEFINE d == [call[r] EXCEPT !.pc = "refund", !.reply = y]
  <2>1. /\ d.pc = "refund" /\ d.window = call[r].window
        /\ d.attempt = call[r].attempt /\ call' = [call EXCEPT ![r] = d]
      BY <1>3, CallOf DEF Call, Becomes
  <2> HIDE DEF d
  <2> QED
      BY <1>1, <2>1, LoopStill
<1> QED
    BY <1>2, <1>3, ZenonT(60) DEF ChooseKey

LEMMA BookLife ==
    ASSUME LifeInv, NEW r \in Requests, BookKey(r)
    PROVE  ((\E k \in KeyIDs : Life!Hold(r, k)) \/ Still) /\ Phases'
<1> DEFINE c == call[r]
           d == [call[r] EXCEPT
                        !.pc = "call", !.attempt = @ + 1,
                        !.tried = Append(@, [key |-> c.key,
                                                opts |-> hasOpts(r),
                                                code |-> 0]),
                        !.keyWindow = hourStart(clock)]
           e == [call[r] EXCEPT !.pc = "select", !.exclude = @ \cup {c.key}]
<1>1. call[r].pc = "reserveKey"
    BY DEF BookKey
<1>2. /\ d.pc = "call" /\ d.window = call[r].window
      /\ d.key = call[r].key /\ d.attempt = call[r].attempt + 1
      /\ e.pc = "select" /\ e.window = call[r].window
      /\ e.attempt = call[r].attempt
    BY CallOf DEF Call
<1>3. CASE ReserveKey(c.key, est(r), c.limit, working(r)) /\ Becomes(r, d)
  <2>0. call' = [call EXCEPT ![r] = d]
        /\ inFlight' = [inFlight EXCEPT ![call[r].key] = @ + 1]
      BY <1>3 DEF Becomes, ReserveKey
  <2> HIDE DEF d
  <2>1. /\ call[r].window # ZeroTime /\ Stage(call[r]) = "open"
        /\ call[r].key \in KeyIDs /\ call[r].attempt < 2
      BY <1>1, LateStage, CallOf DEF LatePC, KeyPC, Local, AttemptPC
  <2>2. /\ Stage(d) = "open" /\ HeldKey(d) = call[r].key /\ ExtraKey(d) = Nil
      BY <1>2, <2>1, StageOf DEF LatePC, HeldKey, ExtraKey
  <2>3. HeldKey(call[r]) = Nil /\ ExtraKey(call[r]) = Nil
      BY <1>1 DEF HeldKey, ExtraKey
  <2>4. /\ stages' = [stages EXCEPT ![r] = Stage(d)]
        /\ heldKeys' = [heldKeys EXCEPT ![r] = HeldKey(d)]
        /\ attempts' = [attempts EXCEPT ![r] = d.attempt]
        /\ extras' = [extras EXCEPT ![r] = ExtraKey(d)]
      BY <2>0, Mapped
  <2>5. /\ stages[r] = "open" /\ heldKeys[r] = Nil
        /\ attempts[r] = call[r].attempt
      BY <2>1, <2>3, MappedSame
  <2>6. /\ stages' = stages /\ extras' = extras
        /\ heldKeys' = [heldKeys EXCEPT ![r] = call[r].key]
      BY <2>1, <2>2, <2>3, <2>4, MappedSame
  <2>7. attempts' = [attempts EXCEPT ![r] = @ + 1]
      BY <1>2, <2>4, <2>5
  <2>8. Life!Hold(r, call[r].key)
      BY <2>0, <2>1, <2>5, <2>6, <2>7 DEF Life!Hold
  <2>9. Phase(d)
      BY <1>2, <2>1 DEF Phase, EarlyPC
  <2> QED
      BY <2>0, <2>1, <2>8, <2>9, PhaseKept
<1>4. CASE ReserveKeyRefused(c.key, est(r), c.limit, working(r)) /\ Becomes(r, e)
  <2>1. call' = [call EXCEPT ![r] = e] /\ UNCHANGED inFlight
      BY <1>4 DEF Becomes, ReserveKeyRefused, KeyHourCounter, storeVars, ledger
  <2> HIDE DEF e
  <2> QED
      BY <1>1, <1>2, <2>1, LoopStill
<1> QED
    BY <1>3, <1>4 DEF BookKey

\* Every step of a request is a step of its reservation, or none.
LEMMA RequestLife ==
    ASSUME LifeInv, NEW r \in Requests, Start(r) \/ Handle(r)
    PROVE  /\ \/ Still
              \/ Life!Open(r) \/ Life!Drop(r) \/ Life!Abandon(r)
              \/ Life!Refund(r) \/ Life!GiveBackAgain(r) \/ Life!Charge(r)
              \/ Life!Close(r) \/ \E k \in KeyIDs : Life!Hold(r, k)
           /\ Phases'
<1>1. CASE Start(r)
  <2>1. Goes(r, {"idle"}, {"check", "done"}) /\ UNCHANGED inFlight
      BY <1>1, StartGoes DEF Start, Arrive, storeVars, ledger
  <2> QED
      BY <2>1, EarlyStill, GoesPhase DEF EarlyPC
<1>2. CASE Check(r)
  <2>1. Goes(r, {"check"}, {"reserve", "done"}) /\ UNCHANGED inFlight
      BY <1>2, CheckGoes DEF Check, storeVars, ledger
  <2> QED
      BY <2>1, EarlyStill, GoesPhase DEF EarlyPC
<1>3. CASE Reserve(r)
    BY <1>3, ReserveLife
<1>4. CASE ChooseKey(r) \/ BookKey(r)
    BY <1>4, ChooseLife, BookLife
<1>5. ASSUME Goes(r, {"call"}, {"select", "refund"}), Unbook(r)
      PROVE  Life!Drop(r) /\ Phases'
    BY <1>5, DropStep, GoesPhase DEF LatePC
<1>6. CASE CallFails(r) \/ CallRejectsOptions(r)
    BY <1>5, <1>6, FailsGoes, RejectsGoes DEF CallFails, CallRejectsOptions
<1>7. ASSUME NEW code \in Codes, CallRefused(r, code)
      PROVE  Life!Drop(r) /\ Phases'
    BY <1>5, <1>7, RefusedGoes DEF CallRefused
<1>8. ASSUME NEW code \in Codes, CallSucceeds(r, code)
      PROVE  Still /\ Phases'
  <2>1. Goes(r, {"call"}, {"forward"}) /\ UNCHANGED inFlight
      BY <1>8, SucceedsGoes DEF CallSucceeds, storeVars, ledger
  <2> QED
      BY <2>1, ForwardStill, GoesPhase DEF LatePC
<1>9. CASE CallCancelled(r)
    BY <1>9, CancelledGoes, AbandonStep, GoesPhase DEF CallCancelled, LatePC
<1>10. CASE CancelUser(r)
  <2>1. Goes(r, {"cancelUser"}, {"cancelKey"}) /\ UNCHANGED inFlight
      BY <1>10, CancelUserGoes DEF CancelUser, ReleaseUser, AdjustUser
  <2> QED
      BY <2>1, RefundStep, GoesPhase DEF LatePC
<1>11. CASE CancelKey(r)
    BY <1>11, CancelKeyGoes, AgainStep, GoesPhase DEF CancelKey, LatePC
<1>12. CASE Refund(r)
  <2>1. Goes(r, {"refund"}, {"done"}) /\ UNCHANGED inFlight
      BY <1>12, RefundGoes DEF Refund, ReleaseUser, AdjustUser
  <2> QED
      BY <2>1, RefundStep, GoesPhase DEF LatePC
<1>13. ASSUME NEW n \in Amounts, Forward(r, n)
       PROVE  Life!Charge(r) /\ Phases'
  <2>1. Goes(r, {"forward"}, {"settleKey"}) /\ UNCHANGED inFlight
      BY <1>13, ForwardGoes DEF Forward, SettleUser, AdjustUser
  <2> QED
      BY <2>1, ChargeStep, GoesPhase DEF LatePC
<1>14. CASE Settle(r)
    BY <1>14, SettleGoes, CloseStep, GoesPhase DEF Settle, SettleKey, LatePC
<1> QED
    BY <1>1, <1>2, <1>3, <1>4, <1>6, <1>7, <1>8, <1>9, <1>10, <1>11, <1>12,
       <1>13, <1>14 DEF Handle, Returns

-----------------------------------------------------------------------------
(* The other steps.                                                         *)

LEMMA IdleStill ==
    ASSUME UNCHANGED <<call, inFlight>>
    PROVE  Still
    BY DEF Still, stages, heldKeys, attempts, extras

LEMMA AdministerLife ==
    ASSUME LifeInv, Administer
    PROVE  Still \/ \E ks \in SUBSET KeyIDs : Life!Forget(ks)
<1>0. inFlight \in [KeyIDs -> Nat] /\ UNCHANGED call
    BY DEF LifeInv, RelayInv, Typed, TypedLedger, Administer
<1>1. ASSUME NEW ks \in SUBSET KeyIDs,
             inFlight' = [k \in KeyIDs |-> IF k \in ks THEN 0 ELSE inFlight[k]]
      PROVE  Life!Forget(ks)
  <2>1. UNCHANGED <<stages, heldKeys, attempts, extras>>
      BY <1>0 DEF stages, heldKeys, attempts, extras
  <2> QED
      BY <1>1, <2>1 DEF Life!Forget
<1>2. ASSUME NEW u \in UserIDs, DeleteUser(u)
      PROVE  Life!Forget(OwnKeys(u))
  <2>1. OwnKeys(u) \in SUBSET KeyIDs
      BY DEF OwnKeys, Present, LifeInv, RelayInv, Typed, TypedRegistry
  <2> QED
      BY <1>1, <1>2, <2>1 DEF DeleteUser
<1>3. ASSUME NEW k \in KeyIDs, DeleteUpstreamKey(k)
      PROVE  Life!Forget({k})
    BY <1>0, <1>1, <1>3 DEF DeleteUpstreamKey
<1>4. CASE UNCHANGED inFlight
    BY <1>0, <1>4, IdleStill
<1>5. CASE ManageUsers
  <2>1. CASE \E u \in UserIDs : DeleteUser(u)
    <3>1. PICK u \in UserIDs : DeleteUser(u)
        BY <2>1
    <3>2. OwnKeys(u) \in SUBSET KeyIDs
        BY DEF OwnKeys, Present, LifeInv, RelayInv, Typed, TypedRegistry
    <3> QED
        BY <1>2, <3>1, <3>2
  <2>2. CASE UNCHANGED inFlight
      BY <1>4, <2>2
  <2> QED
      BY <1>5, <2>1, <2>2
         DEF ManageUsers, CreateUser, UpdateUserQuota, UpdateUserPassword,
             SetUserEnabled, SetUser, AddAccessKey, RemoveAccessKey, ledger
<1>6. CASE ManageKeys
  <2>1. CASE \E k \in KeyIDs : DeleteUpstreamKey(k)
    <3>1. PICK k \in KeyIDs : DeleteUpstreamKey(k)
        BY <2>1
    <3> QED
        BY <1>3, <3>1
  <2>2. CASE UNCHANGED inFlight
      BY <1>4, <2>2
  <2> QED
      BY <1>6, <2>1, <2>2
         DEF ManageKeys, CreateUpstreamKey, ReplaceUpstreamKey, ledger
<1>7. CASE ManageSessions
    BY <1>4, <1>7 DEF ManageSessions, PutSession, DeleteSession, ledger
<1>8. CASE \/ \E u \in UserIDs : UserCounters(u)
           \/ \E k \in KeyIDs : KeyHourCounter(k)
    BY <1>4, <1>8 DEF UserCounters, KeyHourCounter
<1> QED
    BY <1>5, <1>6, <1>7, <1>8 DEF Administer

LEMMA DieLife ==
    ASSUME LifeInv, Die
    PROVE  Life!Crash /\ Phases'
<1>1. \A r \in Requests :
          \/ call[r].pc = "idle" /\ call'[r] = call[r]
          \/ /\ call'[r].pc = "dead" /\ call'[r].window = call[r].window
             /\ call'[r].attempt = call[r].attempt
    BY CallOf DEF Die, Call
<1>2. \A r \in Requests :
          /\ Stage(call'[r]) = IF Stage(call[r]) = "none" THEN "none" ELSE "lost"
          /\ HeldKey(call'[r]) = Nil /\ ExtraKey(call'[r]) = Nil
          /\ call'[r].attempt = call[r].attempt
          /\ Phase(call'[r])
  <2> SUFFICES ASSUME NEW r \in Requests
               PROVE /\ Stage(call'[r]) = IF Stage(call[r]) = "none"
                                             THEN "none" ELSE "lost"
                     /\ HeldKey(call'[r]) = Nil /\ ExtraKey(call'[r]) = Nil
                     /\ call'[r].attempt = call[r].attempt
                     /\ Phase(call'[r])
      OBVIOUS
  <2>1. CASE call[r].pc = "idle" /\ call'[r] = call[r]
    <3>1. call[r].window = ZeroTime /\ Phase(call[r])
        BY <2>1, CallOf DEF Phase, EarlyPC
    <3>2. Stage(call[r]) = "none"
        BY <3>1, StageOf
    <3>3. HeldKey(call[r]) = Nil /\ ExtraKey(call[r]) = Nil
        BY <2>1 DEF HeldKey, ExtraKey
    <3> QED
        BY <2>1, <3>1, <3>2, <3>3
  <2>2. CASE /\ call'[r].pc = "dead" /\ call'[r].window = call[r].window
             /\ call'[r].attempt = call[r].attempt
    <3>1. HeldKey(call'[r]) = Nil /\ ExtraKey(call'[r]) = Nil
        BY <2>2 DEF HeldKey, ExtraKey
    <3>2. Phase(call'[r])
        BY <2>2 DEF Phase, EarlyPC, LatePC
    <3>3. CASE call[r].window = ZeroTime
        BY <2>2, <3>1, <3>2, <3>3, StageOf
    <3>4. CASE call[r].window # ZeroTime
      <4>1. Stage(call'[r]) = "lost"
          BY <2>2, <3>4, StageOf
      <4>2. Stage(call[r]) # "none"
          BY <3>4, StageOf
      <4> QED
          BY <2>2, <3>1, <3>2, <4>1, <4>2
    <3> QED
        BY <3>3, <3>4
  <2> QED
      BY <1>1, <2>1, <2>2
<1>3. stages' = [r \in Requests |-> IF stages[r] = "none" THEN "none" ELSE "lost"]
    BY <1>2 DEF stages
<1>4. heldKeys' = [r \in Requests |-> Nil] /\ extras' = [r \in Requests |-> Nil]
    BY <1>2 DEF heldKeys, extras
<1>5. attempts' = attempts
    BY <1>2 DEF attempts
<1>6. inFlight' = [k \in KeyIDs |-> 0]
    BY DEF Die, Restart, Load
<1> QED
    BY <1>2, <1>3, <1>4, <1>5, <1>6 DEF Life!Crash, Phases

LEMMA LifeStep ==
    LifeInv /\ [RelayNext]_vars => [Life!ResNext]_(Life!resVars) /\ Phases'
<1> SUFFICES ASSUME LifeInv, [RelayNext]_vars
             PROVE  [Life!ResNext]_(Life!resVars) /\ Phases'
    OBVIOUS
<1>1. Still => [Life!ResNext]_(Life!resVars)
    BY DEF Still, Life!resVars
<1>2. ASSUME NEW r \in Requests, Start(r) \/ Handle(r)
      PROVE  [Life!ResNext]_(Life!resVars) /\ Phases'
    BY <1>1, <1>2, RequestLife DEF Life!ResNext
<1>3. ASSUME UNCHANGED call
      PROVE  Phases'
    BY <1>3 DEF LifeInv, Phases
<1>4. CASE Administer
    BY <1>1, <1>3, <1>4, AdministerLife DEF Life!ResNext, Administer
<1>5. CASE Die
    BY <1>5, DieLife DEF Life!ResNext
<1>6. CASE \/ Background /\ UNCHANGED call
           \/ Tick /\ UNCHANGED call
           \/ UNCHANGED vars
  <2>1. UNCHANGED <<call, inFlight>>
      BY <1>6 DEF Background, TimerFires, TimerFlush, FinalFlush, StopSignal,
                  Tick, vars, storeVars, ledger
  <2> QED
      BY <1>1, <1>3, <2>1, IdleStill
<1> QED
    BY <1>2, <1>4, <1>5, <1>6 DEF RelayNext

\* Every behaviour of the relay, with its administration, its saves and its
\* crashes, is one of Reservation.
THEOREM RelayImplementsReservation == RelaySpec => ReservationLife
<1>1. RelayInit => Life!ResInit /\ LifeInv
  <2> SUFFICES ASSUME RelayInit PROVE Life!ResInit /\ LifeInv
      OBVIOUS
  <2>1. call = [r \in Requests |-> NotArrived] /\ inFlight = [k \in KeyIDs |-> 0]
      BY DEF RelayInit, Init
  <2>2. /\ Stage(NotArrived) = "none" /\ HeldKey(NotArrived) = Nil
        /\ ExtraKey(NotArrived) = Nil /\ NotArrived.attempt = 0
        /\ Phase(NotArrived)
    <3>1. NotArrived.window = ZeroTime /\ NotArrived.pc = "idle"
          /\ NotArrived.attempt = 0
        BY DEF NotArrived
    <3> QED
        BY <3>1, StageOf DEF HeldKey, ExtraKey, Phase, LatePC
  <2>3. Life!ResInit
      BY <2>1, <2>2 DEF Life!ResInit, stages, heldKeys, attempts, extras
  <2>4. Phases
      BY <2>1, <2>2 DEF Phases
  <2> QED
      BY <2>3, <2>4, RelayInitInv DEF LifeInv
<1>2. LifeInv /\ [RelayNext]_vars => LifeInv'
    BY LifeStep, RelayStep DEF LifeInv
<1>3. LifeInv /\ [RelayNext]_vars => [Life!ResNext]_(Life!resVars)
    BY LifeStep
<1> QED
    BY <1>1, <1>2, <1>3, PTL DEF RelaySpec, ReservationLife, Life!ResSpec
=============================================================================
