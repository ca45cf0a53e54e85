------------------------------ MODULE MCRelay ------------------------------
(* Small instances of Relay: values for its constants, and a budget for each *)
(* kind of step that could otherwise go on for ever.  Requests need none:    *)
(* each arrives once and makes at most two calls.                            *)
EXTENDS RelayClaims, RelayLife, TLC

CONSTANTS u1, u2,         \* the users
          MaxManage,     \* changes of the registry, and reads of a counter
          MaxSaves,      \* times the timer fires
          MaxRestarts,   \* ends of the process
          MaxClock,      \* ticks of the clock
          Limited,       \* whether the rate limiter may refuse
          MayCancel      \* whether clients may go away during a call

VARIABLE spent

mcVars == <<vars, spent>>

\* Saves and restarts are for a store with one key.
Budget == [manage |-> MaxManage, save |-> MaxSaves, restart |-> MaxRestarts]

Spent(keys) == [b \in DOMAIN Budget |->
                    IF b # "manage" /\ Cardinality(keys) > 1 THEN Budget[b] ELSE 0]

Spend(b) == spent[b] < Budget[b] /\ spent' = [spent EXCEPT ![b] = @ + 1]

Free == UNCHANGED spent

MCInit == RelayInit /\ spent = Spent(Present(upstreamKeys))

Arrives(r) ==
    \E a \in Present(accessKeys), b \in Payloads,
       allowed \in IF Limited THEN BOOLEAN ELSE {TRUE} :
        Arrive(r, a, b, allowed)

\* Saves that fail are left to MCStore, and so is the save of a shutdown: to
\* requests it is a save like any other, followed by the end of the process.
Saves == \/ Spend("save") /\ TimerFires
         \/ TimerFlush(TRUE) /\ Free

\* Changes of the registry that leave the limits as the disk has them, and
\* add no key.
Administers ==
    /\ Administer
    /\ Present(upstreamKeys') \subseteq Present(upstreamKeys)
    /\ \A u \in Present(users) :
          users'[u] # Nil => /\ users'[u].hourly = users[u].hourly
                             /\ users'[u].daily = users[u].daily
    /\ \A k \in Present(upstreamKeys) :
          upstreamKeys'[k] # Nil => upstreamKeys'[k].limit = upstreamKeys[k].limit

Handles(r) == /\ Handle(r)
              /\ CallCancelled(r) => MayCancel
              /\ Free

MCNext == \/ \E r \in Requests : \/ Arrives(r) /\ Free
                                 \/ Handles(r)
          \/ Spend("manage") /\ Administers
          \/ Saves /\ UNCHANGED call
          \/ Spend("restart") /\ Die
          \/ clock < MaxClock /\ Tick /\ UNCHANGED call /\ Free

MCSpec == MCInit /\ [][MCNext]_mcVars

\* What a goroutine does by itself, where only the store's mutex is waited for,
\* and the return of a call that is no stream.
RunsOn(r) == \/ Check(r) \/ Reserve(r) \/ ChooseKey(r) \/ BookKey(r)
             \/ ~call[r].body.stream /\ Returns(r)
             \/ CancelUser(r) \/ CancelKey(r) \/ Refund(r) \/ Settle(r)

\* Every goroutine runs on, and a call that is no stream returns: its client
\* has a timeout of five minutes.  The client used for streams has none, and
\* a server without timeouts may write to a client that does not read for ever:
\* neither the calls of streams nor any forwarding is fair.
MCFair ==
    MCSpec /\ \A r \in Requests : WF_mcVars(RunsOn(r) /\ Free)

RequestSymmetry == Permutations(Requests)

-----------------------------------------------------------------------------
(* Values of the constants.                                                 *)

MCFoldCase == [n \in Usernames |-> n]

MCNormal == [m \in ModelNames |-> IF m = "GPT" THEN "gpt" ELSE m]

AlwaysWorking == {[start |-> 0, end |-> HoursPerDay]}

OneText(kind, messages, letters, maxTokens) ==
    [kind |-> kind, messages |-> messages, maxTokens |-> maxTokens, n |-> 0,
     texts |-> <<[cjk |-> 0, rest |-> letters]>>]

\* Estimated at 1 + 1 tokens, 1 + 0 tokens, and (4 + 1) + 1 tokens.
Complete == [model |-> "GPT", stream |-> TRUE,
             contents |-> OneText("completion", 0, 3, 1)]
Embed == [model |-> "gpt", stream |-> FALSE,
          contents |-> OneText("embedding", 0, 4, 0)]
Chat  == [model |-> "GPT", stream |-> TRUE,
          contents |-> OneText("chat", 1, 2, 1)]
JSONChat == [Chat EXCEPT !.stream = FALSE]

Chats            == {Chat, JSONChat}
CompleteOnly     == {Complete}
EmbedOnly        == {Embed}
CompleteAndEmbed == {Complete, Embed}

\* u1 calls; key 1 is its own, and the others belong to another user.
Disk(keys) ==
    [freshState EXCEPT
        !.users = [u \in UserIDs |->
            [name |-> IF u = u1 THEN "u1" ELSE "u2", hash |-> "h",
             enabled |-> TRUE, hourly |-> 0, daily |-> 0]],
        !.accessKeys = [a \in AccessKeyIDs |-> u1],
        !.upstreamKeys = [k \in KeyIDs |->
            IF k \notin keys THEN Nil
            ELSE [user |-> IF k = 1 THEN u1 ELSE u2, enc |-> "s", models |-> {"gpt"},
                  enabled |-> TRUE, limit |-> 0]]]

OneKey       == {Disk({1})}
TwoKeys      == {Disk({1, 2})}
OneOrTwoKeys == OneKey \cup TwoKeys

\* The hour of the only key has room for one request.
SmallKey == {[d EXCEPT !.upstreamKeys[1].limit = 3] : d \in OneKey}

\* Each hour of two keys has room for one chat.
SmallKeys == {[d EXCEPT !.upstreamKeys[1].limit = 8,
                        !.upstreamKeys[2].limit = 8] : d \in TwoKeys}

\* What the theorems about the ledger suppose.
ASSUME LedgerSupposition == FirstUnused /\ Measured
=============================================================================
