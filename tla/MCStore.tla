------------------------------ MODULE MCStore ------------------------------
(* A small instance of Store: values for its constants, and a budget for    *)
(* each kind of step that could otherwise go on for ever.  Two scenarios     *)
(* spend it differently: one on the registry, one on the ledger.             *)
EXTENDS Durability, TLC

CONSTANTS MaxFailures,   \* saves that fail
          MaxRestarts    \* ends of the process

VARIABLE left            \* what is left of the budget

mcVars == <<storeVars, left>>

Spend(b) == left[b] > 0 /\ left' = [left EXCEPT ![b] = @ - 1]

Free == UNCHANGED left

Callback == \/ TimerFlush(TRUE) /\ Free
            \/ dirty /\ Spend("failure") /\ TimerFlush(FALSE)

Saves == \/ TimerFires /\ Free
         \/ Callback
         \/ FinalFlush(TRUE) /\ Free
         \/ dirty /\ Spend("failure") /\ FinalFlush(FALSE)

MCNext == \/ Spend("manage") /\ (ManageUsers \/ ManageKeys \/ ManageSessions)
          \/ Spend("account") /\ (AccountUser \/ AccountKey)
          \/ Saves
          \/ StopSignal /\ MaxRestarts > 0 /\ Free
          \/ Spend("restart") /\ Restart
          \/ Spend("tick") /\ Tick

-----------------------------------------------------------------------------
(* Values of the constants.                                                 *)

MCFoldCase == [n \in Usernames |-> IF n = "Ann" THEN "ann" ELSE n]

MCNormal == [m \in ModelNames |-> CASE m = "GPT" -> "gpt"
                                    [] m = " "   -> ""
                                    [] OTHER     -> m]

\* The negative one is an estimate that wrapped (tokenize.go:65).
MCAmounts == {-2, 1, 3}

\* One working hour out of two.
MCWorkingHours == {[start |-> 0, end |-> 1]}

Ann == CHOOSE u \in UserIDs : TRUE

OneUser ==
    [freshState EXCEPT !.users[Ann] = [name |-> "ann", hash |-> "h",
                                       enabled |-> TRUE,
                                       hourly |-> 0, daily |-> 0]]

\* The user has a key, and both were charged two tokens in the first hour.
Charged == [start |-> 0, value |-> 2]

OneCharged ==
    [OneUser EXCEPT
        !.upstreamKeys[1] = [user |-> Ann, enc |-> "s", models |-> {},
                             enabled |-> TRUE, limit |-> 4],
        !.counters[Ann] = [hour |-> Charged, day |-> Charged],
        !.keyHours[1] = Charged]

MCDisks == {OneUser, OneCharged}

-----------------------------------------------------------------------------
(* The scenarios.                                                           *)

Budget(manage, account, tick) ==
    [manage |-> manage, account |-> account, tick |-> tick,
     failure |-> MaxFailures, restart |-> MaxRestarts]

\* Three changes of the registry in one hour; or two charges or refunds over
\* two days of two hours.
MCInit == /\ Init
          /\ left = IF disk = OneUser THEN Budget(3, 0, 0)
                                      ELSE Budget(0, 2, 2)

\* The runtime fires an armed timer, and the callback gets the mutex.  The
\* changes are finite in number, so Reset cannot put the timer off for ever.
MCFair == /\ MCInit /\ [][MCNext]_mcVars
          /\ WF_mcVars(TimerFires /\ Free)
          /\ WF_mcVars(Callback)
=============================================================================
