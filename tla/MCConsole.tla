----------------------------- MODULE MCConsole -----------------------------
(* Small instances of Console.  Requests need no budget: each arrives once. *)
(* The timer does not fire, so that a restart brings the first file back.   *)
EXTENDS Console, TLC

CONSTANTS u1, u2, a1,     \* users and an access key in the file
          t0, t1, t2,     \* tokens of sessions in the file
          MaxRestarts,   \* ends of the process
          MaxClock       \* ticks of the clock

VARIABLE spent     \* restarts so far

mcVars == <<vars, spent>>

Free == UNCHANGED spent

MCInit == ConsoleInit /\ spent = 0

MCNext == \/ (\E h \in Handlers : Handle(h)) /\ Free
          \/ spent < MaxRestarts /\ spent' = spent + 1 /\ Die
          \/ clock < MaxClock /\ Tick /\ UNCHANGED <<handler, retired>> /\ Free

MCSpec == MCInit /\ [][MCNext]_mcVars

HandlerSymmetry == Permutations(Handlers)

-----------------------------------------------------------------------------
(* Values of the constants.                                                 *)

MCFoldCase == [n \in Usernames |-> n]

MCNormal == [m \in ModelNames |-> m]

\* u1 has a key and tokens on its counters, u2 has nothing; both and an
\* administrator have sessions, which end with the first hour.
ConsoleDisk ==
    LET charged == [start |-> 0, value |-> 2] IN
    {[freshState EXCEPT
        !.users = [u \in UserIDs |->
            IF u \notin {u1, u2} THEN Nil
            ELSE [name |-> IF u = u1 THEN "u1" ELSE "u2", hash |-> "h",
                  enabled |-> TRUE, hourly |-> 0, daily |-> 0]],
        !.accessKeys[a1] = u1,
        !.upstreamKeys[1] = [user |-> u1, enc |-> "s1", models |-> {},
                             enabled |-> TRUE, limit |-> 0],
        !.sessions[t0] = [role |-> "admin", user |-> Nil, expiry |-> 1],
        !.sessions[t1] = [role |-> "user", user |-> u1, expiry |-> 1],
        !.sessions[t2] = [role |-> "user", user |-> u2, expiry |-> 1],
        !.counters[u1] = [hour |-> charged, day |-> charged],
        !.keyHours[1] = charged]}

\* What the theorem about deletions supposes of the first file.
ASSUME DisksTidy == FirstTidy
=============================================================================
