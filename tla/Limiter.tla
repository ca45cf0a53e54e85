------------------------------ MODULE Limiter ------------------------------
(* internal/ratelimit/ratelimit.go: at most Limit requests of a user in a   *)
(* sliding window, and what a refused request is told.                      *)
(*                                                                          *)
(* A request reads the clock (relay.go, proxy) before Allow takes the mutex, *)
(* so that hits are recorded in another order than they were read.  The     *)
(* list of a user's hits is the set of their positions in the sequence of   *)
(* all readings accepted so far: filtering it keeps its order.              *)
EXTENDS Integers, Sequences, FiniteSets

CONSTANTS Users, Requests,
          Limit,            \* perMinuteRequests
          Window            \* one minute

\* config.validate (config.go:158-160) refuses another limit; the window is a
\* constant of main.
ASSUME LimiterAssumption ==
    Limit \in Nat \ {0} /\ Window \in Nat \ {0} /\ Users # {}

VARIABLES clock,
          calls,       \* calls[r]: a request, its reading and its answer
          accepted,    \* history: the readings of each user that passed
          windows,     \* Limiter.windows, as positions in accepted
          promised     \* history: when refused requests may come again

vars == <<clock, calls, accepted, windows, promised>>

Call == [pc : {"idle", "read", "passed", "refused"}, user : Users, now : Nat,
         retry : Nat]

\* Fault: a window that starts anew when its first hit is over.
keptFixed(u, now) ==
    IF \E i \in windows[u] : accepted[u][i] <= now - Window
    THEN {} ELSE windows[u]

\* Fault: a hit at the cutoff stays.
keptAtCutoff(u, now) == {i \in windows[u] : accepted[u][i] >= now - Window}

\* The hits after the cutoff.
kept(u, now) == {i \in windows[u] : accepted[u][i] > now - Window}

First(s) == CHOOSE i \in s : \A j \in s : i <= j

\* Until the first of the hits is over, which need not be the oldest.
Retry(u, now) ==
    LET wait == Window - (now - accepted[u][First(kept(u, now))])
    IN  IF wait < 0 THEN 0 ELSE wait

\* Fault: one too many.
FitsAtLimit(u, now) == Cardinality(kept(u, now)) <= Limit

Fits(u, now) == Cardinality(kept(u, now)) < Limit

Read(r, u) ==
    /\ calls[r].pc = "idle"
    /\ calls' = [calls EXCEPT ![r].pc = "read", ![r].user = u,
                              ![r].now = clock]
    /\ UNCHANGED <<clock, accepted, windows, promised>>

Pass(r) ==
    LET u   == calls[r].user
        now == calls[r].now
    IN  /\ calls[r].pc = "read"
        /\ Fits(u, now)
        /\ accepted' = [accepted EXCEPT ![u] = Append(@, now)]
        /\ windows' = [windows EXCEPT
                          ![u] = kept(u, now) \cup {Len(accepted[u]) + 1}]
        /\ promised' = [promised EXCEPT ![u] = {}]
        /\ calls' = [calls EXCEPT ![r].pc = "passed"]
        /\ UNCHANGED clock

Refuse(r) ==
    LET u   == calls[r].user
        now == calls[r].now
    IN  /\ calls[r].pc = "read"
        /\ ~Fits(u, now)
        /\ windows' = [windows EXCEPT ![u] = kept(u, now)]
        /\ promised' = [promised EXCEPT ![u] = @ \cup {now + Retry(u, now)}]
        /\ calls' = [calls EXCEPT ![r].pc = "refused",
                                  ![r].retry = Retry(u, now)]
        /\ UNCHANGED <<clock, accepted>>

Allow(r) == Pass(r) \/ Refuse(r)

Tick == clock' = clock + 1 /\ UNCHANGED <<calls, accepted, windows, promised>>

Init ==
    /\ clock = 0
    /\ calls = [r \in Requests |-> [pc |-> "idle", now |-> 0, retry |-> 0,
                                    user |-> CHOOSE u \in Users : TRUE]]
    /\ accepted = [u \in Users |-> <<>>]
    /\ windows = [u \in Users |-> {}]
    /\ promised = [u \in Users |-> {}]

Next == \/ \E r \in Requests : (\E u \in Users : Read(r, u)) \/ Allow(r)
        \/ Tick

Spec == Init /\ [][Next]_vars

-----------------------------------------------------------------------------
(* Properties.                                                              *)

\* Types; a wait is never zero, and hits are readings that passed.
LimiterTypeOK ==
    /\ clock \in Nat
    /\ calls \in [Requests -> Call]
    /\ accepted \in [Users -> Seq(Nat)]
    /\ windows \in [Users -> SUBSET Nat]
    /\ promised \in [Users -> SUBSET Nat]
    /\ \A r \in Requests : calls[r].pc = "refused" => calls[r].retry > 0
    /\ \A u \in Users : windows[u] \subseteq DOMAIN accepted[u]

\* Position i of the accepted readings of u was recorded after a later reading.
Late(u, i) == \E j \in 1 .. i - 1 : accepted[u][j] > accepted[u][i]

\* The positions of the readings of u in the window that ends at t.
Within(u, t) ==
    {i \in DOMAIN accepted[u] : accepted[u][i] > t - Window /\ accepted[u][i] <= t}

\* A window may end anywhere: at most Limit requests of a user pass in it, not
\* counting those that took the mutex after a request with a later reading.
\* Such a request finds hits of its own window removed.
SlidingWindow ==
    \A u \in Users : \A i \in DOMAIN accepted[u] :
        Cardinality({j \in Within(u, accepted[u][i]) : ~Late(u, j)}) <= Limit

\* In the window that ends at the latest reading every request counts: taking
\* the mutex in the wrong order never lets more than Limit pass in it.
LatestWindow ==
    \A u \in Users : \A i \in DOMAIN accepted[u] :
        (\A j \in DOMAIN accepted[u] : accepted[u][j] <= accepted[u][i])
            => Cardinality(Within(u, accepted[u][i])) <= Limit

\* Retry-After is honoured ("how long to wait before the next request is
\* accepted"): while nothing else passes, a request of the user that comes
\* when the wait is over, or later, passes, whatever was refused in between
\* and in whatever order.
RetryHonoured ==
    \A u \in Users : \A t \in promised[u] : Fits(u, t)
=============================================================================
