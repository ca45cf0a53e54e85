--------------------------- MODULE LimiterProofs ---------------------------
(* The properties of Limiter, for every limit and every window.             *)
EXTENDS Limiter, FiniteSetTheorems, WellFoundedInduction, TLAPS

-----------------------------------------------------------------------------
(* Facts about numbers and finite sets.                                     *)

\* A set of natural numbers that is not empty has a least element.
LEMMA LeastElement ==
    ASSUME NEW S \in SUBSET Nat, S # {}
    PROVE  First(S) \in S /\ \A j \in S : First(S) <= j
<1> DEFINE below(i) == {j \in S : j < i}
           T        == {below(i) : i \in S}
<1>0. \A i \in S : i \in Nat
    OBVIOUS
<1>1. T \subseteq FiniteSubsetsOf(S) /\ T # {}
    <2>1. ASSUME NEW i \in S PROVE IsFiniteSet(below(i))
        <3>1. IsFiniteSet(0 .. i)
            BY <1>0, FS_Interval
        <3>2. \A j \in below(i) : j \in 0 .. i
            BY <1>0
        <3>3. below(i) \in SUBSET (0 .. i)
            BY <3>2
        <3> QED
            BY <3>1, <3>3, FS_Subset
    <2> QED
        BY <2>1 DEF FiniteSubsetsOf
<1>2. IsWellFoundedOn(StrictSubsetOrdering(S), FiniteSubsetsOf(S))
    BY FS_StrictSubsetOrderingWellFounded
<1>3. \E b \in T : \A c \in T : ~ (<<c, b>> \in StrictSubsetOrdering(S))
    <2> HIDE DEF T
    <2> QED
        BY <1>1, <1>2, WFMin
<1>4. PICK i \in S : \A j \in S : <<below(j), below(i)>> \notin StrictSubsetOrdering(S)
    BY <1>3
<1>5. ASSUME NEW j \in S, j < i PROVE FALSE
    <2>1. ASSUME NEW x \in below(j) PROVE x \in below(i)
        <3>1. x \in S /\ x < j
            OBVIOUS
        <3>2. x < i
            BY <1>0, <1>5, <3>1
        <3> QED
            BY <3>1, <3>2
    <2>2. j \in below(i) /\ ~ (j < j)
        BY <1>0, <1>5
    <2>3. j \notin below(j)
        BY <2>2
    <2>4. <<below(j), below(i)>> \in StrictSubsetOrdering(S)
        BY <2>1, <2>2, <2>3 DEF StrictSubsetOrdering
    <2> QED
        BY <1>4, <2>4
<1>6. \A j \in S : i <= j
    BY <1>0, <1>5
<1> QED
    BY <1>6 DEF First

\* The set of the numbers from 1 to n, and every part of it, is finite.
LEMMA PositionsFinite ==
    ASSUME NEW n \in Nat, NEW S \in SUBSET (1 .. n)
    PROVE  IsFiniteSet(S) /\ Cardinality(S) \in Nat
<1>1. IsFiniteSet(1 .. n)
    BY FS_Interval
<1>2. IsFiniteSet(S)
    BY <1>1, FS_Subset
<1> QED
    BY <1>2, FS_CardinalityType

LEMMA AddOne ==
    ASSUME NEW S, NEW x, IsFiniteSet(S), Cardinality(S) < Limit
    PROVE  IsFiniteSet(S \cup {x}) /\ Cardinality(S \cup {x}) <= Limit
<1>1. Cardinality(S) \in Nat
    BY FS_CardinalityType
<1>2. /\ IsFiniteSet(S \cup {x})
      /\ Cardinality(S \cup {x}) =
            IF x \in S THEN Cardinality(S) ELSE Cardinality(S) + 1
    BY FS_AddElement
<1> QED
    BY <1>1, <1>2, LimiterAssumption

-----------------------------------------------------------------------------
(* Types.                                                                   *)

\* The types without the wait, and the size of the lists.
Shape ==
    /\ clock \in Nat
    /\ calls \in [Requests -> Call]
    /\ accepted \in [Users -> Seq(Nat)]
    /\ windows \in [Users -> SUBSET Nat]
    /\ promised \in [Users -> SUBSET Nat]
    /\ \A u \in Users : windows[u] \subseteq 1 .. Len(accepted[u])
    /\ \A u \in Users : Cardinality(windows[u]) <= Limit

LEMMA WindowsFinite ==
    ASSUME Shape, NEW u \in Users
    PROVE  /\ IsFiniteSet(windows[u])
           /\ Cardinality(windows[u]) \in Nat
           /\ \A now \in Nat : /\ kept(u, now) \subseteq windows[u]
                               /\ IsFiniteSet(kept(u, now))
                               /\ Cardinality(kept(u, now)) \in Nat
<1>1. Len(accepted[u]) \in Nat /\ windows[u] \in SUBSET (1 .. Len(accepted[u]))
    BY DEF Shape
<1>2. ASSUME NEW now \in Nat
      PROVE  kept(u, now) \subseteq windows[u]
    BY DEF kept
<1> QED
    BY <1>1, <1>2, PositionsFinite

\* Refusing removes nothing: a full list is full of hits of the window.
LEMMA RefuseKeeps ==
    ASSUME Shape, NEW u \in Users, NEW now \in Nat, ~Fits(u, now)
    PROVE  kept(u, now) = windows[u] /\ kept(u, now) # {}
<1>1. /\ IsFiniteSet(windows[u]) /\ Cardinality(windows[u]) \in Nat
      /\ kept(u, now) \in SUBSET windows[u]
      /\ Cardinality(kept(u, now)) \in Nat
    BY WindowsFinite
<1>2. Cardinality(kept(u, now)) >= Limit /\ Cardinality(windows[u]) <= Limit
    BY <1>1, LimiterAssumption DEF Fits, Shape
<1>3. Cardinality(kept(u, now)) <= Cardinality(windows[u])
    BY <1>1, FS_Subset
<1>4. Cardinality(kept(u, now)) = Cardinality(windows[u])
    BY <1>1, <1>2, <1>3, LimiterAssumption
<1>5. kept(u, now) = windows[u]
    BY <1>1, <1>4, FS_Subset
<1>6. kept(u, now) # {}
    BY <1>2, FS_EmptySet, LimiterAssumption
<1> QED
    BY <1>5, <1>6

\* A wait is a positive number.
LEMMA RetryPositive ==
    ASSUME Shape, NEW u \in Users, NEW now \in Nat, ~Fits(u, now)
    PROVE  /\ Retry(u, now) \in Nat \ {0}
           /\ First(kept(u, now)) \in kept(u, now)
           /\ now + Retry(u, now) =
                accepted[u][First(kept(u, now))] + Window
<1> DEFINE i == First(kept(u, now))
<1>1. i \in kept(u, now)
    <2>1. kept(u, now) \in SUBSET Nat
        BY DEF kept, Shape
    <2> QED
        BY <2>1, RefuseKeeps, LeastElement
<1>2. i \in 1 .. Len(accepted[u]) /\ accepted[u][i] > now - Window
    BY <1>1 DEF kept, Shape
<1>3. accepted[u][i] \in Nat
    BY <1>2 DEF Shape
<1> HIDE DEF i
<1>4. Retry(u, now) = Window - (now - accepted[u][i])
    BY <1>2, <1>3, LimiterAssumption DEF Retry, i
<1> QED
    BY <1>1, <1>2, <1>3, <1>4, LimiterAssumption DEF i
-----------------------------------------------------------------------------
(* What the steps do.                                                       *)

LEMMA PassEffect ==
    ASSUME Shape, NEW r \in Requests, Pass(r)
    PROVE  \E u \in Users, now \in Nat :
              LET n == Len(accepted[u]) IN
              /\ n \in Nat
              /\ Len(accepted'[u]) = n + 1
              /\ accepted'[u] \in Seq(Nat)
              /\ accepted'[u][n + 1] = now
              /\ \A i \in 1 .. n : accepted'[u][i] = accepted[u][i]
              /\ \A v \in Users \ {u} : /\ accepted'[v] = accepted[v]
                                        /\ windows'[v] = windows[v]
                                        /\ promised'[v] = promised[v]
              /\ accepted' \in [Users -> Seq(Nat)]
              /\ Fits(u, now)
              /\ windows'[u] = kept(u, now) \cup {n + 1}
              /\ windows' \in [Users -> SUBSET Nat]
              /\ promised' \in [Users -> SUBSET Nat]
              /\ promised'[u] = {}
<1> DEFINE u == calls[r].user
           now == calls[r].now
           n == Len(accepted[u])
<1>1. u \in Users /\ now \in Nat
    BY DEF Shape, Call
<1>2. accepted[u] \in Seq(Nat) /\ n \in Nat
    BY <1>1 DEF Shape
<1> HIDE DEF u, now, n
<1>3. /\ Fits(u, now)
      /\ accepted' = [accepted EXCEPT ![u] = Append(accepted[u], now)]
      /\ windows' = [windows EXCEPT ![u] = kept(u, now) \cup {n + 1}]
      /\ promised' = [promised EXCEPT ![u] = {}]
    BY DEF Pass, u, now, n
<1>4. accepted'[u] = Append(accepted[u], now)
    BY <1>1, <1>3 DEF Shape
<1>5. /\ accepted'[u] \in Seq(Nat)
      /\ Len(accepted'[u]) = n + 1
      /\ accepted'[u][n + 1] = now
      /\ \A i \in 1 .. n : accepted'[u][i] = accepted[u][i]
    BY <1>1, <1>2, <1>4 DEF n
<1>6. kept(u, now) \cup {n + 1} \in SUBSET Nat
    BY <1>1, <1>2 DEF kept, Shape
<1>7. /\ accepted' \in [Users -> Seq(Nat)]
      /\ windows' \in [Users -> SUBSET Nat]
      /\ windows'[u] = kept(u, now) \cup {n + 1}
      /\ promised' \in [Users -> SUBSET Nat]
      /\ promised'[u] = {}
    BY <1>1, <1>3, <1>4, <1>5, <1>6 DEF Shape
<1>8. \A v \in Users \ {u} : /\ accepted'[v] = accepted[v]
                             /\ windows'[v] = windows[v]
                             /\ promised'[v] = promised[v]
    BY <1>1, <1>3 DEF Shape
<1> QED
    BY <1>1, <1>2, <1>3, <1>5, <1>7, <1>8 DEF n

LEMMA RefuseEffect ==
    ASSUME Shape, NEW r \in Requests, Refuse(r)
    PROVE  \E u \in Users, now \in Nat :
              /\ ~Fits(u, now)
              /\ accepted' = accepted
              /\ windows' = windows
              /\ promised' = [promised EXCEPT
                                ![u] = promised[u] \cup {now + Retry(u, now)}]
              /\ promised' \in [Users -> SUBSET Nat]
<1> DEFINE u == calls[r].user
           now == calls[r].now
<1>1. u \in Users /\ now \in Nat
    BY DEF Shape, Call
<1> HIDE DEF u, now
<1>2. /\ ~Fits(u, now)
      /\ accepted' = accepted
      /\ windows' = [windows EXCEPT ![u] = kept(u, now)]
      /\ promised' = [promised EXCEPT
                        ![u] = promised[u] \cup {now + Retry(u, now)}]
    BY DEF Refuse, u, now
<1>3. windows' = windows
    BY <1>1, <1>2, RefuseKeeps DEF Shape
<1>4. now + Retry(u, now) \in Nat
    BY <1>1, <1>2, RetryPositive
<1>5. promised' \in [Users -> SUBSET Nat]
    BY <1>1, <1>2, <1>4 DEF Shape
<1> QED
    BY <1>1, <1>2, <1>3, <1>5

\* Reading the clock, a tick and a stutter leave the lists alone.
LEMMA OtherEffect ==
    ASSUME [Next]_vars, \A r \in Requests : ~Allow(r)
    PROVE  UNCHANGED <<accepted, windows, promised>>
BY DEF Next, Read, Tick, vars

LEMMA CallsTyped ==
    ASSUME Shape, [Next]_vars
    PROVE  clock' \in Nat /\ calls' \in [Requests -> Call]
<1> USE DEF Shape, Call
<1>1. ASSUME NEW r \in Requests, NEW u \in Users, Read(r, u)
      PROVE  clock' \in Nat /\ calls' \in [Requests -> Call]
    BY <1>1, ZenonT(60) DEF Read
<1>2. ASSUME NEW r \in Requests, Pass(r)
      PROVE  clock' \in Nat /\ calls' \in [Requests -> Call]
    BY <1>2 DEF Pass
<1>3. ASSUME NEW r \in Requests, Refuse(r)
      PROVE  clock' \in Nat /\ calls' \in [Requests -> Call]
    <2> DEFINE u == calls[r].user
               now == calls[r].now
    <2>1. u \in Users /\ now \in Nat /\ ~Fits(u, now)
        BY <1>3 DEF Refuse
    <2>2. Retry(u, now) \in Nat
        BY <2>1, RetryPositive
    <2> QED
        BY <1>3, <2>2 DEF Refuse
<1>4. CASE Tick
    BY <1>4 DEF Tick
<1>5. CASE UNCHANGED vars
    BY <1>5 DEF vars
<1> QED
    BY <1>1, <1>2, <1>3, <1>4, <1>5 DEF Next, Allow

LEMMA ShapeStep ==
    ASSUME Shape, [Next]_vars
    PROVE  Shape'
<1>1. clock' \in Nat /\ calls' \in [Requests -> Call]
    BY CallsTyped
<1>2. ASSUME NEW r \in Requests, Pass(r) PROVE Shape'
    <2>1. PICK u \in Users, now \in Nat :
              LET n == Len(accepted[u]) IN
              /\ n \in Nat
              /\ Len(accepted'[u]) = n + 1
              /\ \A v \in Users \ {u} : /\ accepted'[v] = accepted[v]
                                        /\ windows'[v] = windows[v]
              /\ accepted' \in [Users -> Seq(Nat)]
              /\ Fits(u, now)
              /\ windows'[u] = kept(u, now) \cup {n + 1}
              /\ windows' \in [Users -> SUBSET Nat]
              /\ promised' \in [Users -> SUBSET Nat]
        BY <1>2, PassEffect
    <2>2. /\ kept(u, now) \subseteq windows[u]
          /\ IsFiniteSet(kept(u, now))
          /\ Cardinality(kept(u, now)) \in Nat
        BY WindowsFinite
    <2>3. Cardinality(windows'[u]) <= Limit
        <3>1. Cardinality(kept(u, now)) < Limit
            BY <2>1 DEF Fits
        <3> QED
            BY <2>1, <2>2, <3>1, AddOne
    <2>4. windows'[u] \subseteq 1 .. Len(accepted'[u])
        BY <2>1, <2>2 DEF Shape
    <2> QED
        BY <1>1, <2>1, <2>3, <2>4 DEF Shape
<1>3. ASSUME NEW r \in Requests, Refuse(r) PROVE Shape'
    BY <1>1, <1>3, RefuseEffect DEF Shape
<1>4. CASE \A r \in Requests : ~Allow(r)
    BY <1>1, <1>4, OtherEffect DEF Shape
<1> QED
    BY <1>2, <1>3, <1>4 DEF Allow

LEMMA ShapeInit == Init => Shape
<1> SUFFICES ASSUME Init PROVE Shape
    OBVIOUS
<1>1. (CHOOSE u \in Users : TRUE) \in Users
    BY LimiterAssumption
<1> QED
    BY <1>1, FS_EmptySet, LimiterAssumption DEF Init, Shape, Call

-----------------------------------------------------------------------------
(* The window that ends at the latest reading.                              *)

\* A reading that passed and is no longer in the list is a window older than
\* another that passed.
Removed ==
    \A u \in Users : \A i \in 1 .. Len(accepted[u]) :
        i \notin windows[u] =>
            \E j \in 1 .. Len(accepted[u]) :
                accepted[u][i] <= accepted[u][j] - Window

LEMMA RemovedStep ==
    ASSUME Shape, Removed, [Next]_vars
    PROVE  Removed'
<1>1. ASSUME NEW r \in Requests, Pass(r) PROVE Removed'
    <2>1. PICK u \in Users, now \in Nat :
              LET n == Len(accepted[u]) IN
              /\ n \in Nat
              /\ Len(accepted'[u]) = n + 1
              /\ accepted'[u][n + 1] = now
              /\ \A i \in 1 .. n : accepted'[u][i] = accepted[u][i]
              /\ \A v \in Users \ {u} : /\ accepted'[v] = accepted[v]
                                        /\ windows'[v] = windows[v]
              /\ windows'[u] = kept(u, now) \cup {n + 1}
        BY <1>1, PassEffect
    <2> DEFINE n == Len(accepted[u])
    <2>2. ASSUME NEW i \in 1 .. n + 1, i \notin windows'[u]
          PROVE  \E j \in 1 .. n + 1 : accepted'[u][i] <= accepted'[u][j] - Window
        <3>1. n \in Nat /\ i \in 1 .. n /\ accepted'[u][i] = accepted[u][i]
            BY <2>1, <2>2
        <3>2. CASE i \in windows[u]
            <4>1. accepted[u][i] \in Nat /\ ~ (accepted[u][i] > now - Window)
                BY <2>1, <2>2, <3>1, <3>2 DEF kept, Shape
            <4>2. accepted'[u][i] <= accepted'[u][n + 1] - Window
                BY <2>1, <3>1, <4>1, LimiterAssumption
            <4> QED
                BY <2>1, <4>2
        <3>3. CASE i \notin windows[u]
            <4>1. PICK j \in 1 .. n : accepted[u][i] <= accepted[u][j] - Window
                BY <3>1, <3>3 DEF Removed
            <4>2. j \in 1 .. n + 1 /\ accepted'[u][j] = accepted[u][j]
                BY <2>1, <4>1
            <4> QED
                BY <3>1, <4>1, <4>2
        <3> QED
            BY <3>2, <3>3
    <2>3. ASSUME NEW v \in Users \ {u}, NEW i \in 1 .. Len(accepted'[v]),
                 i \notin windows'[v]
          PROVE  \E j \in 1 .. Len(accepted'[v]) :
                    accepted'[v][i] <= accepted'[v][j] - Window
        BY <2>1, <2>3 DEF Removed
    <2> QED
        BY <2>1, <2>2, <2>3 DEF Removed
<1>2. ASSUME NEW r \in Requests, Refuse(r) PROVE Removed'
    BY <1>2, RefuseEffect DEF Removed
<1>3. CASE \A r \in Requests : ~Allow(r)
    BY <1>3, OtherEffect DEF Removed
<1> QED
    BY <1>1, <1>2, <1>3 DEF Allow

LEMMA LatestHolds ==
    ASSUME Shape, Removed
    PROVE  LatestWindow
<1> SUFFICES ASSUME NEW u \in Users, NEW i \in DOMAIN accepted[u],
                    \A j \in DOMAIN accepted[u] : accepted[u][j] <= accepted[u][i]
             PROVE  Cardinality(Within(u, accepted[u][i])) <= Limit
    BY DEF LatestWindow
<1>1. /\ accepted[u] \in Seq(Nat)
      /\ DOMAIN accepted[u] = 1 .. Len(accepted[u])
      /\ Len(accepted[u]) \in Nat
      /\ \A j \in DOMAIN accepted[u] : accepted[u][j] \in Nat
    BY DEF Shape
<1>2. ASSUME NEW j \in Within(u, accepted[u][i]), j \notin windows[u]
      PROVE  FALSE
    <2>1. j \in DOMAIN accepted[u] /\ accepted[u][j] > accepted[u][i] - Window
        BY DEF Within
    <2>2. PICK k \in DOMAIN accepted[u] : accepted[u][j] <= accepted[u][k] - Window
        BY <1>1, <1>2, <2>1 DEF Removed
    <2>3. /\ accepted[u][i] \in Nat /\ accepted[u][j] \in Nat
          /\ accepted[u][k] \in Nat /\ accepted[u][k] <= accepted[u][i]
        BY <1>1, <2>1, <2>2
    <2> QED
        BY <2>1, <2>2, <2>3, LimiterAssumption
<1>3. Within(u, accepted[u][i]) \in SUBSET windows[u]
    BY <1>2
<1>4. IsFiniteSet(windows[u]) /\ Cardinality(windows[u]) \in Nat
    BY WindowsFinite
<1>5. /\ Cardinality(Within(u, accepted[u][i])) <= Cardinality(windows[u])
      /\ Cardinality(Within(u, accepted[u][i])) \in Nat
    BY <1>3, <1>4, FS_Subset, FS_CardinalityType
<1> QED
    BY <1>4, <1>5, LimiterAssumption DEF Shape

-----------------------------------------------------------------------------
(* The window that ends anywhere.                                           *)

InOrder(u, t) == {j \in Within(u, t) : ~Late(u, j)}

\* SlidingWindow for a window that ends at any time.
AnyWindow ==
    \A u \in Users : \A t \in Nat :
        /\ IsFiniteSet(InOrder(u, t))
        /\ Cardinality(InOrder(u, t)) <= Limit

LEMMA AnyWindowStep ==
    ASSUME Shape, Removed, AnyWindow, [Next]_vars
    PROVE  AnyWindow'
<1>1. ASSUME NEW r \in Requests, Pass(r) PROVE AnyWindow'
    <2>1. PICK u \in Users, now \in Nat :
              LET n == Len(accepted[u]) IN
              /\ n \in Nat
              /\ Len(accepted'[u]) = n + 1
              /\ accepted'[u] \in Seq(Nat)
              /\ accepted'[u][n + 1] = now
              /\ \A i \in 1 .. n : accepted'[u][i] = accepted[u][i]
              /\ \A v \in Users \ {u} : accepted'[v] = accepted[v]
              /\ Fits(u, now)
        BY <1>1, PassEffect
    <2> DEFINE n == Len(accepted[u])
    <2>2. /\ n \in Nat
          /\ DOMAIN accepted[u] = 1 .. n
          /\ DOMAIN accepted'[u] = 1 .. n + 1
          /\ \A i \in 1 .. n : accepted[u][i] \in Nat
        BY <2>1 DEF Shape
    <2>3. \A j \in 1 .. n : Late(u, j)' <=> Late(u, j)
        <3>1. ASSUME NEW j \in 1 .. n
              PROVE  Late(u, j)' <=> Late(u, j)
            <4>1. \A m \in 1 .. j - 1 : m \in 1 .. n
                BY <2>2, <3>1
            <4>2. /\ accepted'[u][j] = accepted[u][j]
                  /\ \A m \in 1 .. j - 1 : accepted'[u][m] = accepted[u][m]
                BY <2>1, <3>1, <4>1
            <4> QED
                BY <4>2 DEF Late
        <3> QED
            BY <3>1
    <2>4. ASSUME NEW t \in Nat
          PROVE  /\ IsFiniteSet(InOrder(u, t)')
                 /\ Cardinality(InOrder(u, t)') <= Limit
        <3>1. \A j \in 1 .. n : j \in InOrder(u, t)' <=> j \in InOrder(u, t)
            <4>1. ASSUME NEW j \in 1 .. n
                  PROVE  j \in InOrder(u, t)' <=> j \in InOrder(u, t)
                <5>1. /\ accepted'[u][j] = accepted[u][j]
                      /\ j \in DOMAIN accepted[u]
                      /\ j \in DOMAIN accepted'[u]
                    BY <2>1, <2>2
                <5>2. Late(u, j)' <=> Late(u, j)
                    BY <2>3
                <5> QED
                    BY <5>1, <5>2 DEF InOrder, Within
            <4> QED
                BY <4>1
        <3>2. InOrder(u, t) \subseteq 1 .. n /\ InOrder(u, t)' \subseteq 1 .. n + 1
            BY <2>2 DEF InOrder, Within
        <3>3. CASE n + 1 \notin InOrder(u, t)'
            <4>1. InOrder(u, t)' \subseteq 1 .. n
                BY <2>2, <3>2, <3>3
            <4>2. InOrder(u, t)' = InOrder(u, t)
                BY <3>1, <3>2, <4>1
            <4> QED
                BY <4>2 DEF AnyWindow
        <3>4. CASE n + 1 \in InOrder(u, t)'
            <4>1. now <= t /\ \A j \in 1 .. n : accepted[u][j] <= now
                <5>1. \A i \in InOrder(u, t)' :
                         /\ accepted'[u][i] <= t
                         /\ \A j \in 1 .. i - 1 :
                               ~ (accepted'[u][j] > accepted'[u][i])
                    BY DEF InOrder, Within, Late
                <5>2. now <= t
                    BY <2>1, <3>4, <5>1
                <5>3. \A j \in 1 .. n : ~ (accepted'[u][j] > accepted'[u][n + 1])
                    <6>1. \A j \in 1 .. n : j \in 1 .. (n + 1) - 1
                        BY <2>2
                    <6> QED
                        BY <3>4, <5>1, <6>1
                <5>4. \A j \in 1 .. n : ~ (accepted[u][j] > now)
                    BY <2>1, <5>3
                <5> QED
                    BY <2>2, <5>2, <5>4
            <4>2. ASSUME NEW j \in InOrder(u, t)', j # n + 1
                  PROVE  j \in kept(u, now)
                <5>1. j \in 1 .. n /\ accepted[u][j] \in Nat
                    BY <2>2, <3>2, <4>2
                <5>2. accepted[u][j] > t - Window
                    BY <3>1, <5>1 DEF InOrder, Within
                <5>3. accepted[u][j] > now - Window
                    BY <4>1, <5>1, <5>2, LimiterAssumption
                <5>4. ASSUME j \notin windows[u] PROVE FALSE
                    <6>1. PICK k \in 1 .. n :
                              accepted[u][j] <= accepted[u][k] - Window
                        BY <5>1, <5>4 DEF Removed
                    <6>2. accepted[u][k] \in Nat /\ accepted[u][k] <= now
                        BY <2>2, <4>1
                    <6> QED
                        BY <5>1, <5>3, <6>1, <6>2, LimiterAssumption
                <5> QED
                    BY <5>3, <5>4 DEF kept
            <4>3. InOrder(u, t)' \in SUBSET (kept(u, now) \cup {n + 1})
                BY <4>2
            <4>4. IsFiniteSet(kept(u, now)) /\ Cardinality(kept(u, now)) < Limit
                BY <2>1, WindowsFinite DEF Fits
            <4>5. /\ IsFiniteSet(kept(u, now) \cup {n + 1})
                  /\ Cardinality(kept(u, now) \cup {n + 1}) <= Limit
                BY <4>4, AddOne
            <4>6. /\ IsFiniteSet(InOrder(u, t)')
                  /\ Cardinality(InOrder(u, t)')
                        <= Cardinality(kept(u, now) \cup {n + 1})
                BY <4>3, <4>5, FS_Subset
            <4>7. /\ Cardinality(InOrder(u, t)') \in Nat
                  /\ Cardinality(kept(u, now) \cup {n + 1}) \in Nat
                BY <4>5, <4>6, FS_CardinalityType
            <4> QED
                BY <4>5, <4>6, <4>7, LimiterAssumption
        <3> QED
            BY <3>3, <3>4
    <2>5. ASSUME NEW v \in Users \ {u}, NEW t \in Nat
          PROVE  /\ IsFiniteSet(InOrder(v, t)')
                 /\ Cardinality(InOrder(v, t)') <= Limit
        <3>1. InOrder(v, t)' = InOrder(v, t)
            BY <2>1 DEF InOrder, Within, Late
        <3> QED
            BY <3>1 DEF AnyWindow
    <2> QED
        BY <2>4, <2>5 DEF AnyWindow
<1>2. CASE \A r \in Requests : ~Pass(r)
    <2>1. accepted' = accepted
        BY <1>2, OtherEffect, RefuseEffect DEF Allow
    <2> QED
        BY <2>1 DEF AnyWindow, InOrder, Within, Late
<1> QED
    BY <1>1, <1>2

LEMMA SlidingHolds ==
    ASSUME Shape, AnyWindow
    PROVE  SlidingWindow
<1> SUFFICES ASSUME NEW u \in Users, NEW i \in DOMAIN accepted[u]
             PROVE  Cardinality(InOrder(u, accepted[u][i])) <= Limit
    BY DEF SlidingWindow, InOrder
<1>1. accepted[u][i] \in Nat
    BY DEF Shape
<1> QED
    BY <1>1 DEF AnyWindow

-----------------------------------------------------------------------------
(* What a refused request is told.                                          *)

LEMMA RetryStep ==
    ASSUME Shape, RetryHonoured, [Next]_vars
    PROVE  RetryHonoured'
<1>1. ASSUME NEW r \in Requests, Pass(r) PROVE RetryHonoured'
    <2>1. PICK u \in Users :
              /\ promised'[u] = {}
              /\ \A v \in Users \ {u} : /\ accepted'[v] = accepted[v]
                                        /\ windows'[v] = windows[v]
                                        /\ promised'[v] = promised[v]
        BY <1>1, PassEffect
    <2> QED
        BY <2>1 DEF RetryHonoured, Fits, kept
<1>2. ASSUME NEW r \in Requests, Refuse(r) PROVE RetryHonoured'
    <2>1. PICK u \in Users, now \in Nat :
              /\ ~Fits(u, now)
              /\ accepted' = accepted
              /\ windows' = windows
              /\ promised' = [promised EXCEPT
                                ![u] = promised[u] \cup {now + Retry(u, now)}]
        BY <1>2, RefuseEffect
    <2>2. \A v \in Users : \A t : Fits(v, t)' <=> Fits(v, t)
        BY <2>1 DEF Fits, kept
    <2> DEFINE first == First(kept(u, now))
               until == now + Retry(u, now)
    <2>3. /\ first \in windows[u]
          /\ until = accepted[u][first] + Window
          /\ accepted[u][first] \in Nat
        BY <2>1, RetryPositive, RefuseKeeps DEF Shape
    <2> HIDE DEF first, until
    <2>4. Fits(u, until)
        <3>1. kept(u, until) \in SUBSET (windows[u] \ {first})
            BY <2>3, LimiterAssumption DEF kept
        <3>2. IsFiniteSet(windows[u]) /\ Cardinality(windows[u]) \in Nat
            BY WindowsFinite
        <3>3. /\ IsFiniteSet(windows[u] \ {first})
              /\ Cardinality(windows[u] \ {first}) = Cardinality(windows[u]) - 1
            BY <2>3, <3>2, FS_RemoveElement
        <3>4. /\ Cardinality(kept(u, until)) <= Cardinality(windows[u] \ {first})
              /\ Cardinality(kept(u, until)) \in Nat
            BY <3>1, <3>3, FS_Subset, FS_CardinalityType
        <3>5. Cardinality(windows[u]) <= Limit
            BY DEF Shape
        <3> QED
            BY <3>2, <3>3, <3>4, <3>5, LimiterAssumption DEF Fits
    <2>5. ASSUME NEW v \in Users, NEW t \in promised'[v]
          PROVE  Fits(v, t)
        <3>1. CASE t \in promised[v]
            BY <3>1 DEF RetryHonoured
        <3>2. CASE t \notin promised[v]
            <4>1. v = u /\ t = until
                BY <2>1, <2>5, <3>2 DEF Shape, until
            <4> QED
                BY <2>4, <4>1
        <3> QED
            BY <3>1, <3>2
    <2> QED
        BY <2>2, <2>5 DEF RetryHonoured
<1>3. CASE \A r \in Requests : ~Allow(r)
    BY <1>3, OtherEffect DEF RetryHonoured, Fits, kept
<1> QED
    BY <1>1, <1>2, <1>3 DEF Allow

\* A wait is positive.
Waits == \A r \in Requests : calls[r].pc = "refused" => calls[r].retry > 0

LEMMA WaitsStep ==
    ASSUME Shape, Waits, [Next]_vars
    PROVE  Waits'
<1> USE DEF Waits
<1>1. ASSUME NEW r \in Requests, NEW u \in Users, Read(r, u) PROVE Waits'
    BY <1>1 DEF Read, Shape
<1>2. ASSUME NEW r \in Requests, Pass(r) PROVE Waits'
    BY <1>2 DEF Pass, Shape
<1>3. ASSUME NEW r \in Requests, Refuse(r) PROVE Waits'
    <2> DEFINE u == calls[r].user
               now == calls[r].now
    <2>1. u \in Users /\ now \in Nat /\ ~Fits(u, now)
        BY <1>3 DEF Refuse, Shape, Call
    <2>2. Retry(u, now) > 0
        BY <2>1, RetryPositive
    <2> QED
        BY <1>3, <2>2 DEF Refuse, Shape
<1>4. CASE Tick \/ UNCHANGED vars
    BY <1>4 DEF Tick, vars
<1> QED
    BY <1>1, <1>2, <1>3, <1>4 DEF Next, Allow

-----------------------------------------------------------------------------
(* The theorems.                                                            *)

LimiterInv == Shape /\ Removed /\ AnyWindow /\ RetryHonoured /\ Waits

LEMMA LimiterInit == Init => LimiterInv
<1> SUFFICES ASSUME Init PROVE LimiterInv
    OBVIOUS
<1>1. Shape
    BY ShapeInit
<1>2. \A u \in Users : accepted[u] = <<>> /\ Len(accepted[u]) = 0
    BY DEF Init
<1>3. Removed
    BY <1>2 DEF Removed
<1>4. ASSUME NEW u \in Users, NEW t \in Nat PROVE InOrder(u, t) = {}
    <2>1. DOMAIN accepted[u] = {}
        BY <1>2
    <2> QED
        BY <2>1 DEF InOrder, Within
<1>5. AnyWindow
    BY <1>4, FS_EmptySet, LimiterAssumption DEF AnyWindow
<1>6. RetryHonoured /\ Waits
    BY DEF RetryHonoured, Waits, Init
<1> QED
    BY <1>1, <1>3, <1>5, <1>6 DEF LimiterInv

LEMMA LimiterStep == LimiterInv /\ [Next]_vars => LimiterInv'
BY ShapeStep, RemovedStep, AnyWindowStep, RetryStep, WaitsStep DEF LimiterInv

LEMMA LimiterInvariant == Spec => []LimiterInv
BY LimiterInit, LimiterStep, PTL DEF Spec

\* Types; hits are readings that passed, and a refused request always waits.
THEOREM LimiterTypeCorrect == Spec => []LimiterTypeOK
<1>1. LimiterInv => LimiterTypeOK
    <2> SUFFICES ASSUME LimiterInv PROVE LimiterTypeOK
        OBVIOUS
    <2>1. \A u \in Users : DOMAIN accepted[u] = 1 .. Len(accepted[u])
        BY DEF LimiterInv, Shape
    <2> QED
        BY <2>1 DEF LimiterInv, Shape, Waits, LimiterTypeOK
<1> QED
    BY <1>1, LimiterInvariant, PTL

\* At most Limit requests of a user in any window, but for late ones.
THEOREM LimiterSlidingWindow == Spec => []SlidingWindow
<1>1. LimiterInv => SlidingWindow
    BY SlidingHolds DEF LimiterInv
<1> QED
    BY <1>1, LimiterInvariant, PTL

\* At most Limit requests of a user in the window of the latest reading.
THEOREM LimiterLatestWindow == Spec => []LatestWindow
<1>1. LimiterInv => LatestWindow
    BY LatestHolds DEF LimiterInv
<1> QED
    BY <1>1, LimiterInvariant, PTL

\* Who waits as told is let through, when nothing else passes meanwhile.
THEOREM LimiterRetryHonoured == Spec => []RetryHonoured
<1>1. LimiterInv => RetryHonoured
    BY DEF LimiterInv
<1> QED
    BY <1>1, LimiterInvariant, PTL
=============================================================================
