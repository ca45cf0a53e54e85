---------------------------- MODULE ModelsProofs ----------------------------
(* Theorems about Models, for any callers, keys and upstreams.              *)
EXTENDS Models, TLAPS

-----------------------------------------------------------------------------
(* The invariant.                                                           *)

\* The record of a caller, as its pc promises.
Kept(q) ==
    /\ q.pc = "idle" => q = NotCalled
    /\ q.pc = "poll" => /\ q.polled /\ q.todo \subseteq q.asked \ q.failed
                        /\ Collects(q.merged, q.asked \ (q.todo \cup q.failed))
    /\ q.polled \/ q.asked \ (q.todo \cup q.failed) = {}
    /\ q.pc = "done" /\ q.polled => q.todo = {}

\* A list that is kept is what somebody's poll found.
ListFound == modelsList # Empty =>
                \E d \in Callers : calls[d].pc = "done" /\ FoundBy(modelsList, d)

\* While upstreams are asked the kept list is too old.
PollsLate == \A c \in Callers : calls[c].pc = "poll" =>
                modelsList = Empty \/ clock - modelsAt >= TTL

\* The upstreams that have named models did so before the list was made, or
\* in the poll under way.
HeardBefore ==
    \A k \in KeyIDs : heard[k] # Nil =>
        \/ modelsList # Empty /\ heard[k] <= modelsAt
        \/ \E c \in Callers : /\ calls[c].pc = "poll"
                              /\ k \notin calls[c].todo
                              /\ calls[c].merged # Empty

ModelsInv == /\ ModelsTypeOK
             /\ \A c \in Callers : Kept(calls[c])
             /\ ListFound /\ PollsLate /\ HeardBefore /\ ListComplete

-----------------------------------------------------------------------------
(* Lists.                                                                   *)

LEMMA EmptyList == Empty \in List /\ Collects(Empty, {})
    BY DEF Empty, List, Collects

LEMMA MergeList ==
    ASSUME NEW l \in List, NEW k \in KeyIDs, NEW S \in SUBSET KeyIDs,
           Collects(l, S)
    PROVE  /\ Merge(l, k) \in List
           /\ Collects(Merge(l, k), S \cup {k})
           /\ Named(k) # {} => Merge(l, k) # Empty
           /\ l # Empty => Merge(l, k) # Empty
<1>1. Merge(l, k) \in List
    BY DEF Merge, List
<1>2. ASSUME NEW m \in Names
      PROVE  IF \E j \in S \cup {k} : m \in Named(j)
             THEN /\ Merge(l, k)[m] \in S \cup {k}
                  /\ m \in Named(Merge(l, k)[m])
             ELSE Merge(l, k)[m] = Nil
  <2>1. Merge(l, k)[m] = IF l[m] = Nil /\ m \in Named(k) THEN k ELSE l[m]
      BY DEF Merge
  <2>2. IF \E j \in S : m \in Named(j)
        THEN l[m] \in S /\ m \in Named(l[m])
        ELSE l[m] = Nil
      BY DEF Collects
  <2>3. Nil \notin S
      BY ModelsAssumption
  <2> QED
      BY <2>1, <2>2, <2>3
<1>3. ASSUME NEW m \in Names, m \in Named(k) \/ l[m] # Nil
      PROVE  Merge(l, k)[m] # Nil
    BY <1>3, ModelsAssumption DEF Merge
<1>4. Named(k) # {} => Merge(l, k) # Empty
    BY <1>3 DEF Named, Empty
<1>5. l # Empty => \E m \in Names : l[m] # Nil
    BY DEF List, Empty
<1>6. l # Empty => Merge(l, k) # Empty
    BY <1>3, <1>5 DEF Empty
<1> QED
    BY <1>1, <1>2, <1>4, <1>6 DEF Collects

\* A list that collects nothing is empty, and the other way round.
LEMMA CollectsNothing ==
    ASSUME NEW l \in List, NEW S \in SUBSET KeyIDs, Collects(l, S)
    PROVE  l = Empty <=> \A k \in S : Named(k) = {}
<1>1. \A m \in Names : l[m] = Nil <=> ~\E k \in S : m \in Named(k)
    BY ModelsAssumption DEF Collects
<1>2. l = Empty <=> \A m \in Names : l[m] = Nil
    BY DEF List, Empty
<1>3. \A k \in S : Named(k) \subseteq Names
    BY DEF Named
<1> QED
    BY <1>1, <1>2, <1>3

-----------------------------------------------------------------------------
(* Steps of callers.                                                        *)

\* What ListComplete says of one caller with record q.
Told(q) ==
    LET S == q.asked \ (q.todo \cup q.failed) IN
    /\ q.polled /\ (\E k \in S : Named(k) # {})
          => q.reply = "list" /\ q.todo = {} /\ Collects(q.answer, S)
    /\ q.reply = "error" => q.failed # {} /\ \A k \in S : Named(k) = {}

\* A poll that has ended stays as it was.
Keeps(c, q) ==
    calls[c].polled /\ calls[c].todo = {} =>
        /\ q.polled /\ q.todo = {}
        /\ q.asked = calls[c].asked /\ q.failed = calls[c].failed

LEMMA CallStep ==
    ASSUME ModelsInv, NEW c \in Callers, NEW q \in Call, Kept(q), Keeps(c, q),
           calls[c].pc # "done", calls' = [calls EXCEPT ![c] = q]
    PROVE  /\ calls' \in [Callers -> Call]
           /\ calls'[c] = q
           /\ \A d \in Callers : d # c => calls'[d] = calls[d]
           /\ \A d \in Callers : Kept(calls'[d])
           /\ \A l : \A d \in Callers : FoundBy(l, d) => FoundBy(l, d)'
<1>1. calls \in [Callers -> Call]
    BY DEF ModelsInv, ModelsTypeOK
<1>2. /\ calls' \in [Callers -> Call] /\ calls'[c] = q
      /\ \A d \in Callers : d # c => calls'[d] = calls[d]
    BY <1>1
<1>3. \A d \in Callers : Kept(calls'[d])
    BY <1>2 DEF ModelsInv
<1>4. ASSUME NEW l, NEW d \in Callers, FoundBy(l, d)
      PROVE  FoundBy(l, d)'
  <2>1. CASE d = c
      BY <1>2, <1>4, <2>1 DEF FoundBy, Answered, Keeps
  <2>2. CASE d # c
      BY <1>2, <1>4, <2>2 DEF FoundBy, Answered
  <2> QED
      BY <2>1, <2>2
<1> QED
    BY <1>2, <1>3, <1>4

LEMMA CompleteStep ==
    ASSUME ModelsInv, NEW c \in Callers, NEW q \in Call, Kept(q), Keeps(c, q),
           calls[c].pc # "done", calls' = [calls EXCEPT ![c] = q],
           q.pc = "done" =>
              /\ Told(q)
              /\ q.answer # Empty => \E d \in Callers : FoundBy(q.answer, d)'
    PROVE  ListComplete'
<1>1. /\ calls'[c] = q
      /\ \A d \in Callers : d # c => calls'[d] = calls[d]
      /\ \A l : \A d \in Callers : FoundBy(l, d) => FoundBy(l, d)'
    BY CallStep
<1>2. ASSUME NEW e \in Callers, calls'[e].pc = "done"
      PROVE  /\ calls'[e].polled /\ (\E k \in Answered(e)' : Named(k) # {})
                   => calls'[e].reply = "list" /\ FoundBy(calls[e].answer, e)'
             /\ calls'[e].answer # Empty
                   => \E d \in Callers : FoundBy(calls[e].answer, d)'
             /\ calls'[e].reply = "error" =>
                   /\ calls'[e].failed # {}
                   /\ \A k \in Answered(e)' : Named(k) = {}
  <2>1. CASE e = c
    <3>1. Told(q) /\ (q.answer # Empty => \E d \in Callers : FoundBy(q.answer, d)')
        BY <1>1, <1>2, <2>1
    <3> QED
        BY <1>1, <2>1, <3>1 DEF Told, FoundBy, Answered
  <2>2. CASE e # c
    <3>1. calls'[e] = calls[e] /\ Answered(e)' = Answered(e)
        BY <1>1, <2>2 DEF Answered
    <3>2. /\ calls[e].polled /\ (\E k \in Answered(e) : Named(k) # {})
                => calls[e].reply = "list" /\ FoundBy(calls[e].answer, e)
          /\ calls[e].answer # Empty
                => \E d \in Callers : FoundBy(calls[e].answer, d)
          /\ calls[e].reply = "error" =>
                /\ calls[e].failed # {}
                /\ \A k \in Answered(e) : Named(k) = {}
        BY <1>2, <3>1 DEF ModelsInv, ListComplete
    <3>3. PICK a : a = calls[e].answer /\ a = calls'[e].answer
        BY <3>1
    <3>4. \A d \in Callers : FoundBy(a, d) => FoundBy(a, d)'
        BY <1>1
    <3>5. \A d \in Callers : FoundBy(calls[e].answer, d) <=> FoundBy(a, d)
        BY <3>3
    <3>6. \A d \in Callers : FoundBy(calls[e].answer, d)' <=> FoundBy(a, d)'
        BY <3>3 DEF FoundBy
    <3> QED
        BY <1>2, <3>1, <3>2, <3>3, <3>4, <3>5, <3>6
  <2> QED
      BY <2>1, <2>2
<1> QED
    BY <1>2 DEF ListComplete

\* Nobody else asks upstreams while c does, or while the mutex is free.
LEMMA Alone ==
    ASSUME ModelsInv, NEW c \in Callers, modelsMu = Nil \/ calls[c].pc = "poll"
    PROVE  \A d \in Callers : d # c => calls[d].pc # "poll"
    BY ModelsAssumption DEF ModelsInv, ModelsTypeOK


\* The kept list is not touched.
LEMMA ListStays ==
    ASSUME ModelsInv, NEW c \in Callers, calls[c].pc # "done",
           UNCHANGED modelsList,
           \A d \in Callers : d # c => calls'[d] = calls[d],
           \A l : \A d \in Callers : FoundBy(l, d) => FoundBy(l, d)'
    PROVE  ListFound'
<1> SUFFICES ASSUME modelsList # Empty
             PROVE  \E d \in Callers : calls'[d].pc = "done" /\ FoundBy(modelsList, d)'
    BY DEF ListFound
<1>1. PICK l : l = modelsList /\ l = modelsList'
    OBVIOUS
<1>2. PICK d \in Callers : calls[d].pc = "done" /\ FoundBy(modelsList, d)
    BY DEF ModelsInv, ListFound
<1>3. FoundBy(l, d)
    BY <1>1, <1>2
<1>4. FoundBy(l, d)'
    BY <1>3
<1>5. FoundBy(modelsList, d)'
    BY <1>1, <1>4 DEF FoundBy
<1> QED
    BY <1>2, <1>5

LEMMA CacheStep ==
    ASSUME ModelsInv, NEW c \in Callers, FromCache(c)
    PROVE  ModelsInv'
<1>0. PICK q : q = [calls[c] EXCEPT !.pc = "done", !.reply = "list",
                                    !.answer = modelsList]
    OBVIOUS
<1>1. /\ calls' = [calls EXCEPT ![c] = q] /\ calls[c].pc = "idle"
      /\ modelsMu = Nil /\ modelsList # Empty
      /\ UNCHANGED <<clock, keys, modelsMu, modelsList, modelsAt, heard>>
    BY <1>0 DEF FromCache, Fresh, Replies, Becomes
<1>2. calls[c] \in Call /\ calls[c] = NotCalled /\ modelsList \in List
    BY <1>1 DEF ModelsInv, ModelsTypeOK, Kept
<1>4. calls[c].polled = FALSE /\ calls[c].asked = {}
    BY <1>2 DEF NotCalled
<1>3. /\ q \in Call /\ q.pc = "done" /\ q.polled = FALSE /\ q.asked = {}
      /\ q.reply = "list" /\ q.answer = modelsList
    BY <1>0, <1>2, <1>4 DEF Call
<1>5. Kept(q) /\ Keeps(c, q) /\ Told(q)
    BY <1>3, <1>4 DEF Kept, Keeps, Told
<1>6. /\ calls' \in [Callers -> Call]
      /\ calls'[c] = q /\ \A d \in Callers : d # c => calls'[d] = calls[d]
      /\ \A d \in Callers : Kept(calls'[d])
      /\ \A l : \A d \in Callers : FoundBy(l, d) => FoundBy(l, d)'
    BY <1>1, <1>3, <1>5, CallStep
<1>7. PICK d \in Callers : calls[d].pc = "done" /\ FoundBy(modelsList, d)
    BY <1>1 DEF ModelsInv, ListFound
<1>8. calls'[d].pc = "done" /\ FoundBy(modelsList, d)'
  <2>1. PICK l : l = modelsList
      OBVIOUS
  <2>2. FoundBy(l, d)'
      BY <1>6, <1>7, <2>1
  <2> QED
      BY <1>1, <1>6, <1>7, <2>1, <2>2 DEF FoundBy
<1>9. ListComplete'
  <2>1. FoundBy(q.answer, d)'
      BY <1>1, <1>3, <1>8 DEF FoundBy
  <2> QED
      BY <1>1, <1>3, <1>5, <2>1, CompleteStep
<1>10. ModelsTypeOK'
    BY <1>1, <1>3, <1>6, ModelsAssumption DEF ModelsInv, ModelsTypeOK
<1>11. ListFound' /\ PollsLate' /\ HeardBefore'
  <2>1. ListFound'
      BY <1>8 DEF ListFound
  <2>2. \A e \in Callers : calls'[e].pc = "poll" <=> calls[e].pc = "poll"
      BY <1>1, <1>3, <1>6
  <2>3. PollsLate'
      BY <1>1, <2>2 DEF PollsLate, ModelsInv
  <2>4. \A e \in Callers : calls[e].pc = "poll" => calls'[e] = calls[e]
      BY <1>1, <1>6
  <2>5. HeardBefore'
      BY <1>1, <2>4 DEF HeardBefore, ModelsInv
  <2> QED
      BY <2>1, <2>3, <2>5
<1> QED
    BY <1>6, <1>9, <1>10, <1>11 DEF ModelsInv

LEMMA PollStep ==
    ASSUME ModelsInv, NEW c \in Callers, Poll(c)
    PROVE  ModelsInv'
<1> DEFINE on == {k \in KeyIDs : keys[k] = "on"}
<1>0. PICK q : q = [calls[c] EXCEPT !.pc = "poll", !.polled = TRUE,
                                    !.asked = on, !.todo = on]
    OBVIOUS
<1>1. /\ calls' = [calls EXCEPT ![c] = q] /\ calls[c].pc = "idle"
      /\ modelsMu = Nil /\ modelsMu' = c /\ ~Fresh
      /\ UNCHANGED <<clock, keys, modelsList, modelsAt, heard>>
    BY <1>0 DEF Poll, Becomes
<1>2. calls[c] \in Call /\ calls[c] = NotCalled
    BY <1>1 DEF ModelsInv, ModelsTypeOK, Kept
<1>4. /\ calls[c].polled = FALSE /\ calls[c].merged = Empty
      /\ calls[c].failed = {}
    BY <1>2 DEF NotCalled
<1>3. /\ q \in Call /\ q.pc = "poll" /\ q.polled = TRUE /\ q.asked = on
      /\ q.todo = on /\ q.merged = Empty /\ on \subseteq KeyIDs
      /\ q.failed = {}
    BY <1>0, <1>2, <1>4 DEF Call
<1> HIDE DEF on
<1>5. Kept(q) /\ Keeps(c, q)
  <2>1. on \ (on \cup {}) = {} /\ on \subseteq on \ {}
      OBVIOUS
  <2> QED
      BY <1>3, <1>4, <2>1, EmptyList DEF Kept, Keeps
<1>6. /\ calls' \in [Callers -> Call]
      /\ calls'[c] = q /\ \A d \in Callers : d # c => calls'[d] = calls[d]
      /\ \A d \in Callers : Kept(calls'[d])
      /\ \A l : \A d \in Callers : FoundBy(l, d) => FoundBy(l, d)'
    BY <1>1, <1>3, <1>5, CallStep
<1>7. ListComplete'
    BY <1>1, <1>3, <1>5, CompleteStep
<1>8. \A d \in Callers : calls[d].pc # "poll"
    BY <1>1, ModelsAssumption DEF ModelsInv, ModelsTypeOK
<1>9. ModelsTypeOK'
    BY <1>1, <1>3, <1>6, <1>8 DEF ModelsInv, ModelsTypeOK
<1>10. ListFound'
    BY <1>1, <1>6, ListStays
<1>11. PollsLate'
  <2>1. clock \in Nat /\ modelsAt \in Nat /\ TTL \in Nat
      BY ModelsAssumption DEF ModelsInv, ModelsTypeOK
  <2>2. modelsList = Empty \/ clock - modelsAt >= TTL
      BY <1>1, <2>1 DEF Fresh
  <2> QED
      BY <1>1, <2>2 DEF PollsLate
<1>12. HeardBefore'
    BY <1>1, <1>8 DEF HeardBefore, ModelsInv
<1> QED
    BY <1>6, <1>7, <1>9, <1>10, <1>11, <1>12 DEF ModelsInv

\* An upstream answers: the others that were heard were heard before, and so
\* was this one.
LEMMA ListedStep ==
    ASSUME ModelsInv, NEW c \in Callers, NEW k \in KeyIDs, Listed(c, k)
    PROVE  ModelsInv'
<1>0. PICK q : q = [calls[c] EXCEPT !.todo = calls[c].todo \ {k},
                                    !.merged = Merge(calls[c].merged, k)]
    OBVIOUS
<1>1. /\ calls' = [calls EXCEPT ![c] = q] /\ calls[c].pc = "poll"
      /\ k \in calls[c].todo
      /\ heard' = IF Named(k) = {} THEN heard ELSE [heard EXCEPT ![k] = clock]
      /\ UNCHANGED <<clock, keys, modelsMu, modelsList, modelsAt>>
    BY <1>0 DEF Listed, Becomes
<1>2. /\ calls[c] \in Call /\ calls[c].polled
      /\ calls[c].todo \subseteq calls[c].asked \ calls[c].failed
      /\ Collects(calls[c].merged, Answered(c))
      /\ heard \in [KeyIDs -> (0 .. clock) \cup {Nil}] /\ clock \in Nat
    BY <1>1 DEF ModelsInv, ModelsTypeOK, Kept, Answered
<1>3. /\ calls[c].merged \in List /\ calls[c].asked \in SUBSET KeyIDs
      /\ Answered(c) \in SUBSET KeyIDs
    BY <1>2 DEF Call, Answered
<1>4. /\ Merge(calls[c].merged, k) \in List
      /\ Collects(Merge(calls[c].merged, k), Answered(c) \cup {k})
      /\ Named(k) # {} => Merge(calls[c].merged, k) # Empty
      /\ calls[c].merged # Empty => Merge(calls[c].merged, k) # Empty
    BY <1>2, <1>3, MergeList
<1>5. /\ q \in Call /\ q.pc = "poll" /\ q.polled /\ q.asked = calls[c].asked
      /\ q.todo = calls[c].todo \ {k} /\ q.failed = calls[c].failed
      /\ q.merged = Merge(calls[c].merged, k)
    BY <1>0, <1>1, <1>2, <1>4 DEF Call
<1>6. Kept(q) /\ Keeps(c, q)
  <2>1. q.asked \ (q.todo \cup q.failed) = Answered(c) \cup {k}
      BY <1>1, <1>2, <1>5 DEF Answered
  <2>2. q.todo \subseteq q.asked \ q.failed
      BY <1>2, <1>5
  <2>3. Kept(q)
      BY <1>4, <1>5, <2>1, <2>2 DEF Kept
  <2>4. Keeps(c, q)
      BY <1>1 DEF Keeps
  <2> QED
      BY <2>3, <2>4
<1>7. /\ calls' \in [Callers -> Call]
      /\ calls'[c] = q /\ \A d \in Callers : d # c => calls'[d] = calls[d]
      /\ \A d \in Callers : Kept(calls'[d])
      /\ \A l : \A d \in Callers : FoundBy(l, d) => FoundBy(l, d)'
    BY <1>1, <1>5, <1>6, CallStep
<1>8. ListComplete'
    BY <1>1, <1>5, <1>6, CompleteStep
<1>9. heard' \in [KeyIDs -> (0 .. clock) \cup {Nil}]
    BY <1>1, <1>2
<1>10. ModelsTypeOK'
    BY <1>1, <1>5, <1>7, <1>9 DEF ModelsInv, ModelsTypeOK
<1>11. ListFound'
    BY <1>1, <1>7, ListStays
<1>12. PollsLate'
    BY <1>1, <1>5, <1>7 DEF PollsLate, ModelsInv
<1>13. HeardBefore'
  <2>1. ASSUME NEW j \in KeyIDs, heard'[j] # Nil
        PROVE  \/ modelsList' # Empty /\ heard'[j] <= modelsAt'
               \/ \E d \in Callers : /\ calls'[d].pc = "poll"
                                     /\ j \notin calls'[d].todo
                                     /\ calls'[d].merged # Empty
    <3>1. CASE j = k /\ Named(k) # {}
        BY <1>4, <1>5, <1>7, <3>1
    <3>2. CASE ~(j = k /\ Named(k) # {})
      <4>1. heard'[j] = heard[j]
          BY <1>1, <1>2, <3>2
      <4>2. \/ modelsList # Empty /\ heard[j] <= modelsAt
            \/ \E d \in Callers : /\ calls[d].pc = "poll"
                                  /\ j \notin calls[d].todo
                                  /\ calls[d].merged # Empty
          BY <2>1, <4>1 DEF ModelsInv, HeardBefore
      <4>3. ASSUME NEW d \in Callers, calls[d].pc = "poll",
                   j \notin calls[d].todo, calls[d].merged # Empty
            PROVE  /\ calls'[d].pc = "poll" /\ j \notin calls'[d].todo
                   /\ calls'[d].merged # Empty
          BY <1>4, <1>5, <1>7, <4>3
      <4> QED
          BY <1>1, <4>1, <4>2, <4>3
    <3> QED
        BY <3>1, <3>2
  <2> QED
      BY <2>1 DEF HeardBefore
<1> QED
    BY <1>7, <1>8, <1>10, <1>11, <1>12, <1>13 DEF ModelsInv

LEMMA FailsStep ==
    ASSUME ModelsInv, NEW c \in Callers, NEW k \in KeyIDs, Fails(c, k)
    PROVE  ModelsInv'
<1>0. PICK q : q = [calls[c] EXCEPT !.todo = calls[c].todo \ {k},
                                    !.failed = calls[c].failed \cup {k}]
    OBVIOUS
<1>1. /\ calls' = [calls EXCEPT ![c] = q] /\ calls[c].pc = "poll"
      /\ k \in calls[c].todo
      /\ UNCHANGED <<clock, keys, modelsMu, modelsList, modelsAt, heard>>
    BY <1>0 DEF Fails, Becomes
<1>2. /\ calls[c] \in Call /\ calls[c].polled
      /\ calls[c].todo \subseteq calls[c].asked \ calls[c].failed
      /\ Collects(calls[c].merged, Answered(c))
    BY <1>1 DEF ModelsInv, ModelsTypeOK, Kept, Answered
<1>3. /\ q \in Call /\ q.pc = "poll" /\ q.polled /\ q.asked = calls[c].asked
      /\ q.todo = calls[c].todo \ {k} /\ q.failed = calls[c].failed \cup {k}
      /\ q.merged = calls[c].merged
    BY <1>0, <1>1, <1>2 DEF Call
<1>4. Kept(q) /\ Keeps(c, q)
  <2>1. q.asked \ (q.todo \cup q.failed) = Answered(c)
      BY <1>1, <1>3 DEF Answered
  <2>2. q.todo \subseteq q.asked \ q.failed
      BY <1>2, <1>3
  <2>3. Kept(q)
      BY <1>2, <1>3, <2>1, <2>2 DEF Kept
  <2>4. Keeps(c, q)
      BY <1>1 DEF Keeps
  <2> QED
      BY <2>3, <2>4
<1>5. /\ calls' \in [Callers -> Call]
      /\ calls'[c] = q /\ \A d \in Callers : d # c => calls'[d] = calls[d]
      /\ \A d \in Callers : Kept(calls'[d])
      /\ \A l : \A d \in Callers : FoundBy(l, d) => FoundBy(l, d)'
    BY <1>1, <1>3, <1>4, CallStep
<1>6. ListComplete'
    BY <1>1, <1>3, <1>4, CompleteStep
<1>7. ModelsTypeOK'
    BY <1>1, <1>3, <1>5 DEF ModelsInv, ModelsTypeOK
<1>8. ListFound'
    BY <1>1, <1>5, ListStays
<1>9. PollsLate'
    BY <1>1, <1>3, <1>5 DEF PollsLate, ModelsInv
<1>10. HeardBefore'
  <2>1. ASSUME NEW j \in KeyIDs, NEW d \in Callers, calls[d].pc = "poll",
               j \notin calls[d].todo, calls[d].merged # Empty
        PROVE  /\ calls'[d].pc = "poll" /\ j \notin calls'[d].todo
               /\ calls'[d].merged # Empty
      BY <1>3, <1>5, <2>1
  <2> QED
      BY <1>1, <2>1 DEF HeardBefore, ModelsInv
<1> QED
    BY <1>5, <1>6, <1>7, <1>8, <1>9, <1>10 DEF ModelsInv

\* What the two ends of a poll have in common.
LEMMA EndStep ==
    ASSUME ModelsInv, NEW c \in Callers, NEW reply \in {"list", "error"},
           NEW list \in List,
           calls[c].pc = "poll", calls[c].todo = {}, Replies(c, reply, list),
           modelsMu' = Nil, UNCHANGED <<clock, keys, heard>>,
           modelsList' \in List, modelsAt' \in 0 .. clock,
           (\E k \in Answered(c) : Named(k) # {})
              => reply = "list" /\ Collects(list, Answered(c)),
           list # Empty => \E d \in Callers : FoundBy(list, d),
           reply = "error" => /\ calls[c].failed # {}
                              /\ \A k \in Answered(c) : Named(k) = {}
    PROVE  /\ ModelsTypeOK' /\ ListComplete' /\ PollsLate'
           /\ \A d \in Callers : Kept(calls'[d])
           /\ \A d \in Callers : d # c => calls'[d] = calls[d]
           /\ \A l : \A d \in Callers : FoundBy(l, d) => FoundBy(l, d)'
           /\ calls'[c].pc = "done"
<1>0. PICK q : q = [calls[c] EXCEPT !.pc = "done", !.reply = reply,
                                    !.answer = list]
    OBVIOUS
<1>1. calls' = [calls EXCEPT ![c] = q]
    BY <1>0 DEF Replies, Becomes
<1>2. /\ calls[c] \in Call /\ calls[c].polled
    BY DEF ModelsInv, ModelsTypeOK, Kept
<1>3. /\ q \in Call /\ q.pc = "done" /\ q.polled /\ q.asked = calls[c].asked
      /\ q.todo = {} /\ q.failed = calls[c].failed
      /\ q.reply = reply /\ q.answer = list
    BY <1>0, <1>2 DEF Call
<1>4. Kept(q) /\ Keeps(c, q)
    BY <1>3 DEF Kept, Keeps
<1>5. q.asked \ (q.todo \cup q.failed) = Answered(c)
    BY <1>3 DEF Answered
<1>6. Told(q)
    BY <1>3, <1>5 DEF Told
<1>7. /\ calls' \in [Callers -> Call]
      /\ calls'[c] = q /\ \A d \in Callers : d # c => calls'[d] = calls[d]
      /\ \A d \in Callers : Kept(calls'[d])
      /\ \A l : \A d \in Callers : FoundBy(l, d) => FoundBy(l, d)'
    BY <1>1, <1>3, <1>4, CallStep
<1>8. q.answer # Empty => \E d \in Callers : FoundBy(q.answer, d)'
    BY <1>3, <1>7
<1>9. ListComplete'
    BY <1>1, <1>3, <1>4, <1>6, <1>8, CompleteStep
<1>10. \A d \in Callers : calls'[d].pc # "poll"
    BY <1>3, <1>7, Alone
<1>11. ModelsTypeOK'
    BY <1>7, <1>10, ModelsAssumption DEF ModelsInv, ModelsTypeOK
<1>12. PollsLate'
    BY <1>10 DEF PollsLate
<1> QED
    BY <1>3, <1>7, <1>9, <1>11, <1>12

LEMMA FoundStep ==
    ASSUME ModelsInv, NEW c \in Callers, Found(c)
    PROVE  ModelsInv'
<1>0. PICK l : l = calls[c].merged
    OBVIOUS
<1>1. /\ calls[c].pc = "poll" /\ calls[c].todo = {} /\ l # Empty
      /\ Replies(c, "list", l) /\ modelsList' = l /\ modelsAt' = clock
      /\ modelsMu' = Nil /\ UNCHANGED <<clock, keys, heard>>
    BY <1>0 DEF Found
<1>2. /\ l \in List /\ calls[c].polled /\ Collects(l, Answered(c))
      /\ clock \in Nat
    BY <1>0, <1>1 DEF ModelsInv, ModelsTypeOK, Call, Kept, Answered
<1>3. FoundBy(l, c)
    BY <1>1, <1>2 DEF FoundBy
<1>4. modelsList' \in List /\ modelsAt' \in 0 .. clock
    BY <1>1, <1>2
<1>5. /\ ModelsTypeOK' /\ ListComplete' /\ PollsLate'
      /\ \A d \in Callers : Kept(calls'[d])
      /\ \A k : \A d \in Callers : FoundBy(k, d) => FoundBy(k, d)'
      /\ calls'[c].pc = "done"
    BY <1>1, <1>2, <1>3, <1>4, EndStep
<1>6. ListFound'
  <2>1. FoundBy(l, c)'
      BY <1>3, <1>5
  <2>2. FoundBy(modelsList, c)'
      BY <1>1, <2>1 DEF FoundBy
  <2> QED
      BY <1>5, <2>2 DEF ListFound
<1>7. HeardBefore'
  <2>1. \A k \in KeyIDs : heard'[k] # Nil => heard'[k] <= clock
      BY <1>1 DEF ModelsInv, ModelsTypeOK
  <2> QED
      BY <1>1, <2>1 DEF HeardBefore
<1> QED
    BY <1>5, <1>6, <1>7 DEF ModelsInv

LEMMA NothingStep ==
    ASSUME ModelsInv, NEW c \in Callers, Nothing(c)
    PROVE  ModelsInv'
<1>0. PICK reply, l :
          /\ l = modelsList
          /\ reply = IF modelsList = Empty /\ calls[c].failed # {}
                        THEN "error" ELSE "list"
    OBVIOUS
<1>1. /\ calls[c].pc = "poll" /\ calls[c].todo = {} /\ calls[c].merged = Empty
      /\ Replies(c, reply, l) /\ modelsMu' = Nil
      /\ UNCHANGED <<clock, keys, modelsList, modelsAt, heard>>
    BY <1>0 DEF Nothing
<1>2. /\ calls[c].merged \in List /\ Collects(calls[c].merged, Answered(c))
      /\ calls[c].asked \in SUBSET KeyIDs
    BY <1>1 DEF ModelsInv, ModelsTypeOK, Call, Kept, Answered
<1>3. \A k \in Answered(c) : Named(k) = {}
  <2>1. Answered(c) \in SUBSET KeyIDs
      BY <1>2 DEF Answered
  <2> QED
      BY <1>1, <1>2, <2>1, CollectsNothing
<1>4. l # Empty => \E d \in Callers : FoundBy(l, d)
    BY <1>0 DEF ModelsInv, ListFound
<1>5. /\ reply \in {"list", "error"} /\ l \in List
      /\ modelsList' \in List /\ modelsAt' \in 0 .. clock
      /\ reply = "error" => calls[c].failed # {}
    BY <1>0, <1>1 DEF ModelsInv, ModelsTypeOK
<1>6. /\ ModelsTypeOK' /\ ListComplete' /\ PollsLate'
      /\ \A d \in Callers : Kept(calls'[d])
      /\ \A d \in Callers : d # c => calls'[d] = calls[d]
      /\ \A k : \A d \in Callers : FoundBy(k, d) => FoundBy(k, d)'
    BY <1>1, <1>3, <1>4, <1>5, EndStep
<1>7. ListFound'
    BY <1>1, <1>6, ListStays
<1>8. HeardBefore'
  <2>1. \A d \in Callers : d # c => calls[d].pc # "poll"
      BY <1>1, Alone
  <2>2. \A k \in KeyIDs : heard[k] # Nil =>
                             modelsList # Empty /\ heard[k] <= modelsAt
      BY <1>1, <2>1 DEF ModelsInv, HeardBefore
  <2> QED
      BY <1>1, <2>2 DEF HeardBefore
<1> QED
    BY <1>6, <1>7, <1>8 DEF ModelsInv

LEMMA LaterStill ==
    ASSUME NEW t \in Nat, NEW u \in Nat, u >= t, NEW a \in Nat, NEW n \in Nat,
           t - a >= n
    PROVE  u - a >= n
    OBVIOUS

\* The administration and the clock.
LEMMA OutsideStep ==
    ASSUME ModelsInv,
           UNCHANGED <<modelsMu, modelsList, modelsAt, calls, heard>>,
           keys' \in [KeyIDs -> {"new", "on", "off", "gone"}],
           clock' \in Nat, clock' >= clock
    PROVE  ModelsInv'
<1>1. ModelsTypeOK'
    BY DEF ModelsInv, ModelsTypeOK
<1>2. \A d \in Callers : Kept(calls'[d])
    BY DEF ModelsInv
<1>3. ListFound' /\ HeardBefore' /\ ListComplete'
    BY DEF ModelsInv, ListFound, HeardBefore, ListComplete, FoundBy, Answered
<1>4. PollsLate'
  <2>1. modelsAt \in Nat /\ TTL \in Nat /\ clock \in Nat
      BY ModelsAssumption DEF ModelsInv, ModelsTypeOK
  <2>2. clock - modelsAt >= TTL => clock' - modelsAt >= TTL
      BY <2>1, LaterStill
  <2> QED
      BY <2>2 DEF ModelsInv, PollsLate
<1> QED
    BY <1>1, <1>2, <1>3, <1>4 DEF ModelsInv

LEMMA ModelsStep == ModelsInv /\ [Next]_vars => ModelsInv'
<1> SUFFICES ASSUME ModelsInv, [Next]_vars PROVE ModelsInv'
    OBVIOUS
<1>1. ASSUME NEW c \in Callers, Step(c)
      PROVE  ModelsInv'
    BY <1>1, CacheStep, PollStep, ListedStep, FailsStep, FoundStep, NothingStep
       DEF Step
<1>2. clock \in Nat /\ keys \in [KeyIDs -> {"new", "on", "off", "gone"}]
    BY DEF ModelsInv, ModelsTypeOK
<1>3. ASSUME NEW k \in KeyIDs, NEW s \in {"on", "off", "gone"}, SetKey(k, s)
      PROVE  ModelsInv'
    BY <1>2, <1>3, OutsideStep DEF SetKey
<1>4. CASE Tick
    BY <1>2, <1>4, OutsideStep DEF Tick
<1>5. CASE UNCHANGED vars
    BY <1>2, <1>5, OutsideStep DEF vars
<1> QED
    BY <1>1, <1>3, <1>4, <1>5 DEF Next

LEMMA ModelsInit == Init => ModelsInv
<1> SUFFICES ASSUME Init PROVE ModelsInv
    OBVIOUS
<1>1. NotCalled \in Call /\ NotCalled.pc = "idle"
    BY EmptyList DEF NotCalled, Call
<1>2. \A c \in Callers : calls[c] = NotCalled
    BY DEF Init
<1>3. ModelsTypeOK
    BY <1>1, <1>2, EmptyList, ModelsAssumption DEF Init, ModelsTypeOK
<1>4. Kept(NotCalled)
    BY DEF Kept, NotCalled
<1>5. ListFound /\ PollsLate /\ HeardBefore /\ ListComplete
    BY <1>1, <1>2 DEF Init, ListFound, PollsLate, HeardBefore, ListComplete
<1> QED
    BY <1>2, <1>3, <1>4, <1>5 DEF ModelsInv

LEMMA ModelsInvariant == Spec => []ModelsInv
    BY ModelsInit, ModelsStep, PTL DEF Spec

-----------------------------------------------------------------------------

\* Types, and the mutex: at most one caller asks the upstreams, and it is the
\* one that holds modelsMu.
THEOREM ModelsTypeCorrect == Spec => []ModelsTypeOK
    BY ModelsInvariant, PTL DEF ModelsInv

\* models returns the result of one whole poll, its own or a kept one, with
\* every model that an upstream which answered names.
THEOREM ModelsListComplete == Spec => []ListComplete
    BY ModelsInvariant, PTL DEF ModelsInv

\* The callers that waited for modelsMu find the new list: an upstream that
\* named models is not asked again within the minute.
THEOREM ModelsAskedOnce == Spec => AskedOnce
<1>1. ModelsInv /\ [Next]_vars =>
          [\A c \in Callers, k \in KeyIDs :
               Listed(c, k) /\ heard[k] # Nil => clock - heard[k] >= TTL]_vars
  <2> SUFFICES ASSUME ModelsInv, NEW c \in Callers, NEW k \in KeyIDs,
                      Listed(c, k), heard[k] # Nil
               PROVE  clock - heard[k] >= TTL
      OBVIOUS
  <2>1. calls[c].pc = "poll" /\ k \in calls[c].todo
      BY DEF Listed
  <2>2. \A d \in Callers : d # c => calls[d].pc # "poll"
      BY <2>1, Alone
  <2>3. modelsList # Empty /\ heard[k] <= modelsAt
      BY <2>1, <2>2 DEF ModelsInv, HeardBefore
  <2>4. clock - modelsAt >= TTL
      BY <2>1, <2>3 DEF ModelsInv, PollsLate
  <2>5. clock \in Nat /\ modelsAt \in Nat /\ heard[k] \in Nat /\ TTL \in Nat
      BY ModelsAssumption DEF ModelsInv, ModelsTypeOK
  <2> QED
      BY <2>3, <2>4, <2>5
<1> QED
    BY <1>1, ModelsInvariant, PTL DEF Spec, AskedOnce
=============================================================================
