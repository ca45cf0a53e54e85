------------------------------- MODULE Router -------------------------------
(* internal/router/router.go: which upstream key serves a request.          *)
(*                                                                          *)
(* An upstream key is known by its ID; keys is the map from the IDs in use  *)
(* to their records, usage and inFlight are functions of the ID.  IDs are   *)
(* numbers, so that "<" stands for the lexicographic order of the strings.  *)
EXTENDS Integers

CONSTANT Normal    \* Normal[m]: strings.ToLower(strings.TrimSpace(m))

\* An empty model list serves every model.
servesModel(k, m) == k.models = {} \/ \E x \in k.models : Normal[x] = Normal[m]

hourlyLimit(k, fallback) == IF k.limit > 0 THEN k.limit ELSE fallback

\* Fault: a key that was tried is a candidate again.
CandidatesAgain(keys, m, exclude) ==
    {id \in DOMAIN keys : keys[id].enabled /\ servesModel(keys[id], m)}

\* The enabled keys that serve model m and were not tried already.
Candidates(keys, m, exclude) ==
    {id \in DOMAIN keys : /\ keys[id].enabled
                          /\ id \notin exclude
                          /\ servesModel(keys[id], m)}

\* In working hours only keys with something left of their hour qualify.
qualified(ids, keys, working, fallback, usage) ==
    {id \in ids : working => usage[id] < hourlyLimit(keys[id], fallback)}

\* The order of best: usage, then requests in flight, then ID.
Before(a, b, usage, inFlight) ==
    \/ usage[a] < usage[b]
    \/ usage[a] = usage[b] /\ inFlight[a] < inFlight[b]
    \/ usage[a] = usage[b] /\ inFlight[a] = inFlight[b] /\ a < b

\* The set holding the least element, empty when ids is.
best(ids, usage, inFlight) ==
    {a \in ids : \A b \in ids \ {a} : Before(a, b, usage, inFlight)}

\* Own keys first, then the pool of the other users' keys.  key is the set
\* holding the chosen ID, empty when err says why there is none.
Select(keys, user, m, working, fallback, exclude, usage, inFlight) ==
    LET all  == Candidates(keys, Normal[m], exclude)
        own   == {id \in all : keys[id].user = user}
        qOwn  == qualified(own, keys, working, fallback, usage)
        qPool == qualified(all \ own, keys, working, fallback, usage)
    IN  [key |-> best(IF qOwn # {} THEN qOwn ELSE qPool, usage, inFlight),
         err |-> IF qOwn # {} \/ qPool # {} THEN "nil"
                 ELSE IF all # {} THEN "ErrHourlyExhausted" ELSE "ErrNoKey"]
=============================================================================
