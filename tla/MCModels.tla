------------------------------ MODULE MCModels ------------------------------
(* Small instances of Models.                                               *)
EXTENDS Models, TLC

CONSTANTS MaxClock, MaxChanges

VARIABLE changes    \* of the administration

\* k1 and k2 share a model; the upstream of k3 lists items without ids.
MCOffers == [k \in KeyIDs |-> CASE k = 1 -> {"a", "b"}
                                [] k = 2 -> {"b", ""}
                                [] OTHER -> {""}]

\* Two of the keys exist, or will: the first or the third, and the second.
MCInit == /\ Init
          /\ changes = 0
          /\ keys[2] \in {"new", "on"}
          /\ \E k \in {1, 3} : /\ keys[k] = "on"
                             /\ \A j \in {1, 3} \ {k} : keys[j] = "gone"

MCNext == \/ (\E c \in Callers : Step(c)) /\ UNCHANGED changes
          \/ /\ changes < MaxChanges
             /\ \E k \in KeyIDs, s \in {"on", "off", "gone"} : SetKey(k, s)
             /\ changes' = changes + 1
          \/ clock < MaxClock /\ Tick /\ UNCHANGED changes

\* The mutex is handed over, and calls to the upstreams return.
MCFair == /\ MCInit /\ [][MCNext]_<<vars, changes>>
          /\ \A c \in Callers : WF_vars(Step(c))

=============================================================================
