---------------------------- MODULE Reservation ----------------------------
(* The life of a request's reservation, as the relay promises it to users   *)
(* and to the owners of keys: opened at most once; lent to one key at a      *)
(* time and to two at most; closed once, by a refund while no key holds it   *)
(* or by a charge while one does.  busy counts the holders of each key.      *)
EXTENDS Integers

CONSTANTS Requests, KeyIDs, Nil

VARIABLES stage,     \* "none", "open", "charged", "closed" or "lost"
          key,       \* the key that holds the reservation, or Nil
          holds,     \* how many keys have held it
          extra,     \* a key that is given back once more than it was held
          busy

resVars == <<stage, key, holds, extra, busy>>

ResInit == /\ stage = [r \in Requests |-> "none"]
           /\ key = [r \in Requests |-> Nil]
           /\ holds = [r \in Requests |-> 0]
           /\ extra = [r \in Requests |-> Nil]
           /\ busy = [k \in KeyIDs |-> 0]

\* A key that was deleted meanwhile has nothing to take back.
GivenBack(k) == [busy EXCEPT ![k] = IF @ > 0 THEN @ - 1 ELSE 0]

Open(r) == /\ stage[r] = "none"
           /\ stage' = [stage EXCEPT ![r] = "open"]
           /\ UNCHANGED <<key, holds, extra, busy>>

Hold(r, k) == /\ stage[r] = "open" /\ key[r] = Nil /\ holds[r] < 2
              /\ key' = [key EXCEPT ![r] = k]
              /\ holds' = [holds EXCEPT ![r] = @ + 1]
              /\ busy' = [busy EXCEPT ![k] = @ + 1]
              /\ UNCHANGED <<stage, extra>>

Drop(r) == /\ stage[r] = "open" /\ key[r] # Nil
           /\ key' = [key EXCEPT ![r] = Nil]
           /\ busy' = GivenBack(key[r])
           /\ UNCHANGED <<stage, holds, extra>>

\* The client of the request is gone.
Abandon(r) == /\ stage[r] = "open" /\ key[r] # Nil
              /\ key' = [key EXCEPT ![r] = Nil]
              /\ extra' = [extra EXCEPT ![r] = key[r]]
              /\ busy' = GivenBack(key[r])
              /\ UNCHANGED <<stage, holds>>

Refund(r) == /\ stage[r] = "open" /\ key[r] = Nil
             /\ stage' = [stage EXCEPT ![r] = "closed"]
             /\ UNCHANGED <<key, holds, extra, busy>>

\* The one departure from the promise: see CancelRefundsOnce.
GiveBackAgain(r) == /\ stage[r] = "closed" /\ extra[r] # Nil
                    /\ extra' = [extra EXCEPT ![r] = Nil]
                    /\ busy' = GivenBack(extra[r])
                    /\ UNCHANGED <<stage, key, holds>>

Charge(r) == /\ stage[r] = "open" /\ key[r] # Nil
             /\ stage' = [stage EXCEPT ![r] = "charged"]
             /\ UNCHANGED <<key, holds, extra, busy>>

Close(r) == /\ stage[r] = "charged"
            /\ stage' = [stage EXCEPT ![r] = "closed"]
            /\ key' = [key EXCEPT ![r] = Nil]
            /\ busy' = GivenBack(key[r])
            /\ UNCHANGED <<holds, extra>>

\* Keys are deleted, with what they count.
Forget(ks) == /\ busy' = [k \in KeyIDs |-> IF k \in ks THEN 0 ELSE busy[k]]
              /\ UNCHANGED <<stage, key, holds, extra>>

\* The process ends: nobody holds anything any more.
Crash == /\ stage' = [r \in Requests |->
                        IF stage[r] = "none" THEN "none" ELSE "lost"]
         /\ key' = [r \in Requests |-> Nil]
         /\ extra' = [r \in Requests |-> Nil]
         /\ busy' = [k \in KeyIDs |-> 0]
         /\ UNCHANGED holds

ResNext == \/ \E r \in Requests :
                 \/ Open(r) \/ Drop(r) \/ Abandon(r) \/ Refund(r)
                 \/ GiveBackAgain(r) \/ Charge(r) \/ Close(r)
                 \/ \E k \in KeyIDs : Hold(r, k)
           \/ \E ks \in SUBSET KeyIDs : Forget(ks)
           \/ Crash

ResSpec == ResInit /\ [][ResNext]_resVars
=============================================================================
