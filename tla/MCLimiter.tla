----------------------------- MODULE MCLimiter -----------------------------
(* Small instances of Limiter.                                              *)
EXTENDS Limiter, TLC

CONSTANT MaxClock    \* ticks of the clock

MCNext == \/ \E r \in Requests : (\E u \in Users : Read(r, u)) \/ Allow(r)
          \/ clock < MaxClock /\ Tick

MCSpec == Init /\ [][MCNext]_vars

Symmetry == Permutations(Requests)
=============================================================================
