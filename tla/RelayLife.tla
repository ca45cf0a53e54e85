----------------------------- MODULE RelayLife -----------------------------
(* The requests of Relay, seen as reservations.                             *)
EXTENDS Relay

Stage(c) ==
    CASE c.window = ZeroTime                          -> "none"
      [] c.window # ZeroTime /\ c.pc = "settleKey"    -> "charged"
      [] c.window # ZeroTime /\ c.pc \in {"cancelKey", "done"} -> "closed"
      [] c.window # ZeroTime /\ c.pc = "dead"         -> "lost"
      [] OTHER                                        -> "open"

HeldKey(c)  == IF c.pc \in {"call", "forward", "settleKey"} THEN c.key ELSE Nil
ExtraKey(c) == IF c.pc \in {"cancelUser", "cancelKey"} THEN c.key ELSE Nil

stages   == [r \in Requests |-> Stage(call[r])]
heldKeys == [r \in Requests |-> HeldKey(call[r])]
attempts == [r \in Requests |-> call[r].attempt]
extras   == [r \in Requests |-> ExtraKey(call[r])]

Life == INSTANCE Reservation WITH stage <- stages, key <- heldKeys,
                                  holds <- attempts, extra <- extras,
                                  busy  <- inFlight

\* Every path of proxy is the life of one reservation, and the store's
\* numbers of requests in flight follow it step by step: nothing is refunded
\* while a key holds it, charged without one, or closed twice, whatever the
\* upstreams answer, the clients do and the administration deletes.  The second
\* release of a cancelled request is allowed (GiveBackAgain), and refuted by
\* CancelRefundsOnce.
ReservationLife == Life!ResSpec
=============================================================================
