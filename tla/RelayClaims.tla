---------------------------- MODULE RelayClaims ----------------------------
(* What the documents of the repository say of the request flow and the     *)
(* code does not do; each is refuted by a run.  The design document is      *)
(* docs/superpowers/specs/2026-08-04-relay-station-design.md.               *)
EXTENDS RelayLedger, FiniteSetsExt

\* agent.md:60, "On failure the reservation is refunded": the refund of a
\* cancelled request is its own reservation and no other's, so that a key's
\* number of requests in flight stays exact.
CancelRefundsOnce ==
    (\A r \in Requests : call[r].pc \notin {"cancelUser", "cancelKey"}) =>
        \A k \in Present(upstreamKeys) :
            inFlight[k] = Cardinality(KeyHolders(k))

\* Design document, line 170: concurrent requests of one user in one hour
\* never oversell it.  In a working hour the estimates that run at the same
\* time, reserved in this hour, fit in the hourly limit.
NoOversell ==
    \A u \in Present(users) :
        IsWorkingHour(clock) =>
            MapThenSumSet(est, {r \in UserHolders(u) :
                                  call[r].window = hourStart(clock)})
                <= HourlyLimit(users[u])

\* Design document, line 261: a request that finds the hour of every key used
\* up is answered 429.  A request turned away without a call, although a key
\* serves its model, is not told that there is none (502).
HourlyExhaustionIs429 ==
    \A r \in Requests :
        /\ call[r].pc = "done"
        /\ call[r].tried = <<>>
        /\ Candidates([k \in Present(upstreamKeys) |-> upstreamKeys[k]],
                      call[r].body.model, {}) # {}
        => call[r].reply.code # 502
=============================================================================
