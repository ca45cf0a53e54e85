------------------------------- MODULE Models -------------------------------
(* internal/api/relay.go, models: the list that GET /v1/models returns,     *)
(* merged from all upstreams and kept for a minute.                         *)
(*                                                                          *)
(* One mutex is held from the look at the kept list to the last answer of   *)
(* the upstreams, so that a caller who finds the list too old asks every    *)
(* upstream in turn while all others wait.  The administration goes on      *)
(* meanwhile: it takes the store's mutex only.  A caller whose client goes  *)
(* away goes on as well: the calls do not use its context.                  *)
EXTENDS Integers

CONSTANTS Callers,
          KeyIDs,
          Offers,     \* Offers[k]: the ids that the upstream of key k lists
          Names,      \* the ids that are not empty
          TTL,        \* a minute
          Nil

ASSUME ModelsAssumption ==
    TTL \in Nat /\ Nil \notin KeyIDs \cup Callers

\* The models an upstream adds; an item without an id is skipped.
Named(k) == Offers[k] \cap Names

\* A list gives each model the key that brought it (for its owner), or Nil.
List  == [Names -> KeyIDs \cup {Nil}]
Empty == [m \in Names |-> Nil]

Merge(l, k) ==
    [m \in Names |-> IF l[m] = Nil /\ m \in Named(k) THEN k ELSE l[m]]

VARIABLES clock,
          keys,        \* the store: "new" (not yet made), "on", "off" or "gone"
          modelsMu,    \* who holds the mutex, or Nil
          modelsList, modelsAt,
          calls,
          heard        \* history: when the upstream of a key last named models

vars == <<clock, keys, modelsMu, modelsList, modelsAt, calls, heard>>

\* lastErr is not nil when failed is not empty.  asked is a history: the keys
\* of the snapshot that were enabled; polled: it was taken.
Call == [pc : {"idle", "poll", "done"}, polled : BOOLEAN,
         asked : SUBSET KeyIDs, todo : SUBSET KeyIDs, failed : SUBSET KeyIDs,
         merged : List, reply : {"none", "list", "error"}, answer : List]

Becomes(c, q) == calls' = [calls EXCEPT ![c] = q]

Replies(c, reply, list) ==
    Becomes(c, [calls[c] EXCEPT !.pc = "done", !.reply = reply, !.answer = list])

\* The kept list may be given.
Fresh == modelsList # Empty /\ clock - modelsAt < TTL

-----------------------------------------------------------------------------

FromCache(c) ==
    /\ calls[c].pc = "idle" /\ modelsMu = Nil
    /\ Fresh
    /\ Replies(c, "list", modelsList)
    /\ UNCHANGED <<clock, keys, modelsMu, modelsList, modelsAt, heard>>

\* The mutex is taken and AllUpstreamKeys copies the keys.
Poll(c) ==
    /\ calls[c].pc = "idle" /\ modelsMu = Nil
    /\ ~Fresh
    /\ LET on == {k \in KeyIDs : keys[k] = "on"} IN
       Becomes(c, [calls[c] EXCEPT !.pc = "poll", !.polled = TRUE,
                                   !.asked = on, !.todo = on])
    /\ modelsMu' = c
    /\ UNCHANGED <<clock, keys, modelsList, modelsAt, heard>>

\* An upstream answers, within eight seconds.
Listed(c, k) ==
    /\ calls[c].pc = "poll" /\ k \in calls[c].todo
    /\ Becomes(c, [calls[c] EXCEPT !.todo = @ \ {k}, !.merged = Merge(@, k)])
    /\ heard' = IF Named(k) = {} THEN heard ELSE [heard EXCEPT ![k] = clock]
    /\ UNCHANGED <<clock, keys, modelsMu, modelsList, modelsAt>>

\* Fault: the first failure ends the loop.
FailsLast(c, k) ==
    /\ calls[c].pc = "poll" /\ k \in calls[c].todo
    /\ Becomes(c, [calls[c] EXCEPT !.todo = {}, !.failed = @ \cup {k}])
    /\ UNCHANGED <<clock, keys, modelsMu, modelsList, modelsAt, heard>>

\* It does not, or not with 200 and a list: the others are asked all the same.
Fails(c, k) ==
    /\ calls[c].pc = "poll" /\ k \in calls[c].todo
    /\ Becomes(c, [calls[c] EXCEPT !.todo = @ \ {k}, !.failed = @ \cup {k}])
    /\ UNCHANGED <<clock, keys, modelsMu, modelsList, modelsAt, heard>>

\* Fault: the new list gets no date.
FoundUndated(c) ==
    /\ calls[c].pc = "poll" /\ calls[c].todo = {}
    /\ calls[c].merged # Empty
    /\ Replies(c, "list", calls[c].merged)
    /\ modelsList' = calls[c].merged
    /\ modelsMu' = Nil
    /\ UNCHANGED <<clock, keys, modelsAt, heard>>

Found(c) ==
    /\ calls[c].pc = "poll" /\ calls[c].todo = {}
    /\ calls[c].merged # Empty
    /\ Replies(c, "list", calls[c].merged)
    /\ modelsList' = calls[c].merged
    /\ modelsAt' = clock
    /\ modelsMu' = Nil
    /\ UNCHANGED <<clock, keys, heard>>

\* Fault: the error returns without Unlock.
NothingLocked(c) ==
    /\ calls[c].pc = "poll" /\ calls[c].todo = {}
    /\ calls[c].merged = Empty
    /\ LET err == modelsList = Empty /\ calls[c].failed # {} IN
       /\ Replies(c, IF err THEN "error" ELSE "list", modelsList)
       /\ modelsMu' = IF err THEN c ELSE Nil
    /\ UNCHANGED <<clock, keys, modelsList, modelsAt, heard>>

\* No upstream named a model: the kept list, however old; without one an
\* error if a call failed (502), else a list of nothing.
Nothing(c) ==
    /\ calls[c].pc = "poll" /\ calls[c].todo = {}
    /\ calls[c].merged = Empty
    /\ LET err == modelsList = Empty /\ calls[c].failed # {} IN
       Replies(c, IF err THEN "error" ELSE "list", modelsList)
    /\ modelsMu' = Nil
    /\ UNCHANGED <<clock, keys, modelsList, modelsAt, heard>>

\* The administration makes, enables, disables and deletes keys; an ID that
\* was deleted does not come back.
SetKey(k, s) ==
    /\ keys[k] # "gone" /\ keys[k] # s
    /\ s = "gone" => keys[k] # "new"
    /\ keys' = [keys EXCEPT ![k] = s]
    /\ UNCHANGED <<clock, modelsMu, modelsList, modelsAt, calls, heard>>

Tick == clock' = clock + 1
        /\ UNCHANGED <<keys, modelsMu, modelsList, modelsAt, calls, heard>>

-----------------------------------------------------------------------------

NotCalled == [pc |-> "idle", polled |-> FALSE, asked |-> {}, todo |-> {},
              failed |-> {}, merged |-> Empty, reply |-> "none",
              answer |-> Empty]

Init == /\ clock = 0
        /\ keys \in [KeyIDs -> {"new", "on", "off", "gone"}]
        /\ modelsMu = Nil
        /\ modelsList = Empty /\ modelsAt = 0
        /\ calls = [c \in Callers |-> NotCalled]
        /\ heard = [k \in KeyIDs |-> Nil]

Step(c) == \/ FromCache(c) \/ Poll(c)
           \/ \E k \in KeyIDs : Listed(c, k) \/ Fails(c, k)
           \/ Found(c) \/ Nothing(c)

Next == \/ \E c \in Callers : Step(c)
        \/ \E k \in KeyIDs, s \in {"on", "off", "gone"} : SetKey(k, s)
        \/ Tick

Spec == Init /\ [][Next]_vars

-----------------------------------------------------------------------------
(* Properties.                                                              *)

ModelsTypeOK ==
    /\ clock \in Nat /\ modelsAt \in 0 .. clock
    /\ keys \in [KeyIDs -> {"new", "on", "off", "gone"}]
    /\ modelsList \in List
    /\ calls \in [Callers -> Call]
    /\ heard \in [KeyIDs -> (0 .. clock) \cup {Nil}]
    \* the mutex is held exactly by the caller that asks the upstreams
    /\ modelsMu \in Callers \cup {Nil}
    /\ \A c \in Callers : calls[c].pc = "poll" <=> modelsMu = c

\* The upstreams that answered the poll of d.
Answered(d) == calls[d].asked \ (calls[d].todo \cup calls[d].failed)

\* List l has every model that an upstream of S names, each with a key of S
\* whose upstream names it, and no others.
Collects(l, S) ==
    \A m \in Names : IF \E k \in S : m \in Named(k)
                    THEN l[m] \in S /\ m \in Named(l[m])
                    ELSE l[m] = Nil

\* List l is what the poll of d found.
FoundBy(l, d) == /\ calls[d].polled /\ calls[d].todo = {}
                 /\ Collects(l, Answered(d))

\* An upstream that fails hides its own models and no others; every answer,
\* kept or not, is the result of one whole poll; and the error is only told
\* when a call failed and no upstream named a model.
ListComplete ==
    \A c \in Callers : calls[c].pc = "done" =>
        /\ calls[c].polled /\ (\E k \in Answered(c) : Named(k) # {})
              => calls[c].reply = "list" /\ FoundBy(calls[c].answer, c)
        /\ calls[c].answer # Empty => \E d \in Callers : FoundBy(calls[c].answer, d)
        /\ calls[c].reply = "error" =>
              /\ calls[c].failed # {}
              /\ \A k \in Answered(c) : Named(k) = {}

\* However many callers wait for the mutex when the list has become too old,
\* an upstream that names models is asked once: its next answer comes a
\* minute later at the earliest.
AskedOnce ==
    [][\A c \in Callers, k \in KeyIDs :
          Listed(c, k) /\ heard[k] # Nil => clock - heard[k] >= TTL]_vars

\* Every caller gets an answer, whatever the upstreams do: no path keeps the
\* mutex, and the polls of the callers before it end.
EveryoneAnswered == \A c \in Callers : <>(calls[c].pc = "done")
=============================================================================
