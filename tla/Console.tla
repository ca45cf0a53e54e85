------------------------------ MODULE Console ------------------------------
(* internal/auth/auth.go, internal/api/admin.go and internal/api/user.go:   *)
(* the sessions of the web console, and the requests of administrators and  *)
(* users that carry one.                                                    *)
(*                                                                          *)
(* One goroutine per request.  Every call of a store method is one step, so *)
(* a handler that reads a record, merges and writes it back is several, and *)
(* the steps of all handlers interleave with the saves and with the end of  *)
(* the process.  Requests refused for their form, and logins with a wrong   *)
(* password, touch nothing and are left out.                                *)
EXTENDS Store

CONSTANT Handlers     \* the requests that may arrive

VARIABLES
    handler,
    retired     \* history: ciphertexts that an update has replaced by another

vars == <<storeVars, handler, retired>>

\* What the goroutine does next.
PC == {"idle", "newSession", "expire", "start", "setQuota", "addKey",
       "mergeQuota", "viewUser", "replaceKey", "viewKey", "deleteKey",
       "count", "done", "dead"}

Statuses == {0, 200, 201, 401, 404, 409, 500}

\* role, user and token are those of the session, target and key name the
\* record worked on, userCopy and keyCopy are what was read of it, and of
\* todoUsers and todoKeys the counters are still to be read for the answer.
Request == [pc : PC, role : {"none", "admin", "user"},
            user : UserIDs \cup {Nil}, token : Tokens \cup {Nil},
            target : UserIDs \cup {Nil}, key : KeyIDs \cup {Nil},
            userCopy : User \cup {Nil}, keyCopy : UpstreamKey \cup {Nil},
            todoUsers : SUBSET UserIDs, todoKeys : SUBSET KeyIDs,
            status : Statuses]

NoRequest == [pc |-> "idle", role |-> "none", user |-> Nil, token |-> Nil,
              target |-> Nil, key |-> Nil, userCopy |-> Nil, keyCopy |-> Nil,
              todoUsers |-> {}, todoKeys |-> {}, status |-> 0]

Becomes(h, r) == handler' = [handler EXCEPT ![h] = r] /\ UNCHANGED retired

Answer(h, code) ==
    Becomes(h, [handler[h] EXCEPT !.pc = "done", !.status = code])

\* An answer that needs no change of the store.
Reject(h, code) == Answer(h, code) /\ UNCHANGED storeVars

\* userView and keyView read counters, one store call each, before the answer.
Show(h, r, code, us, ks) ==
    Becomes(h, [r EXCEPT !.pc = IF us = {} /\ ks = {} THEN "done" ELSE "count",
                         !.todoUsers = us, !.todoKeys = ks, !.status = code])

At(h, pc)   == handler[h].pc = pc
ByAdmin(h)  == At(h, "start") /\ handler[h].role = "admin"
ByUser(h)   == At(h, "start") /\ handler[h].role = "user"
For(h, id)  == ByAdmin(h) \/ (ByUser(h) /\ id = handler[h].user)
Arriving(h) == At(h, "idle") /\ proc = "up"    \* Shutdown closes the listener

\* A field that the body of the request leaves out keeps the value of the copy.
Merged(field, copy) == IF field = Nil THEN copy ELSE field

-----------------------------------------------------------------------------
(* Logins and sessions.                                                     *)

LoginAdmin(h, t) ==
    /\ Arriving(h)
    /\ PutSession(t, "admin", Nil)
    /\ Answer(h, 200)

\* LoginUser: the password is checked against a copy of the user, which must
\* have one ...
LoginUser(h, u) ==
    /\ Arriving(h)
    /\ users[u] # Nil /\ users[u].enabled /\ users[u].hash # Blank
    /\ Becomes(h, [handler[h] EXCEPT !.pc = "newSession", !.user = u])
    /\ UNCHANGED storeVars

\* ... and the session is stored whatever has become of the user.
NewSession(h, t) ==
    /\ At(h, "newSession")
    /\ PutSession(t, "user", handler[h].user)
    /\ Answer(h, 200)

\* Check and the two authenticate methods: the session alone decides.  A
\* token of the other role is refused by its route, which changes nothing.
Authenticate(h, t) ==
    /\ Arriving(h)
    /\ sessions[t] # Nil
    /\ LET s == sessions[t] IN
       Becomes(h, [handler[h] EXCEPT
                    !.pc = IF clock < s.expiry THEN "start" ELSE "expire",
                    !.role = s.role, !.user = s.user, !.token = t])
    /\ UNCHANGED storeVars

Expire(h) ==
    /\ At(h, "expire")
    /\ \/ DeleteSession(handler[h].token)
       \/ sessions[handler[h].token] = Nil /\ UNCHANGED storeVars
    /\ Answer(h, 401)

-----------------------------------------------------------------------------
(* Users, by an administrator.                                              *)

AddUser(h, id, name, hash, on) ==
    /\ ByAdmin(h)
    /\ \/ /\ CreateUser(id, name, hash, on)
          /\ \E next \in {"setQuota", "addKey"} :  \* hourly_tokens > 0, or not
                Becomes(h, [handler[h] EXCEPT !.pc = next, !.target = id])
       \/ /\ \E v \in Present(users) : FoldCase[users[v].name] = FoldCase[name]
          /\ Reject(h, 409)

\* The error of UpdateUserQuota is dropped, and so is that of AddAccessKey.
SetQuota(h, hourly, daily) ==
    /\ At(h, "setQuota")
    /\ hourly > 0
    /\ \/ UpdateUserQuota(handler[h].target, hourly, daily)
       \/ users[handler[h].target] = Nil /\ UNCHANGED storeVars
    /\ Becomes(h, [handler[h] EXCEPT !.pc = "addKey"])

AddFirstKey(h, a) ==
    /\ At(h, "addKey")
    /\ \/ AddAccessKey(handler[h].target, a)
       \/ users[handler[h].target] = Nil /\ UNCHANGED storeVars
    /\ Show(h, handler[h], 201, {handler[h].target}, {})

RemoveUser(h, id) ==
    /\ ByAdmin(h)
    /\ \/ DeleteUser(id) /\ Answer(h, 200)
       \/ users[id] = Nil /\ Reject(h, 404)

\* UpdateQuota reads the user ...
ReadQuota(h, id) ==
    /\ ByAdmin(h)
    /\ \/ users[id] = Nil /\ Reject(h, 404)
       \/ /\ users[id] # Nil
          /\ Becomes(h, [handler[h] EXCEPT !.pc = "mergeQuota", !.target = id,
                                           !.userCopy = users[id]])
          /\ UNCHANGED storeVars

\* Fault: the merged copy is stored as a whole, as UpdateKey does.
MergeQuotaWhole(h, hourly, daily) ==
    /\ At(h, "mergeQuota")
    /\ LET r == handler[h] IN
       \/ /\ SetUser(r.target,
                     [r.userCopy EXCEPT !.hourly = Merged(hourly, @),
                                        !.daily = Merged(daily, @)])
          /\ Becomes(h, [r EXCEPT !.pc = "viewUser"])
       \/ users[r.target] = Nil /\ Reject(h, 500)

\* Fault: a number that is left out is stored as missing.
MergeQuotaMissing(h, hourly, daily) ==
    /\ At(h, "mergeQuota")
    /\ LET r == handler[h] IN
       \/ /\ UpdateUserQuota(r.target, hourly, daily)
          /\ Becomes(h, [r EXCEPT !.pc = "viewUser"])
       \/ users[r.target] = Nil /\ Reject(h, 500)

\* ... and writes the two numbers back.
MergeQuota(h, hourly, daily) ==
    /\ At(h, "mergeQuota")
    /\ LET r == handler[h] IN
       \/ /\ UpdateUserQuota(r.target, Merged(hourly, r.userCopy.hourly),
                             Merged(daily, r.userCopy.daily))
          /\ Becomes(h, [r EXCEPT !.pc = "viewUser"])
       \/ users[r.target] = Nil /\ Reject(h, 500)

Enable(h, id, on) ==
    /\ ByAdmin(h)
    /\ \/ /\ SetUserEnabled(id, on)
          /\ Becomes(h, [handler[h] EXCEPT !.pc = "viewUser", !.target = id])
       \/ users[id] = Nil /\ Reject(h, 404)

\* userView(GetUser(id)) panics on nil, and recoverMiddleware answers 500.
ViewUser(h) ==
    /\ At(h, "viewUser")
    /\ IF users[handler[h].target] # Nil
       THEN Show(h, handler[h], 200, {handler[h].target}, {})
       ELSE Answer(h, 500)
    /\ UNCHANGED storeVars

ResetPassword(h, id, hash) ==
    /\ ByAdmin(h)
    /\ \/ UpdateUserPassword(id, hash) /\ Answer(h, 200)
       \/ users[id] = Nil /\ Reject(h, 404)

CreateAccessKey(h, id, a) ==
    /\ ByAdmin(h)
    /\ \/ AddAccessKey(id, a) /\ Answer(h, 201)
       \/ users[id] = Nil /\ Reject(h, 404)

DeleteAccessKey(h, id, a) ==
    /\ ByAdmin(h)
    /\ \/ RemoveAccessKey(id, a) /\ Answer(h, 200)
       \/ accessKeys[a] # id /\ Reject(h, 404)

-----------------------------------------------------------------------------
(* Upstream keys, by an administrator or by their owner.                    *)

\* Encrypt draws a nonce: a ciphertext is never the same twice.
Fresh(enc) == /\ enc \notin retired
              /\ \A k \in Present(upstreamKeys) : upstreamKeys[k].enc # enc

CreateKey(h, id, k, enc, models, on, limit) ==
    /\ For(h, id)
    /\ \/ /\ Fresh(enc)
          /\ CreateUpstreamKey(id, k, enc, models, on, limit)
          /\ Show(h, handler[h], 201, {}, {k})
       \/ users[id] = Nil /\ Reject(h, IF ByAdmin(h) THEN 404 ELSE 500)

\* Fault: any session may work on any key.
MayRead(h, k) == upstreamKeys[k] # Nil

MayHandle(h, k) ==
    /\ upstreamKeys[k] # Nil
    /\ ByUser(h) => upstreamKeys[k].user = handler[h].user

\* UpdateKey, and the user's DeleteKey, look at a copy of the key first.
ReadKey(h, k, next) ==
    /\ ByUser(h) \/ (ByAdmin(h) /\ next = "replaceKey")
    /\ \/ ~MayHandle(h, k) /\ Reject(h, 404)
       \/ /\ MayHandle(h, k)
          /\ Becomes(h, [handler[h] EXCEPT !.pc = next, !.key = k,
                                           !.keyCopy = upstreamKeys[k]])
          /\ UNCHANGED storeVars

\* UpdateKey stores the merged copy as a whole.
ReplaceKey(h, enc, models, on, limit) ==
    /\ At(h, "replaceKey")
    /\ LET r == handler[h]
           c == r.keyCopy IN
       \/ /\ enc # Nil => Fresh(enc)
          /\ ReplaceUpstreamKey(r.key, Merged(enc, c.enc),
                                Merged(models, c.models), Merged(on, c.enabled),
                                Merged(limit, c.limit))
          /\ handler' = [handler EXCEPT ![h] = [r EXCEPT !.pc = "viewKey"]]
          /\ retired' = IF enc = Nil THEN retired
                        ELSE retired \cup {upstreamKeys[r.key].enc}
       \/ upstreamKeys[r.key] = Nil /\ Reject(h, 404)

\* keyView(GetUpstreamKey(keyID)) panics on nil.
ViewKey(h) ==
    /\ At(h, "viewKey")
    /\ IF upstreamKeys[handler[h].key] # Nil
       THEN Show(h, handler[h], 200, {}, {handler[h].key})
       ELSE Answer(h, 500)
    /\ UNCHANGED storeVars

AdminDeleteKey(h, k) ==
    /\ ByAdmin(h)
    /\ \/ DeleteUpstreamKey(k) /\ Answer(h, 200)
       \/ upstreamKeys[k] = Nil /\ Reject(h, 404)

UserDeleteKey(h) ==
    /\ At(h, "deleteKey")
    /\ \/ DeleteUpstreamKey(handler[h].key) /\ Answer(h, 200)
       \/ upstreamKeys[handler[h].key] = Nil /\ Reject(h, 500)

-----------------------------------------------------------------------------
(* Lists and usage.                                                         *)

\* What is listed is read at once, its counters one by one afterwards.
ListUsers(h) ==
    ByAdmin(h) /\ Show(h, handler[h], 200, Present(users), {}) /\ UNCHANGED storeVars

KeyPool(h) ==
    /\ ByAdmin(h)
    /\ Show(h, handler[h], 200, {}, Present(upstreamKeys))
    /\ UNCHANGED storeVars

\* ListUserKeys of the administrator, ListKeys of the user: no keys, no 404.
ListKeys(h, id) ==
    For(h, id) /\ Show(h, handler[h], 200, {}, OwnKeys(id)) /\ UNCHANGED storeVars

\* UserUsage of the administrator, Me and Usage of the user.
Usage(h, id) ==
    /\ For(h, id)
    /\ \/ users[id] # Nil /\ Show(h, handler[h], 200, {id}, {})
       \/ users[id] = Nil /\ Answer(h, 404)
    /\ UNCHANGED storeVars

Counted(h, us, ks) ==
    Becomes(h, [handler[h] EXCEPT
                    !.pc = IF us = {} /\ ks = {} THEN "done" ELSE "count",
                    !.todoUsers = us, !.todoKeys = ks])

CountUser(h, u) ==
    /\ At(h, "count") /\ u \in handler[h].todoUsers
    /\ UserCounters(u)
    /\ Counted(h, handler[h].todoUsers \ {u}, handler[h].todoKeys)

CountKey(h, k) ==
    /\ At(h, "count") /\ k \in handler[h].todoKeys
    /\ KeyHourCounter(k)
    /\ Counted(h, handler[h].todoUsers, handler[h].todoKeys \ {k})

-----------------------------------------------------------------------------

ConsoleInit ==
    /\ Init
    /\ handler = [h \in Handlers |-> NoRequest]
    /\ retired = {}

Sessions(h) ==
    \/ \E t \in Tokens : LoginAdmin(h, t) \/ NewSession(h, t) \/ Authenticate(h, t)
    \/ \E u \in UserIDs : LoginUser(h, u)
    \/ Expire(h)

HandleUsers(h) ==
    \/ \E id \in UserIDs :
          \/ \E n \in Usernames, p \in Hashes, on \in BOOLEAN :
                AddUser(h, id, n, p, on)
          \/ RemoveUser(h, id) \/ ReadQuota(h, id)
          \/ \E on \in BOOLEAN : Enable(h, id, on)
          \/ \E p \in Hashes : ResetPassword(h, id, p)
          \/ \E a \in AccessKeyIDs :
                CreateAccessKey(h, id, a) \/ DeleteAccessKey(h, id, a)
    \/ \E hl, dl \in Limits : SetQuota(h, hl, dl)
    \/ \E a \in AccessKeyIDs : AddFirstKey(h, a)
    \/ \E hl, dl \in Limits \cup {Nil} : MergeQuota(h, hl, dl)
    \/ ViewUser(h)

HandleKeys(h) ==
    \/ \E k \in KeyIDs :
          \/ \E id \in UserIDs, c \in Secrets, ms \in SUBSET ModelNames,
                on \in BOOLEAN, l \in Limits : CreateKey(h, id, k, c, ms, on, l)
          \/ \E next \in {"replaceKey", "deleteKey"} : ReadKey(h, k, next)
          \/ AdminDeleteKey(h, k)
    \/ \E c \in Secrets \cup {Nil}, ms \in (SUBSET ModelNames) \cup {Nil},
          on \in BOOLEAN \cup {Nil}, l \in Limits \cup {Nil} :
             ReplaceKey(h, c, ms, on, l)
    \/ ViewKey(h) \/ UserDeleteKey(h)

Answers(h) ==
    \/ ListUsers(h) \/ KeyPool(h)
    \/ \E id \in UserIDs : ListKeys(h, id) \/ Usage(h, id) \/ CountUser(h, id)
    \/ \E k \in KeyIDs : CountKey(h, k)

Handle(h) == Sessions(h) \/ HandleUsers(h) \/ HandleKeys(h) \/ Answers(h)

\* The goroutines end with the process.
Die == /\ Restart
       /\ handler' = [h \in Handlers |->
                        IF At(h, "idle") THEN handler[h]
                        ELSE [handler[h] EXCEPT !.pc = "dead"]]
       /\ retired' = {}

Elsewhere == (Background \/ Tick) /\ UNCHANGED <<handler, retired>>

ConsoleNext == (\E h \in Handlers : Handle(h)) \/ Die \/ Elsewhere

ConsoleSpec == ConsoleInit /\ [][ConsoleNext]_vars

-----------------------------------------------------------------------------
(* Properties.                                                              *)

ConsoleTypeOK == /\ StoreTypeOK
                 /\ handler \in [Handlers -> Request]
                 /\ retired \subseteq Secrets

\* Handler h, which works for a user's session, makes the step.
UserStep(h) == /\ handler[h].role = "user"
               /\ handler'[h] # handler[h]
               /\ handler'[h].pc # "dead"

\* A user's session changes nothing of the registry but upstream keys, and of
\* these its user's own: the check of the owner was made on a copy, in an
\* earlier step, and other handlers replaced and deleted keys since.
UserConfined ==
    [][\A h \in Handlers : UserStep(h) =>
          /\ UNCHANGED <<users, accessKeys>>
          /\ At(h, "expire") \/ UNCHANGED sessions
          /\ \A k \in KeyIDs :
                \/ upstreamKeys'[k] = upstreamKeys[k]
                \/ \A r \in {upstreamKeys[k], upstreamKeys'[k]} \ {Nil} :
                      r.user = handler[h].user
      ]_vars

\* Sessions outlive their user, and a login that overlaps the deletion still
\* makes one: with it nothing of the registry can be changed any more.
GoneUserInert ==
    [][\A h \in Handlers : UserStep(h) =>
          users[handler[h].user] # Nil \/ UNCHANGED upstreamKeys]_vars

\* In state s, a user or a key that is not there has no tokens.
Tidy(s) ==
    /\ \A u \in UserIDs : s.users[u] = Nil =>
          s.counters[u].hour.value = 0 /\ s.counters[u].day.value = 0
    /\ \A k \in KeyIDs : s.upstreamKeys[k] = Nil => s.keyHours[k].value = 0

\* Views that were begun before a user or a key was deleted read its counter
\* afterwards and store it again: what they store is empty.
DeletedLeavesNoTokens == Tidy(Memory)

\* So are the files that a first start can find.  Only a request that is
\* settled after its user or its key was deleted can make others.
FirstTidy == \A d \in InitialDisks : Tidy(d)

\* A user that was disabled stays so until it is enabled, also when a change
\* of its quota had read the record before and is written back afterwards.
QuotaKeepsDisabled ==
    [][\A u \in UserIDs :
          /\ users[u] # Nil /\ users'[u] # Nil
          /\ users'[u].enabled # users[u].enabled
          => \/ Restart
             \/ \E h \in Handlers :
                   ByAdmin(h) /\ handler'[h].pc = "viewUser"]_vars

\* agent.md:145-147, to rotate a key is covered by the update paths of the
\* administrator and the user: a ciphertext that an update has replaced does
\* not come back.
RotationKept ==
    \A k \in Present(upstreamKeys) : upstreamKeys[k].enc \notin retired
=============================================================================
