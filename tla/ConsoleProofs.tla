--------------------------- MODULE ConsoleProofs ---------------------------
(* Theorems about Console, for all values of its constants: any number of   *)
(* handlers, users and keys.                                                *)
EXTENDS Console, StoreProofs

-----------------------------------------------------------------------------
(* The inductive invariant.                                                 *)

TargetPC == {"setQuota", "addKey", "mergeQuota", "viewUser"}
OwnPC    == {"replaceKey", "deleteKey"}

\* What a handler knows at each of its steps, and on whose behalf it is there.
Local(r) ==
    /\ r.pc \in {"idle", "newSession"} => r.role = "none"
    /\ r.pc = "newSession" => r.user \in UserIDs
    /\ r.pc = "expire" => r.token \in Tokens
    /\ r.pc \in TargetPC => r.target \in UserIDs /\ r.role = "admin"
    /\ r.pc = "mergeQuota" => r.userCopy \in User
    /\ r.pc \in OwnPC \cup {"viewKey"} => r.key \in KeyIDs
    /\ r.pc = "replaceKey" => r.keyCopy \in UpstreamKey

\* The check of the owner stays true: the key may have been deleted, but its
\* ID comes back to nobody and its owner does not change.
Owns(r) ==
    r.pc \in OwnPC =>
        /\ r.key \in issued
        /\ r.role = "user" /\ r.key \in Present(upstreamKeys)
              => upstreamKeys[r.key].user = r.user

ConsoleInv ==
    /\ Typed
    /\ KeysIssued
    /\ handler \in [Handlers -> Request]
    /\ \A h \in Handlers : Local(handler[h]) /\ Owns(handler[h])
    /\ retired \subseteq Secrets

\* Handler h goes on with the record d.
Good(h, d) ==
    /\ d \in Request
    /\ Local(d)
    /\ handler' = [handler EXCEPT ![h] = d]
    /\ d.pc \in OwnPC => Owns(d) /\ UNCHANGED storeVars

Sound(r) == r \in Request /\ Local(r)

-----------------------------------------------------------------------------
(* Records.                                                                 *)

LEMMA DoneRecord ==
    ASSUME NEW r, Sound(r), NEW code \in Statuses
    PROVE  Sound([r EXCEPT !.pc = "done", !.status = code])
<1> DEFINE d == [r EXCEPT !.pc = "done", !.status = code]
<1>1. "done" \in PC
    BY DEF PC
<1>2. d \in Request /\ d.pc = "done"
    BY <1>1 DEF Sound, Request
<1> HIDE DEF d
<1> QED
    BY <1>2 DEF Sound, Local, TargetPC, OwnPC, d

LEMMA ShowRecord ==
    ASSUME NEW r, Sound(r), NEW code \in Statuses, NEW p \in {"done", "count"},
           NEW us \in SUBSET UserIDs, NEW ks \in SUBSET KeyIDs
    PROVE  /\ Sound([r EXCEPT !.pc = p, !.todoUsers = us, !.todoKeys = ks,
                              !.status = code])
           /\ Sound([r EXCEPT !.pc = p, !.todoUsers = us, !.todoKeys = ks])
<1> DEFINE d == [r EXCEPT !.pc = p, !.todoUsers = us, !.todoKeys = ks,
                          !.status = code]
           e == [r EXCEPT !.pc = p, !.todoUsers = us, !.todoKeys = ks]
<1>1. p \in PC
    BY DEF PC
<1>2. d \in Request /\ d.pc \in {"done", "count"}
      /\ e \in Request /\ e.pc \in {"done", "count"}
    BY <1>1 DEF Sound, Request
<1> HIDE DEF d, e
<1>3. Sound(d) /\ Sound(e)
    BY <1>2 DEF Sound, Local, TargetPC, OwnPC
<1> QED
    BY <1>3 DEF d, e

LEMMA AnswerGood ==
    ASSUME ConsoleInv, NEW h \in Handlers, NEW code \in Statuses,
           Answer(h, code)
    PROVE  \E d : Good(h, d)
<1> DEFINE d == [handler[h] EXCEPT !.pc = "done", !.status = code]
<1>1. Sound(d)
    BY DoneRecord DEF ConsoleInv, Sound
<1>2. d.pc = "done"
    BY DEF ConsoleInv, Request
<1>3. handler' = [handler EXCEPT ![h] = d]
    BY DEF Answer, Becomes
<1> HIDE DEF d
<1> QED
    BY <1>1, <1>2, <1>3 DEF Good, Sound, OwnPC

LEMMA ShowGood ==
    ASSUME ConsoleInv, NEW h \in Handlers, NEW code \in Statuses,
           NEW us \in SUBSET UserIDs, NEW ks \in SUBSET KeyIDs,
           Show(h, handler[h], code, us, ks) \/ Counted(h, us, ks)
    PROVE  \E d : Good(h, d)
<1> DEFINE p == IF us = {} /\ ks = {} THEN "done" ELSE "count"
           d == [handler[h] EXCEPT !.pc = p, !.todoUsers = us, !.todoKeys = ks,
                                   !.status = code]
           e == [handler[h] EXCEPT !.pc = p, !.todoUsers = us, !.todoKeys = ks]
<1>1. Sound(d) /\ Sound(e)
    BY ShowRecord DEF ConsoleInv, Sound
<1>2. d.pc \notin OwnPC /\ e.pc \notin OwnPC
    BY DEF ConsoleInv, Request, OwnPC
<1>3. \/ handler' = [handler EXCEPT ![h] = d]
      \/ handler' = [handler EXCEPT ![h] = e]
    BY DEF Show, Counted, Becomes
<1> HIDE DEF d, e
<1> QED
    BY <1>1, <1>2, <1>3 DEF Good, Sound

\* A handler goes on at p with its record otherwise unchanged.
LEMMA NextGood ==
    ASSUME ConsoleInv, NEW h \in Handlers, NEW p \in PC \ OwnPC,
           p = "viewKey" => handler[h].key \in KeyIDs,
           p \in TargetPC => /\ handler[h].target \in UserIDs
                             /\ handler[h].role = "admin",
           p \notin {"idle", "newSession", "expire", "mergeQuota"},
           handler' = [handler EXCEPT ![h] = [handler[h] EXCEPT !.pc = p]]
    PROVE  \E d : Good(h, d)
<1> DEFINE d == [handler[h] EXCEPT !.pc = p]
<1>1. /\ d \in Request /\ d.pc = p /\ d.key = handler[h].key
      /\ d.target = handler[h].target /\ d.role = handler[h].role
    BY DEF ConsoleInv, Request
<1>2. handler' = [handler EXCEPT ![h] = d]
    OBVIOUS
<1> HIDE DEF d
<1> QED
    BY <1>1, <1>2 DEF Good, Local, OwnPC

-----------------------------------------------------------------------------
(* What each action makes of its handler.                                   *)

LEMMA SessionsGood ==
    ASSUME ConsoleInv, NEW h \in Handlers, Sessions(h)
    PROVE  \E d : Good(h, d)
<1>1. ASSUME NEW t \in Tokens, LoginAdmin(h, t) \/ NewSession(h, t)
      PROVE  \E d : Good(h, d)
    BY <1>1, AnswerGood DEF LoginAdmin, NewSession, Statuses
<1>2. ASSUME NEW t \in Tokens, Authenticate(h, t)
      PROVE  \E d : Good(h, d)
    <2> DEFINE s == sessions[t]
               p == IF clock < s.expiry THEN "start" ELSE "expire"
               d == [handler[h] EXCEPT !.pc = p, !.role = s.role,
                                       !.user = s.user, !.token = t]
    <2>1. s \in Session
        BY <1>2 DEF Authenticate, ConsoleInv, Typed, TypedRegistry
    <2>2. p \in PC /\ p \in {"start", "expire"}
        BY DEF PC
    <2>3. handler' = [handler EXCEPT ![h] = d]
        BY <1>2 DEF Authenticate, Becomes
    <2>4. s.role \in {"none", "admin", "user"} /\ s.user \in UserIDs \cup {Nil}
        BY <2>1 DEF Session
    <2> HIDE DEF s, p
    <2>5. d \in Request /\ d.pc \in {"start", "expire"} /\ d.token = t
        BY <2>2, <2>4, ZenonT(60) DEF ConsoleInv, Request
    <2> HIDE DEF d
    <2> QED
        BY <2>3, <2>5 DEF Good, Local, TargetPC, OwnPC
<1>3. ASSUME NEW u \in UserIDs, LoginUser(h, u)
      PROVE  \E d : Good(h, d)
    <2> DEFINE d == [handler[h] EXCEPT !.pc = "newSession", !.user = u]
    <2>1. handler[h].role = "none"
        BY <1>3 DEF LoginUser, Arriving, At, ConsoleInv, Local
    <2>2. "newSession" \in PC
        BY DEF PC
    <2>3. d \in Request /\ d.pc = "newSession" /\ d.user = u /\ d.role = "none"
        BY <2>1, <2>2 DEF ConsoleInv, Request
    <2>4. handler' = [handler EXCEPT ![h] = d]
        BY <1>3 DEF LoginUser, Becomes
    <2> HIDE DEF d
    <2> QED
        BY <2>3, <2>4 DEF Good, Local, TargetPC, OwnPC
<1>4. CASE Expire(h)
    BY <1>4, AnswerGood DEF Expire, Statuses
<1> QED
    BY <1>1, <1>2, <1>3, <1>4 DEF Sessions

\* A handler goes on at p to work on the user id.
LEMMA TargetGood ==
    ASSUME ConsoleInv, NEW h \in Handlers, ByAdmin(h), NEW id \in UserIDs,
           NEW p \in TargetPC \ {"mergeQuota"},
           handler' = [handler EXCEPT ![h] =
                          [handler[h] EXCEPT !.pc = p, !.target = id]]
    PROVE  \E d : Good(h, d)
<1> DEFINE d == [handler[h] EXCEPT !.pc = p, !.target = id]
<1>1. p \in PC
    BY DEF PC, TargetPC
<1>2. d \in Request /\ d.pc = p /\ d.target = id /\ d.role = "admin"
    BY <1>1, ZenonT(60) DEF ConsoleInv, Request, ByAdmin
<1>3. handler' = [handler EXCEPT ![h] = d]
    OBVIOUS
<1> HIDE DEF d
<1> QED
    BY <1>2, <1>3 DEF Good, Local, TargetPC, OwnPC

LEMMA ReadQuotaGood ==
    ASSUME ConsoleInv, NEW h \in Handlers, NEW id \in UserIDs, ReadQuota(h, id)
    PROVE  \E d : Good(h, d)
<1>1. CASE users[id] = Nil
    BY <1>1, AnswerGood DEF ReadQuota, Reject, Statuses
<1>2. CASE users[id] # Nil
    <2> DEFINE d == [handler[h] EXCEPT !.pc = "mergeQuota", !.target = id,
                                       !.userCopy = users[id]]
    <2>1. users[id] \in User /\ "mergeQuota" \in PC
        BY <1>2 DEF ConsoleInv, Typed, TypedRegistry, PC
    <2>2. handler[h].role = "admin"
        BY DEF ReadQuota, ByAdmin
    <2>3. /\ d \in Request /\ d.pc = "mergeQuota" /\ d.target = id
          /\ d.userCopy = users[id] /\ d.role = "admin"
        BY <2>1, <2>2 DEF ConsoleInv, Request
    <2>4. handler' = [handler EXCEPT ![h] = d]
        BY <1>2 DEF ReadQuota, Becomes
    <2> HIDE DEF d
    <2> QED
        BY <2>1, <2>3, <2>4 DEF Good, Local, TargetPC, OwnPC
<1> QED
    BY <1>1, <1>2

LEMMA HandleUsersGood ==
    ASSUME ConsoleInv, NEW h \in Handlers, HandleUsers(h)
    PROVE  \E d : Good(h, d)
<1> DEFINE r == handler[h]
<1>1. ASSUME NEW id \in UserIDs, NEW n, NEW p, NEW on, AddUser(h, id, n, p, on)
      PROVE  \E d : Good(h, d)
    <2>1. CASE Answer(h, 409)
        BY <2>1, AnswerGood DEF Statuses
    <2>2. ASSUME NEW next \in {"setQuota", "addKey"},
                 Becomes(h, [r EXCEPT !.pc = next, !.target = id])
          PROVE  \E d : Good(h, d)
        BY <1>1, <2>2, TargetGood DEF AddUser, Becomes, TargetPC
    <2> QED
        BY <1>1, <2>1, <2>2 DEF AddUser, Reject
<1>2. ASSUME NEW id \in UserIDs, NEW on, Enable(h, id, on)
      PROVE  \E d : Good(h, d)
    <2>1. CASE Answer(h, 404)
        BY <2>1, AnswerGood DEF Statuses
    <2>2. CASE Becomes(h, [r EXCEPT !.pc = "viewUser", !.target = id])
        <3>1. "viewUser" \in TargetPC \ {"mergeQuota"}
            BY DEF TargetPC
        <3> QED
            BY <1>2, <2>2, <3>1, TargetGood DEF Enable, Becomes
    <2> QED
        BY <1>2, <2>1, <2>2 DEF Enable, Reject
<1>3. ASSUME NEW id, NEW p, NEW a,
             \/ RemoveUser(h, id) \/ ResetPassword(h, id, p)
             \/ CreateAccessKey(h, id, a) \/ DeleteAccessKey(h, id, a)
      PROVE  \E d : Good(h, d)
    BY <1>3, AnswerGood DEF RemoveUser, ResetPassword, CreateAccessKey,
                            DeleteAccessKey, Reject, Statuses
<1>4. r.pc \in TargetPC => r.target \in UserIDs /\ r.role = "admin"
    BY DEF ConsoleInv, Local
<1>5. ASSUME NEW hl, NEW dl, SetQuota(h, hl, dl)
      PROVE  \E d : Good(h, d)
    <2>1. "addKey" \in PC \ OwnPC /\ r.target \in UserIDs /\ r.role = "admin"
        BY <1>4, <1>5 DEF SetQuota, At, PC, OwnPC, TargetPC
    <2>2. handler' = [handler EXCEPT ![h] = [handler[h] EXCEPT !.pc = "addKey"]]
        BY <1>5 DEF SetQuota, Becomes
    <2> QED
        BY <2>1, <2>2, NextGood
<1>6. ASSUME NEW a, AddFirstKey(h, a)
      PROVE  \E d : Good(h, d)
    <2>1. r.target \in UserIDs
        BY <1>4, <1>6 DEF AddFirstKey, At, TargetPC
    <2> QED
        BY <1>6, <2>1, ShowGood DEF AddFirstKey, Statuses
<1>7. ASSUME NEW hl, NEW dl, MergeQuota(h, hl, dl)
      PROVE  \E d : Good(h, d)
    <2>1. CASE Answer(h, 500)
        BY <2>1, AnswerGood DEF Statuses
    <2>2. CASE Becomes(h, [r EXCEPT !.pc = "viewUser"])
        <3>1. /\ "viewUser" \in PC \ OwnPC
              /\ r.target \in UserIDs /\ r.role = "admin"
            BY <1>4, <1>7 DEF MergeQuota, At, PC, OwnPC, TargetPC
        <3>2. handler' = [handler EXCEPT
                            ![h] = [handler[h] EXCEPT !.pc = "viewUser"]]
            BY <2>2 DEF Becomes
        <3> QED
            BY <3>1, <3>2, NextGood
    <2> QED
        BY <1>7, <2>1, <2>2 DEF MergeQuota, Reject
<1>8. CASE ViewUser(h)
    <2>1. CASE Answer(h, 500)
        BY <2>1, AnswerGood DEF Statuses
    <2>2. CASE Show(h, r, 200, {r.target}, {})
        <3>1. r.target \in UserIDs
            BY <1>4, <1>8 DEF ViewUser, At, TargetPC
        <3> QED
            BY <2>2, <3>1, ShowGood DEF Statuses
    <2> QED
        BY <1>8, <2>1, <2>2 DEF ViewUser
<1> QED
    BY <1>1, <1>2, <1>3, <1>5, <1>6, <1>7, <1>8, ReadQuotaGood DEF HandleUsers

\* The check of the owner, made on the key that is there.
LEMMA ReadKeyGood ==
    ASSUME ConsoleInv, NEW h \in Handlers, NEW k \in KeyIDs,
           NEW next \in OwnPC, ReadKey(h, k, next)
    PROVE  \E d : Good(h, d)
<1>1. CASE Reject(h, 404)
    BY <1>1, AnswerGood DEF Reject, Statuses
<1>2. CASE ~Reject(h, 404)
    <2> DEFINE d == [handler[h] EXCEPT !.pc = next, !.key = k,
                                       !.keyCopy = upstreamKeys[k]]
    <2>1. /\ upstreamKeys[k] # Nil
          /\ ByUser(h) => upstreamKeys[k].user = handler[h].user
          /\ ByAdmin(h) \/ ByUser(h)
          /\ UNCHANGED storeVars
        BY <1>2 DEF ReadKey, MayHandle
    <2>2. upstreamKeys[k] \in UpstreamKey /\ next \in PC
        BY <2>1 DEF ConsoleInv, Typed, TypedRegistry, PC, OwnPC
    <2>3. /\ d \in Request /\ d.pc = next /\ d.key = k
          /\ d.keyCopy = upstreamKeys[k]
          /\ d.role = handler[h].role /\ d.user = handler[h].user
        BY <2>2 DEF ConsoleInv, Request
    <2>4. handler' = [handler EXCEPT ![h] = d]
        BY <1>2 DEF ReadKey, Becomes
    <2> HIDE DEF d
    <2>5. Local(d)
        BY <2>2, <2>3 DEF Local, TargetPC, OwnPC
    <2>6. k \in issued
        BY <2>1 DEF ConsoleInv, KeysIssued, Present, Typed, TypedRegistry
    <2>7. Owns(d)
        BY <2>1, <2>3, <2>6 DEF Owns, ByAdmin, ByUser
    <2> QED
        BY <2>1, <2>3, <2>4, <2>5, <2>7 DEF Good
<1> QED
    BY <1>1, <1>2

LEMMA HandleKeysGood ==
    ASSUME ConsoleInv, NEW h \in Handlers, HandleKeys(h)
    PROVE  \E d : Good(h, d)
<1> DEFINE r == handler[h]
<1>1. ASSUME NEW id, NEW k \in KeyIDs, NEW c, NEW ms, NEW on, NEW l,
             CreateKey(h, id, k, c, ms, on, l)
      PROVE  \E d : Good(h, d)
    <2>1. CASE Answer(h, IF ByAdmin(h) THEN 404 ELSE 500)
        BY <2>1, AnswerGood DEF Statuses
    <2>2. CASE Show(h, r, 201, {}, {k})
        BY <2>2, ShowGood DEF Statuses
    <2> QED
        BY <1>1, <2>1, <2>2 DEF CreateKey, Reject
<1>2. ASSUME NEW k \in KeyIDs, NEW next \in {"replaceKey", "deleteKey"},
             ReadKey(h, k, next)
      PROVE  \E d : Good(h, d)
    BY <1>2, ReadKeyGood DEF OwnPC
<1>3. ASSUME NEW k, AdminDeleteKey(h, k) \/ UserDeleteKey(h)
      PROVE  \E d : Good(h, d)
    BY <1>3, AnswerGood DEF AdminDeleteKey, UserDeleteKey, Reject, Statuses
<1>4. r.pc \in OwnPC \cup {"viewKey"} => r.key \in KeyIDs
    BY DEF ConsoleInv, Local
<1>5. ASSUME NEW c, NEW ms, NEW on, NEW l, ReplaceKey(h, c, ms, on, l)
      PROVE  \E d : Good(h, d)
    <2>1. CASE Answer(h, 404)
        BY <2>1, AnswerGood DEF Statuses
    <2>2. CASE handler' = [handler EXCEPT
                            ![h] = [handler[h] EXCEPT !.pc = "viewKey"]]
        <3>1. "viewKey" \in PC \ OwnPC /\ "viewKey" \notin TargetPC
            BY DEF PC, OwnPC, TargetPC
        <3>2. r.key \in KeyIDs
            BY <1>4, <1>5 DEF ReplaceKey, At, OwnPC
        <3> QED
            BY <2>2, <3>1, <3>2, NextGood
    <2> QED
        BY <1>5, <2>1, <2>2 DEF ReplaceKey, Reject
<1>6. CASE ViewKey(h)
    <2>1. CASE Answer(h, 500)
        BY <2>1, AnswerGood DEF Statuses
    <2>2. CASE Show(h, r, 200, {}, {r.key})
        <3>1. r.key \in KeyIDs
            BY <1>4, <1>6 DEF ViewKey, At
        <3> QED
            BY <2>2, <3>1, ShowGood DEF Statuses
    <2> QED
        BY <1>6, <2>1, <2>2 DEF ViewKey
<1> QED
    BY <1>1, <1>2, <1>3, <1>5, <1>6 DEF HandleKeys

LEMMA AnswersGood ==
    ASSUME ConsoleInv, NEW h \in Handlers, Answers(h)
    PROVE  \E d : Good(h, d)
<1>1. CASE \/ ListUsers(h) \/ KeyPool(h)
             \/ \E id \in UserIDs : ListKeys(h, id) \/ Usage(h, id)
    <2>1. /\ Present(users) \in SUBSET UserIDs
          /\ Present(upstreamKeys) \in SUBSET KeyIDs
          /\ \A id \in UserIDs : OwnKeys(id) \in SUBSET KeyIDs
        BY DEF ConsoleInv, Typed, TypedRegistry, Present, OwnKeys
    <2>2. ASSUME NEW us \in SUBSET UserIDs, NEW ks \in SUBSET KeyIDs,
                 Show(h, handler[h], 200, us, ks)
          PROVE  \E d : Good(h, d)
        BY <2>2, ShowGood DEF Statuses
    <2>3. CASE Answer(h, 404)
        BY <2>3, AnswerGood DEF Statuses
    <2>4. \/ \E us \in SUBSET UserIDs, ks \in SUBSET KeyIDs :
                Show(h, handler[h], 200, us, ks)
          \/ Answer(h, 404)
        BY <1>1, <2>1 DEF ListUsers, KeyPool, ListKeys, Usage
    <2> QED
        BY <2>2, <2>3, <2>4
<1>2. handler[h].todoUsers \in SUBSET UserIDs
      /\ handler[h].todoKeys \in SUBSET KeyIDs
    BY DEF ConsoleInv, Request
<1>3. ASSUME NEW u, CountUser(h, u)
      PROVE  \E d : Good(h, d)
    <2>1. Counted(h, handler[h].todoUsers \ {u}, handler[h].todoKeys)
        BY <1>3 DEF CountUser
    <2> QED
        BY <1>2, <2>1, ShowGood DEF Statuses
<1>4. ASSUME NEW k, CountKey(h, k)
      PROVE  \E d : Good(h, d)
    <2>1. Counted(h, handler[h].todoUsers, handler[h].todoKeys \ {k})
        BY <1>4 DEF CountKey
    <2> QED
        BY <1>2, <2>1, ShowGood DEF Statuses
<1> QED
    BY <1>1, <1>3, <1>4 DEF Answers

LEMMA HandleGood ==
    ASSUME ConsoleInv, NEW h \in Handlers, Handle(h)
    PROVE  \E d : Good(h, d)
    BY SessionsGood, HandleUsersGood, HandleKeysGood, AnswersGood DEF Handle

-----------------------------------------------------------------------------
(* Every step of the console is a step of the store, or none of it.         *)

LEMMA SessionsStore ==
    ASSUME ConsoleInv, NEW h \in Handlers, Sessions(h)
    PROVE  [Managing]_storeVars
<1>1. ASSUME NEW t \in Tokens, LoginAdmin(h, t)
      PROVE  Managing
    BY <1>1 DEF LoginAdmin, Managing, ManageSessions
<1>2. ASSUME NEW t \in Tokens, NewSession(h, t)
      PROVE  Managing
    <2>1. handler[h].user \in UserIDs
        BY <1>2 DEF NewSession, At, ConsoleInv, Local
    <2> QED
        BY <1>2, <2>1 DEF NewSession, Managing, ManageSessions
<1>3. CASE Expire(h)
    <2>1. handler[h].token \in Tokens
        BY <1>3 DEF Expire, At, ConsoleInv, Local
    <2> QED
        BY <1>3, <2>1 DEF Expire, Managing, ManageSessions
<1> QED
    BY <1>1, <1>2, <1>3 DEF Sessions, Authenticate, LoginUser

LEMMA MergedType ==
    ASSUME NEW S, NEW x \in S, NEW f \in S \cup {Nil}
    PROVE  Merged(f, x) \in S
    BY DEF Merged

LEMMA HandleUsersStore ==
    ASSUME ConsoleInv, NEW h \in Handlers, HandleUsers(h)
    PROVE  [Managing]_storeVars
<1> DEFINE r == handler[h]
<1>1. ASSUME ManageUsers
      PROVE  Managing
    BY <1>1 DEF Managing
<1>2. ASSUME NEW id \in UserIDs, NEW n \in Usernames, NEW p \in Hashes,
             NEW on \in BOOLEAN, AddUser(h, id, n, p, on)
      PROVE  [Managing]_storeVars
    BY <1>1, <1>2 DEF AddUser, Reject, ManageUsers
<1>3. ASSUME NEW id \in UserIDs, RemoveUser(h, id) \/ ReadQuota(h, id)
      PROVE  [Managing]_storeVars
    BY <1>1, <1>3 DEF RemoveUser, ReadQuota, Reject, ManageUsers
<1>4. ASSUME NEW id \in UserIDs, NEW on \in BOOLEAN, Enable(h, id, on)
      PROVE  [Managing]_storeVars
    BY <1>1, <1>4 DEF Enable, Reject, ManageUsers
<1>5. ASSUME NEW id \in UserIDs, NEW p \in Hashes, ResetPassword(h, id, p)
      PROVE  [Managing]_storeVars
    BY <1>1, <1>5 DEF ResetPassword, Reject, ManageUsers
<1>6. ASSUME NEW id \in UserIDs, NEW a \in AccessKeyIDs,
             CreateAccessKey(h, id, a) \/ DeleteAccessKey(h, id, a)
      PROVE  [Managing]_storeVars
    BY <1>1, <1>6 DEF CreateAccessKey, DeleteAccessKey, Reject, ManageUsers
<1>7. r.pc \in TargetPC => r.target \in UserIDs
    BY DEF ConsoleInv, Local
<1>8. ASSUME NEW hl \in Limits, NEW dl \in Limits, SetQuota(h, hl, dl)
      PROVE  [Managing]_storeVars
    BY <1>1, <1>7, <1>8 DEF SetQuota, At, TargetPC, ManageUsers
<1>9. ASSUME NEW a \in AccessKeyIDs, AddFirstKey(h, a)
      PROVE  [Managing]_storeVars
    BY <1>1, <1>7, <1>9 DEF AddFirstKey, At, TargetPC, ManageUsers
<1>10. ASSUME NEW hl \in Limits \cup {Nil}, NEW dl \in Limits \cup {Nil},
              MergeQuota(h, hl, dl)
       PROVE  [Managing]_storeVars
    <2>1. r.target \in UserIDs /\ r.userCopy \in User
        BY <1>7, <1>10 DEF MergeQuota, At, TargetPC, ConsoleInv, Local
    <2>2. /\ Merged(hl, r.userCopy.hourly) \in Limits
          /\ Merged(dl, r.userCopy.daily) \in Limits
        BY <2>1, MergedType DEF User
    <2> QED
        BY <1>1, <1>10, <2>1, <2>2 DEF MergeQuota, Reject, ManageUsers
<1>11. CASE ViewUser(h)
    BY <1>11 DEF ViewUser
<1> QED
    BY <1>2, <1>3, <1>4, <1>5, <1>6, <1>8, <1>9, <1>10, <1>11 DEF HandleUsers

LEMMA HandleKeysStore ==
    ASSUME ConsoleInv, NEW h \in Handlers, HandleKeys(h)
    PROVE  [Managing]_storeVars
<1> DEFINE r == handler[h]
<1>1. ASSUME ManageKeys
      PROVE  Managing
    BY <1>1 DEF Managing
<1>2. ASSUME NEW id \in UserIDs, NEW k \in KeyIDs, NEW c \in Secrets,
             NEW ms \in SUBSET ModelNames, NEW on \in BOOLEAN, NEW l \in Limits,
             CreateKey(h, id, k, c, ms, on, l)
      PROVE  [Managing]_storeVars
    BY <1>1, <1>2 DEF CreateKey, Reject, ManageKeys
<1>3. ASSUME NEW k, NEW next, ReadKey(h, k, next)
      PROVE  UNCHANGED storeVars
    BY <1>3 DEF ReadKey, Reject
<1>4. ASSUME NEW k \in KeyIDs, AdminDeleteKey(h, k)
      PROVE  [Managing]_storeVars
    BY <1>1, <1>4 DEF AdminDeleteKey, Reject, ManageKeys
<1>5. ASSUME NEW c \in Secrets \cup {Nil},
             NEW ms \in (SUBSET ModelNames) \cup {Nil},
             NEW on \in BOOLEAN \cup {Nil}, NEW l \in Limits \cup {Nil},
             ReplaceKey(h, c, ms, on, l)
      PROVE  [Managing]_storeVars
    <2>1. r.key \in KeyIDs /\ r.keyCopy \in UpstreamKey
        BY <1>5 DEF ReplaceKey, At, OwnPC, ConsoleInv, Local
    <2>2. /\ Merged(c, r.keyCopy.enc) \in Secrets
          /\ Merged(ms, r.keyCopy.models) \in SUBSET ModelNames
          /\ Merged(on, r.keyCopy.enabled) \in BOOLEAN
          /\ Merged(l, r.keyCopy.limit) \in Limits
        BY <2>1, MergedType DEF UpstreamKey
    <2>3. CASE UNCHANGED storeVars
        BY <2>3
    <2>4. CASE ReplaceUpstreamKey(r.key, Merged(c, r.keyCopy.enc),
                                  Merged(ms, r.keyCopy.models),
                                  Merged(on, r.keyCopy.enabled),
                                  Merged(l, r.keyCopy.limit))
        BY <1>1, <2>1, <2>2, <2>4 DEF ManageKeys
    <2> QED
        BY <1>5, <2>3, <2>4 DEF ReplaceKey, Reject
<1>6. CASE UserDeleteKey(h)
    <2>1. r.key \in KeyIDs
        BY <1>6 DEF UserDeleteKey, At, OwnPC, ConsoleInv, Local
    <2> QED
        BY <1>1, <1>6, <2>1 DEF UserDeleteKey, Reject, ManageKeys
<1>7. CASE ViewKey(h)
    BY <1>7 DEF ViewKey
<1> QED
    BY <1>2, <1>3, <1>4, <1>5, <1>6, <1>7 DEF HandleKeys

LEMMA AnswersStore ==
    ASSUME NEW h \in Handlers, Answers(h)
    PROVE  [Managing]_storeVars
    BY DEF Answers, ListUsers, KeyPool, ListKeys, Usage, CountUser, CountKey,
           Managing

LEMMA HandleStore ==
    ASSUME ConsoleInv, NEW h \in Handlers, Handle(h)
    PROVE  [Managing]_storeVars
    BY SessionsStore, HandleUsersStore, HandleKeysStore, AnswersStore DEF Handle

LEMMA ConsoleIsStoreStep ==
    ConsoleInv /\ [ConsoleNext]_vars => [StoreNext]_storeVars
<1> SUFFICES ASSUME ConsoleInv, [ConsoleNext]_vars PROVE [StoreNext]_storeVars
    OBVIOUS
<1>1. CASE \E h \in Handlers : Handle(h)
    BY <1>1, HandleStore, ManagingIsStep
<1>2. CASE Die \/ Elsewhere
    BY <1>2 DEF Die, Elsewhere, StoreNext
<1>3. CASE UNCHANGED vars
    BY <1>3 DEF vars
<1> QED
    BY <1>1, <1>2, <1>3 DEF ConsoleNext

-----------------------------------------------------------------------------
(* The invariant is inductive.                                              *)

LEMMA ConsoleInitInv == ConsoleInit => ConsoleInv
<1> SUFFICES ASSUME ConsoleInit PROVE ConsoleInv
    OBVIOUS
<1>1. Typed
    BY InitType DEF ConsoleInit
<1>2. KeysIssued
    BY <1>1 DEF ConsoleInit, Init, KeysIssued, Present, Typed, TypedRegistry,
                TypedSaving, State
<1>3. NoRequest \in Request /\ Local(NoRequest) /\ Owns(NoRequest)
    BY DEF NoRequest, Request, PC, Statuses, Local, Owns, TargetPC, OwnPC
<1> QED
    BY <1>1, <1>2, <1>3 DEF ConsoleInit, ConsoleInv

LEMMA RetiredStep ==
    ASSUME ConsoleInv, NEW h \in Handlers, Handle(h)
    PROVE  retired' \subseteq Secrets
<1>1. ASSUME NEW c, NEW ms, NEW on, NEW l, ReplaceKey(h, c, ms, on, l)
      PROVE  retired' \subseteq Secrets
    <2> DEFINE k == handler[h].key
    <2>1. k \in KeyIDs
        BY <1>1 DEF ReplaceKey, At, OwnPC, ConsoleInv, Local
    <2>2. upstreamKeys[k] # Nil => upstreamKeys[k].enc \in Secrets
        BY <2>1 DEF ConsoleInv, Typed, TypedRegistry, UpstreamKey
    <2>3. retired \subseteq Secrets
        BY DEF ConsoleInv
    <2> QED
        BY <1>1, <2>2, <2>3 DEF ReplaceKey, ReplaceUpstreamKey, Reject, Answer,
                                Becomes
<1>2. CASE UNCHANGED retired
    BY <1>2 DEF ConsoleInv
<1>3. CASE Sessions(h) \/ Answers(h)
    BY <1>2, <1>3 DEF Sessions, LoginAdmin, NewSession, Authenticate, LoginUser,
                      Expire, Answers, ListUsers, KeyPool, ListKeys, Usage,
                      CountUser, CountKey, Counted, Show, Answer, Becomes
<1>4. CASE HandleUsers(h)
    BY <1>2, <1>4 DEF HandleUsers, AddUser, RemoveUser, ReadQuota, Enable,
                      ResetPassword, CreateAccessKey, DeleteAccessKey, SetQuota,
                      AddFirstKey, MergeQuota, ViewUser, Reject, Show, Answer,
                      Becomes
<1>5. CASE HandleKeys(h)
    <2>1. ASSUME NEW id, NEW k, NEW c, NEW ms, NEW on, NEW l,
                 CreateKey(h, id, k, c, ms, on, l)
          PROVE  UNCHANGED retired
        BY <2>1 DEF CreateKey, Reject, Show, Answer, Becomes
    <2>2. ASSUME NEW k, NEW next, ReadKey(h, k, next) \/ AdminDeleteKey(h, k)
                                     \/ ViewKey(h) \/ UserDeleteKey(h)
          PROVE  UNCHANGED retired
        BY <2>2 DEF ReadKey, AdminDeleteKey, ViewKey, UserDeleteKey, Reject,
                    Show, Answer, Becomes
    <2> QED
        BY <1>1, <1>2, <1>5, <2>1, <2>2 DEF HandleKeys
<1> QED
    BY <1>3, <1>4, <1>5 DEF Handle

\* What another step makes of the check of the owner.
LEMMA OwnsKept ==
    ASSUME ConsoleInv, [Living]_storeVars,
           NEW r \in Request, Local(r), Owns(r)
    PROVE  Owns(r)'
<1>1. CASE Living
    <2>1. /\ issued \subseteq issued'
          /\ \A k \in Present(upstreamKeys)' : k \in issued => Stays(k)
        BY <1>1, LivingIssue DEF ConsoleInv
    <2> QED
        BY <2>1 DEF Owns, Stays
<1>2. CASE UNCHANGED storeVars
    BY <1>2 DEF storeVars, registry, Owns, Present
<1> QED
    BY <1>1, <1>2

LEMMA ConsoleStep == ConsoleInv /\ [ConsoleNext]_vars => ConsoleInv'
<1> SUFFICES ASSUME ConsoleInv, [ConsoleNext]_vars PROVE ConsoleInv'
    OBVIOUS
<1>1. [StoreNext]_storeVars
    BY ConsoleIsStoreStep
<1>2. Typed'
    BY <1>1, StoreTypeStep DEF ConsoleInv
<1>3. KeysIssued'
    <2>1. CASE StoreNext
        BY <2>1, IssueStep DEF ConsoleInv
    <2>2. CASE UNCHANGED storeVars
        BY <2>2 DEF storeVars, registry, saving, ConsoleInv, KeysIssued, Present
    <2> QED
        BY <1>1, <2>1, <2>2
<1>4. ASSUME NEW h \in Handlers
      PROVE  handler[h] \in Request /\ Local(handler[h]) /\ Owns(handler[h])
    BY DEF ConsoleInv
<1>5. CASE Die
    <2>1. ASSUME NEW h \in Handlers
          PROVE  /\ handler'[h] \in Request /\ Local(handler'[h])
                 /\ handler'[h].pc \in {"idle", "dead"}
        <3>1. CASE At(h, "idle")
            BY <1>4, <1>5, <3>1 DEF Die, At
        <3>2. CASE ~At(h, "idle")
            <4> DEFINE d == [handler[h] EXCEPT !.pc = "dead"]
            <4>1. "dead" \in PC
                BY DEF PC
            <4>2. d \in Request /\ d.pc = "dead"
                BY <1>4, <4>1 DEF Request
            <4>3. handler'[h] = d
                BY <1>5, <3>2 DEF Die
            <4> HIDE DEF d
            <4> QED
                BY <4>2, <4>3 DEF Local, TargetPC, OwnPC
        <3> QED
            BY <3>1, <3>2
    <2>2. \A h \in Handlers : Owns(handler[h])'
        BY <2>1 DEF Owns, OwnPC
    <2>3. handler' \in [Handlers -> Request] /\ retired' = {}
        BY <1>5, <2>1 DEF Die
    <2> QED
        BY <1>2, <1>3, <2>1, <2>2, <2>3 DEF ConsoleInv
<1>6. ASSUME NEW h \in Handlers, Handle(h)
      PROVE  ConsoleInv'
    <2>1. PICK d : Good(h, d)
        BY <1>6, HandleGood
    <2>2. handler' = [handler EXCEPT ![h] = d] /\ d \in Request /\ Local(d)
        BY <2>1 DEF Good
    <2>3. Owns(d)'
        <3>1. CASE d.pc \in OwnPC
            <4>1. Owns(d) /\ UNCHANGED storeVars
                BY <2>1, <3>1 DEF Good
            <4> QED
                BY <4>1 DEF storeVars, registry, Owns, Present
        <3>2. CASE d.pc \notin OwnPC
            BY <3>2 DEF Owns
        <3> QED
            BY <3>1, <3>2
    <2>4. ASSUME NEW g \in Handlers
          PROVE  Local(handler'[g]) /\ Owns(handler[g])'
        <3>1. CASE g = h
            <4>1. handler'[g] = d
                BY <2>2, <3>1 DEF ConsoleInv
            <4> QED
                BY <2>2, <2>3, <4>1
        <3>2. CASE g # h
            <4>1. handler'[g] = handler[g]
                BY <2>2, <3>2 DEF ConsoleInv
            <4>2. Owns(handler[g]) /\ handler[g] \in Request
                BY <1>4
            <4> QED
                BY <1>4, <1>6, <4>1, HandleStore,
                   ManagingIsLiving, OwnsKept DEF Owns
        <3> QED
            BY <3>1, <3>2
    <2>5. handler' \in [Handlers -> Request]
        BY <2>2 DEF ConsoleInv
    <2> QED
        BY <1>2, <1>3, <1>6, <2>4, <2>5, RetiredStep DEF ConsoleInv
<1>7. CASE UNCHANGED <<handler, retired>> /\ [Living]_storeVars
    <2>1. \A h \in Handlers : Owns(handler[h])'
        BY <1>4, <1>7, OwnsKept DEF Owns
    <2> QED
        BY <1>2, <1>3, <1>4, <1>7, <2>1 DEF ConsoleInv
<1> QED
    BY <1>5, <1>6, <1>7 DEF ConsoleNext, Elsewhere, Living, vars

LEMMA ConsoleInvariant == ConsoleSpec => []ConsoleInv
    BY ConsoleInitInv, ConsoleStep, PTL DEF ConsoleSpec

-----------------------------------------------------------------------------
(* Theorems.                                                                *)

\* Handlers and store keep their types, at every step of every handler: a
\* record that is merged and written back is a whole record.
THEOREM ConsoleTypeCorrect == ConsoleSpec => []ConsoleTypeOK
<1>1. ConsoleInv => ConsoleTypeOK
    BY TypedIsTypeOK DEF ConsoleInv, ConsoleTypeOK
<1> QED
    BY <1>1, ConsoleInvariant, PTL

\* The handlers use the store only through its methods: every behaviour of
\* the console is one of the store with an arbitrary caller.
THEOREM ConsoleImplementsStore == ConsoleSpec => StoreSpec
<1>1. ConsoleInit => Init
    BY DEF ConsoleInit
<1> QED
    BY <1>1, ConsoleInvariant, ConsoleIsStoreStep, PTL DEF ConsoleSpec, StoreSpec

\* Only a step of its own moves a handler on.
LEMMA UserHandles ==
    ASSUME ConsoleInv, [ConsoleNext]_vars, NEW h \in Handlers, UserStep(h)
    PROVE  Handle(h)
<1>1. ASSUME NEW g \in Handlers, Handle(g), g # h
      PROVE  handler'[h] = handler[h]
    BY <1>1, HandleGood DEF Good, ConsoleInv
<1>2. CASE Die
    BY <1>2 DEF Die, UserStep, ConsoleInv, Request
<1>3. CASE UNCHANGED handler
    BY <1>3 DEF UserStep
<1> QED
    BY <1>1, <1>2, <1>3 DEF ConsoleNext, Elsewhere, UserStep, vars

\* What a step can be that is made for a user's session.
UserChange(h) ==
    LET r == handler[h] IN
    \/ UNCHANGED <<users, accessKeys, upstreamKeys, sessions>>
    \/ /\ r.pc = "expire"
       /\ UNCHANGED <<users, accessKeys, upstreamKeys>>
    \/ /\ r.user \in UserIDs
       /\ \E k \in KeyIDs : \E enc, models, on, limit :
             CreateUpstreamKey(r.user, k, enc, models, on, limit)
    \/ /\ r.pc \in OwnPC
       /\ \/ DeleteUpstreamKey(r.key)
          \/ \E enc, models, on, limit :
                ReplaceUpstreamKey(r.key, enc, models, on, limit)

LEMMA UserChanges ==
    ASSUME ConsoleInv, NEW h \in Handlers, Handle(h), handler[h].role = "user"
    PROVE  UserChange(h)
<1> DEFINE r == handler[h]
<1>1. r.pc \notin TargetPC /\ r.pc \notin {"idle", "newSession"} /\ ~ByAdmin(h)
    BY DEF ConsoleInv, Local, ByAdmin
<1>2. ASSUME UNCHANGED storeVars
      PROVE  UNCHANGED <<users, accessKeys, upstreamKeys, sessions>>
    BY <1>2 DEF storeVars, registry
<1>3. CASE Sessions(h)
    <2>1. Expire(h)
        BY <1>1, <1>3 DEF Sessions, LoginAdmin, NewSession, Authenticate,
                          LoginUser, Arriving, At
    <2> QED
        BY <1>2, <2>1 DEF Expire, At, DeleteSession, UserChange
<1>4. CASE HandleUsers(h)
    BY <1>1, <1>4 DEF HandleUsers, AddUser, RemoveUser, ReadQuota, Enable,
                      ResetPassword, CreateAccessKey, DeleteAccessKey, SetQuota,
                      AddFirstKey, MergeQuota, ViewUser, At, TargetPC
<1>5. CASE HandleKeys(h)
    <2>1. ASSUME NEW id \in UserIDs, NEW k \in KeyIDs, NEW c, NEW ms, NEW on,
                 NEW l, CreateKey(h, id, k, c, ms, on, l)
          PROVE  UserChange(h)
        <3>1. CASE CreateUpstreamKey(id, k, c, ms, on, l)
            <4>1. id = r.user
                BY <1>1, <2>1 DEF CreateKey, For
            <4> QED
                BY <3>1, <4>1 DEF UserChange
        <3>2. CASE UNCHANGED storeVars
            BY <1>2, <3>2 DEF UserChange
        <3> QED
            BY <2>1, <3>1, <3>2 DEF CreateKey, Reject
    <2>2. ASSUME NEW k, NEW next, ReadKey(h, k, next) \/ ViewKey(h)
          PROVE  UserChange(h)
        BY <1>2, <2>2 DEF ReadKey, ViewKey, Reject, UserChange
    <2>3. ASSUME NEW k, AdminDeleteKey(h, k)
          PROVE  UserChange(h)
        BY <1>1, <2>3 DEF AdminDeleteKey
    <2>4. ASSUME NEW c, NEW ms, NEW on, NEW l, ReplaceKey(h, c, ms, on, l)
          PROVE  UserChange(h)
        <3>1. CASE UNCHANGED storeVars
            BY <1>2, <3>1 DEF UserChange
        <3>2. CASE ~UNCHANGED storeVars
            <4>1. r.pc \in OwnPC
                BY <2>4 DEF ReplaceKey, At, OwnPC
            <4>2. PICK enc, models, on2, limit :
                        ReplaceUpstreamKey(r.key, enc, models, on2, limit)
                BY <2>4, <3>2 DEF ReplaceKey, Reject
            <4> QED
                BY <4>1, <4>2 DEF UserChange
        <3> QED
            BY <3>1, <3>2
    <2>5. CASE UserDeleteKey(h)
        BY <1>2, <2>5 DEF UserDeleteKey, At, Reject, UserChange, OwnPC
    <2> QED
        BY <1>5, <2>1, <2>2, <2>3, <2>4, <2>5 DEF HandleKeys
<1>6. CASE Answers(h)
    BY <1>6 DEF Answers, ListUsers, KeyPool, ListKeys, Usage, CountUser,
                CountKey, UserCounters,
                KeyHourCounter, registry, storeVars, UserChange
<1> QED
    BY <1>3, <1>4, <1>5, <1>6 DEF Handle

\* A user's session changes nothing of the registry but its user's own keys,
\* whatever other handlers do between the check of the owner and the change.
THEOREM ConsoleUserConfined == ConsoleSpec => UserConfined
<1> DEFINE Confined(h) ==
        /\ UNCHANGED <<users, accessKeys>>
        /\ At(h, "expire") \/ UNCHANGED sessions
        /\ \A k \in KeyIDs :
              \/ upstreamKeys'[k] = upstreamKeys[k]
              \/ \A r \in {upstreamKeys[k], upstreamKeys'[k]} \ {Nil} :
                    r.user = handler[h].user
<1>1. ASSUME ConsoleInv, [ConsoleNext]_vars, NEW h \in Handlers, UserStep(h)
      PROVE  Confined(h)
    <2> DEFINE r == handler[h]
    <2>0. upstreamKeys \in [KeyIDs -> UpstreamKey \cup {Nil}]
        BY <1>1 DEF ConsoleInv, Typed, TypedRegistry
    <2>1. UserChange(h)
        BY <1>1, UserHandles, UserChanges DEF UserStep
    <2>2. CASE UNCHANGED <<users, accessKeys, upstreamKeys>>
        BY <2>1, <2>2 DEF UserChange, At, CreateUpstreamKey, DeleteUpstreamKey,
                          ReplaceUpstreamKey
    <2>3. ASSUME NEW k \in KeyIDs, NEW enc, NEW models, NEW on, NEW limit,
                 CreateUpstreamKey(r.user, k, enc, models, on, limit)
          PROVE  Confined(h)
        <3>1. upstreamKeys[k] = Nil
            BY <1>1, <2>3 DEF CreateUpstreamKey, Draw, ConsoleInv, KeysIssued,
                              Present, Typed, TypedRegistry
        <3> QED
            BY <2>0, <2>3, <3>1 DEF CreateUpstreamKey
    <2>4. CASE r.pc \in OwnPC
        <3>1. /\ r.key \in KeyIDs
              /\ upstreamKeys[r.key] # Nil => upstreamKeys[r.key].user = r.user
            BY <1>1, <2>0, <2>4
               DEF ConsoleInv, Local, Owns, UserStep, Present
        <3>2. ASSUME DeleteUpstreamKey(r.key)
              PROVE  Confined(h)
            BY <2>0, <3>1, <3>2 DEF DeleteUpstreamKey
        <3>3. ASSUME NEW enc, NEW models, NEW on, NEW limit,
                     ReplaceUpstreamKey(r.key, enc, models, on, limit)
              PROVE  Confined(h)
            BY <2>0, <3>1, <3>3 DEF ReplaceUpstreamKey
        <3> QED
            BY <2>1, <2>2, <2>3, <2>4, <3>2, <3>3 DEF UserChange
    <2> QED
        BY <2>1, <2>2, <2>3, <2>4 DEF UserChange
<1>2. ConsoleInv /\ [ConsoleNext]_vars =>
          [\A h \in Handlers : UserStep(h) => Confined(h)]_vars
    BY <1>1
<1> QED
    BY <1>2, ConsoleInvariant, PTL DEF ConsoleSpec, UserConfined

\* With the session of a user that is gone no key can be made or changed:
\* its own keys went with it, and new ones need a user that exists.
THEOREM ConsoleGoneUserInert == ConsoleSpec => GoneUserInert
<1> DEFINE Inert(h) == users[handler[h].user] # Nil \/ UNCHANGED upstreamKeys
<1>1. ASSUME ConsoleInv, NoDangling, [ConsoleNext]_vars, NEW h \in Handlers,
             UserStep(h)
      PROVE  Inert(h)
    <2> DEFINE r == handler[h]
    <2>1. UserChange(h)
        BY <1>1, UserHandles, UserChanges DEF UserStep
    <2>2. ASSUME NEW k, NEW enc, NEW models, NEW on, NEW limit,
                 CreateUpstreamKey(r.user, k, enc, models, on, limit)
          PROVE  Inert(h)
        BY <2>2 DEF CreateUpstreamKey
    <2>3. CASE r.pc \in OwnPC
        <3>1. CASE r.key \in Present(upstreamKeys)
            <4>1. upstreamKeys[r.key].user = r.user
                BY <1>1, <2>3, <3>1 DEF ConsoleInv, Owns, UserStep
            <4>2. users[upstreamKeys[r.key].user] # Nil
                BY <1>1, <3>1 DEF NoDangling, Attached, Memory, Present,
                                  ConsoleInv, Typed, TypedRegistry
            <4> QED
                BY <4>1, <4>2
        <3>2. CASE r.key \notin Present(upstreamKeys)
            <4>1. r.key \in KeyIDs
                BY <1>1, <2>3 DEF ConsoleInv, Local
            <4>2. upstreamKeys[r.key] = Nil
                BY <1>1, <3>2, <4>1 DEF Present, ConsoleInv, Typed, TypedRegistry
            <4> QED
                BY <2>1, <2>2, <2>3, <4>2 DEF UserChange, DeleteUpstreamKey,
                                              ReplaceUpstreamKey
        <3> QED
            BY <3>1, <3>2
    <2> QED
        BY <2>1, <2>2, <2>3 DEF UserChange
<1>2. ConsoleInv /\ NoDangling /\ [ConsoleNext]_vars =>
          [\A h \in Handlers : UserStep(h) => Inert(h)]_vars
    BY <1>1
<1> QED
    BY <1>2, ConsoleInvariant, ConsoleImplementsStore, StoreNoDangling, PTL
       DEF ConsoleSpec, GoneUserInert

-----------------------------------------------------------------------------
(* IDs of users are never drawn twice, so a user that is there is not made  *)
(* again, and only SetUserEnabled changes whether it is enabled.            *)

LEMMA IssuedStep ==
    ConsoleInv /\ UsersIssued /\ [ConsoleNext]_vars => UsersIssued'
<1> SUFFICES ASSUME ConsoleInv, UsersIssued, [ConsoleNext]_vars
             PROVE  UsersIssued'
    OBVIOUS
<1>1. CASE UNCHANGED storeVars
    BY <1>1 DEF storeVars, registry, saving, UsersIssued, Present
<1>2. CASE StoreNext
    BY <1>2, UsersIssuedStep DEF ConsoleInv
<1> QED
    BY <1>1, <1>2, ConsoleIsStoreStep

LEMMA OnlyEnable ==
    ASSUME ConsoleInv, UsersIssued, NEW h \in Handlers, Handle(h),
           NEW u \in UserIDs, users[u] # Nil, users'[u] # Nil,
           users'[u].enabled # users[u].enabled
    PROVE  ByAdmin(h) /\ handler'[h].pc = "viewUser"
<1>0. users \in [UserIDs -> User \cup {Nil}] /\ users[u] \in User
    BY DEF ConsoleInv, Typed, TypedRegistry
<1>1. ~UNCHANGED users
    OBVIOUS
<1>2. ASSUME NEW id \in UserIDs, NEW n, NEW p, NEW on, CreateUser(id, n, p, on)
      PROVE  FALSE
    BY <1>0, <1>2 DEF CreateUser, Draw, UsersIssued, Present
<1>3. ASSUME NEW id \in UserIDs, DeleteUser(id)
      PROVE  FALSE
    BY <1>0, <1>3 DEF DeleteUser
<1>4. ASSUME NEW id \in UserIDs, NEW a, NEW b,
             UpdateUserQuota(id, a, b) \/ UpdateUserPassword(id, a)
      PROVE  FALSE
    BY <1>0, <1>4 DEF UpdateUserQuota, UpdateUserPassword, SetUser, User
<1>5. ASSUME UNCHANGED storeVars \/ UNCHANGED registry
      PROVE  FALSE
    BY <1>1, <1>5 DEF storeVars, registry
<1>6. ~Sessions(h)
    BY <1>1, <1>5 DEF Sessions, LoginAdmin, NewSession, Authenticate, LoginUser,
                      Expire, PutSession, DeleteSession
<1>7. ~HandleKeys(h)
    <2>1. ASSUME NEW id, NEW k, NEW c, NEW ms, NEW on, NEW l,
                 \/ CreateUpstreamKey(id, k, c, ms, on, l)
                 \/ ReplaceUpstreamKey(k, c, ms, on, l)
                 \/ DeleteUpstreamKey(k)
          PROVE  FALSE
        BY <1>1, <2>1 DEF CreateUpstreamKey, ReplaceUpstreamKey,
                          DeleteUpstreamKey
    <2>2. ASSUME NEW id, NEW k, NEW c, NEW ms, NEW on, NEW l,
                 \/ CreateKey(h, id, k, c, ms, on, l)
                 \/ ReplaceKey(h, c, ms, on, l)
          PROVE  FALSE
        BY <1>5, <2>1, <2>2 DEF CreateKey, ReplaceKey, Reject
    <2>3. ASSUME NEW k, NEW next, \/ ReadKey(h, k, next) \/ ViewKey(h)
                                 \/ AdminDeleteKey(h, k) \/ UserDeleteKey(h)
          PROVE  FALSE
        BY <1>5, <2>1, <2>3 DEF ReadKey, ViewKey, AdminDeleteKey,
                                UserDeleteKey, Reject
    <2> QED
        BY <2>2, <2>3 DEF HandleKeys
<1>8. ~Answers(h)
    BY <1>5 DEF Answers, ListUsers, KeyPool, ListKeys, Usage, CountUser, CountKey,
                UserCounters, KeyHourCounter
<1>9. handler[h].pc \in TargetPC => handler[h].target \in UserIDs
    BY DEF ConsoleInv, Local
<1>10. PICK id \in UserIDs, on \in BOOLEAN : Enable(h, id, on)
    <2>1. ASSUME NEW hl, NEW dl, SetQuota(h, hl, dl) \/ MergeQuota(h, hl, dl)
          PROVE  FALSE
        BY <1>4, <1>5, <1>9, <2>1 DEF SetQuota, MergeQuota, At, TargetPC, Reject
    <2>2. ASSUME NEW id \in UserIDs, NEW a,
                 \/ ResetPassword(h, id, a)
                 \/ CreateAccessKey(h, id, a) \/ DeleteAccessKey(h, id, a)
          PROVE  FALSE
        BY <1>1, <1>4, <1>5, <2>2 DEF ResetPassword, CreateAccessKey,
            DeleteAccessKey, AddAccessKey, RemoveAccessKey, Reject
    <2>3. ASSUME NEW a, AddFirstKey(h, a)
          PROVE  FALSE
        BY <1>1, <1>5, <2>3 DEF AddFirstKey, AddAccessKey
    <2>4. ASSUME NEW id \in UserIDs, NEW n, NEW p, NEW on,
                 AddUser(h, id, n, p, on)
          PROVE  FALSE
        BY <1>2, <1>5, <2>4 DEF AddUser, Reject
    <2>5. ASSUME NEW id \in UserIDs, RemoveUser(h, id) \/ ReadQuota(h, id)
          PROVE  FALSE
        BY <1>3, <1>5, <2>5 DEF RemoveUser, ReadQuota, Reject
    <2>6. ~ViewUser(h)
        BY <1>5 DEF ViewUser
    <2> QED
        BY <1>6, <1>7, <1>8, <2>1, <2>2, <2>3, <2>4, <2>5, <2>6
           DEF Handle, HandleUsers
<1>11. Becomes(h, [handler[h] EXCEPT !.pc = "viewUser", !.target = id])
    BY <1>5, <1>10 DEF Enable, Reject
<1> QED
    BY <1>10, <1>11 DEF Enable, Becomes, ConsoleInv, Request

\* A user that was disabled stays so until an administrator enables it: a
\* change of its quota writes two numbers back, whatever it has read before.
THEOREM ConsoleQuotaKeepsDisabled == ConsoleSpec => QuotaKeepsDisabled
<1> DEFINE Switched(u) == /\ users[u] # Nil /\ users'[u] # Nil
                          /\ users'[u].enabled # users[u].enabled
           Meant == \/ Restart
                    \/ \E h \in Handlers : ByAdmin(h) /\ handler'[h].pc = "viewUser"
<1>1. ASSUME ConsoleInv, UsersIssued, [ConsoleNext]_vars,
             NEW u \in UserIDs, Switched(u)
      PROVE  Meant
    <2>1. CASE UNCHANGED users
        BY <1>1, <2>1
    <2>2. CASE Elsewhere \/ UNCHANGED vars
        BY <2>1, <2>2 DEF Elsewhere, Background, TimerFires, TimerFlush,
            FinalFlush, StopSignal, Tick, vars, storeVars, registry
    <2>3. CASE Die
        BY <2>3 DEF Die
    <2>4. ASSUME NEW h \in Handlers, Handle(h)
          PROVE  Meant
        BY <1>1, <2>4, OnlyEnable
    <2> QED
        BY <1>1, <2>2, <2>3, <2>4 DEF ConsoleNext
<1>2. ConsoleInv /\ UsersIssued /\ [ConsoleNext]_vars =>
          [\A u \in UserIDs : Switched(u) => Meant]_vars
    BY <1>1
<1> QED
    BY <1>2, UsersIssuedInit, IssuedStep, ConsoleInvariant, PTL
       DEF ConsoleSpec, ConsoleInit, QuotaKeepsDisabled

-----------------------------------------------------------------------------
(* What a deletion leaves of the counters.                                  *)

\* A deletion empties the counters it removes, and a view that reads one
\* afterwards rolls an empty counter over.  The file is part of the
\* invariant, which a restart brings back.
TidyInv == ConsoleInv /\ UsersIssued /\ Tidy(Memory) /\ Tidy(disk)

LEMMA TidyMemory ==
    Tidy(Memory) <=>
        /\ \A u \in UserIDs : users[u] = Nil =>
              counters[u].hour.value = 0 /\ counters[u].day.value = 0
        /\ \A k \in KeyIDs : upstreamKeys[k] = Nil => keyHours[k].value = 0
    BY DEF Tidy, Memory

LEMMA ManagingTidy ==
    ASSUME Typed, KeysIssued, UsersIssued, Tidy(Memory), Managing
    PROVE  Tidy(Memory)'
<1>1. /\ \A u \in UserIDs : UserKept(u)
      /\ \A k \in KeyIDs : KeyHourKept(k)
    BY ManagingKeeps
<1>2. \A c, t : c.value = 0 => ensureWindow(c, t).value = 0
    BY DEF ensureWindow
<1>3. ZeroUser.hour.value = 0 /\ ZeroUser.day.value = 0 /\ ZeroCounter.value = 0
    BY DEF ZeroUser, ZeroCounter
<1>4. ASSUME NEW u \in UserIDs, users'[u] = Nil
      PROVE  counters'[u].hour.value = 0 /\ counters'[u].day.value = 0
    <2>1. CASE counters'[u] = ZeroUser
        BY <1>3, <2>1
    <2>2. CASE users[u] = Nil
        <3>1. counters[u].hour.value = 0 /\ counters[u].day.value = 0
            BY <2>2, TidyMemory
        <3>2. /\ countersAt(u, clock).hour.value = 0
              /\ countersAt(u, clock).day.value = 0
            BY <1>2, <3>1 DEF countersAt
        <3> QED
            BY <1>1, <1>3, <3>1, <3>2 DEF UserKept
    <2> QED
        BY <1>4, <2>1, <2>2, OnlyDeletion
<1>5. ASSUME NEW k \in KeyIDs, upstreamKeys'[k] = Nil
      PROVE  keyHours'[k].value = 0
    <2>1. CASE keyHours'[k] = ZeroCounter
        BY <1>3, <2>1
    <2>2. CASE upstreamKeys[k] = Nil
        <3>1. keyHours[k].value = 0 /\ keyHourAt(k).value = 0
            BY <1>2, <2>2, TidyMemory DEF keyHourAt
        <3> QED
            BY <1>1, <1>3, <3>1 DEF KeyHourKept
    <2> QED
        BY <1>5, <2>1, <2>2, OnlyDeletion
<1> QED
    BY <1>4, <1>5 DEF Tidy, Memory

LEMMA TidyStep == TidyInv /\ [ConsoleNext]_vars => TidyInv'
<1> SUFFICES ASSUME TidyInv, [ConsoleNext]_vars PROVE TidyInv'
    OBVIOUS
<1>1. /\ ConsoleInv /\ UsersIssued /\ Typed /\ KeysIssued
      /\ Tidy(Memory) /\ Tidy(disk)
    BY DEF TidyInv, ConsoleInv
<1>2. ConsoleInv' /\ UsersIssued' /\ [StoreNext]_storeVars
    BY <1>1, ConsoleStep, IssuedStep, ConsoleIsStoreStep
<1>3. Tidy(disk)'
    <2>1. disk' = disk \/ disk' = Memory
        BY <1>2, DiskStep DEF storeVars, saving
    <2> QED
        BY <1>1, <2>1 DEF Tidy
<1>4. Tidy(Memory)'
    <2>1. CASE Managing
        BY <1>1, <2>1, ManagingTidy
    <2>2. CASE UNCHANGED storeVars \/ Tick
        BY <1>1, <2>2 DEF Tick, storeVars, registry, ledger, Tidy, Memory
    <2>3. CASE Die
        BY <1>1, <2>3 DEF Die, Restart, Load, Tidy, Memory
    <2>4. ASSUME NEW h \in Handlers, Handle(h)
          PROVE  Managing \/ UNCHANGED storeVars
        BY <1>1, <2>4, HandleStore
    <2> QED
        BY <2>1, <2>2, <2>3, <2>4 DEF ConsoleNext, Elsewhere, Managing, vars
<1> QED
    BY <1>2, <1>3, <1>4 DEF TidyInv

\* A view that was begun before a user or a key was deleted brings none of its
\* tokens back, however long it waits, and neither does a restart: when the
\* first file held none, a user or a key that is gone never has any.
THEOREM ConsoleDeletedLeavesNoTokens ==
    ASSUME FirstTidy PROVE ConsoleSpec => []DeletedLeavesNoTokens
<1>1. ConsoleInit => TidyInv
    <2> SUFFICES ASSUME ConsoleInit PROVE TidyInv
        OBVIOUS
    <2>1. /\ disk \in InitialDisks \cup {freshState}
          /\ users = disk.users /\ upstreamKeys = disk.upstreamKeys
          /\ counters = disk.counters /\ keyHours = disk.keyHours
        BY DEF ConsoleInit, Init
    <2>2. Tidy(freshState)
        BY DEF Tidy, freshState, ZeroUser, ZeroCounter
    <2>3. Tidy(disk) /\ Tidy(Memory)
        BY <2>1, <2>2 DEF FirstTidy, Tidy, Memory
    <2> QED
        BY <2>3, ConsoleInitInv, UsersIssuedInit DEF ConsoleInit, TidyInv
<1>2. TidyInv => DeletedLeavesNoTokens
    BY DEF TidyInv, DeletedLeavesNoTokens
<1> QED
    BY <1>1, <1>2, TidyStep, PTL DEF ConsoleSpec
=============================================================================
