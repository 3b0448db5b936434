-------------------------- MODULE DashboardProofs ---------------------------
(***************************************************************************)
(* Proofs about MCDashboard: what requests keep, however many of them      *)
(* interleave statement by statement: sessions and administrators          *)
(* (AdminAccounts), the bound on guesses at a password (LoginLimiter) and  *)
(* the log (LogQueue).                                                     *)
(***************************************************************************)
EXTENDS MCDashboard, SequenceTheorems, FiniteSetTheorems, WellFoundedInduction, TLAPS

-----------------------------------------------------------------------------
(* A request that is to end in a session knows whose, and one that is to   *)
(* insert an account has its name.                                         *)
SignsIn(r) == request[r].step \in {"login", "password", "recovery"}

Known ==
  \A r \in Requests :
    /\ request[r].step \in {"setup", "create"} => request[r].name \in Names
    /\ SignsIn(r) => request[r].id \in Ids /\ request[r].name \in Names

TInv == AccountsTypeOK /\ Known

LEMMA AdminsAreFinite == IsFiniteSet(Admins) /\ Cardinality(Admins) \in Nat
<1>1. IsFiniteSet(Ids)
  BY FS_Interval, AccountsAssumption DEF Ids
<1>2. Admins \in SUBSET Ids
  BY DEF Admins
<1> QED
  BY <1>1, <1>2, FS_Subset, FS_CardinalityType

LEMMA IdleTypes == Idle \in RequestSet /\ Idle.step = "idle"
  BY AccountsAssumption DEF Idle, RequestSet

LEMMA InitKnown == AccountsInit => TInv
<1> SUFFICES ASSUME AccountsInit
             PROVE  TInv
  OBVIOUS
<1>1. user \in [Ids -> UserSet \cup {NoUser}] /\ nextId \in 1 .. MaxId + 1
  BY AccountsAssumption DEF AccountsInit
<1>2. \A r \in Requests : request[r] = Idle
  BY DEF AccountsInit
<1>3. request \in [Requests -> RequestSet] /\ Known
  BY <1>2, IdleTypes DEF AccountsInit, Known, SignsIn
<1> QED
  BY <1>1, <1>3 DEF AccountsInit, TInv, AccountsTypeOK

(* One request goes on; what it holds is of its type.                      *)
LEMMA GoesOn ==
  ASSUME TInv, NEW r \in Requests, NEW q \in RequestSet,
         request' = [request EXCEPT ![r] = q],
         q.step \in {"setup", "create"} => q.name \in Names,
         q.step \in {"login", "password", "recovery"} => q.id \in Ids /\ q.name \in Names
  PROVE  request' \in [Requests -> RequestSet] /\ Known'
<1>1. request' \in [Requests -> RequestSet]
  BY DEF TInv, AccountsTypeOK
<1>2. request'[r] = q /\ \A p \in Requests \ {r} : request'[p] = request[p]
  BY DEF TInv, AccountsTypeOK
<1>3. ASSUME NEW p \in Requests
      PROVE  /\ request'[p].step \in {"setup", "create"} => request'[p].name \in Names
             /\ request'[p].step \in {"login", "password", "recovery"} =>
                  request'[p].id \in Ids /\ request'[p].name \in Names
  BY <1>2 DEF TInv, Known, SignsIn
<1> QED
  BY <1>1, <1>3 DEF Known, SignsIn

LEMMA RequestTyped ==
  ASSUME TInv, NEW r \in Requests
  PROVE  request[r] \in RequestSet
  BY DEF TInv, AccountsTypeOK

LEMMA UserTyped ==
  ASSUME TInv, NEW id \in Ids, Exists(id)
  PROVE  user[id] \in UserSet /\ user[id].name \in Names /\ user[id].password \in Nat
  BY DEF TInv, AccountsTypeOK, Exists, UserSet

(* Steps of a request that touch nothing but the request: it is admitted,  *)
(* refused, or reads the role of the account that it names.                *)
Prepares(r) ==
  \/ \E n \in Names : RecoverPassword(r, n)
  \/ \E id \in Ids : UpdatePassword(r, id) \/ SetRecoveryQuestion(r, id)
  \/ \E admin, id \in Ids, both \in BOOLEAN : ResetUser(r, admin, id, both)
  \/ \E admin, id \in Ids : ResetUserRecovery(r, admin, id) \/ DeleteBegin(r, admin, id)
  \/ \E admin \in Ids, n \in Names : CreateUser(r, admin, n)
  \/ Refuse(r)
  \/ ReadRole(r)

(* What a request is after such a step.                                    *)
Prepared ==
  {q \in RequestSet :
     /\ q.step \in {"idle", "ownPassword", "ownQuestion", "resetRole", "clearRole", "reset",
                    "clear", "create", "count"}
     /\ q.step = "create" => q.name \in Names}

LEMMA NewRequests ==
  ASSUME NEW id \in Ids, NEW n \in Names, NEW both \in BOOLEAN,
         NEW s \in {"ownPassword", "ownQuestion", "resetRole", "clearRole", "reset", "count"}
  PROVE  /\ [Idle EXCEPT !.step = s, !.own = id, !.name = n] \in Prepared
         /\ [Idle EXCEPT !.step = s, !.id = id] \in Prepared
         /\ [Idle EXCEPT !.step = s, !.id = id, !.also = both] \in Prepared
         /\ [Idle EXCEPT !.step = "create", !.name = n] \in Prepared
<1>1. id \in 0 .. MaxId
  BY AccountsAssumption DEF Ids
<1> QED
  BY <1>1, IdleTypes DEF Prepared, RequestSet, Idle

LEMMA OnlyPrepares ==
  ASSUME TInv, NEW r \in Requests, Prepares(r)
  PROVE  /\ \E q \in Prepared : request' = [request EXCEPT ![r] = q]
         /\ UNCHANGED <<user, nextId, sessions, overlapped>>
         /\ request[r].step # "signOut"
         /\ request[r].step \in {"idle", "setup"} => \E id \in Ids : Exists(id)
<1> DEFINE Goal == /\ \E q \in Prepared : request' = [request EXCEPT ![r] = q]
                   /\ UNCHANGED <<user, nextId, sessions, overlapped>>
                   /\ request[r].step # "signOut"
                   /\ request[r].step \in {"idle", "setup"} => \E id \in Ids : Exists(id)
<1>1. ASSUME NEW n \in Names, RecoverPassword(r, n)
      PROVE  Goal
  <2>1. PICK id \in Ids : /\ Exists(id)
                          /\ request' = [request EXCEPT ![r] = [Idle EXCEPT !.step = "reset", !.id = id]]
    BY <1>1 DEF RecoverPassword, Named
  <2>2. [Idle EXCEPT !.step = "reset", !.id = id] \in Prepared
    BY <1>1, NewRequests
  <2> QED
    BY <1>1, <2>1, <2>2 DEF RecoverPassword
<1>2. ASSUME NEW id \in Ids, UpdatePassword(r, id) \/ SetRecoveryQuestion(r, id)
      PROVE  Goal
  <2>1. PICK s \in {"ownPassword", "ownQuestion"} : OwnChange(r, id, s)
    BY <1>2 DEF UpdatePassword, SetRecoveryQuestion
  <2>2. Exists(id) /\ user[id].name \in Names
    BY <2>1, UserTyped DEF OwnChange, SignedIn
  <2>3. [Idle EXCEPT !.step = s, !.own = id, !.name = user[id].name] \in Prepared
    BY <2>2, NewRequests
  <2> QED
    BY <2>1, <2>2, <2>3 DEF OwnChange, Admit
<1>3. ASSUME NEW admin \in Ids, NEW id \in Ids, NEW both \in BOOLEAN,
             \/ ResetUser(r, admin, id, both)
             \/ ResetUserRecovery(r, admin, id)
             \/ DeleteBegin(r, admin, id)
      PROVE  Goal
  <2>1. PICK s \in {"resetRole", "clearRole", "count"} :
          \/ Admit(r, [Idle EXCEPT !.step = s, !.id = id])
          \/ Admit(r, [Idle EXCEPT !.step = s, !.id = id, !.also = both])
    BY <1>3 DEF ResetUser, ResetUserRecovery, DeleteBegin
  <2>2. Exists(admin)
    BY <1>3 DEF ResetUser, ResetUserRecovery, DeleteBegin, Authorised, SignedIn
  <2>3. ASSUME NEW n \in Names
        PROVE  /\ [Idle EXCEPT !.step = s, !.id = id] \in Prepared
               /\ [Idle EXCEPT !.step = s, !.id = id, !.also = both] \in Prepared
    BY NewRequests
  <2>4. user[admin].name \in Names
    BY <2>2, UserTyped
  <2> QED
    BY <2>1, <2>2, <2>3, <2>4 DEF Admit
<1>4. ASSUME NEW admin \in Ids, NEW n \in Names, CreateUser(r, admin, n)
      PROVE  Goal
  <2>1. [Idle EXCEPT !.step = "create", !.name = n] \in Prepared
    BY IdleTypes DEF Prepared, RequestSet, Idle
  <2> QED
    BY <1>4, <2>1 DEF CreateUser, Authorised, SignedIn, Admit
<1>5. Idle \in Prepared
  BY IdleTypes DEF Prepared
<1>6. CASE Refuse(r)
  BY <1>5, <1>6 DEF Refuse, Done
<1>7. CASE ReadRole(r)
  <2>1. \A s \in {"reset", "clear"} : [request[r] EXCEPT !.step = s] \in Prepared
    BY RequestTyped DEF Prepared, RequestSet
  <2>2. \/ \E s \in {"reset", "clear"} : request' = [request EXCEPT ![r] = [request[r] EXCEPT !.step = s]]
        \/ request' = [request EXCEPT ![r] = Idle]
    BY <1>7, RequestTyped DEF ReadRole, Goto, Done, TInv, AccountsTypeOK, RequestSet
  <2> QED
    BY <1>5, <1>7, <2>1, <2>2 DEF ReadRole
<1> QED
  BY <1>1, <1>2, <1>3, <1>4, <1>6, <1>7 DEF Prepares

LEMMA Finishes ==
  ASSUME TInv, NEW r \in Requests, Done(r)
  PROVE  request' \in [Requests -> RequestSet] /\ Known'
  BY GoesOn, IdleTypes DEF Done

(* A change of a field of one's own, or of the recovery question.          *)
LEMMA FieldChanges ==
  ASSUME TInv, NEW r \in Requests, ChangePassword(r) \/ StoreQuestion(r) \/ ClearRecovery(r),
         NEW id \in Ids
  PROVE  \/ user'[id] = user[id]
         \/ /\ Exists(id) /\ user'[id].name = user[id].name /\ user'[id].role = user[id].role
            /\ user'[id].reset = user[id].reset /\ user'[id].password >= user[id].password
<1>1. PICK i \in {request[r].own, request[r].id} :
        \/ user' = user
        \/ Exists(i) /\ user' = [user EXCEPT ![i].password = @ + 1]
        \/ Exists(i) /\ user' = [user EXCEPT ![i].recovery = TRUE]
        \/ Exists(i) /\ user' = [user EXCEPT ![i].recovery = FALSE]
  BY DEF ChangePassword, StoreQuestion, ClearRecovery
<1>2. user \in [Ids -> UserSet \cup {NoUser}]
  BY DEF TInv, AccountsTypeOK
<1>3. CASE id # i
  BY <1>1, <1>2, <1>3
<1>4. CASE id = i
  <2>1. user'[id] = user[id] \/ user[id] \in UserSet
    BY <1>1, <1>2, <1>4 DEF Exists
  <2>2. \/ user'[id] = user[id]
        \/ Exists(id) /\ user'[id] = [user[id] EXCEPT !.password = @ + 1]
        \/ Exists(id) /\ user'[id] = [user[id] EXCEPT !.recovery = TRUE]
        \/ Exists(id) /\ user'[id] = [user[id] EXCEPT !.recovery = FALSE]
    BY <1>1, <1>2, <1>4
  <2> QED
    BY <2>1, <2>2 DEF UserSet
<1> QED
  BY <1>3, <1>4

LEMMA NextKnown == TInv /\ [AccountsNext]_accountVars => TInv'
<1> SUFFICES ASSUME TInv, [AccountsNext]_accountVars
             PROVE  TInv'
  OBVIOUS
<1>1. ASSUME NEW r \in Requests, NEW n \in Names, SetupCheck(r, n)
      PROVE  TInv'
  <2>1. [request[r] EXCEPT !.step = "setup", !.name = n] \in RequestSet
    BY RequestTyped DEF RequestSet
  <2>2. request' = [request EXCEPT ![r] = [request[r] EXCEPT !.step = "setup", !.name = n]]
    BY <1>1, RequestTyped DEF SetupCheck, TInv, AccountsTypeOK, RequestSet
  <2>3. request' \in [Requests -> RequestSet] /\ Known'
    BY <2>1, <2>2, GoesOn, RequestTyped DEF RequestSet
  <2> QED
    BY <1>1, <2>3 DEF SetupCheck, TInv, AccountsTypeOK
<1>2. ASSUME NEW r \in Requests, Prepares(r)
      PROVE  TInv'
  <2>1. PICK q \in Prepared : request' = [request EXCEPT ![r] = q]
    BY <1>2, OnlyPrepares
  <2>2. UNCHANGED <<user, nextId, sessions, overlapped>>
    BY <1>2, OnlyPrepares
  <2>3. request' \in [Requests -> RequestSet] /\ Known'
    BY <2>1, GoesOn DEF Prepared
  <2> QED
    BY <2>2, <2>3 DEF TInv, AccountsTypeOK
<1>3. ASSUME NEW r \in Requests, NEW id \in Ids, NEW p \in 0 .. MaxPassword,
             NEW s \in {"login", "password", "recovery"}, Verify(r, id, p, s)
      PROVE  TInv'
  <2> DEFINE q == [Idle EXCEPT !.step = s, !.own = request[r].own,
                               !.id = id, !.name = user[id].name, !.password = p]
  <2>1. user[id].name \in Names /\ p \in Nat /\ request[r].own \in 0 .. MaxId
    BY <1>3, UserTyped, RequestTyped DEF Verify, RequestSet
  <2>2. q \in RequestSet /\ q.step = s /\ q.id \in Ids /\ q.name \in Names
    <3>1. id \in 0 .. MaxId
      BY AccountsAssumption DEF Ids
    <3> QED
      BY <2>1, <3>1, IdleTypes DEF RequestSet
  <2>3. request' = [request EXCEPT ![r] = q]
    BY <1>3 DEF Verify
  <2>4. request' \in [Requests -> RequestSet] /\ Known'
    BY <2>2, <2>3, GoesOn
  <2> QED
    BY <1>3, <2>4 DEF Verify, TInv, AccountsTypeOK
<1>4. ASSUME NEW r \in Requests, SetupInsert(r)
      PROVE  TInv'
  <2>1. request[r].name \in Names
    BY <1>4 DEF SetupInsert, TInv, Known
  <2>2. CASE Unused(request[r].name)
    <3> DEFINE q == [Idle EXCEPT !.step = "login", !.id = nextId, !.name = request[r].name]
    <3>1. nextId \in Ids /\ nextId' \in 1 .. MaxId + 1
      BY <1>4, <2>2, AccountsAssumption DEF SetupInsert, Insert, Unused, TInv, AccountsTypeOK, Ids
    <3>2. q \in RequestSet /\ q.id \in Ids /\ q.name \in Names /\ q.step = "login"
      <4>1. nextId \in 0 .. MaxId
        BY <3>1, AccountsAssumption DEF Ids
      <4> QED
        BY <2>1, <3>1, <4>1, IdleTypes DEF RequestSet
    <3>3. request' \in [Requests -> RequestSet] /\ Known'
      BY <1>4, <2>2, <3>2, GoesOn DEF SetupInsert
    <3>4. user' \in [Ids -> UserSet \cup {NoUser}]
      <4>1. [name |-> request[r].name, role |-> "admin", password |-> 0, recovery |-> FALSE,
             reset |-> 0] \in UserSet
        BY <2>1 DEF UserSet
      <4> QED
        BY <1>4, <2>2, <4>1 DEF SetupInsert, Insert, TInv, AccountsTypeOK
    <3> QED
      BY <1>4, <3>1, <3>3, <3>4 DEF SetupInsert, TInv, AccountsTypeOK
  <2>3. CASE ~ Unused(request[r].name)
    BY <1>4, <2>3, Finishes DEF SetupInsert, TInv, AccountsTypeOK
  <2> QED
    BY <2>2, <2>3
<1>5. ASSUME NEW r \in Requests, CreateSession(r)
      PROVE  TInv'
  <2>1. PICK q \in RequestSet : q = request[r] /\ q.id \in Ids /\ q.name \in Names
    BY <1>5, RequestTyped DEF CreateSession, TInv, Known, SignsIn
  <2>2. [id |-> q.id, name |-> q.name, password |-> q.password, late |-> q.late] \in SessionSet
    BY <2>1 DEF SessionSet, RequestSet
  <2>3. sessions' \in SUBSET SessionSet
    BY <1>5, <2>1, <2>2 DEF CreateSession, TInv, AccountsTypeOK
  <2>4. PICK p \in RequestSet : /\ request' = [request EXCEPT ![r] = p]
                                /\ p.step \in {"idle", "change", "question"}
    <3>1. \A t \in {"change", "question"} :
            [q EXCEPT !.step = t] \in RequestSet /\ [q EXCEPT !.step = t].step = t
      BY DEF RequestSet
    <3> QED
      BY <1>5, <2>1, <3>1, IdleTypes DEF CreateSession
  <2>5. request' \in [Requests -> RequestSet] /\ Known'
    BY <2>4, GoesOn
  <2> QED
    BY <1>5, <2>3, <2>5 DEF CreateSession, TInv, AccountsTypeOK
<1>6. ASSUME NEW r \in Requests, ChangePassword(r)
      PROVE  TInv'
  <2>1. user' \in [Ids -> UserSet \cup {NoUser}]
    <3>1. user' = user \/ user' = [user EXCEPT ![request[r].own].password = @ + 1]
      BY <1>6 DEF ChangePassword
    <3>2. CASE request[r].own \in Ids /\ Exists(request[r].own)
      BY <3>1, <3>2, UserTyped DEF TInv, AccountsTypeOK, UserSet
    <3>3. CASE request[r].own \notin Ids \/ ~ Exists(request[r].own)
      BY <1>6, <3>3 DEF ChangePassword, TInv, AccountsTypeOK
    <3> QED
      BY <3>2, <3>3
  <2> QED
    BY <1>6, <2>1, Finishes DEF ChangePassword, TInv, AccountsTypeOK
<1>7. ASSUME NEW r \in Requests, StoreQuestion(r)
      PROVE  TInv'
  BY <1>7, Finishes DEF StoreQuestion, TInv, AccountsTypeOK, UserSet, Exists
<1>8. ASSUME NEW s \in sessions, Logout(s)
      PROVE  TInv'
  BY <1>8 DEF Logout, TInv, AccountsTypeOK, Known, SignsIn
<1>10. ASSUME NEW r \in Requests, StorePassword(r)
       PROVE  TInv'
  <2>1. [request[r] EXCEPT !.step = "signOut"] \in RequestSet
    BY RequestTyped DEF RequestSet
  <2>2. request' = [request EXCEPT ![r] = [request[r] EXCEPT !.step = "signOut"]]
    BY <1>10, RequestTyped DEF StorePassword, Goto, TInv, AccountsTypeOK, RequestSet
  <2>3. request' \in [Requests -> RequestSet] /\ Known'
    BY <2>1, <2>2, GoesOn, RequestTyped DEF RequestSet
  <2>4. user' \in [Ids -> UserSet \cup {NoUser}]
    <3> DEFINE id == request[r].id
               u  == [user[id] EXCEPT !.password = user[id].password + 1,
                                      !.reset = user[id].password + 1]
    <3>1. user' = user \/ user' = [user EXCEPT ![id] = u]
      BY <1>10 DEF StorePassword
    <3>2. CASE id \in Ids /\ Exists(id)
      <4>1. u \in UserSet
        <5>1. user[id] \in UserSet
          BY <3>2, UserTyped
        <5>2. ASSUME NEW w \in UserSet, NEW p \in Nat
              PROVE  [w EXCEPT !.password = p, !.reset = p] \in UserSet
          BY DEF UserSet
        <5>3. user[id].password + 1 \in Nat
          BY <5>1 DEF UserSet
        <5> QED
          BY <5>1, <5>2, <5>3
      <4> QED
        BY <3>1, <4>1 DEF TInv, AccountsTypeOK
    <3>3. CASE id \notin Ids \/ ~ Exists(id)
      BY <1>10, <3>3 DEF StorePassword, TInv, AccountsTypeOK
    <3> QED
      BY <3>2, <3>3
  <2> QED
    BY <1>10, <2>3, <2>4 DEF StorePassword, TInv, AccountsTypeOK
<1>11. ASSUME NEW r \in Requests, DeleteSessions(r)
       PROVE  TInv'
  <2>1. request' \in [Requests -> RequestSet]
    <3>1. ASSUME NEW q \in Requests
          PROVE  [request[q] EXCEPT !.late = @ \/ request[q].id = request[r].id] \in RequestSet
      BY RequestTyped DEF RequestSet
    <3>2. [Idle EXCEPT !.step = "clear", !.id = request[r].id] \in RequestSet
      <4>1. request[r].id \in 0 .. MaxId
        BY RequestTyped DEF RequestSet
      <4> QED
        BY <4>1, IdleTypes DEF RequestSet
    <3> QED
      BY <1>11, <3>1, <3>2, IdleTypes DEF DeleteSessions
  <2>2. Known'
    <3>1. request'[r].step \in {"idle", "clear"}
      BY <1>11 DEF DeleteSessions, Idle
    <3>2. ASSUME NEW q \in Requests \ {r}
          PROVE  /\ request'[q].step = request[q].step /\ request'[q].id = request[q].id
                 /\ request'[q].name = request[q].name
      BY <1>11, RequestTyped DEF DeleteSessions, RequestSet
    <3> QED
      BY <3>1, <3>2 DEF TInv, Known, SignsIn
  <2> QED
    BY <1>11, <2>1, <2>2 DEF DeleteSessions, TInv, AccountsTypeOK
<1>12. ASSUME NEW r \in Requests, ClearRecovery(r)
       PROVE  TInv'
  BY <1>12, Finishes DEF ClearRecovery, TInv, AccountsTypeOK, UserSet, Exists
<1>14. ASSUME NEW r \in Requests, NEW role \in {"admin", "operator"}, InsertUser(r, role)
       PROVE  TInv'
  <2>1. request[r].name \in Names
    BY <1>14 DEF InsertUser, TInv, Known
  <2>2. user' \in [Ids -> UserSet \cup {NoUser}] /\ nextId' \in 1 .. MaxId + 1
    BY <1>14, <2>1, AccountsAssumption
    DEF InsertUser, Insert, Unused, TInv, AccountsTypeOK, Ids, UserSet
  <2> QED
    BY <1>14, <2>2, Finishes DEF InsertUser, TInv, AccountsTypeOK
<1>16. ASSUME NEW r \in Requests, CountAdmins(r)
       PROVE  TInv'
  <2> DEFINE q == [request[r] EXCEPT !.step = "delete", !.count = Cardinality(Admins)]
  <2>1. q \in RequestSet /\ q.step = "delete"
    BY RequestTyped, AdminsAreFinite DEF RequestSet
  <2>2. request' = [request EXCEPT ![r] = q]
    BY <1>16, RequestTyped DEF CountAdmins, TInv, AccountsTypeOK, RequestSet
  <2>3. request' \in [Requests -> RequestSet] /\ Known'
    BY <2>1, <2>2, GoesOn
  <2>4. overlapped' \in BOOLEAN
    BY <1>16 DEF CountAdmins, TInv, AccountsTypeOK
  <2> QED
    BY <1>16, <2>3, <2>4 DEF CountAdmins, TInv, AccountsTypeOK
<1>17. ASSUME NEW r \in Requests, DeleteUser(r)
       PROVE  TInv'
  BY <1>17, Finishes DEF DeleteUser, TInv, AccountsTypeOK
<1>18. CASE AccountsRestart
  <2>1. ASSUME NEW s \in sessions'
        PROVE  s \in SessionSet
    <3> DEFINE Caught(t) == \E r \in Requests : request[r].step = "signOut" /\ request[r].id = t.id
    <3>1. PICK t \in sessions : s = [t EXCEPT !.late = @ \/ Caught(t)]
      BY <1>18 DEF AccountsRestart
    <3>2. t \in SessionSet
      BY DEF TInv, AccountsTypeOK
    <3>3. Caught(t) \in BOOLEAN
      OBVIOUS
    <3> HIDE DEF Caught
    <3> QED
      BY <3>1, <3>2, <3>3 DEF SessionSet
  <2>2. request' \in [Requests -> RequestSet] /\ \A r \in Requests : request'[r].step = "idle"
    BY <1>18, IdleTypes DEF AccountsRestart
  <2> QED
    BY <1>18, <2>1, <2>2 DEF AccountsRestart, TInv, AccountsTypeOK, Known, SignsIn
<1>19. CASE UNCHANGED accountVars
  BY <1>19 DEF accountVars, TInv, AccountsTypeOK, Known, SignsIn
<1>20. ASSUME NEW r \in Requests, NEW n \in Names, NEW p \in 0 .. MaxPassword, Login(r, n, p)
       PROVE  TInv'
  BY <1>3, <1>20 DEF Login, Named
<1>21. ASSUME NEW r \in Requests, NEW p \in 0 .. MaxPassword, VerifyOwn(r, p)
       PROVE  TInv'
  BY <1>3, <1>21 DEF VerifyOwn, Named
<1> QED
  BY <1>1, <1>2, <1>4, <1>5, <1>6, <1>7, <1>8, <1>10, <1>11, <1>12, <1>14, <1>16, <1>17, <1>18,
     <1>19, <1>20, <1>21 DEF AccountsNext, Prepares

(* Accounts, sessions and what a request remembers keep their types, and   *)
(* ids stay within the bound (internal/auth).                              *)
THEOREM AccountTypesHold == AccountsSpec => []AccountsTypeOK
<1>1. TInv => AccountsTypeOK
  BY DEF TInv
<1> QED
  BY <1>1, InitKnown, NextKnown, PTL DEF AccountsSpec

-----------------------------------------------------------------------------
(* An id names one account for ever: rows have ids that were given out,    *)
(* and the account of a session, or of a request that will make one, has   *)
(* the name that signed in or is gone.                                     *)
Owned ==
  /\ \A id \in Ids : Exists(id) => id < nextId
  /\ \A s \in sessions : s.id < nextId /\ (Exists(s.id) => user[s.id].name = s.name)
  /\ \A r \in Requests : SignsIn(r) =>
       /\ request[r].id < nextId
       /\ Exists(request[r].id) => user[request[r].id].name = request[r].name

NInv == TInv /\ Owned

(* Steps that give out no id and begin no session keep owners what they    *)
(* are.                                                                    *)
LEMMA OwnersStay ==
  ASSUME NInv, TInv', nextId' = nextId,
         \A s \in sessions' : \E t \in sessions : s.id = t.id /\ s.name = t.name,
         \A id \in Ids : user'[id] = NoUser \/ (Exists(id) /\ user'[id].name = user[id].name),
         \A r \in Requests : SignsIn(r)' =>
           /\ SignsIn(r)
           /\ request'[r].id = request[r].id /\ request'[r].name = request[r].name
  PROVE  Owned'
<1>1. \A id \in Ids : Exists(id)' => Exists(id) /\ user'[id].name = user[id].name
  BY DEF Exists
<1>2. \A id \in Ids : Exists(id)' => id < nextId'
  BY <1>1 DEF NInv, Owned
<1>3. ASSUME NEW s \in sessions'
      PROVE  s.id < nextId' /\ (Exists(s.id)' => user'[s.id].name = s.name)
  <2>1. PICK t \in sessions : s.id = t.id /\ s.name = t.name
    OBVIOUS
  <2>2. t.id \in Ids
    BY DEF NInv, TInv, AccountsTypeOK, SessionSet
  <2> QED
    BY <1>1, <2>1, <2>2 DEF NInv, Owned
<1>4. ASSUME NEW r \in Requests, SignsIn(r)'
      PROVE  (/\ request[r].id < nextId
              /\ Exists(request[r].id) => user[request[r].id].name = request[r].name)'
  <2>1. /\ SignsIn(r) /\ request[r].id \in Ids
        /\ request'[r].id = request[r].id /\ request'[r].name = request[r].name
    BY <1>4 DEF NInv, TInv, Known
  <2>2. Exists(request[r].id)' => Exists(request[r].id) /\ user'[request[r].id].name = user[request[r].id].name
    BY <2>1 DEF Exists
  <2> QED
    BY <2>1, <2>2 DEF NInv, Owned
<1> QED
  BY <1>2, <1>3, <1>4 DEF Owned
(* A new account has an id that no session and no other request knows.     *)
LEMMA OwnersAdded ==
  ASSUME NInv, TInv', NEW n \in Names, NEW role, nextId \in Ids, Insert(n, role),
         sessions' = sessions,
         \A r \in Requests : SignsIn(r)' =>
           \/ SignsIn(r) /\ request'[r].id = request[r].id /\ request'[r].name = request[r].name
           \/ request'[r].id = nextId /\ request'[r].name = n
  PROVE  Owned'
<1>1. nextId' = nextId + 1 /\ nextId \in Nat
  BY AccountsAssumption DEF Insert, NInv, TInv, AccountsTypeOK
<1>2. /\ user'[nextId].name = n
      /\ \A id \in Ids \ {nextId} : user'[id] = user[id]
  BY DEF Insert, NInv, TInv, AccountsTypeOK
<1>3. \A id \in Ids : id < nextId => /\ id \in Ids \ {nextId} /\ id < nextId'
                                     /\ user'[id] = user[id]
  <2>1. \A id \in Ids : id \in Int
    BY AccountsAssumption DEF Ids
  <2>2. ASSUME NEW id \in Ids, id < nextId PROVE id # nextId /\ id < nextId + 1
    <3>1. id \in Int /\ nextId \in Int
      BY <1>1, <2>1
    <3> QED
      BY <2>2, <3>1
  <2> QED
    BY <1>1, <1>2, <2>2
<1>4. \A id \in Ids : Exists(id)' => id < nextId'
  <2>1. nextId < nextId'
    BY <1>1
  <2> QED
    BY <1>2, <1>3, <2>1 DEF NInv, Owned, Exists
<1>5. ASSUME NEW s \in sessions'
      PROVE  s.id < nextId' /\ (Exists(s.id)' => user'[s.id].name = s.name)
  <2>1. s \in sessions /\ s.id \in Ids /\ s.id < nextId
    BY DEF NInv, Owned, TInv, AccountsTypeOK, SessionSet
  <2> QED
    BY <1>3, <2>1 DEF NInv, Owned, Exists
<1>6. ASSUME NEW r \in Requests, SignsIn(r)'
      PROVE  (/\ request[r].id < nextId
              /\ Exists(request[r].id) => user[request[r].id].name = request[r].name)'
  <2>1. CASE /\ SignsIn(r)
             /\ request'[r].id = request[r].id /\ request'[r].name = request[r].name
    <3>1. request[r].id \in Ids /\ request[r].id < nextId
      BY <2>1 DEF NInv, Owned, TInv, Known
    <3>2. /\ user'[request'[r].id] = user[request[r].id]
          /\ request'[r].id < nextId' /\ request'[r].name = request[r].name
      BY <1>3, <2>1, <3>1
    <3> QED
      BY <2>1, <3>1, <3>2 DEF NInv, Owned, Exists
  <2>2. CASE request'[r].id = nextId /\ request'[r].name = n
    BY <1>1, <1>2, <2>2
  <2> QED
    BY <1>6, <2>1, <2>2
<1> QED
  BY <1>4, <1>5, <1>6 DEF Owned

LEMMA NextOwned == NInv /\ [AccountsNext]_accountVars => NInv'
<1> SUFFICES ASSUME NInv, [AccountsNext]_accountVars
             PROVE  Owned'
  BY NextKnown DEF NInv
<1>0. TInv /\ TInv' /\ \A r \in Requests : request[r] \in RequestSet
  BY NextKnown DEF NInv, TInv, AccountsTypeOK
<1>1. ASSUME UNCHANGED <<user, nextId, sessions>>,
             \A r \in Requests : SignsIn(r)' =>
               SignsIn(r) /\ request'[r].id = request[r].id /\ request'[r].name = request[r].name
      PROVE  Owned'
  BY <1>0, <1>1, OwnersStay DEF Exists
<1>2. ASSUME NEW r \in Requests, NEW q, request' = [request EXCEPT ![r] = q],
             q.step \notin {"login", "password", "recovery"}
      PROVE  \A p \in Requests : SignsIn(p)' =>
               SignsIn(p) /\ request'[p].id = request[p].id /\ request'[p].name = request[p].name
  BY <1>0, <1>2 DEF TInv, AccountsTypeOK, SignsIn
<1>3. ASSUME NEW r \in Requests, Done(r)
      PROVE  \A p \in Requests : SignsIn(p)' =>
               SignsIn(p) /\ request'[p].id = request[p].id /\ request'[p].name = request[p].name
  BY <1>2, <1>3, IdleTypes DEF Done
<1>4. ASSUME NEW r \in Requests, NEW id \in Ids, NEW p \in 0 .. MaxPassword,
             NEW s \in {"login", "password", "recovery"}, Verify(r, id, p, s)
      PROVE  Owned'
  <2>1. Exists(id) /\ id < nextId /\ UNCHANGED <<user, nextId, sessions>>
    BY <1>4 DEF Verify, NInv, Owned
  <2>2. request'[r].id = id /\ request'[r].name = user[id].name
    BY <1>0, <1>4 DEF Verify, TInv, AccountsTypeOK, Idle
  <2>3. \A q \in Requests \ {r} : request'[q] = request[q]
    BY <1>0, <1>4 DEF Verify, TInv, AccountsTypeOK
  <2> QED
    BY <2>1, <2>2, <2>3 DEF NInv, Owned, SignsIn, Exists
<1>5. ASSUME NEW r \in Requests, SetupInsert(r)
      PROVE  Owned'
  <2>1. request[r].name \in Names
    BY <1>0, <1>5 DEF SetupInsert, TInv, Known
  <2>2. CASE Unused(request[r].name)
    <3>1. nextId \in Ids
      BY <1>0, <2>2, AccountsAssumption DEF Unused, TInv, AccountsTypeOK, Ids
    <3>2. request'[r].id = nextId /\ request'[r].name = request[r].name
      BY <1>0, <1>5, <2>2 DEF SetupInsert, TInv, AccountsTypeOK, Idle
    <3>3. \A q \in Requests \ {r} : request'[q] = request[q]
      BY <1>0, <1>5, <2>2 DEF SetupInsert, TInv, AccountsTypeOK
    <3>4. \A q \in Requests : SignsIn(q)' =>
            \/ SignsIn(q) /\ request'[q].id = request[q].id /\ request'[q].name = request[q].name
            \/ request'[q].id = nextId /\ request'[q].name = request[r].name
      BY <3>2, <3>3 DEF SignsIn
    <3>5. Insert(request[r].name, "admin") /\ sessions' = sessions
      BY <1>5, <2>2 DEF SetupInsert
    <3> QED
      BY <1>0, <2>1, <3>1, <3>4, <3>5, OwnersAdded
  <2>3. CASE ~ Unused(request[r].name)
    BY <1>1, <1>3, <1>5, <2>3 DEF SetupInsert
  <2> QED
    BY <2>2, <2>3
<1>6. ASSUME NEW r \in Requests, NEW role \in {"admin", "operator"}, InsertUser(r, role)
      PROVE  Owned'
  <2>1. nextId \in Ids
    BY <1>0, <1>6, AccountsAssumption DEF InsertUser, Unused, TInv, AccountsTypeOK, Ids
  <2>2. /\ Done(r) /\ sessions' = sessions /\ Insert(request[r].name, role)
        /\ request[r].name \in Names
    BY <1>0, <1>6 DEF InsertUser, TInv, Known
  <2> QED
    BY <1>0, <1>3, <2>1, <2>2, OwnersAdded
<1>7. ASSUME NEW r \in Requests, CreateSession(r)
      PROVE  Owned'
  <2> DEFINE q == request[r]
             s == [id |-> q.id, name |-> q.name, password |-> q.password, late |-> q.late]
  <2>1. /\ SignsIn(r) /\ UNCHANGED <<user, nextId>> /\ sessions' = sessions \cup {s}
        /\ s.id = q.id /\ s.name = q.name
    BY <1>7 DEF CreateSession, SignsIn
  <2>2. PICK p : request' = [request EXCEPT ![r] = p] /\ p.step \in {"idle", "change", "question"}
    <3>1. \A t \in {"change", "question"} : [request[r] EXCEPT !.step = t].step = t
      BY <1>0 DEF RequestSet
    <3> QED
      BY <1>7, <3>1, IdleTypes DEF CreateSession
  <2>3. \A t \in Requests : SignsIn(t)' => SignsIn(t) /\ request'[t] = request[t]
    BY <1>0, <2>2 DEF TInv, AccountsTypeOK, SignsIn
  <2> QED
    BY <2>1, <2>3 DEF NInv, Owned, Exists
<1>8. ASSUME NEW r \in Requests, ChangePassword(r) \/ StoreQuestion(r) \/ ClearRecovery(r)
      PROVE  Owned'
  <2>1. Done(r) /\ UNCHANGED <<nextId, sessions>>
    BY <1>8 DEF ChangePassword, StoreQuestion, ClearRecovery
  <2>2. \A id \in Ids : user'[id] = NoUser \/ (Exists(id) /\ user'[id].name = user[id].name)
    BY <1>0, <1>8, FieldChanges DEF Exists
  <2> QED
    BY <1>0, <1>3, <2>1, <2>2, OwnersStay
<1>9. ASSUME NEW s \in sessions, Logout(s)
      PROVE  Owned'
  BY <1>9 DEF Logout, NInv, Owned, SignsIn, Exists
<1>10. ASSUME NEW r \in Requests, StorePassword(r)
       PROVE  Owned'
  <2>1. /\ UNCHANGED <<nextId, sessions>>
        /\ \/ user' = user
           \/ Exists(request[r].id) /\ \E p : user' =
                [user EXCEPT ![request[r].id].password = p, ![request[r].id].reset = p]
    BY <1>10 DEF StorePassword
  <2>2. ASSUME NEW id \in Ids
        PROVE  user'[id] = NoUser \/ (Exists(id) /\ user'[id].name = user[id].name)
    <3>1. user[id] = NoUser \/ user[id] \in UserSet
      BY <1>0 DEF TInv, AccountsTypeOK
    <3>2. CASE user' = user
      BY <3>1, <3>2 DEF Exists, UserSet
    <3>3. ASSUME Exists(request[r].id), NEW p, user' =
                   [user EXCEPT ![request[r].id].password = p, ![request[r].id].reset = p]
          PROVE  user'[id] = NoUser \/ (Exists(id) /\ user'[id].name = user[id].name)
      <4>1. CASE id = request[r].id
        <5>1. user'[id] = [user[id] EXCEPT !.password = p, !.reset = p]
          BY <1>0, <3>3, <4>1 DEF TInv, AccountsTypeOK
        <5>2. user[id] \in UserSet
          BY <3>1, <3>3, <4>1 DEF Exists
        <5>3. \A w \in UserSet : [w EXCEPT !.password = p, !.reset = p].name = w.name
          BY DEF UserSet
        <5> QED
          BY <3>3, <4>1, <5>1, <5>2, <5>3
      <4>2. CASE id # request[r].id
        BY <1>0, <3>3, <4>2 DEF TInv, AccountsTypeOK, Exists
      <4> QED
        BY <4>1, <4>2
    <3> QED
      BY <2>1, <3>2, <3>3
  <2>3. request' = [request EXCEPT ![r] = [request[r] EXCEPT !.step = "signOut"]]
    BY <1>0, <1>10 DEF StorePassword, Goto, TInv, AccountsTypeOK, RequestSet
  <2>4. [request[r] EXCEPT !.step = "signOut"].step = "signOut"
    BY <1>0 DEF RequestSet
  <2> QED
    BY <1>0, <1>2, <2>1, <2>2, <2>3, <2>4, OwnersStay
<1>11. ASSUME NEW r \in Requests, DeleteSessions(r)
       PROVE  Owned'
  <2>1. request'[r].step \in {"idle", "clear"}
    BY <1>11 DEF DeleteSessions, Idle
  <2>2. ASSUME NEW q \in Requests \ {r}
        PROVE  /\ request'[q].step = request[q].step /\ request'[q].id = request[q].id
               /\ request'[q].name = request[q].name
    BY <1>0, <1>11 DEF DeleteSessions, RequestSet
  <2>3. UNCHANGED <<user, nextId>> /\ sessions' \in SUBSET sessions
    BY <1>11 DEF DeleteSessions
  <2> QED
    BY <2>1, <2>2, <2>3 DEF NInv, Owned, SignsIn, Exists
<1>12. ASSUME NEW r \in Requests, CountAdmins(r)
       PROVE  Owned'
  <2>1. \A q \in Requests : SignsIn(q)' => q # r
    <3> DEFINE p == [request[r] EXCEPT !.step = "delete", !.count = Cardinality(Admins)]
    <3>1. request[r] \in RequestSet /\ request \in [Requests -> RequestSet]
      BY <1>0 DEF TInv, AccountsTypeOK
    <3>2. p.step = "delete"
      BY <3>1 DEF RequestSet
    <3>3. request'[r] = p
      BY <1>12, <3>1 DEF CountAdmins, RequestSet
    <3> QED
      BY <3>2, <3>3 DEF SignsIn
  <2>2. \A q \in Requests \ {r} : request'[q] = request[q]
    BY <1>0, <1>12 DEF CountAdmins, TInv, AccountsTypeOK
  <2> QED
    BY <1>1, <1>12, <2>1, <2>2 DEF CountAdmins, SignsIn
<1>13. ASSUME NEW r \in Requests, DeleteUser(r)
       PROVE  Owned'
  <2>1. Done(r) /\ UNCHANGED <<nextId, sessions>>
        /\ \A id \in Ids : user'[id] = user[id] \/ user'[id] = NoUser
    BY <1>0, <1>13 DEF DeleteUser, TInv, AccountsTypeOK
  <2> QED
    BY <1>0, <1>3, <2>1, OwnersStay DEF Exists
<1>14. CASE AccountsRestart
  <2>1. /\ \A r \in Requests : ~ SignsIn(r)'
        /\ UNCHANGED <<user, nextId>>
    BY <1>14, IdleTypes DEF AccountsRestart, SignsIn
  <2>2. ASSUME NEW s \in sessions'
        PROVE  \E t \in sessions : s.id = t.id /\ s.name = t.name
    BY <1>0, <1>14 DEF AccountsRestart, TInv, AccountsTypeOK, SessionSet
  <2> QED
    BY <1>0, <2>1, <2>2, OwnersStay DEF Exists
<1>15. ASSUME NEW r \in Requests, NEW n \in Names, SetupCheck(r, n)
       PROVE  Owned'
  <2>1. \A q \in Requests : SignsIn(q)' => q # r
    <3> DEFINE p == [request[r] EXCEPT !.step = "setup", !.name = n]
    <3>1. request[r] \in RequestSet /\ request \in [Requests -> RequestSet]
      BY <1>0 DEF TInv, AccountsTypeOK
    <3>2. p.step = "setup"
      BY <3>1 DEF RequestSet
    <3>3. request'[r] = p
      BY <1>15, <3>1 DEF SetupCheck, RequestSet
    <3> QED
      BY <3>2, <3>3 DEF SignsIn
  <2>2. \A q \in Requests \ {r} : request'[q] = request[q]
    BY <1>0, <1>15 DEF SetupCheck, TInv, AccountsTypeOK
  <2> QED
    BY <1>1, <1>15, <2>1, <2>2 DEF SetupCheck, SignsIn
<1>16. ASSUME NEW r \in Requests, Prepares(r)
       PROVE  Owned'
  <2>1. PICK q \in Prepared : request' = [request EXCEPT ![r] = q]
    BY <1>0, <1>16, OnlyPrepares
  <2>2. UNCHANGED <<user, nextId, sessions>>
    BY <1>0, <1>16, OnlyPrepares
  <2> QED
    BY <1>1, <1>2, <2>1, <2>2 DEF Prepared
<1>19. CASE UNCHANGED accountVars
  BY <1>1, <1>19 DEF accountVars, SignsIn
<1>20. ASSUME NEW r \in Requests, NEW n \in Names, NEW p \in 0 .. MaxPassword, Login(r, n, p)
       PROVE  Owned'
  BY <1>4, <1>20 DEF Login, Named
<1>21. ASSUME NEW r \in Requests, NEW p \in 0 .. MaxPassword, VerifyOwn(r, p)
       PROVE  Owned'
  BY <1>4, <1>21 DEF VerifyOwn, Named
<1> QED
  BY <1>5, <1>6, <1>7, <1>8, <1>9, <1>10, <1>11, <1>12, <1>13, <1>14, <1>15, <1>16, <1>19, <1>20,
     <1>21 DEF AccountsNext, Prepares

-----------------------------------------------------------------------------
(* A session, or a login under way, whose password a reset has replaced;   *)
(* the reset that is to end it is still under way.                         *)
Outlived(x)   == Exists(x.id) /\ x.password < user[x.id].reset /\ ~ x.late
SigningOut(i) == \E r \in Requests : request[r].step = "signOut" /\ request[r].id = i

Prompt ==
  /\ \A id \in Ids : Exists(id) => user[id].reset <= user[id].password
  /\ \A s \in sessions : Outlived(s) => SigningOut(s.id)
  /\ \A r \in Requests : SignsIn(r) /\ Outlived(request[r]) => SigningOut(request[r].id)

PInv == TInv /\ Prompt

(* What an account may become in any step but a reset's.                   *)
NotReset(id) ==
  \/ user'[id] = NoUser
  \/ user'[id].reset = 0
  \/ Exists(id) /\ user'[id].reset = user[id].reset /\ user'[id].password >= user[id].password

(* Steps that end no reset, and in which whoever signs in has signed in    *)
(* before or knows the password that is stored.                            *)
LEMMA PromptStays ==
  ASSUME PInv, TInv',
         \A id \in Ids : NotReset(id),
         \A s \in sessions' : \E t \in sessions :
           s.id = t.id /\ s.password = t.password /\ s.late = t.late,
         \A r \in Requests : SignsIn(r)' =>
           \/ /\ SignsIn(r) /\ request'[r].id = request[r].id
              /\ request'[r].password = request[r].password /\ request'[r].late = request[r].late
           \/ request'[r].password >= user'[request'[r].id].reset,
         \A r \in Requests : request[r].step = "signOut" =>
           request'[r].step = "signOut" /\ request'[r].id = request[r].id
  PROVE  Prompt'
<1>1. \A id \in Ids : /\ user[id] = NoUser \/ user[id] \in UserSet
                      /\ user'[id] = NoUser \/ user'[id] \in UserSet
  BY DEF PInv, TInv, AccountsTypeOK
<1>2. ASSUME NEW id \in Ids, user'[id] # NoUser
      PROVE  /\ user'[id].reset <= user'[id].password
             /\ \A p \in Nat : p < user'[id].reset => Exists(id) /\ p < user[id].reset
  BY <1>1, <1>2 DEF PInv, Prompt, NotReset, Exists, UserSet
<1>3. \A i : SigningOut(i) => SigningOut(i)'
  BY DEF SigningOut
<1>4. ASSUME NEW s \in sessions', Outlived(s)'
      PROVE  SigningOut(s.id)'
  <2>1. PICK t \in sessions : s.id = t.id /\ s.password = t.password /\ s.late = t.late
    OBVIOUS
  <2>2. t.id \in Ids /\ t.password \in Nat
    BY DEF PInv, TInv, AccountsTypeOK, SessionSet
  <2>3. Outlived(t)
    BY <1>2, <1>4, <2>1, <2>2 DEF Outlived, Exists
  <2> QED
    BY <1>3, <2>1, <2>3 DEF PInv, Prompt
<1>5. ASSUME NEW r \in Requests, SignsIn(r)', Outlived(request[r])'
      PROVE  SigningOut(request[r].id)'
  <2>1. request'[r].id \in Ids /\ request'[r].password \in Nat
    BY <1>5 DEF TInv, Known, AccountsTypeOK, RequestSet
  <2>2. /\ user'[request'[r].id] # NoUser /\ request'[r].password < user'[request'[r].id].reset
        /\ ~ request'[r].late
    BY <1>5 DEF Outlived, Exists
  <2>3. user'[request'[r].id].reset \in Nat
    BY <1>1, <2>1, <2>2 DEF Exists, UserSet
  <2>4. /\ SignsIn(r) /\ request'[r].id = request[r].id
        /\ request'[r].password = request[r].password /\ request'[r].late = request[r].late
    BY <1>5, <2>1, <2>2, <2>3
  <2>5. Outlived(request[r])
    BY <1>2, <2>1, <2>2, <2>4 DEF Outlived
  <2>6. SigningOut(request[r].id)
    BY <2>4, <2>5 DEF PInv, Prompt
  <2> QED
    BY <2>4, <2>6 DEF SigningOut
<1> QED
  BY <1>2, <1>4, <1>5 DEF Prompt, Exists
LEMMA NextPrompt == PInv /\ [AccountsNext]_accountVars => PInv'
<1> SUFFICES ASSUME PInv, [AccountsNext]_accountVars
             PROVE  Prompt'
  BY NextKnown DEF PInv
<1>0. /\ TInv /\ TInv' /\ \A r \in Requests : request[r] \in RequestSet
      /\ \A id \in Ids : user[id] = NoUser \/ user[id] \in UserSet
  BY NextKnown DEF PInv, TInv, AccountsTypeOK
<1> DEFINE Same(r) == /\ SignsIn(r) /\ request'[r].id = request[r].id
                      /\ request'[r].password = request[r].password
                      /\ request'[r].late = request[r].late
           Current(r) == request'[r].password >= user'[request'[r].id].reset
           Stays(r) == request[r].step = "signOut" =>
                         request'[r].step = "signOut" /\ request'[r].id = request[r].id
<1>1. ASSUME \A id \in Ids : NotReset(id), sessions' \in SUBSET sessions,
             \A r \in Requests : SignsIn(r)' => Same(r) \/ Current(r),
             \A r \in Requests : Stays(r)
      PROVE  Prompt'
  BY <1>0, <1>1, PromptStays
<1>2. ASSUME NEW r \in Requests, NEW q, request' = [request EXCEPT ![r] = q],
             q.step \notin {"login", "password", "recovery"}, request[r].step # "signOut"
      PROVE  \A p \in Requests : (SignsIn(p)' => Same(p)) /\ Stays(p)
  BY <1>0, <1>2 DEF TInv, AccountsTypeOK, SignsIn
<1>3. ASSUME NEW id \in Ids, user'[id] = user[id]
      PROVE  NotReset(id)
  BY <1>0, <1>3 DEF NotReset, Exists, UserSet
<1>4. ASSUME NEW r \in Requests, NEW q, request' = [request EXCEPT ![r] = q],
             q.step \notin {"login", "password", "recovery"}, request[r].step # "signOut",
             UNCHANGED <<user, sessions>>
      PROVE  Prompt'
  BY <1>1, <1>2, <1>3, <1>4
<1>5. ASSUME NEW r \in Requests, NEW id \in Ids, NEW p \in 0 .. MaxPassword,
             NEW s \in {"login", "password", "recovery"}, Verify(r, id, p, s),
             request[r].step # "signOut"
      PROVE  Prompt'
  <2>1. request'[r].id = id /\ request'[r].password = user[id].password
    BY <1>0, <1>5 DEF Verify, TInv, AccountsTypeOK, Idle
  <2>2. \A q \in Requests \ {r} : request'[q] = request[q]
    BY <1>0, <1>5 DEF Verify, TInv, AccountsTypeOK
  <2>3. UNCHANGED <<user, sessions>> /\ Exists(id)
    BY <1>5 DEF Verify
  <2>4. user[id].reset <= user[id].password /\ user[id].reset \in Nat /\ user[id].password \in Nat
    BY <1>0, <2>3 DEF PInv, Prompt, Exists, UserSet
  <2>5. Current(r)
    BY <2>1, <2>3, <2>4
  <2> QED
    BY <1>1, <1>3, <1>5, <2>2, <2>3, <2>5 DEF SignsIn
<1>6. ASSUME NEW n, NEW role, Insert(n, role), nextId \in Ids
      PROVE  /\ \A id \in Ids : NotReset(id)
             /\ user'[nextId].reset = 0
  <2>1. user'[nextId].reset = 0 /\ \A id \in Ids \ {nextId} : user'[id] = user[id]
    BY <1>0, <1>6 DEF Insert, TInv, AccountsTypeOK
  <2> QED
    BY <1>3, <2>1 DEF NotReset
<1>7. ASSUME NEW r \in Requests, SetupInsert(r)
      PROVE  Prompt'
  <2>1. CASE Unused(request[r].name)
    <3>1. nextId \in Ids /\ Insert(request[r].name, "admin")
      BY <1>0, <1>7, <2>1, AccountsAssumption
      DEF SetupInsert, Unused, TInv, AccountsTypeOK, Ids
    <3>2. request'[r].id = nextId /\ request'[r].password = 0
      BY <1>0, <1>7, <2>1 DEF SetupInsert, TInv, AccountsTypeOK, Idle
    <3>3. request[r].step = "setup" /\ \A q \in Requests \ {r} : request'[q] = request[q]
      BY <1>0, <1>7, <2>1 DEF SetupInsert, TInv, AccountsTypeOK
    <3>4. Current(r)
      BY <1>6, <3>1, <3>2
    <3>5. sessions' = sessions
      BY <1>7 DEF SetupInsert
    <3> QED
      BY <1>1, <1>6, <3>1, <3>3, <3>4, <3>5 DEF SignsIn
  <2>2. CASE ~ Unused(request[r].name)
    BY <1>4, <1>7, <2>2, IdleTypes DEF SetupInsert, Done
  <2> QED
    BY <2>1, <2>2
<1>8. ASSUME NEW r \in Requests, NEW role \in {"admin", "operator"}, InsertUser(r, role)
      PROVE  Prompt'
  <2>1. nextId \in Ids
    BY <1>0, <1>8, AccountsAssumption DEF InsertUser, Unused, TInv, AccountsTypeOK, Ids
  <2>2. /\ Insert(request[r].name, role) /\ sessions' = sessions /\ request[r].step = "create"
        /\ request' = [request EXCEPT ![r] = Idle]
    BY <1>8 DEF InsertUser, Done
  <2> QED
    BY <1>1, <1>2, <1>6, <2>1, <2>2, IdleTypes
<1>9. ASSUME NEW r \in Requests, CreateSession(r)
      PROVE  Prompt'
  <2> DEFINE q == request[r]
             s == [id |-> q.id, name |-> q.name, password |-> q.password, late |-> q.late]
  <2>1. /\ SignsIn(r) /\ UNCHANGED user /\ sessions' = sessions \cup {s}
        /\ s.id = q.id /\ s.password = q.password /\ s.late = q.late
    BY <1>9 DEF CreateSession, SignsIn
  <2>2. PICK p : request' = [request EXCEPT ![r] = p] /\ p.step \in {"idle", "change", "question"}
    <3>1. \A t \in {"change", "question"} : [request[r] EXCEPT !.step = t].step = t
      BY <1>0 DEF RequestSet
    <3> QED
      BY <1>9, <3>1, IdleTypes DEF CreateSession
  <2>3. \A t \in Requests : SignsIn(t)' => SignsIn(t) /\ request'[t] = request[t]
    BY <1>0, <2>2 DEF TInv, AccountsTypeOK, SignsIn
  <2>4. \A i : SigningOut(i) => SigningOut(i)'
    BY <1>0, <2>1, <2>2 DEF SigningOut, SignsIn, TInv, AccountsTypeOK
  <2>5. \A x : Outlived(x)' <=> Outlived(x)
    BY <2>1 DEF Outlived, Exists
  <2>6. Outlived(s) => SigningOut(s.id)
    BY <2>1 DEF Outlived, PInv, Prompt
  <2>7. ASSUME NEW t \in Requests, SignsIn(t)', Outlived(request[t])'
        PROVE  SigningOut(request[t].id)'
    <3>1. SignsIn(t) /\ request'[t] = request[t]
      BY <2>3, <2>7
    <3>2. Outlived(request[t])
      BY <2>1, <2>7, <3>1 DEF Outlived, Exists
    <3>3. SigningOut(request[t].id)
      BY <3>1, <3>2 DEF PInv, Prompt
    <3>4. PICK u \in Requests : request[u].step = "signOut" /\ request[u].id = request[t].id
      BY <3>3 DEF SigningOut
    <3>5. request'[u] = request[u]
      BY <1>0, <2>1, <2>2, <3>4 DEF SignsIn, TInv, AccountsTypeOK
    <3> QED
      BY <3>1, <3>4, <3>5 DEF SigningOut
  <2> QED
    BY <2>1, <2>4, <2>5, <2>6, <2>7 DEF PInv, Prompt, Exists
<1>10. ASSUME NEW r \in Requests, ChangePassword(r) \/ StoreQuestion(r) \/ ClearRecovery(r)
       PROVE  Prompt'
  <2>1. /\ request' = [request EXCEPT ![r] = Idle] /\ request[r].step # "signOut"
        /\ sessions' = sessions
    BY <1>10 DEF ChangePassword, StoreQuestion, ClearRecovery, Done
  <2>2. \A id \in Ids : NotReset(id)
    BY <1>0, <1>3, <1>10, FieldChanges DEF NotReset
  <2> QED
    BY <1>1, <1>2, <2>1, <2>2, IdleTypes
<1>11. ASSUME NEW s \in sessions, Logout(s)
       PROVE  Prompt'
  BY <1>1, <1>3, <1>11 DEF Logout, SignsIn
<1>12. ASSUME NEW r \in Requests, StorePassword(r)
       PROVE  Prompt'
  <2>1. request' = [request EXCEPT ![r] = [request[r] EXCEPT !.step = "signOut"]]
    BY <1>0, <1>12 DEF StorePassword, Goto, TInv, AccountsTypeOK, RequestSet
  <2>2. /\ request'[r].step = "signOut" /\ request'[r].id = request[r].id
        /\ \A q \in Requests \ {r} : request'[q] = request[q]
    BY <1>0, <2>1 DEF TInv, AccountsTypeOK, RequestSet
  <2>3. SigningOut(request[r].id)' /\ \A i : SigningOut(i) => SigningOut(i)'
    BY <2>2 DEF SigningOut
  <2>4. sessions' = sessions /\ \A id \in Ids \ {request[r].id} : user'[id] = user[id]
    BY <1>0, <1>12 DEF StorePassword, TInv, AccountsTypeOK
  <2>5. \A id \in Ids : Exists(id)' => user'[id].reset <= user'[id].password
    <3>1. ASSUME NEW id \in Ids, id = request[r].id, Exists(id)'
          PROVE  user'[id].reset <= user'[id].password
      <4> DEFINE p == user[id].password + 1
      <4>1. CASE user' = user
        BY <3>1, <4>1 DEF PInv, Prompt, Exists
      <4>2. CASE Exists(id) /\ user' = [user EXCEPT ![id].password = p, ![id].reset = p]
        <5>1. user'[id] = [user[id] EXCEPT !.password = p, !.reset = p]
          BY <1>0, <4>2 DEF TInv, AccountsTypeOK
        <5>2. user[id] \in UserSet /\ p \in Nat
          BY <1>0, <4>2 DEF Exists, UserSet
        <5>3. ASSUME NEW w \in UserSet, NEW k \in Nat
              PROVE  /\ [w EXCEPT !.password = k, !.reset = k].password = k
                     /\ [w EXCEPT !.password = k, !.reset = k].reset = k
          BY DEF UserSet
        <5> QED
          BY <5>1, <5>2, <5>3
      <4> QED
        BY <1>12, <3>1, <4>1, <4>2 DEF StorePassword
    <3>2. ASSUME NEW id \in Ids \ {request[r].id}, Exists(id)'
          PROVE  user'[id].reset <= user'[id].password
      BY <2>4, <3>2 DEF PInv, Prompt, Exists
    <3> QED
      BY <3>1, <3>2
  <2>6. ASSUME NEW s \in sessions', Outlived(s)'
        PROVE  SigningOut(s.id)'
    <3>1. s \in sessions /\ s.id \in Ids
      BY <1>0, <2>4 DEF TInv, AccountsTypeOK, SessionSet
    <3>2. CASE s.id = request[r].id
      BY <2>2, <3>2 DEF SigningOut
    <3>3. CASE s.id # request[r].id
      BY <2>3, <2>4, <2>6, <3>1, <3>3 DEF PInv, Prompt, Outlived, Exists
    <3> QED
      BY <3>2, <3>3
  <2>7. ASSUME NEW q \in Requests, SignsIn(q)', Outlived(request[q])'
        PROVE  SigningOut(request[q].id)'
    <3>1. request'[q] = request[q] /\ SignsIn(q) /\ request[q].id \in Ids
      BY <1>0, <2>2, <2>7 DEF SignsIn, TInv, Known
    <3>2. CASE request[q].id = request[r].id
      BY <2>2, <3>1, <3>2 DEF SigningOut
    <3>3. CASE request[q].id # request[r].id
      <4>1. Outlived(request[q])
        BY <2>4, <2>7, <3>1, <3>3 DEF Outlived, Exists
      <4>2. PICK u \in Requests : request[u].step = "signOut" /\ request[u].id = request[q].id
        BY <3>1, <4>1 DEF PInv, Prompt, SigningOut
      <4> QED
        BY <2>2, <3>1, <4>2 DEF SigningOut
    <3> QED
      BY <3>2, <3>3
  <2> QED
    BY <2>5, <2>6, <2>7 DEF Prompt
<1>13. ASSUME NEW r \in Requests, DeleteSessions(r)
       PROVE  Prompt'
  <2>1. request'[r].step \in {"idle", "clear"}
    BY <1>13 DEF DeleteSessions, Idle
  <2>2. ASSUME NEW q \in Requests \ {r}
        PROVE  /\ request'[q].step = request[q].step /\ request'[q].id = request[q].id
               /\ request'[q].password = request[q].password
               /\ request'[q].late = (request[q].late \/ request[q].id = request[r].id)
    BY <1>0, <1>13 DEF DeleteSessions, RequestSet
  <2>3. user' = user /\ sessions' = {s \in sessions : s.id # request[r].id}
    BY <1>13 DEF DeleteSessions
  <2>4. ASSUME NEW i, i # request[r].id, SigningOut(i)
        PROVE  SigningOut(i)'
    BY <2>2, <2>4 DEF SigningOut
  <2>5. ASSUME NEW s \in sessions', Outlived(s)'
        PROVE  SigningOut(s.id)'
    BY <2>3, <2>4, <2>5 DEF PInv, Prompt, Outlived, Exists
  <2>6. ASSUME NEW q \in Requests, SignsIn(q)', Outlived(request[q])'
        PROVE  SigningOut(request[q].id)'
    <3>1. q # r /\ request'[q].id = request[q].id /\ request[q].id # request[r].id
      BY <2>1, <2>2, <2>6 DEF SignsIn, Outlived
    <3>2. SignsIn(q) /\ Outlived(request[q])
      BY <2>2, <2>3, <2>6, <3>1 DEF SignsIn, Outlived, Exists
    <3>3. PICK u \in Requests : request[u].step = "signOut" /\ request[u].id = request[q].id
      BY <3>2 DEF PInv, Prompt, SigningOut
    <3> QED
      BY <2>2, <3>1, <3>3 DEF SigningOut
  <2> QED
    BY <2>3, <2>5, <2>6 DEF PInv, Prompt, Exists
<1>14. ASSUME NEW r \in Requests, CountAdmins(r)
       PROVE  Prompt'
  <2>1. request' = [request EXCEPT ![r] =
          [request[r] EXCEPT !.step = "delete", !.count = Cardinality(Admins)]]
    BY <1>0, <1>14 DEF CountAdmins, TInv, AccountsTypeOK, RequestSet
  <2>2. [request[r] EXCEPT !.step = "delete", !.count = Cardinality(Admins)].step = "delete"
    BY <1>0 DEF RequestSet
  <2> QED
    BY <1>4, <1>14, <2>1, <2>2 DEF CountAdmins
<1>15. ASSUME NEW r \in Requests, DeleteUser(r)
       PROVE  Prompt'
  <2>1. /\ request' = [request EXCEPT ![r] = Idle] /\ request[r].step # "signOut"
        /\ sessions' = sessions
        /\ \A id \in Ids : user'[id] = user[id] \/ user'[id] = NoUser
    BY <1>0, <1>15 DEF DeleteUser, Done, TInv, AccountsTypeOK
  <2>2. \A id \in Ids : NotReset(id)
    BY <1>3, <2>1 DEF NotReset
  <2> QED
    BY <1>1, <1>2, <2>1, <2>2, IdleTypes
<1>16. CASE AccountsRestart
  <2>1. user' = user /\ \A r \in Requests : ~ SignsIn(r)'
    BY <1>16, IdleTypes DEF AccountsRestart, SignsIn
  <2>2. ASSUME NEW s \in sessions', Outlived(s)'
        PROVE  FALSE
    <3>1. PICK t \in sessions : s = [t EXCEPT !.late = @ \/ \E r \in Requests :
                                       request[r].step = "signOut" /\ request[r].id = t.id]
      BY <1>16 DEF AccountsRestart
    <3>2. /\ s.id = t.id /\ s.password = t.password
          /\ s.late = (t.late \/ SigningOut(t.id))
      BY <1>0, <3>1 DEF SigningOut, TInv, AccountsTypeOK, SessionSet
    <3>3. Outlived(t) /\ ~ SigningOut(t.id)
      BY <2>1, <2>2, <3>2 DEF Outlived, Exists
    <3> QED
      BY <3>3 DEF PInv, Prompt
  <2> QED
    BY <2>1, <2>2 DEF PInv, Prompt, Exists
<1>17. ASSUME NEW r \in Requests, NEW n \in Names, SetupCheck(r, n)
       PROVE  Prompt'
  <2>1. request' = [request EXCEPT ![r] = [request[r] EXCEPT !.step = "setup", !.name = n]]
    BY <1>0, <1>17 DEF SetupCheck, TInv, AccountsTypeOK, RequestSet
  <2>2. [request[r] EXCEPT !.step = "setup", !.name = n].step = "setup"
    BY <1>0 DEF RequestSet
  <2> QED
    BY <1>4, <1>17, <2>1, <2>2 DEF SetupCheck
<1>18. ASSUME NEW r \in Requests, Prepares(r)
       PROVE  Prompt'
  <2>1. PICK q \in Prepared : request' = [request EXCEPT ![r] = q]
    BY <1>0, <1>18, OnlyPrepares
  <2>2. UNCHANGED <<user, sessions>> /\ request[r].step # "signOut"
    BY <1>0, <1>18, OnlyPrepares
  <2> QED
    BY <1>4, <2>1, <2>2 DEF Prepared
<1>22. CASE UNCHANGED accountVars
  BY <1>1, <1>3, <1>22 DEF accountVars, SignsIn
<1>23. ASSUME NEW r \in Requests, NEW n \in Names, NEW p \in 0 .. MaxPassword, Login(r, n, p)
       PROVE  Prompt'
  BY <1>5, <1>23 DEF Login, Named
<1>24. ASSUME NEW r \in Requests, NEW p \in 0 .. MaxPassword, VerifyOwn(r, p)
       PROVE  Prompt'
  BY <1>5, <1>24 DEF VerifyOwn, Named
<1> QED
  BY <1>7, <1>8, <1>9, <1>10, <1>11, <1>12, <1>13, <1>14, <1>15, <1>16, <1>17, <1>18, <1>22,
     <1>23, <1>24 DEF AccountsNext, Prepares

LEMMA NothingAtFirst ==
  ASSUME AccountsInit
  PROVE  /\ sessions = {} /\ nextId = 1
         /\ \A id \in Ids : ~ Exists(id)
         /\ \A r \in Requests : request[r].step = "idle"
<1>1. \A r \in Requests : request[r] = Idle
  BY DEF AccountsInit
<1> QED
  BY <1>1, IdleTypes DEF AccountsInit, Exists

(* "Deletes sessions", for every interleaving of resets, logins and        *)
(* restarts; and a session lets in only who signed in with it, although    *)
(* the deletion of an account leaves its sessions in the table             *)
(* (Manager.Login, RecoverPassword, AdminResetPassword, DeleteUser).       *)
THEOREM SessionsStaySound == AccountsSpec => []SessionsAreSound
<1>1. AccountsInit => NInv /\ PInv
  BY NothingAtFirst, InitKnown DEF NInv, PInv, Owned, Prompt, SignsIn
<1>2. NInv /\ PInv => SessionsAreSound
  BY DEF NInv, PInv, Owned, Prompt, Outlived, SigningOut,
     SessionsAreSound, SessionsLetInTheirOwner, ResetEndsSessions
<1> QED
  BY <1>1, <1>2, NextOwned, NextPrompt, PTL DEF AccountsSpec

-----------------------------------------------------------------------------
(* Before the first account there is nothing to act on. After it, if no    *)
(* two deletions have counted each other's administrator, one of the       *)
(* administrators is not about to go: a deletion that names it found it    *)
(* to be the last.                                                         *)
Safe(a) == \A r \in Requests :
             request[r].step = "delete" /\ request[r].id = a => request[r].count <= 1

Spared ==
  /\ nextId = 1 => \A r \in Requests : request[r].step \in {"idle", "setup"}
  /\ ~ overlapped /\ nextId > 1 => \E a \in Admins : Safe(a)

MInv == NInv /\ Spared

LEMMA NoneAtFirst == ASSUME NInv, nextId = 1 PROVE \A id \in Ids : ~ Exists(id)
<1>1. \A id \in Ids : id \in Nat /\ ~ (id < 1)
  BY AccountsAssumption DEF Ids
<1> QED
  BY <1>1 DEF NInv, Owned

(* Steps of a request that has to do with an account, in which no          *)
(* administrator goes and no deletion counts.                              *)
LEMMA SparedStays ==
  ASSUME MInv, nextId' = nextId, overlapped' = overlapped, Admins \subseteq Admins',
         nextId = 1 => \A r \in Requests : request'[r].step \in {"idle", "setup"},
         \A r \in Requests : request'[r].step = "delete" =>
           /\ request[r].step = "delete"
           /\ request'[r].id = request[r].id /\ request'[r].count = request[r].count
  PROVE  Spared'
<1>1. \A a : Safe(a) => Safe(a)'
  BY DEF Safe
<1> QED
  BY <1>1 DEF MInv, Spared

LEMMA LastIsSafe ==
  ASSUME NInv, NEW id, id \in Admins, Cardinality(Admins) > 1
  PROVE  \E a \in Admins : a # id
<1>1. SUFFICES ASSUME \A a \in Admins : a = id
               PROVE  FALSE
  OBVIOUS
<1>2. Admins = {id}
  BY <1>1
<1>3. Cardinality({id}) = 1
  BY FS_Singleton
<1> QED
  BY <1>2, <1>3

LEMMA NextSpared == MInv /\ [AccountsNext]_accountVars => MInv'
<1> SUFFICES ASSUME MInv, [AccountsNext]_accountVars
             PROVE  Spared'
  BY NextOwned DEF MInv
<1>0. /\ NInv /\ TInv /\ TInv' /\ \A r \in Requests : request[r] \in RequestSet
      /\ \A id \in Ids : user[id] = NoUser \/ user[id] \in UserSet
  BY NextKnown DEF MInv, NInv, TInv, AccountsTypeOK
<1>1. ASSUME NEW r \in Requests, NEW q, request' = [request EXCEPT ![r] = q],
             q.step # "delete"
      PROVE  \A p \in Requests : request'[p].step = "delete" =>
               /\ request[p].step = "delete"
               /\ request'[p].id = request[p].id /\ request'[p].count = request[p].count
  BY <1>0, <1>1 DEF TInv, AccountsTypeOK
<1>2. ASSUME user' = user
      PROVE  Admins \subseteq Admins'
  BY <1>2 DEF Admins
<1>3. ASSUME NEW r \in Requests, NEW q, request' = [request EXCEPT ![r] = q],
             q.step # "delete", nextId # 1, Admins \subseteq Admins',
             UNCHANGED <<nextId, overlapped>>
      PROVE  Spared'
  BY <1>1, <1>3, SparedStays
<1>4. \A id \in Ids : Exists(id) => nextId # 1
  BY <1>0, NoneAtFirst
<1>5. \A r \in Requests : request[r].step \notin {"idle", "setup"} => nextId # 1
  BY DEF MInv, Spared
<1>6. ASSUME NEW r \in Requests, NEW id \in Ids, NEW p \in 0 .. MaxPassword,
             NEW s \in {"login", "password", "recovery"}, Verify(r, id, p, s)
      PROVE  Spared'
  <2> DEFINE q == [Idle EXCEPT !.step = s, !.own = request[r].own,
                               !.id = id, !.name = user[id].name, !.password = p]
  <2>1. q.step = s
    BY DEF Idle
  <2>2. request' = [request EXCEPT ![r] = q] /\ Exists(id) /\ UNCHANGED <<user, nextId, overlapped>>
    BY <1>6 DEF Verify
  <2> QED
    BY <1>2, <1>3, <1>4, <2>1, <2>2
<1>7. ASSUME NEW n, NEW role, Insert(n, role), nextId \in Ids
      PROVE  /\ Admins \subseteq Admins' /\ (role = "admin" => nextId \in Admins')
             /\ nextId' > 1
  <2>1. /\ user'[nextId] = [name |-> n, role |-> role, password |-> 0, recovery |-> FALSE, reset |-> 0]
        /\ \A id \in Ids \ {nextId} : user'[id] = user[id]
    BY <1>0, <1>7 DEF Insert, TInv, AccountsTypeOK
  <2>2. ~ Exists(nextId) /\ nextId' > 1
    <3>1. nextId \in Nat /\ nextId >= 1
      BY <1>0, AccountsAssumption DEF TInv, AccountsTypeOK
    <3>2. ~ (nextId < nextId)
      BY <3>1
    <3>3. ~ Exists(nextId)
      BY <1>0, <1>7, <3>2 DEF NInv, Owned
    <3> QED
      BY <1>7, <3>1, <3>3 DEF Insert
  <2>3. nextId \notin Admins
    <3>1. user[nextId] = NoUser /\ NoUser.role # "admin"
      BY <2>2 DEF Exists, NoUser
    <3> QED
      BY <3>1 DEF Admins
  <2>4. \A id \in Admins : id \in Admins'
    BY <2>1, <2>3 DEF Admins
  <2>5. role = "admin" => nextId \in {id \in Ids : user'[id].role = "admin"}
    BY <1>7, <2>1
  <2> QED
    BY <2>2, <2>4, <2>5 DEF Admins
<1>8. ASSUME NEW r \in Requests, SetupInsert(r)
      PROVE  Spared'
  <2>1. CASE Unused(request[r].name)
    <3> DEFINE q == [Idle EXCEPT !.step = "login", !.id = nextId, !.name = request[r].name]
    <3>1. nextId \in Ids /\ Insert(request[r].name, "admin") /\ overlapped' = overlapped
      BY <1>0, <1>8, <2>1, AccountsAssumption
      DEF SetupInsert, Unused, TInv, AccountsTypeOK, Ids
    <3>2. Admins \subseteq Admins' /\ nextId \in Admins' /\ nextId' > 1
      BY <1>7, <3>1
    <3>3. q.step = "login" /\ request' = [request EXCEPT ![r] = q]
      BY <1>8, <2>1 DEF SetupInsert, Idle
    <3>4. \A p \in Requests : request'[p].step = "delete" =>
            /\ request[p].step = "delete"
            /\ request'[p].id = request[p].id /\ request'[p].count = request[p].count
      BY <1>1, <3>3
    <3>5. \A a : Safe(a) => Safe(a)'
      BY <3>4 DEF Safe
    <3>6. CASE nextId = 1
      <4>1. 1 \in Admins' /\ Safe(1)'
        BY <3>2, <3>4, <3>6 DEF MInv, Spared, Safe
      <4> QED
        BY <3>2, <4>1 DEF Spared
    <3>7. CASE nextId # 1
      <4>1. nextId > 1
        BY <1>0, <3>7, AccountsAssumption DEF TInv, AccountsTypeOK
      <4> QED
        BY <3>1, <3>2, <3>5, <4>1 DEF MInv, Spared
    <3> QED
      BY <3>6, <3>7
  <2>2. CASE ~ Unused(request[r].name)
    <3>1. request' = [request EXCEPT ![r] = Idle] /\ UNCHANGED <<user, nextId, overlapped>>
      BY <1>8, <2>2 DEF SetupInsert, Done
    <3>2. nextId = 1 => \A p \in Requests : request'[p].step \in {"idle", "setup"}
      BY <1>0, <3>1, IdleTypes DEF MInv, Spared, TInv, AccountsTypeOK
    <3> QED
      BY <1>1, <1>2, <3>1, <3>2, IdleTypes, SparedStays
  <2> QED
    BY <2>1, <2>2
<1>9. ASSUME NEW r \in Requests, NEW role \in {"admin", "operator"}, InsertUser(r, role)
      PROVE  Spared'
  <2>1. /\ nextId \in Ids /\ Insert(request[r].name, role) /\ overlapped' = overlapped
        /\ request' = [request EXCEPT ![r] = Idle]
    BY <1>0, <1>9, AccountsAssumption
    DEF InsertUser, Done, Unused, TInv, AccountsTypeOK, Ids
  <2>2. nextId > 1
    BY <1>0, <1>5, <1>9, AccountsAssumption DEF InsertUser, TInv, AccountsTypeOK
  <2>3. Admins \subseteq Admins' /\ nextId' > 1
    BY <1>7, <2>1
  <2>4. \A a : Safe(a) => Safe(a)'
    BY <1>1, <2>1, IdleTypes DEF Safe
  <2> QED
    BY <2>1, <2>2, <2>3, <2>4 DEF MInv, Spared
<1>10. ASSUME NEW r \in Requests, CreateSession(r)
       PROVE  Spared'
  <2>1. PICK p : request' = [request EXCEPT ![r] = p] /\ p.step \in {"idle", "change", "question"}
    <3>1. \A t \in {"change", "question"} : [request[r] EXCEPT !.step = t].step = t
      BY <1>0 DEF RequestSet
    <3> QED
      BY <1>10, <3>1, IdleTypes DEF CreateSession
  <2>2. nextId # 1 /\ UNCHANGED <<user, nextId, overlapped>>
    BY <1>5, <1>10 DEF CreateSession
  <2> QED
    BY <1>2, <1>3, <2>1, <2>2
<1>11. ASSUME NEW r \in Requests, ChangePassword(r) \/ StoreQuestion(r) \/ ClearRecovery(r)
       PROVE  Spared'
  <2>1. /\ request' = [request EXCEPT ![r] = Idle] /\ nextId # 1
        /\ UNCHANGED <<nextId, overlapped>>
    BY <1>5, <1>11 DEF ChangePassword, StoreQuestion, ClearRecovery, Done
  <2>2. \A id \in Ids : user'[id] = user[id] \/ user'[id].role = user[id].role
    BY <1>0, <1>11, FieldChanges
  <2>3. Admins \subseteq Admins'
    BY <2>2 DEF Admins
  <2> QED
    BY <1>3, <2>1, <2>3, IdleTypes
<1>12. ASSUME NEW s \in sessions, Logout(s)
       PROVE  Spared'
  BY <1>2, <1>12, SparedStays DEF Logout, MInv, Spared
<1>13. ASSUME NEW r \in Requests, StorePassword(r)
       PROVE  Spared'
  <2>1. request' = [request EXCEPT ![r] = [request[r] EXCEPT !.step = "signOut"]]
    BY <1>0, <1>13 DEF StorePassword, Goto, TInv, AccountsTypeOK, RequestSet
  <2>2. [request[r] EXCEPT !.step = "signOut"].step = "signOut"
    BY <1>0 DEF RequestSet
  <2>3. nextId # 1 /\ UNCHANGED <<nextId, overlapped>>
    BY <1>5, <1>13 DEF StorePassword
  <2>4. ASSUME NEW id \in Ids
        PROVE  user'[id] = user[id] \/ user'[id].role = user[id].role
    <3>1. CASE user' = user
      BY <3>1
    <3>2. ASSUME Exists(request[r].id), NEW p, user' =
                   [user EXCEPT ![request[r].id].password = p, ![request[r].id].reset = p]
          PROVE  user'[id] = user[id] \/ user'[id].role = user[id].role
      <4>1. CASE id = request[r].id
        <5>1. user'[id] = [user[id] EXCEPT !.password = p, !.reset = p]
          BY <1>0, <3>2, <4>1 DEF TInv, AccountsTypeOK
        <5>2. \A w \in UserSet : [w EXCEPT !.password = p, !.reset = p].role = w.role
          BY DEF UserSet
        <5> QED
          BY <1>0, <3>2, <4>1, <5>1, <5>2 DEF Exists
      <4>2. CASE id # request[r].id
        BY <1>0, <3>2, <4>2 DEF TInv, AccountsTypeOK
      <4> QED
        BY <4>1, <4>2
    <3>3. \/ user' = user
          \/ Exists(request[r].id) /\ \E p : user' =
               [user EXCEPT ![request[r].id].password = p, ![request[r].id].reset = p]
      BY <1>13 DEF StorePassword
    <3> QED
      BY <3>1, <3>2, <3>3
  <2>5. Admins \subseteq Admins'
    BY <2>4 DEF Admins
  <2> QED
    BY <1>3, <2>1, <2>2, <2>3, <2>5
<1>14. ASSUME NEW r \in Requests, DeleteSessions(r)
       PROVE  Spared'
  <2>1. request'[r].step \in {"idle", "clear"}
    BY <1>14 DEF DeleteSessions, Idle
  <2>2. ASSUME NEW q \in Requests \ {r}
        PROVE  /\ request'[q].step = request[q].step /\ request'[q].id = request[q].id
               /\ request'[q].count = request[q].count
    BY <1>0, <1>14 DEF DeleteSessions, RequestSet
  <2>3. nextId # 1 /\ UNCHANGED <<user, nextId, overlapped>>
    BY <1>5, <1>14 DEF DeleteSessions
  <2> QED
    BY <1>2, <2>1, <2>2, <2>3, SparedStays
<1>15. ASSUME NEW r \in Requests, CountAdmins(r)
       PROVE  Spared'
  <2> DEFINE c == Cardinality(Admins)
             id == request[r].id
  <2>1. request' = [request EXCEPT ![r] = [request[r] EXCEPT !.step = "delete", !.count = c]]
    BY <1>0, <1>15 DEF CountAdmins, TInv, AccountsTypeOK, RequestSet
  <2>2. /\ request'[r].step = "delete" /\ request'[r].id = id /\ request'[r].count = c
        /\ \A q \in Requests \ {r} : request'[q] = request[q]
    BY <1>0, <2>1 DEF TInv, AccountsTypeOK, RequestSet
  <2>3. nextId # 1 /\ UNCHANGED <<user, nextId>> /\ Admins' = Admins
    BY <1>5, <1>15 DEF CountAdmins, Admins
  <2>4. ASSUME ~ overlapped', nextId > 1
        PROVE  \E a \in Admins : Safe(a)'
    <3>1. PICK a \in Admins : Safe(a)
      BY <1>15, <2>4 DEF CountAdmins, MInv, Spared
    <3>2. CASE a # id \/ ~ (c > 1)
      <4>1. Safe(a)'
        BY <1>0, <2>2, <3>1, <3>2, AdminsAreFinite DEF Safe
      <4> QED
        BY <4>1
    <3>3. CASE a = id /\ c > 1
      <4>1. PICK b \in Admins : b # id
        BY <1>0, <3>1, <3>3, LastIsSafe
      <4>2. \A q \in Requests : ~ (request[q].step = "delete" /\ request[q].id = b)
        BY <1>15, <2>4, <3>1, <3>3, <4>1 DEF CountAdmins
      <4>3. Safe(b)'
        BY <2>2, <4>1, <4>2 DEF Safe
      <4> QED
        BY <4>3
    <3> QED
      BY <3>2, <3>3
  <2> QED
    BY <2>3, <2>4 DEF Spared
<1>16. ASSUME NEW r \in Requests, DeleteUser(r)
       PROVE  Spared'
  <2>1. request' = [request EXCEPT ![r] = Idle] /\ nextId # 1 /\ UNCHANGED <<nextId, overlapped>>
    BY <1>5, <1>16 DEF DeleteUser, Done
  <2>2. ASSUME NEW a \in Admins, Safe(a)
        PROVE  a \in Admins' /\ Safe(a)'
    <3>1. user'[a] = user[a]
      BY <1>0, <1>16, <2>2 DEF DeleteUser, Safe, Admins, TInv, AccountsTypeOK
    <3>2. Safe(a)'
      BY <1>1, <2>1, <2>2, IdleTypes DEF Safe
    <3> QED
      BY <3>1, <3>2 DEF Admins
  <2> QED
    BY <2>1, <2>2 DEF MInv, Spared
<1>17. CASE AccountsRestart
  <2>1. UNCHANGED <<user, nextId, overlapped>> /\ \A r \in Requests : request'[r].step = "idle"
    BY <1>17, IdleTypes DEF AccountsRestart
  <2> QED
    BY <1>2, <2>1, SparedStays
<1>18. ASSUME NEW r \in Requests, NEW n \in Names, SetupCheck(r, n)
       PROVE  Spared'
  <2>1. request' = [request EXCEPT ![r] = [request[r] EXCEPT !.step = "setup", !.name = n]]
    BY <1>0, <1>18 DEF SetupCheck, TInv, AccountsTypeOK, RequestSet
  <2>2. [request[r] EXCEPT !.step = "setup", !.name = n].step = "setup"
    BY <1>0 DEF RequestSet
  <2>3. nextId = 1 => \A p \in Requests : request'[p].step \in {"idle", "setup"}
    BY <1>0, <2>1, <2>2 DEF MInv, Spared, TInv, AccountsTypeOK
  <2>4. UNCHANGED <<user, nextId, overlapped>>
    BY <1>18 DEF SetupCheck
  <2> QED
    BY <1>1, <1>2, <2>1, <2>2, <2>3, <2>4, SparedStays
<1>19. ASSUME NEW r \in Requests, Prepares(r)
       PROVE  Spared'
  <2>1. PICK q \in Prepared : request' = [request EXCEPT ![r] = q]
    BY <1>0, <1>19, OnlyPrepares
  <2>2. UNCHANGED <<user, nextId, overlapped>> /\ nextId # 1
    BY <1>0, <1>4, <1>5, <1>19, OnlyPrepares
  <2> QED
    BY <1>2, <1>3, <2>1, <2>2 DEF Prepared
<1>23. CASE UNCHANGED accountVars
  BY <1>2, <1>23, SparedStays DEF accountVars, MInv, Spared
<1>24. ASSUME NEW r \in Requests, NEW n \in Names, NEW p \in 0 .. MaxPassword, Login(r, n, p)
       PROVE  Spared'
  BY <1>6, <1>24 DEF Login, Named
<1>25. ASSUME NEW r \in Requests, NEW p \in 0 .. MaxPassword, VerifyOwn(r, p)
       PROVE  Spared'
  BY <1>6, <1>25 DEF VerifyOwn, Named
<1> QED
  BY <1>8, <1>9, <1>10, <1>11, <1>12, <1>13, <1>14, <1>15, <1>16, <1>17, <1>18, <1>19, <1>23,
     <1>24, <1>25 DEF AccountsNext, Prepares

(* "cannot delete the last administrator", for any number of requests that *)
(* count and delete in separate statements, with the exception the         *)
(* property names (Manager.DeleteUser).                                    *)
THEOREM AnAdministratorRemains == AccountsSpec => []AdministratorRemains
<1>1. AccountsInit => MInv
  BY NothingAtFirst, InitKnown DEF MInv, NInv, Owned, Spared, SignsIn
<1>2. MInv => AdministratorRemains
  BY DEF MInv, Spared, AdministratorRemains
<1> QED
  BY <1>1, <1>2, NextSpared, PTL DEF AccountsSpec

-----------------------------------------------------------------------------
(* LoginLimiter. Attempts that have passed the lock of their account.      *)
Passed(k) == {a \in Attempts : attempt[a].step \in {"verify", "right", "wrong"}
                               /\ attempt[a].account = k}

LockTypes ==
  /\ clock \in Nat \ {0}
  /\ lock \in [Accounts -> LockSet]
  /\ attempt \in [Attempts -> AttemptSet]
  /\ \A a \in Attempts : attempt[a].step # "idle" => attempt[a].account \in Accounts
  /\ guesses \in [Accounts -> Nat]

(* While there is no lock, what has been guessed is what is counted; a     *)
(* lock that has ended has no guesses; and one that holds leaves only the  *)
(* attempts that have passed it.                                           *)
Counted(k) ==
  /\ lock[k].until = 0 => guesses[k] = lock[k].failures /\ lock[k].failures < MaxFailures
  /\ lock[k].until # 0 /\ ~ Locked(k) => guesses[k] = 0
  /\ Locked(k) => guesses[k] + Cardinality(Passed(k)) <= MaxFailures + Cardinality(Attempts) - 1

LInv == LockTypes /\ \A k \in Accounts : Counted(k)

LEMMA PassedAreFinite ==
  ASSUME NEW k
  PROVE  /\ IsFiniteSet(Passed(k)) /\ Cardinality(Passed(k)) \in Nat
         /\ Cardinality(Attempts) \in Nat /\ Cardinality(Passed(k)) <= Cardinality(Attempts)
<1>1. Passed(k) \in SUBSET Attempts
  BY DEF Passed
<1> QED
  BY <1>1, FS_Subset, FS_CardinalityType, LimiterAssumption

LEMMA FewerPass ==
  ASSUME NEW k, Passed(k)' \subseteq Passed(k)
  PROVE  /\ Cardinality(Passed(k)') \in Nat /\ Cardinality(Passed(k)') <= Cardinality(Passed(k))
         /\ \A a \in Passed(k) \ Passed(k)' : Cardinality(Passed(k)') < Cardinality(Passed(k))
<1>1. IsFiniteSet(Passed(k)) /\ Cardinality(Passed(k)) \in Nat
  BY PassedAreFinite
<1>2. /\ IsFiniteSet(Passed(k)') /\ Cardinality(Passed(k)') <= Cardinality(Passed(k))
      /\ Cardinality(Passed(k)) = Cardinality(Passed(k)') => Passed(k) = Passed(k)'
  BY <1>1, FS_Subset
<1>3. Cardinality(Passed(k)') \in Nat
  BY <1>2, FS_CardinalityType
<1> QED
  BY <1>1, <1>2, <1>3

(* What is left of a lock that has ended.                                  *)
LEMMA LapsedLock ==
  ASSUME NEW l \in LockSet, l.until # 0
  PROVE  Lapsed(l) \in LockSet /\ Lapsed(l).until = 0 /\ Lapsed(l).failures = 0
<1>1. ASSUME NEW f \in 0 .. MaxFailures, NEW u \in Nat
      PROVE  /\ [l EXCEPT !.failures = f, !.until = u] \in LockSet
             /\ [l EXCEPT !.failures = f, !.until = u].failures = f
             /\ [l EXCEPT !.failures = f, !.until = u].until = u
  BY DEF LockSet
<1>2. Lapsed(l) = [l EXCEPT !.failures = 0, !.until = 0]
  BY DEF Lapsed
<1>3. 0 \in 0 .. MaxFailures
  BY LimiterAssumption
<1> QED
  BY <1>1, <1>2, <1>3

LEMMA InitCounted == LimiterInit => LInv
<1> SUFFICES ASSUME LimiterInit
             PROVE  LInv
  OBVIOUS
<1>1. NoLock \in LockSet /\ NoLock.until = 0 /\ NoLock.failures = 0
  BY LimiterAssumption DEF NoLock, LockSet
<1>2. NoAttempt \in AttemptSet /\ NoAttempt.step = "idle"
  BY DEF NoAttempt, AttemptSet
<1>3. LockTypes
  BY <1>1, <1>2 DEF LimiterInit, LockTypes
<1> QED
  BY <1>1, <1>3, LimiterAssumption DEF LimiterInit, LInv, Counted, Locked

LEMMA NextCounted ==
  LInv /\ [LimiterNext]_limiterVars =>
    /\ LInv'
    /\ \A k \in Accounts :
         /\ Locked(k) /\ ~ (clock' < lock'[k].until) =>
              clock' >= lock[k].until
              \/ \E a \in Attempts : attempt[a].step = "right" /\ attempt'[a] = NoAttempt
         /\ lock'[k].until > lock[k].until => guesses'[k] >= MaxFailures
<1> SUFFICES ASSUME LInv, [LimiterNext]_limiterVars
             PROVE  /\ LInv'
                    /\ \A k \in Accounts :
                         /\ Locked(k) /\ ~ (clock' < lock'[k].until) =>
                              clock' >= lock[k].until
                              \/ \E a \in Attempts : attempt[a].step = "right" /\ attempt'[a] = NoAttempt
                         /\ lock'[k].until > lock[k].until => guesses'[k] >= MaxFailures
  OBVIOUS
<1> DEFINE Lasts(k) == Locked(k) /\ ~ (clock' < lock'[k].until) =>
             clock' >= lock[k].until
             \/ \E a \in Attempts : attempt[a].step = "right" /\ attempt'[a] = NoAttempt
           Earned(k) == lock'[k].until > lock[k].until => guesses'[k] >= MaxFailures
           Good == LInv' /\ \A k \in Accounts : Lasts(k) /\ Earned(k)
<1>0. /\ \A k \in Accounts : /\ lock[k] \in LockSet /\ lock[k].until \in Nat
                             /\ lock[k].failures \in 0 .. MaxFailures /\ guesses[k] \in Nat
                             /\ Counted(k)
      /\ \A a \in Attempts : attempt[a] \in AttemptSet
      /\ clock \in Nat \ {0} /\ LockTypes
      /\ NoAttempt \in AttemptSet /\ NoAttempt.step = "idle"
      /\ NoLock \in LockSet /\ NoLock.until = 0 /\ NoLock.failures = 0
  <2>1. /\ NoAttempt \in AttemptSet /\ NoAttempt.step = "idle"
        /\ NoLock \in LockSet /\ NoLock.until = 0 /\ NoLock.failures = 0
    BY LimiterAssumption DEF LockSet, NoAttempt, AttemptSet, NoLock
  <2>2. \A l \in LockSet : l.until \in Nat /\ l.failures \in 0 .. MaxFailures
    BY DEF LockSet
  <2> QED
    BY <2>1, <2>2 DEF LInv, LockTypes
(* Who is let through by no lock does not matter to one that holds.        *)
<1>1. ASSUME NEW k \in Accounts, lock'[k] = lock[k], guesses'[k] = guesses[k], clock' = clock,
             Locked(k) => Passed(k)' \subseteq Passed(k)
      PROVE  Counted(k)' /\ Lasts(k) /\ Earned(k)
  <2>1. Locked(k)' <=> Locked(k)
    BY <1>1 DEF Locked
  <2>2. Locked(k) => Cardinality(Passed(k)') \in Nat /\ Cardinality(Passed(k)') <= Cardinality(Passed(k))
    BY <1>1, FewerPass
  <2>3. Cardinality(Passed(k)) \in Nat /\ Cardinality(Attempts) \in Nat
    BY PassedAreFinite
  <2>4. Counted(k)'
    BY <1>0, <1>1, <2>1, <2>2, <2>3, LimiterAssumption DEF Counted
  <2>5. Lasts(k) /\ Earned(k)
    BY <1>0, <1>1 DEF Locked
  <2> QED
    BY <2>4, <2>5
<1>2. ASSUME NEW a \in Attempts, NEW i \in Addresses, NEW k \in Accounts, AllowIP(a, i, k)
      PROVE  Good
  <2> DEFINE q == [step |-> "admitted", address |-> i, account |-> k]
  <2>1. q \in AttemptSet /\ q.step = "admitted" /\ q.account = k
    BY DEF AttemptSet
  <2>2. /\ attempt' = [attempt EXCEPT ![a] = q] /\ UNCHANGED <<clock, lock, guesses>>
    BY <1>2 DEF AllowIP
  <2>3. LockTypes'
    BY <1>0, <2>1, <2>2 DEF LockTypes
  <2>4. \A j \in Accounts : Passed(j)' \subseteq Passed(j)
    BY <1>0, <2>1, <2>2 DEF Passed, LockTypes
  <2> QED
    BY <1>1, <2>2, <2>3, <2>4 DEF LInv
<1>3. ASSUME NEW a \in Attempts, NEW i \in Addresses, RefuseIP(a, i)
      PROVE  Good
  <2>1. UNCHANGED <<clock, lock, attempt, guesses>>
    BY <1>3 DEF RefuseIP
  <2> QED
    BY <1>0, <1>1, <2>1 DEF LInv, LockTypes, Passed
<1>4. ASSUME NEW a \in Attempts, IsUserLocked(a)
      PROVE  Good
  <2>1. PICK k \in Accounts : k = attempt[a].account /\ clock' = clock /\ guesses' = guesses
    BY <1>0, <1>4 DEF IsUserLocked, LockTypes
  <2>2. CASE Locked(k)
    <3>1. attempt' = [attempt EXCEPT ![a] = NoAttempt] /\ lock' = lock
      BY <1>4, <2>1, <2>2 DEF IsUserLocked
    <3>2. LockTypes'
      BY <1>0, <2>1, <3>1 DEF LockTypes
    <3>3. \A j \in Accounts : Passed(j)' \subseteq Passed(j)
      BY <1>0, <3>1 DEF Passed, LockTypes
    <3> QED
      BY <1>1, <2>1, <3>1, <3>2, <3>3 DEF LInv
  <2>3. CASE ~ Locked(k)
    <3>1. /\ attempt' = [attempt EXCEPT ![a].step = "verify"]
          /\ lock' = [lock EXCEPT ![k] = Lapsed(lock[k])]
      BY <1>4, <2>1, <2>3 DEF IsUserLocked, Proceed
    <3>2. /\ Lapsed(lock[k]) \in LockSet
          /\ Lapsed(lock[k]).until = 0 /\ guesses[k] = Lapsed(lock[k]).failures
          /\ Lapsed(lock[k]).failures < MaxFailures
      <4>1. CASE lock[k].until = 0
        BY <1>0, <4>1 DEF Lapsed, Counted
      <4>2. CASE lock[k].until # 0
        <5>1. lock[k] \in LockSet /\ guesses[k] = 0
          BY <1>0, <2>3, <4>2 DEF Counted
        <5> QED
          BY <1>0, <2>1, <4>2, <5>1, LapsedLock, LimiterAssumption
      <4> QED
        BY <4>1, <4>2
    <3>3. attempt' \in [Attempts -> AttemptSet]
      BY <1>0, <3>1 DEF LockTypes, AttemptSet
    <3>4. /\ attempt'[a].account = k /\ \A b \in Attempts \ {a} : attempt'[b] = attempt[b]
      BY <1>0, <2>1, <3>1 DEF LockTypes, AttemptSet
    <3>5. LockTypes'
      BY <1>0, <2>1, <3>1, <3>2, <3>3, <3>4 DEF LockTypes
    <3>6. \A j \in Accounts \ {k} : lock'[j] = lock[j] /\ Passed(j)' \subseteq Passed(j)
      BY <1>0, <3>1, <3>4 DEF Passed, LockTypes
    <3>7. lock'[k] = Lapsed(lock[k])
      BY <1>0, <2>1, <3>1 DEF LockTypes
    <3>8. ~ Locked(k)' /\ Counted(k)' /\ Lasts(k) /\ Earned(k)
      BY <1>0, <2>1, <2>3, <3>2, <3>7 DEF Locked, Counted
    <3>9. \A j \in Accounts \ {k} : Counted(j)' /\ Lasts(j) /\ Earned(j)
      BY <1>1, <2>1, <3>6
    <3> QED
      BY <3>5, <3>8, <3>9 DEF LInv
  <2> QED
    BY <2>2, <2>3
<1>5. ASSUME NEW a \in Attempts, Check(a)
      PROVE  Good
  <2>1. PICK s \in {"right", "wrong"} : attempt' = [attempt EXCEPT ![a].step = s]
    BY <1>5 DEF Check, Proceed
  <2>2. UNCHANGED <<clock, lock, guesses>> /\ attempt[a].step = "verify"
    BY <1>5 DEF Check
  <2>3. attempt' \in [Attempts -> AttemptSet]
    BY <1>0, <2>1 DEF LockTypes, AttemptSet
  <2>4. /\ attempt'[a].account = attempt[a].account
        /\ \A b \in Attempts \ {a} : attempt'[b] = attempt[b]
    BY <1>0, <2>1 DEF LockTypes, AttemptSet
  <2>5. LockTypes'
    BY <1>0, <2>2, <2>3, <2>4 DEF LockTypes
  <2>6. \A j \in Accounts : Passed(j)' \subseteq Passed(j)
    BY <2>2, <2>4 DEF Passed
  <2> QED
    BY <1>1, <2>2, <2>5, <2>6 DEF LInv
<1>6. ASSUME NEW a \in Attempts, RecordUserFailure(a)
      PROVE  Good
  <2>1. PICK k \in Accounts : k = attempt[a].account /\ clock' = clock /\ a \in Passed(k)
    BY <1>0, <1>6 DEF RecordUserFailure, LockTypes, Passed
  <2>2. /\ attempt' = [attempt EXCEPT ![a] = NoAttempt]
        /\ guesses' = [guesses EXCEPT ![k] = guesses[k] + 1]
    BY <1>6, <2>1 DEF RecordUserFailure
  <2>3. /\ attempt' \in [Attempts -> AttemptSet] /\ guesses' \in [Accounts -> Nat]
        /\ \A b \in Attempts : attempt'[b].step # "idle" => attempt'[b].account \in Accounts
        /\ guesses'[k] = guesses[k] + 1 /\ \A j \in Accounts \ {k} : guesses'[j] = guesses[j]
    BY <1>0, <2>1, <2>2 DEF LockTypes
  <2>4. /\ \A j \in Accounts : Passed(j)' \subseteq Passed(j)
        /\ a \in Passed(k) \ Passed(k)'
    BY <1>0, <2>1, <2>2 DEF LockTypes, Passed
  <2>5. /\ Cardinality(Passed(k)) \in Nat /\ Cardinality(Attempts) \in Nat
        /\ Cardinality(Passed(k)) <= Cardinality(Attempts)
        /\ Cardinality(Passed(k)') \in Nat /\ Cardinality(Passed(k)') < Cardinality(Passed(k))
    BY <2>4, FewerPass, PassedAreFinite
  <2>6. CASE Locked(k)
    <3>1. lock' = [lock EXCEPT ![k] = [lock[k] EXCEPT !.last = clock]]
      BY <1>6, <2>1, <2>6 DEF RecordUserFailure
    <3>2. /\ [lock[k] EXCEPT !.last = clock] \in LockSet
          /\ [lock[k] EXCEPT !.last = clock].until = lock[k].until
      BY <1>0, <2>1 DEF LockSet
    <3>3. /\ lock' \in [Accounts -> LockSet] /\ lock'[k].until = lock[k].until
          /\ \A j \in Accounts \ {k} : lock'[j] = lock[j]
      BY <1>0, <2>1, <3>1, <3>2 DEF LockTypes
    <3>4. LockTypes'
      BY <1>0, <2>1, <2>3, <3>3 DEF LockTypes
    <3>5. Counted(k)' /\ Lasts(k) /\ Earned(k)
      BY <1>0, <2>1, <2>3, <2>5, <2>6, <3>3, LimiterAssumption DEF Counted, Locked
    <3>6. \A j \in Accounts \ {k} : Counted(j)' /\ Lasts(j) /\ Earned(j)
      BY <1>1, <2>1, <2>3, <2>4, <3>3
    <3> QED
      BY <3>4, <3>5, <3>6 DEF LInv
  <2>7. CASE ~ Locked(k)
    <3>1. PICK n, closed :
            /\ n = Lapsed(lock[k]).failures + 1
            /\ closed = [failures |-> n, last |-> clock, there |-> TRUE,
                         until |-> IF n >= MaxFailures THEN clock + LockWindow ELSE 0]
            /\ lock' = [lock EXCEPT ![k] = closed]
      BY <1>6, <2>1, <2>7 DEF RecordUserFailure
    <3>2. Lapsed(lock[k]).failures = guesses[k] /\ guesses[k] < MaxFailures
      BY <1>0, <2>1, <2>7, LimiterAssumption DEF Lapsed, LockSet, Counted
    <3>3. n \in 1 .. MaxFailures /\ n = guesses[k] + 1
      BY <1>0, <3>1, <3>2, LimiterAssumption
    <3>4. closed \in LockSet /\ closed.failures = n
          /\ closed.until = IF n >= MaxFailures THEN clock + LockWindow ELSE 0
      BY <1>0, <3>1, <3>3, LimiterAssumption DEF LockSet
    <3>5. /\ lock' \in [Accounts -> LockSet] /\ lock'[k] = closed
          /\ \A j \in Accounts \ {k} : lock'[j] = lock[j]
      BY <1>0, <2>1, <3>1, <3>4 DEF LockTypes
    <3>6. LockTypes'
      BY <1>0, <2>1, <2>3, <3>5 DEF LockTypes
    <3>7. Counted(k)' /\ Lasts(k) /\ Earned(k)
      <4>1. CASE n >= MaxFailures
        <5>1. n = MaxFailures /\ closed.until > clock /\ closed.until # 0
          BY <1>0, <3>3, <3>4, <4>1, LimiterAssumption
        <5>2. guesses'[k] = MaxFailures
          BY <2>3, <3>3, <5>1
        <5>3. guesses'[k] + Cardinality(Passed(k)') <= MaxFailures + Cardinality(Attempts) - 1
          BY <2>5, <5>2, LimiterAssumption
        <5> QED
          BY <2>1, <2>7, <3>5, <5>1, <5>2, <5>3, LimiterAssumption DEF Counted, Locked
      <4>2. CASE ~ (n >= MaxFailures)
        <5>1. closed.until = 0 /\ n < MaxFailures /\ guesses'[k] = n
          BY <2>3, <3>3, <3>4, <4>2, LimiterAssumption
        <5> QED
          BY <1>0, <2>1, <2>7, <3>4, <3>5, <5>1 DEF Counted, Locked
      <4> QED
        BY <4>1, <4>2
    <3>8. \A j \in Accounts \ {k} : Counted(j)' /\ Lasts(j) /\ Earned(j)
      BY <1>1, <2>1, <2>3, <2>4, <3>5
    <3> QED
      BY <3>6, <3>7, <3>8 DEF LInv
  <2> QED
    BY <2>6, <2>7
<1>7. ASSUME NEW a \in Attempts, RecordUserSuccess(a)
      PROVE  Good
  <2>1. PICK k \in Accounts : k = attempt[a].account /\ clock' = clock /\ attempt[a].step = "right"
    BY <1>0, <1>7 DEF RecordUserSuccess, LockTypes
  <2>2. /\ attempt' = [attempt EXCEPT ![a] = NoAttempt]
        /\ guesses' = [guesses EXCEPT ![k] = 0] /\ lock' = [lock EXCEPT ![k] = NoLock]
    BY <1>7, <2>1 DEF RecordUserSuccess
  <2>3. LockTypes'
    BY <1>0, <2>1, <2>2 DEF LockTypes
  <2>4. /\ lock'[k] = NoLock /\ guesses'[k] = 0 /\ attempt'[a] = NoAttempt
        /\ \A j \in Accounts \ {k} : lock'[j] = lock[j] /\ guesses'[j] = guesses[j]
    BY <1>0, <2>1, <2>2 DEF LockTypes
  <2>5. \A j \in Accounts : Passed(j)' \subseteq Passed(j)
    BY <1>0, <2>2 DEF Passed, LockTypes
  <2>6. Counted(k)' /\ Lasts(k) /\ Earned(k)
    BY <1>0, <2>1, <2>4, LimiterAssumption DEF Counted, Locked
  <2>7. \A j \in Accounts \ {k} : Counted(j)' /\ Lasts(j) /\ Earned(j)
    BY <1>1, <2>1, <2>4, <2>5
  <2> QED
    BY <2>3, <2>6, <2>7 DEF LInv
<1>8. CASE Cleanup
  <2>1. clock' = clock /\ attempt' = attempt
    BY <1>8 DEF Cleanup
  <2>2. \A k \in Accounts : Passed(k)' \subseteq Passed(k)
    BY <2>1 DEF Passed
  <2>3. ASSUME NEW k \in Accounts
        PROVE  \/ lock'[k] = lock[k] /\ guesses'[k] = guesses[k]
               \/ ~ Locked(k) /\ lock'[k] = NoLock /\ guesses'[k] = 0
    BY <1>8 DEF Cleanup, Outdated
  <2>4. lock' \in [Accounts -> LockSet] /\ guesses' \in [Accounts -> Nat]
    BY <1>0, <1>8 DEF Cleanup
  <2>5. LockTypes'
    BY <1>0, <2>1, <2>4 DEF LockTypes
  <2>6. ASSUME NEW k \in Accounts, ~ Locked(k), lock'[k] = NoLock, guesses'[k] = 0
        PROVE  Counted(k)' /\ Lasts(k) /\ Earned(k)
    BY <1>0, <2>1, <2>6, LimiterAssumption DEF Counted, Locked
  <2> QED
    BY <1>1, <2>1, <2>2, <2>3, <2>5, <2>6 DEF LInv
<1>9. CASE ClockTicks
  <2>1. /\ clock' = clock + 1 /\ lock' = lock /\ attempt' = attempt
        /\ guesses' = [k \in Accounts |-> IF lock[k].until = clock' THEN 0 ELSE guesses[k]]
    BY <1>9 DEF ClockTicks
  <2>2. LockTypes'
    BY <1>0, <2>1 DEF LockTypes
  <2>3. ASSUME NEW k \in Accounts
        PROVE  Counted(k)' /\ Lasts(k) /\ Earned(k)
    <3>1. Passed(k)' = Passed(k)
      BY <2>1 DEF Passed
    <3>2. guesses'[k] = IF lock[k].until = clock + 1 THEN 0 ELSE guesses[k]
      BY <2>1
    <3>3. Cardinality(Passed(k)) \in Nat /\ Cardinality(Attempts) \in Nat
      BY PassedAreFinite
    <3>4. Counted(k)'
      BY <1>0, <2>1, <3>1, <3>2, <3>3, LimiterAssumption DEF Counted, Locked
    <3>5. Lasts(k) /\ Earned(k)
      BY <1>0, <2>1 DEF Locked
    <3> QED
      BY <3>4, <3>5
  <2> QED
    BY <2>2, <2>3 DEF LInv
<1>10. CASE UNCHANGED limiterVars
  <2>1. UNCHANGED <<clock, lock, attempt, guesses>>
    BY <1>10 DEF limiterVars
  <2> QED
    BY <1>0, <1>1, <2>1 DEF LInv, LockTypes, Passed
<1>11. ASSUME NEW a \in Attempts, EndEarly(a)
       PROVE  Good
  <2>1. attempt' = [attempt EXCEPT ![a] = NoAttempt] /\ UNCHANGED <<clock, lock, guesses>>
    BY <1>11 DEF EndEarly
  <2>2. LockTypes'
    BY <1>0, <2>1 DEF LockTypes
  <2>3. \A j \in Accounts : Passed(j)' \subseteq Passed(j)
    BY <1>0, <2>1 DEF LockTypes, Passed
  <2> QED
    BY <1>1, <2>1, <2>2, <2>3 DEF LInv
<1>12. Good
  BY <1>2, <1>3, <1>4, <1>5, <1>6, <1>7, <1>8, <1>9, <1>10, <1>11 DEF LimiterNext
<1> QED
  BY <1>12

(* "5 failed attempts" and a lock: passwords guessed between two locks are *)
(* bounded however attempts interleave, a lock takes the full number of    *)
(* failures, and only time, or an attempt that turns out right, ends it    *)
(* (RateLimiter.IsUserLocked, RecordUserFailure, cleanup).                 *)
THEOREM LocksHold == LimiterSpec => []GuessesBounded /\ LocksLast /\ LocksAreEarned
<1>1. LInv => GuessesBounded
  <2> SUFFICES ASSUME LInv, NEW k \in Accounts
               PROVE  guesses[k] <= MaxFailures + Cardinality(Attempts) - 1
    BY DEF GuessesBounded
  <2>1. /\ Counted(k) /\ guesses[k] \in Nat /\ lock[k].until \in Nat
        /\ lock[k].failures \in 0 .. MaxFailures
    BY DEF LInv, LockTypes, LockSet
  <2>2. Cardinality(Passed(k)) \in Nat /\ Cardinality(Attempts) \in Nat
    BY PassedAreFinite
  <2> QED
    BY <2>1, <2>2, LimiterAssumption DEF Counted
<1>2. LInv /\ [LimiterNext]_limiterVars =>
        [\A k \in Accounts : Locked(k) /\ ~ (clock' < lock'[k].until) =>
           clock' >= lock[k].until
           \/ \E a \in Attempts : attempt[a].step = "right" /\ attempt'[a] = NoAttempt]_limiterVars
  BY NextCounted
<1>3. LInv /\ [LimiterNext]_limiterVars =>
        [\A k \in Accounts : lock'[k].until > lock[k].until => guesses'[k] >= MaxFailures]_limiterVars
  BY NextCounted
<1> QED
  BY <1>1, <1>2, <1>3, InitCounted, NextCounted, PTL DEF LimiterSpec, LocksLast, LocksAreEarned

-----------------------------------------------------------------------------
(* LoginLimiter, the requests of an address. A set of numbers has a least  *)
(* one.                                                                    *)
LEMMA LeastNat ==
  ASSUME NEW S \in SUBSET Nat, S # {}
  PROVE  \E n \in S : \A m \in S : n <= m
<1>1. IsWellFoundedOn(OpToRel(<, Nat), Nat)
  BY NatLessThanWellFounded, Zenon
<1>2. PICK n \in S : \A m \in S : ~ (<<m, n>> \in OpToRel(<, Nat))
  BY <1>1, WFMin, Zenon
<1>3. \A x, y \in Nat : x < y => <<x, y>> \in OpToRel(<, Nat)
  BY Zenon DEF OpToRel
<1>4. ASSUME NEW m \in S PROVE n <= m
  <2>1. m \in Nat /\ n \in Nat /\ ~ (m < n)
    BY <1>2, <1>3, Zenon
  <2> QED
    BY <2>1
<1> QED
  BY <1>4

(* Instants, in the order that they were granted in.                       *)
Times == Seq(1 .. MaxTime)

Rising(s) == \A j, k \in 1 .. Len(s) : j <= k => s[j] <= s[k]

(* The times that are kept are the last of those ever granted, and the     *)
(* others are out of the window.                                           *)
EndOf(s, g, d) == d \in 0 .. Len(g) /\ Len(s) = Len(g) - d /\ \A j \in 1 .. Len(s) : s[j] = g[d + j]

Trails(s, g, now) == \E d \in 0 .. Len(g) : EndOf(s, g, d) /\ \A j \in 1 .. d : g[j] + Window <= now

(* A window holds no more than MaxRequests of them.                        *)
Spaced(g) == \A n \in 1 .. Len(g) - MaxRequests : g[n + MaxRequests] >= g[n] + Window

LEMMA TimesAreNumbers == \A s \in Times : \A j \in 1 .. Len(s) : s[j] \in Nat
<1> SUFFICES ASSUME NEW s \in Times, NEW j \in 1 .. Len(s) PROVE s[j] \in Nat
  OBVIOUS
<1> DEFINE T == 1 .. MaxTime
<1>1. s \in Seq(T)
  BY DEF Times
<1> HIDE DEF T
<1>2. s[j] \in T
  BY <1>1
<1> QED
  BY <1>2 DEF T

(* Of times that rise, the recent ones are the last.                       *)
LEMMA RecentIsTheEnd ==
  ASSUME NEW s \in Times, Rising(s), clock \in Nat
  PROVE  \E n \in 0 .. Len(s) :
           /\ Recent(s) = SubSeq(s, n + 1, Len(s))
           /\ \A j \in 1 .. Len(s) : j <= n <=> s[j] + Window <= clock
<1> DEFINE R == {j \in 1 .. Len(s) : ~ (s[j] + Window <= clock)} \cup {Len(s) + 1}
<1>1. Len(s) \in Nat /\ Window \in Nat /\ \A j \in 1 .. Len(s) : s[j] \in Nat
  BY LimiterAssumption DEF Times
<1>2. R \in SUBSET Nat /\ R # {} /\ Len(s) + 1 \in R
  BY <1>1
<1>3. PICK x \in R : \A m \in R : x <= m
  BY <1>2, LeastNat
<1>4. x \in 1 .. Len(s) + 1 /\ x - 1 \in 0 .. Len(s)
  BY <1>1, <1>2, <1>3
<1>5. ASSUME NEW j \in 1 .. Len(s) PROVE j <= x - 1 <=> s[j] + Window <= clock
  <2>1. CASE j <= x - 1
    <3>1. j \notin R
      BY <2>1, <1>3, <1>4
    <3> QED
      BY <3>1, <2>1
  <2>2. CASE ~ (j <= x - 1)
    <3>1. x \in 1 .. Len(s) /\ x <= j
      BY <2>2, <1>4, <1>1
    <3>2. ~ (s[x] + Window <= clock)
      BY <3>1, <1>3, <1>1
    <3>3. s[x] <= s[j]
      BY <3>1 DEF Rising
    <3> QED
      BY <3>1, <3>2, <3>3, <2>2, <1>1
  <2> QED
    BY <2>1, <2>2
<1> DEFINE old == CHOOSE n \in 0 .. Len(s) : \A j \in 1 .. Len(s) : j <= n <=> s[j] + Window <= clock
<1>6. old \in 0 .. Len(s) /\ \A j \in 1 .. Len(s) : j <= old <=> s[j] + Window <= clock
  BY <1>4, <1>5
<1>7. Recent(s) = SubSeq(s, old + 1, Len(s))
  BY DEF Recent
<1> HIDE DEF old
<1> QED
  BY <1>6, <1>7

(* The recent times of an address are again the last of those granted.     *)
LEMMA RecentTrails ==
  ASSUME NEW s \in Times, NEW g \in Times, Rising(g), clock \in Nat, Trails(s, g, clock)
  PROVE  /\ Recent(s) \in Times /\ Len(Recent(s)) \in Nat
         /\ Trails(Recent(s), g, clock)
<1>1. PICK d \in 0 .. Len(g) : EndOf(s, g, d) /\ \A j \in 1 .. d : g[j] + Window <= clock
  BY DEF Trails
<1>2. Len(g) \in Nat /\ Len(s) \in Nat /\ Len(s) = Len(g) - d /\ \A j \in 1 .. Len(s) : s[j] = g[d + j]
  BY <1>1 DEF EndOf, Times
<1>3. Rising(s)
  <2> SUFFICES ASSUME NEW j \in 1 .. Len(s), NEW k \in 1 .. Len(s), j <= k
               PROVE  s[j] <= s[k]
    BY DEF Rising
  <2>1. d + j \in 1 .. Len(g) /\ d + k \in 1 .. Len(g) /\ d + j <= d + k
    BY <1>2
  <2> QED
    BY <2>1, <1>2 DEF Rising
<1>4. PICK n \in 0 .. Len(s) : /\ Recent(s) = SubSeq(s, n + 1, Len(s))
                               /\ \A j \in 1 .. Len(s) : j <= n <=> s[j] + Window <= clock
  BY <1>3, RecentIsTheEnd
<1> DEFINE r == Recent(s)
           c == d + n
<1>5. /\ r \in Times /\ Len(r) = Len(s) - n
      /\ \A j \in 1 .. Len(s) - n : r[j] = s[n + j]
  <2> DEFINE T == 1 .. MaxTime
  <2>1. s \in Seq(T) /\ Len(s) \in Nat /\ n \in 0 .. Len(s)
    BY <1>2 DEF Times
  <2> HIDE DEF T
  <2>2. /\ SubSeq(s, n + 1, Len(s)) \in Seq(T) /\ Len(SubSeq(s, n + 1, Len(s))) = Len(s) - n
        /\ \A j \in 1 .. Len(s) - n : SubSeq(s, n + 1, Len(s))[j] = s[n + j]
    BY <2>1
  <2> QED
    BY <2>2, <1>4 DEF T, Times
<1> HIDE DEF r
<1>6. c \in 0 .. Len(g) /\ Len(r) = Len(g) - c /\ Len(r) \in Nat
  BY <1>2, <1>5
<1>7. ASSUME NEW j \in 1 .. Len(r) PROVE r[j] = g[c + j]
  <2>1. n + j \in 1 .. Len(s) /\ j \in 1 .. Len(s) - n /\ d + (n + j) = c + j
    BY <1>2, <1>5
  <2> QED
    BY <2>1, <1>2, <1>5
<1>8. ASSUME NEW j \in 1 .. c PROVE g[j] + Window <= clock
  <2>1. CASE j <= d
    BY <2>1, <1>1
  <2>2. CASE j > d
    <3>1. j - d \in 1 .. Len(s) /\ j - d <= n /\ d + (j - d) = j
      BY <2>2, <1>2
    <3> QED
      BY <3>1, <1>2, <1>4
  <2> QED
    BY <2>1, <2>2
<1> QED
  BY <1>5, <1>6, <1>7, <1>8 DEF r, Trails, EndOf

(* An admission under the limit comes after the window of the one that     *)
(* many before.                                                            *)
LEMMA AdmissionSpaced ==
  ASSUME NEW r \in Times, NEW g \in Times, NEW now \in 1 .. MaxTime,
         Rising(g), \A j \in 1 .. Len(g) : g[j] <= now,
         Trails(r, g, now), Spaced(g), Len(r) < MaxRequests
  PROVE  LET s == Append(r, now)
             h == Append(g, now)
         IN  /\ s \in Times /\ h \in Times /\ Rising(h) /\ \A j \in 1 .. Len(h) : h[j] <= now
             /\ Trails(s, h, now) /\ Spaced(h)
<1> DEFINE s == Append(r, now)
           h == Append(g, now)
<1>1. PICK d \in 0 .. Len(g) : EndOf(r, g, d) /\ \A j \in 1 .. d : g[j] + Window <= now
  BY DEF Trails
<1>2. /\ Len(g) \in Nat /\ Len(r) = Len(g) - d /\ \A j \in 1 .. Len(r) : r[j] = g[d + j]
      /\ MaxRequests \in Nat /\ Window \in Nat /\ now \in Nat
      /\ \A j \in 1 .. Len(g) : g[j] \in Nat
  BY <1>1, LimiterAssumption DEF EndOf, Times
<1>3. /\ s \in Times /\ Len(s) = Len(r) + 1 /\ s[Len(r) + 1] = now /\ \A j \in 1 .. Len(r) : s[j] = r[j]
  BY DEF Times
<1>4. /\ h \in Times /\ Len(h) = Len(g) + 1 /\ h[Len(g) + 1] = now /\ \A j \in 1 .. Len(g) : h[j] = g[j]
  BY DEF Times
<1> HIDE DEF s, h
<1>5. \A j \in 1 .. Len(h) : h[j] <= now
  BY <1>2, <1>4
<1>6. Rising(h)
  <2> SUFFICES ASSUME NEW j \in 1 .. Len(h), NEW k \in 1 .. Len(h), j <= k
               PROVE  h[j] <= h[k]
    BY DEF Rising
  <2>1. CASE k \in 1 .. Len(g)
    <3>1. j \in 1 .. Len(g)
      BY <2>1, <1>2
    <3> QED
      BY <2>1, <3>1, <1>4 DEF Rising
  <2>2. CASE k = Len(g) + 1
    BY <2>2, <1>4, <1>5
  <2> QED
    BY <2>1, <2>2, <1>2, <1>4
<1>7. Trails(s, h, now)
  <2>1. d \in 0 .. Len(h) /\ Len(s) = Len(h) - d
    BY <1>2, <1>3, <1>4
  <2>2. ASSUME NEW j \in 1 .. Len(s) PROVE s[j] = h[d + j]
    <3>1. CASE j \in 1 .. Len(r)
      <4>1. d + j \in 1 .. Len(g)
        BY <3>1, <1>2
      <4> QED
        BY <3>1, <4>1, <1>2, <1>3, <1>4
    <3>2. CASE j = Len(r) + 1
      <4>1. d + j = Len(g) + 1
        BY <3>2, <1>2
      <4> QED
        BY <3>2, <4>1, <1>3, <1>4
    <3>3. Len(r) \in Nat /\ j \in 1 .. Len(r) + 1
      BY <1>2, <1>3
    <3>4. j \in 1 .. Len(r) \/ j = Len(r) + 1
      BY <3>3
    <3> QED
      BY <3>1, <3>2, <3>4
  <2>3. ASSUME NEW j \in 1 .. d PROVE h[j] + Window <= now
    <3>1. j \in 1 .. Len(g)
      BY <1>2
    <3> QED
      BY <3>1, <1>1, <1>4
  <2> QED
    BY <2>1, <2>2, <2>3 DEF Trails, EndOf
<1>8. Spaced(h)
  <2> SUFFICES ASSUME NEW n \in 1 .. Len(h) - MaxRequests
               PROVE  h[n + MaxRequests] >= h[n] + Window
    BY DEF Spaced
  <2>1. CASE n \in 1 .. Len(g) - MaxRequests
    <3>1. n \in 1 .. Len(g) /\ n + MaxRequests \in 1 .. Len(g)
      BY <2>1, <1>2
    <3> QED
      BY <2>1, <3>1, <1>4 DEF Spaced
  <2>2. CASE n = Len(g) + 1 - MaxRequests
    <3>1. n \in 1 .. d /\ n \in 1 .. Len(g) /\ n + MaxRequests = Len(g) + 1
      BY <2>2, <1>2, <1>4
    <3>2. g[n] + Window <= now /\ h[n] = g[n] /\ h[n + MaxRequests] = now /\ g[n] \in Nat
      BY <3>1, <1>1, <1>2, <1>4
    <3> QED
      BY <3>2, <1>2
  <2>3. n \in Nat /\ 1 <= n /\ n <= Len(g) + 1 - MaxRequests
    BY <1>2, <1>4
  <2>4. n \in 1 .. Len(g) - MaxRequests \/ n = Len(g) + 1 - MaxRequests
    <3> DEFINE x == Len(g) - MaxRequests
    <3>1. x \in Int /\ Len(g) + 1 - MaxRequests = x + 1
      BY <1>2
    <3> HIDE DEF x
    <3>2. n \in 1 .. x \/ n = x + 1
      BY <2>3, <3>1
    <3> QED
      BY <3>1, <3>2 DEF x
  <2> QED
    BY <2>1, <2>2, <2>4
<1> QED
  BY <1>3, <1>4, <1>5, <1>6, <1>7, <1>8 DEF s, h

(* Time makes no more times recent.                                        *)
LEMMA LaterTrails ==
  ASSUME NEW s, NEW g \in Times, NEW now \in Nat, Trails(s, g, now)
  PROVE  Trails(s, g, now + 1)
<1>1. PICK d \in 0 .. Len(g) : EndOf(s, g, d) /\ \A j \in 1 .. d : g[j] + Window <= now
  BY DEF Trails
<1>2. \A j \in 1 .. Len(g) : g[j] \in Nat
  BY TimesAreNumbers
<1>3. Len(g) \in Nat /\ Window \in Nat
  BY LimiterAssumption DEF Times
<1>4. ASSUME NEW j \in 1 .. d PROVE g[j] + Window <= now + 1
  BY <1>1, <1>2, <1>3
<1> QED
  BY <1>1, <1>4 DEF Trails

(* What is known of an address.                                            *)
Admitted(i) ==
  /\ seen[i] \in Times /\ granted[i] \in Times
  /\ Rising(granted[i]) /\ \A j \in 1 .. Len(granted[i]) : granted[i][j] <= clock
  /\ Trails(seen[i], granted[i], clock)
  /\ Spaced(granted[i])

AInv ==
  /\ clock \in 1 .. MaxTime
  /\ seen \in [Addresses -> Times] /\ granted \in [Addresses -> Times]
  /\ \A i \in Addresses : Admitted(i)

LEMMA InitAdmitted == LimiterInit => AInv
<1> SUFFICES ASSUME LimiterInit PROVE AInv
  OBVIOUS
<1>1. <<>> \in Times /\ Len(<<>>) = 0 /\ 1 \in 1 .. MaxTime
  BY LimiterAssumption DEF Times
<1>2. Rising(<<>>) /\ Trails(<<>>, <<>>, 1) /\ Spaced(<<>>)
  BY <1>1, LimiterAssumption DEF Rising, Trails, EndOf, Spaced
<1> QED
  BY <1>1, <1>2 DEF LimiterInit, AInv, Admitted

(* Every step keeps what is known of every address.                        *)
LEMMA NextAdmitted == AInv /\ [LimiterNext]_limiterVars => AInv'
<1> SUFFICES ASSUME AInv, [LimiterNext]_limiterVars PROVE AInv'
  OBVIOUS
<1>0. /\ clock \in 1 .. MaxTime /\ clock \in Nat
      /\ seen \in [Addresses -> Times] /\ granted \in [Addresses -> Times]
      /\ \A i \in Addresses : Admitted(i)
  BY DEF AInv
<1>1. ASSUME NEW i \in Addresses
      PROVE  /\ Recent(seen[i]) \in Times /\ Len(Recent(seen[i])) \in Nat
             /\ Trails(Recent(seen[i]), granted[i], clock)
  BY <1>0, RecentTrails DEF Admitted
(* An address that is not admitted: its recent times at most are kept.     *)
<1>2. ASSUME NEW i \in Addresses, clock' = clock, granted'[i] = granted[i],
             seen'[i] = seen[i] \/ seen'[i] = Recent(seen[i])
      PROVE  Admitted(i)'
  BY <1>0, <1>1, <1>2 DEF Admitted
<1>3. ASSUME NEW a \in Attempts, NEW i \in Addresses, NEW k \in Accounts, AllowIP(a, i, k)
      PROVE  AInv'
  <2> DEFINE r == Recent(seen[i])
             g == granted[i]
  <2>1. /\ Len(r) < MaxRequests /\ clock' = clock
        /\ seen' = [seen EXCEPT ![i] = Append(r, clock)]
        /\ granted' = [granted EXCEPT ![i] = Append(g, clock)]
    BY <1>3 DEF AllowIP
  <2>2. /\ r \in Times /\ g \in Times /\ Rising(g) /\ \A j \in 1 .. Len(g) : g[j] <= clock
        /\ Trails(r, g, clock) /\ Spaced(g)
    BY <1>0, <1>1 DEF Admitted
  <2> HIDE DEF r, g
  <2>3. /\ Append(r, clock) \in Times /\ Append(g, clock) \in Times /\ Rising(Append(g, clock))
        /\ \A j \in 1 .. Len(Append(g, clock)) : Append(g, clock)[j] <= clock
        /\ Trails(Append(r, clock), Append(g, clock), clock) /\ Spaced(Append(g, clock))
    BY <1>0, <2>1, <2>2, AdmissionSpaced
  <2>4. seen'[i] = Append(r, clock) /\ granted'[i] = Append(g, clock)
    BY <1>0, <2>1
  <2>5. Admitted(i)'
    BY <2>1, <2>3, <2>4 DEF Admitted
  <2>6. \A j \in Addresses \ {i} : Admitted(j)'
    BY <1>0, <1>2, <2>1
  <2>7. seen' \in [Addresses -> Times] /\ granted' \in [Addresses -> Times]
    BY <1>0, <2>1, <2>3
  <2> QED
    BY <1>0, <2>1, <2>5, <2>6, <2>7 DEF AInv
<1>4. ASSUME NEW a \in Attempts, NEW i \in Addresses, RefuseIP(a, i)
      PROVE  AInv'
  <2>1. clock' = clock /\ granted' = granted /\ seen' = [seen EXCEPT ![i] = Recent(seen[i])]
    BY <1>4 DEF RefuseIP
  <2>2. seen' \in [Addresses -> Times]
    BY <1>0, <1>1, <2>1
  <2>3. \A j \in Addresses : seen'[j] = seen[j] \/ seen'[j] = Recent(seen[j])
    BY <1>0, <2>1
  <2>4. \A j \in Addresses : Admitted(j)'
    BY <1>2, <2>1, <2>3
  <2> QED
    BY <1>0, <2>1, <2>2, <2>4 DEF AInv
<1>5. CASE Cleanup
  <2>1. clock' = clock /\ granted' = granted /\ seen' = [i \in Addresses |-> Recent(seen[i])]
    BY <1>5 DEF Cleanup
  <2>2. seen' \in [Addresses -> Times]
    BY <1>1, <2>1
  <2>3. \A j \in Addresses : Admitted(j)'
    BY <1>2, <2>1
  <2> QED
    BY <1>0, <2>1, <2>2, <2>3 DEF AInv
<1>6. CASE ClockTicks
  <2>1. clock' = clock + 1 /\ clock' \in 1 .. MaxTime /\ granted' = granted /\ seen' = seen
    BY <1>0, <1>6, LimiterAssumption DEF ClockTicks
  <2>2. ASSUME NEW i \in Addresses PROVE Admitted(i)'
    <3>1. Trails(seen[i], granted[i], clock + 1)
      BY <1>0, LaterTrails DEF Admitted
    <3>2. ASSUME NEW j \in 1 .. Len(granted[i]) PROVE granted[i][j] <= clock + 1
      <4>1. granted[i][j] \in Nat /\ granted[i][j] <= clock
        BY <1>0, TimesAreNumbers DEF Admitted
      <4> QED
        BY <4>1, <1>0
    <3> QED
      BY <1>0, <2>1, <3>1, <3>2 DEF Admitted
  <2> QED
    BY <1>0, <2>1, <2>2 DEF AInv
<1>7. CASE UNCHANGED <<clock, seen, granted>>
  <2>1. \A i \in Addresses : Admitted(i)'
    BY <1>2, <1>7
  <2> QED
    BY <1>0, <1>7, <2>1 DEF AInv
<1>8. ASSUME NEW a \in Attempts,
             \/ EndEarly(a) \/ IsUserLocked(a) \/ Check(a)
             \/ RecordUserFailure(a) \/ RecordUserSuccess(a)
      PROVE  UNCHANGED <<clock, seen, granted>>
  BY <1>8 DEF EndEarly, IsUserLocked, Check, RecordUserFailure, RecordUserSuccess
<1>9. CASE UNCHANGED limiterVars
  BY <1>7, <1>9 DEF limiterVars
<1> QED
  BY <1>3, <1>4, <1>5, <1>6, <1>7, <1>8, <1>9 DEF LimiterNext

(* Types of the limiter and of those it limits (RateLimiter).              *)
THEOREM LimiterTypesHold == LimiterSpec => []LimiterTypeOK
<1>1. AInv /\ LInv => LimiterTypeOK
  BY DEF AInv, LInv, LockTypes, LimiterTypeOK, Times
<1> QED
  BY <1>1, InitAdmitted, NextAdmitted, InitCounted, NextCounted, PTL DEF LimiterSpec

(* However logins interleave with each other and with Cleanup: an address  *)
(* is admitted so many times in a window, and no account is guessed at     *)
(* beyond the bound, with locks that last and are earned (AllowIP,         *)
(* IsUserLocked, RecordUserFailure).                                       *)
THEOREM GuessingStaysLimited == LimiterSpec => GuessingIsLimited
<1>1. AInv => AddressesLimited
  BY DEF AInv, Admitted, Spaced, AddressesLimited
<1> QED
  BY <1>1, InitAdmitted, NextAdmitted, LocksHold, PTL DEF LimiterSpec, GuessingIsLimited

-----------------------------------------------------------------------------
(* LogQueue. Sequences of entries in the order of their numbers, and one   *)
(* that comes before another.                                              *)
Sorted(s)   == \A i, j \in 1 .. Len(s) : i < j => s[i] < s[j]
Below(S, T) == \A x \in S, y \in T : x < y

LEMMA ElementsOf ==
  ASSUME NEW s \in Seq(Nat)
  PROVE  Elements(s) \in SUBSET Nat /\ \A x : x \in Elements(s) <=> \E i \in 1 .. Len(s) : s[i] = x
  BY DEF Elements

LEMMA ElementsOfConcat ==
  ASSUME NEW s \in Seq(Nat), NEW t \in Seq(Nat)
  PROVE  Elements(s \o t) = Elements(s) \cup Elements(t)
<1>1. s \o t \in Seq(Nat) /\ Len(s \o t) = Len(s) + Len(t) /\ Len(s) \in Nat /\ Len(t) \in Nat
  BY ConcatProperties
<1>2. \A i \in 1 .. Len(s) + Len(t) : (s \o t)[i] = IF i <= Len(s) THEN s[i] ELSE t[i - Len(s)]
  BY ConcatProperties
<1>3. ASSUME NEW i \in 1 .. Len(s)
      PROVE  i \in 1 .. Len(s) + Len(t) /\ (s \o t)[i] = s[i]
  BY <1>1, <1>2
<1>4. ASSUME NEW i \in 1 .. Len(t)
      PROVE  i + Len(s) \in 1 .. Len(s) + Len(t) /\ (s \o t)[i + Len(s)] = t[i]
  <2>1. i + Len(s) \in 1 .. Len(s) + Len(t) /\ ~ (i + Len(s) <= Len(s)) /\ i + Len(s) - Len(s) = i
    BY <1>1
  <2> QED
    BY <1>2, <2>1
<1>5. ASSUME NEW i \in 1 .. Len(s) + Len(t)
      PROVE  (s \o t)[i] \in Elements(s) \cup Elements(t)
  <2>1. CASE i <= Len(s)
    <3>1. i \in 1 .. Len(s) /\ (s \o t)[i] = s[i]
      BY <1>1, <1>2, <2>1
    <3> QED
      BY <3>1, ElementsOf
  <2>2. CASE ~ (i <= Len(s))
    <3>1. i - Len(s) \in 1 .. Len(t) /\ (s \o t)[i] = t[i - Len(s)]
      BY <1>1, <1>2, <2>2
    <3> QED
      BY <3>1, ElementsOf
  <2> QED
    BY <2>1, <2>2
<1>6. Elements(s \o t) \subseteq Elements(s) \cup Elements(t)
  BY <1>1, <1>5, ElementsOf
<1>7. ASSUME NEW x \in Elements(s) PROVE x \in Elements(s \o t)
  <2>1. PICK i \in 1 .. Len(s) : s[i] = x
    BY ElementsOf
  <2> QED
    BY <1>1, <1>3, <2>1, ElementsOf
<1>8. ASSUME NEW x \in Elements(t) PROVE x \in Elements(s \o t)
  <2>1. PICK i \in 1 .. Len(t) : t[i] = x
    BY ElementsOf
  <2> QED
    BY <1>1, <1>4, <2>1, ElementsOf
<1> QED
  BY <1>6, <1>7, <1>8

LEMMA ElementsOfAppend ==
  ASSUME NEW s \in Seq(Nat), NEW e \in Nat
  PROVE  Elements(Append(s, e)) = Elements(s) \cup {e}
<1>1. Append(s, e) = s \o <<e>> /\ <<e>> \in Seq(Nat)
  BY AppendIsConcat
<1>2. Elements(<<e>>) = {e}
  BY DEF Elements
<1> QED
  BY <1>1, <1>2, ElementsOfConcat

LEMMA ElementsOfTail ==
  ASSUME NEW s \in Seq(Nat), s # <<>>
  PROVE  Elements(s) = {Head(s)} \cup Elements(Tail(s))
<1>1. Tail(s) \in Seq(Nat) /\ Len(Tail(s)) = Len(s) - 1 /\ Head(s) = s[1] /\ Len(s) \in Nat \ {0}
  BY HeadTailProperties, EmptySeq
<1>2. \A i \in 1 .. Len(Tail(s)) : Tail(s)[i] = s[i + 1]
  BY HeadTailProperties
<1>3. ASSUME NEW i \in 1 .. Len(s)
      PROVE  s[i] \in {Head(s)} \cup Elements(Tail(s))
  <2>1. CASE i = 1
    BY <1>1, <2>1
  <2>2. CASE i # 1
    <3>1. i - 1 \in 1 .. Len(Tail(s)) /\ (i - 1) + 1 = i
      BY <1>1, <2>2
    <3> QED
      BY <1>1, <1>2, <3>1, ElementsOf
  <2> QED
    BY <2>1, <2>2
<1>4. ASSUME NEW i \in 1 .. Len(Tail(s))
      PROVE  Tail(s)[i] \in Elements(s)
  <2>1. i + 1 \in 1 .. Len(s)
    BY <1>1
  <2> QED
    BY <1>2, <2>1, ElementsOf
<1>5. Head(s) \in Elements(s)
  BY <1>1, ElementsOf
<1>6. Elements(s) \subseteq {Head(s)} \cup Elements(Tail(s))
  BY <1>3, ElementsOf
<1>7. ASSUME NEW x \in Elements(Tail(s)) PROVE x \in Elements(s)
  <2>1. PICK i \in 1 .. Len(Tail(s)) : Tail(s)[i] = x
    BY <1>1, ElementsOf
  <2> QED
    BY <1>4, <2>1
<1> QED
  BY <1>5, <1>6, <1>7

LEMMA SortedConcat ==
  ASSUME NEW s \in Seq(Nat), NEW t \in Seq(Nat), Sorted(s), Sorted(t), Below(Elements(s), Elements(t))
  PROVE  Sorted(s \o t)
<1>1. s \o t \in Seq(Nat) /\ Len(s \o t) = Len(s) + Len(t) /\ Len(s) \in Nat /\ Len(t) \in Nat
  BY ConcatProperties
<1>2. \A i \in 1 .. Len(s) + Len(t) : (s \o t)[i] = IF i <= Len(s) THEN s[i] ELSE t[i - Len(s)]
  BY ConcatProperties
<1> SUFFICES ASSUME NEW i \in 1 .. Len(s) + Len(t), NEW j \in 1 .. Len(s) + Len(t), i < j
             PROVE  (s \o t)[i] < (s \o t)[j]
  BY <1>1 DEF Sorted
<1>3. CASE j <= Len(s)
  <2>1. i \in 1 .. Len(s) /\ j \in 1 .. Len(s) /\ (s \o t)[i] = s[i] /\ (s \o t)[j] = s[j]
    BY <1>1, <1>2, <1>3
  <2> QED
    BY <2>1 DEF Sorted
<1>4. CASE i <= Len(s) /\ ~ (j <= Len(s))
  <2>1. i \in 1 .. Len(s) /\ j - Len(s) \in 1 .. Len(t) /\ (s \o t)[i] = s[i] /\ (s \o t)[j] = t[j - Len(s)]
    BY <1>1, <1>2, <1>4
  <2> QED
    BY <2>1, ElementsOf DEF Below
<1>5. CASE ~ (i <= Len(s))
  <2>1. /\ i - Len(s) \in 1 .. Len(t) /\ j - Len(s) \in 1 .. Len(t) /\ i - Len(s) < j - Len(s)
        /\ (s \o t)[i] = t[i - Len(s)] /\ (s \o t)[j] = t[j - Len(s)]
    BY <1>1, <1>2, <1>5
  <2> QED
    BY <2>1 DEF Sorted
<1> QED
  BY <1>1, <1>3, <1>4, <1>5

LEMMA SortedAppend ==
  ASSUME NEW s \in Seq(Nat), NEW e \in Nat, Sorted(s), Below(Elements(s), {e})
  PROVE  Sorted(Append(s, e))
<1>1. Append(s, e) = s \o <<e>> /\ <<e>> \in Seq(Nat)
  BY AppendIsConcat
<1>2. Elements(<<e>>) = {e} /\ Sorted(<<e>>)
  BY DEF Elements, Sorted
<1> QED
  BY <1>1, <1>2, SortedConcat

LEMMA SortedTail ==
  ASSUME NEW s \in Seq(Nat), s # <<>>, Sorted(s)
  PROVE  Sorted(Tail(s)) /\ Below({Head(s)}, Elements(Tail(s)))
<1>1. Tail(s) \in Seq(Nat) /\ Len(Tail(s)) = Len(s) - 1 /\ Head(s) = s[1] /\ Len(s) \in Nat \ {0}
  BY HeadTailProperties, EmptySeq
<1>2. \A i \in 1 .. Len(Tail(s)) : Tail(s)[i] = s[i + 1]
  BY HeadTailProperties
<1>3. ASSUME NEW i \in 1 .. Len(Tail(s))
      PROVE  s[1] < Tail(s)[i]
  <2>1. i + 1 \in 1 .. Len(s) /\ 1 \in 1 .. Len(s) /\ 1 < i + 1
    BY <1>1
  <2> QED
    BY <1>2, <2>1 DEF Sorted
<1>4. ASSUME NEW i \in 1 .. Len(Tail(s)), NEW j \in 1 .. Len(Tail(s)), i < j
      PROVE  Tail(s)[i] < Tail(s)[j]
  <2>1. i + 1 \in 1 .. Len(s) /\ j + 1 \in 1 .. Len(s) /\ i + 1 < j + 1
    BY <1>1, <1>4
  <2> QED
    BY <1>2, <2>1 DEF Sorted
<1>5. Sorted(Tail(s))
  BY <1>4 DEF Sorted
<1>6. \A y \in Elements(Tail(s)) : s[1] < y
  BY <1>1, <1>3, ElementsOf
<1> QED
  BY <1>1, <1>5, <1>6 DEF Below

-----------------------------------------------------------------------------
(* What is stored comes before what is in the batch, that before what is   *)
(* in the channel, and all of it before the next number.                   *)
OrderedAt(t, b, q, n) ==
  /\ Sorted(t) /\ Sorted(b) /\ Sorted(q)
  /\ Below(Elements(t), Elements(b)) /\ Below(Elements(t), Elements(q))
  /\ Below(Elements(b), Elements(q))
  /\ Below(Elements(t) \cup Elements(b) \cup Elements(q), {n})

Held == Elements(table) \cup failed \cup Elements(batch) \cup Elements(queue)

(* Nothing that was there at Close is lost on its way to the table.        *)
NothingLost ==
  /\ closing # "no" => before \subseteq Held
  /\ worker # "running" => closing # "no"
  /\ worker = "done" => before \subseteq Elements(table) \cup failed
  /\ closing = "returned" => worker = "done"

(* The rows read count down without a gap from the last that was there at  *)
(* the start; the cursor is the last of them.                              *)
CountsDown(r) ==
  /\ Len(r.got) <= r.first
  /\ \A i \in 1 .. Len(r.got) : r.got[i] = r.first + 1 - i
ReadSoFar(r) ==
  /\ CountsDown(r)
  /\ r.step = "reading" => Len(r.got) >= 1 /\ r.cursor = r.first + 1 - Len(r.got)
  /\ r.step = "end" /\ r.limit <= MaxPage => Len(r.got) = r.first
  /\ r.step = "idle" => r = NoReader

LogInv ==
  /\ LogTypeOK
  /\ OrderedAt(table, batch, queue, next)
  /\ NothingLost
  /\ ReadSoFar(reader)
  /\ reader.first <= Len(table)

LEMMA SeqOfEntries ==
  ASSUME NEW s \in Seq(Entries)
  PROVE  s \in Seq(Nat) /\ Len(s) \in Nat /\ Elements(s) \in SUBSET Entries
<1>1. /\ Entries \in SUBSET Nat /\ DOMAIN s = 1 .. Len(s) /\ Len(s) \in Nat
      /\ s \in [1 .. Len(s) -> Entries]
  BY LogAssumption, LenProperties DEF Entries
<1>2. s \in [1 .. Len(s) -> Nat] /\ Len(s) \in Nat
  BY <1>1
<1>3. s \in Seq(Nat)
  BY <1>2, SeqDef
<1> QED
  BY <1>1, <1>2, <1>3 DEF Elements

LEMMA NoElements == Elements(<<>>) = {} /\ Sorted(<<>>) /\ <<>> \in Seq(Nat)
  BY DEF Elements, Sorted

(* An entry that moves from the channel to the batch keeps the order.      *)
LEMMA TakeOrders ==
  ASSUME NEW t \in Seq(Nat), NEW b \in Seq(Nat), NEW q \in Seq(Nat), NEW n \in Nat,
         q # <<>>, OrderedAt(t, b, q, n)
  PROVE  /\ OrderedAt(t, Append(b, Head(q)), Tail(q), n)
         /\ Elements(Append(b, Head(q))) \cup Elements(Tail(q)) = Elements(b) \cup Elements(q)
<1>1. Head(q) \in Nat /\ Tail(q) \in Seq(Nat) /\ Elements(q) = {Head(q)} \cup Elements(Tail(q))
  BY ElementsOfTail, HeadTailProperties
<1>2. Sorted(Tail(q)) /\ Below({Head(q)}, Elements(Tail(q)))
  BY SortedTail DEF OrderedAt
<1>3. Elements(Append(b, Head(q))) = Elements(b) \cup {Head(q)}
  BY <1>1, ElementsOfAppend
<1>4. Sorted(Append(b, Head(q)))
  <2>1. Sorted(b) /\ Below(Elements(b), {Head(q)})
    BY <1>1 DEF OrderedAt, Below
  <2> QED
    BY <1>1, <2>1, SortedAppend
<1>5. Below(Elements(t), Elements(b) \cup {Head(q)}) /\ Below(Elements(t), Elements(Tail(q)))
  BY <1>1 DEF OrderedAt, Below
<1>6. Below(Elements(b) \cup {Head(q)}, Elements(Tail(q)))
  BY <1>1, <1>2 DEF OrderedAt, Below
<1>7. Elements(Append(b, Head(q))) \cup Elements(Tail(q)) = Elements(b) \cup Elements(q)
  BY <1>1, <1>3
<1>8. Below(Elements(t) \cup Elements(Append(b, Head(q))) \cup Elements(Tail(q)), {n})
  BY <1>7 DEF OrderedAt, Below
<1> QED
  BY <1>2, <1>3, <1>4, <1>5, <1>6, <1>7, <1>8 DEF OrderedAt

(* What is left of a batch is in its order.                                *)
LEMMA PartsOf ==
  ASSUME NEW S \in SUBSET Nat, NEW s \in Seq(S), NEW p \in Parts(s)
  PROVE  /\ p \in Seq(S) /\ Elements(p) \subseteq Elements(s)
         /\ Sorted(s) => Sorted(p)
<1>0. PICK n \in 0 .. Len(s) :
        \E f \in [1 .. n -> 1 .. Len(s)] :
          /\ \A i, j \in 1 .. n : i < j => f[i] < f[j]
          /\ p = [i \in 1 .. n |-> s[f[i]]]
  BY DEF Parts
<1>1. PICK f \in [1 .. n -> 1 .. Len(s)] :
        /\ \A i, j \in 1 .. n : i < j => f[i] < f[j]
        /\ p = [i \in 1 .. n |-> s[f[i]]]
  BY <1>0
<1>2. n \in Nat /\ DOMAIN s = 1 .. Len(s) /\ s \in [1 .. Len(s) -> S]
  BY LenProperties
<1>3. p \in [1 .. n -> S]
  BY <1>1, <1>2
<1>4. p \in Seq(S) /\ Len(p) = n /\ DOMAIN p = 1 .. n
  BY <1>2, <1>3, SeqDef, LenProperties
<1>5. Elements(p) \subseteq Elements(s)
  BY <1>1, <1>2, <1>4 DEF Elements
<1>6. ASSUME Sorted(s), NEW i \in 1 .. n, NEW j \in 1 .. n, i < j
      PROVE  p[i] < p[j]
  <2>1. /\ f[i] \in 1 .. Len(s) /\ f[j] \in 1 .. Len(s) /\ f[i] < f[j]
        /\ p[i] = s[f[i]] /\ p[j] = s[f[j]]
    BY <1>1, <1>6
  <2> QED
    BY <1>6, <2>1 DEF Sorted
<1> QED
  BY <1>4, <1>5, <1>6 DEF Sorted

(* So does a batch, whatever part of it is stored.                         *)
LEMMA FlushOrders ==
  ASSUME NEW t \in Seq(Nat), NEW b \in Seq(Nat), NEW q \in Seq(Nat), NEW n \in Nat,
         OrderedAt(t, b, q, n), NEW p \in Parts(b)
  PROVE  OrderedAt(t \o p, <<>>, q, n)
<1>1. p \in Seq(Nat) /\ Elements(p) \subseteq Elements(b) /\ Sorted(p)
  BY PartsOf DEF OrderedAt
<1>2. Sorted(t \o p)
  <2>1. Below(Elements(t), Elements(p))
    BY <1>1 DEF OrderedAt, Below
  <2> QED
    BY <1>1, <2>1, SortedConcat DEF OrderedAt
<1>3. Elements(t \o p) = Elements(t) \cup Elements(p) /\ Elements(<<>>) = {} /\ Sorted(<<>>)
  BY <1>1, ElementsOfConcat, NoElements
<1>4. Below(Elements(t \o p), Elements(q))
  BY <1>1, <1>3 DEF OrderedAt, Below
<1>5. Below(Elements(t \o p) \cup Elements(<<>>) \cup Elements(q), {n})
  BY <1>1, <1>3 DEF OrderedAt, Below
<1>6. \A S : Below(S, Elements(<<>>)) /\ Below(Elements(<<>>), S)
  BY <1>3 DEF Below
<1> QED
  BY <1>2, <1>3, <1>4, <1>5, <1>6 DEF OrderedAt

(* And one that is recorded.                                               *)
LEMMA RecordOrders ==
  ASSUME NEW t \in Seq(Nat), NEW b \in Seq(Nat), NEW q \in Seq(Nat), NEW n \in Nat,
         OrderedAt(t, b, q, n)
  PROVE  OrderedAt(t, b, Append(q, n), n + 1) /\ OrderedAt(t, b, q, n + 1)
<1>1. Elements(Append(q, n)) = Elements(q) \cup {n}
  BY ElementsOfAppend
<1>2. Elements(t) \in SUBSET Nat /\ Elements(b) \in SUBSET Nat /\ Elements(q) \in SUBSET Nat
  BY ElementsOf
<1>3. Below(Elements(t), {n}) /\ Below(Elements(b), {n}) /\ Below(Elements(q), {n})
  BY DEF OrderedAt, Below
<1>4. Sorted(Append(q, n))
  BY <1>3, SortedAppend DEF OrderedAt
<1>5. Below(Elements(t), Elements(Append(q, n))) /\ Below(Elements(b), Elements(Append(q, n)))
  BY <1>1, <1>3 DEF OrderedAt, Below
<1>6. Below(Elements(t) \cup Elements(b) \cup Elements(q), {n + 1})
  BY <1>2, <1>3 DEF Below
<1>7. Below(Elements(t) \cup Elements(b) \cup Elements(Append(q, n)), {n + 1})
  BY <1>1, <1>2, <1>3 DEF Below
<1> QED
  BY <1>4, <1>5, <1>6, <1>7 DEF OrderedAt

LEMMA RowsDown ==
  ASSUME NEW e \in Nat, NEW n \in Nat, n <= e
  PROVE  LET rows == [i \in 1 .. n |-> e + 1 - i]
         IN  rows \in Seq(Nat) /\ Len(rows) = n /\ \A i \in 1 .. n : rows[i] = e + 1 - i
<1> DEFINE rows == [i \in 1 .. n |-> e + 1 - i]
<1>1. \A i \in 1 .. n : e + 1 - i \in Nat
  OBVIOUS
<1>2. rows \in [1 .. n -> Nat]
  BY <1>1
<1>3. rows \in Seq(Nat)
  BY <1>2, SeqDef
<1>4. Len(rows) = n
  BY <1>2, <1>3, LenProperties
<1> QED
  BY <1>3, <1>4

(* What a page leaves: the reader has read on down to the last row, or its *)
(* page ends the reading.                                                  *)
LEMMA PageReads ==
  ASSUME NEW r \in ReaderSet, CountsDown(r), LogTypeOK,
         r.first <= Len(table),
         \/ r.cursor = 0 /\ Len(r.got) = 0 /\ r.first = Len(table)
         \/ Len(r.got) >= 1 /\ r.cursor = r.first + 1 - Len(r.got),
         ReadPage(r)
  PROVE  reader' \in ReaderSet /\ ReadSoFar(reader') /\ reader'.first = r.first
<1> DEFINE end  == r.first - Len(r.got)
           n    == Min(end, Page(r.limit))
           page == QueryLogs(r)
<1>1. /\ r.first \in Nat /\ r.got \in Seq(Nat) /\ Len(r.got) \in Nat /\ r.cursor \in Nat /\ r.limit \in Nat
      /\ Len(table) \in Nat /\ end \in Nat /\ Len(r.got) <= r.first
  <2>1. r.first \in Nat /\ r.got \in Seq(Nat) /\ r.cursor \in Nat /\ r.limit \in Nat
    <3>1. r.first \in Nat /\ r.got \in Seq(Nat) /\ r.cursor \in Nat /\ r.limit \in Limits \cup {0}
      BY DEF ReaderSet
    <3>2. Limits \cup {0} \subseteq Nat
      BY LogAssumption
    <3>3. r.limit \in Nat
      BY <3>1, <3>2
    <3> QED
      BY <3>1, <3>3
  <2>2. Len(r.got) \in Nat /\ Len(table) \in Nat /\ Len(r.got) <= r.first
    BY <2>1 DEF LogTypeOK, CountsDown
  <2> QED
    BY <2>1, <2>2
<1>2. Page(r.limit) \in Nat \ {0} /\ (r.limit # 0 /\ r.limit <= MaxPage => Page(r.limit) = r.limit)
  BY <1>1, LogAssumption DEF Page, Min
<1>3. n \in Nat /\ n <= end /\ (n = 0 => end = 0) /\ (n < Page(r.limit) => n = end) /\ n <= Page(r.limit)
  BY <1>1, <1>2 DEF Min
<1>4. (IF r.cursor = 0 THEN Len(table) ELSE Min(Len(table), r.cursor - 1)) = end
  <2>1. CASE r.cursor = 0 /\ Len(r.got) = 0 /\ r.first = Len(table)
    BY <1>1, <2>1
  <2>2. CASE Len(r.got) >= 1 /\ r.cursor = r.first + 1 - Len(r.got)
    <3>1. r.cursor # 0 /\ r.cursor - 1 = end /\ end < Len(table)
      BY <1>1, <2>2
    <3> QED
      BY <1>1, <3>1 DEF Min
  <2> QED
    BY <2>1, <2>2
<1>5. page = [i \in 1 .. n |-> end + 1 - i]
  BY <1>4 DEF QueryLogs
<1>6. page \in Seq(Nat) /\ Len(page) = n /\ \A i \in 1 .. n : page[i] = end + 1 - i
  BY <1>1, <1>3, <1>5, RowsDown
<1>e. end = r.first - Len(r.got)
  OBVIOUS
<1> HIDE DEF page, n, end
<1>7. /\ r.got \o page \in Seq(Nat) /\ Len(r.got \o page) = Len(r.got) + n
      /\ \A i \in 1 .. Len(r.got) + n :
           (r.got \o page)[i] = IF i <= Len(r.got) THEN r.got[i] ELSE page[i - Len(r.got)]
  <2>1. r.got \in Seq(Nat) /\ page \in Seq(Nat)
    BY <1>1, <1>6
  <2>2. Len(page) = n
    BY <1>6
  <2> QED
    BY <2>1, <2>2, ConcatProperties
<1>8. \A i \in 1 .. Len(r.got) + n : (r.got \o page)[i] = r.first + 1 - i
  <2> SUFFICES ASSUME NEW i \in 1 .. Len(r.got) + n PROVE (r.got \o page)[i] = r.first + 1 - i
    OBVIOUS
  <2>1. CASE i <= Len(r.got)
    BY <1>1, <1>7, <2>1 DEF CountsDown
  <2>2. CASE ~ (i <= Len(r.got))
    <3>1. i - Len(r.got) \in 1 .. n
      BY <1>1, <1>3, <2>2
    <3>2. (r.got \o page)[i] = page[i - Len(r.got)] /\ page[i - Len(r.got)] = end + 1 - (i - Len(r.got))
      BY <1>6, <1>7, <2>2, <3>1
    <3> DEFINE a == Len(r.got)
               f == r.first
    <3>3. i \in Int /\ a \in Int /\ f \in Int /\ end = f - a
      BY <1>1, <1>3, <1>e
    <3> HIDE DEF a, f
    <3>4. end + 1 - (i - a) = f + 1 - i
      BY <3>3
    <3> QED
      BY <3>2, <3>4 DEF a, f
  <2> QED
    BY <2>1, <2>2
<1> DEFINE more == page # <<>> /\ Len(page) >= r.limit
<1>9. reader' = [r EXCEPT !.step = IF more THEN "reading" ELSE "end",
                          !.cursor = IF more THEN page[Len(page)] ELSE 0,
                          !.got = @ \o page]
  BY DEF ReadPage, page, QueryLogs
<1>10. page # <<>> <=> n # 0
  BY <1>6, EmptySeq
<1>11. more => n >= 1 /\ page[Len(page)] = r.first + 1 - (Len(r.got) + n) /\ page[Len(page)] \in Nat
  <2>1. more => n \in 1 .. n /\ page[Len(page)] = page[n] /\ page[n] = end + 1 - n
    BY <1>3, <1>6, <1>10
  <2>2. end + 1 - n = r.first + 1 - (Len(r.got) + n) /\ end + 1 - n \in Nat
    BY <1>1, <1>3, <1>e
  <2> QED
    BY <1>3, <2>1, <2>2
<1>12. ~ more /\ r.limit <= MaxPage => n = end
  <2>1. CASE n = 0
    BY <1>3, <2>1
  <2>2. CASE n # 0 /\ n < r.limit /\ r.limit <= MaxPage
    BY <1>1, <1>2, <1>3, <2>2
  <2> QED
    BY <1>1, <1>3, <1>6, <1>10, <2>1, <2>2, LogAssumption
<1> HIDE DEF more
<1>13. /\ reader'.step = (IF more THEN "reading" ELSE "end")
       /\ reader'.cursor = (IF more THEN page[Len(page)] ELSE 0)
       /\ reader'.got = r.got \o page /\ reader'.first = r.first /\ reader'.limit = r.limit
       /\ reader' \in ReaderSet /\ Len(reader'.got) = Len(r.got) + n
  BY <1>7, <1>9, <1>11 DEF ReaderSet
<1>14. CountsDown(reader')
  <2>1. Len(reader'.got) <= reader'.first
    BY <1>e, <1>1, <1>3, <1>13
  <2> QED
    BY <1>8, <1>13, <2>1 DEF CountsDown
<1>15. reader'.step = "reading" =>
         Len(reader'.got) >= 1 /\ reader'.cursor = reader'.first + 1 - Len(reader'.got)
  BY <1>1, <1>3, <1>11, <1>13
<1>16. ASSUME reader'.step = "end", reader'.limit <= MaxPage
       PROVE  Len(reader'.got) = reader'.first
  <2>1. n = end
    BY <1>12, <1>13, <1>16
  <2> QED
    BY <1>e, <1>1, <1>13, <2>1
<1> QED
  BY <1>13, <1>14, <1>15, <1>16 DEF ReadSoFar

-----------------------------------------------------------------------------
LEMMA LogInitInv == LogInit => LogInv
<1> SUFFICES ASSUME LogInit PROVE LogInv
  OBVIOUS
<1>1. Elements(<<>>) = {} /\ Sorted(<<>>)
  BY NoElements
<1>2. LogTypeOK
  BY LogAssumption DEF LogInit, LogTypeOK, ReaderSet, NoReader, Entries
<1>3. OrderedAt(table, batch, queue, next)
  BY <1>1 DEF LogInit, OrderedAt, Below
<1>4. NothingLost
  BY DEF LogInit, NothingLost
<1>5. ReadSoFar(reader) /\ reader.first <= Len(table)
  BY DEF LogInit, NoReader, ReadSoFar, CountsDown
<1> QED
  BY <1>2, <1>3, <1>4, <1>5 DEF LogInv

LEMMA LogTyped ==
  ASSUME LogTypeOK
  PROVE  /\ table \in Seq(Nat) /\ batch \in Seq(Nat) /\ queue \in Seq(Nat) /\ next \in Nat
         /\ Len(table) \in Nat
  BY SeqOfEntries, LogAssumption DEF LogTypeOK

(* What a flush of b leaves, wherever the batch b comes from.              *)
LEMMA FlushLeaves ==
  ASSUME LogTypeOK, NEW b \in Seq(Entries), NEW q \in Seq(Nat), OrderedAt(table, b, q, next), Flush(b)
  PROVE  /\ table' \in Seq(Entries) /\ batch' = <<>> /\ failed' \in SUBSET Entries
         /\ OrderedAt(table', batch', q, next)
         /\ Elements(table') \cup failed' = Elements(table) \cup failed \cup Elements(b)
         /\ Len(table) <= Len(table')
<1>1. /\ table \in Seq(Nat) /\ b \in Seq(Nat) /\ next \in Nat /\ Elements(b) \in SUBSET Entries
      /\ Len(table) \in Nat /\ Len(b) \in Nat
  BY LogTyped, SeqOfEntries
<1>2. PICK p \in Parts(b) : /\ table' = table \o p
                            /\ failed' = failed \cup (Elements(b) \ Elements(p))
  BY DEF Flush
<1>3. Entries \in SUBSET Nat
  BY LogAssumption DEF Entries
<1>4. p \in Seq(Entries) /\ Elements(p) \subseteq Elements(b)
  BY <1>3, PartsOf
<1>5. p \in Seq(Nat) /\ Len(p) \in Nat
  BY <1>4, SeqOfEntries
<1>6. Elements(table \o p) = Elements(table) \cup Elements(p)
  BY <1>1, <1>5, ElementsOfConcat
<1>7. OrderedAt(table \o p, <<>>, q, next)
  BY <1>1, FlushOrders
<1>8. table' \in Seq(Entries) /\ Len(table) <= Len(table')
  BY <1>1, <1>2, <1>4, <1>5, ConcatProperties DEF LogTypeOK
<1>9. Elements(table') \cup failed' = Elements(table) \cup failed \cup Elements(b)
  BY <1>2, <1>4, <1>6
<1>10. batch' = <<>> /\ failed' \in SUBSET Entries
  BY <1>1, <1>2 DEF Flush, LogTypeOK
<1> QED
  BY <1>2, <1>7, <1>8, <1>9, <1>10

(* A step of the writers: what it has to leave for the invariant to hold.  *)
LEMMA WriterStep ==
  ASSUME LogInv, LogTypeOK', UNCHANGED reader,
         OrderedAt(table', batch', queue', next'), NothingLost', Len(table) <= Len(table')
  PROVE  LogInv'
<1>1. Len(table) \in Nat /\ Len(table') \in Nat /\ reader.first \in Nat
  BY LogTyped DEF LogInv, LogTypeOK, ReaderSet
<1> QED
  BY <1>1 DEF LogInv

LEMMA RecordInv == LogInv /\ Record => LogInv'
<1> SUFFICES ASSUME LogInv, Record PROVE LogInv'
  OBVIOUS
<1>1. LogTypeOK /\ OrderedAt(table, batch, queue, next) /\ NothingLost
  BY DEF LogInv
<1>2. /\ table \in Seq(Nat) /\ batch \in Seq(Nat) /\ queue \in Seq(Nat) /\ next \in Nat /\ Len(table) \in Nat
  BY <1>1, LogTyped
<1>3. OrderedAt(table', batch', queue', next')
  BY <1>1, <1>2, RecordOrders DEF Record
<1>4. Elements(queue) \subseteq Elements(queue')
  BY <1>2, ElementsOfAppend DEF Record
<1>5. NothingLost'
  BY <1>1, <1>4 DEF NothingLost, Held, Record
<1>6. LogTypeOK'
  <2>1. next \in Entries /\ next' \in 1 .. MaxEntries + 1
    BY <1>1, LogAssumption DEF LogTypeOK, Record, Entries
  <2>2. Len(queue) < Capacity => Append(queue, next) \in Seq(Entries) /\ Len(Append(queue, next)) <= Capacity
    <3>1. /\ Append(queue, next) \in Seq(Entries)
          /\ Len(Append(queue, next)) = Len(queue) + 1 /\ Len(queue) \in Nat
      BY <1>1, <2>1 DEF LogTypeOK
    <3>2. Capacity \in Nat
      BY LogAssumption
    <3> QED
      BY <3>1, <3>2
  <2> QED
    BY <1>1, <2>1, <2>2 DEF LogTypeOK, Record
<1> QED
  BY <1>2, <1>3, <1>5, <1>6, WriterStep DEF Record

(* The entry at the head of the channel joins the batch.                   *)
LEMMA HeadJoins ==
  ASSUME LogInv, queue # <<>>
  PROVE  /\ Append(batch, Head(queue)) \in Seq(Entries) /\ Tail(queue) \in Seq(Entries)
         /\ Len(Tail(queue)) <= Capacity
         /\ OrderedAt(table, Append(batch, Head(queue)), Tail(queue), next)
         /\ Elements(Append(batch, Head(queue))) \cup Elements(Tail(queue))
              = Elements(batch) \cup Elements(queue)
<1>1. LogTypeOK /\ OrderedAt(table, batch, queue, next)
  BY DEF LogInv
<1>2. table \in Seq(Nat) /\ batch \in Seq(Nat) /\ queue \in Seq(Nat) /\ next \in Nat
  BY <1>1, LogTyped
<1>3. /\ Head(queue) \in Entries /\ Tail(queue) \in Seq(Entries) /\ Len(Tail(queue)) = Len(queue) - 1
      /\ Len(queue) \in Nat /\ Len(queue) <= Capacity /\ batch \in Seq(Entries)
  BY <1>1, HeadTailProperties, EmptySeq DEF LogTypeOK
<1>4. Len(Tail(queue)) <= Capacity
  BY <1>3, LogAssumption
<1> QED
  BY <1>1, <1>2, <1>3, <1>4, TakeOrders, AppendProperties

LEMMA TakeInv == LogInv /\ Take => LogInv'
<1> SUFFICES ASSUME LogInv, Take PROVE LogInv'
  OBVIOUS
<1> DEFINE b == Append(batch, Head(queue))
<1>1. LogTypeOK /\ NothingLost /\ queue # <<>> /\ Len(table) \in Nat
  BY LogTyped DEF LogInv, Take
<1>2. /\ b \in Seq(Entries) /\ Tail(queue) \in Seq(Entries) /\ Len(Tail(queue)) <= Capacity
      /\ OrderedAt(table, b, Tail(queue), next)
      /\ Elements(b) \cup Elements(Tail(queue)) = Elements(batch) \cup Elements(queue)
  BY <1>1, HeadJoins
<1>3. /\ IF Len(b) >= BatchSize THEN Flush(b) ELSE batch' = b /\ UNCHANGED <<table, failed>>
      /\ queue' = Tail(queue) /\ worker = "running"
      /\ UNCHANGED <<next, worker, closing, before, reader>>
  BY DEF Take
<1> HIDE DEF b
<1>4. CASE Flush(b)
  <2>1. Tail(queue) \in Seq(Nat)
    BY <1>2, SeqOfEntries
  <2>2. /\ table' \in Seq(Entries) /\ batch' = <<>> /\ failed' \in SUBSET Entries
        /\ OrderedAt(table', batch', Tail(queue), next)
        /\ Elements(table') \cup failed' = Elements(table) \cup failed \cup Elements(b)
        /\ Len(table) <= Len(table')
    BY <1>1, <1>2, <1>4, <2>1, FlushLeaves
  <2>3. LogTypeOK'
    BY <1>1, <1>2, <1>3, <2>2 DEF LogTypeOK
  <2>4. NothingLost'
    BY <1>1, <1>2, <1>3, <2>2, NoElements DEF NothingLost, Held
  <2> QED
    BY <1>3, <2>2, <2>3, <2>4, WriterStep
<1>5. CASE batch' = b /\ UNCHANGED <<table, failed>>
  <2>1. LogTypeOK'
    BY <1>1, <1>2, <1>3, <1>5 DEF LogTypeOK
  <2>2. NothingLost'
    BY <1>1, <1>2, <1>3, <1>5 DEF NothingLost, Held
  <2> QED
    BY <1>1, <1>2, <1>3, <1>5, <2>1, <2>2, WriterStep
<1> QED
  BY <1>3, <1>4, <1>5

LEMMA TickInv == LogInv /\ Tick => LogInv'
<1> SUFFICES ASSUME LogInv, Tick PROVE LogInv'
  OBVIOUS
<1>1. LogTypeOK /\ NothingLost /\ OrderedAt(table, batch, queue, next) /\ batch \in Seq(Entries)
  BY DEF LogInv, LogTypeOK
<1>2. /\ table' \in Seq(Entries) /\ batch' = <<>> /\ failed' \in SUBSET Entries
      /\ OrderedAt(table', batch', queue, next)
      /\ Elements(table') \cup failed' = Elements(table) \cup failed \cup Elements(batch)
      /\ Len(table) <= Len(table')
  BY <1>1, LogTyped, FlushLeaves DEF Tick
<1>3. LogTypeOK'
  BY <1>1, <1>2 DEF LogTypeOK, Tick
<1>4. NothingLost'
  BY <1>1, <1>2, NoElements DEF NothingLost, Held, Tick
<1> QED
  BY <1>2, <1>3, <1>4, WriterStep DEF Tick

LEMMA CloseInv == LogInv /\ (Close \/ Stop \/ CloseReturns) => LogInv'
<1> SUFFICES ASSUME LogInv, Close \/ Stop \/ CloseReturns PROVE LogInv'
  OBVIOUS
<1>1. /\ LogTypeOK /\ NothingLost /\ OrderedAt(table, batch, queue, next) /\ Len(table) \in Nat
      /\ Elements(queue) \in SUBSET Entries /\ Elements(batch) \in SUBSET Entries
  BY LogTyped, SeqOfEntries DEF LogInv, LogTypeOK
<1>2. LogTypeOK'
  BY <1>1 DEF LogTypeOK, Close, Stop, CloseReturns
<1>3. NothingLost'
  BY <1>1 DEF NothingLost, Held, LogTypeOK, Close, Stop, CloseReturns
<1>4. UNCHANGED <<table, batch, queue, next, reader>>
  BY DEF Close, Stop, CloseReturns
<1> QED
  BY <1>1, <1>2, <1>3, <1>4, WriterStep

LEMMA DrainInv == LogInv /\ Drain => LogInv'
<1> SUFFICES ASSUME LogInv, Drain PROVE LogInv'
  OBVIOUS
<1>1. LogTypeOK /\ NothingLost /\ queue # <<>> /\ Len(table) \in Nat
  BY LogTyped DEF LogInv, Drain
<1>2. LogTypeOK'
  BY <1>1, HeadJoins DEF LogTypeOK, Drain
<1>3. NothingLost'
  BY <1>1, HeadJoins DEF NothingLost, Held, Drain
<1>4. OrderedAt(table', batch', queue', next')
  BY <1>1, HeadJoins DEF Drain
<1> QED
  BY <1>1, <1>2, <1>3, <1>4, WriterStep DEF Drain

LEMMA DrainedInv == LogInv /\ Drained => LogInv'
<1> SUFFICES ASSUME LogInv, Drained PROVE LogInv'
  OBVIOUS
<1>1. LogTypeOK /\ NothingLost /\ OrderedAt(table, batch, queue, next) /\ batch \in Seq(Entries)
  BY DEF LogInv, LogTypeOK
<1>2. /\ table' \in Seq(Entries) /\ batch' = <<>> /\ failed' \in SUBSET Entries
      /\ OrderedAt(table', batch', queue, next)
      /\ Elements(table') \cup failed' = Elements(table) \cup failed \cup Elements(batch)
      /\ Len(table) <= Len(table')
  BY <1>1, LogTyped, FlushLeaves DEF Drained
<1>3. LogTypeOK'
  BY <1>1, <1>2 DEF LogTypeOK, Drained
<1>4. NothingLost'
  <2>1. /\ Elements(queue) = {} /\ closing # "no"
        /\ before \subseteq Elements(table) \cup failed \cup Elements(batch)
    BY <1>1, NoElements DEF NothingLost, Held, Drained
  <2> QED
    BY <1>1, <1>2, <2>1, NoElements DEF NothingLost, Held, Drained
<1> QED
  BY <1>2, <1>3, <1>4, WriterStep DEF Drained

LEMMA ReaderInv == LogInv /\ (ReadOn \/ \E limit \in Limits : StartReading(limit)) => LogInv'
<1> SUFFICES ASSUME LogInv, ReadOn \/ \E limit \in Limits : StartReading(limit) PROVE LogInv'
  OBVIOUS
<1>1. LogTypeOK /\ UNCHANGED queueVars /\ Len(table) \in Nat /\ reader.first <= Len(table)
  BY LogTyped DEF LogInv, ReadOn, StartReading
<1>2. PICK r \in ReaderSet :
        /\ CountsDown(r) /\ ReadPage(r) /\ r.first <= Len(table)
        /\ \/ r.cursor = 0 /\ Len(r.got) = 0 /\ r.first = Len(table)
           \/ Len(r.got) >= 1 /\ r.cursor = r.first + 1 - Len(r.got)
  <2>1. CASE ReadOn
    BY <1>1, <2>1 DEF LogInv, LogTypeOK, ReadOn, ReadSoFar
  <2>2. ASSUME NEW limit \in Limits, StartReading(limit)
        PROVE  \E r \in ReaderSet :
                 /\ CountsDown(r) /\ ReadPage(r) /\ r.first <= Len(table)
                 /\ \/ r.cursor = 0 /\ Len(r.got) = 0 /\ r.first = Len(table)
                    \/ Len(r.got) >= 1 /\ r.cursor = r.first + 1 - Len(r.got)
    <3> DEFINE r == [NoReader EXCEPT !.limit = limit, !.first = Len(table)]
    <3> DEFINE r0 == [NoReader EXCEPT !.limit = limit]
    <3>a. r0 = [step |-> "idle", limit |-> limit, cursor |-> 0, first |-> 0, got |-> <<>>]
      BY DEF NoReader
    <3>b. r = [r0 EXCEPT !.first = Len(table)]
      BY DEF NoReader
    <3> HIDE DEF r, r0
    <3>0. r = [step |-> "idle", limit |-> limit, cursor |-> 0, first |-> Len(table), got |-> <<>>]
      BY <3>a, <3>b
    <3>1. r \in ReaderSet /\ r.cursor = 0 /\ r.got = <<>> /\ r.first = Len(table) /\ r.limit = limit
      BY <1>1, <3>0 DEF ReaderSet
    <3>2. CountsDown(r)
      BY <1>1, <3>1 DEF CountsDown
    <3>3. ReadPage(r)
      BY <2>2 DEF StartReading, r
    <3> QED
      BY <1>1, <3>1, <3>2, <3>3
  <2> QED
    BY <2>1, <2>2
<1>3. reader' \in ReaderSet /\ ReadSoFar(reader') /\ reader'.first = r.first
  BY <1>1, <1>2, PageReads
<1>4. LogTypeOK'
  BY <1>1, <1>3 DEF LogTypeOK, queueVars
<1>5. OrderedAt(table, batch, queue, next)' /\ NothingLost'
  BY <1>1 DEF LogInv, NothingLost, Held, queueVars
<1> QED
  BY <1>1, <1>2, <1>3, <1>4, <1>5 DEF LogInv, queueVars

LEMMA LogStepInv == LogInv /\ [LogNext]_logVars => LogInv'
<1> SUFFICES ASSUME LogInv, [LogNext]_logVars PROVE LogInv'
  OBVIOUS
<1>1. CASE UNCHANGED logVars
  BY <1>1 DEF LogInv, LogTypeOK, NothingLost, Held, logVars, queueVars
<1> QED
  BY <1>1, RecordInv, TakeInv, TickInv, CloseInv, DrainInv, DrainedInv, ReaderInv DEF LogNext

LEMMA LogInvHolds == LogSpec => []LogInv
  BY LogInitInv, LogStepInv, PTL DEF LogSpec

(* Types of the channel, the batch, the table and of who reads it          *)
(* (syslog.go).                                                            *)
THEOREM LogTypesHold == LogSpec => []LogTypeOK
<1>1. LogInv => LogTypeOK
  BY DEF LogInv
<1> QED
  BY <1>1, LogInvHolds, PTL

(* Entries are stored in the order they were recorded in, and what was     *)
(* recorded before Close is stored when it returns, but for the batches    *)
(* that the database refused (worker, Close).                              *)
THEOREM EntriesAreKept == LogSpec => []EntriesKept
<1>1. LogInv => EntriesKept
  <2> SUFFICES ASSUME LogInv PROVE EntriesKept
    OBVIOUS
  <2>1. StoredInOrder
    <3>1. Sorted(table) /\ DOMAIN table = 1 .. Len(table)
      BY DEF LogInv, LogTypeOK, OrderedAt
    <3> QED
      BY <3>1 DEF Sorted, StoredInOrder
  <2>2. CloseKeeps
    BY DEF LogInv, NothingLost, CloseKeeps
  <2> QED
    BY <2>1, <2>2 DEF EntriesKept
<1> QED
  BY <1>1, LogInvHolds, PTL

(* Whoever reads page by page while entries are recorded sees every entry  *)
(* that was there at the start once, the latest first (QueryLogs).         *)
THEOREM PagesAreComplete == LogSpec => []PagesComplete
<1>1. LogInv => PagesComplete
  <2> SUFFICES ASSUME LogInv PROVE PagesComplete
    OBVIOUS
  <2> DEFINE r == reader
  <2>1. /\ r.first \in Nat /\ r.got \in Seq(Nat) /\ DOMAIN r.got = 1 .. Len(r.got) /\ Len(r.got) \in Nat
        /\ CountsDown(r) /\ (r.step = "end" /\ r.limit <= MaxPage => Len(r.got) = r.first)
    BY DEF LogInv, LogTypeOK, ReaderSet, ReadSoFar
  <2> HIDE DEF r
  <2>2. ASSUME NEW i \in DOMAIN r.got, NEW j \in DOMAIN r.got, i < j
        PROVE  r.got[i] > r.got[j]
    <3>0. i \in 1 .. Len(r.got) /\ j \in 1 .. Len(r.got)
      BY <2>1
    <3>1. \A k \in 1 .. Len(r.got) : r.got[k] = r.first + 1 - k
      BY <2>1 DEF CountsDown
    <3>2. r.got[i] = r.first + 1 - i /\ r.got[j] = r.first + 1 - j
      BY <3>0, <3>1
    <3>3. i \in Nat /\ j \in Nat /\ r.first \in Nat
      BY <2>1, <3>0
    <3> QED
      BY <2>2, <3>2, <3>3
  <2>3. ASSUME r.step = "end", r.limit <= MaxPage, NEW x \in 1 .. r.first
        PROVE  x \in Elements(r.got)
    <3> DEFINE i == r.first + 1 - x
    <3>0. i \in 1 .. Len(r.got) /\ r.first + 1 - i = x
      BY <2>1, <2>3
    <3> HIDE DEF i
    <3>1. i \in 1 .. Len(r.got) /\ r.got[i] = x
      BY <2>1, <3>0 DEF CountsDown
    <3> QED
      BY <2>1, <3>1 DEF Elements
  <2> QED
    BY <2>2, <2>3 DEF PagesComplete, r
<1> QED
  BY <1>1, LogInvHolds, PTL

-----------------------------------------------------------------------------
(* MCDashboard. A behaviour of the three parts together is one of each.    *)
LEMMA PartsRun == DashboardSpec => AccountsSpec /\ LimiterSpec /\ LogSpec
<1>1. DashboardInit => AccountsInit /\ LimiterInit /\ LogInit
  BY DEF DashboardInit
<1>2. ASSUME [DashboardNext]_dashboardVars
      PROVE  [AccountsNext]_accountVars /\ [LimiterNext]_limiterVars /\ [LogNext]_logVars
  BY <1>2 DEF DashboardNext, dashboardVars
<1> QED
  BY <1>1, <1>2, PTL DEF DashboardSpec, AccountsSpec, LimiterSpec, LogSpec

(* Types of each part.                                                     *)
THEOREM DashboardTypesHold == DashboardSpec => []DashboardTypeOK
<1>1. DashboardInit => part \in {"accounts", "limiter", "log"}
  BY DEF DashboardInit
<1>2. part \in {"accounts", "limiter", "log"} /\ [DashboardNext]_dashboardVars
        => (part \in {"accounts", "limiter", "log"})'
  BY DEF DashboardNext, dashboardVars
<1>3. part \in {"accounts", "limiter", "log"} /\ AccountsTypeOK /\ LimiterTypeOK /\ LogTypeOK
        => DashboardTypeOK
  BY DEF DashboardTypeOK
<1> QED
  BY <1>1, <1>2, <1>3, PartsRun, AccountTypesHold, LimiterTypesHold, LogTypesHold, PTL
     DEF DashboardSpec
=============================================================================
