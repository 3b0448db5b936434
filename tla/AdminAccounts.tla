--------------------------- MODULE AdminAccounts ---------------------------
(***************************************************************************)
(* Dashboard accounts and their sessions (internal/auth and its endpoints  *)
(* in internal/handler).                                                   *)
(*                                                                         *)
(* A request checks something in one SQL statement and acts on it in a     *)
(* later one, with a slow password hash in between and no transaction      *)
(* around them, so requests interleave statement by statement. The         *)
(* database does not enforce foreign keys (InitDB sets no such pragma):    *)
(* the session rows of a deleted account stay, and a session authenticates *)
(* only while the account with its id exists.                              *)
(***************************************************************************)
EXTENDS Naturals, FiniteSets

CONSTANTS
  Requests,
  Names,
  MaxId,         \* bound on the accounts ever made
  MaxPassword,   \* bound on the passwords an account goes through
  MaxSessions    \* bound on the session rows there are

ASSUME AccountsAssumption == MaxId \in Nat

VARIABLES
  user,          \* rows of users by id; a password is the number of its change
  nextId,        \* AUTOINCREMENT: ids are not used again
  sessions,      \* rows of sessions
  request,       \* what each request is doing
  overlapped     \* history: a deletion counted while another was under way

accountVars == <<user, nextId, sessions, request, overlapped>>

Ids == 1 .. MaxId

NoUser == [name |-> "", role |-> "none", password |-> 0, recovery |-> FALSE, reset |-> 0]
Exists(id) == user[id] # NoUser

(* own: the account whose session a user's change of his own came with;    *)
(* id, password: the account and the password a request goes by; also: a   *)
(* reset that clears the recovery question too; late: sessions of the      *)
(* account were deleted since the request checked the password (history).  *)
Idle == [step |-> "idle", own |-> 0, id |-> 0, name |-> "", password |-> 0, also |-> FALSE,
         late |-> FALSE, count |-> 0]

Goto(r, s) == request' = [request EXCEPT ![r].step = s]
Done(r)    == request' = [request EXCEPT ![r] = Idle]

Admins    == {id \in Ids : user[id].role = "admin"}
Named(n)  == {id \in Ids : Exists(id) /\ user[id].name = n}
Unused(n) == Named(n) = {} /\ nextId <= MaxId

(* ValidateSession: sessions joined with users. The requests of a session  *)
(* that has expired are refused like those without one.                    *)
SignedIn(id)   == Exists(id) /\ \E s \in sessions : s.id = id
Authorised(id) == SignedIn(id) /\ user[id].role = "admin"

-----------------------------------------------------------------------------
AccountsInit ==
  /\ user = [id \in Ids |-> NoUser]
  /\ nextId = 1
  /\ sessions = {}
  /\ request = [r \in Requests |-> Idle]
  /\ overlapped = FALSE

Insert(n, role) ==
  /\ user' = [user EXCEPT ![nextId] =
       [name |-> n, role |-> role, password |-> 0, recovery |-> FALSE, reset |-> 0]]
  /\ nextId' = nextId + 1

(* Setup looks for users, hashes the password, then inserts.               *)
SetupCheck(r, n) ==
  /\ request[r].step = "idle" /\ \A id \in Ids : ~ Exists(id)
  /\ request' = [request EXCEPT ![r].step = "setup", ![r].name = n]
  /\ UNCHANGED <<user, nextId, sessions, overlapped>>

SetupInsert(r) ==
  /\ request[r].step = "setup"
  /\ IF Unused(request[r].name)
     THEN /\ Insert(request[r].name, "admin")
          /\ request' = [request EXCEPT ![r] =
               [Idle EXCEPT !.step = "login", !.id = nextId, !.name = request[r].name]]
     ELSE Done(r) /\ UNCHANGED <<user, nextId>>
  /\ UNCHANGED <<sessions, overlapped>>

(* A request that must be signed in for: its session is validated, and     *)
(* everything else comes in later statements.                              *)
Admit(r, q) ==
  /\ request[r].step = "idle"
  /\ request' = [request EXCEPT ![r] = q]
  /\ UNCHANGED <<user, nextId, sessions, overlapped>>

OwnChange(r, id, s) ==
  SignedIn(id) /\ Admit(r, [Idle EXCEPT !.step = s, !.own = id, !.name = user[id].name])

UpdatePassword(r, id)      == OwnChange(r, id, "ownPassword")
SetRecoveryQuestion(r, id) == OwnChange(r, id, "ownQuestion")

(* Login: the row is read and the password typed compared with it; the     *)
(* session is inserted by a later statement.                               *)
Verify(r, id, p, s) ==
  /\ Exists(id) /\ p = user[id].password
  /\ request' = [request EXCEPT ![r] =
       [Idle EXCEPT !.step = s, !.own = request[r].own,
                    !.id = id, !.name = user[id].name, !.password = p]]
  /\ UNCHANGED <<user, nextId, sessions, overlapped>>

Login(r, n, p) ==
  request[r].step = "idle" /\ \E id \in Named(n) : Verify(r, id, p, "login")

(* A change of one's own verifies the current password by the same Login,  *)
(* of whoever has the name by then, and leaves a session of it behind.     *)
VerifyOwn(r, p) ==
  LET q == request[r]
  IN  /\ q.step \in {"ownPassword", "ownQuestion"}
      /\ \E id \in Named(q.name) :
           Verify(r, id, p, IF q.step = "ownPassword" THEN "password" ELSE "recovery")

(* A wrong password or a bad new value ends a request that was admitted.   *)
Refuse(r) ==
  /\ request[r].step \in {"ownPassword", "ownQuestion", "change", "question", "create"}
  /\ Done(r)
  /\ UNCHANGED <<user, nextId, sessions, overlapped>>

CreateSession(r) ==
  LET q == request[r]
  IN  /\ q.step \in {"login", "password", "recovery"}
      /\ Cardinality(sessions) < MaxSessions
      /\ sessions' = sessions \cup
           {[id |-> q.id, name |-> q.name, password |-> q.password, late |-> q.late]}
      /\ request' = [request EXCEPT ![r] =
           IF q.step = "login" THEN Idle
           ELSE [q EXCEPT !.step = IF q.step = "password" THEN "change" ELSE "question"]]
      /\ UNCHANGED <<user, nextId, overlapped>>

(* The user's own change: other sessions are kept.                         *)
ChangePassword(r) ==
  LET id == request[r].own
  IN  /\ request[r].step = "change" /\ user[id].password < MaxPassword
      /\ user' = IF Exists(id) THEN [user EXCEPT ![id].password = @ + 1] ELSE user
      /\ Done(r)
      /\ UNCHANGED <<nextId, sessions, overlapped>>

StoreQuestion(r) ==
  LET id == request[r].own
  IN  /\ request[r].step = "question"
      /\ user' = IF Exists(id) THEN [user EXCEPT ![id].recovery = TRUE] ELSE user
      /\ Done(r)
      /\ UNCHANGED <<nextId, sessions, overlapped>>

Logout(s) ==
  /\ s \in sessions
  /\ sessions' = sessions \ {s}
  /\ UNCHANGED <<user, nextId, request, overlapped>>

-----------------------------------------------------------------------------
ResetUser(r, admin, id, both) ==
  Authorised(admin) /\ Admit(r, [Idle EXCEPT !.step = "resetRole", !.id = id, !.also = both])

ResetUserRecovery(r, admin, id) ==
  Authorised(admin) /\ Admit(r, [Idle EXCEPT !.step = "clearRole", !.id = id])

(* A reset by an administrator reads the role first ...                    *)
ReadRole(r) ==
  LET q == request[r]
  IN  /\ q.step \in {"resetRole", "clearRole"}
      /\ IF Exists(q.id) /\ user[q.id].role # "admin"
         THEN Goto(r, IF q.step = "resetRole" THEN "reset" ELSE "clear")
         ELSE Done(r)
      /\ UNCHANGED <<user, nextId, sessions, overlapped>>

(* ... and RecoverPassword the answer; then both store the new password.   *)
RecoverPassword(r, n) ==
  /\ request[r].step = "idle"
  /\ \E id \in Named(n) :
       /\ user[id].recovery
       /\ request' = [request EXCEPT ![r] = [Idle EXCEPT !.step = "reset", !.id = id]]
  /\ UNCHANGED <<user, nextId, sessions, overlapped>>

StorePassword(r) ==
  LET id == request[r].id
  IN  /\ request[r].step = "reset" /\ user[id].password < MaxPassword
      /\ user' = IF Exists(id)
                 THEN [user EXCEPT ![id].password = @ + 1, ![id].reset = user[id].password + 1]
                 ELSE user
      /\ Goto(r, "signOut")
      /\ UNCHANGED <<nextId, sessions, overlapped>>

(* Mutant: the sessions of the account stay.                               *)
KeepSessions(r) ==
  /\ request[r].step = "signOut"
  /\ Done(r)
  /\ UNCHANGED <<user, nextId, sessions, overlapped>>

DeleteSessions(r) ==
  LET id == request[r].id
  IN  /\ request[r].step = "signOut"
      /\ sessions' = {s \in sessions : s.id # id}
      /\ request' = [q \in Requests |->
           IF q = r THEN IF request[r].also THEN [Idle EXCEPT !.step = "clear", !.id = id] ELSE Idle
           ELSE [request[q] EXCEPT !.late = @ \/ request[q].id = id]]
      /\ UNCHANGED <<user, nextId, overlapped>>

(* ResetUserRecovery; the role it reads again has not changed.             *)
ClearRecovery(r) ==
  LET id == request[r].id
  IN  /\ request[r].step = "clear"
      /\ user' = IF Exists(id) THEN [user EXCEPT ![id].recovery = FALSE] ELSE user
      /\ Done(r)
      /\ UNCHANGED <<nextId, sessions, overlapped>>

-----------------------------------------------------------------------------
CreateUser(r, admin, n) ==
  Authorised(admin) /\ Admit(r, [Idle EXCEPT !.step = "create", !.name = n])

(* Mutant: the id of a deleted account is given out again.                 *)
InsertReusingId(r, role) ==
  /\ request[r].step = "create" /\ Named(request[r].name) = {}
  /\ \E id \in {i \in Ids : ~ Exists(i)} :
       user' = [user EXCEPT ![id] =
         [name |-> request[r].name, role |-> role, password |-> 0, recovery |-> FALSE, reset |-> 0]]
  /\ Done(r)
  /\ UNCHANGED <<nextId, sessions, overlapped>>

(* The row, after the hash; names are unique.                              *)
InsertUser(r, role) ==
  /\ request[r].step = "create" /\ Unused(request[r].name)
  /\ Insert(request[r].name, role)
  /\ Done(r)
  /\ UNCHANGED <<sessions, overlapped>>

(* An account other than one's own is named; ...                           *)
DeleteBegin(r, admin, id) ==
  Authorised(admin) /\ id # admin /\ Admit(r, [Idle EXCEPT !.step = "count", !.id = id])

(* ... DeleteUser counts the administrators, ...                           *)
CountAdmins(r) ==
  /\ request[r].step = "count"
  /\ request' = [request EXCEPT ![r].step = "delete", ![r].count = Cardinality(Admins)]
  /\ overlapped' = (overlapped \/ \E q \in Requests :
       request[q].step = "delete" /\ {request[q].id, request[r].id} \subseteq Admins)
  /\ UNCHANGED <<user, nextId, sessions>>

(* Mutant: the count is not looked at.                                     *)
DeleteAnyone(r) ==
  /\ request[r].step = "delete"
  /\ user' = [user EXCEPT ![request[r].id] = NoUser]
  /\ Done(r)
  /\ UNCHANGED <<nextId, sessions, overlapped>>

(* ... then it reads the role of the account, which never changes, and     *)
(* deletes the row.                                                        *)
DeleteUser(r) ==
  LET id == request[r].id
  IN  /\ request[r].step = "delete"
      /\ user' = IF id \in Admins /\ request[r].count <= 1 THEN user
                 ELSE [user EXCEPT ![id] = NoUser]
      /\ Done(r)
      /\ UNCHANGED <<nextId, sessions, overlapped>>

(* The process ends. A reset cut off between its statements does not       *)
(* delete the sessions it was to delete (history).                         *)
AccountsRestart ==
  /\ sessions' = {[s EXCEPT !.late = @ \/ \E r \in Requests :
                      request[r].step = "signOut" /\ request[r].id = s.id] : s \in sessions}
  /\ request' = [r \in Requests |-> Idle]
  /\ UNCHANGED <<user, nextId, overlapped>>

-----------------------------------------------------------------------------
AccountsNext ==
  \/ \E r \in Requests, n \in Names : SetupCheck(r, n) \/ RecoverPassword(r, n)
  \/ \E r \in Requests, n \in Names, p \in 0 .. MaxPassword : Login(r, n, p)
  \/ \E r \in Requests, id \in Ids : UpdatePassword(r, id) \/ SetRecoveryQuestion(r, id)
  \/ \E r \in Requests, p \in 0 .. MaxPassword : VerifyOwn(r, p)
  \/ \E r \in Requests, admin, id \in Ids :
       \/ \E both \in BOOLEAN : ResetUser(r, admin, id, both)
       \/ ResetUserRecovery(r, admin, id) \/ DeleteBegin(r, admin, id)
  \/ \E r \in Requests, admin \in Ids, n \in Names : CreateUser(r, admin, n)
  \/ \E r \in Requests, role \in {"admin", "operator"} : InsertUser(r, role)
  \/ \E r \in Requests :
       \/ Refuse(r) \/ ReadRole(r)
       \/ SetupInsert(r) \/ CreateSession(r) \/ ChangePassword(r) \/ StoreQuestion(r)
       \/ StorePassword(r) \/ DeleteSessions(r) \/ ClearRecovery(r)
       \/ CountAdmins(r) \/ DeleteUser(r)
  \/ \E s \in sessions : Logout(s)
  \/ AccountsRestart

AccountsSpec == AccountsInit /\ [][AccountsNext]_accountVars

-----------------------------------------------------------------------------
UserSet == [name : Names, role : {"admin", "operator"}, password : Nat,
            recovery : BOOLEAN, reset : Nat]

SessionSet == [id : Ids, name : Names, password : Nat, late : BOOLEAN]

RequestSet ==
  [step : {"idle", "setup", "login", "ownPassword", "ownQuestion", "password", "recovery",
           "change", "question", "resetRole", "clearRole", "reset", "signOut", "clear",
           "create", "count", "delete"},
   own : 0 .. MaxId, id : 0 .. MaxId, name : Names \cup {""}, password : Nat, also : BOOLEAN,
   late : BOOLEAN, count : Nat]

AccountsTypeOK ==
  /\ user \in [Ids -> UserSet \cup {NoUser}]
  /\ nextId \in 1 .. MaxId + 1
  /\ sessions \in SUBSET SessionSet
  /\ request \in [Requests -> RequestSet]
  /\ overlapped \in BOOLEAN

(* Deleting an account deletes no session: what keeps its sessions out is  *)
(* that no later account has its id. Whoever a session lets in is who      *)
(* signed in with it.                                                      *)
SessionsLetInTheirOwner ==
  \A s \in sessions : Exists(s.id) => user[s.id].name = s.name

(* TestRecoverPasswordDeletesSessions, for every interleaving: no session  *)
(* that rests on a password from before a reset is left when the reset is  *)
(* over, but for logins which had the old password verified before it and  *)
(* ended after it, and resets that were cut off.                           *)
ResetEndsSessions ==
  \A s \in sessions :
    /\ Exists(s.id) /\ s.password < user[s.id].reset /\ ~ s.late
    => \E r \in Requests : request[r].step = "signOut" /\ request[r].id = s.id

(* Both, for one run.                                                      *)
SessionsAreSound == SessionsLetInTheirOwner /\ ResetEndsSessions

(* DeleteUser "cannot delete the last administrator": once set up, there   *)
(* is an administrator, whoever deletes whom, unless two requests have     *)
(* each counted the administrator that the other was deleting.             *)
AdministratorRemains == nextId > 1 /\ ~ overlapped => Admins # {}
=============================================================================
