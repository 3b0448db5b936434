------------------------- MODULE OAuthGrantsProofs -------------------------
(***************************************************************************)
(* Proofs about OAuthGrants for any providers, accounts, logins, refreshes *)
(* and administrators.                                                     *)
(***************************************************************************)
EXTENDS OAuthGrants, TLAPS

(* Cancelling sessions keeps the types of what it changes.                 *)
LEMMA CancelTypes ==
  ASSUME TypeOK, NEW S, CancelSessions(S)
  PROVE  /\ session' \in [Logins -> SessionSet]
         /\ grant' \in [Logins -> {"none", "open", "bound"}]
         /\ creation' \in [Accounts -> LoginOrNone]
<1>1. session' \in [Logins -> SessionSet]
  <2>1. \A l \in Logins : session[l] \in SessionSet
    BY DEF TypeOK
  <2>2. \A l \in Logins : [session[l] EXCEPT !.state = "over"] \in SessionSet
    BY <2>1 DEF SessionSet
  <2> QED
    BY <2>1, <2>2 DEF CancelSessions
<1>2. /\ grant' \in [Logins -> {"none", "open", "bound"}]
      /\ creation' \in [Accounts -> LoginOrNone]
  BY DEF TypeOK, CancelSessions, CancelGrants, LoginOrNone
<1> QED
  BY <1>1, <1>2

(* So does dropping grants alone.                                          *)
LEMMA CancelGrantTypes ==
  ASSUME TypeOK, NEW S, CancelGrants(S)
  PROVE  /\ grant' \in [Logins -> {"none", "open", "bound"}]
         /\ creation' \in [Accounts -> LoginOrNone]
  BY DEF TypeOK, CancelGrants, LoginOrNone

-----------------------------------------------------------------------------
(* The engine starts well typed.                                           *)
LEMMA InitType == Init => TypeOK
  BY DEF Init, TypeOK, Unborn, Tombstones, NoSession, NoTask, NoRemoval, AccountSet, SessionSet,
         TaskSet, RemovalSet, ProviderOrNone, AccountOrNone, LoginOrNone, AtWork, Tasks

(* Every step of a login keeps the types.                                  *)
LEMMA LoginType ==
  ASSUME TypeOK, NEW l \in Logins, LoginStep(l)
  PROVE  TypeOK'
<1> USE DEF TypeOK
<1> l \in Tasks
  BY DEF Tasks
<1>1. ASSUME NEW p \in Providers, NEW x \in Accounts \cup {NoAccount}, StartRead(l, p, x)
      PROVE  TypeOK'
  <2>1. session' \in [Logins -> SessionSet]
    <3> HIDE DEF TypeOK
    <3>0. session[l] \in SessionSet /\ p \in ProviderOrNone /\ x \in AccountOrNone
      BY DEF TypeOK, ProviderOrNone, AccountOrNone
    <3>1. [session[l] EXCEPT !.state = "starting", !.provider = p, !.account = x] \in SessionSet
      BY <3>0 DEF SessionSet
    <3> QED
      BY <1>1, <3>1 DEF StartRead, TypeOK
  <2>2. begun' \in [Logins -> Nat]
    BY <1>1 DEF StartRead, AccountSet
  <2> QED
    BY <1>1, <2>1, <2>2 DEF StartRead, store, history, AtWork
<1>2. CASE StartRegister(l)
  <2>1. \A j \in Logins, s \in {"pending", "swept"} : [session[j] EXCEPT !.state = s] \in SessionSet
    BY DEF SessionSet
  <2>2. session' \in [Logins -> SessionSet]
    BY <1>2, <2>1 DEF StartRegister
  <2>3. /\ grant' \in [Logins -> {"none", "open", "bound"}]
        /\ creation' \in [Accounts -> LoginOrNone]
    BY <1>2 DEF StartRegister, LoginOrNone
  <2> QED
    BY <1>2, <2>2, <2>3 DEF StartRegister, store, history, AtWork
<1>3. CASE StartIssue(l)
  <2>1. task' = [task EXCEPT ![l] = [task[l] EXCEPT !.step = "wait", !.login = l]]
    BY <1>3 DEF StartIssue
  <2>2. [task[l] EXCEPT !.step = "wait", !.login = l] \in TaskSet
    <3> HIDE DEF TypeOK
    <3>1. task[l] \in TaskSet
      BY DEF TypeOK
    <3> QED
      BY <3>1 DEF TaskSet, LoginOrNone
  <2>3. task' \in [Tasks -> TaskSet] /\ task'[l].step = "wait" /\ task'[l].login = l
    BY <2>1, <2>2 DEF TaskSet
  <2>4. \A t \in Tasks \ {l} : task'[t] = task[t]
    BY <2>1
  <2> QED
    BY <1>3, <2>3, <2>4 DEF StartIssue, store, history, AtWork
<1>4. CASE StartFails(l)
  BY <1>4, CancelTypes DEF StartFails, TaskSet, store, history, AtWork
<1>5. CASE SubmitCallback(l)
  BY <1>5 DEF SubmitCallback, Goto, TaskSet, store, history, AtWork
<1>6. CASE Redeem(l)
  BY <1>6 DEF Redeem, Goto, TaskSet, store, history, AtWork
<1>7. CASE Expire(l)
  <2>1. PICK v \in {"session", "grant"} : session' = [session EXCEPT ![l] = [session[l] EXCEPT !.late = v]]
    BY <1>7 DEF Expire
  <2>2. [session[l] EXCEPT !.late = v] \in SessionSet
    <3> HIDE DEF TypeOK
    <3>1. session[l] \in SessionSet
      BY DEF TypeOK
    <3> QED
      BY <3>1 DEF SessionSet
  <2>3. session' \in [Logins -> SessionSet]
    BY <2>1, <2>2
  <2> QED
    BY <1>7, <2>3 DEF Expire, store, history, AtWork
<1>8. CASE Prepare(l)
  <2>1. \A x \in {session[l].account} : x # NoAccount => x \in Accounts
    BY DEF SessionSet, AccountOrNone
  <2>2. PICK x \in Accounts :
          /\ session' = [session EXCEPT ![l].account = x, ![l].committing = TRUE]
          /\ creation' = [creation EXCEPT ![x] = l]
          /\ task' = [task EXCEPT ![l].step = "save", ![l].account = x]
    <3>1. CASE session[l].account = NoAccount
      BY <1>8, <3>1 DEF Prepare, FreshAccounts
    <3>2. CASE session[l].account # NoAccount
      BY <1>8, <2>1, <3>2 DEF Prepare
    <3> QED
      BY <3>1, <3>2
  <2>3. session' \in [Logins -> SessionSet]
    <3> HIDE DEF TypeOK
    <3>1. session[l] \in SessionSet /\ x \in AccountOrNone
      BY DEF TypeOK, AccountOrNone
    <3>2. [session[l] EXCEPT !.account = x, !.committing = TRUE] \in SessionSet
      BY <3>1 DEF SessionSet
    <3> QED
      BY <2>2, <3>2 DEF TypeOK
  <2>4. task' = [task EXCEPT ![l] = [task[l] EXCEPT !.step = "save", !.account = x]]
    BY <2>2
  <2>5. [task[l] EXCEPT !.step = "save", !.account = x] \in TaskSet /\ task[l].login \in Logins
    <3> HIDE DEF TypeOK
    <3>1. task[l] \in TaskSet /\ x \in AccountOrNone /\ task[l].login \in Logins
      BY <1>8 DEF Prepare, TypeOK, AccountOrNone
    <3> QED
      BY <3>1 DEF TaskSet
  <2>6. /\ task' \in [Tasks -> TaskSet] /\ task'[l].account = x /\ task'[l].login \in Logins
        /\ \A t \in Tasks \ {l} : task'[t] = task[t]
    BY <2>4, <2>5 DEF TaskSet
  <2>7. \A t \in Tasks : /\ task'[t].step \notin {"none", "failed"} => task'[t].login \in Logins
                         /\ AtWork(t)' => task'[t].account \in Accounts
    BY <2>6 DEF AtWork
  <2> QED
    BY <1>8, <2>2, <2>3, <2>6, <2>7 DEF Prepare, LoginOrNone, store, history
<1>9. CASE PrepareRefused(l)
  BY <1>9 DEF PrepareRefused, Goto, TaskSet, store, history, AtWork
<1>10. CASE SaveLogin(l)
  <2>1. task[l].account \in Accounts
    BY <1>10 DEF SaveLogin, AtWork
  <2>2. account' \in [Accounts -> AccountSet]
    <3>1. [state |-> "live", version |-> account[task[l].account].version + 1,
           owner |-> session[l].provider] \in AccountSet
      BY <2>1 DEF AccountSet, SessionSet
    <3> QED
      BY <1>10, <3>1 DEF SaveLogin
  <2>3. /\ credential' \in [Accounts -> LoginOrNone] /\ creation' \in [Accounts -> LoginOrNone]
        /\ grant' \in [Logins -> {"none", "open", "bound"}]
    BY <1>10 DEF SaveLogin, LoginOrNone
  <2>4. /\ task' \in [Tasks -> TaskSet] /\ task'[l].account = task[l].account
        /\ task'[l].login = task[l].login
    BY <1>10 DEF SaveLogin, Goto, TaskSet
  <2>5. \A t \in Tasks \ {l} : task'[t] = task[t]
    BY <1>10 DEF SaveLogin, Goto
  <2> QED
    BY <1>10, <2>1, <2>2, <2>3, <2>4, <2>5 DEF SaveLogin, history, AtWork
<1>11. CASE SaveLoginRefused(l)
  BY <1>11 DEF SaveLoginRefused, Goto, TaskSet, store, history, AtWork
<1>12. CASE Register(l)
  BY <1>12 DEF Register, Goto, TaskSet, LoginOrNone, store, history, AtWork
<1>13. CASE StatusOk(l)
  BY <1>13 DEF StatusOk, SessionSet, store, history, AtWork
<1>14. CASE StatusError(l)
  <2>1. session' \in [Logins -> SessionSet]
    <3>1. [session[l] EXCEPT !.state = "over"] \in SessionSet
      BY DEF SessionSet
    <3> QED
      BY <1>14, <3>1 DEF StatusError
  <2> QED
    BY <1>14, <2>1, CancelGrantTypes DEF StatusError, store, history, AtWork
<1>15. CASE FindExpired(l)
  <2>1. session' \in [Logins -> SessionSet]
    <3>1. [session[l] EXCEPT !.state = "over"] \in SessionSet
      BY DEF SessionSet
    <3> QED
      BY <1>15, <3>1 DEF FindExpired
  <2> QED
    BY <1>15, <2>1, CancelGrantTypes DEF FindExpired, store, history, AtWork
<1>16. CASE CancelLogin(l)
  BY <1>16, CancelTypes DEF CancelLogin, store, history, AtWork
<1> QED
  BY <1>1, <1>2, <1>3, <1>4, <1>5, <1>6, <1>7, <1>8, <1>9, <1>10, <1>11, <1>12, <1>13, <1>14,
     <1>15, <1>16 DEF LoginStep

(* So does every step of a refresh and of the hook.                        *)
LEMMA SdkType ==
  ASSUME TypeOK, \/ \E r \in Refreshers : RefreshStep(r)
                 \/ \E t \in Tasks : HookStep(t)
  PROVE  TypeOK'
<1> USE DEF TypeOK
<1>1. ASSUME NEW r \in Refreshers, NEW x \in Accounts, RefreshBegin(r, x) PROVE TypeOK'
  BY <1>1 DEF RefreshBegin, Tasks, TaskSet, AccountOrNone, LoginOrNone, store, history, AtWork
<1>2. ASSUME NEW r \in Refreshers, RefreshSave(r) PROVE TypeOK'
  <2>1. r \in Tasks /\ task[r].account \in Accounts /\ task[r].login \in Logins
    BY <1>2 DEF RefreshSave, Tasks, AtWork
  <2>2. memory' \in [Accounts -> LoginOrNone]
    BY <1>2, <2>1 DEF RefreshSave, LoginOrNone
  <2> QED
    BY <1>2, <2>1, <2>2 DEF RefreshSave, Goto, TaskSet, store, history, AtWork
<1>3. ASSUME NEW t \in Tasks, HookOwns(t) PROVE TypeOK'
  BY <1>3 DEF HookOwns, Goto, TaskSet, store, history, AtWork
<1>4. ASSUME NEW t \in Tasks, HookEvict(t) PROVE TypeOK'
  BY <1>4 DEF HookEvict, Goto, TaskSet, LoginOrNone, store, history, AtWork
<1>5. ASSUME NEW t \in Tasks, HookObserve(t) PROVE TypeOK'
  <2>1. session' \in [Logins -> SessionSet]
    BY <1>5 DEF HookObserve, SessionSet
  <2>2. [task[t] EXCEPT !.step = "ok"] \in TaskSet /\ NoTask \in TaskSet
    BY DEF TaskSet, NoTask, AccountOrNone, LoginOrNone
  <2>3. task[t].login \in Logins
    BY <1>5 DEF HookObserve
  <2> QED
    BY <1>5, <2>1, <2>2, <2>3 DEF HookObserve, NoTask, TaskSet, store, history, AtWork
<1> QED
  BY <1>1, <1>2, <1>3, <1>4, <1>5 DEF RefreshStep, HookStep

(* So does every step of an administrator.                                 *)
LEMMA AdminType ==
  ASSUME TypeOK, NEW a \in Admins, AdminStep(a)
  PROVE  TypeOK'
<1> USE DEF TypeOK
<1>1. ASSUME NEW x \in Accounts, DisconnectBegin(a, x) PROVE TypeOK'
  <2>1. [removal[a] EXCEPT !.step = "tombstone", !.account = x] \in RemovalSet
    BY DEF RemovalSet, AccountOrNone
  <2>2. removal' = [removal EXCEPT ![a] = [removal[a] EXCEPT !.step = "tombstone", !.account = x]]
    BY <1>1 DEF DisconnectBegin
  <2>3. removal' \in [Admins -> RemovalSet] /\ removal'[a].account = x
    BY <2>1, <2>2 DEF RemovalSet
  <2> QED
    BY <1>1, <2>2, <2>3, CancelTypes DEF DisconnectBegin, store, history, AtWork
<1>2. ASSUME NEW x \in Accounts, RemoveNext(a, x) PROVE TypeOK'
  BY <1>2, CancelTypes DEF RemoveNext, RemovalSet, AccountOrNone, store, history, AtWork
<1>3. ASSUME NEW p \in Providers, RemoveBegin(a, p) PROVE TypeOK'
  <2>1. [removal[a] EXCEPT !.step = "list", !.provider = p] \in RemovalSet
    BY DEF RemovalSet, ProviderOrNone
  <2>2. removal' = [removal EXCEPT ![a] = [removal[a] EXCEPT !.step = "list", !.provider = p]]
    BY <1>3 DEF RemoveBegin
  <2>3. removal' \in [Admins -> RemovalSet] /\ removal'[a].step = "list"
    BY <2>1, <2>2 DEF RemovalSet
  <2> QED
    BY <1>3, <2>2, <2>3, CancelTypes DEF RemoveBegin, store, history, AtWork
<1>4. CASE Tombstone(a)
  <2>1. removal[a].account \in Accounts
    BY <1>4 DEF Tombstone
  <2>2. account' \in [Accounts -> AccountSet]
    BY <1>4, <2>1 DEF Tombstone, AccountSet
  <2> QED
    BY <1>4, <2>1, <2>2 DEF Tombstone, AdminTo, RemovalSet, LoginOrNone, AtWork
<1>5. CASE Forget(a)
  BY <1>5 DEF Forget, NoRemoval, RemovalSet, AccountOrNone, ProviderOrNone, LoginOrNone, store, history, AtWork
<1>6. CASE DisconnectFails(a)
  BY <1>6 DEF DisconnectFails, NoRemoval, RemovalSet, AccountOrNone, ProviderOrNone, store, history, AtWork
<1>7. CASE ListAccounts(a)
  <2> DEFINE q == {x \in Accounts : Live(x) /\ account[x].owner = removal[a].provider}
  <2>1. [removal[a] EXCEPT !.step = "next", !.queue = q] \in RemovalSet
    BY DEF RemovalSet
  <2>2. removal' = [removal EXCEPT ![a] = [removal[a] EXCEPT !.step = "next", !.queue = q]]
    BY <1>7 DEF ListAccounts
  <2>3. removal' \in [Admins -> RemovalSet] /\ removal'[a].step = "next"
    BY <2>1, <2>2 DEF RemovalSet
  <2> QED
    BY <1>7, <2>2, <2>3 DEF ListAccounts, store, history, AtWork
<1>8. CASE DropProvider(a)
  BY <1>8 DEF DropProvider, NoRemoval, RemovalSet, AccountOrNone, ProviderOrNone, store, history, AtWork
<1> QED
  BY <1>1, <1>2, <1>3, <1>4, <1>5, <1>6, <1>7, <1>8 DEF AdminStep

(* So does a restart.                                                      *)
LEMMA RestartType == TypeOK /\ Restart => TypeOK'
<1> SUFFICES ASSUME TypeOK, Restart PROVE TypeOK'
  OBVIOUS
<1>1. session' \in [Logins -> SessionSet]
  <2>1. \A l \in Logins : session[l] \in SessionSet
    BY DEF TypeOK
  <2>2. \A l \in Logins : [session[l] EXCEPT !.state = "swept"] \in SessionSet
    BY <2>1 DEF SessionSet
  <2> QED
    BY <2>1, <2>2 DEF Restart
<1>2. grant' \in [Logins -> {"none", "open", "bound"}] /\ creation' \in [Accounts -> LoginOrNone]
  BY DEF Restart, LoginOrNone
<1>3. memory' \in [Accounts -> LoginOrNone]
  BY DEF TypeOK, Restart, LoginOrNone
<1>4. task' \in [Tasks -> TaskSet] /\ \A t \in Tasks : task'[t].step = "none"
  BY DEF Restart, NoTask, TaskSet, AccountOrNone, LoginOrNone
<1>5. removal' \in [Admins -> RemovalSet] /\ \A a \in Admins : removal'[a].step = "none"
  BY DEF Restart, NoRemoval, RemovalSet, AccountOrNone, ProviderOrNone
<1> QED
  BY <1>1, <1>2, <1>3, <1>4, <1>5 DEF TypeOK, Restart, store, history, AtWork

LEMMA StepType == TypeOK /\ [Next]_vars => TypeOK'
<1>1. TypeOK /\ UNCHANGED vars => TypeOK'
  BY DEF TypeOK, vars, store, history, AtWork
<1> QED
  BY <1>1, LoginType, SdkType, AdminType, RestartType DEF Next

(* The types hold in every state.                                          *)
THEOREM TypeCorrect == Spec => []TypeOK
  BY InitType, StepType, PTL DEF Spec

-----------------------------------------------------------------------------
(* What makes the two safety properties inductive. A login that is being   *)
(* saved, or was, is committing, which CancelLogin refuses; and what a     *)
(* login has read of its account is behind the account's version from the  *)
(* moment the account is disconnected.                                     *)
LoginSound(l) ==
  /\ session[l].state = "none" => ~ session[l].committing /\ l \notin stale
  /\ l \in told => /\ ~ session[l].committing
                   /\ session[l].state \notin {"none", "starting", "pending"}
  /\ task[l].step = "save" => session[l].committing /\ session[l].account = task[l].account
  /\ session[l].account = NoAccount => begun[l] = 0
  /\ session[l].account \in Accounts => begun[l] <= account[session[l].account].version
  /\ l \in stale => /\ session[l].account \in Accounts
                    /\ begun[l] < account[session[l].account].version

CredentialSound(x) ==
  IF Live(x)
  THEN /\ credential[x] \in Logins \ stale
       /\ session[credential[x]].committing
       /\ session[credential[x]].account = x
  ELSE credential[x] = NoLogin

Sound == (\A l \in Logins : LoginSound(l)) /\ (\A x \in Accounts : CredentialSound(x))

IInv == TypeOK /\ Sound

(* Cancelling sessions changes nothing about them but that they no longer  *)
(* wait.                                                                   *)
LEMMA CancelKeeps ==
  ASSUME TypeOK, NEW S, CancelSessions(S)
  PROVE  \A l \in Logins :
           /\ session'[l].account = session[l].account
           /\ session'[l].committing = session[l].committing
           /\ session'[l].state = session[l].state \/ session'[l].state = "over"
           /\ l \in S => session'[l].state # "pending"
  BY DEF TypeOK, CancelSessions, PendingOf, SessionSet

(* A step that neither starts, binds nor saves a login, and makes nothing  *)
(* of history, keeps the invariant.                                        *)
LEMMA QuietStep ==
  ASSUME Sound, UNCHANGED <<store, begun, history>>,
         \A l \in Logins :
           /\ session'[l].account = session[l].account
           /\ session'[l].committing = session[l].committing
           /\ session'[l].state = "none" => session[l].state = "none"
           /\ session'[l].state \in {"none", "starting", "pending"} =>
                session[l].state \in {"none", "starting", "pending"}
           /\ task'[l].step = "save" => task[l].step = "save" /\ task'[l].account = task[l].account
  PROVE  Sound'
<1>1. ASSUME NEW l \in Logins PROVE LoginSound(l)'
  BY DEF Sound, LoginSound, store, history
<1>2. ASSUME NEW x \in Accounts PROVE CredentialSound(x)'
  <2>1. Live(x)' = Live(x) /\ credential'[x] = credential[x] /\ stale' = stale
    BY DEF Live, store, history
  <2> QED
    BY <2>1 DEF Sound, CredentialSound
<1> QED
  BY <1>1, <1>2 DEF Sound

-----------------------------------------------------------------------------
LEMMA InitSound == Init => Sound
  BY MarkersAssumption DEF Init, Sound, LoginSound, CredentialSound, Live, Unborn, Tombstones,
     NoSession, NoTask, Tasks

(* Every step of a login keeps the invariant.                              *)
LEMMA LoginSoundStep ==
  ASSUME IInv, NEW l \in Logins, LoginStep(l)
  PROVE  Sound'
<1> l \in Tasks
  BY DEF Tasks
<1>1. ASSUME NEW p \in Providers, NEW x \in Accounts \cup {NoAccount}, StartRead(l, p, x)
      PROVE  Sound'
  <2>1. /\ session'[l].state = "starting" /\ session'[l].account = x
        /\ session'[l].committing = session[l].committing
        /\ \A j \in Logins \ {l} : session'[j] = session[j]
    BY <1>1 DEF StartRead, IInv, TypeOK, SessionSet
  <2>2. /\ begun'[l] = IF x = NoAccount THEN 0 ELSE account[x].version
        /\ \A j \in Logins \ {l} : begun'[j] = begun[j]
    BY <1>1 DEF StartRead, IInv, TypeOK
  <2>3. ~ session[l].committing /\ l \notin stale /\ l \notin told /\ task[l].step # "save"
    BY <1>1 DEF StartRead, IInv, Sound, LoginSound
  <2>4. UNCHANGED <<account, credential, task, told, stale>>
    BY <1>1 DEF StartRead, store, history
  <2>5. ASSUME NEW j \in Logins PROVE LoginSound(j)'
    <3>1. CASE j = l
      BY <2>1, <2>2, <2>3, <2>4, <3>1, MarkersAssumption DEF LoginSound, IInv, TypeOK, AccountSet
    <3>2. CASE j # l
      BY <2>1, <2>2, <2>4, <3>2 DEF IInv, Sound, LoginSound
    <3> QED
      BY <3>1, <3>2
  <2>6. ASSUME NEW y \in Accounts PROVE CredentialSound(y)'
    <3>1. Live(y)' = Live(y) /\ (Live(y) => credential[y] # l)
      BY <2>3, <2>4 DEF IInv, Sound, CredentialSound, Live
    <3> QED
      BY <2>1, <2>4, <3>1 DEF IInv, Sound, CredentialSound
  <2> QED
    BY <2>5, <2>6 DEF Sound
<1>2. CASE StartRegister(l)
  BY <1>2, QuietStep DEF StartRegister, IInv, TypeOK, SessionSet
<1>3. CASE StartIssue(l)
  <2>1. UNCHANGED <<store, begun, history, session>>
    BY <1>3 DEF StartIssue
  <2>2. task'[l].step = "wait" /\ \A j \in Logins \ {l} : task'[j] = task[j]
    BY <1>3 DEF StartIssue, IInv, TypeOK, TaskSet, Tasks
  <2> QED
    BY <2>1, <2>2, QuietStep DEF IInv
<1>4. CASE StartFails(l)
  <2>1. /\ UNCHANGED <<store, begun, history>>
        /\ task' = [task EXCEPT ![l].step = "failed"]
        /\ CancelSessions({l})
    BY <1>4 DEF StartFails
  <2>2. \A j \in Logins : task'[j].step = "save" => task[j].step = "save" /\ task'[j].account = task[j].account
    BY <2>1 DEF IInv, TypeOK, TaskSet
  <2> QED
    BY <2>1, <2>2, CancelKeeps, QuietStep DEF IInv
<1>5. CASE SubmitCallback(l) \/ Redeem(l) \/ PrepareRefused(l) \/ SaveLoginRefused(l) \/ Register(l)
  <2>1. UNCHANGED <<store, begun, history, session>>
    BY <1>5 DEF SubmitCallback, Redeem, PrepareRefused, SaveLoginRefused, Register
  <2>2. PICK s \in {"submitted", "code", "failed", "owns"} : Goto(l, s)
    BY <1>5 DEF SubmitCallback, Redeem, PrepareRefused, SaveLoginRefused, Register
  <2> QED
    BY <2>1, <2>2, QuietStep DEF Goto, IInv, TypeOK, TaskSet
<1>6. CASE Expire(l)
  BY <1>6, QuietStep DEF Expire, IInv, TypeOK, SessionSet
<1>7. CASE StatusOk(l) \/ StatusError(l) \/ FindExpired(l)
  <2>1. UNCHANGED <<store, begun, history, task>>
    BY <1>7 DEF StatusOk, StatusError, FindExpired
  <2>2. PICK s \in {"connected", "over"} : session' = [session EXCEPT ![l].state = s]
    BY <1>7 DEF StatusOk, StatusError, FindExpired
  <2> QED
    BY <2>1, <2>2, QuietStep DEF IInv, TypeOK, SessionSet
<1>8. CASE Prepare(l)
  <2>1. PICK x \in IF session[l].account = NoAccount THEN FreshAccounts ELSE {session[l].account} :
          /\ session' = [session EXCEPT ![l].account = x, ![l].committing = TRUE]
          /\ task' = [task EXCEPT ![l].step = "save", ![l].account = x]
    BY <1>8 DEF Prepare
  <2>2. x \in Accounts /\ (session[l].account # NoAccount => x = session[l].account)
    BY <2>1 DEF FreshAccounts, IInv, TypeOK, SessionSet, AccountOrNone
  <2>3. /\ session'[l].account = x /\ session'[l].committing
        /\ session'[l].state = "pending" /\ session[l].state = "pending"
        /\ \A j \in Logins \ {l} : session'[j] = session[j]
    BY <1>8, <2>1 DEF Prepare, IInv, TypeOK, SessionSet
  <2>4. task'[l].account = x /\ \A j \in Logins \ {l} : task'[j] = task[j]
    <3>1. task' = [task EXCEPT ![l] = [task[l] EXCEPT !.step = "save", !.account = x]]
      BY <2>1
    <3> QED
      BY <3>1 DEF IInv, TypeOK, TaskSet, Tasks
  <2>5. UNCHANGED <<account, credential, begun, told, stale>>
    BY <1>8 DEF Prepare, store, history
  <2>6. ASSUME NEW j \in Logins PROVE LoginSound(j)'
    <3>1. CASE j = l
      <4>1. l \notin told
        BY <2>3 DEF IInv, Sound, LoginSound
      <4>2. begun[l] <= account[x].version /\ (l \in stale => begun[l] < account[x].version)
        <5>1. CASE session[l].account = NoAccount
          BY <2>2, <5>1, MarkersAssumption DEF IInv, TypeOK, Sound, LoginSound, AccountSet
        <5>2. CASE session[l].account # NoAccount
          BY <2>2, <5>2 DEF IInv, Sound, LoginSound
        <5> QED
          BY <5>1, <5>2
      <4> QED
        BY <2>2, <2>3, <2>4, <2>5, <3>1, <4>1, <4>2, MarkersAssumption DEF LoginSound
    <3>2. CASE j # l
      BY <2>3, <2>4, <2>5, <3>2 DEF IInv, Sound, LoginSound
    <3> QED
      BY <3>1, <3>2
  <2>7. ASSUME NEW y \in Accounts PROVE CredentialSound(y)'
    <3>1. Live(y)' = Live(y) /\ (Live(y) /\ credential[y] = l => x = y)
      BY <2>2, <2>5, MarkersAssumption DEF IInv, Sound, CredentialSound, Live
    <3> QED
      BY <2>3, <2>5, <3>1 DEF IInv, Sound, CredentialSound
  <2> QED
    BY <2>6, <2>7 DEF Sound
<1>9. CASE SaveLogin(l)
  <2> DEFINE x == task[l].account
  <2>1. /\ x \in Accounts /\ task[l].step = "save"
        /\ session[l].committing /\ session[l].account = x
        /\ account[x].version = begun[l]
    BY <1>9 DEF SaveLogin, IInv, TypeOK, AtWork, Sound, LoginSound
  <2>2. l \notin stale
    BY <2>1 DEF IInv, TypeOK, AccountSet, Sound, LoginSound
  <2>3. /\ account'[x].state = "live" /\ account'[x].version = account[x].version + 1
        /\ \A y \in Accounts \ {x} : account'[y] = account[y]
    BY <1>9, <2>1 DEF SaveLogin, IInv, TypeOK
  <2>4. credential'[x] = l /\ \A y \in Accounts \ {x} : credential'[y] = credential[y]
    BY <1>9, <2>1 DEF SaveLogin, IInv, TypeOK
  <2>5. task'[l].step = "register" /\ \A j \in Logins \ {l} : task'[j] = task[j]
    BY <1>9 DEF SaveLogin, Goto, IInv, TypeOK, TaskSet
  <2>6. UNCHANGED <<session, begun, told, stale>>
    BY <1>9 DEF SaveLogin, history
  <2>7. \A y \in Accounts : account[y].version \in Nat /\ account[y].version <= account'[y].version
    BY <2>3 DEF IInv, TypeOK, AccountSet
  <2>8. ASSUME NEW j \in Logins PROVE LoginSound(j)'
    <3>1. begun[j] \in Nat /\ LoginSound(j)
      BY DEF IInv, TypeOK, Sound
    <3>2. \A y \in Accounts : account'[y].version \in Nat
      BY <2>3, <2>7
    <3> QED
      BY <2>5, <2>6, <2>7, <3>1, <3>2 DEF LoginSound
  <2>9. ASSUME NEW y \in Accounts PROVE CredentialSound(y)'
    <3>1. CASE y = x
      BY <2>1, <2>2, <2>3, <2>4, <2>6, <3>1 DEF CredentialSound, Live
    <3>2. CASE y # x
      BY <2>3, <2>4, <2>6, <3>2 DEF IInv, Sound, CredentialSound, Live
    <3> QED
      BY <3>1, <3>2
  <2> QED
    BY <2>8, <2>9 DEF Sound
<1>10. CASE CancelLogin(l)
  <2>1. /\ CancelSessions({l}) /\ told' = told \cup {l}
        /\ ~ session[l].committing /\ session[l].state \notin {"none", "starting"}
        /\ UNCHANGED <<account, credential, task, begun, stale>>
    BY <1>10 DEF CancelLogin, Exists, store
  <2>2. ASSUME NEW j \in Logins PROVE LoginSound(j)'
    BY <2>1, CancelKeeps DEF IInv, Sound, LoginSound
  <2>3. ASSUME NEW y \in Accounts PROVE CredentialSound(y)'
    <3>1. Live(y)' = Live(y)
      BY <2>1 DEF Live
    <3> QED
      BY <2>1, <3>1, CancelKeeps DEF IInv, Sound, CredentialSound
  <2> QED
    BY <2>2, <2>3 DEF Sound
<1> QED
  BY <1>1, <1>2, <1>3, <1>4, <1>5, <1>6, <1>7, <1>8, <1>9, <1>10 DEF LoginStep

(* Every step of a refresh and of the hook keeps the invariant.            *)
LEMMA SdkSoundStep ==
  ASSUME IInv, \/ \E r \in Refreshers : RefreshStep(r)
               \/ \E t \in Tasks : HookStep(t)
  PROVE  Sound'
<1>1. ASSUME NEW r \in Refreshers, RefreshStep(r) PROVE Sound'
  <2>1. r \in Tasks /\ r \notin Logins
    BY TasksAssumption DEF Tasks
  <2>2. UNCHANGED <<store, begun, history, session>>
    BY <1>1 DEF RefreshStep, RefreshBegin, RefreshSave
  <2>3. \A j \in Logins : task'[j] = task[j]
    BY <1>1, <2>1 DEF RefreshStep, RefreshBegin, RefreshSave, Goto, IInv, TypeOK, Tasks
  <2> QED
    BY <2>2, <2>3, QuietStep DEF IInv
<1>2. ASSUME NEW t \in Tasks, HookOwns(t) \/ HookEvict(t) PROVE Sound'
  <2>1. UNCHANGED <<store, begun, history, session>>
    BY <1>2 DEF HookOwns, HookEvict
  <2>2. PICK s \in {"observe", "evict"} : Goto(t, s)
    BY <1>2 DEF HookOwns, HookEvict
  <2> QED
    BY <2>1, <2>2, QuietStep DEF Goto, IInv, TypeOK, TaskSet
<1>3. ASSUME NEW t \in Tasks, HookObserve(t) PROVE Sound'
  <2>1. UNCHANGED <<store, begun, history>>
    BY <1>3 DEF HookObserve
  <2>2. \A j \in Logins : task'[j].step = "save" => task[j].step = "save" /\ task'[j].account = task[j].account
    BY <1>3 DEF HookObserve, NoTask, Tasks, IInv, TypeOK, TaskSet
  <2>3. \A j \in Logins : /\ session'[j].account = session[j].account
                          /\ session'[j].committing = session[j].committing
                          /\ session'[j].state = session[j].state \/ session'[j].state = "connected"
    BY <1>3 DEF HookObserve, IInv, TypeOK, SessionSet
  <2> QED
    BY <2>1, <2>2, <2>3, QuietStep DEF IInv
<1> QED
  BY <1>1, <1>2, <1>3 DEF HookStep

(* Every step of an administrator keeps the invariant.                     *)
LEMMA AdminSoundStep ==
  ASSUME IInv, NEW a \in Admins, AdminStep(a)
  PROVE  Sound'
<1>1. ASSUME NEW S, CancelSessions(S), UNCHANGED <<store, task, begun, history>> PROVE Sound'
  BY <1>1, CancelKeeps, QuietStep DEF IInv
<1>2. ASSUME UNCHANGED <<store, session, task, begun, history>> PROVE Sound'
  BY <1>2, QuietStep DEF IInv
<1>3. CASE Tombstone(a)
  <2> DEFINE x == removal[a].account
  <2>1. /\ x \in Accounts /\ UNCHANGED <<session, task, begun, told>>
        /\ stale' = stale \cup {l \in Logins : session[l].state # "none" /\ session[l].account = x}
    BY <1>3 DEF Tombstone, IInv, TypeOK
  <2>2. /\ account'[x].state = "gone" /\ account'[x].version = account[x].version + 1
        /\ \A y \in Accounts \ {x} : account'[y] = account[y]
    BY <1>3, <2>1 DEF Tombstone, IInv, TypeOK, AccountSet
  <2>3. credential'[x] = NoLogin /\ \A y \in Accounts \ {x} : credential'[y] = credential[y]
    BY <1>3, <2>1 DEF Tombstone, IInv, TypeOK
  <2>4. \A y \in Accounts : account[y].version \in Nat
    BY DEF IInv, TypeOK, AccountSet
  <2>5. ASSUME NEW l \in Logins PROVE LoginSound(l)'
    BY <2>1, <2>2, <2>4 DEF IInv, TypeOK, Sound, LoginSound
  <2>6. ASSUME NEW y \in Accounts PROVE CredentialSound(y)'
    BY <2>1, <2>2, <2>3 DEF IInv, Sound, CredentialSound, Live
  <2> QED
    BY <2>5, <2>6 DEF Sound
<1> QED
  BY <1>1, <1>2, <1>3 DEF AdminStep, DisconnectBegin, RemoveNext, RemoveBegin, Forget,
     DisconnectFails, ListAccounts, DropProvider

(* So does a restart.                                                      *)
LEMMA RestartSound == IInv /\ Restart => Sound'
<1> SUFFICES ASSUME IInv, Restart PROVE Sound'
  OBVIOUS
<1>1. \A l \in Logins : task'[l].step = "none"
  BY DEF Restart, NoTask, Tasks
<1>2. \A l \in Logins : /\ session'[l].account = session[l].account
                        /\ session'[l].committing = session[l].committing
                        /\ session'[l].state = session[l].state \/ session'[l].state = "swept"
  BY DEF Restart, IInv, TypeOK, SessionSet
<1> QED
  BY <1>1, <1>2, QuietStep DEF Restart, IInv

(* The invariant holds in every state.                                     *)
LEMMA Invariance == Spec => []IInv
<1>1. IInv /\ UNCHANGED vars => Sound'
  <2> SUFFICES ASSUME IInv, UNCHANGED vars PROVE Sound'
    OBVIOUS
  <2>1. UNCHANGED <<store, begun, history, session, task>>
    BY DEF vars
  <2> QED
    BY <2>1, QuietStep DEF IInv
<1>2. IInv /\ [Next]_vars => Sound'
  BY <1>1, LoginSoundStep, SdkSoundStep, AdminSoundStep, RestartSound DEF Next
<1>3. Init => IInv
  BY InitType, InitSound DEF IInv
<1>4. IInv /\ [Next]_vars => IInv'
  BY <1>2, StepType DEF IInv
<1> QED
  BY <1>3, <1>4, PTL DEF Spec

(* However logins, refreshes and disconnections interleave, a disconnected *)
(* account has no credential, and a connected one never has that of a      *)
(* login from before the disconnection.                                    *)
THEOREM TombstonesAlwaysHold == Spec => []TombstonesHold
<1>1. IInv => TombstonesHold
  BY DEF IInv, Sound, CredentialSound, TombstonesHold
<1> QED
  BY <1>1, Invariance, PTL

(* A login that CancelLogin has reported cancelled is never stored.        *)
THEOREM CancellationsHold == Spec => []CancelHolds
<1>1. IInv => CancelHolds
  BY MarkersAssumption DEF IInv, TypeOK, Sound, LoginSound, CredentialSound, CancelHolds
<1> QED
  BY <1>1, Invariance, PTL

-----------------------------------------------------------------------------
(* A step that brings nothing back into memory, disconnects nothing and    *)
(* ends no eviction keeps the property.                                    *)
LEMMA QuietEviction ==
  ASSUME DisconnectedIsEvicted, UNCHANGED <<account, memory>>,
         \A t \in Tasks : task[t].step \in {"owns", "evict"} => task'[t] = task[t],
         \A a \in Admins : removal[a].step = "forget" => removal'[a] = removal[a]
  PROVE  DisconnectedIsEvicted'
  BY DEF DisconnectedIsEvicted, Live

LEMMA StepEvicted == TypeOK /\ DisconnectedIsEvicted /\ [Next]_vars => DisconnectedIsEvicted'
<1> SUFFICES ASSUME TypeOK, DisconnectedIsEvicted, [Next]_vars PROVE DisconnectedIsEvicted'
  OBVIOUS
<1>1. ASSUME NEW t \in Tasks, task[t].step \notin {"owns", "evict"},
             \A u \in Tasks \ {t} : task'[u] = task[u], UNCHANGED <<account, memory, removal>>
      PROVE  DisconnectedIsEvicted'
  BY <1>1, QuietEviction
<1>2. ASSUME NEW t \in Tasks, NEW x \in Accounts, task[t].step \notin {"owns", "evict"},
             \A u \in Tasks \ {t} : task'[u] = task[u],
             task'[t].step = "owns", task'[t].account = x,
             \A y \in Accounts \ {x} : memory'[y] = memory[y], UNCHANGED <<account, removal>>
      PROVE  DisconnectedIsEvicted'
  BY <1>2 DEF DisconnectedIsEvicted, Live
<1>3. ASSUME NEW l \in Logins, LoginStep(l) PROVE DisconnectedIsEvicted'
  <2> l \in Tasks
    BY DEF Tasks
  <2>1. CASE \/ \E p \in Providers, x \in Accounts \cup {NoAccount} : StartRead(l, p, x)
             \/ StartRegister(l) \/ Expire(l) \/ StatusOk(l) \/ StatusError(l) \/ FindExpired(l)
             \/ CancelLogin(l)
    <3>1. UNCHANGED <<account, memory, task, removal>>
      BY <2>1 DEF StartRead, StartRegister, Expire, StatusOk, StatusError, FindExpired, CancelLogin, store
    <3> QED
      BY <3>1, QuietEviction
  <2>2. CASE \/ StartIssue(l) \/ StartFails(l) \/ SubmitCallback(l) \/ Redeem(l)
             \/ PrepareRefused(l) \/ SaveLoginRefused(l)
    <3>1. UNCHANGED <<account, memory, removal>> /\ task[l].step \notin {"owns", "evict"}
      BY <2>2 DEF StartIssue, StartFails, SubmitCallback, Redeem, PrepareRefused, SaveLoginRefused, store
    <3>2. \A u \in Tasks \ {l} : task'[u] = task[u]
      BY <2>2 DEF StartIssue, StartFails, SubmitCallback, Redeem, PrepareRefused, SaveLoginRefused,
         Goto, TypeOK
    <3> QED
      BY <3>1, <3>2, <1>1
  <2>3. CASE Prepare(l)
    <3>1. UNCHANGED <<account, memory, removal>> /\ task[l].step \notin {"owns", "evict"}
      BY <2>3 DEF Prepare, store
    <3>2. PICK x : task' = [task EXCEPT ![l].step = "save", ![l].account = x]
      BY <2>3 DEF Prepare
    <3>3. task' = [task EXCEPT ![l] = [task[l] EXCEPT !.step = "save", !.account = x]]
      BY <3>2
    <3>4. \A u \in Tasks \ {l} : task'[u] = task[u]
      BY <3>3 DEF TypeOK
    <3> QED
      BY <3>1, <3>4, <1>1
  <2>4. CASE SaveLogin(l)
    <3>1. task[l].account \in Accounts /\ task[l].step = "save" /\ UNCHANGED <<memory, removal>>
      BY <2>4 DEF SaveLogin, TypeOK, AtWork
    <3>2. /\ account'[task[l].account].state = "live"
          /\ \A y \in Accounts \ {task[l].account} : account'[y] = account[y]
      BY <2>4, <3>1 DEF SaveLogin, TypeOK
    <3>3. \A u \in Tasks \ {l} : task'[u] = task[u]
      BY <2>4 DEF SaveLogin, Goto, TypeOK
    <3> QED
      BY <3>1, <3>2, <3>3 DEF DisconnectedIsEvicted, Live
  <2>5. CASE Register(l)
    <3>1. task[l].account \in Accounts /\ task[l].step = "register" /\ UNCHANGED <<account, removal>>
      BY <2>5 DEF Register, TypeOK, AtWork, store
    <3>2. \A y \in Accounts \ {task[l].account} : memory'[y] = memory[y]
      BY <2>5, <3>1 DEF Register, TypeOK
    <3>3. /\ task'[l].step = "owns" /\ task'[l].account = task[l].account
          /\ \A u \in Tasks \ {l} : task'[u] = task[u]
      BY <2>5 DEF Register, Goto, TypeOK, TaskSet
    <3> QED
      BY <3>1, <3>2, <3>3, <1>2
  <2> QED
    BY <1>3, <2>1, <2>2, <2>3, <2>4, <2>5 DEF LoginStep
<1>4. ASSUME NEW r \in Refreshers, RefreshStep(r) PROVE DisconnectedIsEvicted'
  <2> r \in Tasks
    BY DEF Tasks
  <2>1. ASSUME NEW x \in Accounts, RefreshBegin(r, x) PROVE DisconnectedIsEvicted'
    <3>1. UNCHANGED <<account, memory, removal>> /\ task[r].step \notin {"owns", "evict"}
      BY <2>1 DEF RefreshBegin, store
    <3>2. \A u \in Tasks \ {r} : task'[u] = task[u]
      BY <2>1 DEF RefreshBegin, TypeOK
    <3> QED
      BY <3>1, <3>2, <1>1
  <2>2. CASE RefreshSave(r)
    <3>1. task[r].account \in Accounts /\ task[r].step = "save" /\ UNCHANGED <<account, removal>>
      BY <2>2 DEF RefreshSave, TypeOK, AtWork, store
    <3>2. \A y \in Accounts \ {task[r].account} : memory'[y] = memory[y]
      BY <2>2, <3>1 DEF RefreshSave, TypeOK
    <3>3. /\ task'[r].step = "owns" /\ task'[r].account = task[r].account
          /\ \A u \in Tasks \ {r} : task'[u] = task[u]
      BY <2>2 DEF RefreshSave, Goto, TypeOK, TaskSet
    <3> QED
      BY <3>1, <3>2, <3>3, <1>2
  <2> QED
    BY <1>4, <2>1, <2>2 DEF RefreshStep
<1>5. ASSUME NEW t \in Tasks, HookStep(t) PROVE DisconnectedIsEvicted'
  <2>1. CASE HookOwns(t)
    <3>1. UNCHANGED <<account, memory, removal>>
      BY <2>1 DEF HookOwns, store
    <3>2. /\ ~ Live(task[t].account) => task'[t].step = "evict" /\ task'[t].account = task[t].account
          /\ \A u \in Tasks \ {t} : task'[u] = task[u]
      BY <2>1 DEF HookOwns, Goto, TypeOK, TaskSet
    <3> QED
      BY <3>1, <3>2 DEF DisconnectedIsEvicted, Live
  <2>2. CASE HookEvict(t)
    <3>1. task[t].account \in Accounts /\ UNCHANGED <<account, removal>>
      BY <2>2 DEF HookEvict, TypeOK, AtWork, store
    <3>2. /\ memory'[task[t].account] = NoLogin
          /\ \A y \in Accounts \ {task[t].account} : memory'[y] = memory[y]
      BY <2>2, <3>1 DEF HookEvict, TypeOK
    <3>3. \A u \in Tasks \ {t} : task'[u] = task[u]
      BY <2>2 DEF HookEvict, Goto, TypeOK
    <3> QED
      BY <3>1, <3>2, <3>3 DEF DisconnectedIsEvicted, Live
  <2>3. CASE HookObserve(t)
    <3>1. UNCHANGED <<account, memory, removal>> /\ task[t].step \notin {"owns", "evict"}
      BY <2>3 DEF HookObserve, store
    <3>2. \A u \in Tasks \ {t} : task'[u] = task[u]
      BY <2>3 DEF HookObserve, TypeOK
    <3> QED
      BY <3>1, <3>2, <1>1
  <2> QED
    BY <1>5, <2>1, <2>2, <2>3 DEF HookStep
<1>6. ASSUME NEW a \in Admins, AdminStep(a) PROVE DisconnectedIsEvicted'
  <2>1. CASE \/ \E x \in Accounts : DisconnectBegin(a, x) \/ RemoveNext(a, x)
             \/ \E p \in Providers : RemoveBegin(a, p)
             \/ DisconnectFails(a) \/ ListAccounts(a) \/ DropProvider(a)
    <3>1. UNCHANGED <<account, memory, task>> /\ removal[a].step # "forget"
      BY <2>1 DEF DisconnectBegin, RemoveNext, RemoveBegin, DisconnectFails, ListAccounts, DropProvider, store
    <3>2. PICK o : removal' = [removal EXCEPT ![a] = o]
      BY <2>1 DEF DisconnectBegin, RemoveNext, RemoveBegin, DisconnectFails, ListAccounts, DropProvider
    <3>3. \A b \in Admins \ {a} : removal'[b] = removal[b]
      BY <3>2 DEF TypeOK
    <3> QED
      BY <3>1, <3>3, QuietEviction
  <2>2. CASE Tombstone(a)
    <3> DEFINE x == removal[a].account
    <3>1. x \in Accounts /\ removal[a].step = "tombstone" /\ UNCHANGED <<memory, task>>
      BY <2>2 DEF Tombstone, TypeOK
    <3>2. \A y \in Accounts \ {x} : account'[y] = account[y]
      BY <2>2, <3>1 DEF Tombstone, TypeOK
    <3>3. /\ removal'[a].step = "forget" /\ removal'[a].account = x
          /\ \A b \in Admins \ {a} : removal'[b] = removal[b]
      BY <2>2 DEF Tombstone, AdminTo, TypeOK, RemovalSet
    <3> QED
      BY <3>1, <3>2, <3>3 DEF DisconnectedIsEvicted, Live
  <2>3. CASE Forget(a)
    <3> DEFINE x == removal[a].account
    <3>1. x \in Accounts /\ UNCHANGED <<account, task>>
      BY <2>3 DEF Forget, TypeOK, store
    <3>2. memory'[x] = NoLogin /\ \A y \in Accounts \ {x} : memory'[y] = memory[y]
      BY <2>3, <3>1 DEF Forget, TypeOK
    <3>3. \A b \in Admins \ {a} : removal'[b] = removal[b]
      BY <2>3 DEF Forget, TypeOK
    <3> QED
      BY <3>1, <3>2, <3>3 DEF DisconnectedIsEvicted, Live
  <2> QED
    BY <1>6, <2>1, <2>2, <2>3 DEF AdminStep
<1>7. CASE Restart
  BY <1>7 DEF Restart, DisconnectedIsEvicted, Live, store
<1>8. CASE UNCHANGED vars
  <2>1. UNCHANGED <<account, memory, task, removal>>
    BY <1>8 DEF vars, store
  <2> QED
    BY <2>1, QuietEviction
<1> QED
  BY <1>3, <1>4, <1>5, <1>6, <1>7, <1>8 DEF Next

(* An account that was disconnected and is still, or again, in the SDK's   *)
(* memory has someone at work on its eviction.                             *)
THEOREM DisconnectedAreEvicted == Spec => []DisconnectedIsEvicted
<1>1. Init => DisconnectedIsEvicted
  BY DEF Init, DisconnectedIsEvicted
<1> QED
  BY <1>1, InitType, StepType, StepEvicted, PTL DEF Spec
=============================================================================
