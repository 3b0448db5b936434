---------------------------- MODULE OAuthGrants ----------------------------
(***************************************************************************)
(* Logins to provider accounts (internal/providerengine; ADR 0015).        *)
(*                                                                         *)
(* An administrator starts a login, the user consents at the provider, and *)
(* the embedded SDK, in goroutines of its own, has the engine prepare the  *)
(* record (prepareLoginRecord), saves it through credentialStore and keeps *)
(* it in memory. Meanwhile the login may be cancelled or expire, the       *)
(* account disconnected, the provider removed, and a token refresh of the  *)
(* same account finish late. A step is what happens under one lock or in   *)
(* one transaction.                                                        *)
(***************************************************************************)
EXTENDS Naturals

CONSTANTS
  Providers,
  Accounts,      \* account ids, random
  Logins,        \* sessions; each has one grant and one incarnation
  Refreshers,    \* the SDK's token refreshes
  Admins,        \* requests that disconnect accounts and remove providers
  MaxVersion,    \* bound: from this version on an account is not disconnected
  MaxRepeat,     \* bound: nor, from this one on, an account that is gone already
  NoAccount, NoLogin

Tasks == Logins \cup Refreshers

ASSUME MarkersAssumption == NoAccount \notin Accounts /\ NoLogin \notin Logins
ASSUME TasksAssumption == Logins \cap Refreshers = {}

VARIABLES
  providers,    \* rows of providers
  account,      \* provider_accounts: [state, version, owner]
  credential,   \* provider_credentials: nineguard_login of the payload
  session,      \* Engine.sessions
  grant,        \* credentialStore.grants, by login
  creation,     \* credentialStore.creation
  memory,       \* the SDK's accounts, by nineguard_login
  task,         \* what the SDK is doing
  removal,      \* what the administrators' requests are doing
  begun,        \* the version a login was started with (creationGrant.version)
  told,         \* history: logins that CancelLogin has reported cancelled
  stale         \* history: logins begun before a disconnection of their account

store   == <<account, credential>>
history == <<told, stale>>
vars  == <<providers, store, session, grant, creation, memory, task, removal, begun, history>>

Live(x)   == account[x].state = "live"
Exists(l) == session[l].state \notin {"none", "starting", "swept"}

Unborn == [state |-> "none", version |-> 0, owner |-> "none"]

(* Connected and disconnected again before the engine was started.         *)
Tombstones == {[state |-> "gone", version |-> 2, owner |-> p] : p \in Providers}

(* late: ExpiresAt of the session, then of the grant, has passed.          *)
NoSession == [state |-> "none", account |-> NoAccount, provider |-> "none",
              committing |-> FALSE, late |-> "no"]

NoTask    == [step |-> "none", account |-> NoAccount, login |-> NoLogin]
NoRemoval == [step |-> "none", account |-> NoAccount, provider |-> "none", queue |-> {}]

Goto(t, s)   == task' = [task EXCEPT ![t].step = s]
AdminTo(a, s) == removal' = [removal EXCEPT ![a].step = s]

-----------------------------------------------------------------------------
Init ==
  /\ providers = Providers
  /\ account \in [Accounts -> {Unborn} \cup Tombstones]
  /\ credential = [x \in Accounts |-> NoLogin]
  /\ session = [l \in Logins |-> NoSession]
  /\ grant = [l \in Logins |-> "none"]
  /\ creation = [x \in Accounts |-> NoLogin]
  /\ memory = [x \in Accounts |-> NoLogin]
  /\ task = [t \in Tasks |-> NoTask]
  /\ removal = [a \in Admins |-> NoRemoval]
  /\ begun = [l \in Logins |-> 0]
  /\ told = {} /\ stale = {}

(* cancelGrant for each login of S. It drops the entry of the account in   *)
(* creation, whichever login has put it there.                             *)
CancelGrants(S) ==
  /\ grant' = [l \in Logins |-> IF l \in S THEN "none" ELSE grant[l]]
  /\ creation' = [x \in Accounts |->
                    IF \E l \in S : grant[l] # "none" /\ session[l].account = x
                    THEN NoLogin ELSE creation[x]]

PendingOf(S) == {l \in S : session[l].state = "pending"}

(* cancelSession for each login of S.                                      *)
CancelSessions(S) ==
  /\ session' = [l \in Logins |->
       IF l \in PendingOf(S) THEN [session[l] EXCEPT !.state = "over"] ELSE session[l]]
  /\ CancelGrants(PendingOf(S))

-----------------------------------------------------------------------------
(* StartLogin: the rows are read, by newGrant also the account's version.  *)
StartRead(l, p, x) ==
  /\ session[l].state = "none" /\ p \in providers
  /\ x # NoAccount => account[x].state # "none" /\ account[x].owner = p
  /\ session' = [session EXCEPT ![l].state = "starting", ![l].provider = p, ![l].account = x]
  /\ begun' = [begun EXCEPT ![l] = IF x = NoAccount THEN 0 ELSE account[x].version]
  /\ UNCHANGED <<providers, store, grant, creation, memory, task, removal, history>>

Overdue == {l \in Logins : Exists(l) /\ session[l].late # "no"}

(* The grant, which nobody knows yet, and the session are entered; expired *)
(* sessions are cancelled and forgotten.                                   *)
StartRegister(l) ==
  /\ session[l].state = "starting"
  /\ session' = [j \in Logins |->
       IF j = l THEN [session[j] EXCEPT !.state = "pending"]
       ELSE IF j \in Overdue THEN [session[j] EXCEPT !.state = "swept"]
       ELSE session[j]]
  /\ grant' = [j \in Logins |->
       IF j = l THEN "open" ELSE IF j \in PendingOf(Overdue) THEN "none" ELSE grant[j]]
  /\ creation' = [x \in Accounts |->
       IF \E j \in PendingOf(Overdue) : grant[j] # "none" /\ session[j].account = x
       THEN NoLogin ELSE creation[x]]
  /\ UNCHANGED <<providers, store, memory, task, removal, begun, history>>

(* The SDK names the URL to authorize at, and waits for the callback.      *)
StartIssue(l) ==
  /\ Exists(l) /\ task[l].step = "none"
  /\ task' = [task EXCEPT ![l].step = "wait", ![l].login = l]
  /\ UNCHANGED <<providers, store, session, grant, creation, memory, removal, begun, history>>

(* It does not: the login is cancelled.                                    *)
StartFails(l) ==
  /\ Exists(l) /\ task[l].step = "none"
  /\ CancelSessions({l})
  /\ task' = [task EXCEPT ![l].step = "failed"]
  /\ UNCHANGED <<providers, store, memory, removal, begun, history>>

(* SubmitCallback hands the authorization result to the SDK, once.         *)
SubmitCallback(l) ==
  /\ session[l].state = "pending" /\ session[l].late = "no"
  /\ task[l].step = "wait"
  /\ Goto(l, "submitted")
  /\ UNCHANGED <<providers, store, session, grant, creation, memory, removal, begun, history>>

(* External: the SDK redeems it, or one the browser has brought to its own *)
(* callback address, or fails to.                                          *)
Redeem(l) ==
  /\ task[l].step \in {"wait", "submitted"}
  /\ \E s \in {"code", "failed"} : Goto(l, s)
  /\ UNCHANGED <<providers, store, session, grant, creation, memory, removal, begun, history>>

(* Time passes: five minutes for a session, fifteen for a grant there is.  *)
Expire(l) ==
  /\ \/ session[l].late = "no" /\ Exists(l) /\ session' = [session EXCEPT ![l].late = "session"]
     \/ session[l].late = "session" /\ grant[l] # "none" /\ session' = [session EXCEPT ![l].late = "grant"]
  /\ UNCHANGED <<providers, store, grant, creation, memory, task, removal, begun, history>>

-----------------------------------------------------------------------------
FreshAccounts ==
  {x \in Accounts : account[x].state = "none" /\ \A l \in Logins : session[l].account # x}

(* prepareLoginRecord and bindGrant: a login that is still wanted is bound *)
(* to its account, a new one unless it names one.                          *)
Prepare(l) ==
  /\ task[l].step = "code"
  /\ session[l].state = "pending" /\ session[l].late = "no" /\ grant[l] = "open"
  /\ \E x \in IF session[l].account = NoAccount THEN FreshAccounts ELSE {session[l].account} :
       /\ session' = [session EXCEPT ![l].account = x, ![l].committing = TRUE]
       /\ creation' = [creation EXCEPT ![x] = l]
       /\ task' = [task EXCEPT ![l].step = "save", ![l].account = x]
  /\ grant' = [grant EXCEPT ![l] = "bound"]
  /\ UNCHANGED <<providers, store, memory, removal, begun, history>>

PrepareRefused(l) ==
  /\ task[l].step = "code"
  /\ session[l].state # "pending" \/ session[l].late # "no" \/ grant[l] # "open"
  /\ Goto(l, "failed")
  /\ UNCHANGED <<providers, store, session, grant, creation, memory, removal, begun, history>>

(* Save: whether the record comes from a login with its grant (creating),  *)
(* and whether a record without one replaces a record of the same login.   *)
Creating(l, x) ==
  creation[x] = l /\ grant[l] = "bound" /\ session[l].late # "grant"

SameLogin(l, x) == Live(x) /\ credential[x] = l

(* Mutant: the version of the account is not compared.                     *)
SaveAnyVersion(l) ==
  /\ task[l].step = "save" /\ Creating(l, task[l].account)
  /\ account' = [account EXCEPT ![task[l].account] =
       [state |-> "live", version |-> @.version + 1, owner |-> session[l].provider]]
  /\ credential' = [credential EXCEPT ![task[l].account] = l]
  /\ grant' = [grant EXCEPT ![l] = "none"]
  /\ creation' = [creation EXCEPT ![task[l].account] = NoLogin]
  /\ Goto(l, "register")
  /\ UNCHANGED <<providers, session, memory, removal, begun, history>>

(* The credential of a login is stored, unless the account has changed     *)
(* since the login was started.                                            *)
SaveLogin(l) ==
  /\ task[l].step = "save" /\ Creating(l, task[l].account)
  /\ account[task[l].account].version = begun[l]
  /\ account' = [account EXCEPT ![task[l].account] =
       [state |-> "live", version |-> @.version + 1, owner |-> session[l].provider]]
  /\ credential' = [credential EXCEPT ![task[l].account] = l]
  /\ grant' = [grant EXCEPT ![l] = "none"]
  /\ creation' = [creation EXCEPT ![task[l].account] = NoLogin]
  /\ Goto(l, "register")
  /\ UNCHANGED <<providers, session, memory, removal, begun, history>>

SaveLoginRefused(l) ==
  LET x == task[l].account
  IN  /\ task[l].step = "save"
      /\ IF Creating(l, x) THEN account[x].version # begun[l] ELSE ~ SameLogin(l, x)
      /\ Goto(l, "failed")
      /\ UNCHANGED <<providers, store, session, grant, creation, memory, removal, begun, history>>

(* External: a saved account becomes known to the SDK.                     *)
Register(l) ==
  /\ task[l].step = "register"
  /\ memory' = [memory EXCEPT ![task[l].account] = l]
  /\ Goto(l, "owns")
  /\ UNCHANGED <<providers, store, session, grant, creation, removal, begun, history>>

-----------------------------------------------------------------------------
(* External: the SDK refreshes the token of an account it knows, on        *)
(* request or on its own.                                                  *)
RefreshBegin(r, x) ==
  /\ task[r].step = "none" /\ memory[x] # NoLogin
  /\ task' = [task EXCEPT ![r] = [step |-> "save", account |-> x, login |-> memory[x]]]
  /\ UNCHANGED <<providers, store, session, grant, creation, memory, removal, begun, history>>

(* Mutant: a refresh does not look at the incarnation stored.              *)
RefreshAnyLogin(r) ==
  LET x == task[r].account
  IN  /\ task[r].step = "save"
      /\ credential' = IF Live(x) THEN [credential EXCEPT ![x] = task[r].login] ELSE credential
      /\ memory' = [memory EXCEPT ![x] = task[r].login]
      /\ Goto(r, "owns")
      /\ UNCHANGED <<providers, account, session, grant, creation, removal, begun, history>>

(* Save of the new token stores it over one of the same login or, when the *)
(* account is gone, has another login or a newer token, is refused. It     *)
(* changes nothing modelled. In memory, the SDK keeps a token it could     *)
(* save; one that was refused it may keep or not.                          *)
RefreshSave(r) ==
  LET x == task[r].account
  IN  /\ task[r].step = "save"
      /\ memory' \in {[memory EXCEPT ![x] = task[r].login]} \cup
                     IF SameLogin(task[r].login, x) THEN {} ELSE {memory}
      /\ Goto(r, "owns")
      /\ UNCHANGED <<providers, store, session, grant, creation, removal, begun, history>>

-----------------------------------------------------------------------------
(* Mutant: the account is not looked up.                                   *)
HookTrusts(t) ==
  /\ task[t].step = "owns"
  /\ Goto(t, "observe")
  /\ UNCHANGED <<providers, store, session, grant, creation, memory, removal, begun, history>>

(* accountRuntimeHook.check, after the SDK has taken a record in: the      *)
(* account is looked up, one that is gone (or for which the query failed)  *)
(* is evicted, and the sessions waiting for it see it connected.           *)
HookOwns(t) ==
  /\ task[t].step = "owns"
  /\ \E s \in {"observe", "evict"} : (s = "observe" => Live(task[t].account)) /\ Goto(t, s)
  /\ UNCHANGED <<providers, store, session, grant, creation, memory, removal, begun, history>>

HookEvict(t) ==
  /\ task[t].step = "evict"
  /\ memory' = [memory EXCEPT ![task[t].account] = NoLogin]
  /\ Goto(t, "observe")
  /\ UNCHANGED <<providers, store, session, grant, creation, removal, begun, history>>

HookObserve(t) ==
  /\ task[t].step = "observe"
  /\ session' = [l \in Logins |->
       IF /\ session[l].account = task[t].account /\ session[l].committing
          /\ session[l].state = "pending" /\ session[l].late = "no"
       THEN [session[l] EXCEPT !.state = "connected"] ELSE session[l]]
  /\ task' = [task EXCEPT ![t] = IF t \in Logins THEN [@ EXCEPT !.step = "ok"] ELSE NoTask]
  /\ UNCHANGED <<providers, store, grant, creation, memory, removal, begun, history>>

-----------------------------------------------------------------------------
(* LoginStatus asks the SDK how the login went. Its answer is final, and   *)
(* the session is looked at again afterwards.                              *)
StatusOk(l) ==
  /\ session[l].state = "pending" /\ task[l].step = "ok"
  /\ memory[session[l].account] # NoLogin
  /\ session' = [session EXCEPT ![l].state = "connected"]
  /\ UNCHANGED <<providers, store, grant, creation, memory, task, removal, begun, history>>

StatusError(l) ==
  /\ session[l].state = "pending" /\ task[l].step = "failed"
  /\ session' = [session EXCEPT ![l].state = "over"]
  /\ CancelGrants({l})
  /\ UNCHANGED <<providers, store, memory, task, removal, begun, history>>

(* Whoever asks for a session that has expired has it cancelled.           *)
FindExpired(l) ==
  /\ session[l].state = "pending" /\ session[l].late # "no"
  /\ session' = [session EXCEPT ![l].state = "over"]
  /\ CancelGrants({l})
  /\ UNCHANGED <<providers, store, memory, task, removal, begun, history>>

(* Mutant: a login is cancelled while it is being saved.                   *)
CancelAnyLogin(l) ==
  /\ Exists(l) /\ (session[l].state = "pending" => session[l].late = "no")
  /\ CancelSessions({l})
  /\ told' = told \cup {l}
  /\ UNCHANGED <<providers, store, memory, task, removal, begun, stale>>

(* CancelLogin, after FindExpired where that applies; refused while the    *)
(* login is being saved.                                                   *)
CancelLogin(l) ==
  /\ Exists(l) /\ (session[l].state = "pending" => session[l].late = "no")
  /\ ~ session[l].committing
  /\ CancelSessions({l})
  /\ told' = told \cup {l}
  /\ UNCHANGED <<providers, store, memory, task, removal, begun, stale>>

-----------------------------------------------------------------------------
(* Disconnect: the account's sessions are cancelled, then the row is made  *)
(* a tombstone, then the SDK forgets the account.                          *)
LoginsOf(x)         == {l \in Logins : Exists(l) /\ session[l].account = x}
LoginsAtProvider(p) == {l \in Logins : Exists(l) /\ session[l].provider = p}

DisconnectBegin(a, x) ==
  /\ removal[a].step = "none"
  /\ account[x].version < IF account[x].state = "gone" THEN MaxRepeat ELSE MaxVersion
  /\ x \notin FreshAccounts
  /\ CancelSessions(LoginsOf(x))
  /\ removal' = [removal EXCEPT ![a].step = "tombstone", ![a].account = x]
  /\ UNCHANGED <<providers, store, memory, task, begun, history>>

Tombstone(a) ==
  LET x == removal[a].account
  IN  /\ removal[a].step = "tombstone" /\ account[x].state # "none"
      /\ account' = [account EXCEPT ![x].state = "gone", ![x].version = @ + 1]
      /\ credential' = [credential EXCEPT ![x] = NoLogin]
      /\ creation' = [creation EXCEPT ![x] = NoLogin]
      /\ stale' = stale \cup {l \in Logins : session[l].state # "none" /\ session[l].account = x}
      /\ AdminTo(a, "forget")
      /\ UNCHANGED <<providers, session, grant, memory, task, begun, told>>

Forget(a) ==
  /\ removal[a].step = "forget"
  /\ memory' = [memory EXCEPT ![removal[a].account] = NoLogin]
  /\ removal' = [removal EXCEPT ![a] =
       IF @.provider = "none" THEN NoRemoval ELSE [@ EXCEPT !.step = "next"]]
  /\ UNCHANGED <<providers, store, session, grant, creation, task, begun, history>>

(* There is no such row (yet), or the request is cancelled before the      *)
(* transaction.                                                            *)
DisconnectFails(a) ==
  /\ removal[a].step = "tombstone"
  /\ removal[a].provider = "none" \/ account[removal[a].account].state = "none"
  /\ removal' = [removal EXCEPT ![a] = NoRemoval]
  /\ UNCHANGED <<providers, store, session, grant, creation, memory, task, begun, history>>

(* RemoveProvider: its sessions are cancelled, then its accounts are       *)
(* listed and disconnected; after that DeleteProvider, which holds the     *)
(* providers' lock throughout, deletes the row.                            *)
RemoveBegin(a, p) ==
  /\ removal[a].step = "none" /\ p \in providers
  /\ \A b \in Admins : removal[b].provider = "none"
  /\ CancelSessions(LoginsAtProvider(p))
  /\ removal' = [removal EXCEPT ![a].step = "list", ![a].provider = p]
  /\ UNCHANGED <<providers, store, memory, task, begun, history>>

ListAccounts(a) ==
  /\ removal[a].step = "list"
  /\ removal' = [removal EXCEPT ![a].step = "next",
                   ![a].queue = {x \in Accounts : Live(x) /\ account[x].owner = removal[a].provider}]
  /\ UNCHANGED <<providers, store, session, grant, creation, memory, task, begun, history>>

RemoveNext(a, x) ==
  /\ removal[a].step = "next" /\ x \in removal[a].queue
  /\ CancelSessions(LoginsOf(x))
  /\ removal' = [removal EXCEPT ![a].step = "tombstone", ![a].account = x, ![a].queue = @ \ {x}]
  /\ UNCHANGED <<providers, store, memory, task, begun, history>>

DropProvider(a) ==
  /\ removal[a].step = "next" /\ removal[a].queue = {}
  /\ providers' = providers \ {removal[a].provider}
  /\ removal' = [removal EXCEPT ![a] = NoRemoval]
  /\ UNCHANGED <<store, session, grant, creation, memory, task, begun, history>>

(* The process ends; List gives the SDK what is stored for the providers   *)
(* there are.                                                              *)
Restart ==
  /\ session' = [l \in Logins |->
       IF session[l].state = "none" THEN session[l] ELSE [session[l] EXCEPT !.state = "swept"]]
  /\ grant' = [l \in Logins |-> "none"]
  /\ creation' = [x \in Accounts |-> NoLogin]
  /\ memory' = [x \in Accounts |->
       IF Live(x) /\ account[x].owner \in providers THEN credential[x] ELSE NoLogin]
  /\ task' = [t \in Tasks |-> NoTask]
  /\ removal' = [a \in Admins |-> NoRemoval]
  /\ UNCHANGED <<providers, store, begun, history>>

-----------------------------------------------------------------------------
LoginStep(l) ==
  \/ \E p \in Providers, x \in Accounts \cup {NoAccount} : StartRead(l, p, x)
  \/ StartRegister(l) \/ StartIssue(l) \/ StartFails(l)
  \/ SubmitCallback(l) \/ Redeem(l) \/ Expire(l)
  \/ Prepare(l) \/ PrepareRefused(l) \/ SaveLogin(l) \/ SaveLoginRefused(l) \/ Register(l)
  \/ StatusOk(l) \/ StatusError(l) \/ FindExpired(l) \/ CancelLogin(l)

RefreshStep(r) == RefreshSave(r) \/ \E x \in Accounts : RefreshBegin(r, x)

HookStep(t) == HookOwns(t) \/ HookEvict(t) \/ HookObserve(t)

AdminStep(a) ==
  \/ \E x \in Accounts : DisconnectBegin(a, x) \/ RemoveNext(a, x)
  \/ \E p \in Providers : RemoveBegin(a, p)
  \/ Tombstone(a) \/ Forget(a) \/ DisconnectFails(a) \/ ListAccounts(a) \/ DropProvider(a)

Next ==
  \/ \E l \in Logins : LoginStep(l)
  \/ \E r \in Refreshers : RefreshStep(r)
  \/ \E t \in Tasks : HookStep(t)
  \/ \E a \in Admins : AdminStep(a)
  \/ Restart

Spec == Init /\ [][Next]_vars

-----------------------------------------------------------------------------
ProviderOrNone == Providers \cup {"none"}
AccountOrNone  == Accounts \cup {NoAccount}
LoginOrNone    == Logins \cup {NoLogin}

AccountSet == [state : {"none", "live", "gone"}, version : Nat, owner : ProviderOrNone]

SessionSet ==
  [state : {"none", "starting", "pending", "over", "connected", "swept"},
   account : AccountOrNone, provider : ProviderOrNone,
   committing : BOOLEAN, late : {"no", "session", "grant"}]

TaskSet ==
  [step : {"none", "wait", "submitted", "code", "save", "register", "owns", "evict", "observe", "ok", "failed"},
   account : AccountOrNone, login : LoginOrNone]

RemovalSet ==
  [step : {"none", "list", "next", "tombstone", "forget"}, account : AccountOrNone,
   provider : ProviderOrNone, queue : SUBSET Accounts]

AtWork(t) == task[t].step \in {"save", "register", "owns", "evict", "observe"}

(* Types of the engine's state; whoever works on an account knows it.      *)
TypeOK ==
  /\ providers \in SUBSET Providers
  /\ account \in [Accounts -> AccountSet]
  /\ credential \in [Accounts -> LoginOrNone]
  /\ session \in [Logins -> SessionSet]
  /\ grant \in [Logins -> {"none", "open", "bound"}]
  /\ creation \in [Accounts -> LoginOrNone]
  /\ memory \in [Accounts -> LoginOrNone]
  /\ task \in [Tasks -> TaskSet]
  /\ removal \in [Admins -> RemovalSet]
  /\ begun \in [Logins -> Nat]
  /\ told \in SUBSET Logins /\ stale \in SUBSET Logins
  /\ \A t \in Tasks : task[t].step \notin {"none", "failed"} => task[t].login \in Logins
  /\ \A t \in Tasks : AtWork(t) => task[t].account \in Accounts
  /\ \A a \in Admins : removal[a].step \in {"tombstone", "forget"} => removal[a].account \in Accounts

(* ADR 0015, "disconnect tombstones prevent late refresh from restoring    *)
(* credentials": nothing is stored for a disconnected account, and what is *)
(* stored when it is connected again comes from a login that was started   *)
(* after the disconnection, in every order of logins and refreshes.        *)
TombstonesHold ==
  \A x \in Accounts :
    IF Live(x) THEN credential[x] \in Logins \ stale ELSE credential[x] = NoLogin

(* CancelLogin does not claim success for a login that is stored, or will  *)
(* be: what an administrator has been told is cancelled stays so.          *)
CancelHolds == \A x \in Accounts : credential[x] \notin told

(* runtime_hook.go: whenever the refresh or the login ends that brings a   *)
(* disconnected account back into the SDK's memory, someone is about to    *)
(* evict it: the hook or the disconnection itself.                         *)
DisconnectedIsEvicted ==
  \A x \in Accounts : memory[x] # NoLogin /\ ~ Live(x) =>
    \/ \E t \in Tasks : task[t].step \in {"owns", "evict"} /\ task[t].account = x
    \/ \E a \in Admins : removal[a].step = "forget" /\ removal[a].account = x
=============================================================================
