# Verification of NineGuard

NineGuard (`src/`) is a gateway for LLM APIs, written in Go: clients present an
API key, the gateway decides whether the key may use the model it asks for and
whether its token quota still allows it, forwards the request to one of several
providers, relays the answer and logs what it cost. Administrators manage keys,
models, providers, plugins and prices through a web API. Everything persistent
is in one SQLite database; most decisions are taken from in-memory copies of it.

This directory holds TLA+ models of that program, TLC configurations that check
them on small instances, and TLAPS proofs about them for every instance. Every
definition names, in `PROJECT.json` ("map"), the lines it is translated from.

Contents: [the system](#1-the-system) - [the models](#2-the-models) -
[the runs](#3-what-tlc-checks) - [fairness](#4-fairness) -
[the proofs](#5-what-is-proved) - [where the code differs from its
documentation](#6-where-the-code-differs-from-its-documentation) -
[abstractions](#7-abstractions-and-what-is-not-modelled) - [the plan](#8-the-plan).

To repeat a check: `tlc -config MCKeyRegistry.cfg MCKeyRegistry`, and
`tlapm KeyRegistryProofs.tla` for proofs.

## 1. The system

### What runs at the same time

One process. `net/http` runs one goroutine per request, so any number of client
requests and administrators' requests are in progress at once. Beside them run
the model sync (every 30 minutes, `cmd/nineguard/main.go:175-230`), the upstream
quota sync, the writer of the system log, one goroutine per answered request
that inserts its traffic row (`internal/proxy/proxy.go:900-975`), and one timer per
upstream answer (`internal/proxy/idle_reader.go`). A shutdown waits two
seconds and does not wait for those goroutines.

The database pool has **one connection** (`internal/db/db.go:35`). A
transaction, and a query whose rows are still open, therefore excludes every
other access to the database. In all models a transaction is one step, a single
statement is one step, and between two statements of the same function anything
may happen. In-memory state is protected by mutexes that are hardly ever held
over a database access, which is where most of the hazards come from.

### Components

| Component | State | Operations | What makes it correct |
| --- | --- | --- | --- |
| Quota calendar (`traffic/window.go`, `quota.go`) | none | window of an instant under a schedule | windows lie on the schedule's resets, also over daylight saving changes and short months |
| Reset Schedules (`keys/global_schedule.go`, `reset_schedule.go`, `modelquota.go`) | global schedule in `settings`; own schedule and Transitional Windows ("pins") per key; the cache of both | set the global schedule, clear overrides, edit a key's schedule, refresh, restart | an edit never moves the start of a running window; windows tile; cache = database |
| Quota gate (`proxy/proxy.go`, `proxy/quota.go`, `traffic`) | traffic log, requests in flight | check, answer, record, lose a record | soft limit: nobody is let in at or above it, the overshoot is bounded |
| Key registry (`keys/keys.go`) | `api_keys`, `api_key_model_quotas`, the cache | create, edit, toggle, delete, refresh, look up | a disabled or deleted key is refused; no orphan quotas |
| Model catalog and groups (`models`, group cache of `keys`) | `models`, `model_groups`, pending-removal flags, group cache and availability snapshot | sync, edit groups, prune, delete models, reload | a truncated listing takes nothing away; the group cache is the rows; both converge |
| Relay (`proxy/proxy.go`, `idle_reader.go`, `stream_inject.go`) | body, event buffer, timer, counters of one answer | read, relay, time out, end | in order and once; usage counted; a timeout is called one; it ends |
| Request path (`proxy/proxy.go`, `plugins/pipeline.go`) | headers of one request: trace, hops, applied plugins | guard, reject, answer here, run plugins, forward | loops end; a fail-closed plugin is never passed; a built-in one is applied once |
| Providers (`providers/providers.go`) | `providers`, default flag, owners in `models` | create, edit, default, toggle, delete, resolve a name | at most one default, kept while one is active; canonical names resolve to themselves; a deleted provider leaves no models |
| Plugins (`plugins`, `handler/plugins.go`) | `plugins`, `plugin_bindings`, copies of both | create, edit, bind, order, delete, reload, seed | fail-closed is never bypassable; policies are the administrators'; copies = rows |
| Provider engine (`providerengine`) | `provider_accounts`, `provider_credentials`; login sessions, grants; the SDK's memory of accounts | start, callback, cancel, save, refresh, disconnect, remove a provider | a disconnected account or cancelled login stays so, whatever arrives late |
| Upstream quota (`upstream`, `handler/upstream_quota.go`) | quota cache, cooldown, sync timer, alert state | read, force, sync, reset, change the interval | cache and alerts catch up; a new interval takes effect |
| Accounts (`auth`) | `users`, `sessions` | setup, sign in and out, create, delete, change, recover, reset | a session is its owner's; a reset ends sessions; an administrator remains |
| Login limiter (`handler/ratelimit.go`) | attempts per address, failures and locks per account | admit, refuse, verify, record, clean up | the limits hold in every stretch of time, and locks last |
| Prices (`pricing/manager.go`, `resolver.go`, `reprice.go`) | price list, overrides, the resolver, costs in `traffic_logs` | refresh, override, reload, charge, reprice | resolver = tables; an override reaches every row |
| Exchange rate (`pricing/manager.go`, `fx.go`) | currency, manual and automatic rate | save, fetch, store | the rate is the currency's |
| System log (`syslog`) | bounded channel, batch, `system_logs` | record, store, drain, page | kept in order, flushed on close; pages are complete |
| Reports, listings, HTTP layer, vault, configuration, TUI, tray, built-in plugins | read-only, or pure conversions | | |

How they interact: `ServeHTTP` (request path) asks the key registry for the key,
the Reset Schedules for the key's Quota Window, the traffic log for the usage in
it, the group cache for access, the providers for a route and the plugins for
the pipeline, then relays and hands the usage, with its cost from the resolver, to
`traffic.Record`. A provider may be another NineGuard: what one tells the next travels in
headers. The model sync calls back into the key registry (`SetOnSynced`, `main.go:173`) to reload the
group cache. Edits of a group do the same from their handlers.

### What is hard here

`PROJECT.json` ("hazards") lists the places one by one. They are of six kinds.

* **Copies of the database.** Keys, schedules, groups, availability, plugins and
  prices are each enforced from a copy that is refreshed *after* a commit, by
  whoever committed. Two refreshes may overlap, and a copy read first may be
  stored last.
* **Decisions in several statements.** Check-then-act over separate statements
  (delete a group, prune a group, count administrators), and phases of the
  model sync that interleave with another sync; an account's row is read, a slow
  hash computed, and another row written.
* **The clock.** A window ends between two steps; a schedule is edited inside a
  Transitional Window; daylight saving.
* **The end of an answer.** Upstream, client and idle timer may each end it, at
  any event, while usage still has to be counted.
* **Long legal sequences.** Providers are renamed, switched off and deleted, ids
  are reused, plugins re-seeded; some rule must survive all of it.
* **Late records.** Usage is known after the answer and counted later still,
  or never. A token refresh, or a login somebody has consented to, ends after
  the account it belongs to was disconnected.

## 2. The models

| Module | Models | Proofs |
| --- | --- | --- |
| `QuotaCalendar` | the window arithmetic of `traffic/window.go`, `quota.go`, on a miniature calendar | `ServingProofs` |
| `QuotaWindows` | Reset Rules and pins over an abstract calendar | (lemmas in `ResetSchedulesProofs`) |
| `ResetSchedules` | editing schedules while keys are enforced; EXTENDS `QuotaWindows` | `ResetSchedulesProofs` |
| `SoftQuota` | abstract specification: what a token quota promises | - |
| `QuotaGate` | the gate with its asynchronous record; implements `SoftQuota` | `ServingProofs` |
| `KeyRegistry` | key rows, Model Quotas, cache and lookups | `KeyRegistryProofs` |
| `ModelCatalog` | sync, removals, groups, group cache | `CatalogProofs`, `ProvidersProofs` |
| `GroupReloads` | the order of overlapping reloads of that cache; EXTENDS `ModelCatalog` | `CatalogProofs` |
| `StreamRelay` | one upstream answer, its reader, timer and client | `ServingProofs` |
| `OAuthGrants` | logins to provider accounts, their credentials, the SDK's refreshes | `OAuthGrantsProofs` |
| `RequestChain` | one request on its way through gateways and their plugins | `ServingProofs` |
| `PluginRegistry` | a plugin's rows, its bindings, and the copy requests are served from | `PluginsProofs` |
| `ProviderRouting` | provider rows, the default provider, resolution of names, owners of models | `ProvidersProofs` |
| `PriceList` | price list, overrides, resolver, charging and repricing | `PluginsProofs` |
| `ExchangeRate` | the rate costs are displayed at | `ServingProofs` |
| `UpstreamQuota` | cache of providers' quotas, refreshes, alerts | `ServingProofs` |
| `SyncInterval` | the interval of these refreshes | `ServingProofs` |
| `AdminAccounts` | dashboard accounts and sessions | `DashboardProofs` |
| `LoginLimiter` | rate limit of addresses, lockout of accounts | `DashboardProofs` |
| `LogQueue` | bounded queue, worker and readers of the system log | `DashboardProofs` |

The `MC*` modules give constants their values, build the calendar as functions
(`MCResetSchedules`), add history variables a property speaks of (`MCProviders`,
`MCSyncAgrees`), or put components that share no state beside each other
(`MCRequests`, `MCServices`, `MCDashboard`, `MCPlugins`, `MCProviders`): there a variable
`part` (`service` in `MCServices`) says which component a behaviour is about, the others rest in one of their
initial states (`Rest`, `Resting`), and so TLC explores the sum of the components' state
graphs and not their product. Nothing is lost by that, as no action or property
looks at the variables of two parts. `MCProviders` looks at each of its two modules in two parts, with other bounds on who
acts: overlapping syncs (`syncs`) and one sync beside every disturbance (`catalog`) of `ModelCatalog`, rows (`rows`) and owners
of models (`models`) of `ProviderRouting`. A property of such a run holds of every behaviour of the
part it speaks of, and trivially of the others, whose variables never change; liveness and types
name their part. Each of the specifications (`ChainSpec`, `AccountsSpec`, ...) can be run by itself.

Definitions whose comment starts with "Mutant:" are plausible bugs of the
definition after them; no specification uses them. Putting one in place of that
definition makes a property fail, which shows that the property can.

**QuotaCalendar / QuotaWindows.** `scheduleWindow` searches for the pair of
resets around an instant, from the local date, with a bounded number of steps,
and falls back to the UTC calendar when the pair does not enclose the instant.
`QuotaCalendar` translates this with hours as instants, months of 31, 28 and 31
days, and zones with one summer interval. Everything after it needs three facts
of a calendar only: an instant lies in its window, the next instant lies in the
same window, or in one that starts where this one ends. `QuotaWindows` states
them as `CalendarAssumption` over arbitrary functions `StartOf`, `ResetOf`, and
defines `CalcQuotaWindow` and `PinsForChange` on top. The same assumption is
evaluated by TLC in two places: for the translated arithmetic (run `services`,
which thereby joins the two modules) and for the small calendar of the schedule runs. That it is true of the
translated arithmetic at every instant, for every valid schedule in every zone, is the theorem `CalendarWindowsTile`.

**ResetSchedules.** State: `dbGlobal`, `dbOwn`, `dbPins` are the rows, `memGlobal`
and `cache` the fields of `keys.Manager`, `edit` the program counters of the
administrators' requests with the values they have read. `SetGlobalBegin` /
`SetGlobalTx` / `PublishGlobal` / `LoadLocalCache` are the four steps of
`SetGlobalSchedule`: the cached global schedule and the clock are read before the
transaction, memory is replaced after it. `ClearBegin` / `ClearTx` are
`ClearScheduleOverrides`, `UpdateKeyTx` is `UpdateKeyAll`, `OtherEdit` the edits that
only refresh, `Restart` is a crash at any point and `NewManager`.

**QuotaGate.** A *budget* is a key, or a key with a model, according to
`quota_mode`. `used` is the sum the check would compute, `req` the requests in
flight. A slot stays in use until its row has been inserted, because a client that has
its answer may send again before that. Rejections after the gate, upstream
errors and refused requests are logged with zero tokens. `SoftQuota` has two
numbers only, the usage and how many requests are in flight; the refinement
mapping of `QuotaGate!Soft(b)` is the count of slots open on budget `b`.

**KeyRegistry.** A row is its activity and one value for all else it says
(`Access`), since no property distinguishes names, modes or groups. The three
ways in which the cache is brought up to date are separate actions: `Store` (creation
and lookup), `DropEntry` (deletion), `LoadQuotas` / `LoadRows` (every other edit). An
entry remembers in `from` who stored it; the code has no such field, only the
properties use it.

**ModelCatalog.** `catalog` is what providers really offer, `rows` the models
table, `op` what each goroutine is doing. A sync is
`FetchWhole` / `FetchPart` / `FetchTruncated`, `DeleteOrphans`, one `Register` per
listed model, `LockPending`, one `Mark` per answering provider, `EndSync`, and the
reload `ReadGroups` / `LoadAvailability` / `SwapCache`, which the handlers of group edits
run as well. `Mark` has the guard of ADR 0006: more than half of a provider's
models missing is held back once. Any number of actors do any of this at once. `GroupReloads` adds
two history variables to it: `newest` is who read the groups last, until that is stored, and `overtaken`
says that what the cache holds was read before something that had been stored already.

**StreamRelay.** `sent` is what upstream put on the wire, `got` how much of it
`Read` has returned, `buf` the event buffer (or the body, when it is not a
stream), `relayed` what the client was written. `CheckTimer` is the part of
`idleTimeoutReader.Read` under its lock. The timer's function runs in three steps
(`SetTimedOut`, `CancelContext`, `CloseBody`) beside the handler, as it does in
`idle_reader.go:34-47`. Events are whole, without their blank line, or torn; the
latter two can only be last.

**OAuthGrants.** `account` and `credential` are the rows, `session` and `grant` /
`creation` what `Engine` and `credentialStore` keep in memory, `memory` what the SDK
keeps, `task` what a goroutine of the SDK is doing for a login or a refresh, `removal`
where an administrator's request is. `StartRead` / `StartRegister` / `StartIssue` are the
three parts of `StartLogin`: rows and the account's version are read, the session is
entered, the SDK is asked for a URL. The SDK then runs `Prepare` (the hook
`prepareLoginRecord`), `SaveLogin`, `Register` and the runtime hook in three steps
(`HookOwns`, `HookEvict`, `HookObserve`), each under another lock or none. A disconnection
is `DisconnectBegin` (sessions), `Tombstone` (the transaction) and `Forget` (the SDK);
`RemoveBegin` / `ListAccounts` / `RemoveNext` / `DropProvider` do that for a provider. The
SDK (CLIProxyAPI) is not in the repository; it is modelled by what the engine
relies on: it runs the hook before it saves a login, takes a login into memory only once saved, calls
the runtime hook after it has taken a record in. `told` and `stale` are history.

**RequestChain.** A request is `at` a gateway; `trace`, `hop`, `bypass` and `applied` are its
headers, `executed` the built-in plugins that changed it here. `Arrive` is the recursion guard,
`AnswerHere` every answer or refusal between it and the plugins, `EnterPipeline` ... `PipelineDone` the
pipeline, the hop count of a client may be anything, also negative (`LeastHop`), `Forward` the call of a provider that is a gateway (perhaps the same one), `Upstream` of
one that is not. How a plugin is set up is chosen when it is its turn, from
the setups that `PluginRegistry` allows: the theorem `ProtectorsAreNeverBypassable` there is the assumption here. `runs`,
`fixed` and `last` are history.

**PluginRegistry.** `row` / `binding` are the tables, `memRow` / `memBinding` the copies in
`plugins.Manager`, `edit` the requests. An update fills in what the form leaves
out from the copy (`UpdateBegin`), merges with the copy (`UpdateMerge`), writes
(`UpdateWrite`), and like every edit ends in `ReadPluginRows`, `ReadBindingRows`, `SwapCopies`.
`DeleteScope` is the deletion of a key or group, which removes bindings without
a reload; `RegistryRestart` the seeding of built-in plugins.

**ProviderRouting.** A model name is a sequence of segments. `Before` is the order of
`ListProviders` (default, active, name, then the order of the table), `FindProviderForModel`
and `ResolveModelID` are functions of the rows, as in the code. Rows are made, edited and deleted under the
manager's mutex, one action each, with the hand-over of the default mark and the
deletion of models (`ModelsOf`); `RoutingRestart` is the two repairs in `InitDB`. `models` says whom the rows of
models are filed under, one row standing for all with the same head. A sync does not take
the mutex: `AggregateModels` fetches from the providers there are, `SweepOrphans` and one `RegisterModel` per row
come later, each without a look at what became of the provider, and take over rows
that another one had. `EnableUnknown` is `SetModelEnabled` of a model that has no row, filed under
the text before its slash. `sync[s].gone` is history: who was deleted since the listing of `s`.

**PriceList.** The resolver's two maps are `memList` and `memOverride`, the latter with the family of
an overridden model too. An edit writes its row, reloads (`ReadList` takes the
manager's mutex, `ReadOverridesAndSwap` gives it back), then prices rows again (`SelectRows`,
`PriceRows`). A request is charged when its answer is over and its row written later
(`Charge`, `WriteRow`).

**ExchangeRate.** A rate is stood for by the currency it was fetched for. `SaveCurrency` /
`SaveManual` are the two statements of `UpdateCostSettings` this is about, `ReadCurrency` /
`FetchRate` / `StoreRate` / `StampRate` a refresh, of the daily loop or of a change of currency. `RefuseManual`: an
invalid manual rate ends the request when the currency is stored already.

**UpstreamQuota / SyncInterval.** A provider answers `fine`, `low` (a bucket that warns), `empty`
or not at all. `Ask` keeps in mind what the cache held, `Answered` brings what the
provider said at that time - or, in `CallFails`, nothing, because the reader has gone or the client
gave up -, `Store` writes the entry and, for the loop, lets the alerter
observe it: answers overtake one another, and a failed call makes old buckets valid once more. `SyncInterval` has the loop's round (read the setting,
align the cache, wait) and the requests that store, align and wake.

**AdminAccounts.** `user` and `sessions` are the rows, `request` what a handler
has read and where it is. A password is a number that counts its changes. A request that must be signed in for
is admitted in one step (`Admit`) and does everything else in later ones, when its account may be gone or renamed:
`VerifyOwn` signs in to whoever has the name by then, `InsertUser` comes after a hash, `ReadRole` before a reset. `Verify` and
`CreateSession` are `Login`'s two halves, with the hash between them;
`StorePassword` / `DeleteSessions` / `ClearRecovery` a reset's; `CountAdmins` / `DeleteUser` a
deletion's; `SetupCheck` / `SetupInsert` the first start's.

**LoginLimiter.** `seen` and `lock` are the limiter's maps, `attempt` the requests under way: admitted
by address (`EndEarly`: and nothing more, when malformed), let through by the lock, verifying, then recording. `granted` and `guesses` are history.

**LogQueue.** `queue` is the channel, `batch` the worker's slice, `table` the rows. `Take`
and `Tick` store a batch, or any part of it (`Parts`) when inserts fail; `Stop`, `Drain` and `Drained` are the shutdown, `CloseReturns` its end. A reader
asks for pages behind a cursor (`QueryLogs`, `ReadOn`) while the table grows.

## 3. What TLC checks

| Run | Instance | Shows |
| --- | --- | --- |
| `schedules` | 2 keys, 1 administrator, 2 schedules and none, periods of 3 and 5 instants, 7 instants | serial edits keep usage (`UsageKept`), windows tile (`WindowsTile`), a pin ends at the new schedule's reset (`PinsEndOnSchedule`), the cache is what a restart would load (`CacheCoherent`) |
| `providers` | 2 providers with 3 and 1 models, 2 overlapping syncs, 1 truncated listing; 3 models, 1 group, syncs of the background loop beside every disturbance, fairness; 3 provider ids, 1 prefix, 2 names; 1 sync of models beside edits and deletions of providers | `OneShortListingIsHeld`; `CatalogConverges`: once disturbances stop, tables and caches reach the truth; `DefaultKept`; `RoutingIsSound`: one default, canonical names are fixed points of the resolution; `OrphansHaveACause`: models go with their provider, or are left for three named reasons |
| `keys` | 2 keys, 2 administrators, 1 client | `NoOrphanQuotas`, `LoadedEntryCurrent` |
| `oauth` | 1 provider, 1 account (new, or disconnected before), 2 logins, 1 refresher, 1 administrator, versions up to 4 | `TombstonesHold`, `CancelHolds`, `DisconnectedIsEvicted` |
| `requests` | a Key Quota of 2 and a Model Quota of 1, 3 requests of up to 2 tokens; 3 gateways, 1 built-in and 1 HTTP plugin, hop counts from -1; an answer of up to 3 events of every kind and form, fairness | `OvershootBounded`, `QuotaIsSoft` (the refinement of `SoftQuota` for every budget); `PluginsApply`, `RequestEnds`; `RelayedInOrder`, `UsageCounted`, `TimeoutIsReported`, `RelaysEnd` |
| `services` | 1 reader beside the loop, 2 changes of a provider's quotas; 2 currencies, 2 refreshes beside the loop's, 3 disturbances; 2 savers, 2 intervals; every hour of two months in UTC, UTC+7 and two daylight saving zones, days 1, 15, 29, 31; fairness | `ServicesSettle`: cache, alerts and rate catch up; `WaitsAsStored`; `WindowIsOnTheGrid`: the window is a pair of neighbouring resets around the instant; evaluates `CalendarAssumption` for that calendar |
| `dashboard` | 2 requests, 2 accounts ever, 2 sessions; 1 address, 1 account, 2 attempts, limits of 2; a channel and batches of 2, pages of up to 2, 5 entries | `SessionsAreSound`, `AdministratorRemains`; `GuessingIsLimited`; `EntriesKept`, `PagesComplete` |
| `plugins` | 2 editors, the global and one other scope; 2 models of a family, 2 prices, 2 editors of prices, 1 request; 1 provider with 1 model, 1 group, 1 key, 2 actors | `ClosedNeverBypassable`, `RunsWhatIsStored`, `PolicyChangesAreAdministrators`; `PricesApply`; `OnlyOvertakenIsStale` |
| `schedules_two_admins` | 1 key, 2 administrators | violated: `StoredUsageKept` (section 6) |
| `sync_agrees` | syncs one after the other | violated: `ConfirmedByPreviousSync` (section 6) |
| `linked_group` | 1 model, 1 group, 1 key, 2 actors | violated: `LinkedGroupKept` (section 6) |
| `exchange_rate` | 2 currencies, 3 disturbances | violated: `RateOfItsCurrency` (section 6) |

Types are checked in each composed run (`RequestsTypeOK` and the like) for the part looked at, and all types
are theorems.

Why these bounds are enough. *Calendar*: within two months there are both
daylight saving changes, a short month between two long ones and every weekday;
the search is bounded by four steps and starts at the local date, so a longer span repeats the
same cases. *Schedules*: an edit touches keys one at a time and
its kinds of key are "own schedule" and "follows the global one", so two keys
show both at once; with periods of 3 and 5 instants the two schedules' resets
fall on every relative phase within seven instants, and a schedule can be edited
three times within one window. *Gate*: with limits 1 and 2 and 2 tokens a
request, all three slots pass the gate before any is counted, which is the
extreme; the theorem covers all other sizes. *Chain*: the guard refuses after three hops, so
three gateways can all be passed and each revisited; a negative hop count makes one more round possible, which `LeastHop` = -1 shows; plugins decide one at a
time and share only the headers, so one of each kind shows the pairs across gateways; the
theorems cover the rest. *Relay*: three events
allow one to be buffered, one to be half sent and one to be relayed; what the handler
remembers between events is a flag and a counter. *Catalog*: three models are the least for which
"more than half" and "not all" differ. One actor's syncs and group edits are enough for `CatalogConverges` (`OneSyncs`), where every disturbance (restart, deleted
rows, changed catalog) is an action of its own, and those of one statement happen at any moment of a sync (a change of the
catalog only between syncs, as only fetches read it); two overlapping syncs are in the part `syncs`, two
overlapping reloads in `plugins`. There one model is enough:
a group has it or not, and two reloads can tell. In `providers` the group has no members or those of a set that separates
the models (`FewMemberSets`), as it is only read. *Providers*: two providers
that share a prefix and one without it show every precedence; the default passes on at most to
the oldest of those left. Owners of models do not depend on names, so the part `models` has one name, two ids that can be
shared or lost (`FewProviders`) and one sync; the theorem is for any number of them. *Keys*: an orphan needs an edit against a deletion, a stale refresh needs
two edits of one key, so two administrators suffice, and the theorems cover more. *OAuth*: a login can only get in
the way of another one, of a refresh or of an administrator, so one more of each is the least that shows every pair;
accounts share nothing but the provider. Versions up to 4 (`MaxVersion`) let one account be connected, disconnected and
connected again under two logins. An account that is gone already is not disconnected once more (`MaxRepeat` = 0); the
theorems cover repeated disconnections and any number of versions. *Services*: an answer can be late by one change or two; two savers and
one wake-up in the buffer are the least for a wake-up to be dropped. *Dashboard*: two requests are one check
and one act between its halves; an id can be deleted and a later one used; a
window of 3 and a lock of 2 instants within 7 let attempts be refused, forgotten and counted again. Five entries
are more than channel and batch hold together. *Plugins*: two editors are the least that overlap, and what holds
of overlaps is proved for any number. *Prices*: two models of one family are the least
for which list, override and override of the family differ.

Symmetry: `Symmetry` permutes keys and requests that the specification and the properties
treat alike, and stands only in runs without liveness properties.

`CHECK_DEADLOCK FALSE` stands in the composed runs with a part that ends: the
calendar's clock stops at its horizon, an answer and a request are over, the log is closed, an operation of
the catalog may find nothing left to do. All other runs check
for deadlock; since a restart is always possible there, that check says little about waiting, and waiting is
what `CatalogConverges`, `RequestEnds`, `RelaysEnd` and `ServicesSettle` are for.

## 4. Fairness

`CatalogFairness` (of `ModelCatalog`, in run `providers` for the part `catalog`): weak fairness of `Continue(a)`, because a sync or a
request that has begun only executes local statements; strong fairness of
`LockPending(a)`, because others may take `m.mu` again and again and a Go
`sync.Mutex` does not starve a waiter (starvation mode after 1 ms); strong
fairness of `FetchWhole(Background)`, because the loop in `main.go` never ends
and the property is conditional on providers that answer in full again and
again. No fairness for administrators, providers or restarts: `CatalogConverges`
assumes that these have stopped (`<>[][~Disturb]_vars`) and makes no other use of them.
A truncated listing counts as a disturbance; an error or an empty listing of a
provider does not, and may go on for ever in between.

`StreamRelay!RelayFairness` (in run `requests` for the part `relay`): weak fairness of
the handler and of the timer, because goroutines run and timers fire. The
handler's step `Written` is included: a client takes
its bytes or its connection fails. The server sets no write timeout
(`main.go:430-433`), so this is an assumption about clients and TCP and not
something the code enforces. Upstream owes nothing: `RelaysEnd` holds when it never sends a byte.

`UpstreamQuota!QuotaFairness`: weak fairness of the loop, which never ends, and of the end of every
reader's call and its `Store`: a call is answered or its client times
out. Weak fairness of `CooldownEnds`: thirty seconds pass. Strong fairness of `Answered("loop")`: the loop calls
again and again, and a provider that is up does not fail each of these calls; the code promises nothing about one that does. Nothing forces
anybody to read. `ServicesSettle` assumes for the cache that the calls of *readers* stop failing by themselves
(`CacheCatchesUp`): each such failure stores the buckets of before as valid, for two minutes, and when forced starts the
cooldown, in which the loop's forced refresh is served from them (`client.go:124-127`, `:159-180`). Readers that
force and give up again and again can therefore keep the cache behind; the run found this, and section 6 lists it. Readers may
force as often as they like otherwise.

`ExchangeRate!ExchangeFairness`: weak fairness of the daily loop, of days passing, of the
second statement of a save that has begun, and of a refresh's local steps;
strong fairness of `FetchRate`: the service may fail again and again but not for
ever. Without it no rate need ever arrive, and the code promises none.

`RequestEnds` needs no fairness: it says that each step of a request leaves
less to do, a measure that is bounded from below.

## 5. What is proved

All theorems are checked by TLAPS for every value of the constants that
satisfies the named assumptions; each is a statement about the specification TLC
checks. A module of proofs is about the components that one run puts beside each other.

Every safety property that a passing run checks is a theorem. The types of a composed run (`RequestsTypeOK`,
`ServicesTypeOK`, `DashboardTypeOK`, `PluginsTypeOK`, `ProvidersTypeOK`) follow
from those of its parts: by `PartsRun` (`ServicesRun`), a behaviour of the composition
is a behaviour of every part, as a step of one part leaves the others' variables alone; so all
theorems about parts hold of the composition as well.

**ResetSchedulesProofs** (any calendar with `CalendarAssumption`, any keys,
schedules, periods; `SerialEdits`: one edit at a time, over before the clock
moves on - without either the property is false, see run `schedules_two_admins`
and the known limits). `TypeCorrect`, `UsageIsKept`, `EnforcedWindowsTile`,
`PinsLeadOver`, `CacheIsCoherent`. The inductive invariant is

    IInv == TypeOK /\ RulesSound /\ StartsAgree /\ EditProgress

`PinsEndOnSchedule` alone is not inductive, since a transaction reads the *cached*
global schedule: `EditProgress` says, for each step an edit may be at, how memory and database
differ, and `StartsAgree` that all the while cache and database
prescribe windows with the same start. `RulesSound` then carries
`PinsEndOnSchedule`. The lemma at the bottom is `ChangeKeepsStart`: pins
computed from sound rules at an instant keep the start of the window at
that instant. `ClockTilesWindows` is its counterpart for the clock.

**KeyRegistryProofs** (any keys, administrators, clients, rows and quotas;
edits interleave freely). `TypeCorrect`, `QuotasHaveKeys`,
`LoadedEntriesCurrent`. The last is inductive relative to `TypeOK` once it names the
refreshes and deletions that are under way; `PendingKept` says that a step
of one request never ends the obligation of another.

**OAuthGrantsProofs** (any providers, accounts, logins, refreshers, administrators,
and any number of disconnections). `TypeCorrect`, `TombstonesAlwaysHold`,
`CancellationsHold`, `DisconnectedAreEvicted`. The first two properties share an
inductive invariant, `IInv == TypeOK /\ Sound`. `LoginSound` says that what is being saved, or was, is
committing - the flag `CancelLogin` looks at - and that a login begun before a
disconnection has read a version its account has left behind, which `Save` compares.
`CredentialSound` ties each stored credential to the login that stored it. Most
actions change nothing of that (`QuietStep`); the proof is about the others: `StartRead`, `Prepare`,
`SaveLogin`, `CancelLogin`, `Tombstone`. `DisconnectedIsEvicted` is inductive by itself.

### ServingProofs: gate, chain, relay, and the services beside them

*Gate* (any keys, models, limits, modes, any finite number of
slots). `TypeCorrect`; `OvershootIsBounded`, whose statement is already
inductive because it counts each open slot at its full cost; `GateIsSoft`, the
refinement `Spec => QuotaIsSoft`: `OpenGrows` and `OpenShrinks` say how a step changes the
number of slots open on a budget, and every action then maps to `LetIn`,
`Count`, `Abandon`, `NewWindow` or a stutter of `SoftQuota`.

*Chain* (any gateways, any finite set of plugins). `ChainTypesHold`;
`RequestsEnd`, from `SInv == ChainTypeOK /\ Staged`: the measure `Left` weighs the hops that are left
above the plugins whose turn is still to come at this gateway, and every action makes it
smaller, which without the guard's limit of three hops it would not. It holds from any hop count a client may send. `PluginsAlwaysApply`,
from `PInv == SInv /\ Applied /\ WishIsLocal /\ ProtectionHolds`: a built-in plugin that has changed the
request and may be bypassed everywhere is named in the
header, or has had its turn at this gateway (`Applied`); only the gateway that the client
called knows the client's wish to bypass (`WishIsLocal`); and the last decision did not get past
a plugin that protects (`ProtectionHolds`).

*Relay* (any `MaxEvents`). `TimeoutsAreReported`, from
`ControlOK /\ FlagFirst /\ TimeoutIsReported`. `FlagFirst` is the reason the code is
right: a body can only be found closed by a handler whose reader has the flag
set, and the flag is looked at under the lock after the read. `RelayTypesHold`, `EventsAreRelayed`
and `UsageIsCounted` share

    RInv == RelayTypeOK /\ EndInv /\ UsageCounted /\ (IsSSE => StreamInv) /\ (~ IsSSE => PlainInv)

`StreamInv` follows a stream event by event: the buffer is empty or holds the event read
last, what the client has is what it is owed of the events before that (`RelayedOf`), and the
counters are what those events make them (`Counts`), so that neither depends on when upstream
stops, the client leaves or the timer fires. `PlainInv` is the same for a body that is
held back until it has been read. `EndInv` says that only the last event can lack its blank line, and that
an end of the body was read after all of it. The properties are about sequences of any
length; `RelayedOf` and `Counts` state them by index, and the lemmas say what one more event does to each.

*Services* (any readers, savers, intervals, currencies and tasks). `IntervalTypesHold` and
`SavedIntervalIsUsed`, from `IntervalInv == IntervalTypeOK /\ Agrees`: whenever the loop's timer does not
run as the setting says,
a wake-up is in the buffer or a saver has yet to send one. `QuotaTypesHold`: cache, alerts and
what each reader has kept in mind from before its call stay of their kinds. `ExchangeTypesHold`, which needs
`OfACurrency`: no refresh that is past its check of the currency fetches or stores a rate of USD.

*Calendar* (any instant; any schedule as `ResetSchedule.Validate` lets it be saved, or none; zones with two
offsets of at most 24 hours that differ by less than 24, with one summer interval). Resets are numbered by day, week or month and
`NthIsReset` identifies what the code counts from the local date with that numbering. `ResetsAscend`: as the
days of resets differ by one at least and offsets by less than a day, resets ascend, also over a
daylight saving change. `StartsNear`: the instant lies between the second reset before the
local date's and the second after it. Hence `SearchArrives`: four moves in each
direction are enough (two and three are), the pair encloses the instant, and the fallback to the UTC calendar is never taken.
`CalendarWindowsTile` follows, which is `CalendarAssumption` for the translated calendar, so that the proofs about
schedules do not rest on it being evaluated on some months only; and `WindowsAreOnTheGrid`, which adds that the finite grid of the
run holds the resets around every hour of it (`GridReaches`; `CalendarValues` is what it assumes of the run's
schedules). The calendar itself, with months of 31, 28
and 31 days, is the model's; what the argument uses of months are `MonthsFollow` (28 to 31 days, one after the other),
`MonthsAscend` and `MonthIs`, which hold of the real calendar as well.

### CatalogProofs and ProvidersProofs: catalog, groups, providers

*Catalog* (any actors, providers, models, groups and keys). `CatalogTypesHold`, from `TypeOK /\ OpsOK`: whoever is
about to write a group has one, and what a prune keeps are its entries. `OnlyOvertakenCachesAreStale`, for actors that
interleave freely, from `ReloadsInv`, whose part `CacheKnown` says where the members stored last are to be found: an actor
is about to reload, or the newest reading has them and is still to be stored, or it was stored and an older one after it
(`overtaken`), or the cache has them. `KeepsAll` is what makes it inductive: no step of one actor takes away what another
has yet to reload or has read. That the group cache is coherent *without* the exception, and that linked groups
are kept, is false of the code (section 6).

*Syncs* (any number of overlapping ones, over providers that offer the same all the time).
`ShortListingsAreHeld`: a mass removal takes two truncated listings of that provider, however many syncs,
deletions of models and restarts overlap. The history variable `truncated` only counts the listings; the
invariant `GuardInv` says who has a claim on each. A sync with a truncated listing that has not marked the provider yet
*owes* it (`Owes`), so does a removal that is held back, and `Paid` says that for any two
who owe there have been two truncated listings. A sync
that is restarted forgets its listing, which only lets the count be larger than it need be.

*Rows of providers* (any ids, prefixes, names, models, overlapping syncs). `RoutingTypesHold`, `DefaultIsKept`,
`RoutingIsSoundAlways` and `OrphansAlwaysHaveACause`, from

    RoutingInv == RoutingTypeOK /\ AtMostOne /\ ListedWereThere

where `AtMostOne` says that no two rows bear the mark of the default and `ListedWereThere` that
whoever a sync has listed and not yet written is there, or was deleted since. The last theorem has one case per
action: a deletion takes along whatever its provider alone was there for (`DeletionCauses`), other edits leave a row behind only by a new
prefix (`EditsCause`). What makes canonical names fixed points of the resolution is
that `Before` orders providers totally (`First` exists and depends on the set only), so that of
the providers with one prefix the same one answers for the name and for the name that is resolved from it.

### PluginsProofs: plugin registry and prices

*Registry* (any editors and scopes; edits interleave freely).
`RegistryTypesHold`; `ProtectorsAreNeverBypassable`, from `GInv == RegistryTypeOK /\ Protects`, where
`Protects` holds of rows, copies and of every merged form still to be written, which is what makes
merging with a copy that is out of date harmless; `StoredPluginsRun`, from `OInv == RegistryTypeOK /\ Orderly`,
which says for each step a lone edit may be at how copies and rows may differ;
`AdministratorsChangePolicies`, from the same invariant.

*Prices* (any models, families, editors and requests; edits interleave freely). `PriceTypesHold` and `PricesAlwaysApply`, from

    PriceInv == PricesTypeOK /\ HasModel /\ OneReloads /\ OverridesCome /\ CostsCome

`PricesApply` speaks of the time when no edit is under way, so the invariant has to say who
will bring what is still missing. `OneReloads`: the mutex is held from a reload's first query to
its swap, so what has been read is current unless an edit has yet to reload. `OverridesCome`: an override that is not in memory has an
edit of its model that will reload. `CostsCome`: a request or row that an override concerns has its price, or an edit will
give it (`Reprices`), or it is one of those that were charged before the reload and became rows
after the selection, which the property names as missed.

### DashboardProofs: accounts, limiter, log

*Accounts* (any requests and names, any number of ids).
`AccountTypesHold`. `SessionsStaySound`, from two invariants. `Owned`: rows have ids that were given
out, and the account of a session, or of a request that is signing in, has the name that signed in or is
gone; it needs that ids are not used again, and of an admitted request only the steps it may be at (`Prepared`). `Prompt`: whoever has a session, or is about to get one, with a
password from before a reset is met by that reset, which is still signing out. `AnAdministratorRemains`, from
`MInv == NInv /\ Spared`: the property alone is not inductive; what is kept is that some
administrator is `Safe`, no deletion of it having counted more than one.

*Limiter* (any addresses, accounts, limits and finite set of attempts). `LimiterTypesHold`; `LocksHold`, from `LInv`:
while there is no lock the guesses are the failures counted, a lock
that has ended has none, and one that holds has, with the attempts that had passed it, no more than
`GuessesBounded` says (`Counted`). `GuessingStaysLimited` adds the limit of an address, from `AInv`: the
times the limiter keeps are the *last* of those it ever granted, and those it has dropped, in an
admission or in a clean-up, are out of every window to come (`Trails`). Then refusing at `MaxRequests` times kept is refusing
at `MaxRequests` times granted in the window (`Spaced`).

*Log* (any capacities, pages and number of entries). `LogTypesHold`, `EntriesAreKept` and `PagesAreComplete`, from

    LogInv == LogTypeOK /\ OrderedAt(table, batch, queue, next) /\ NothingLost
              /\ ReadSoFar(reader) /\ reader.first <= Len(table)

`OrderedAt`: the table comes before the batch, that before the channel, each of them in order. `NothingLost`: what was there at
`Close` is in one of the three, or among the entries that the database did not take, and once the worker is done in the table or
among these. `ReadSoFar`: rows read count down without a gap from the last that was there when the reader
began, and the cursor is the last row read; as the table only grows at its end, no page can
skip or repeat a row.

### Only model-checked

* Liveness (`CatalogConverges`, `RelaysEnd`, `ServicesSettle`), which is outside TLAPS's reach here, as is ENABLED.
* The properties of the runs that find a violation.

## 6. Where the code differs from its documentation

Each has a run whose counterexample TLC prints.

1. **Two schedule edits at once recount usage** (`schedules_two_admins`). ADR
   0010 promises that no edit recounts usage. An edit takes the old global
   schedule from memory (`global_schedule.go:76`, `:123`, `modelquota.go:245`),
   which another edit replaces only after its commit. Between the two, pins are
   computed against a schedule that is no longer in force.
2. **The confirming sync need not agree** (`sync_agrees`). ADR 0006 says a mass
   removal is applied if the next consecutive sync agrees. The flag is one bit per provider:
   the next short listing confirms it whatever it lacks, and a provider that
   does not answer in between leaves it set.
3. **A rate is used for another currency** (`exchange_rate`). The cost design
   (`docs/superpowers/specs/2026-10-19-usage-diagnostics-cost-summary-design.md:208`) says the automatic rate is in effect
   if its currency matches. The code stores a number without its currency and compares the displayed currency
   with itself (`pricing/manager.go:267`): after a change the rate of the
   currency before is in effect until a refresh succeeds.
4. **A linked group can be deleted** (`linked_group`). README.md:437 promises that it cannot. The check for linked keys
   (`groups.go:275`) and the deletion (`:300`) are two statements without a transaction; a key linked in between
   stays linked to a group that is gone, and so to no models.

Read in the code while modelling, without a run of their own:

* A group edit need not take effect at once. README.md:435 promises that modifying a group's members takes
  effect immediately for all linked keys. Of two overlapping reloads of the group cache (`keys.go:309`), each after an edit or a
  sync, the one that read first may store last; its members are in force until the next reload,
  at most 30 minutes. `OnlyOvertakenIsStale` says that nothing else makes the cache stale.
* An edit that waits long for the database uses a clock read before the wait
  (`global_schedule.go:77`); pins then refer to an instant that is past. `ClockMovesDuringEdit` in
  `ResetSchedules` opens this case.
* Two overlapping global edits may publish in the other order than they
  committed (`global_schedule.go:113`); the cache then differs from the database until
  the next global edit or restart.
* A creation or a lookup stores an entry it read before another edit refreshed
  the cache (`keys.go:620`, `:930`); a key deleted or disabled in between stays
  usable until the next refresh or, when deleted, until a restart. `LoadedEntryCurrent` is limited to entries of
  refreshes for this reason.
* Two overlapping refreshes may leave another version's Model Quotas in an entry
  (`keys.go:435`).
* The idle timer also runs while the handler waits for a slow *client*
  (`proxy.go:29`); "no data received" may then be logged of an upstream that
  did send. And an end of the body that races the timer may be logged as a timeout.
* A usage chunk that is torn cannot be recognised and reaches the client.
* A login that has read its provider before `RemoveProvider` cancels the provider's sessions
  (`oauth.go:53`, `:269`) and registers afterwards may still be consented to; `Save` does not look the provider up
  (`store.go:118`), so an account of a deleted provider is stored. It is not listed at the next start (`store.go:219`).
* The runtime hook marks any login that is committing to the account as connected (`runtime_hook.go:28`), also
  when what it observes is a refresh of the credential before. And an eviction that was delayed may hit
  an account that was connected again in the meantime; the SDK then lacks it until a restart.
* `cancelGrant` drops the entry of the *account* (`store.go:92`), which may be that of
  another login of the same account; that one's save is then refused.
* An answer that is not a stream and breaks off counts zero tokens and is not
  flagged as estimated (ADR 0011).
* ADR 0005:51 speaks of the single request that breaches a quota. Every request that
  passes the gate before the first is counted may overshoot it; what does hold is `OvershootBounded`.
* The revisions design (`docs/superpowers/specs/2026-10-13-upstream-quota-revisions-design.md:29`) aborts when the hop count "exceeds 3"; the code refuses at three
  (`proxy.go:204`).
* A pipeline that fails is logged by its caller, so a body that is not JSON skips all plugins.
* Seeding at start resets a built-in plugin's failure policy to its default, also when an administrator chose another
  (`docs/superpowers/specs/2026-10-06-plugin-system-design.md:387`, `:498`). Of two operators' overlapping updates one may write back a policy
  that an administrator has replaced in between.
* `providers.go:418` says "there is always at least one default provider"; deleting or
  switching off the last active one leaves none, or one that is not active.
* Deleting a provider deletes the models under its prefix, also those of another provider
  with the same prefix. `UpdateProvider`'s endpoint keeps an API key it read before the lock.
* A sync that fetched before a provider was deleted writes its models back (`models.go:296-300`), and
  `SetModelEnabled` of an unknown model files it under the text before its slash, a provider or not (`:119-128`); such rows are there until the
  next sync sweeps them (`:259-268`). `OrphansHaveACause` names these ways.
* A quota call that fails alone, since its reader has gone (`handler/upstream_quota.go:45`), stores the buckets of
  before as valid and, when forced, starts the cooldown for everybody (`upstream/client.go:159-180`).
* An upstream answer without buckets leaves the last buckets in the cache; an outage with cached
  buckets raises no alert; a slow older answer overwrites a newer one until the next sync.
* `alert.go:9-10`: an error on the cold start is remembered, and a later good answer
  that takes the path for connections does not clear it (`:47-80`).
* A log query with a limit above 500 is cut to 500 rows, but the handler compares
  with the limit it was asked for: no cursor is returned and exports end there. Traffic logs page the same way. Nothing
  purges `system_logs`.
* A bare model whose id equals its family may get the override of a prefixed model.
  An empty price list from upstream empties `model_prices` until a restart. Refreshing the list does not price rows again.
* A manual exchange rate survives a change of currency; one that is not positive stops
  the automatic rate as well. A currency the service does not know never gets a rate.
* Pruning a group drops a model that came back between the read and the write (`groups.go:99`).
* Two first starts at once may each create an administrator (`auth.go:95`). Changing the password or recovery question by their endpoints
  leaves one more session. Sessions of deleted accounts stay as rows, since SQLite's foreign keys are not switched on; nothing
  finds them.

## 7. Abstractions and what is not modelled

* One database connection: a transaction, or a query together with what is done
  while its rows are open (`loadLocalCache`'s rows and their store), is one
  step. `Mark`'s query and updates are one step, and so are the two availability
  reads of "Remove unavailable", since what others do in between has
  the same effect before or after. Errors of database reads are left out.
* `ModelCatalog`: the enabled flag, which is independent of removal, and name
  aliases (bare names, wildcards) are left out; that switching an unknown model
  registers it is not. Groups are sets of models.
* `KeyRegistry`: schedule columns are in `ResetSchedules`, the group cache in
  `ModelCatalog`; last-used times and listings are left out.
* `QuotaGate`: which rejection ends a request after the gate is one action,
  `LeaveUncounted`. A Quota Window resets at any time here; when it does is `ResetSchedules`.
* `StreamRelay`: the chat format. The separate input and output counts of the
  messages format, the de-cloaking of tool names and the rewriting of a removed
  model's 404 are left out. Requests share none of its state, so one is modelled.
  The timer expires only while the handler waits for somebody (an idle period is
  long beside any local step).
* `OAuthGrants`: family checks, disabling, status labels and model publication are left out, as are the stamps by
  which `Save` orders refreshes of one login: a refresh changes which login is stored in no
  case. Expiries are events that may come at any time, the session's before the grant's, as their durations say. A
  session that was removed from the map stays as `swept`, which nothing finds.
* `RequestChain`: which answer or refusal ends a request between guard and plugins is one
  action, `AnswerHere`. A plugin does what its kind can do (change, pass, refuse, fail, be
  skipped); what it does to the text is left out.
* `PluginRegistry`: one plugin, as plugins share the reload only. Order, settings and
  warnings of conflicts are left out.
* `ProviderRouting`: prefixes of one segment; routes, keys and icons are left out. What a deletion does to an
  SDK provider's accounts is in `OAuthGrants`. Rows of models with the same head are one row. Random ids are not reused by the code;
  in the model they may be, once nothing is filed under them that a property could tell apart.
* `PriceList`: a request has the same tokens each time, amounts are the prices' names. What an importer reads
  from a price list is its new value.
* `ExchangeRate`: rates are not numbers but the currency they were fetched for, which is all the property asks.
* `UpstreamQuota`: one provider, since providers share nothing but the loop. The age of an entry and the
  thirty seconds of the cooldown are abstract. How foreign quota formats are parsed is left out; what the readers can
  return is the set `Answers`.
* `SyncInterval`: intervals are values; the timer fires at any time.
* `AdminAccounts`: a hash is compared with what was read before it, and is no step of its own; the expiry of a session
  is a refusal that may come at any time. Errors of single statements are left out: `DeleteUser` ignores a failed read of
  the role (`auth.go:336`) and would delete the last administrator then. Display names are left out; `UpdateUser` has no endpoint.
* `LoginLimiter`: time is counted in instants up to a horizon, the window and the lock in a few of them.
* `GroupReloads`: errors of the reload's queries, after which the code keeps the cache as it is, are left out.
* `LogQueue`: filters and formatting are left out; an entry is its number.

Not modelled at all, with the reason:

* Presentation: terminal UI, tray icon, log hub, web assets. No decision is taken there.
* Reports, listings, the preview of a schedule edit (`PreviewReset`) and of routing, the purge of
  old payloads: SQL that reads, or deletes what nothing else reads.
* Chat commands and diagnostics: text and the classification of error bodies. That a command is answered without an upstream is in `RequestChain`.
* Built-in plugins: rewriting of one request's text; their outcomes are `RequestChain`'s.
* The upstream target and its key, and whether keys may see costs: settings rows that nothing here depends on.
* Encryption primitives, configuration, time zone names, version, migrations: conversions and a schema.
* The HTTP layer: decoding and encoding around the managers. Handlers that read, decide or call
  more than one manager belong to the modules above.

`PROJECT.json` says the same per component.

## 8. The plan

Done, in this order, the most important behaviour first: windows and schedules,
the gate, the catalog, the key registry, the relay, provider logins; then the
request path with the plugin registry, providers, prices and exchange rate,
upstream quotas with their interval, accounts with the login limiter, the system log;
then the proofs: those of the core beside its models, later those of every other safety property that a run checks (section 5).

Left, in this order:

1. The rest of the request path as a composition: the order of `AnswerHere`'s rejections with `QuotaGate` and
   `KeyRegistry`'s lookup. Each is modelled alone; what joins them is that a request reads a key once.
2. `PreviewReset` beside `ResetSchedules`: what the preview says is what the edit does.
3. The messages format of `StreamRelay`, with its two counts.
