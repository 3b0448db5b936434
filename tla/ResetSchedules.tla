--------------------------- MODULE ResetSchedules ---------------------------
(***************************************************************************)
(* Editing Quota Reset Schedules while keys are being enforced (ADR 0010). *)
(*                                                                         *)
(* The truth is in the database: the Global Reset Schedule in settings,    *)
(* and per key its own schedule and its pins. Enforcement reads the        *)
(* in-memory cache of internal/keys. An edit by an administrator is a      *)
(* sequence of steps: it reads the cached global schedule and the clock,   *)
(* runs one transaction (the database has a single connection, so a        *)
(* transaction is one step), then refreshes memory. Administrators'        *)
(* requests are served concurrently, so the steps of two edits interleave. *)
(***************************************************************************)
EXTENDS QuotaWindows

CONSTANTS
  Keys,
  Admins,
  ClockMovesDuringEdit   \* FALSE: an edit is over before the next instant

VARIABLES
  now,
  dbGlobal, dbOwn, dbPins,   \* settings row, api_keys columns
  memGlobal, cache,          \* Manager.globalSched, Manager.cache
  edit                       \* what each administrator's request is doing

db   == <<dbGlobal, dbOwn, dbPins>>
mem  == <<memGlobal, cache>>
vars == <<now, db, mem, edit>>

EditSteps == {"idle", "setGlobal", "clear", "publish", "load"}

Idle == [step |-> "idle", schedule |-> Unset, global |-> Unset, at |-> 0]

StoredRule(k) == Rule(EffectiveSchedule(dbOwn[k], dbGlobal), dbPins[k])

(* applyResetSchedule: database columns under the cached global schedule.  *)
LoadedRule(k, global) == Rule(EffectiveSchedule(dbOwn[k], global), dbPins[k])

(* The window a request of key k is measured in, and the one it would be   *)
(* measured in after a restart.                                            *)
Enforced(k, p) == CalcQuotaWindow(p, cache[k], now)
Stored(k, p) == CalcQuotaWindow(p, StoredRule(k), now)

-----------------------------------------------------------------------------
(* NewManager on a database whose keys have not been edited yet.           *)
Init ==
  /\ now \in Instants
  /\ dbGlobal = Unset
  /\ dbOwn \in [Keys -> AnySchedule]
  /\ dbPins = [k \in Keys |-> NoPins]
  /\ memGlobal = dbGlobal
  /\ cache = [k \in Keys |-> Rule(EffectiveSchedule(dbOwn[k], dbGlobal), NoPins)]
  /\ edit = [a \in Admins |-> Idle]

(* SetGlobalSchedule and ClearScheduleOverrides read the cached global     *)
(* schedule and the clock before they open their transaction.              *)
SetGlobalBegin(a, s) ==
  /\ edit[a].step = "idle"
  /\ edit' = [edit EXCEPT ![a] =
                [step |-> "setGlobal", schedule |-> s, global |-> memGlobal, at |-> now]]
  /\ UNCHANGED <<now, db, mem>>

(* Mutant: no pins are written.                                            *)
SetGlobalTxUnpinned(a) ==
  /\ edit[a].step = "setGlobal"
  /\ dbGlobal' = edit[a].schedule
  /\ edit' = [edit EXCEPT ![a].step = "publish"]
  /\ UNCHANGED <<now, dbOwn, dbPins, mem>>

SetGlobalTx(a) ==
  /\ edit[a].step = "setGlobal"
  /\ dbGlobal' = edit[a].schedule
  /\ dbPins' = [k \in Keys |->
                  IF dbOwn[k] # Unset THEN dbPins[k]
                  ELSE PinsAfterChange(Rule(edit[a].global, dbPins[k]),
                                       edit[a].schedule, edit[a].at)]
  /\ edit' = [edit EXCEPT ![a].step = "publish"]
  /\ UNCHANGED <<now, dbOwn, mem>>

PublishGlobal(a) ==
  /\ edit[a].step = "publish"
  /\ memGlobal' = edit[a].schedule
  /\ edit' = [edit EXCEPT ![a].step = "load"]
  /\ UNCHANGED <<now, db, cache>>

ClearBegin(a) ==
  /\ edit[a].step = "idle"
  /\ edit' = [edit EXCEPT ![a] =
                [step |-> "clear", schedule |-> Unset, global |-> memGlobal, at |-> now]]
  /\ UNCHANGED <<now, db, mem>>

ClearTx(a) ==
  /\ edit[a].step = "clear"
  /\ dbOwn' = [k \in Keys |-> Unset]
  /\ dbPins' = [k \in Keys |->
                  IF dbOwn[k] = Unset THEN dbPins[k]
                  ELSE PinsAfterChange(Rule(dbOwn[k], dbPins[k]), edit[a].global, edit[a].at)]
  /\ edit' = [edit EXCEPT ![a].step = "load"]
  /\ UNCHANGED <<now, dbGlobal, mem>>

(* UpdateKeyAll with a schedule change: it reads the stored schedule, the  *)
(* cached global one and the clock inside its transaction. own = Unset is  *)
(* ScheduleChange.Clear.                                                   *)
UpdateKeyTx(a, k, own) ==
  /\ edit[a].step = "idle"
  /\ dbOwn' = [dbOwn EXCEPT ![k] = own]
  /\ dbPins' = [dbPins EXCEPT ![k] =
                  PinsAfterChange(LoadedRule(k, memGlobal),
                                  EffectiveSchedule(own, memGlobal), now)]
  /\ edit' = [edit EXCEPT ![a].step = "load"]
  /\ UNCHANGED <<now, dbGlobal, mem>>

(* Any other edit of a key (ToggleKey, UpdateKey, UpdateKeyQuota) leaves   *)
(* the schedule columns alone and refreshes the cache.                     *)
OtherEdit(a) ==
  /\ edit[a].step = "idle"
  /\ edit' = [edit EXCEPT ![a].step = "load"]
  /\ UNCHANGED <<now, db, mem>>

(* Mutant: keys that follow the global schedule are not refreshed.         *)
LoadOwnSchedulesOnly(a) ==
  /\ edit[a].step = "load"
  /\ cache' = [k \in Keys |->
                 IF dbOwn[k] = Unset THEN cache[k] ELSE LoadedRule(k, memGlobal)]
  /\ edit' = [edit EXCEPT ![a] = Idle]
  /\ UNCHANGED <<now, db, memGlobal>>

(* loadLocalCache: rows are read and stored under the cache lock.          *)
LoadLocalCache(a) ==
  /\ edit[a].step = "load"
  /\ cache' = [k \in Keys |-> LoadedRule(k, memGlobal)]
  /\ edit' = [edit EXCEPT ![a] = Idle]
  /\ UNCHANGED <<now, db, memGlobal>>

(* The process dies at any point and NewManager reads everything again.    *)
Restart ==
  /\ memGlobal' = dbGlobal
  /\ cache' = [k \in Keys |-> StoredRule(k)]
  /\ edit' = [a \in Admins |-> Idle]
  /\ UNCHANGED <<now, db>>

Tick ==
  /\ now + 1 \in Instants
  /\ ClockMovesDuringEdit \/ \A a \in Admins : edit[a].step = "idle"
  /\ now' = now + 1
  /\ UNCHANGED <<db, mem, edit>>

AdminStep(a) ==
  \/ \E s \in AnySchedule : SetGlobalBegin(a, s)
  \/ SetGlobalTx(a) \/ PublishGlobal(a)
  \/ ClearBegin(a) \/ ClearTx(a)
  \/ \E k \in Keys, own \in AnySchedule : UpdateKeyTx(a, k, own)
  \/ OtherEdit(a) \/ LoadLocalCache(a)

Next == Tick \/ Restart \/ \E a \in Admins : AdminStep(a)

Spec == Init /\ [][Next]_vars

-----------------------------------------------------------------------------
EditSet ==
  [step : EditSteps, schedule : AnySchedule, global : AnySchedule, at : Int]

TypeOK ==
  /\ now \in Instants
  /\ dbGlobal \in AnySchedule
  /\ dbOwn \in [Keys -> AnySchedule]
  /\ dbPins \in [Keys -> [Periods -> WindowSet]]
  /\ memGlobal \in AnySchedule
  /\ cache \in [Keys -> RuleSet]
  /\ edit \in [Admins -> EditSet]
  /\ \A a \in Admins : edit[a].step \in {"setGlobal", "clear"} => edit[a].at \in Instants

(* ADR 0010 #5: no step of an edit, no cache refresh and no restart moves  *)
(* the start of the window a key is measured in, in the cache or in the    *)
(* database, so no usage is counted again or forgotten because of it. Only *)
(* the clock ends a window.                                                *)
UsageKept ==
  [][ now' = now =>
        \A k \in Keys, p \in Periods :
          /\ Enforced(k, p)'.start = Enforced(k, p).start
          /\ Stored(k, p)'.start = Stored(k, p).start ]_vars

(* The part of UsageKept that lasts: what a transaction writes does not    *)
(* move the start of the window the database prescribes.                   *)
StoredUsageKept ==
  [][ now' = now =>
        \A k \in Keys, p \in Periods : Stored(k, p)'.start = Stored(k, p).start ]_vars

(* ADR 0010 #6: enforced windows leave no gap and do not overlap. When the *)
(* clock moves on, the same window goes on or the next one starts exactly  *)
(* at the reset the last one announced.                                    *)
WindowsTile ==
  [][ now' # now =>
        \A k \in Keys, p \in Periods :
          \/ Enforced(k, p)'.start = Enforced(k, p).start
          \/ /\ Enforced(k, p)'.start = Enforced(k, p).until
             /\ now' = Enforced(k, p).until ]_vars

(* A Transitional Window that is in force ends at the first reset of the   *)
(* schedule now in effect for the key, in the database and in the cache.   *)
PinsEndOnSchedule ==
  \A k \in Keys : EndsOnSchedule(StoredRule(k), now) /\ EndsOnSchedule(cache[k], now)

(* When no edit is under way the cache enforces what the database holds,   *)
(* so a restart changes nothing.                                           *)
CacheCoherent ==
  (\A a \in Admins : edit[a].step = "idle") =>
    /\ memGlobal = dbGlobal
    /\ \A k \in Keys : cache[k] = StoredRule(k)
=============================================================================
