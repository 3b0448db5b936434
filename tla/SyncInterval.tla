---------------------------- MODULE SyncInterval ----------------------------
(***************************************************************************)
(* The interval at which provider quotas are refreshed: the loop           *)
(* RunUpstreamQuotaSync, and the requests that save the setting            *)
(* (internal/handler/upstream_quota.go). What a refresh does is in         *)
(* UpstreamQuota.                                                          *)
(***************************************************************************)
CONSTANTS
  Savers,        \* requests that save the interval
  Intervals      \* AllowedSyncIntervals

ASSUME IntervalAssumption == Intervals \cap {"idle", "wake"} = {}

VARIABLES
  stored,                \* the setting
  loop,                  \* what it is doing
  interval, ttl,         \* the timer's interval, and the one the TTL is made for
  wake,                  \* the channel syncReset holds a wake-up
  save                   \* what each saver is doing: nothing, or what is to be applied

intervalVars == <<stored, loop, interval, ttl, wake, save>>

(* The cache has been warmed up after a start.                             *)
IntervalInit ==
  /\ stored \in Intervals /\ interval = stored /\ ttl = stored
  /\ loop = "reading" /\ wake = FALSE
  /\ save = [s \in Savers |-> "idle"]

(* One round: currentSyncInterval, then applySyncInterval and the wait for *)
(* the timer or a wake-up.                                                 *)
ReadInterval ==
  /\ loop = "reading"
  /\ loop' = "applying" /\ interval' = stored
  /\ UNCHANGED <<stored, ttl, wake, save>>

StartWait ==
  /\ loop = "applying"
  /\ loop' = "waiting" /\ ttl' = interval
  /\ UNCHANGED <<stored, interval, wake, save>>

WokenUp ==
  /\ loop = "waiting" /\ wake
  /\ loop' = "reading" /\ wake' = FALSE
  /\ UNCHANGED <<stored, interval, ttl, save>>

TimerFires ==
  /\ loop = "waiting"
  /\ loop' = "syncing"
  /\ UNCHANGED <<stored, interval, ttl, wake, save>>

SyncEnds ==
  /\ loop = "syncing"
  /\ loop' = "reading"
  /\ UNCHANGED <<stored, interval, ttl, wake, save>>

(* SetUpstreamSyncSettings stores, applies, and wakes the loop up: a       *)
(* buffer of one keeps the wake-up for a loop that is not waiting.         *)
SaveInterval(s, i) ==
  /\ save[s] = "idle"
  /\ stored' = i /\ save' = [save EXCEPT ![s] = i]
  /\ UNCHANGED <<loop, interval, ttl, wake>>

ApplyInterval(s) ==
  /\ save[s] \in Intervals
  /\ ttl' = save[s] /\ save' = [save EXCEPT ![s] = "wake"]
  /\ UNCHANGED <<stored, loop, interval, wake>>

(* Mutant: the channel has no buffer.                                      *)
WakeIfWaiting(s) ==
  /\ save[s] = "wake"
  /\ wake' = (wake \/ loop = "waiting") /\ save' = [save EXCEPT ![s] = "idle"]
  /\ UNCHANGED <<stored, loop, interval, ttl>>

Wake(s) ==
  /\ save[s] = "wake"
  /\ wake' = TRUE /\ save' = [save EXCEPT ![s] = "idle"]
  /\ UNCHANGED <<stored, loop, interval, ttl>>

IntervalNext ==
  \/ ReadInterval \/ StartWait \/ WokenUp \/ TimerFires \/ SyncEnds
  \/ \E s \in Savers : ApplyInterval(s) \/ Wake(s) \/ \E i \in Intervals : SaveInterval(s, i)

IntervalSpec == IntervalInit /\ [][IntervalNext]_intervalVars

-----------------------------------------------------------------------------
IntervalTypeOK ==
  /\ stored \in Intervals /\ interval \in Intervals /\ ttl \in Intervals
  /\ loop \in {"reading", "applying", "waiting", "syncing"} /\ wake \in BOOLEAN
  /\ save \in [Savers -> Intervals \cup {"idle", "wake"}]

(* "Saving a new interval restarts the wait without a restart": when no    *)
(* save is under way, a loop that waits has a wake-up to come, or waits    *)
(* and caches as the setting says, whoever saved last.                     *)
WaitsAsStored ==
  loop = "waiting" /\ ~ wake /\ (\A s \in Savers : save[s] = "idle") =>
    interval = stored /\ ttl = stored
=============================================================================
