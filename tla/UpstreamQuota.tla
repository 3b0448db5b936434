---------------------------- MODULE UpstreamQuota ----------------------------
(***************************************************************************)
(* What a provider says of its own quotas: the cache of the answers        *)
(* (internal/upstream), and the refreshes of the loop in                   *)
(* internal/handler/upstream_quota.go with the alerts they raise. At what  *)
(* interval the loop refreshes is in SyncInterval.                         *)
(*                                                                         *)
(* Nothing is locked while a provider is asked, so answers come in any     *)
(* order. Time is abstract: entries expire, the cooldown of forced         *)
(* refreshes ends and the timer fires at any moment.                       *)
(***************************************************************************)
EXTENDS Naturals

CONSTANTS
  Readers,       \* requests that show quotas
  MaxChanges     \* bound: how often a provider's quotas change

ASSUME QuotaAssumption == MaxChanges \in Nat

(* Buckets with or without a warning; no buckets; no answer.               *)
Answers == {"fine", "low", "empty", "down"}

VARIABLES
  upstream, changes,     \* what the provider would say now
  cache,                 \* Manager.cache: buckets, status, and whether it is valid
  cooling,               \* lastForce is less than forceCooldown ago
  fetch,                 \* GetProviderQuotas of the loop and the readers
  warned, inError,       \* QuotaAlerter: of the buckets, of the provider
  observed               \* history: the status the loop has seen last

cacheVars == <<cache, cooling, fetch>>
alertVars == <<warned, inError, observed>>
quotaVars == <<upstream, changes, cacheVars, alertVars>>

Fetchers == Readers \cup {"loop"}
Buckets  == {"fine", "low", "none"}
Nothing  == [buckets |-> "none", status |-> "none", valid |-> FALSE]
NoFetch  == [step |-> "idle", force |-> FALSE, had |-> "none", answer |-> "empty"]

QuotaInit ==
  /\ upstream \in Answers /\ changes = 0
  /\ cache = Nothing /\ cooling = FALSE
  /\ fetch = [f \in Fetchers |-> NoFetch]
  /\ warned = FALSE /\ inError = FALSE /\ observed = "none"

UpstreamChanges ==
  /\ changes < MaxChanges
  /\ \E u \in Answers \ {upstream} : upstream' = u
  /\ changes' = changes + 1
  /\ UNCHANGED <<cacheVars, alertVars>>

Expires ==
  /\ cache.valid
  /\ cache' = [cache EXCEPT !.valid = FALSE]
  /\ UNCHANGED <<upstream, changes, cooling, fetch, alertVars>>

CooldownEnds ==
  /\ cooling
  /\ cooling' = FALSE
  /\ UNCHANGED <<upstream, changes, cache, fetch, alertVars>>

-----------------------------------------------------------------------------
(* Mutant: a warning is never taken back.                                  *)
ObserveOnce(r) ==
  /\ warned' = (r.buckets = "low" \/ warned)
  /\ inError' = IF r.buckets = "none" THEN r.status = "error" ELSE inError
  /\ observed' = r.status

(* QuotaAlerter.Observe. With connections it looks at these alone: their   *)
(* buckets warn and recover, and the error of the provider as a whole      *)
(* stays what it was.                                                      *)
Observe(r) ==
  /\ warned' = IF r.buckets = "none" THEN warned ELSE r.buckets = "low"
  /\ inError' = IF r.buckets = "none" THEN r.status = "error" ELSE inError
  /\ observed' = r.status

(* Only the loop observes what it gets.                                    *)
Returned(f, r) == IF f = "loop" THEN Observe(r) ELSE UNCHANGED alertVars

(* A valid entry serves a reader; a forced refresh too, during the         *)
(* cooldown.                                                               *)
ServedFromCache(f, force) ==
  /\ fetch[f].step = "idle"
  /\ cache.valid /\ (force => cooling)
  /\ Returned(f, cache)
  /\ UNCHANGED <<upstream, changes, cacheVars>>

(* What the cache holds is kept in mind while the provider is asked.       *)
Ask(f, force) ==
  /\ fetch[f].step = "idle"
  /\ ~ (cache.valid /\ (force => cooling))
  /\ fetch' = [fetch EXCEPT ![f] =
       [step |-> "asked", force |-> force, had |-> cache.buckets, answer |-> "empty"]]
  /\ UNCHANGED <<upstream, changes, cache, cooling, alertVars>>

Answered(f) ==
  /\ fetch[f].step = "asked"
  /\ fetch' = [fetch EXCEPT ![f].step = "answered", ![f].answer = upstream]
  /\ UNCHANGED <<upstream, changes, cache, cooling, alertVars>>

(* A call may fail by itself: the reader has gone (r.Context()), or the    *)
(* client gave up waiting.                                                 *)
CallFails(f) ==
  /\ fetch[f].step = "asked"
  /\ fetch' = [fetch EXCEPT ![f].step = "answered", ![f].answer = "down"]
  /\ UNCHANGED <<upstream, changes, cache, cooling, alertVars>>

(* Mutant: buckets once known are never given up.                          *)
KeepKnown(had, a) ==
  IF had # "none" THEN [buckets |-> had, status |-> "degraded", valid |-> TRUE]
  ELSE [buckets |-> IF a \in Buckets THEN a ELSE "none",
        status |-> IF a = "down" THEN "error" ELSE "ok", valid |-> TRUE]

(* Stale on error: without buckets in the answer those of before are kept. *)
Entry(had, a) ==
  IF a \notin Buckets /\ had # "none"
  THEN [buckets |-> had, status |-> "degraded", valid |-> TRUE]
  ELSE [buckets |-> IF a \in Buckets THEN a ELSE "none",
        status |-> IF a = "down" THEN "error" ELSE "ok", valid |-> TRUE]

Store(f) ==
  /\ fetch[f].step = "answered"
  /\ LET e == Entry(fetch[f].had, fetch[f].answer)
     IN  cache' = e /\ Returned(f, e)
  /\ cooling' = (cooling \/ fetch[f].force)
  /\ fetch' = [fetch EXCEPT ![f] = NoFetch]
  /\ UNCHANGED <<upstream, changes>>

(* ConsumeReset at the provider, then InvalidateCache.                     *)
ConsumeReset ==
  /\ changes < MaxChanges /\ changes' = changes + 1
  /\ upstream' \in {upstream, "fine"}
  /\ cache' = Nothing
  /\ UNCHANGED <<cooling, fetch, alertVars>>

-----------------------------------------------------------------------------
(* The first round warms the cache up; later ones force a refresh.         *)
Forces(f) == IF f = "loop" THEN {observed # "none"} ELSE BOOLEAN

Goes(f) ==
  \/ \E force \in Forces(f) : ServedFromCache(f, force) \/ Ask(f, force)
  \/ Answered(f) \/ CallFails(f) \/ Store(f)

QuotaNext ==
  \/ UpstreamChanges \/ Expires \/ CooldownEnds \/ ConsumeReset
  \/ \E f \in Fetchers : Goes(f)

(* The loop never ends, and asks again and again until it is answered; a   *)
(* call ends, by an answer or without; thirty seconds pass.                *)
QuotaFairness ==
  /\ WF_quotaVars(Goes("loop")) /\ SF_quotaVars(Answered("loop")) /\ WF_quotaVars(CooldownEnds)
  /\ \A f \in Readers : WF_quotaVars(Answered(f) \/ CallFails(f) \/ Store(f))

QuotaSpec == QuotaInit /\ [][QuotaNext]_quotaVars /\ QuotaFairness

-----------------------------------------------------------------------------
QuotaTypeOK ==
  /\ upstream \in Answers /\ changes \in 0 .. MaxChanges
  /\ cache \in [buckets : Buckets, status : {"none", "ok", "degraded", "error"}, valid : BOOLEAN]
  /\ cooling \in BOOLEAN /\ warned \in BOOLEAN /\ inError \in BOOLEAN
  /\ observed \in {"none", "ok", "degraded", "error"}
  /\ fetch \in [Fetchers -> [step : {"idle", "asked", "answered"}, force : BOOLEAN,
                             had : Buckets, answer : Answers]]

(* When a provider's quotas no longer change, and no call of a reader      *)
(* fails any more, the cache and the alerts agree with them in the end,    *)
(* however late the answers to earlier questions come, however often       *)
(* readers force a refresh and whichever calls of the loop fail. A reader  *)
(* whose forced calls fail for ever keeps the old buckets valid and the    *)
(* cooldown running, and the loop is served from them.                     *)
CatchesUp ==
  upstream \in Buckets => cache.buckets = upstream /\ warned = (upstream = "low")

CacheCatchesUp == <>[][~ \E f \in Readers : CallFails(f)]_quotaVars => <>[]CatchesUp

=============================================================================
