---------------------------- MODULE ModelCatalog ----------------------------
(***************************************************************************)
(* Models, Model Groups and what a key may use (internal/models and the    *)
(* group cache of internal/keys; ADR 0006).                                *)
(*                                                                         *)
(* A sync fetches the listings of the providers and reconciles the models  *)
(* table with them; an administrator edits groups and models. Both end by  *)
(* reloading the group cache, from which access is decided. The background *)
(* sync and the requests of administrators run concurrently, and every SQL *)
(* statement is a step of its own: nothing here is in a transaction.       *)
(***************************************************************************)
EXTENDS Naturals, FiniteSets

CONSTANTS
  Providers, Models,
  ProviderOf,    \* [Models -> Providers], the provider a Model ID belongs to
  Groups, Keys,
  MemberSets,    \* bound: what administrators put into a group
  NoGroup,       \* a group ID without a row
  Actors,        \* the background loop and the requests being served
  Background     \* the one of them that syncs every 30 minutes

ASSUME ProviderAssumption == ProviderOf \in [Models -> Providers] /\ IsFiniteSet(Models)
ASSUME ActorAssumption == Background \in Actors
ASSUME GroupAssumption ==
  /\ \A S \in MemberSets : NoGroup # S /\ S \subseteq Models
  /\ \A S \in MemberSets : SUBSET S \subseteq MemberSets   \* entries may be removed

VARIABLES
  catalog,                \* the models the providers really have
  configured,             \* rows of providers
  rows,                   \* models table: absent, present, or removed_at set
  pending,                \* Manager.pendingRemoval
  groups, links,          \* model_groups, api_keys.model_group_ids
  memGroups, memRemoved,  \* keys.Manager.groupCache and avail
  op                      \* what each actor is doing

tables == <<configured, rows, groups, links>>
memory == <<memGroups, memRemoved>>
vars   == <<catalog, tables, pending, memory, op>>

Of(p, S) == {m \in S : ProviderOf[m] = p}
Removed == {m \in Models : rows[m] = "removed"}
Present == {m \in Models : rows[m] = "present"}
Members == {NoGroup} \cup MemberSets

(* listing: what the sync fetched; left: what is left to do of its phase;  *)
(* snap: the groups read for a reload; group, kept: the group under edit.  *)
Idle == [step |-> "idle", listing |-> {}, left |-> {},
         snap |-> [g \in Groups |-> NoGroup], group |-> NoGroup, kept |-> {}]

Goto(a, s) == op' = [op EXCEPT ![a].step = s]

(* keys.IsModelAllowed of a key in group mode: the union of its groups in  *)
(* the cache, without Removed Models.                                      *)
Allowed(k) ==
  UNION {memGroups[g] : g \in {h \in links[k] : memGroups[h] # NoGroup}} \ memRemoved

-----------------------------------------------------------------------------
Init ==
  /\ catalog \in SUBSET Models
  /\ configured = Providers
  /\ rows = [m \in Models |-> IF m \in catalog THEN "present" ELSE "absent"]
  /\ pending = {}
  /\ groups \in [Groups -> Members]
  /\ links = [k \in Keys |-> {}]
  /\ memGroups = groups
  /\ memRemoved = {}
  /\ op = [a \in Actors |-> Idle]

(* A provider adds or drops models.                                        *)
CatalogChanges ==
  /\ catalog' \in SUBSET Models
  /\ UNCHANGED <<tables, pending, memory, op>>

(* A provider goes with its models, in one transaction. A sync that has    *)
(* fetched them already registers them again.                              *)
ProviderDeleted(p) ==
  /\ configured' = configured \ {p}
  /\ rows' = [m \in Models |-> IF ProviderOf[m] = p THEN "absent" ELSE rows[m]]
  /\ UNCHANGED <<catalog, groups, links, pending, memory, op>>

-----------------------------------------------------------------------------
(* SyncFromProviders.                                                      *)

Listed == {m \in catalog : ProviderOf[m] \in configured}

(* AggregateModels: every provider answers with all of its models, with    *)
(* some of them, or (an error, an empty list) not at all.                  *)
Fetch(a, listing) ==
  /\ op[a].step = "idle"
  /\ op' = [op EXCEPT ![a].step = "orphans", ![a].listing = listing]
  /\ UNCHANGED <<catalog, tables, pending, memory>>

Truncated(p, listing) == Of(p, listing) \notin {{}, Of(p, Listed)}

FetchWhole(a) == Fetch(a, Listed)
FetchPart(a) == \E L \in SUBSET Listed :
  Fetch(a, L) /\ \A p \in Providers : ~ Truncated(p, L)
FetchTruncated(a) == \E L \in SUBSET Listed :
  Fetch(a, L) /\ \E p \in Providers : Truncated(p, L)

(* Models of a provider that no longer exists are deleted.                 *)
DeleteOrphans(a) ==
  /\ op[a].step = "orphans"
  /\ rows' = [m \in Models |-> IF ProviderOf[m] \in configured THEN rows[m] ELSE "absent"]
  /\ op' = [op EXCEPT ![a].step = "register", ![a].left = op[a].listing]
  /\ UNCHANGED <<catalog, configured, groups, links, pending, memory>>

(* One upsert per listed model; it clears removed_at.                      *)
Register(a, m) ==
  /\ op[a].step = "register" /\ m \in op[a].left
  /\ rows' = [rows EXCEPT ![m] = "present"]
  /\ op' = [op EXCEPT ![a].left = @ \ {m}]
  /\ UNCHANGED <<catalog, configured, groups, links, pending, memory>>

(* m.mu is taken for the whole third phase.                                *)
LockPending(a) ==
  /\ op[a].step = "register" /\ op[a].left = {}
  /\ \A b \in Actors : op[b].step # "mark"
  /\ op' = [op EXCEPT ![a].step = "mark", ![a].left = {ProviderOf[m] : m \in op[a].listing}]
  /\ UNCHANGED <<catalog, tables, pending, memory>>

Missing(a, p) == Of(p, Present) \ op[a].listing

MassRemoval(a, p) == 2 * Cardinality(Missing(a, p)) > Cardinality(Of(p, Present))

(* Mutant: no mass-removal guard.                                          *)
MarkAtOnce(a, p) ==
  /\ op[a].step = "mark" /\ p \in op[a].left
  /\ op' = [op EXCEPT ![a].left = @ \ {p}]
  /\ rows' = [m \in Models |-> IF m \in Missing(a, p) THEN "removed" ELSE rows[m]]
  /\ UNCHANGED <<catalog, configured, groups, links, pending, memory>>

(* Mutant: a held removal is never confirmed.                              *)
HoldForever(a, p) ==
  /\ op[a].step = "mark" /\ p \in op[a].left
  /\ op' = [op EXCEPT ![a].left = @ \ {p}]
  /\ IF MassRemoval(a, p)
     THEN pending' = pending \cup {p} /\ UNCHANGED rows
     ELSE /\ pending' = pending \ {p}
          /\ rows' = [m \in Models |-> IF m \in Missing(a, p) THEN "removed" ELSE rows[m]]
  /\ UNCHANGED <<catalog, configured, groups, links, memory>>

(* Models a provider no longer lists are marked, unless they are more than *)
(* half of its models and the sync before did not hold them back already.  *)
(* The query and the updates are one step: what other actors do between    *)
(* them has the same effect before or after.                               *)
Mark(a, p) ==
  /\ op[a].step = "mark" /\ p \in op[a].left
  /\ op' = [op EXCEPT ![a].left = @ \ {p}]
  /\ IF MassRemoval(a, p) /\ p \notin pending
     THEN pending' = pending \cup {p} /\ UNCHANGED rows
     ELSE /\ pending' = pending \ {p}
          /\ rows' = [m \in Models |-> IF m \in Missing(a, p) THEN "removed" ELSE rows[m]]
  /\ UNCHANGED <<catalog, configured, groups, links, memory>>

(* The hook set by SetOnSynced, ReloadGroupCache, runs after every sync.   *)
EndSync(a) ==
  /\ op[a].step = "mark" /\ op[a].left = {}
  /\ op' = [op EXCEPT ![a].step = "reload", ![a].listing = {}]
  /\ UNCHANGED <<catalog, tables, pending, memory>>

-----------------------------------------------------------------------------
(* ReloadGroupCache: two queries, then both results are put in place.      *)

ReadGroups(a) ==
  /\ op[a].step = "reload"
  /\ op' = [op EXCEPT ![a].step = "avail", ![a].snap = groups]
  /\ UNCHANGED <<catalog, tables, pending, memory>>

LoadAvailability(a) ==
  /\ op[a].step = "avail"
  /\ op' = [op EXCEPT ![a].step = "swap", ![a].kept = Removed]
  /\ UNCHANGED <<catalog, tables, pending, memory>>

SwapCache(a) ==
  /\ op[a].step = "swap"
  /\ memGroups' = op[a].snap
  /\ memRemoved' = op[a].kept
  /\ op' = [op EXCEPT ![a] = Idle]
  /\ UNCHANGED <<catalog, tables, pending>>

-----------------------------------------------------------------------------
(* Requests of administrators.                                             *)

(* Mutant: the group cache is not reloaded.                                *)
SetGroupWithoutReload(a, g, S) ==
  /\ op[a].step = "idle"
  /\ groups' = [groups EXCEPT ![g] = S]
  /\ UNCHANGED <<catalog, configured, rows, links, pending, memory, op>>

(* CreateGroup and UpdateGroup.                                            *)
SetGroup(a, g, S) ==
  /\ op[a].step = "idle"
  /\ groups' = [groups EXCEPT ![g] = S]
  /\ Goto(a, "reload")
  /\ UNCHANGED <<catalog, configured, rows, links, pending, memory>>

(* Mutant: the group checked is not the group deleted.                     *)
CheckLosesGroup(a, g) ==
  /\ op[a].step = "idle"
  /\ \A k \in Keys : g \notin links[k]
  /\ op' = [op EXCEPT ![a].step = "delete"]
  /\ UNCHANGED <<catalog, tables, pending, memory>>

(* DeleteGroup looks for linked keys first and deletes afterwards.         *)
CheckUnlinked(a, g) ==
  /\ op[a].step = "idle"
  /\ \A k \in Keys : g \notin links[k]
  /\ op' = [op EXCEPT ![a].step = "delete", ![a].group = g]
  /\ UNCHANGED <<catalog, tables, pending, memory>>

DeleteGroup(a) ==
  /\ op[a].step = "delete"
  /\ groups' = [groups EXCEPT ![op[a].group] = NoGroup]
  /\ op' = [op EXCEPT ![a] = IF groups[@.group] = NoGroup   \* "model group not found"
                             THEN Idle ELSE [Idle EXCEPT !.step = "reload"]]
  /\ UNCHANGED <<catalog, configured, rows, links, pending, memory>>

(* RemoveUnavailableEntries reads the group, then the availability of its  *)
(* entries, and writes the entries it keeps.                               *)
PruneRead(a, g) ==
  /\ op[a].step = "idle" /\ groups[g] # NoGroup
  /\ op' = [op EXCEPT ![a].step = "filter", ![a].group = g, ![a].kept = groups[g]]
  /\ UNCHANGED <<catalog, tables, pending, memory>>

PruneFilter(a) ==
  /\ op[a].step = "filter"
  /\ LET left == op[a].kept \ Removed
     IN  op' = IF left = op[a].kept THEN [op EXCEPT ![a] = [Idle EXCEPT !.step = "reload"]]
               ELSE [op EXCEPT ![a].step = "prune", ![a].kept = left]
  /\ UNCHANGED <<catalog, tables, pending, memory>>

PruneWrite(a) ==
  /\ op[a].step = "prune"
  /\ IF groups[op[a].group] = NoGroup
     THEN UNCHANGED groups /\ op' = [op EXCEPT ![a] = Idle]
     ELSE /\ groups' = [groups EXCEPT ![op[a].group] = op[a].kept]
          /\ op' = [op EXCEPT ![a] = [Idle EXCEPT !.step = "reload"]]
  /\ UNCHANGED <<catalog, configured, rows, links, pending, memory>>

(* CreateKey, UpdateKeyAll: a key is given the groups it is limited to.    *)
LinkKey(a, k, G) ==
  /\ op[a].step = "idle"
  /\ links' = [links EXCEPT ![k] = G]
  /\ UNCHANGED <<catalog, configured, rows, groups, pending, memory, op>>

(* SetModelEnabled registers an unknown model and keeps removed_at.        *)
SetModelEnabled(a, m) ==
  /\ op[a].step = "idle" /\ rows[m] = "absent"
  /\ rows' = [rows EXCEPT ![m] = "present"]
  /\ UNCHANGED <<catalog, configured, groups, links, pending, memory, op>>

(* DeleteModel and ClearRemovedModels; the group cache is not reloaded.    *)
DeleteModels(a, S) ==
  /\ op[a].step = "idle"
  /\ rows' = [m \in Models |-> IF m \in S THEN "absent" ELSE rows[m]]
  /\ UNCHANGED <<catalog, configured, groups, links, pending, memory, op>>

(* Everything but the database is rebuilt by NewManager.                   *)
Restart ==
  /\ pending' = {}
  /\ memGroups' = groups
  /\ memRemoved' = Removed
  /\ op' = [a \in Actors |-> Idle]
  /\ UNCHANGED <<catalog, tables>>

-----------------------------------------------------------------------------
Continue(a) ==
  \/ DeleteOrphans(a) \/ LockPending(a) \/ EndSync(a)
  \/ \E m \in Models : Register(a, m)
  \/ \E p \in Providers : Mark(a, p)
  \/ ReadGroups(a) \/ LoadAvailability(a) \/ SwapCache(a)
  \/ DeleteGroup(a) \/ PruneFilter(a) \/ PruneWrite(a)

Administer(a) ==
  \/ \E g \in Groups : CheckUnlinked(a, g) \/ PruneRead(a, g)
  \/ \E g \in Groups, S \in MemberSets : SetGroup(a, g, S)
  \/ \E k \in Keys, G \in SUBSET Groups : LinkKey(a, k, G)
  \/ \E m \in Models : SetModelEnabled(a, m) \/ DeleteModels(a, {m})
  \/ DeleteModels(a, Removed)

(* What has to stop for the tables to settle.                              *)
Disturb ==
  \/ CatalogChanges \/ Restart
  \/ \E p \in Providers : ProviderDeleted(p)
  \/ \E a \in Actors : Administer(a) \/ FetchTruncated(a)

Next ==
  \/ Disturb
  \/ \E a \in Actors : FetchWhole(a) \/ FetchPart(a) \/ Continue(a)

Spec == Init /\ [][Next]_vars

-----------------------------------------------------------------------------
Steps == {"idle", "orphans", "register", "mark", "reload", "avail", "swap",
          "delete", "filter", "prune"}

OpSet == [step : Steps, listing : SUBSET Models, left : SUBSET (Models \cup Providers),
          snap : [Groups -> Members], group : Groups \cup {NoGroup}, kept : SUBSET Models]

TypeOK ==
  /\ catalog \in SUBSET Models
  /\ configured \in SUBSET Providers
  /\ rows \in [Models -> {"absent", "present", "removed"}]
  /\ pending \in SUBSET Providers
  /\ groups \in [Groups -> Members]
  /\ links \in [Keys -> SUBSET Groups]
  /\ memGroups \in [Groups -> Members]
  /\ memRemoved \in SUBSET Models
  /\ op \in [Actors -> OpSet]
  /\ \A a \in Actors : op[a].step \in {"delete", "prune"} => op[a].group \in Groups

(* README "Deletion protection": the row of a group that a key is linked   *)
(* to does not go away under it.                                           *)
LinkedGroupKept ==
  [][ \A k \in Keys : \A g \in links[k] :
        groups[g] # NoGroup => groups'[g] # NoGroup ]_vars

(* The tables agree with the providers that list anything at all, and what *)
(* enforcement uses agrees with the tables.                                *)
Converged ==
  /\ \A p \in configured : Of(p, catalog) # {} => Of(p, Present) = Of(p, catalog)
  /\ \A p \in Providers \ configured : Of(p, Present \cup Removed) = {}
  /\ memGroups = groups
  /\ memRemoved = Removed
=============================================================================
