---------------------------- MODULE GroupReloads ----------------------------
(***************************************************************************)
(* ModelCatalog, with a record of the order in which reloads of the group  *)
(* cache read the groups and put them in place (ReloadGroupCache of        *)
(* internal/keys). Reads and stores of several actors overlap: what a      *)
(* reload stores may be older than what another has stored before it.      *)
(***************************************************************************)
EXTENDS ModelCatalog

CONSTANT NoActor

ASSUME NoActorAssumption == NoActor \notin Actors

VARIABLES
  newest,        \* history: who read the groups last, if that is not yet stored
  overtaken      \* history: an older reading was stored after the newest

reloadsVars == <<vars, newest, overtaken>>

ReloadsInit == Init /\ newest = NoActor /\ overtaken = FALSE

Reads(a) ==
  /\ ReadGroups(a)
  /\ newest' = a
  /\ UNCHANGED overtaken

Stores(a) ==
  /\ SwapCache(a)
  /\ newest' = IF a = newest THEN NoActor ELSE newest
  /\ overtaken' = (newest = NoActor \/ (overtaken /\ a # newest))

Restarts ==
  /\ Restart
  /\ newest' = NoActor /\ overtaken' = FALSE

ReloadsNext ==
  \/ \E a \in Actors : Reads(a) \/ Stores(a)
  \/ Restarts
  \/ /\ Next
     /\ ~ Restart /\ \A a \in Actors : ~ ReadGroups(a) /\ ~ SwapCache(a)
     /\ UNCHANGED <<newest, overtaken>>

ReloadsSpec == ReloadsInit /\ [][ReloadsNext]_reloadsVars

-----------------------------------------------------------------------------
ReloadsTypeOK == TypeOK /\ newest \in Actors \cup {NoActor} /\ overtaken \in BOOLEAN

(* README "Live dynamic sync", as far as it goes: however edits of groups, *)
(* syncs and restarts of any actors overlap, once nothing is under way     *)
(* access is decided by the members stored last, unless a reload stored    *)
(* what it read before another that was through already.                   *)
OnlyOvertakenIsStale ==
  (\A a \in Actors : op[a].step = "idle") /\ ~ overtaken => memGroups = groups
=============================================================================
