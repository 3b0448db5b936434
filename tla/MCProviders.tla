---------------------------- MODULE MCProviders ----------------------------
(* Providers: two overlapping syncs of their catalogs, counting truncated  *)
(* listings, and one beside every disturbance (ModelCatalog); their rows   *)
(* with the routing of requests, and the owners of models                  *)
(* (ProviderRouting). These share no state but the rows of models, of      *)
(* which each needs something else, so that one run checks them all: a     *)
(* behaviour is of one part, and the others rest where they begin.         *)
EXTENDS MCModelCatalog, ProviderRouting

CONSTANT MaxTruncated

VARIABLES part, truncated

guardVars     == <<vars, truncated>>
providersVars == <<part, guardVars, routingVars>>

(* The catalogs of the providers do not change; an administrator may       *)
(* delete rows.                                                            *)
GuardNext ==
  \/ /\ \/ \E a \in Actors : FetchWhole(a) \/ FetchPart(a) \/ Continue(a)
        \/ \E a \in Actors, m \in Models : DeleteModels(a, {m})
        \/ Restart
     /\ UNCHANGED truncated
  \/ /\ truncated < MaxTruncated
     /\ \E a \in Actors : FetchTruncated(a)
     /\ truncated' = truncated + 1

(* One provider has models, only the background loop syncs, and everybody  *)
(* may do what takes one statement at any time.                            *)
OneSyncs ==
  /\ catalog \subseteq ModelsOfP /\ q \in configured
  /\ \A m \in Models \ ModelsOfP : rows[m] = "absent"
  /\ \A a \in Actors \ {Background} : op[a] = Idle

(* Rows of models do not look at names, and two providers may share a      *)
(* prefix.                                                                 *)
FewProviders ==
  /\ Existing \subseteq PrefixNames \cup {CHOOSE x \in RandomIds : TRUE}
  /\ \A i \in Existing : provider[i].name = 1

ProvidersInit ==
  /\ part \in {"syncs", "catalog", "rows", "models"}
  /\ Init /\ truncated = 0 /\ RoutingInit
  /\ IF part = "catalog" THEN OneSyncs
     ELSE catalog = Models /\ groups = [x \in Groups |-> NoGroup]

ProvidersNext ==
  /\ UNCHANGED part
  /\ \/ part = "syncs" /\ GuardNext /\ UNCHANGED routingVars
     \/ /\ part = "catalog" /\ Next /\ OneSyncs' /\ UNCHANGED <<truncated, routingVars>>
        /\ op[Background].step # "idle" => UNCHANGED catalog   \* only fetches read it
     \/ part = "rows" /\ RoutingNext /\ modelVars' = modelVars /\ UNCHANGED guardVars
     \/ part = "models" /\ RoutingNext /\ FewProviders' /\ UNCHANGED guardVars

(* A sync or a request that has started goes on: its remaining statements  *)
(* are local, and a sync.Mutex does not starve a waiter. The background    *)
(* loop never ends, and the providers answer in full again and again.      *)
CatalogFairness ==
  /\ \A a \in Actors :
       WF_vars(part = "catalog" /\ Continue(a)) /\ SF_vars(part = "catalog" /\ LockPending(a))
  /\ SF_vars(part = "catalog" /\ FetchWhole(Background))

ProvidersSpec == ProvidersInit /\ [][ProvidersNext]_providersVars /\ CatalogFairness

-----------------------------------------------------------------------------
(* Types of the part looked at.                                            *)
ProvidersTypeOK == IF part \in {"syncs", "catalog"} THEN TypeOK ELSE RoutingTypeOK

(* However syncs, edits, restarts and truncated listings interleaved, once *)
(* they stop the syncs bring the models table and every cache back to the  *)
(* truth: a held removal is confirmed, a returned model is cleared, and a  *)
(* reload that stored a stale snapshot is repaired.                        *)
CatalogConverges == <>[][~ Disturb]_vars => <>[](part = "catalog" => Converged)

(* ADR 0006: "One truncated upstream response" never takes most of a       *)
(* provider's models away, however two syncs and a restart interleave with *)
(* it: that takes a second truncated listing.                              *)
OneShortListingIsHeld ==
  [][ part = "syncs" => \A r \in Providers :
        2 * Cardinality(Of(r, Removed' \ Removed)) > Cardinality(Of(r, Present))
          => truncated >= 2 ]_guardVars
=============================================================================
