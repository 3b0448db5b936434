----------------------------- MODULE MCPlugins -----------------------------
(* What administrators edit that requests are served by: a plugin          *)
(* (PluginRegistry), prices (PriceList), models and groups (GroupReloads). *)
(* They share no state, so that one run checks them all: a behaviour is of *)
(* one part, and the others rest where they begin.                         *)
EXTENDS MCModelCatalog, GroupReloads, PluginRegistry, PriceList, TLC

MCFamilyOf == [m \in PricedModels |-> "family"]

VARIABLE part

pluginsVars == <<part, reloadsVars, pluginVars, priceVars>>

(* One initial state of a part that rests is enough.                       *)
Rest ==
  /\ part # "catalog" => catalog = {} /\ groups = [x \in Groups |-> {}]
  /\ part # "plugins" => kind = "http"
  /\ part # "prices" => list = [f \in Families |-> CHOOSE x \in Prices : TRUE]

PluginsInit ==
  /\ part \in {"catalog", "plugins", "prices"}
  /\ Rest
  /\ ReloadsInit /\ RegistryInit /\ PricesInit

PluginsNext ==
  /\ UNCHANGED part
  /\ \/ part = "catalog" /\ ReloadsNext /\ UNCHANGED <<pluginVars, priceVars>>
     \/ part = "plugins" /\ RegistryNext /\ UNCHANGED <<reloadsVars, priceVars>>
     \/ part = "prices" /\ PricesNext /\ UNCHANGED <<reloadsVars, pluginVars>>

PluginsSpec == PluginsInit /\ [][PluginsNext]_pluginsVars

Symmetry == Permutations(Editors) \cup Permutations(PriceEditors)

-----------------------------------------------------------------------------
(* Types of the part looked at.                                            *)
PluginsTypeOK ==
  CASE part = "catalog" -> ReloadsTypeOK
    [] part = "plugins" -> RegistryTypeOK
    [] part = "prices"  -> PricesTypeOK
=============================================================================
