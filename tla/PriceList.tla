------------------------------ MODULE PriceList ------------------------------
(***************************************************************************)
(* What requests cost (internal/pricing, internal/handler/prices.go): the  *)
(* price list of model families and the overrides of administrators, the   *)
(* resolver that has both in memory, and the costs that traffic rows are   *)
(* given when they are written and when they are priced again.             *)
(*                                                                         *)
(* Every request uses the same tokens, so its cost is a price.             *)
(***************************************************************************)
EXTENDS Naturals, FiniteSets

CONSTANTS
  PricedModels, Families,
  FamilyOf,      \* NormalizeFamily, [PricedModels -> Families]
  Prices,
  PriceEditors,  \* requests that edit prices, and the loop that refreshes the list
  Slots,         \* bound: requests whose costs are looked at
  NoPrice        \* a model value

NoEditor == "nobody"

ASSUME PriceAssumption ==
  /\ PricedModels \cap Families = {} /\ FamilyOf \in [PricedModels -> Families]
  /\ NoPrice \notin Prices /\ NoEditor \notin PriceEditors
  /\ PricedModels \cap {"none", "all"} = {}

VARIABLES
  list, override,          \* rows of model_prices and model_price_overrides
  memList, memOverride,    \* Resolver: overrides are found by model, and by family
  priceEdit, holder,       \* what each editor is doing, and who holds the mutex
  traffic                  \* a request: its model, its cost, whether it is a row

priceRows   == <<list, override>>
priceMemory == <<memList, memOverride>>
priceVars   == <<priceRows, priceMemory, priceEdit, holder, traffic>>

Costs == Prices \cup {NoPrice}

(* model: whose rows are priced again at the end, "all" or "none"; targets:*)
(* the rows found; missed: an edit has not found the row (history).        *)
NoPriceEdit  == [step |-> "idle", model |-> "none", copy |-> [f \in Families |-> NoPrice], targets |-> {}]
NoRequest    == [step |-> "none", model |-> "none", cost |-> NoPrice, missed |-> FALSE]

Quiet == \A e \in PriceEditors : priceEdit[e].step = "idle"

(* Reload: the family of an overridden model is given its override too;    *)
(* which one, when there are several, the order of a Go map decides.       *)
Overridden(f, over) == {m \in PricedModels : FamilyOf[m] = f /\ over[m] # NoPrice}

Loaded(over) ==
  {o \in [PricedModels \cup Families -> Costs] :
     /\ \A m \in PricedModels : o[m] = over[m]
     /\ \A f \in Families :
          o[f] \in (IF Overridden(f, over) = {} THEN {NoPrice}
                    ELSE {over[m] : m \in Overridden(f, over)})}

(* Mutant: the list wins.                                                  *)
ListFirst(m) ==
  IF memList[FamilyOf[m]] # NoPrice THEN memList[FamilyOf[m]] ELSE memOverride[m]

(* PriceFor: override, list, override of the family.                       *)
PriceFor(m) ==
  IF memOverride[m] # NoPrice THEN memOverride[m]
  ELSE IF memList[FamilyOf[m]] # NoPrice THEN memList[FamilyOf[m]]
  ELSE memOverride[FamilyOf[m]]

PricesInit ==
  /\ list \in [Families -> Prices] /\ override = [m \in PricedModels |-> NoPrice]
  /\ memList = list /\ memOverride \in Loaded(override)
  /\ priceEdit = [e \in PriceEditors |-> NoPriceEdit] /\ holder = NoEditor
  /\ traffic = [s \in Slots |-> NoRequest]

-----------------------------------------------------------------------------
Enter(e, s, m) ==
  /\ priceEdit[e].step = "idle"
  /\ priceEdit' = [priceEdit EXCEPT ![e] = [NoPriceEdit EXCEPT !.step = s, !.model = m]]

SetOverride(e, m, p) ==
  /\ Enter(e, "reload", m)
  /\ override' = [override EXCEPT ![m] = p]
  /\ UNCHANGED <<list, priceMemory, holder, traffic>>

DeleteOverride(e, m) ==
  /\ override[m] # NoPrice
  /\ Enter(e, "reload", m)
  /\ override' = [override EXCEPT ![m] = NoPrice]
  /\ UNCHANGED <<list, priceMemory, holder, traffic>>

(* RefreshPrices replaces the list in one transaction by what it has       *)
(* fetched; rows keep the costs they have.                                 *)
RefreshPrices(e) ==
  /\ Enter(e, "reload", "none")
  /\ list' \in [Families -> Costs]
  /\ UNCHANGED <<override, priceMemory, holder, traffic>>

(* RepriceCosts.                                                           *)
RepriceCosts(e) ==
  /\ Enter(e, "select", "all")
  /\ UNCHANGED <<priceRows, priceMemory, holder, traffic>>

(* Mutant: the mutex is not taken.                                         *)
ReadListUnlocked(e) ==
  /\ priceEdit[e].step = "reload"
  /\ priceEdit' = [priceEdit EXCEPT ![e].step = "swap", ![e].copy = list]
  /\ UNCHANGED <<priceRows, priceMemory, holder, traffic>>

(* ReloadResolver: the mutex is held from the first query to the swap.     *)
ReadList(e) ==
  /\ priceEdit[e].step = "reload" /\ holder = NoEditor
  /\ priceEdit' = [priceEdit EXCEPT ![e].step = "swap", ![e].copy = list]
  /\ holder' = e
  /\ UNCHANGED <<priceRows, priceMemory, traffic>>

ReadOverridesAndSwap(e) ==
  /\ priceEdit[e].step = "swap"
  /\ memList' = priceEdit[e].copy /\ memOverride' \in Loaded(override)
  /\ holder' = NoEditor
  /\ priceEdit' = [priceEdit EXCEPT ![e] =
       IF @.model = "none" THEN NoPriceEdit ELSE [@ EXCEPT !.step = "select", !.copy = NoPriceEdit.copy]]
  /\ traffic' = [s \in Slots |-> [traffic[s] EXCEPT !.missed = @ \/ traffic[s].step = "charged"]]
  /\ UNCHANGED priceRows

(* RepriceRange: the rows are found, and then given new costs in one       *)
(* transaction.                                                            *)
SelectRows(e) ==
  /\ priceEdit[e].step = "select"
  /\ priceEdit' = [priceEdit EXCEPT ![e].step = "price", ![e].targets =
       {s \in Slots : traffic[s].step = "row" /\ priceEdit[e].model \in {"all", traffic[s].model}}]
  /\ UNCHANGED <<priceRows, priceMemory, holder, traffic>>

PriceRows(e) ==
  /\ priceEdit[e].step = "price"
  /\ traffic' = [s \in Slots |->
       IF s \in priceEdit[e].targets
       THEN [traffic[s] EXCEPT !.cost = PriceFor(traffic[s].model), !.missed = FALSE]
       ELSE traffic[s]]
  /\ priceEdit' = [priceEdit EXCEPT ![e] = NoPriceEdit]
  /\ UNCHANGED <<priceRows, priceMemory, holder>>

-----------------------------------------------------------------------------
(* A request is charged when its usage is known, and becomes a row then.   *)
Charge(s, m) ==
  /\ traffic[s].step = "none"
  /\ traffic' = [traffic EXCEPT ![s] = [step |-> "charged", model |-> m, cost |-> PriceFor(m), missed |-> FALSE]]
  /\ UNCHANGED <<priceRows, priceMemory, priceEdit, holder>>

WriteRow(s) ==
  /\ traffic[s].step = "charged"
  /\ traffic' = [traffic EXCEPT ![s].step = "row"]
  /\ UNCHANGED <<priceRows, priceMemory, priceEdit, holder>>

(* NewManager: an empty list is filled from the snapshot. Requests that    *)
(* are no rows are lost, and an edit may have priced nothing yet.          *)
PricesRestart ==
  /\ list' \in (IF \A f \in Families : list[f] = NoPrice THEN [Families -> Prices] ELSE {list})
  /\ memList' = list' /\ memOverride' \in Loaded(override)
  /\ priceEdit' = [e \in PriceEditors |-> NoPriceEdit] /\ holder' = NoEditor
  /\ traffic' = [s \in Slots |->
       IF traffic[s].step = "row"
       THEN [traffic[s] EXCEPT !.missed = @ \/ \E e \in PriceEditors : priceEdit[e].model = traffic[s].model]
       ELSE NoRequest]
  /\ UNCHANGED override

PricesNext ==
  \/ \E e \in PriceEditors :
       \/ \E m \in PricedModels : DeleteOverride(e, m) \/ \E p \in Prices : SetOverride(e, m, p)
       \/ RefreshPrices(e) \/ RepriceCosts(e)
       \/ ReadList(e) \/ ReadOverridesAndSwap(e) \/ SelectRows(e) \/ PriceRows(e)
  \/ \E s \in Slots : WriteRow(s) \/ \E m \in PricedModels : Charge(s, m)
  \/ PricesRestart

PricesSpec == PricesInit /\ [][PricesNext]_priceVars

-----------------------------------------------------------------------------
PriceEditSet ==
  [step : {"idle", "reload", "swap", "select", "price"}, model : PricedModels \cup {"none", "all"},
   copy : [Families -> Costs], targets : SUBSET Slots]

TrafficSet ==
  [step : {"none", "charged", "row"}, model : PricedModels \cup {"none"},
   cost : Costs, missed : BOOLEAN]

PricesTypeOK ==
  /\ list \in [Families -> Costs] /\ memList \in [Families -> Costs]
  /\ override \in [PricedModels -> Costs] /\ memOverride \in [PricedModels \cup Families -> Costs]
  /\ holder \in PriceEditors \cup {NoEditor}
  /\ priceEdit \in [PriceEditors -> PriceEditSet] /\ traffic \in [Slots -> TrafficSet]

(* "in-memory, reloaded after refresh or override edits": once every edit  *)
(* has reloaded, requests are charged by the rows, however edits overlap.  *)
ChargedAsStored ==
  (\A e \in PriceEditors : priceEdit[e].step \notin {"reload", "swap"}) =>
    memList = list /\ \A m \in PricedModels : memOverride[m] = override[m]

(* When no edit is under way, the rows of a model with an override have    *)
(* its price, those written before the override too: unless a request was  *)
(* charged before a reload and written after it, or a crash came between.  *)
OverrideReachesRows ==
  Quiet => \A s \in Slots :
    LET t == traffic[s]
    IN  t.step = "row" /\ ~ t.missed /\ override[t.model] # NoPrice => t.cost = override[t.model]

(* Both, for one run.                                                      *)
PricesApply == ChargedAsStored /\ OverrideReachesRows
=============================================================================
