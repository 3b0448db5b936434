---------------------------- MODULE ExchangeRate ----------------------------
(***************************************************************************)
(* The exchange rate costs are displayed at (internal/pricing): the        *)
(* administrator's settings, the rate that is fetched when the currency    *)
(* changes and once a day, and the rate in effect.                         *)
(*                                                                         *)
(* A fetched rate is stood for by the currency it was fetched for, which   *)
(* the stored row (a bare number) does not tell.                           *)
(***************************************************************************)
EXTENDS Naturals

CONSTANTS
  Currencies,       \* other than USD
  Refreshers,       \* bound: refreshes that changes of the currency may have running
  MaxDisturbances   \* bound: settings saved and restarts

ASSUME ExchangeAssumption ==
  "USD" \notin Currencies /\ "loop" \notin Refreshers /\ MaxDisturbances \in Nat

VARIABLES
  currency, manual,    \* display_currency, fx_rate_manual
  autoOf, fresh,       \* fx_rate_auto, and whether fx_rate_synced_at is of the last day
  saving,              \* UpdateCostSettings
  refresh,             \* RefreshFX, of the background loop and of saved settings
  disturbances

rateRows     == <<currency, manual, autoOf, fresh>>
exchangeVars == <<rateRows, saving, refresh, disturbances>>

Tasks   == Refreshers \cup {"loop"}
Manuals == {"empty", "positive", "negative"}   \* ParseFloat takes each but the first

NotSaving  == [step |-> "idle", changed |-> FALSE]
NotRunning == [step |-> "idle", of |-> "USD"]

ExchangeInit ==
  /\ currency = "USD" /\ manual = "empty" /\ autoOf = "none" /\ fresh = FALSE
  /\ saving = NotSaving /\ refresh = [t \in Tasks |-> NotRunning]
  /\ disturbances = 0

(* GetEffectiveRate, as GetCostSettings calls it: the currency it is given *)
(* for the automatic rate is the one displayed.                            *)
EffectiveSource ==
  CASE currency = "USD"                          -> "usd"
    [] currency # "USD" /\ manual = "positive"   -> "manual"
    [] currency # "USD" /\ manual # "positive" /\ autoOf # "none" -> "auto"
    [] OTHER                                     -> "none"

-----------------------------------------------------------------------------
Disturb == disturbances < MaxDisturbances /\ disturbances' = disturbances + 1

(* UpdateCostSettings: what a request leaves out stays as it is. A change  *)
(* of the currency starts a refresh when everything is stored.             *)
SaveCurrency(c) ==
  /\ Disturb
  /\ saving.step = "idle"
  /\ currency' = c
  /\ saving' = [step |-> "manual", changed |-> c # currency /\ c # "USD"]
  /\ UNCHANGED <<manual, autoOf, fresh, refresh>>

SaveManual(m) ==
  /\ saving.step = "manual"
  /\ manual' = m /\ saving' = NotSaving
  /\ IF saving.changed
     THEN \E r \in Refreshers :
            /\ refresh[r].step = "idle"
            /\ refresh' = [refresh EXCEPT ![r].step = "read"]
     ELSE UNCHANGED refresh
  /\ UNCHANGED <<currency, autoOf, fresh, disturbances>>

(* A manual rate that is no number: the currency stays as it was stored,   *)
(* and no refresh is started.                                              *)
RefuseManual ==
  /\ saving.step = "manual"
  /\ saving' = NotSaving
  /\ UNCHANGED <<rateRows, refresh, disturbances>>

(* Mutant: the loop refreshes only when there is no rate.                  *)
LoopFillsOnly ==
  /\ refresh["loop"].step = "idle"
  /\ currency # "USD" /\ manual = "empty" /\ autoOf = "none"
  /\ refresh' = [refresh EXCEPT !["loop"].step = "read"]
  /\ UNCHANGED <<rateRows, saving, disturbances>>

(* syncPricesAndFX, every half hour.                                       *)
LoopRefreshes ==
  /\ refresh["loop"].step = "idle"
  /\ currency # "USD" /\ manual = "empty" /\ ~ fresh
  /\ refresh' = [refresh EXCEPT !["loop"].step = "read"]
  /\ UNCHANGED <<rateRows, saving, disturbances>>

(* RefreshFX.                                                              *)
ReadCurrency(t) ==
  /\ refresh[t].step = "read"
  /\ refresh' = [refresh EXCEPT ![t] =
       IF currency = "USD" THEN NotRunning ELSE [step |-> "fetch", of |-> currency]]
  /\ UNCHANGED <<rateRows, saving, disturbances>>

FetchRate(t) ==
  /\ refresh[t].step = "fetch"
  /\ refresh' = [refresh EXCEPT ![t].step = "store"]
  /\ UNCHANGED <<rateRows, saving, disturbances>>

FetchFails(t) ==
  /\ refresh[t].step = "fetch"
  /\ refresh' = [refresh EXCEPT ![t] = NotRunning]
  /\ UNCHANGED <<rateRows, saving, disturbances>>

(* Mutant: the currency is looked up again when the rate is stored.        *)
StoreForCurrent(t) ==
  /\ refresh[t].step = "store"
  /\ autoOf' = currency
  /\ refresh' = [refresh EXCEPT ![t].step = "stamp"]
  /\ UNCHANGED <<currency, manual, fresh, saving, disturbances>>

StoreRate(t) ==
  /\ refresh[t].step = "store"
  /\ autoOf' = refresh[t].of
  /\ refresh' = [refresh EXCEPT ![t].step = "stamp"]
  /\ UNCHANGED <<currency, manual, fresh, saving, disturbances>>

StampRate(t) ==
  /\ refresh[t].step = "stamp"
  /\ fresh' = TRUE
  /\ refresh' = [refresh EXCEPT ![t] = NotRunning]
  /\ UNCHANGED <<currency, manual, autoOf, saving, disturbances>>

DayPasses ==
  /\ fresh /\ fresh' = FALSE
  /\ UNCHANGED <<currency, manual, autoOf, saving, refresh, disturbances>>

ExchangeRestart ==
  /\ Disturb
  /\ saving' = NotSaving /\ refresh' = [t \in Tasks |-> NotRunning]
  /\ UNCHANGED rateRows

RefreshStep(t) == ReadCurrency(t) \/ FetchRate(t) \/ FetchFails(t) \/ StoreRate(t) \/ StampRate(t)

ExchangeNext ==
  \/ \E c \in Currencies \cup {"USD"} : SaveCurrency(c)
  \/ RefuseManual \/ \E m \in Manuals : SaveManual(m)
  \/ LoopRefreshes
  \/ \E t \in Tasks : RefreshStep(t)
  \/ DayPasses \/ ExchangeRestart

(* Goroutines run, the loop ticks, days pass, and the service that is      *)
(* asked for the rate is not down for ever.                                *)
ExchangeFairness ==
  /\ WF_exchangeVars(LoopRefreshes) /\ WF_exchangeVars(DayPasses)
  /\ WF_exchangeVars(RefuseManual \/ \E m \in Manuals : SaveManual(m))
  /\ \A t \in Tasks : WF_exchangeVars(RefreshStep(t)) /\ SF_exchangeVars(FetchRate(t))

ExchangeSpec == ExchangeInit /\ [][ExchangeNext]_exchangeVars /\ ExchangeFairness

-----------------------------------------------------------------------------
ExchangeTypeOK ==
  /\ currency \in Currencies \cup {"USD"} /\ manual \in Manuals
  /\ autoOf \in Currencies \cup {"none"} /\ fresh \in BOOLEAN
  /\ saving \in [step : {"idle", "manual"}, changed : BOOLEAN]
  /\ refresh \in [Tasks -> [step : {"idle", "read", "fetch", "store", "stamp"},
                            of : Currencies \cup {"USD"}]]
  /\ disturbances \in 0..MaxDisturbances

(* "auto if its currency matches, else none": costs are not converted at   *)
(* the rate of another currency. The code does not keep it: the currency   *)
(* of the stored rate is not compared.                                     *)
RateOfItsCurrency == EffectiveSource = "auto" => autoOf = currency

(* When nobody changes the settings any more, the rate of the currency     *)
(* shown is found in the end, whichever refresh was late or failed.        *)
RateIsFound == currency # "USD" /\ manual = "empty" => autoOf = currency
RateSettles == <>[]RateIsFound
=============================================================================
