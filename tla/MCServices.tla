----------------------------- MODULE MCServices -----------------------------
(* What runs in the background: the refreshes of quotas and of the         *)
(* exchange rate (UpstreamQuota, ExchangeRate), the interval of the first  *)
(* (SyncInterval), and the calendar that quota windows come from. They     *)
(* share no state, so that one run checks them all: a behaviour is of one  *)
(* part, and the others rest where they begin.                             *)
EXTENDS MCQuotaCalendar, UpstreamQuota, ExchangeRate, SyncInterval

VARIABLE service

servicesVars == <<service, calendarVars, quotaVars, exchangeVars, intervalVars>>

(* One initial state of a part that rests is enough.                       *)
Resting ==
  /\ service # "calendar" => sched = Unset /\ period = "total"
  /\ service # "quota" => upstream = "fine"
  /\ service # "interval" => stored = (CHOOSE i \in Intervals : TRUE)

ServicesInit ==
  /\ service \in {"calendar", "quota", "rate", "interval"}
  /\ Resting
  /\ CalendarInit /\ QuotaInit /\ ExchangeInit /\ IntervalInit

ServicesNext ==
  /\ UNCHANGED service
  /\ \/ service = "calendar" /\ AnHourPasses /\ UNCHANGED <<quotaVars, exchangeVars, intervalVars>>
     \/ service = "quota" /\ QuotaNext /\ UNCHANGED <<calendarVars, exchangeVars, intervalVars>>
     \/ service = "rate" /\ ExchangeNext /\ UNCHANGED <<calendarVars, quotaVars, intervalVars>>
     \/ service = "interval" /\ IntervalNext /\ UNCHANGED <<calendarVars, quotaVars, exchangeVars>>

(* QuotaFairness and ExchangeFairness, each for the behaviours of its part.*)
ServicesFairness ==
  /\ WF_quotaVars(service = "quota" /\ Goes("loop")) /\ SF_quotaVars(service = "quota" /\ Answered("loop"))
  /\ WF_quotaVars(service = "quota" /\ CooldownEnds)
  /\ \A f \in Readers :
       WF_quotaVars(service = "quota" /\ (Answered(f) \/ CallFails(f) \/ Store(f)))
  /\ WF_exchangeVars(service = "rate" /\ LoopRefreshes) /\ WF_exchangeVars(service = "rate" /\ DayPasses)
  /\ WF_exchangeVars(service = "rate" /\ (RefuseManual \/ \E m \in Manuals : SaveManual(m)))
  /\ \A t \in Tasks :
       /\ WF_exchangeVars(service = "rate" /\ RefreshStep(t))
       /\ SF_exchangeVars(service = "rate" /\ FetchRate(t))

ServicesSpec == ServicesInit /\ [][ServicesNext]_servicesVars /\ ServicesFairness

-----------------------------------------------------------------------------
(* Types of the part looked at; the calendar has none worth stating.       *)
ServicesTypeOK ==
  /\ service = "quota" => QuotaTypeOK
  /\ service = "rate" => ExchangeTypeOK
  /\ service = "interval" => IntervalTypeOK

(* CacheCatchesUp and RateSettles, each for the behaviours of its part.    *)
ServicesSettle ==
  <>[][~ \E f \in Readers : CallFails(f)]_quotaVars
    => <>[]((service = "quota" => CatchesUp) /\ (service = "rate" => RateIsFound))
=============================================================================
