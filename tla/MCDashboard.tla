---------------------------- MODULE MCDashboard ----------------------------
(* Who gets into the dashboard: accounts and sessions (AdminAccounts) and  *)
(* the limiter of logins (LoginLimiter), with the log of what happens      *)
(* (LogQueue). They share no state, so that one run checks them all: a     *)
(* behaviour is of one part, and the others rest where they begin.         *)
EXTENDS AdminAccounts, LoginLimiter, LogQueue, TLC

VARIABLE part

dashboardVars == <<part, accountVars, limiterVars, logVars>>

DashboardInit ==
  /\ part \in {"accounts", "limiter", "log"}
  /\ AccountsInit /\ LimiterInit /\ LogInit

DashboardNext ==
  /\ UNCHANGED part
  /\ \/ part = "accounts" /\ AccountsNext /\ UNCHANGED <<limiterVars, logVars>>
     \/ part = "limiter" /\ LimiterNext /\ UNCHANGED <<accountVars, logVars>>
     \/ part = "log" /\ LogNext /\ UNCHANGED <<accountVars, limiterVars>>

DashboardSpec == DashboardInit /\ [][DashboardNext]_dashboardVars

Symmetry == Permutations(Requests)

-----------------------------------------------------------------------------
(* Types of the part looked at.                                            *)
DashboardTypeOK ==
  CASE part = "accounts" -> AccountsTypeOK
    [] part = "limiter"  -> LimiterTypeOK
    [] part = "log"      -> LogTypeOK
=============================================================================
