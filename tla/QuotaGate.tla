----------------------------- MODULE QuotaGate -----------------------------
(***************************************************************************)
(* Quota enforcement in the request path of internal/proxy (ServeHTTP).    *)
(*                                                                         *)
(* A key in "key" mode has one Key Quota, checked before the body is read; *)
(* a key in "model" mode has Model Quotas, checked once the Model ID is    *)
(* resolved. Either check sums the traffic log of the current window. The  *)
(* row of a request is inserted by a goroutine the handler starts after it *)
(* has answered, so a client can send its next request before the last one *)
(* is counted.                                                             *)
(***************************************************************************)
EXTENDS Naturals, FiniteSets

CONSTANTS
  Keys, Models,   \* Model IDs; one without a row in LimitOf is unlimited
  AnyModel,     \* the whole key: the budget of a Key Quota
  Requests,     \* slots for requests that are served or still to be counted
  Mode,         \* [Keys -> {"key", "model"}], quota_mode
  LimitOf,      \* [Budgets -> Nat], 0 = no quota
  MaxTokens     \* the most tokens one request is counted for

Budgets == Keys \X (Models \cup {AnyModel})
Metered == {b \in Budgets : LimitOf[b] > 0}

ASSUME KeysAssumption == AnyModel \notin Models /\ Mode \in [Keys -> {"key", "model"}]
ASSUME LimitAssumption == LimitOf \in [Budgets -> Nat]
ASSUME MaxTokensAssumption == MaxTokens \in Nat
ASSUME RequestsAssumption == IsFiniteSet(Requests)

VARIABLES
  used,   \* per metered budget, SUM(total_tokens) of the log since window start
  req     \* per slot, the request it holds

vars == <<used, req>>

Phases == {"free", "admitted", "answered"}

Free == [phase |-> "free", budget |-> <<>>, tokens |-> 0]

(* EnforcesModelQuotas and ModelQuotaFor: what a request of k for model m  *)
(* is measured against.                                                    *)
BudgetOf(k, m) == IF Mode[k] = "model" THEN <<k, m>> ELSE <<k, AnyModel>>

(* Mutant: a Key Quota is not looked at.                                   *)
SkipsKeyQuota(b) == b \in Metered /\ Mode[b[1]] = "model" /\ used[b] >= LimitOf[b]

(* consumed >= limit; a budget without a limit is never exhausted.         *)
Exhausted(b) == b \in Metered /\ used[b] >= LimitOf[b]

OpenOn(b) == {r \in Requests : req[r].phase # "free" /\ req[r].budget = b}

-----------------------------------------------------------------------------
Init ==
  /\ used = [b \in Metered |-> 0]
  /\ req = [r \in Requests |-> Free]

(* The gate lets a request through. One that is refused (429) is logged    *)
(* with zero tokens and changes nothing here.                              *)
Admit(r, k, m) ==
  /\ req[r].phase = "free"
  /\ ~ Exhausted(BudgetOf(k, m))
  /\ req' = [req EXCEPT ![r] = [phase |-> "admitted", budget |-> BudgetOf(k, m), tokens |-> 0]]
  /\ UNCHANGED used

(* Rejected after the gate (access, disabled or unknown model, plugin), or *)
(* the provider could not be reached: logged with zero tokens.             *)
LeaveUncounted(r) ==
  /\ req[r].phase = "admitted"
  /\ req' = [req EXCEPT ![r] = Free]
  /\ UNCHANGED used

(* Mutant: cached tokens are added to a total that has them.               *)
AnswerCountingCacheTwice(r) ==
  /\ req[r].phase = "admitted"
  /\ \E n \in 0 .. MaxTokens :
       req' = [req EXCEPT ![r] =
                 [phase |-> "answered", budget |-> req[r].budget, tokens |-> 2 * n]]
  /\ UNCHANGED used

(* The response is relayed and its usage read or estimated; zero when the  *)
(* body of a non-streaming response could not be read to its end.          *)
Answer(r) ==
  /\ req[r].phase = "admitted"
  /\ \E n \in 0 .. MaxTokens :
       req' = [req EXCEPT ![r] =
                 [phase |-> "answered", budget |-> req[r].budget, tokens |-> n]]
  /\ UNCHANGED used

(* Mutant: the row is inserted twice.                                      *)
RecordTwice(r) ==
  /\ req[r].phase = "answered"
  /\ used' = [b \in Metered |-> IF b = req[r].budget THEN used[b] + 2 * req[r].tokens ELSE used[b]]
  /\ req' = [req EXCEPT ![r] = Free]

(* The goroutine inserts the row, at the time of the insert.               *)
Record(r) ==
  /\ req[r].phase = "answered"
  /\ used' = [b \in Metered |-> IF b = req[r].budget THEN used[b] + req[r].tokens ELSE used[b]]
  /\ req' = [req EXCEPT ![r] = Free]

(* Its error is discarded: the usage is lost.                              *)
RecordFails(r) ==
  /\ req[r].phase = "answered"
  /\ req' = [req EXCEPT ![r] = Free]
  /\ UNCHANGED used

(* A new Quota Window begins; the rows of the old one no longer count.     *)
WindowResets(b) ==
  /\ used[b] > 0
  /\ used' = [used EXCEPT ![b] = 0]
  /\ UNCHANGED req

(* The process ends without waiting for the goroutines; the log stays.     *)
Restart ==
  /\ req' = [r \in Requests |-> Free]
  /\ UNCHANGED used

Next ==
  \/ \E r \in Requests, k \in Keys, m \in Models : Admit(r, k, m)
  \/ \E r \in Requests : LeaveUncounted(r) \/ Answer(r) \/ Record(r) \/ RecordFails(r)
  \/ \E b \in Metered : WindowResets(b)
  \/ Restart

Spec == Init /\ [][Next]_vars

-----------------------------------------------------------------------------
RequestSet == [phase : Phases, budget : Budgets \cup {<<>>}, tokens : 0 .. MaxTokens]

TypeOK ==
  /\ used \in [Metered -> Nat]
  /\ req \in [Requests -> RequestSet]
  /\ \A r \in Requests : req[r].phase # "free" => req[r].budget \in Budgets

(* However requests interleave, usage exceeds a limit by at most what the  *)
(* requests in flight together can cost: every request let in saw usage    *)
(* below the limit, so the last one in can add only itself and the others  *)
(* that were in flight then. A slot counts until its row is inserted.      *)
OvershootBounded ==
  \A b \in Metered :
    used[b] + MaxTokens * Cardinality(OpenOn(b))
      <= LimitOf[b] - 1 + MaxTokens * Cardinality(Requests)

(* The gate and the asynchronous record together implement the soft limit  *)
(* of ADR 0005 for every Key Quota and (ADR 0007) every Model Quota: no    *)
(* request is let in at or above the limit, each is counted at most once,  *)
(* and only a new window lowers the usage.                                 *)
Soft(b) == INSTANCE SoftQuota
  WITH Limit <- LimitOf[b], MaxOpen <- Cardinality(Requests),
       used <- used[b], open <- Cardinality(OpenOn(b))

QuotaIsSoft ==
  /\ \A b \in Metered : Soft(b)!Init
  /\ [][ \A b \in Metered : [Soft(b)!Next]_(Soft(b)!vars) ]_vars
=============================================================================
