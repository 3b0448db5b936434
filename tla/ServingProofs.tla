--------------------------- MODULE ServingProofs ----------------------------
(***************************************************************************)
(* Proofs about what serves requests. MCRequests: the quota gate however   *)
(* many requests pass it (QuotaGate), a request on its way through         *)
(* gateways and plugins (RequestChain), and what is relayed and counted of *)
(* the answer (StreamRelay). MCServices: what runs in the background       *)
(* (SyncInterval, UpstreamQuota, ExchangeRate), and the calendar that      *)
(* quota windows come from (QuotaCalendar).                                *)
(***************************************************************************)
EXTENDS MCRequests, MCServices, FiniteSetTheorems, TLAPS

-----------------------------------------------------------------------------
(* QuotaGate, for any keys, models, limits, modes and any finite number of *)
(* concurrent requests.                                                    *)

Slots == Cardinality(Requests)
Open(b) == Cardinality(OpenOn(b))

-----------------------------------------------------------------------------
(* An empty slot is well typed.                                            *)
LEMMA FreeType == Free \in RequestSet /\ Free.phase = "free"
  BY MaxTokensAssumption DEF Free, RequestSet, Phases

(* The gate starts well typed.                                             *)
LEMMA InitType == Init => TypeOK
  BY LimitAssumption, MaxTokensAssumption
     DEF Init, TypeOK, Free, RequestSet, Phases, Metered

(* Every action of the gate keeps the types: a request is measured against *)
(* a budget, and its tokens stay within MaxTokens.                         *)
LEMMA StepType == TypeOK /\ [Next]_vars => TypeOK'
<1> SUFFICES ASSUME TypeOK, [Next]_vars PROVE TypeOK'
  OBVIOUS
<1> USE MaxTokensAssumption DEF TypeOK
<1>1. ASSUME NEW r \in Requests, NEW k \in Keys, NEW m \in Models, Admit(r, k, m)
      PROVE  TypeOK'
  <2>1. BudgetOf(k, m) \in Budgets
    BY DEF BudgetOf, Budgets
  <2> QED
    BY <1>1, <2>1 DEF Admit, RequestSet, Phases
<1>2. ASSUME NEW r \in Requests,
             LeaveUncounted(r) \/ RecordFails(r)
      PROVE  TypeOK'
  BY <1>2, FreeType DEF LeaveUncounted, RecordFails
<1>3. ASSUME NEW r \in Requests, Answer(r) PROVE TypeOK'
  <2>1. PICK n \in 0 .. MaxTokens :
          req' = [req EXCEPT ![r] =
                    [phase |-> "answered", budget |-> req[r].budget, tokens |-> n]]
    BY <1>3 DEF Answer
  <2>2. req[r] \in RequestSet /\ req[r].budget \in Budgets
    BY <1>3 DEF Answer
  <2>3. [phase |-> "answered", budget |-> req[r].budget, tokens |-> n] \in RequestSet
    BY <2>2 DEF RequestSet, Phases
  <2> QED
    BY <1>3, <2>1, <2>2, <2>3 DEF Answer
<1>4. ASSUME NEW r \in Requests, Record(r) PROVE TypeOK'
  <2>1. req[r].tokens \in Nat
    BY DEF RequestSet
  <2>2. used' \in [Metered -> Nat]
    BY <1>4, <2>1 DEF Record
  <2> QED
    BY <1>4, <2>2, FreeType DEF Record
<1>5. ASSUME NEW b \in Metered, WindowResets(b) PROVE TypeOK'
  BY <1>5 DEF WindowResets
<1>6. CASE Restart
  BY <1>6, FreeType DEF Restart
<1>7. CASE UNCHANGED vars
  BY <1>7 DEF vars
<1> QED
  BY <1>1, <1>2, <1>3, <1>4, <1>5, <1>6, <1>7 DEF Next

(* Every reachable state of the gate is well typed.                        *)
THEOREM TypeCorrect == Spec => []TypeOK
  BY InitType, StepType, PTL DEF Spec

-----------------------------------------------------------------------------
(* The number of requests open on a budget.                                *)
LEMMA OpenType ==
  ASSUME NEW b
  PROVE  /\ IsFiniteSet(OpenOn(b)) /\ OpenOn(b) \subseteq Requests
         /\ Open(b) \in Nat /\ Slots \in Nat /\ Open(b) <= Slots
<1>1. OpenOn(b) \subseteq Requests
  BY DEF OpenOn
<1> QED
  BY <1>1, RequestsAssumption, FS_Subset, FS_CardinalityType DEF Open, Slots

(* A slot that is filled adds one request to the budget it is measured     *)
(* against and leaves the other budgets alone.                             *)
LEMMA OpenGrows ==
  ASSUME NEW b, NEW r \in Requests, req[r].phase = "free",
         OpenOn(b)' = OpenOn(b) \cup {r}
  PROVE  Open(b)' = Open(b) + 1 /\ Open(b) < Slots
<1>1. r \notin OpenOn(b)
  BY DEF OpenOn
<1>2. Open(b)' = Open(b) + 1
  BY <1>1, OpenType, FS_AddElement DEF Open
<1>3. OpenOn(b) \cup {r} \subseteq Requests
  BY OpenType
<1>4. Cardinality(OpenOn(b) \cup {r}) <= Slots
  BY <1>3, RequestsAssumption, FS_Subset DEF Slots
<1> QED
  BY <1>1, <1>2, <1>4, OpenType, FS_AddElement DEF Open

(* A slot that is emptied takes one request from its budget.               *)
LEMMA OpenShrinks ==
  ASSUME NEW b, NEW r \in OpenOn(b), OpenOn(b)' = OpenOn(b) \ {r}
  PROVE  Open(b)' = Open(b) - 1 /\ Open(b) > 0
<1>1. Cardinality(OpenOn(b) \ {r}) = Open(b) - 1 /\ Cardinality(OpenOn(b) \ {r}) \in Nat
  BY OpenType, FS_RemoveElement, FS_CardinalityType, FS_Subset DEF Open
<1> QED
  BY <1>1, OpenType DEF Open

-----------------------------------------------------------------------------
(* One step of the gate, seen from one metered budget: a request let in    *)
(* below the limit, one counted, some abandoned, a new window, or nothing. *)
SoftLetIn(b) ==
  used[b] < LimitOf[b] /\ Open(b) < Slots /\ Open(b)' = Open(b) + 1 /\ used'[b] = used[b]
SoftCount(b) ==
  /\ Open(b) > 0 /\ Open(b)' = Open(b) - 1
  /\ \E n \in 0 .. MaxTokens : used'[b] = used[b] + n
SoftAbandon(b) == Open(b)' \in 0 .. Open(b) /\ used'[b] = used[b]
SoftNewWindow(b) == used'[b] = 0 /\ Open(b)' = Open(b)

(* Seen from one budget, every step of the gate is one of the steps of     *)
(* SoftQuota: let in below the limit, count, abandon, or a new window.     *)
LEMMA StepIsSoft ==
  ASSUME TypeOK, [Next]_vars, NEW b \in Metered
  PROVE  SoftLetIn(b) \/ SoftCount(b) \/ SoftAbandon(b) \/ SoftNewWindow(b)
<1> USE DEF TypeOK
<1>0. ASSUME OpenOn(b)' = OpenOn(b), used'[b] = used[b] PROVE SoftAbandon(b)
  BY <1>0, OpenType DEF SoftAbandon, Open
<1>1. ASSUME NEW r \in Requests, NEW k \in Keys, NEW m \in Models, Admit(r, k, m)
      PROVE  SoftLetIn(b) \/ SoftAbandon(b)
  <2>1. used' = used /\ req[r].phase = "free"
    BY <1>1 DEF Admit
  <2>2. CASE BudgetOf(k, m) = b
    <3>1. OpenOn(b)' = OpenOn(b) \cup {r}
      BY <1>1, <2>2 DEF Admit, OpenOn
    <3>2. used[b] < LimitOf[b]
      BY <1>1, <2>2, LimitAssumption DEF Admit, Exhausted, Metered
    <3> QED
      BY <2>1, <3>1, <3>2, OpenGrows DEF SoftLetIn
  <2>3. CASE BudgetOf(k, m) # b
    <3>1. OpenOn(b)' = OpenOn(b)
      BY <1>1, <2>3 DEF Admit, OpenOn
    <3> QED
      BY <1>0, <2>1, <3>1
  <2> QED
    BY <2>2, <2>3
<1>2. ASSUME NEW r \in Requests, LeaveUncounted(r) \/ RecordFails(r) PROVE SoftAbandon(b)
  <2>1. used' = used /\ OpenOn(b)' = OpenOn(b) \ {r}
    BY <1>2 DEF LeaveUncounted, RecordFails, Free, OpenOn
  <2>2. CASE r \in OpenOn(b)
    BY <2>1, <2>2, OpenShrinks, OpenType DEF SoftAbandon
  <2>3. CASE r \notin OpenOn(b)
    BY <1>0, <2>1, <2>3
  <2> QED
    BY <2>2, <2>3
<1>3. ASSUME NEW r \in Requests, Answer(r) PROVE SoftAbandon(b)
  <2>1. used' = used /\ OpenOn(b)' = OpenOn(b)
    BY <1>3 DEF Answer, OpenOn, RequestSet
  <2> QED
    BY <1>0, <2>1
<1>4. ASSUME NEW r \in Requests, Record(r) PROVE SoftCount(b) \/ SoftAbandon(b)
  <2>1. OpenOn(b)' = OpenOn(b) \ {r} /\ req[r].phase = "answered"
    BY <1>4 DEF Record, Free, OpenOn
  <2>2. req[r].tokens \in 0 .. MaxTokens
    BY DEF RequestSet
  <2>3. CASE req[r].budget = b
    <3>1. r \in OpenOn(b) /\ used'[b] = used[b] + req[r].tokens
      BY <1>4, <2>1, <2>3 DEF OpenOn, Record
    <3> QED
      BY <2>1, <2>2, <3>1, OpenShrinks DEF SoftCount
  <2>4. CASE req[r].budget # b
    <3>1. OpenOn(b)' = OpenOn(b) /\ used'[b] = used[b]
      BY <1>4, <2>1, <2>4 DEF OpenOn, Record
    <3> QED
      BY <1>0, <3>1
  <2> QED
    BY <2>3, <2>4
<1>5. ASSUME NEW c \in Metered, WindowResets(c) PROVE SoftNewWindow(b) \/ SoftAbandon(b)
  <2>1. OpenOn(b)' = OpenOn(b)
    BY <1>5 DEF WindowResets, OpenOn
  <2>2. used'[b] = IF b = c THEN 0 ELSE used[b]
    BY <1>5 DEF WindowResets
  <2> QED
    BY <1>0, <2>1, <2>2 DEF SoftNewWindow, Open
<1>6. CASE Restart
  <2>1. used' = used /\ OpenOn(b)' = {}
    BY <1>6 DEF Restart, Free, OpenOn
  <2> QED
    BY <2>1, OpenType, FS_EmptySet DEF SoftAbandon, Open
<1>7. CASE UNCHANGED vars
  BY <1>0, <1>7 DEF vars, OpenOn
<1> QED
  BY <1>1, <1>2, <1>3, <1>4, <1>5, <1>6, <1>7 DEF Next

(* The gate implements SoftQuota for every metered budget: whatever the    *)
(* keys, limits and requests in flight, nothing is let in at or above the  *)
(* limit, nothing is counted twice, and only a new window lowers usage.    *)
THEOREM GateIsSoft == Spec => QuotaIsSoft
<1>1. Init => \A b \in Metered : Soft(b)!Init
  <2> SUFFICES ASSUME Init, NEW b \in Metered PROVE Soft(b)!Init
    OBVIOUS
  <2>1. used[b] = 0
    BY DEF Init
  <2>2. OpenOn(b) = {}
    BY DEF Init, OpenOn, Free
  <2> QED
    BY <2>1, <2>2, FS_EmptySet DEF Soft!Init
<1>2. ASSUME TypeOK, [Next]_vars, NEW b \in Metered
      PROVE  [Soft(b)!Next]_(Soft(b)!vars)
  <2>1. SoftLetIn(b) => Soft(b)!LetIn
    BY DEF SoftLetIn, Soft!LetIn, Open, Slots
  <2>2. SoftCount(b) => Soft(b)!Count
    BY DEF SoftCount, Soft!Count, Open
  <2>3. SoftAbandon(b) => Soft(b)!Abandon
    BY DEF SoftAbandon, Soft!Abandon, Open
  <2>4. SoftNewWindow(b) => Soft(b)!NewWindow
    BY DEF SoftNewWindow, Soft!NewWindow, Open
  <2> QED
    BY <1>2, <2>1, <2>2, <2>3, <2>4, StepIsSoft DEF Soft!Next
<1>3. TypeOK /\ [Next]_vars => [\A b \in Metered : [Soft(b)!Next]_(Soft(b)!vars)]_vars
  BY <1>2
<1> QED
  BY <1>1, <1>3, TypeCorrect, PTL DEF Spec, QuotaIsSoft

-----------------------------------------------------------------------------
(* Slots requests cost at least what fewer of them cost.                   *)
LEMMA CostGrows ==
  ASSUME NEW T \in Nat, NEW i \in Nat, NEW j \in Nat, i <= j
  PROVE  T * i <= T * j /\ T * (i + 1) = T * i + T
<1>1. j - i \in Nat /\ j = i + (j - i)
  OBVIOUS
<1>2. \A d \in Nat : T * d >= 0 /\ T * (i + d) = T * i + T * d
  OBVIOUS
<1>3. T * j = T * i + T * (j - i)
  BY <1>1, <1>2
<1>4. T * i \in Nat /\ T * j \in Nat /\ T * (j - i) \in Nat
  BY <1>1
<1>5. T * i <= T * j
  BY <1>1, <1>2, <1>3, <1>4
<1>6. T * (i + 1) = T * i + T
  OBVIOUS
<1> QED
  BY <1>5, <1>6

(* Nothing is used and nothing is in flight in the beginning.              *)
LEMMA InitBounded == Init => OvershootBounded
<1> SUFFICES ASSUME Init, NEW b \in Metered
             PROVE  used[b] + MaxTokens * Open(b) <= LimitOf[b] - 1 + MaxTokens * Slots
  BY DEF OvershootBounded, Open, Slots
<1>1. used[b] = 0 /\ LimitOf[b] \in Nat /\ LimitOf[b] > 0
  BY LimitAssumption DEF Init, Metered
<1>2. Open(b) \in Nat /\ Slots \in Nat /\ Open(b) <= Slots
  BY OpenType
<1>3. MaxTokens * Open(b) \in Nat /\ MaxTokens * Slots \in Nat /\ MaxTokens * Open(b) <= MaxTokens * Slots
  BY <1>2, MaxTokensAssumption, CostGrows
<1> QED
  BY <1>1, <1>3

(* Every step keeps the bound: a request adds itself only below the limit, *)
(* and when it is counted it is no longer in flight.                       *)
LEMMA StepBounded == TypeOK /\ OvershootBounded /\ [Next]_vars => OvershootBounded'
<1> SUFFICES ASSUME TypeOK, OvershootBounded, [Next]_vars, NEW b \in Metered
             PROVE  used'[b] + MaxTokens * Open(b)' <= LimitOf[b] - 1 + MaxTokens * Slots
  BY DEF OvershootBounded, Open, Slots
<1> DEFINE N == Open(b)  N1 == Open(b)'  S == Slots  L == LimitOf[b]  T == MaxTokens
<1>1. /\ used[b] \in Nat /\ L \in Nat /\ L > 0 /\ T \in Nat
      /\ used[b] + T * N <= L - 1 + T * S
  BY LimitAssumption, MaxTokensAssumption DEF TypeOK, OvershootBounded, Open, Slots, Metered
<1>2. N \in Nat /\ N <= S /\ S \in Nat
  BY OpenType
<1>3. SoftLetIn(b) \/ SoftCount(b) \/ SoftAbandon(b) \/ SoftNewWindow(b)
  BY StepIsSoft
<1>4. T * N \in Nat /\ T * S \in Nat /\ T * N <= T * S
  BY <1>1, <1>2, CostGrows
<1>5. CASE SoftLetIn(b)
  <2>1. used[b] < L /\ N + 1 <= S /\ N1 = N + 1 /\ used'[b] = used[b]
    BY <1>2, <1>5 DEF SoftLetIn
  <2> HIDE DEF N, N1, S, L, T
  <2>2. T * N1 <= T * S /\ T * N1 \in Nat
    BY <1>1, <1>2, <2>1, CostGrows
  <2> QED
    BY <1>1, <1>4, <2>1, <2>2 DEF N, N1, S, L, T
<1>6. CASE SoftCount(b)
  <2>1. PICK n \in 0 .. MaxTokens : used'[b] = used[b] + n
    BY <1>6 DEF SoftCount
  <2>2. N1 = N - 1 /\ N > 0
    BY <1>6 DEF SoftCount
  <2> HIDE DEF N, N1, S, L, T
  <2>3. N1 \in Nat /\ N = N1 + 1
    BY <1>2, <2>2
  <2>4. T * N = T * N1 + T /\ T * N1 \in Nat
    BY <1>1, <2>3, CostGrows
  <2> QED
    BY <1>1, <1>4, <2>1, <2>4 DEF N, N1, S, L, T
<1>7. CASE SoftAbandon(b)
  <2>1. N1 \in 0 .. N /\ used'[b] = used[b]
    BY <1>7 DEF SoftAbandon
  <2> HIDE DEF N, N1, S, L, T
  <2>2. N1 \in Nat /\ N1 <= N
    BY <1>2, <2>1
  <2>3. T * N1 <= T * N /\ T * N1 \in Nat
    BY <1>1, <1>2, <2>2, CostGrows
  <2> QED
    BY <1>1, <1>4, <2>1, <2>3 DEF N, N1, S, L, T
<1>8. CASE SoftNewWindow(b)
  <2>1. N1 = N /\ used'[b] = 0
    BY <1>8 DEF SoftNewWindow
  <2> HIDE DEF N, N1, S, L, T
  <2> QED
    BY <1>1, <1>4, <2>1 DEF N, N1, S, L, T
<1> QED
  BY <1>3, <1>5, <1>6, <1>7, <1>8

(* The limit is soft, but not without bound: for every limit and every     *)
(* number of concurrent requests, usage overshoots by less than what that  *)
(* many requests can cost; with one request at a time by one request, as   *)
(* ADR 0005 has it.                                                        *)
THEOREM OvershootIsBounded == Spec => []OvershootBounded
<1>1. TypeOK /\ OvershootBounded /\ [Next]_vars => TypeOK' /\ OvershootBounded'
  BY StepType, StepBounded
<1> QED
  BY InitType, InitBounded, <1>1, PTL DEF Spec

-----------------------------------------------------------------------------
(* RequestChain, for any number of gateways and any finite set of plugins: *)
(* a request comes to an end, and the plugins that protect are not got     *)
(* past.                                                                   *)

USE DEF MaxHops

LEMMA PluginsAreFinite == IsFiniteSet(Plugins) /\ Cardinality(Plugins) \in Nat
<1>1. IsFiniteSet(Plugins)
  BY ChainAssumption, FS_Union DEF Plugins
<1> QED
  BY <1>1, FS_CardinalityType

(* Taking one plugin off the list shortens it.                             *)
LEMMA OneLess ==
  ASSUME NEW S \in SUBSET Plugins, NEW p \in S
  PROVE  /\ Cardinality(S) \in Nat /\ Cardinality(S \ {p}) \in Nat
         /\ Cardinality(S \ {p}) < Cardinality(S)
<1>1. IsFiniteSet(S)
  BY PluginsAreFinite, FS_Subset
<1>2. IsFiniteSet(S \ {p}) /\ Cardinality(S \ {p}) = Cardinality(S) - 1
  BY <1>1, FS_RemoveElement
<1> QED
  BY <1>1, <1>2, FS_CardinalityType

-----------------------------------------------------------------------------
(* Types, and what each stage of the way may rely on: the guard has let    *)
(* the request in, and nothing has been applied here before the pipeline.  *)
Staged ==
  /\ step # "end" => at \in Gateways
  /\ step \in {"admitted", "plugins", "forward"} => hop < MaxHops
  /\ step \in {"arrived", "admitted"} => executed = {}
  /\ step = "plugins" => content = "chat"

SInv == ChainTypeOK /\ Staged

LEMMA EndStaged == ASSUME SInv, End PROVE SInv'
  BY DEF SInv, End, ChainTypeOK, Staged, headers

LEMMA DecideTypes ==
  ASSUME SInv, NEW p \in Plugins, NEW s \in Setups,
         NEW r \in {"bypassed", "already", "applied", "passed", "failed"}, Decide(p, s, r)
  PROVE  /\ last' \in Decisions /\ fixed' \in SUBSET Builtins
         /\ runs' \in [Builtins -> 0 .. 2]
  BY DEF SInv, ChainTypeOK, Decide, Decisions

LEMMA InitStaged == ChainInit => SInv
  BY DEF ChainInit, SInv, ChainTypeOK, Staged, Decisions

LEMMA NextStaged == SInv /\ [ChainNext]_chainVars => SInv'
<1> SUFFICES ASSUME SInv, [ChainNext]_chainVars
             PROVE  SInv'
  OBVIOUS
<1>1. CASE Arrive
  BY <1>1, EndStaged, ChainAssumption
  DEF Arrive, LoopDetected, SInv, ChainTypeOK, Staged, headers, history, Hops
<1>2. CASE AnswerHere
  BY <1>2, EndStaged DEF AnswerHere
<1>3. CASE EnterPipeline
  BY <1>3 DEF EnterPipeline, SInv, ChainTypeOK, Staged, headers, history
<1>4. CASE PipelineDone
  BY <1>4 DEF PipelineDone, SInv, ChainTypeOK, Staged, headers, history
<1>5. CASE Upstream
  BY <1>5, EndStaged DEF Upstream
<1>6. ASSUME NEW p \in Plugins, PluginOff(p)
      PROVE  SInv'
  BY <1>6 DEF PluginOff, SInv, ChainTypeOK, Staged, headers, history
<1>7. ASSUME NEW p \in Plugins, NEW s \in Setups, PluginSkipped(p, s)
      PROVE  SInv'
  <2>1. last' \in Decisions /\ fixed' \in SUBSET Builtins /\ runs' \in [Builtins -> 0 .. 2]
    BY <1>7, DecideTypes DEF PluginSkipped
  <2> QED
    BY <1>7, <2>1 DEF PluginSkipped, SInv, ChainTypeOK, Staged, headers
<1>8. ASSUME NEW p \in Plugins, NEW s \in Setups, PluginRuns(p, s)
      PROVE  SInv'
  <2>1. last' \in Decisions /\ fixed' \in SUBSET Builtins /\ runs' \in [Builtins -> 0 .. 2]
    BY <1>8, DecideTypes DEF PluginRuns
  <2> QED
    BY <1>8, <2>1 DEF PluginRuns, SInv, ChainTypeOK, Staged, headers
<1>9. ASSUME NEW p \in Plugins, NEW s \in Setups, PluginRefuses(p, s)
      PROVE  SInv'
  BY <1>9, EndStaged DEF PluginRefuses
<1>10. ASSUME NEW next \in Gateways, Forward(next)
       PROVE  SInv'
  <2>1. /\ trace' \in SUBSET Gateways /\ applied' \in SUBSET Builtins
        /\ hop' \in Hops
    BY <1>10, ChainAssumption DEF Forward, AppliedHeader, SInv, ChainTypeOK, Staged, Hops
  <2>2. /\ first' \in Gateways /\ at' \in Gateways /\ step' = "arrived"
        /\ executed' = {} /\ bypass' = FALSE /\ last' = NoDecision
        /\ UNCHANGED <<content, todo, runs, fixed>>
    BY <1>10 DEF Forward, SInv, ChainTypeOK
  <2> QED
    BY <2>1, <2>2 DEF SInv, ChainTypeOK, Staged
<1>11. CASE UNCHANGED chainVars
  BY <1>11 DEF chainVars, headers, history, SInv, ChainTypeOK, Staged
<1> QED
  BY <1>1, <1>2, <1>3, <1>4, <1>5, <1>6, <1>7, <1>8, <1>9, <1>10, <1>11 DEF ChainNext

(* What a gateway and the headers hold keeps its type (Proxy.ServeHTTP).   *)
THEOREM ChainTypesHold == ChainSpec => []ChainTypeOK
<1>1. SInv => ChainTypeOK
  BY DEF SInv
<1> QED
  BY <1>1, InitStaged, NextStaged, PTL DEF ChainSpec

-----------------------------------------------------------------------------
LEMMA HopsLeft ==
  ASSUME SInv
  PROVE  /\ hop \in Int /\ MaxHops - hop \in Nat
         /\ (MaxHops - hop) * (Cardinality(Plugins) + 4) \in Nat
<1>1. hop \in Int /\ MaxHops - hop \in Nat
  BY ChainAssumption DEF SInv, ChainTypeOK, Hops
<1>2. ASSUME NEW d \in Nat, NEW k \in Nat PROVE d * k \in Nat
  OBVIOUS
<1> QED
  BY <1>1, <1>2, PluginsAreFinite

LEMMA PluginTaken ==
  ASSUME SInv, NEW p \in todo, todo' = todo \ {p}, step = "plugins",
         UNCHANGED <<step, hop>>
  PROVE  Left' < Left
<1> DEFINE C == Cardinality(Plugins)
           A == Cardinality(todo)
           B == Cardinality(todo')
           rest == (MaxHops - hop) * (C + 4)
<1>1. A \in Nat /\ B \in Nat /\ B < A
  BY OneLess DEF SInv, ChainTypeOK
<1>2. rest \in Int
  BY HopsLeft
<1>3. Left = 1 + rest + A + 1 /\ Left' = 1 + rest + B + 1
  BY <1>1, <1>2 DEF Left, LeftHere
<1> QED
  BY <1>1, <1>2, <1>3

LEMMA EndIsLess == ASSUME SInv, step # "end", End PROVE Left' < Left
<1> DEFINE C == Cardinality(Plugins)
           rest == (MaxHops - hop) * (C + 4)
<1>1. C \in Nat /\ rest \in Nat
  BY HopsLeft, PluginsAreFinite
<1>2. LeftHere \in Nat
  <2>1. Cardinality(todo) \in Nat
    BY PluginsAreFinite, FS_Subset, FS_CardinalityType DEF SInv, ChainTypeOK
  <2> QED
    BY <1>1, <2>1 DEF LeftHere, SInv, ChainTypeOK
<1>3. Left = 1 + rest + LeftHere /\ Left' = 0
  BY DEF Left, End
<1> QED
  BY <1>1, <1>2, <1>3

LEMMA StepIsLess == ASSUME SInv, ChainNext PROVE Left' < Left
<1> DEFINE C == Cardinality(Plugins)
           rest == (MaxHops - hop) * (C + 4)
<1>0. C \in Nat /\ rest \in Int
  BY HopsLeft, PluginsAreFinite
<1>1. CASE Arrive
  <2>1. CASE LoopDetected
    BY <1>1, <2>1, EndIsLess DEF Arrive
  <2>2. CASE ~ LoopDetected
    <3>1. step = "arrived" /\ step' = "admitted" /\ hop' = hop
      BY <1>1, <2>2 DEF Arrive, headers
    <3>2. Left = 1 + rest + C + 3 /\ Left' = 1 + rest + C + 2
      BY <1>0, <3>1 DEF Left, LeftHere
    <3> QED
      BY <1>0, <3>2
  <2> QED
    BY <2>1, <2>2
<1>2. CASE AnswerHere
  BY <1>2, EndIsLess DEF AnswerHere
<1>3. CASE EnterPipeline
  <2>1. hop' = hop /\ step = "admitted"
    BY <1>3 DEF EnterPipeline, headers
  <2>2. Left = 1 + rest + C + 2
    BY <1>0, <2>1 DEF Left, LeftHere
  <2>3. CASE content = "chat"
    <3>1. step' = "plugins" /\ todo' = Plugins
      BY <1>3, <2>3 DEF EnterPipeline
    <3>2. Left' = 1 + rest + C + 1
      BY <1>0, <2>1, <3>1 DEF Left, LeftHere
    <3> QED
      BY <1>0, <2>2, <3>2
  <2>4. CASE content # "chat"
    <3>1. step' = "forward"
      BY <1>3, <2>4 DEF EnterPipeline
    <3>2. Left' = 1 + rest + 0
      BY <1>0, <2>1, <3>1 DEF Left, LeftHere
    <3> QED
      BY <1>0, <2>2, <3>2
  <2> QED
    BY <2>3, <2>4
<1>4. CASE PipelineDone
  <2>1. step = "plugins" /\ step' = "forward" /\ hop' = hop /\ todo = {}
    BY <1>4 DEF PipelineDone, headers
  <2>2. Left = 1 + rest + 0 + 1 /\ Left' = 1 + rest + 0
    BY <1>0, <2>1, FS_EmptySet DEF Left, LeftHere
  <2> QED
    BY <1>0, <2>2
<1>5. CASE Upstream
  BY <1>5, EndIsLess DEF Upstream
<1>6. ASSUME NEW p \in Plugins, PluginOff(p)
      PROVE  Left' < Left
  BY <1>6, PluginTaken DEF PluginOff, headers
<1>7. ASSUME NEW p \in Plugins, NEW s \in Setups, PluginSkipped(p, s)
      PROVE  Left' < Left
  BY <1>7, PluginTaken DEF PluginSkipped, headers
<1>8. ASSUME NEW p \in Plugins, NEW s \in Setups, PluginRuns(p, s)
      PROVE  Left' < Left
  BY <1>8, PluginTaken DEF PluginRuns, headers
<1>9. ASSUME NEW p \in Plugins, NEW s \in Setups, PluginRefuses(p, s)
      PROVE  Left' < Left
  BY <1>9, EndIsLess DEF PluginRefuses
<1>10. ASSUME NEW next \in Gateways, Forward(next)
       PROVE  Left' < Left
  <2>1. /\ step = "forward" /\ step' = "arrived" /\ hop' = hop + 1
        /\ hop \in Int /\ MaxHops - hop \in Nat \ {0}
    BY <1>10, HopsLeft DEF Forward, SInv, Staged
  <2>2. (MaxHops - hop) * (C + 4) = (MaxHops - hop') * (C + 4) + C + 4
    <3>1. ASSUME NEW d \in Nat, NEW k \in Nat PROVE (d + 1) * k = d * k + k
      OBVIOUS
    <3>2. MaxHops - hop' \in Nat /\ MaxHops - hop = (MaxHops - hop') + 1
      BY <2>1
    <3>3. ((MaxHops - hop') + 1) * (C + 4) = (MaxHops - hop') * (C + 4) + (C + 4)
      BY <1>0, <3>1, <3>2
    <3> QED
      BY <1>0, <2>1, <3>2, <3>3
  <2>3. Left = 1 + rest + 0 /\ Left' = 1 + (MaxHops - hop') * (C + 4) + C + 3
    BY <1>0, <2>1 DEF Left, LeftHere
  <2>4. (MaxHops - hop') * (C + 4) \in Int
    BY <1>0, <2>1
  <2> QED
    BY <1>0, <2>2, <2>3, <2>4
<1> QED
  BY <1>1, <1>2, <1>3, <1>4, <1>5, <1>6, <1>7, <1>8, <1>9, <1>10 DEF ChainNext

(* "detect and block cyclic loops between cascaded gateways": however many *)
(* gateways name each other as providers, every step of a request leaves   *)
(* less to do. Without the hop limit of the guard Left has no bound.       *)
THEOREM RequestsEnd == ChainSpec => RequestEnds
<1>1. SInv /\ [ChainNext]_chainVars => [Left' < Left]_chainVars
  BY StepIsLess
<1> QED
  BY <1>1, InitStaged, NextStaged, PTL DEF ChainSpec, RequestEnds

-----------------------------------------------------------------------------
(* A built-in that has been applied and may be bypassed everywhere is      *)
(* named in the header, or among those executed here and looked at         *)
(* already; and only the gateway that the client called knows its wish to  *)
(* bypass plugins.                                                         *)
Applied ==
  \A p \in Builtins \ fixed :
    /\ runs[p] <= 1
    /\ runs[p] = 1 /\ step # "end" =>
         content = "chat" /\ p \in applied \cup (executed \ todo)

WishIsLocal == step # "end" /\ bypass => at = first

PInv == SInv /\ Applied /\ WishIsLocal /\ ProtectionHolds

LEMMA EndKeeps == ASSUME PInv, End PROVE (Applied /\ WishIsLocal /\ ProtectionHolds)'
  BY DEF PInv, End, Applied, WishIsLocal, ProtectionHolds, NoDecision, headers

LEMMA PluginKeeps ==
  ASSUME PInv, NEW p \in todo, NEW s \in Setups, step = "plugins",
         NEW r \in {"bypassed", "already", "applied", "passed", "failed"}, Decide(p, s, r),
         todo' = todo \ {p}, UNCHANGED <<first, at, step, content, headers>>,
         executed' = IF r = "applied" THEN executed \cup ({p} \cap Builtins) ELSE executed,
         r = "applied" => ~ AlreadyApplied(p, s),
         s.closed => r \in {"applied", "passed"},
         r = "bypassed" => Bypassed(p, s)
  PROVE  (Applied /\ WishIsLocal /\ ProtectionHolds)'
<1>1. ASSUME NEW q \in Builtins \ fixed'
      PROVE  /\ runs'[q] <= 1
             /\ runs'[q] = 1 => content' = "chat" /\ q \in applied' \cup (executed' \ todo')
  <2>1. q \in Builtins \ fixed /\ runs[q] \in 0 .. 1 /\ content = "chat"
    BY <1>1 DEF Decide, PInv, Applied, SInv, ChainTypeOK, Staged
  <2>2. CASE q = p /\ r = "applied"
    <3>1. s.bypassable
      BY <1>1, <2>2 DEF Decide
    <3>2. q \notin applied
      BY <2>1, <2>2, <3>1 DEF AlreadyApplied
    <3>3. runs[q] = 0
      BY <2>1, <2>2, <3>2 DEF PInv, Applied
    <3>4. runs'[q] = 1 /\ q \in executed' \ todo'
      BY <2>1, <2>2, <3>3 DEF Decide
    <3> QED
      BY <2>1, <3>4 DEF headers
  <2>3. CASE ~ (q = p /\ r = "applied")
    <3>1. runs'[q] = runs[q]
      BY <2>1, <2>3 DEF Decide
    <3>2. runs[q] = 1 => q \in applied \cup (executed \ todo)
      BY <2>1 DEF PInv, Applied
    <3> QED
      BY <2>1, <3>1, <3>2 DEF headers
  <2> QED
    BY <2>2, <2>3
<1>2. Applied'
  BY <1>1 DEF Applied
<1>3. WishIsLocal'
  BY DEF PInv, WishIsLocal, headers
<1>4. ProtectionHolds'
  <2>1. last' = [plugin |-> p, setup |-> s, result |-> r]
    BY DEF Decide
  <2>2. r = "bypassed" => s.bypassable /\ at = first
    BY DEF Bypassed, PInv, WishIsLocal
  <2> QED
    BY <2>1, <2>2 DEF ProtectionHolds
<1> QED
  BY <1>2, <1>3, <1>4

LEMMA InitProtected == ChainInit => PInv
<1> SUFFICES ASSUME ChainInit
             PROVE  Applied /\ WishIsLocal /\ ProtectionHolds
  BY InitStaged DEF PInv
<1>1. Applied /\ WishIsLocal
  BY DEF ChainInit, Applied, WishIsLocal
<1>2. last.setup.closed = FALSE /\ last.result = "none"
  BY DEF ChainInit, NoDecision
<1> QED
  BY <1>1, <1>2 DEF ProtectionHolds

LEMMA NextProtected == PInv /\ [ChainNext]_chainVars => PInv'
<1> SUFFICES ASSUME PInv, [ChainNext]_chainVars
             PROVE  (Applied /\ WishIsLocal /\ ProtectionHolds)'
  BY NextStaged DEF PInv
<1>1. CASE Arrive
  <2>1. CASE LoopDetected
    BY <1>1, <2>1, EndKeeps DEF Arrive
  <2>2. CASE ~ LoopDetected
    BY <1>1, <2>2 DEF Arrive, PInv, Applied, WishIsLocal, ProtectionHolds, headers, history
  <2> QED
    BY <2>1, <2>2
<1>2. CASE AnswerHere
  BY <1>2, EndKeeps DEF AnswerHere
<1>3. CASE EnterPipeline
  BY <1>3 DEF EnterPipeline, PInv, SInv, Staged, Applied, WishIsLocal, ProtectionHolds, headers, history
<1>4. CASE PipelineDone
  BY <1>4 DEF PipelineDone, PInv, Applied, WishIsLocal, ProtectionHolds, headers, history
<1>5. CASE Upstream
  BY <1>5, EndKeeps DEF Upstream
<1>6. ASSUME NEW p \in Plugins, PluginOff(p)
      PROVE  (Applied /\ WishIsLocal /\ ProtectionHolds)'
  BY <1>6 DEF PluginOff, PInv, Applied, WishIsLocal, ProtectionHolds, headers, history
<1>7. ASSUME NEW p \in Plugins, NEW s \in Setups, PluginSkipped(p, s)
      PROVE  (Applied /\ WishIsLocal /\ ProtectionHolds)'
  <2>1. ~ s.closed
    BY <1>7 DEF PluginSkipped, Bypassed, AlreadyApplied, Setups
  <2>2. PICK r \in {"bypassed", "already"} : Decide(p, s, r) /\ (r = "bypassed" => Bypassed(p, s))
    BY <1>7 DEF PluginSkipped
  <2> QED
    BY <1>7, <2>1, <2>2, PluginKeeps DEF PluginSkipped
<1>8. ASSUME NEW p \in Plugins, NEW s \in Setups, PluginRuns(p, s)
      PROVE  (Applied /\ WishIsLocal /\ ProtectionHolds)'
  <2>1. PICK r \in {"applied", "passed", "failed"} :
          /\ ~ (r = "failed" /\ s.closed) /\ Decide(p, s, r)
          /\ executed' = IF r = "applied" THEN executed \cup ({p} \cap Builtins) ELSE executed
    BY <1>8 DEF PluginRuns
  <2> QED
    BY <1>8, <2>1, PluginKeeps DEF PluginRuns
<1>9. ASSUME NEW p \in Plugins, NEW s \in Setups, PluginRefuses(p, s)
      PROVE  (Applied /\ WishIsLocal /\ ProtectionHolds)'
  BY <1>9, EndKeeps DEF PluginRefuses
<1>10. ASSUME NEW next \in Gateways, Forward(next)
       PROVE  (Applied /\ WishIsLocal /\ ProtectionHolds)'
  <2>1. Applied'
    BY <1>10 DEF Forward, AppliedHeader, PInv, Applied
  <2> QED
    BY <1>10, <2>1 DEF Forward, WishIsLocal, ProtectionHolds, NoDecision
<1>11. CASE UNCHANGED chainVars
  BY <1>11 DEF chainVars, headers, history, PInv, Applied, WishIsLocal, ProtectionHolds
<1> QED
  BY <1>1, <1>2, <1>3, <1>4, <1>5, <1>6, <1>7, <1>8, <1>9, <1>10, <1>11 DEF ChainNext

(* Whatever headers a client or an earlier gateway sends, no request gets  *)
(* past a plugin that protects, and none is changed twice by a built-in    *)
(* plugin that all gateways let bypass (PipelineExecutor.Execute,          *)
(* ComputeAppliedHeader).                                                  *)
THEOREM PluginsAlwaysApply == ChainSpec => []PluginsApply
<1>1. PInv => PluginsApply
  BY DEF PInv, Applied, PluginsApply, AppliedOnce
<1> QED
  BY <1>1, InitProtected, NextProtected, PTL DEF ChainSpec

-----------------------------------------------------------------------------
(* StreamRelay, for any number of events. First the end of an answer:      *)
(* every idle timeout is reported.                                         *)

(* Types of what decides on the end of an answer.                          *)
ControlOK ==
  /\ wire \in {"open", "eof", "broken", "closed", "gone"}
  /\ err \in {"none", "eof", "broken", "closed", "gone", "idle"}
  /\ pc \in {"read", "check", "relay", "write", "end", "done"}
  /\ timer \in [armed : BOOLEAN, timedOut : BOOLEAN,
                fn : {"waiting", "expired", "flagged", "cancelled", "closed"}]

(* The timer's function sets its flag before it cancels and closes, and    *)
(* the handler looks at the flag after every Read: an error of the closed  *)
(* body does not outlive the check.                                        *)
FlagFirst ==
  /\ timer.fn \in {"flagged", "cancelled", "closed"} => timer.timedOut
  /\ wire = "closed" => timer.timedOut
  /\ err = "closed" => pc = "check" /\ timer.timedOut
  /\ pc \in {"end", "done"} => err # "none"
  /\ pc = "read" => err = "none"

IInv == ControlOK /\ FlagFirst /\ TimeoutIsReported

-----------------------------------------------------------------------------
(* Every action keeps the types of the control state.                      *)
LEMMA StepControl == ControlOK /\ [RelayNext]_relayVars => ControlOK'
<1> SUFFICES ASSUME ControlOK, [RelayNext]_relayVars PROVE ControlOK'
  OBVIOUS
<1> USE DEF ControlOK, body, parser
<1>1. ASSUME NEW e \in Event, Send(e) PROVE ControlOK'
  BY <1>1 DEF Send
<1>2. ASSUME NEW how \in {"eof", "broken"}, EndAnswer(how) PROVE ControlOK'
  BY <1>2 DEF EndAnswer
<1>3. CASE ClientGone
  BY <1>3 DEF ClientGone
<1>4. CASE ReadEvent
  BY <1>4 DEF ReadEvent
<1>5. CASE ReadEnd
  BY <1>5 DEF ReadEnd
<1>6. CASE CheckTimer
  BY <1>6 DEF CheckTimer, AfterEvent
<1>7. CASE RelayEvent
  BY <1>7 DEF RelayEvent, AfterEvent
<1>8. CASE Written
  BY <1>8 DEF Written, AfterEvent
<1>9. CASE EndStream \/ EndPlain
  BY <1>9 DEF EndStream, EndPlain
<1>10. CASE Timer
  BY <1>10 DEF Timer, Expire, SetTimedOut, CancelContext, CloseBody
<1>11. CASE UNCHANGED relayVars
  BY <1>11 DEF relayVars
<1> QED
  BY <1>1, <1>2, <1>3, <1>4, <1>5, <1>6, <1>7, <1>8, <1>9, <1>10, <1>11
     DEF RelayNext, Environment, Handler

(* Every action keeps the order of flag, cancellation and close, and the   *)
(* log row is written from what the last check left.                       *)
LEMMA StepInv == IInv /\ [RelayNext]_relayVars => IInv'
<1> SUFFICES ASSUME IInv, [RelayNext]_relayVars PROVE FlagFirst' /\ TimeoutIsReported'
  BY StepControl DEF IInv
<1> USE DEF IInv, ControlOK, FlagFirst, TimeoutIsReported, body
<1>1. ASSUME NEW e \in Event, Send(e) PROVE FlagFirst' /\ TimeoutIsReported'
  BY <1>1 DEF Send
<1>2. ASSUME NEW how \in {"eof", "broken"}, EndAnswer(how)
      PROVE  FlagFirst' /\ TimeoutIsReported'
  BY <1>2 DEF EndAnswer
<1>3. CASE ClientGone
  BY <1>3 DEF ClientGone
<1>4. CASE ReadEvent
  BY <1>4 DEF ReadEvent
<1>5. CASE ReadEnd
  BY <1>5 DEF ReadEnd
<1>6. CASE CheckTimer
  BY <1>6 DEF CheckTimer, AfterEvent
<1>7. CASE RelayEvent
  BY <1>7 DEF RelayEvent, AfterEvent
<1>8. CASE Written
  BY <1>8 DEF Written, AfterEvent
<1>9. CASE EndStream \/ EndPlain
  <2>1. result'.timedOut = TimeoutSeen /\ UNCHANGED <<wire, err, timer>> /\ pc' = "done" /\ pc = "end"
    BY <1>9 DEF EndStream, EndPlain
  <2>2. err \in {"eof", "broken", "gone", "idle"}
    BY <2>1
  <2> QED
    BY <2>1, <2>2 DEF TimeoutSeen
<1>10. CASE Timer
  BY <1>10 DEF Timer, Expire, SetTimedOut, CancelContext, CloseBody
<1>11. CASE UNCHANGED relayVars
  BY <1>11 DEF relayVars
<1> QED
  BY <1>1, <1>2, <1>3, <1>4, <1>5, <1>6, <1>7, <1>8, <1>9, <1>10, <1>11
     DEF RelayNext, Environment, Handler

(* An answer that neither upstream nor the client ended is logged as an    *)
(* idle timeout, in every order of the timer's function and the handler.   *)
THEOREM TimeoutsAreReported == RelaySpec => []TimeoutIsReported
<1>1. RelayInit => IInv
  BY DEF RelayInit, IInv, ControlOK, FlagFirst, TimeoutIsReported
<1>2. IInv => TimeoutIsReported
  BY DEF IInv
<1> QED
  BY <1>1, <1>2, StepInv, PTL DEF RelaySpec

-----------------------------------------------------------------------------
(* What of the events a client is owed, one event more at a time. The      *)
(* operators say of any list of events what OwedOf and Relayed say of the  *)
(* one that was sent.                                                      *)
Wanted(a, e) == ~ a.injected \/ e.kind # "usage" \/ e.form = "torn"

OwedIn(a, s, n) == {i \in 1 .. n : Wanted(a, s[i])}

RelayedOf(a, r, s, n) ==
  /\ Len(r) = Cardinality(OwedIn(a, s, n))
  /\ \A i \in OwedIn(a, s, n) : r[Cardinality(OwedIn(a, s, i))] = s[i]

LEMMA OwedGrows ==
  ASSUME NEW a, NEW s, NEW n \in Nat
  PROVE  /\ IsFiniteSet(OwedIn(a, s, n)) /\ Cardinality(OwedIn(a, s, n)) \in 0 .. n
         /\ OwedIn(a, s, n + 1) = IF Wanted(a, s[n + 1]) THEN OwedIn(a, s, n) \cup {n + 1} ELSE OwedIn(a, s, n)
         /\ Wanted(a, s[n + 1]) => Cardinality(OwedIn(a, s, n + 1)) = Cardinality(OwedIn(a, s, n)) + 1
<1>1. IsFiniteSet(1 .. n) /\ Cardinality(1 .. n) = n
  BY FS_Interval
<1>2. OwedIn(a, s, n) \in SUBSET (1 .. n)
  BY DEF OwedIn
<1>3. IsFiniteSet(OwedIn(a, s, n)) /\ Cardinality(OwedIn(a, s, n)) <= n
  BY <1>1, <1>2, FS_Subset
<1>4. Cardinality(OwedIn(a, s, n)) \in Nat
  BY <1>3, FS_CardinalityType
<1>5. OwedIn(a, s, n + 1) = IF Wanted(a, s[n + 1]) THEN OwedIn(a, s, n) \cup {n + 1} ELSE OwedIn(a, s, n)
  <2>1. 1 .. n + 1 = (1 .. n) \cup {n + 1}
    OBVIOUS
  <2>2. OwedIn(a, s, n + 1) = {i \in (1 .. n) \cup {n + 1} : Wanted(a, s[i])}
    BY <2>1 DEF OwedIn
  <2> QED
    BY <2>2 DEF OwedIn
<1>6. ASSUME Wanted(a, s[n + 1]) PROVE Cardinality(OwedIn(a, s, n + 1)) = Cardinality(OwedIn(a, s, n)) + 1
  <2>1. n + 1 \notin OwedIn(a, s, n)
    BY <1>2
  <2> QED
    BY <2>1, <1>3, <1>5, <1>6, FS_AddElement
<1> QED
  BY <1>3, <1>4, <1>5, <1>6

(* Nothing of nothing.                                                     *)
LEMMA NothingOwed == \A a, s : OwedIn(a, s, 0) = {} /\ RelayedOf(a, <<>>, s, 0)
<1>1. \A a, s : OwedIn(a, s, 0) = {}
  BY DEF OwedIn
<1>2. Cardinality({}) = 0
  BY FS_EmptySet
<1> QED
  BY <1>1, <1>2 DEF RelayedOf

(* The next event, if it is owed.                                          *)
LEMMA RelaysNext ==
  ASSUME NEW a, NEW s \in Seq(Event), NEW n \in Nat, n < Len(s),
         NEW r \in Seq(Event), RelayedOf(a, r, s, n)
  PROVE  RelayedOf(a, IF Wanted(a, s[n + 1]) THEN r \o <<s[n + 1]>> ELSE r, s, n + 1)
<1> DEFINE e == s[n + 1]
           C(k) == Cardinality(OwedIn(a, s, k))
<1>1. /\ C(n) \in Nat
      /\ OwedIn(a, s, n + 1) = IF Wanted(a, e) THEN OwedIn(a, s, n) \cup {n + 1} ELSE OwedIn(a, s, n)
      /\ Wanted(a, e) => C(n + 1) = C(n) + 1
  <2>1. C(n) \in 0 .. n
    BY OwedGrows
  <2>2. OwedIn(a, s, n + 1) = IF Wanted(a, e) THEN OwedIn(a, s, n) \cup {n + 1} ELSE OwedIn(a, s, n)
    BY OwedGrows, Zenon
  <2>3. Wanted(a, e) => C(n + 1) = C(n) + 1
    BY OwedGrows, Zenon
  <2> QED
    BY <2>1, <2>2, <2>3
<1>2. Len(r) = C(n) /\ \A i \in OwedIn(a, s, n) : r[C(i)] = s[i]
  BY DEF RelayedOf
<1>3. CASE ~ Wanted(a, e)
  BY <1>1, <1>3 DEF RelayedOf
<1>4. CASE Wanted(a, e)
  <2> DEFINE t == r \o <<e>>
  <2>1. e \in Event
    OBVIOUS
  <2>2. Len(t) = Len(r) + 1 /\ t[Len(r) + 1] = e /\ \A k \in 1 .. Len(r) : t[k] = r[k]
    BY <2>1
  <2>3. ASSUME NEW i \in OwedIn(a, s, n) PROVE C(i) \in 1 .. C(n)
    <3>1. i \in 1 .. n /\ i \in Nat /\ Wanted(a, s[i])
      BY DEF OwedIn
    <3>2. OwedIn(a, s, i) \in SUBSET OwedIn(a, s, n)
      BY <3>1 DEF OwedIn
    <3>3. IsFiniteSet(OwedIn(a, s, n)) /\ IsFiniteSet(OwedIn(a, s, i))
      BY <3>1, OwedGrows
    <3>4. C(i) <= C(n) /\ C(i) \in Nat
      BY <3>2, <3>3, FS_Subset, FS_CardinalityType
    <3>5. i \in OwedIn(a, s, i)
      BY <3>1 DEF OwedIn
    <3>6. C(i) # 0
      BY <3>3, <3>5, FS_EmptySet
    <3> QED
      BY <3>4, <3>6, <1>1
  <2> HIDE DEF t, C
  <2>4. Len(t) = C(n + 1)
    BY <2>2, <1>1, <1>2, <1>4
  <2>5. t[C(n + 1)] = e
    BY <2>2, <1>1, <1>2, <1>4
  <2>6. \A i \in OwedIn(a, s, n) : t[C(i)] = s[i]
    BY <2>2, <2>3, <1>2
  <2>7. \A i \in OwedIn(a, s, n + 1) : t[C(i)] = s[i]
    BY <2>5, <2>6, <1>1, <1>4
  <2>8. RelayedOf(a, t, s, n + 1)
    BY <2>4, <2>7 DEF RelayedOf, C
  <2> QED
    BY <2>8, <1>4 DEF t
<1> QED
  BY <1>3, <1>4

(* Later events change nothing about those before.                         *)
LEMMA RelayedStays ==
  ASSUME NEW a, NEW s \in Seq(Event), NEW e \in Event, NEW n \in 0 .. Len(s), NEW r, RelayedOf(a, r, s, n)
  PROVE  RelayedOf(a, r, Append(s, e), n)
<1> DEFINE t == Append(s, e)
<1>1. \A i \in 1 .. Len(s) : t[i] = s[i]
  OBVIOUS
<1> HIDE DEF t
<1>2. ASSUME NEW k \in 0 .. n PROVE OwedIn(a, t, k) = OwedIn(a, s, k)
  BY <1>1 DEF OwedIn
<1>3. OwedIn(a, t, n) = OwedIn(a, s, n) /\ \A i \in OwedIn(a, s, n) : i \in 1 .. n
  BY <1>2 DEF OwedIn
<1>4. \A i \in OwedIn(a, s, n) : OwedIn(a, t, i) = OwedIn(a, s, i) /\ t[i] = s[i]
  BY <1>1, <1>2, <1>3
<1>5. RelayedOf(a, r, t, n)
  BY <1>3, <1>4 DEF RelayedOf
<1> QED
  BY <1>5 DEF t

-----------------------------------------------------------------------------
(* What n events of a list make of the usage seen and of the chunks        *)
(* counted.                                                                *)
Counts(c, u, s, n) ==
  /\ u <=> \E i \in 1 .. n : ReportsUsage(s[i])
  /\ (\E i \in 1 .. n : s[i].form = "whole" /\ IsChunk(s[i])) => c > 0

LEMMA CountsNext ==
  ASSUME NEW s, NEW n \in Nat, NEW c \in Nat, NEW d \in Nat, NEW u \in BOOLEAN, Counts(c, u, s, n),
         d >= c, s[n + 1].form = "whole" /\ IsChunk(s[n + 1]) => d > c
  PROVE  Counts(d, u \/ ReportsUsage(s[n + 1]), s, n + 1)
<1>1. 1 .. n + 1 = (1 .. n) \cup {n + 1}
  OBVIOUS
<1>2. (\E i \in 1 .. n + 1 : ReportsUsage(s[i])) <=> (u \/ ReportsUsage(s[n + 1]))
  BY <1>1 DEF Counts
<1>3. (\E i \in 1 .. n + 1 : s[i].form = "whole" /\ IsChunk(s[i])) => d > 0
  <2>1. SUFFICES ASSUME NEW i \in 1 .. n + 1, s[i].form = "whole", IsChunk(s[i]) PROVE d > 0
    OBVIOUS
  <2>2. CASE i \in 1 .. n
    <3>1. c > 0
      BY <2>1, <2>2 DEF Counts
    <3> QED
      BY <3>1
  <2>3. CASE i = n + 1
    <3>1. d > c
      BY <2>1, <2>3
    <3> QED
      BY <3>1
  <2> QED
    BY <2>1, <2>2, <2>3, <1>1
<1> QED
  BY <1>2, <1>3 DEF Counts

(* What has passed to the client and the counters.                         *)
Passed == IF pc = "done" THEN got ELSE got - Len(buf)

(* The event buffer holds the event just read, until a blank line ends it; *)
(* only the last of a stream may lack one.                                 *)
StreamInv ==
  /\ buf = <<>> \/ (got > 0 /\ buf = <<sent[got]>>)
  /\ pc = "relay" => buf # <<>>
  /\ pc = "write" => buf = <<>>
  /\ pc \in {"read", "end"} /\ buf # <<>> => sent[got].form # "whole"
  /\ RelayedOf(answer, relayed, sent, Passed)
  /\ chunks <= got - Len(buf)
  /\ pc # "done" => Counts(chunks, usage, sent, got - Len(buf))

(* Another body is held back as long as it is read.                        *)
PlainInv ==
  /\ buf = SubSeq(sent, 1, got)
  /\ chunks = 0
  /\ pc \notin {"relay", "write"}
  /\ pc # "done" => relayed = <<>>
  /\ pc = "done" => relayed = <<>> \/ (relayed = sent /\ wire # "open")

(* A body that has ended has been read.                                    *)
EndInv ==
  /\ \A i \in 1 .. Len(sent) : sent[i].form # "whole" => i = Len(sent)
  /\ err = "eof" => got = Len(sent) /\ wire # "open"

RInv ==
  /\ RelayTypeOK /\ EndInv /\ UsageCounted
  /\ IsSSE => StreamInv
  /\ ~ IsSSE => PlainInv

LEMMA RelayStarts == RelayInit => RInv
<1> SUFFICES ASSUME RelayInit PROVE RInv
  OBVIOUS
<1> USE DEF RelayInit
<1>1. RelayTypeOK
  <2>1. sent \in Seq(Event) /\ Len(sent) = 0 /\ buf \in Seq(Event) /\ relayed \in Seq(Event)
    OBVIOUS
  <2>2. Len(sent) <= MaxEvents /\ got \in 0 .. Len(sent) /\ chunks \in 0 .. got
    BY <2>1, MaxEventsAssumption
  <2> QED
    BY <2>1, <2>2 DEF RelayTypeOK
<1>2. EndInv /\ UsageCounted
  BY DEF EndInv, UsageCounted
<1>3. StreamInv
  <2>1. RelayedOf(answer, relayed, sent, Passed)
    BY NothingOwed DEF Passed
  <2>2. Counts(chunks, usage, sent, got - Len(buf))
    BY DEF Counts
  <2> QED
    BY <2>1, <2>2 DEF StreamInv
<1>4. PlainInv
  BY DEF PlainInv
<1> QED
  BY <1>1, <1>2, <1>3, <1>4 DEF RInv

(* Steps of upstream, client and timer that leave the stream alone.        *)
LEMMA QuietStep ==
  ASSUME RInv, UNCHANGED <<answer, sent, got, buf, err, pc, relayed, chunks, usage, result>>,
         wire' \in {"open", "eof", "broken", "closed", "gone"}, wire' = "open" => wire = "open",
         timer' \in [armed : BOOLEAN, timedOut : BOOLEAN,
                     fn : {"waiting", "expired", "flagged", "cancelled", "closed"}]
  PROVE  RInv'
<1>1. RelayTypeOK' /\ EndInv' /\ UsageCounted'
  BY DEF RInv, RelayTypeOK, EndInv, UsageCounted, IsSSE
<1>2. IsSSE' = IsSSE
  BY DEF IsSSE
<1>3. ASSUME IsSSE PROVE StreamInv'
  BY <1>3 DEF RInv, StreamInv, Passed
<1>4. ASSUME ~ IsSSE PROVE PlainInv'
  BY <1>4 DEF RInv, PlainInv
<1> QED
  BY <1>1, <1>2, <1>3, <1>4 DEF RInv

LEMMA SendKeeps == ASSUME RInv, NEW e \in Event, Send(e) PROVE RInv'
<1>0. /\ sent' = Append(sent, e) /\ wire = "open" /\ wire' = wire /\ Len(sent) < MaxEvents
      /\ \A i \in DOMAIN sent : sent[i].form = "whole"
      /\ UNCHANGED <<answer, got, buf, err, pc, relayed, chunks, usage, timer, result>>
  BY DEF Send, parser
<1>1. sent \in Seq(Event) /\ got \in 0 .. Len(sent) /\ RelayTypeOK /\ EndInv /\ UsageCounted
  BY DEF RInv, RelayTypeOK
<1>2. /\ sent' \in Seq(Event) /\ Len(sent') = Len(sent) + 1
      /\ \A i \in 1 .. Len(sent) : sent'[i] = sent[i]
  BY <1>0, <1>1
<1>3. \A i \in 1 .. got : sent'[i] = sent[i]
  BY <1>1, <1>2
<1>4. IsSSE' = IsSSE
  BY <1>0 DEF IsSSE
<1>5. RelayTypeOK'
  BY <1>0, <1>1, <1>2, MaxEventsAssumption DEF RelayTypeOK
<1>6. EndInv'
  <2>1. err' # "eof"
    BY <1>0, <1>1 DEF EndInv
  <2>2. \A i \in 1 .. Len(sent') : sent'[i].form # "whole" => i = Len(sent')
    BY <1>0, <1>1, <1>2
  <2> QED
    BY <2>1, <2>2 DEF EndInv
<1>7. UsageCounted'
  BY <1>0, <1>1, <1>3, <1>4 DEF UsageCounted
<1>8. ASSUME IsSSE PROVE StreamInv'
  <2>1. StreamInv
    BY <1>8 DEF RInv
  <2>2. Passed' = Passed /\ Passed \in 0 .. Len(sent) /\ got - Len(buf) \in 0 .. got
    <3>1. Len(buf) = 0 \/ (Len(buf) = 1 /\ got > 0)
      BY <2>1 DEF StreamInv
    <3>2. got - Len(buf) \in 0 .. got /\ got \in 0 .. Len(sent) /\ Len(sent) \in Nat
      <4>1. Len(sent) \in Nat /\ got \in 0 .. Len(sent)
        BY <1>1
      <4>2. CASE Len(buf) = 0
        BY <4>1, <4>2
      <4>3. CASE Len(buf) = 1 /\ got > 0
        BY <4>1, <4>3
      <4> QED
        BY <3>1, <4>1, <4>2, <4>3
    <3>3. got - Len(buf) \in 0 .. Len(sent)
      BY <3>2
    <3>4. Passed' = Passed
      BY <1>0 DEF Passed
    <3> QED
      BY <3>2, <3>3, <3>4 DEF Passed
  <2>3. RelayedOf(answer, relayed, sent', Passed)
    BY <2>1, <2>2, <1>0, <1>1, RelayedStays DEF StreamInv
  <2>4. \A n \in 0 .. got : Counts(chunks, usage, sent, n) => Counts(chunks, usage, sent', n)
    BY <1>1, <1>3 DEF Counts
  <2>5. got > 0 => sent'[got] = sent[got]
    BY <1>1, <1>3
  <2>6. RelayedOf(answer, relayed, sent, Passed)'
    BY <2>2, <2>3, <1>0
  <2>7. buf = <<>> \/ (got > 0 /\ buf = <<sent'[got]>>)
    BY <2>1, <2>5 DEF StreamInv
  <2>8. pc # "done" => Counts(chunks, usage, sent', got - Len(buf))
    BY <2>1, <2>2, <2>4 DEF StreamInv
  <2>9. pc \in {"read", "end"} /\ buf # <<>> => sent'[got].form # "whole"
    BY <2>1, <2>5 DEF StreamInv
  <2> QED
    BY <2>1, <2>6, <2>7, <2>8, <2>9, <1>0 DEF StreamInv
<1>9. ASSUME ~ IsSSE PROVE PlainInv'
  <2>1. PlainInv
    BY <1>9 DEF RInv
  <2>2. SubSeq(sent', 1, got) = SubSeq(sent, 1, got)
    BY <1>0, <1>1, <1>3
  <2> QED
    BY <2>1, <2>2, <1>0 DEF PlainInv
<1> QED
  BY <1>4, <1>5, <1>6, <1>7, <1>8, <1>9 DEF RInv

(* Before its end nothing is said of the answer.                           *)
LEMMA Early == ASSUME pc' # "done" PROVE UsageCounted'
BY DEF UsageCounted

LEMMA ReadEventKeeps == ASSUME RInv, ReadEvent PROVE RInv'
<1> DEFINE e == sent[got + 1]
<1>0. /\ pc = "read" /\ got < Len(sent) /\ got' = got + 1 /\ buf' = Append(buf, e) /\ pc' = "check"
      /\ err' \in {"none"} \cup IF wire = "eof" /\ got' = Len(sent) THEN {"eof"} ELSE {}
      /\ UNCHANGED <<answer, sent, wire, relayed, chunks, usage, timer, result>>
  BY DEF ReadEvent, body, parser
<1>1. sent \in Seq(Event) /\ got \in 0 .. Len(sent) /\ RelayTypeOK /\ EndInv
  BY DEF RInv, RelayTypeOK
<1>2. e \in Event /\ got + 1 \in 1 .. Len(sent)
  BY <1>0, <1>1
<1> HIDE DEF e
<1>3. RelayTypeOK'
  <2>1. buf' \in Seq(Event)
    BY <1>0, <1>1, <1>2 DEF RelayTypeOK
  <2>2. got' \in 0 .. Len(sent') /\ chunks' \in 0 .. got'
    BY <1>0, <1>1, <1>2 DEF RelayTypeOK
  <2> QED
    BY <2>1, <2>2, <1>0, <1>1 DEF RelayTypeOK
<1>4. EndInv'
  BY <1>0, <1>1 DEF EndInv
<1>5. ASSUME IsSSE PROVE StreamInv'
  <2>1. StreamInv
    BY <1>5 DEF RInv
  <2>2. buf = <<>>
    BY <2>1, <1>0, <1>1 DEF StreamInv, EndInv
  <2>3. buf' = <<sent'[got']>> /\ Len(buf') = 1 /\ got' > 0
    BY <2>2, <1>0, <1>1 DEF e
  <2>4. Passed = got /\ Passed' = got /\ got' - Len(buf') = got /\ got - Len(buf) = got
    BY <2>2, <2>3, <1>0, <1>1 DEF Passed
  <2> QED
    BY <2>1, <2>3, <2>4, <1>0 DEF StreamInv
<1>6. ASSUME ~ IsSSE PROVE PlainInv'
  <2>1. PlainInv
    BY <1>6 DEF RInv
  <2>2. Append(SubSeq(sent, 1, got), sent[got + 1]) = SubSeq(sent, 1, got + 1)
    BY <1>1, <1>2
  <2> QED
    BY <2>1, <2>2, <1>0 DEF PlainInv, e
<1> QED
  BY <1>0, <1>3, <1>4, <1>5, <1>6, Early DEF RInv, IsSSE

LEMMA ReadEndKeeps == ASSUME RInv, ReadEnd PROVE RInv'
<1>0. /\ pc = "read" /\ err' = wire /\ pc' = "check"
      /\ (wire \in {"eof", "broken"} /\ got = Len(sent)) \/ wire \in {"closed", "gone"}
      /\ UNCHANGED <<answer, sent, wire, got, buf, relayed, chunks, usage, timer, result>>
  BY DEF ReadEnd, body, parser
<1>1. RelayTypeOK' /\ EndInv'
  BY <1>0 DEF RInv, RelayTypeOK, EndInv
<1>2. ASSUME IsSSE PROVE StreamInv'
  BY <1>0, <1>2 DEF RInv, StreamInv, Passed
<1>3. ASSUME ~ IsSSE PROVE PlainInv'
  BY <1>0, <1>3 DEF RInv, PlainInv
<1> QED
  BY <1>0, <1>1, <1>2, <1>3, Early DEF RInv, IsSSE

LEMMA CheckKeeps == ASSUME RInv, CheckTimer PROVE RInv'
<1>0. /\ pc = "check" /\ err' = (IF timer.timedOut THEN "idle" ELSE err)
      /\ timer' = IF timer.timedOut THEN timer ELSE [timer EXCEPT !.armed = (err = "none")]
      /\ pc' = IF WholeEvent THEN "relay" ELSE AfterEvent(err')
      /\ UNCHANGED <<answer, sent, wire, got, buf, relayed, chunks, usage, result>>
  BY DEF CheckTimer, body, parser
<1>1. RelayTypeOK' /\ EndInv'
  <2>1. err' \in {"none", "eof", "broken", "closed", "gone", "idle"} /\ (err' = "eof" => err = "eof")
    BY <1>0 DEF RInv, RelayTypeOK
  <2>2. timer' \in [armed : BOOLEAN, timedOut : BOOLEAN,
                    fn : {"waiting", "expired", "flagged", "cancelled", "closed"}]
    BY <1>0 DEF RInv, RelayTypeOK
  <2>3. pc' \in {"relay", "read", "end"}
    BY <1>0 DEF AfterEvent
  <2> QED
    BY <2>1, <2>2, <2>3, <1>0 DEF RInv, RelayTypeOK, EndInv
<1>2. pc' \in {"relay", "read", "end"} /\ (pc' = "relay" <=> WholeEvent)
  BY <1>0 DEF AfterEvent
<1>3. ASSUME IsSSE PROVE StreamInv'
  <2>1. buf # <<>> /\ pc' # "relay" => sent[got].form # "whole"
    BY <1>0, <1>2, <1>3 DEF RInv, StreamInv, WholeEvent
  <2> QED
    BY <2>1, <1>0, <1>2, <1>3 DEF RInv, StreamInv, Passed, WholeEvent
<1>4. ASSUME ~ IsSSE PROVE PlainInv'
  BY <1>0, <1>2, <1>4 DEF RInv, PlainInv, WholeEvent
<1> QED
  BY <1>0, <1>1, <1>2, <1>3, <1>4, Early DEF RInv, IsSSE

(* What a buffer with one event makes of the parser.                       *)
LEMMA OneEvent ==
  ASSUME NEW e \in Event
  PROVE  /\ Shows(<<e>>) <=> Wanted(answer, e)
         /\ Reports(<<e>>) <=> ReportsUsage(e)
         /\ Tears(<<e>>) <=> Torn(e)
<1>1. DOMAIN <<e>> = {1} /\ <<e>>[1] = e
  OBVIOUS
<1> QED
  BY <1>1 DEF Shows, Reports, Tears, Visible, Wanted, IsUsageOnlySSEEvent

LEMMA NoEvent == ~ Shows(<<>>) /\ ~ Reports(<<>>)
BY DEF Shows, Reports

LEMMA RelayEventKeeps == ASSUME RInv, RelayEvent PROVE RInv'
<1> DEFINE e == sent[got]
           n == got - 1
<1>0. /\ pc = "relay" /\ WriteVisible(buf) /\ Feed(buf) /\ buf' = <<>>
      /\ chunks' = chunks + (IF IsChunk(buf[Len(buf)]) THEN 1 ELSE 0)
      /\ pc' = IF Shows(buf) THEN "write" ELSE AfterEvent(err)
      /\ UNCHANGED <<answer, sent, wire, got, err, timer, result>>
  BY DEF RelayEvent, body
<1>1. IsSSE /\ StreamInv /\ RelayTypeOK /\ EndInv
  BY <1>0 DEF RInv, PlainInv
<1>2. buf = <<e>> /\ Len(buf) = 1 /\ buf[1] = e /\ got > 0
  BY <1>0, <1>1 DEF StreamInv
<1>3. sent \in Seq(Event) /\ got \in 1 .. Len(sent) /\ chunks \in Nat /\ chunks <= n
  BY <1>1, <1>2 DEF RelayTypeOK, StreamInv
<1>4. e \in Event /\ n \in Nat /\ n < Len(sent) /\ n + 1 = got /\ got - Len(buf) = n
  BY <1>2, <1>3
<1>5. /\ RelayedOf(answer, relayed, sent, n) /\ Counts(chunks, usage, sent, n)
      /\ relayed \in Seq(Event) /\ usage \in BOOLEAN
  BY <1>0, <1>1, <1>4 DEF StreamInv, Passed, RelayTypeOK
<1>6. /\ relayed' = IF Wanted(answer, e) THEN relayed \o <<e>> ELSE relayed
      /\ usage' = (usage \/ ReportsUsage(e))
      /\ chunks' = chunks + (IF IsChunk(e) THEN 1 ELSE 0)
  BY <1>0, <1>2, <1>4, OneEvent DEF WriteVisible, Feed
<1> HIDE DEF e, n
<1>7. e = sent[n + 1]
  BY <1>4 DEF e
<1>8. RelayedOf(answer, relayed', sent, n + 1)
  BY <1>3, <1>4, <1>5, <1>6, <1>7, RelaysNext
<1>9. chunks' \in Nat /\ chunks' >= chunks /\ chunks' <= n + 1 /\ (IsChunk(e) => chunks' > chunks)
  BY <1>3, <1>4, <1>6
<1>10. Counts(chunks', usage', sent, n + 1)
  BY <1>4, <1>3, <1>5, <1>6, <1>7, <1>9, CountsNext
<1>11. pc' \in {"write", "read", "end"}
  BY <1>0 DEF AfterEvent
<1>12. relayed' \in Seq(Event) /\ usage' \in BOOLEAN
  BY <1>4, <1>5, <1>6
<1>13. RelayTypeOK'
  BY <1>0, <1>1, <1>3, <1>4, <1>9, <1>11, <1>12 DEF RelayTypeOK
<1>14. EndInv' /\ UsageCounted'
  BY <1>0, <1>1, <1>11 DEF EndInv, UsageCounted
<1>15. Passed' = got /\ got' - Len(buf') = got
  BY <1>0, <1>3, <1>11 DEF Passed
<1>16. StreamInv'
  BY <1>0, <1>4, <1>8, <1>9, <1>10, <1>11, <1>15 DEF StreamInv
<1> QED
  BY <1>0, <1>1, <1>13, <1>14, <1>16 DEF RInv, IsSSE

LEMMA WrittenKeeps == ASSUME RInv, Written PROVE RInv'
<1>0. /\ pc = "write" /\ pc' = AfterEvent(err)
      /\ UNCHANGED <<answer, sent, wire, got, buf, err, relayed, chunks, usage, timer, result>>
  BY DEF Written, body, parser
<1>1. pc' \in {"read", "end"}
  BY <1>0 DEF AfterEvent
<1>2. RelayTypeOK' /\ EndInv'
  BY <1>0, <1>1 DEF RInv, RelayTypeOK, EndInv
<1>3. IsSSE /\ StreamInv
  BY <1>0 DEF RInv, PlainInv
<1>4. StreamInv'
  BY <1>0, <1>1, <1>3 DEF StreamInv, Passed
<1> QED
  BY <1>0, <1>1, <1>2, <1>3, <1>4, Early DEF RInv, IsSSE

LEMMA EndStreamKeeps == ASSUME RInv, EndStream PROVE RInv'
<1> DEFINE e == sent[got]
           n == got - 1
           u == usage'
<1>0. /\ pc = "end" /\ IsSSE /\ WriteVisible(buf) /\ Feed(buf) /\ pc' = "done"
      /\ result' = [timedOut |-> TimeoutSeen, tokens |-> Counted(usage', chunks > 0)]
      /\ UNCHANGED <<answer, sent, wire, got, buf, err, chunks, timer>>
  BY DEF EndStream, body
<1>1. StreamInv /\ RelayTypeOK /\ EndInv
  BY <1>0 DEF RInv
<1>2. /\ sent \in Seq(Event) /\ got \in 0 .. Len(sent) /\ chunks \in Nat
      /\ relayed \in Seq(Event) /\ usage \in BOOLEAN
  BY <1>1 DEF RelayTypeOK
<1>3. /\ RelayedOf(answer, relayed, sent, got - Len(buf)) /\ Counts(chunks, usage, sent, got - Len(buf))
  BY <1>0, <1>1 DEF StreamInv, Passed
<1>4. /\ RelayedOf(answer, relayed', sent, got) /\ Counts(chunks, usage', sent, got)
      /\ relayed' \in Seq(Event) /\ usage' \in BOOLEAN
  <2>1. CASE buf = <<>>
    <3>1. relayed' = relayed /\ usage' = usage /\ got - Len(buf) = got
      BY <2>1, <1>0, <1>2, NoEvent DEF WriteVisible, Feed
    <3> QED
      BY <3>1, <1>2, <1>3
  <2>2. CASE buf # <<>>
    <3>1. buf = <<e>> /\ Len(buf) = 1 /\ got > 0 /\ e.form # "whole"
      BY <2>2, <1>0, <1>1 DEF StreamInv
    <3>2. e \in Event /\ n \in Nat /\ n < Len(sent) /\ n + 1 = got /\ got - Len(buf) = n
      BY <3>1, <1>2
    <3>3. /\ relayed' = IF Wanted(answer, e) THEN relayed \o <<e>> ELSE relayed
          /\ usage' = (usage \/ ReportsUsage(e))
      BY <3>1, <3>2, <1>0, OneEvent DEF WriteVisible, Feed
    <3> HIDE DEF e, n
    <3>4. e = sent[n + 1]
      BY <3>2 DEF e
    <3>5. RelayedOf(answer, relayed', sent, n + 1)
      BY <3>2, <3>3, <3>4, <1>2, <1>3, RelaysNext
    <3>6. Counts(chunks, usage', sent, n + 1)
      <4>1. Counts(chunks, usage, sent, n) /\ chunks >= chunks /\ sent[n + 1].form # "whole"
        BY <3>1, <3>2, <3>4, <1>2, <1>3
      <4>2. Counts(chunks, usage \/ ReportsUsage(sent[n + 1]), sent, n + 1)
        BY <4>1, <3>2, <1>2, CountsNext
      <4> QED
        BY <4>2, <3>3, <3>4
    <3>7. relayed' \in Seq(Event) /\ usage' \in BOOLEAN
      BY <3>2, <3>3, <1>2
    <3> QED
      BY <3>2, <3>5, <3>6, <3>7
  <2> QED
    BY <2>1, <2>2
<1>5. /\ Counted(u, chunks > 0) \in {"none", "estimated", "reported"}
      /\ Counted(u, chunks > 0) = "reported" <=> u
      /\ answer.ok /\ chunks > 0 => Counted(u, chunks > 0) # "none"
  BY <1>4 DEF Counted
<1>6. result'.tokens = Counted(u, chunks > 0)
  BY <1>0
<1>7. RelayTypeOK'
  <2>1. TimeoutSeen \in BOOLEAN
    BY DEF TimeoutSeen
  <2>2. result' \in [timedOut : BOOLEAN, tokens : {"none", "estimated", "reported"}]
    BY <2>1, <1>0, <1>5
  <2> QED
    BY <2>2, <1>0, <1>1, <1>4 DEF RelayTypeOK
<1>8. UsageCounted'
  BY <1>0, <1>4, <1>5, <1>6 DEF UsageCounted, Counts, IsSSE
<1>9. EndInv' /\ StreamInv'
  BY <1>0, <1>1, <1>4 DEF EndInv, StreamInv, Passed
<1> QED
  BY <1>0, <1>7, <1>8, <1>9 DEF RInv, IsSSE

LEMMA EndPlainKeeps == ASSUME RInv, EndPlain PROVE RInv'
<1> DEFINE u == usage'
<1>0. /\ pc = "end" /\ ~ IsSSE /\ pc' = "done"
      /\ relayed' = IF err = "eof" THEN buf ELSE <<>>
      /\ usage' = (err = "eof" /\ Reports(buf) /\ ~ Tears(buf))
      /\ result' = [timedOut |-> TimeoutSeen, tokens |-> Counted(usage', err = "eof")]
      /\ UNCHANGED <<answer, sent, wire, got, buf, err, chunks, timer>>
  BY DEF EndPlain, body
<1>1. PlainInv /\ RelayTypeOK /\ EndInv
  BY <1>0 DEF RInv
<1>2. sent \in Seq(Event) /\ got \in 0 .. Len(sent)
  BY <1>1 DEF RelayTypeOK
<1>3. DOMAIN buf = 1 .. got /\ \A i \in 1 .. got : buf[i] = sent[i]
  BY <1>1, <1>2 DEF PlainInv
<1>4. err = "eof" => buf = sent /\ wire # "open"
  BY <1>1, <1>2 DEF PlainInv, EndInv
<1>5. u \in BOOLEAN /\ TimeoutSeen \in BOOLEAN
  BY <1>0 DEF TimeoutSeen
<1>6. /\ Counted(u, err = "eof") \in {"none", "estimated", "reported"}
      /\ Counted(u, err = "eof") = "reported" <=> u
      /\ answer.ok /\ err = "eof" => Counted(u, err = "eof") # "none"
  BY <1>5 DEF Counted
<1>7. result'.tokens = Counted(u, err = "eof")
  BY <1>0
<1>8. RelayTypeOK'
  <2>1. result' \in [timedOut : BOOLEAN, tokens : {"none", "estimated", "reported"}]
    BY <1>0, <1>5, <1>6
  <2>2. relayed' \in Seq(Event)
    BY <1>0, <1>1 DEF RelayTypeOK
  <2> QED
    BY <2>1, <2>2, <1>0, <1>1, <1>5 DEF RelayTypeOK
<1>9. err = "eof" => (u <=> (\E i \in 1 .. got : ReportsUsage(sent[i])) /\ \A i \in 1 .. got : ~ Torn(sent[i]))
  BY <1>0, <1>3 DEF Reports, Tears
<1>10. UsageCounted'
  BY <1>0, <1>6, <1>7, <1>9 DEF UsageCounted, IsSSE
<1>11. EndInv' /\ PlainInv'
  BY <1>0, <1>1, <1>4 DEF EndInv, PlainInv
<1> QED
  BY <1>0, <1>8, <1>10, <1>11 DEF RInv, IsSSE

LEMMA RelaySteps == RInv /\ [RelayNext]_relayVars => RInv'
<1> SUFFICES ASSUME RInv, [RelayNext]_relayVars PROVE RInv'
  OBVIOUS
<1>0. /\ wire \in {"open", "eof", "broken", "closed", "gone"}
      /\ timer \in [armed : BOOLEAN, timedOut : BOOLEAN,
                    fn : {"waiting", "expired", "flagged", "cancelled", "closed"}]
  BY DEF RInv, RelayTypeOK
<1>1. ASSUME NEW e \in Event, Send(e) PROVE RInv'
  BY <1>1, SendKeeps
<1>2. CASE (\E how \in {"eof", "broken"} : EndAnswer(how)) \/ ClientGone
  BY <1>0, <1>2, QuietStep DEF EndAnswer, ClientGone, parser
<1>3. CASE ReadEvent \/ ReadEnd \/ CheckTimer
  BY <1>3, ReadEventKeeps, ReadEndKeeps, CheckKeeps
<1>4. CASE RelayEvent \/ Written \/ EndStream \/ EndPlain
  BY <1>4, RelayEventKeeps, WrittenKeeps, EndStreamKeeps, EndPlainKeeps
<1>5. CASE Timer
  BY <1>0, <1>5, QuietStep DEF Timer, Expire, SetTimedOut, CancelContext, CloseBody, body, parser
<1>6. CASE UNCHANGED relayVars
  BY <1>0, <1>6, QuietStep DEF relayVars, body, parser
<1> QED
  BY <1>1, <1>2, <1>3, <1>4, <1>5, <1>6 DEF RelayNext, Environment, Handler

(* Types of the stream, the buffers, the timer and the counters            *)
(* (ServeHTTP, Read).                                                      *)
THEOREM RelayTypesHold == RelaySpec => []RelayTypeOK
<1>1. RInv => RelayTypeOK
  BY DEF RInv
<1> QED
  BY <1>1, RelayStarts, RelaySteps, PTL DEF RelaySpec

(* The client of a streamed answer is given the events it is owed, each    *)
(* once, whole and in order, but for the last that no blank line ended;    *)
(* another body is relayed whole or not at all (ServeHTTP,                 *)
(* IsUsageOnlySSEEvent).                                                   *)
THEOREM EventsAreRelayed == RelaySpec => []RelayedInOrder
<1>1. RInv => RelayedInOrder
  <2> SUFFICES ASSUME RInv PROVE RelayedInOrder
    OBVIOUS
  <2>1. ASSUME IsSSE PROVE Relayed(IF pc = "done" THEN got ELSE got - Len(buf))
    <3>1. RelayedOf(answer, relayed, sent, IF pc = "done" THEN got ELSE got - Len(buf))
      BY <2>1 DEF RInv, StreamInv, Passed
    <3>2. \A n : OwedOf(n) = OwedIn(answer, sent, n)
      BY DEF OwedOf, OwedIn, Owed, Wanted
    <3> QED
      BY <3>1, <3>2 DEF Relayed, RelayedOf
  <2>2. ASSUME ~ IsSSE PROVE relayed = <<>> \/ relayed = sent
    BY <2>2 DEF RInv, PlainInv
  <2> QED
    BY <2>1, <2>2 DEF RelayedInOrder, RInv, EndInv
<1> QED
  BY <1>1, RelayStarts, RelaySteps, PTL DEF RelaySpec

(* Once an answer is over, its usage is what its events reported, or an    *)
(* estimate when it had some and none reported (FeedSSEEvent, Finalize).   *)
THEOREM UsageIsCounted == RelaySpec => []UsageCounted
<1>1. RInv => UsageCounted
  BY DEF RInv
<1> QED
  BY <1>1, RelayStarts, RelaySteps, PTL DEF RelaySpec

-----------------------------------------------------------------------------
(* MCRequests. A behaviour of the three parts together is one of each.     *)
LEMMA PartsRun == RequestsSpec => Spec /\ ChainSpec /\ RelaySpec
<1>1. RequestsInit => Init /\ ChainInit /\ RelayInit
  BY DEF RequestsInit
<1>2. ASSUME [RequestsNext]_requestsVars
      PROVE  [Next]_vars /\ [ChainNext]_chainVars /\ [RelayNext]_relayVars
  BY <1>2 DEF RequestsNext, requestsVars, vars
<1> QED
  BY <1>1, <1>2, PTL DEF RequestsSpec, Spec, ChainSpec, RelaySpec

(* Types of each part.                                                     *)
THEOREM RequestsTypesHold == RequestsSpec => []RequestsTypeOK
<1>1. RequestsInit => part \in {"gate", "chain", "relay"}
  BY DEF RequestsInit
<1>2. part \in {"gate", "chain", "relay"} /\ [RequestsNext]_requestsVars
        => (part \in {"gate", "chain", "relay"})'
  BY DEF RequestsNext, requestsVars
<1>3. part \in {"gate", "chain", "relay"} /\ TypeOK /\ ChainTypeOK /\ RelayTypeOK => RequestsTypeOK
  BY DEF RequestsTypeOK
<1> QED
  BY <1>1, <1>2, <1>3, PartsRun, TypeCorrect, ChainTypesHold, RelayTypesHold, PTL DEF RequestsSpec

-----------------------------------------------------------------------------
(* SyncInterval.                                                           *)
NoSave == \A s \in Savers : save[s] = "idle"

(* WaitsAsStored says nothing of a loop that has read the setting and does *)
(* not wait yet; a save that ends in between leaves a wake-up behind.      *)
Agrees ==
  ~ wake /\ NoSave =>
    /\ loop \in {"applying", "waiting"} => interval = stored
    /\ loop = "waiting" => ttl = stored

IntervalInv == IntervalTypeOK /\ Agrees

LEMMA InitInterval == IntervalInit => IntervalInv
  BY DEF IntervalInit, IntervalInv, IntervalTypeOK, Agrees

LEMMA NextInterval == IntervalInv /\ [IntervalNext]_intervalVars => IntervalInv'
<1> SUFFICES ASSUME IntervalInv, [IntervalNext]_intervalVars
             PROVE  IntervalInv'
  OBVIOUS
<1> USE IntervalAssumption DEF IntervalInv, IntervalTypeOK, Agrees, NoSave
<1>1. CASE ReadInterval
  BY <1>1 DEF ReadInterval
<1>2. CASE StartWait
  BY <1>2 DEF StartWait
<1>3. CASE WokenUp
  BY <1>3 DEF WokenUp
<1>4. CASE TimerFires
  BY <1>4 DEF TimerFires
<1>5. CASE SyncEnds
  BY <1>5 DEF SyncEnds
<1>6. ASSUME NEW s \in Savers, ApplyInterval(s)
      PROVE  IntervalInv'
  <2>1. save'[s] # "idle"
    BY <1>6 DEF ApplyInterval
  <2> QED
    BY <1>6, <2>1 DEF ApplyInterval
<1>7. ASSUME NEW s \in Savers, Wake(s)
      PROVE  IntervalInv'
  BY <1>7 DEF Wake
<1>8. ASSUME NEW s \in Savers, NEW i \in Intervals, SaveInterval(s, i)
      PROVE  IntervalInv'
  <2>1. save'[s] # "idle"
    BY <1>8 DEF SaveInterval
  <2> QED
    BY <1>8, <2>1 DEF SaveInterval
<1>9. CASE UNCHANGED intervalVars
  BY <1>9 DEF intervalVars
<1> QED
  BY <1>1, <1>2, <1>3, <1>4, <1>5, <1>6, <1>7, <1>8, <1>9 DEF IntervalNext

(* The loop's state, the timer's interval and what savers hold keep their  *)
(* types, whoever saves (RunUpstreamQuotaSync, SetUpstreamSyncSettings).   *)
THEOREM IntervalTypesHold == IntervalSpec => []IntervalTypeOK
<1>1. IntervalInv => IntervalTypeOK
  BY DEF IntervalInv
<1> QED
  BY <1>1, InitInterval, NextInterval, PTL DEF IntervalSpec

(* "Saving a new interval restarts the wait without a restart": once all   *)
(* saves have returned, a loop that waits does so as the setting says, or  *)
(* has its wake-up to come.                                                *)
THEOREM SavedIntervalIsUsed == IntervalSpec => []WaitsAsStored
<1>1. IntervalInv => WaitsAsStored
  BY DEF IntervalInv, Agrees, NoSave, WaitsAsStored
<1> QED
  BY <1>1, InitInterval, NextInterval, PTL DEF IntervalSpec

-----------------------------------------------------------------------------
(* UpstreamQuota.                                                          *)
LEMMA InitQuota == QuotaInit => QuotaTypeOK
<1>1. NoFetch \in [step : {"idle", "asked", "answered"}, force : BOOLEAN, had : Buckets,
                   answer : Answers]
  BY DEF NoFetch, Buckets, Answers
<1>2. Nothing \in [buckets : Buckets, status : {"none", "ok", "degraded", "error"}, valid : BOOLEAN]
  BY DEF Nothing, Buckets
<1>3. 0 \in 0 .. MaxChanges
  BY QuotaAssumption
<1>4. ASSUME QuotaInit PROVE QuotaTypeOK
  BY <1>1, <1>2, <1>3, <1>4 DEF QuotaInit, QuotaTypeOK
<1> QED
  BY <1>4

(* What an answer makes of an entry of the cache.                          *)
LEMMA EntryType ==
  ASSUME NEW had \in Buckets, NEW a \in Answers
  PROVE  Entry(had, a) \in [buckets : Buckets, status : {"none", "ok", "degraded", "error"},
                            valid : BOOLEAN]
  BY DEF Entry, Buckets

(* What the loop observes.                                                 *)
LEMMA ObserveTypes ==
  ASSUME QuotaTypeOK, NEW f,
         NEW r \in [buckets : Buckets, status : {"none", "ok", "degraded", "error"}, valid : BOOLEAN],
         Returned(f, r)
  PROVE  /\ warned' \in BOOLEAN /\ inError' \in BOOLEAN
         /\ observed' \in {"none", "ok", "degraded", "error"}
  BY DEF QuotaTypeOK, Returned, Observe, alertVars

LEMMA NextQuota == QuotaTypeOK /\ [QuotaNext]_quotaVars => QuotaTypeOK'
<1> SUFFICES ASSUME QuotaTypeOK, [QuotaNext]_quotaVars PROVE QuotaTypeOK'
  OBVIOUS
<1> DEFINE Fetch == [step : {"idle", "asked", "answered"}, force : BOOLEAN, had : Buckets,
                     answer : Answers]
           Cached == [buckets : Buckets, status : {"none", "ok", "degraded", "error"},
                      valid : BOOLEAN]
<1>0. /\ upstream \in Answers /\ changes \in 0 .. MaxChanges /\ cache \in Cached
      /\ fetch \in [Fetchers -> Fetch]
  BY DEF QuotaTypeOK
<1>1. CASE UpstreamChanges
  <2>1. upstream' \in Answers /\ changes' \in 0 .. MaxChanges
    BY <1>0, <1>1, QuotaAssumption DEF UpstreamChanges
  <2> QED
    BY <1>1, <2>1 DEF UpstreamChanges, QuotaTypeOK, cacheVars, alertVars
<1>2. CASE Expires
  BY <1>2 DEF Expires, QuotaTypeOK, alertVars
<1>3. CASE CooldownEnds
  BY <1>3 DEF CooldownEnds, QuotaTypeOK, alertVars
<1>4. CASE ConsumeReset
  <2>1. upstream' \in Answers /\ changes' \in 0 .. MaxChanges
    BY <1>0, <1>4, QuotaAssumption DEF ConsumeReset, Answers
  <2>2. cache' \in Cached
    BY <1>4 DEF ConsumeReset, Nothing, Buckets
  <2> QED
    BY <1>4, <2>1, <2>2 DEF ConsumeReset, QuotaTypeOK, alertVars
<1>5. ASSUME NEW f \in Fetchers, NEW force \in Forces(f), ServedFromCache(f, force)
      PROVE  QuotaTypeOK'
  <2>1. /\ warned' \in BOOLEAN /\ inError' \in BOOLEAN
        /\ observed' \in {"none", "ok", "degraded", "error"}
    BY <1>0, <1>5, ObserveTypes DEF ServedFromCache
  <2> QED
    BY <1>5, <2>1 DEF ServedFromCache, QuotaTypeOK, cacheVars
<1>6. ASSUME NEW f \in Fetchers, NEW force \in Forces(f), Ask(f, force)
      PROVE  QuotaTypeOK'
  <2>1. force \in BOOLEAN /\ cache.buckets \in Buckets
    BY <1>0 DEF Forces
  <2>2. [step |-> "asked", force |-> force, had |-> cache.buckets, answer |-> "empty"] \in Fetch
    BY <2>1 DEF Answers
  <2>3. fetch' \in [Fetchers -> Fetch]
    BY <1>0, <1>6, <2>2 DEF Ask
  <2> QED
    BY <1>6, <2>3 DEF Ask, QuotaTypeOK, alertVars
<1>7. ASSUME NEW f \in Fetchers, Answered(f) \/ CallFails(f)
      PROVE  QuotaTypeOK'
  <2>1. PICK u \in Answers :
          fetch' = [fetch EXCEPT ![f] = [fetch[f] EXCEPT !.step = "answered", !.answer = u]]
    BY <1>0, <1>7 DEF Answered, CallFails, Answers
  <2>2. [fetch[f] EXCEPT !.step = "answered", !.answer = u] \in Fetch
    BY <1>0
  <2>3. fetch' \in [Fetchers -> Fetch]
    BY <1>0, <2>1, <2>2
  <2> QED
    BY <1>7, <2>3 DEF Answered, CallFails, QuotaTypeOK, alertVars
<1>8. ASSUME NEW f \in Fetchers, Store(f)
      PROVE  QuotaTypeOK'
  <2> DEFINE e == Entry(fetch[f].had, fetch[f].answer)
  <2>1. e \in Cached
    BY <1>0, EntryType
  <2>2. cache' = e /\ Returned(f, e)
    BY <1>8 DEF Store
  <2> HIDE DEF e
  <2>3. /\ warned' \in BOOLEAN /\ inError' \in BOOLEAN
        /\ observed' \in {"none", "ok", "degraded", "error"}
    BY <2>1, <2>2, ObserveTypes
  <2>4. NoFetch \in Fetch
    BY DEF NoFetch, Buckets, Answers
  <2>5. fetch' \in [Fetchers -> Fetch]
    BY <1>0, <1>8, <2>4 DEF Store
  <2>6. cooling' \in BOOLEAN
    BY <1>8 DEF Store
  <2> QED
    BY <1>8, <2>1, <2>2, <2>3, <2>5, <2>6 DEF Store, QuotaTypeOK
<1>9. CASE UNCHANGED quotaVars
  BY <1>9 DEF quotaVars, cacheVars, alertVars, QuotaTypeOK
<1> QED
  BY <1>1, <1>2, <1>3, <1>4, <1>5, <1>6, <1>7, <1>8, <1>9 DEF QuotaNext, Goes

(* Types of the cache, of what loop and readers are doing, and of the      *)
(* alerts (Manager.GetProviderQuotas, QuotaAlerter.Observe).               *)
THEOREM QuotaTypesHold == QuotaSpec => []QuotaTypeOK
  BY InitQuota, NextQuota, PTL DEF QuotaSpec

-----------------------------------------------------------------------------
(* ExchangeRate. A refresh that fetches, stores or stamps does so for a    *)
(* currency it has read, which is not USD.                                 *)
OfACurrency ==
  \A t \in Tasks : refresh[t].step \in {"fetch", "store", "stamp"} => refresh[t].of \in Currencies

ExchangeInv == ExchangeTypeOK /\ OfACurrency

LEMMA InitExchange == ExchangeInit => ExchangeInv
<1> SUFFICES ASSUME ExchangeInit PROVE ExchangeInv
  OBVIOUS
<1> USE DEF ExchangeInit
<1>1. /\ NotRunning \in [step : {"idle", "read", "fetch", "store", "stamp"},
                         of : Currencies \cup {"USD"}]
      /\ NotRunning.step = "idle"
  BY DEF NotRunning
<1>2. 0 \in 0 .. MaxDisturbances
  BY ExchangeAssumption
<1>3. ExchangeTypeOK
  BY <1>1, <1>2 DEF ExchangeTypeOK, Manuals, NotSaving
<1>4. OfACurrency
  BY <1>1 DEF OfACurrency
<1> QED
  BY <1>3, <1>4 DEF ExchangeInv

LEMMA NextExchange == ExchangeInv /\ [ExchangeNext]_exchangeVars => ExchangeInv'
<1> SUFFICES ASSUME ExchangeInv, [ExchangeNext]_exchangeVars PROVE ExchangeInv'
  OBVIOUS
<1> DEFINE Running == [step : {"idle", "read", "fetch", "store", "stamp"},
                       of : Currencies \cup {"USD"}]
<1>0. /\ currency \in Currencies \cup {"USD"} /\ refresh \in [Tasks -> Running]
      /\ disturbances \in 0 .. MaxDisturbances /\ MaxDisturbances \in Nat
      /\ ExchangeTypeOK /\ OfACurrency /\ \A r \in Refreshers : r \in Tasks
  BY ExchangeAssumption DEF ExchangeInv, ExchangeTypeOK, Tasks
<1>d. Disturb => disturbances' \in 0 .. MaxDisturbances
  BY <1>0 DEF Disturb
(* One refresh goes on to y.                                               *)
<1>r. ASSUME NEW t \in Tasks, NEW y \in Running, refresh' = [refresh EXCEPT ![t] = y],
             y.step \in {"fetch", "store", "stamp"} => y.of \in Currencies
      PROVE  refresh' \in [Tasks -> Running] /\ OfACurrency'
  BY <1>0, <1>r DEF OfACurrency
<1>s. ASSUME NEW t \in Tasks, NEW s \in {"read", "store", "stamp"},
             refresh' = [refresh EXCEPT ![t].step = s],
             s # "read" => refresh[t].step \in {"fetch", "store"}
      PROVE  refresh' \in [Tasks -> Running] /\ OfACurrency'
  <2> DEFINE y == [refresh[t] EXCEPT !.step = s]
  <2>1. y \in Running /\ y.step = s /\ y.of = refresh[t].of
    BY <1>0
  <2>2. refresh' = [refresh EXCEPT ![t] = y]
    BY <1>0, <1>s
  <2>3. y.step \in {"fetch", "store", "stamp"} => y.of \in Currencies
    BY <1>0, <1>s, <2>1 DEF OfACurrency
  <2> HIDE DEF y
  <2> QED
    BY <2>1, <2>2, <2>3, <1>r
<1>n. /\ NotRunning \in Running /\ NotRunning.step = "idle"
  BY DEF NotRunning
<1>1. ASSUME NEW c \in Currencies \cup {"USD"}, SaveCurrency(c) PROVE ExchangeInv'
  <2>1. saving' \in [step : {"idle", "manual"}, changed : BOOLEAN]
    BY <1>1 DEF SaveCurrency
  <2> QED
    BY <1>0, <1>1, <1>d, <2>1 DEF SaveCurrency, ExchangeInv, ExchangeTypeOK, OfACurrency
<1>2. ASSUME NEW m \in Manuals, SaveManual(m) PROVE ExchangeInv'
  <2>1. refresh' \in [Tasks -> Running] /\ OfACurrency'
    <3>1. CASE UNCHANGED refresh
      BY <1>0, <3>1 DEF OfACurrency
    <3>2. ASSUME NEW r \in Refreshers, refresh' = [refresh EXCEPT ![r].step = "read"]
          PROVE  refresh' \in [Tasks -> Running] /\ OfACurrency'
      BY <1>0, <1>s, <3>2
    <3> QED
      BY <1>2, <3>1, <3>2 DEF SaveManual
  <2> QED
    BY <1>0, <1>2, <2>1 DEF SaveManual, ExchangeInv, ExchangeTypeOK, NotSaving
<1>m. CASE RefuseManual
  BY <1>0, <1>m DEF RefuseManual, ExchangeInv, ExchangeTypeOK, NotSaving, OfACurrency, rateRows
<1>3. CASE LoopRefreshes
  <2>1. refresh' \in [Tasks -> Running] /\ OfACurrency'
    BY <1>3, <1>s DEF LoopRefreshes, Tasks
  <2> QED
    BY <1>0, <1>3, <2>1 DEF LoopRefreshes, ExchangeInv, ExchangeTypeOK, rateRows
<1>4. ASSUME NEW t \in Tasks, RefreshStep(t) PROVE ExchangeInv'
  <2>1. CASE ReadCurrency(t)
    <3> DEFINE y == IF currency = "USD" THEN NotRunning ELSE [step |-> "fetch", of |-> currency]
    <3>1. y \in Running /\ (y.step \in {"fetch", "store", "stamp"} => y.of \in Currencies)
      BY <1>0, <1>n
    <3>2. refresh' = [refresh EXCEPT ![t] = y]
      BY <2>1 DEF ReadCurrency
    <3> HIDE DEF y
    <3>3. refresh' \in [Tasks -> Running] /\ OfACurrency'
      BY <1>r, <3>1, <3>2
    <3> QED
      BY <1>0, <2>1, <3>3 DEF ReadCurrency, ExchangeInv, ExchangeTypeOK, rateRows
  <2>2. CASE FetchRate(t)
    <3>1. refresh' \in [Tasks -> Running] /\ OfACurrency'
      BY <1>s, <2>2 DEF FetchRate
    <3> QED
      BY <1>0, <2>2, <3>1 DEF FetchRate, ExchangeInv, ExchangeTypeOK, rateRows
  <2>3. CASE FetchFails(t)
    <3>1. refresh' \in [Tasks -> Running] /\ OfACurrency'
      BY <1>r, <1>n, <2>3 DEF FetchFails
    <3> QED
      BY <1>0, <2>3, <3>1 DEF FetchFails, ExchangeInv, ExchangeTypeOK, rateRows
  <2>4. CASE StoreRate(t)
    <3>1. refresh' \in [Tasks -> Running] /\ OfACurrency'
      BY <1>s, <2>4 DEF StoreRate
    <3>2. autoOf' \in Currencies
      BY <1>0, <2>4 DEF StoreRate, OfACurrency
    <3> QED
      BY <1>0, <2>4, <3>1, <3>2 DEF StoreRate, ExchangeInv, ExchangeTypeOK
  <2>5. CASE StampRate(t)
    <3>1. refresh' \in [Tasks -> Running] /\ OfACurrency'
      BY <1>r, <1>n, <2>5 DEF StampRate
    <3> QED
      BY <1>0, <2>5, <3>1 DEF StampRate, ExchangeInv, ExchangeTypeOK
  <2> QED
    BY <1>4, <2>1, <2>2, <2>3, <2>4, <2>5 DEF RefreshStep
<1>5. CASE DayPasses
  BY <1>0, <1>5 DEF DayPasses, ExchangeInv, ExchangeTypeOK, OfACurrency
<1>6. CASE ExchangeRestart
  <2>1. refresh' \in [Tasks -> Running] /\ OfACurrency'
    BY <1>6, <1>n DEF ExchangeRestart, OfACurrency
  <2> QED
    BY <1>0, <1>6, <1>d, <2>1 DEF ExchangeRestart, ExchangeInv, ExchangeTypeOK, rateRows, NotSaving
<1>7. CASE UNCHANGED exchangeVars
  BY <1>0, <1>7 DEF exchangeVars, rateRows, ExchangeInv, ExchangeTypeOK, OfACurrency
<1> QED
  BY <1>1, <1>2, <1>m, <1>3, <1>4, <1>5, <1>6, <1>7 DEF ExchangeNext

(* Types of the settings, of the rate and of what refreshes are doing      *)
(* (UpdateCostSettings, RefreshFX).                                        *)
THEOREM ExchangeTypesHold == ExchangeSpec => []ExchangeTypeOK
<1>1. ExchangeInv => ExchangeTypeOK
  BY DEF ExchangeInv
<1> QED
  BY <1>1, InitExchange, NextExchange, PTL DEF ExchangeSpec

-----------------------------------------------------------------------------
(* QuotaCalendar. Days, weeks and months are divisions; months of three    *)
(* lengths repeat.                                                         *)
LEMMA Divisions ==
  ASSUME NEW x \in Int
  PROVE  /\ x \div 7 \in Int /\ x % 7 \in 0 .. 6 /\ x = 7 * (x \div 7) + (x % 7)
         /\ x \div 24 \in Int /\ 24 * (x \div 24) <= x /\ x < 24 * (x \div 24) + 24
         /\ x \div 90 \in Int /\ 90 * (x \div 90) <= x /\ x < 90 * (x \div 90) + 90
         /\ x \div 3 \in Int /\ x % 3 \in 0 .. 2 /\ x = 3 * (x \div 3) + (x % 3)
<1>1. x \div 7 \in Int /\ x % 7 \in 0 .. 6 /\ x = 7 * (x \div 7) + (x % 7)
  OBVIOUS
<1>2. x \div 24 \in Int /\ 24 * (x \div 24) <= x /\ x < 24 * (x \div 24) + 24
  OBVIOUS
<1>3. x \div 90 \in Int /\ 90 * (x \div 90) <= x /\ x < 90 * (x \div 90) + 90
  OBVIOUS
<1>4. x \div 3 \in Int /\ x % 3 \in 0 .. 2 /\ x = 3 * (x \div 3) + (x % 3)
  OBVIOUS
<1> QED
  BY <1>1, <1>2, <1>3, <1>4

LEMMA OfACycle == \A m \in Int : \E q \in Int : m = 3 * q \/ m = 3 * q + 1 \/ m = 3 * q + 2
<1> SUFFICES ASSUME NEW m \in Int
             PROVE  \E q \in Int : m = 3 * q \/ m = 3 * q + 1 \/ m = 3 * q + 2
  OBVIOUS
<1>1. m \div 3 \in Int /\ m % 3 \in 0 .. 2 /\ m = 3 * (m \div 3) + (m % 3)
  BY Divisions
<1> WITNESS m \div 3 \in Int
<1> QED
  BY <1>1

LEMMA Months ==
  ASSUME NEW q \in Int
  PROVE  /\ FirstOfMonth(3 * q) = 90 * q
         /\ FirstOfMonth(3 * q + 1) = 90 * q + 31
         /\ FirstOfMonth(3 * q + 2) = 90 * q + 59
         /\ FirstOfMonth(3 * q + 3) = 90 * q + 90
<1>1. /\ (3 * q) \div 3 = q /\ (3 * q) % 3 = 0
      /\ (3 * q + 1) \div 3 = q /\ (3 * q + 1) % 3 = 1
      /\ (3 * q + 2) \div 3 = q /\ (3 * q + 2) % 3 = 2
      /\ (3 * q + 3) \div 3 = q + 1 /\ (3 * q + 3) % 3 = 0
  OBVIOUS
<1>2. /\ <<0, 31, 59>>[0 + 1] = 0 /\ <<0, 31, 59>>[1 + 1] = 31 /\ <<0, 31, 59>>[2 + 1] = 59
  OBVIOUS
<1> QED
  BY <1>1, <1>2 DEF FirstOfMonth, MonthCycle

(* A month has 28 days or more.                                            *)
LEMMA MonthsFollow ==
  ASSUME NEW m \in Int
  PROVE  /\ FirstOfMonth(m) \in Int
         /\ DaysIn(m) \in 28 .. 31
         /\ FirstOfMonth(m + 1) = FirstOfMonth(m) + DaysIn(m)
<1>1. PICK q \in Int : m = 3 * q \/ m = 3 * q + 1 \/ m = 3 * q + 2
  BY OfACycle
<1>2. /\ m = 3 * q => m + 1 = 3 * q + 1
      /\ m = 3 * q + 1 => m + 1 = 3 * q + 2
      /\ m = 3 * q + 2 => m + 1 = 3 * q + 3
  OBVIOUS
<1>3. /\ FirstOfMonth(3 * q) = 90 * q
      /\ FirstOfMonth(3 * q + 1) = 90 * q + 31
      /\ FirstOfMonth(3 * q + 2) = 90 * q + 59
      /\ FirstOfMonth(3 * q + 3) = 90 * q + 90
  BY Months
<1>4. FirstOfMonth(m) \in Int /\ FirstOfMonth(m + 1) - FirstOfMonth(m) \in 28 .. 31
      /\ FirstOfMonth(m + 1) \in Int
  BY <1>1, <1>2, <1>3
<1> QED
  BY <1>4 DEF DaysIn

(* A month ends before a later one begins.                                 *)
LEMMA MonthsAscend ==
  ASSUME NEW m \in Int, NEW n \in Int, m < n
  PROVE  FirstOfMonth(m + 1) <= FirstOfMonth(n)
<1>1. PICK q \in Int : m = 3 * q \/ m = 3 * q + 1 \/ m = 3 * q + 2
  BY OfACycle
<1>2. PICK r \in Int : n = 3 * r \/ n = 3 * r + 1 \/ n = 3 * r + 2
  BY OfACycle
<1>3. /\ m = 3 * q => m + 1 = 3 * q + 1
      /\ m = 3 * q + 1 => m + 1 = 3 * q + 2
      /\ m = 3 * q + 2 => m + 1 = 3 * q + 3
  OBVIOUS
<1>4. q <= r
  BY <1>1, <1>2
<1>5. CASE q = r
  <2>1. /\ m = 3 * q => n = 3 * q + 1 \/ n = 3 * q + 2
        /\ m = 3 * q + 1 => n = 3 * q + 2
        /\ m # 3 * q + 2
    BY <1>1, <1>2, <1>5
  <2>2. FirstOfMonth(3 * q + 1) <= FirstOfMonth(3 * q + 2)
    BY Months
  <2>3. m + 1 = n \/ (m + 1 = 3 * q + 1 /\ n = 3 * q + 2)
    BY <1>1, <1>3, <2>1
  <2> QED
    <3>1. FirstOfMonth(n) \in Int
      BY MonthsFollow
    <3> QED
      BY <2>2, <2>3, <3>1
<1>6. CASE q < r
  <2>1. FirstOfMonth(m + 1) <= 90 * q + 90
    BY <1>1, <1>3, Months
  <2>2. FirstOfMonth(n) >= 90 * r
    BY <1>2, Months
  <2> QED
    BY <1>6, <2>1, <2>2, MonthsFollow
<1> QED
  BY <1>4, <1>5, <1>6

(* MonthOf finds the month that a day is in.                               *)
LEMMA MonthIs ==
  ASSUME NEW day \in Int
  PROVE  /\ MonthOf(day) \in Int
         /\ FirstOfMonth(MonthOf(day)) <= day /\ day < FirstOfMonth(MonthOf(day) + 1)
<1> DEFINE q == day \div 90
           Has(m) == FirstOfMonth(m) <= day /\ day < FirstOfMonth(m + 1)
<1>1. q \in Int /\ 90 * q <= day /\ day < 90 * q + 90
  BY Divisions
<1> HIDE DEF q
<1>2. /\ FirstOfMonth(3 * q) = 90 * q /\ FirstOfMonth((3 * q) + 1) = 90 * q + 31
      /\ FirstOfMonth((3 * q + 1) + 1) = 90 * q + 59
      /\ FirstOfMonth((3 * q + 2) + 1) = 90 * q + 90
  <2>1. 3 * q + 1 + 1 = 3 * q + 2 /\ 3 * q + 2 + 1 = 3 * q + 3
    BY <1>1
  <2> QED
    BY <1>1, <2>1, Months
<1>3. FirstOfMonth(3 * q + 1) = 90 * q + 31 /\ FirstOfMonth(3 * q + 2) = 90 * q + 59
  BY <1>1, Months
<1>4. Has(3 * q) \/ Has(3 * q + 1) \/ Has(3 * q + 2)
  BY <1>1, <1>2, <1>3
<1>5. \E m \in 3 * q .. 3 * q + 2 : Has(m)
  BY <1>1, <1>4
<1>6. MonthOf(day) = CHOOSE m \in 3 * q .. 3 * q + 2 : Has(m)
  BY DEF MonthOf, MonthCycle, q
<1> HIDE DEF Has
<1>7. MonthOf(day) \in 3 * q .. 3 * q + 2 /\ Has(MonthOf(day))
  BY <1>5, <1>6
<1> QED
  BY <1>1, <1>7 DEF Has

-----------------------------------------------------------------------------
(* The resets of a schedule are numbered by day, week or month.            *)
Number(p, day) == CASE p = "daily" -> day
                    [] p = "weekly" -> day \div 7
                    [] p = "monthly" -> MonthOf(day)

ResetDay(p, s, n) == CASE p = "daily" -> n
                       [] p = "weekly" -> 7 * n + s.weekday - 1
                       [] p = "monthly" -> FirstOfMonth(n) + Clamp(s.day, 1, DaysIn(n)) - 1

Reset(p, s, n) == Date(s.zone, ResetDay(p, s, n), s.hour)

Resets == {"daily", "weekly", "monthly"}

(* A local time is an instant by one of the offsets of its zone.           *)
LEMMA DateIs ==
  ASSUME NEW z, ValidZone(z), NEW day \in Int, NEW hour \in Int
  PROVE  \/ Date(z, day, hour) = 24 * day + hour - z.standard
         \/ Date(z, day, hour) = 24 * day + hour - z.summer
<1> DEFINE local == DayHours * day + hour
           guess == OffsetAt(z, local)
<1>1. guess \in {z.standard, z.summer}
  BY DEF OffsetAt
<1>2. OffsetAt(z, local - guess) \in {z.standard, z.summer}
  BY DEF OffsetAt
<1>3. Date(z, day, hour) = local - (IF guess = 0 THEN 0 ELSE OffsetAt(z, local - guess))
  BY DEF Date
<1>4. local = 24 * day + hour
  BY DEF DayHours
<1> HIDE DEF local, guess
<1> QED
  BY <1>1, <1>2, <1>3, <1>4 DEF ValidZone

(* Day 29 to 31 is the last day of a short month.                          *)
LEMMA Clamped ==
  ASSUME NEW s, ValidSchedule(s), NEW m \in Int
  PROVE  Clamp(s.day, 1, DaysIn(m)) \in 1 .. DaysIn(m)
<1>1. s.day \in 1 .. 31
  BY DEF ValidSchedule
<1>2. DaysIn(m) \in 28 .. 31
  BY MonthsFollow
<1> QED
  BY <1>1, <1>2 DEF Clamp

LEMMA ResetDays ==
  ASSUME NEW p \in Resets, NEW s, ValidSchedule(s), NEW n \in Int
  PROVE  /\ ResetDay(p, s, n) \in Int
         /\ \A m \in Int : n < m => ResetDay(p, s, n) < ResetDay(p, s, m)
<1>1. CASE p = "daily"
  BY <1>1 DEF ResetDay
<1>2. CASE p = "weekly"
  BY <1>2 DEF ResetDay, ValidSchedule
<1>3. CASE p = "monthly"
  <2>1. ASSUME NEW k \in Int
        PROVE  Clamp(s.day, 1, DaysIn(k)) \in 1 .. DaysIn(k)
    BY <2>1, Clamped
  <2>2. ASSUME NEW k \in Int
        PROVE  ResetDay(p, s, k) \in FirstOfMonth(k) .. FirstOfMonth(k + 1) - 1
    BY <1>3, <2>1, MonthsFollow DEF ResetDay
  <2> QED
    BY <2>2, MonthsFollow, MonthsAscend
<1> QED
  BY <1>1, <1>2, <1>3 DEF Resets

(* Offsets that differ by less than a day keep resets in the order of      *)
(* their days.                                                             *)
LEMMA ResetsAscend ==
  ASSUME NEW p \in Resets, NEW s, ValidSchedule(s), NEW n \in Int
  PROVE  /\ Reset(p, s, n) \in Int
         /\ \A m \in Int : n < m => Reset(p, s, n) < Reset(p, s, m)
<1>1. s.hour \in Int /\ ValidZone(s.zone)
  BY DEF ValidSchedule
<1>2. s.zone.standard \in Int /\ s.zone.summer \in Int /\ s.zone.summer - s.zone.standard \in -23 .. 23
  BY <1>1 DEF ValidZone
<1>3. ASSUME NEW k \in Int
      PROVE  \/ Reset(p, s, k) = 24 * ResetDay(p, s, k) + s.hour - s.zone.standard
             \/ Reset(p, s, k) = 24 * ResetDay(p, s, k) + s.hour - s.zone.summer
  BY <1>1, ResetDays, DateIs DEF Reset
<1>4. ASSUME NEW m \in Int, n < m PROVE Reset(p, s, n) < Reset(p, s, m)
  <2> DEFINE a == ResetDay(p, s, n)
             b == ResetDay(p, s, m)
             st == s.zone.standard
             su == s.zone.summer
             h == s.hour
  <2>1. a \in Int /\ b \in Int /\ a < b
    BY <1>4, ResetDays
  <2>2. st \in Int /\ su \in Int /\ su - st \in -23 .. 23 /\ h \in Int
    BY <1>1, <1>2
  <2>3. Reset(p, s, n) = 24 * a + h - st \/ Reset(p, s, n) = 24 * a + h - su
    BY <1>3
  <2>4. Reset(p, s, m) = 24 * b + h - st \/ Reset(p, s, m) = 24 * b + h - su
    BY <1>3
  <2> HIDE DEF a, b, st, su, h
  <2> QED
    BY <2>1, <2>2, <2>3, <2>4
<1>5. Reset(p, s, n) \in Int
  BY <1>1, <1>2, <1>3, ResetDays
<1> QED
  BY <1>4, <1>5

(* What the search calls the k-th reset from a day is one of the grid.     *)
LEMMA NthIsReset ==
  ASSUME NEW p \in Resets, NEW s, ValidSchedule(s), NEW day \in Int, NEW k \in Int
  PROVE  Nth(p, s, day, k) = Reset(p, s, Number(p, day) + k)
<1>1. CASE p = "daily"
  BY <1>1 DEF Nth, Reset, ResetDay, Number
<1>2. CASE p = "weekly"
  <2>1. Clamp(s.weekday, 1, 7) = s.weekday /\ s.weekday \in Int
    BY DEF Clamp, ValidSchedule
  <2>2. day - (Weekday(day) - 1) = 7 * (day \div 7)
    BY Divisions DEF Weekday
  <2>3. day - (Weekday(day) - 1) + 7 * k + (Clamp(s.weekday, 1, 7) - 1)
           = 7 * (day \div 7 + k) + s.weekday - 1
    BY <2>1, <2>2, Divisions
  <2> QED
    BY <1>2, <2>3 DEF Nth, Reset, ResetDay, Number
<1>3. CASE p = "monthly"
  BY <1>3 DEF Nth, NthMonth, Reset, ResetDay, Number
<1> QED
  BY <1>1, <1>2, <1>3 DEF Resets
-----------------------------------------------------------------------------
(* The search starts no more than two resets from the instant.             *)
LEMMA StartsNear ==
  ASSUME NEW p \in Resets, NEW s, ValidSchedule(s), NEW t \in Int
  PROVE  LET n == Number(p, LocalDay(s.zone, t))
         IN  n \in Int /\ Reset(p, s, n - 2) <= t /\ t < Reset(p, s, n + 2)
<1> DEFINE day == LocalDay(s.zone, t)
           n == Number(p, day)
           off == OffsetAt(s.zone, t)
           st == s.zone.standard
           su == s.zone.summer
           h == s.hour
<1>1. st \in Int /\ su \in Int /\ su - st \in -23 .. 23 /\ off \in {st, su} /\ h \in 0 .. 23
  BY DEF ValidSchedule, ValidZone, OffsetAt
<1>2. day \in Int /\ 24 * day <= t + off /\ t + off < 24 * day + 24
  BY <1>1, Divisions DEF LocalDay, DayHours
<1>3. /\ n \in Int /\ ResetDay(p, s, n - 2) \in Int /\ ResetDay(p, s, n + 2) \in Int
      /\ ResetDay(p, s, n - 2) <= day - 2 /\ ResetDay(p, s, n + 2) >= day + 2
  <2>1. CASE p = "daily"
    BY <1>2, <2>1 DEF Number, ResetDay
  <2>2. CASE p = "weekly"
    <3>1. n = day \div 7 /\ n \in Int /\ day \in 7 * n .. 7 * n + 6
      BY <1>2, <2>2, Divisions DEF Number
    <3>2. ASSUME NEW k \in Int
          PROVE  ResetDay(p, s, k) = 7 * k + s.weekday - 1 /\ s.weekday \in 1 .. 7
      BY <2>2 DEF ResetDay, ValidSchedule
    <3> HIDE DEF n, day
    <3> QED
      BY <1>2, <3>1, <3>2
  <2>3. CASE p = "monthly"
    <3>1. /\ n \in Int /\ n = MonthOf(day)
          /\ FirstOfMonth(n) <= day /\ day < FirstOfMonth(n + 1)
      BY <1>2, <2>3, MonthIs DEF Number
    <3> HIDE DEF n, day
    <3>2. ASSUME NEW k \in Int
          PROVE  /\ ResetDay(p, s, k) \in FirstOfMonth(k) .. FirstOfMonth(k + 1) - 1
                 /\ FirstOfMonth(k) \in Int /\ FirstOfMonth(k) + 28 <= FirstOfMonth(k + 1)
      <4>1. Clamp(s.day, 1, DaysIn(k)) \in 1 .. DaysIn(k)
        BY Clamped
      <4> QED
        BY <2>3, <4>1, MonthsFollow DEF ResetDay
    <3>3. (n - 2) + 1 = n - 1 /\ (n - 1) + 1 = n /\ (n + 1) + 1 = n + 2
      BY <3>1
    <3>4. /\ ResetDay(p, s, n - 2) \in FirstOfMonth(n - 2) .. FirstOfMonth(n - 1) - 1
          /\ FirstOfMonth(n - 2) \in Int /\ FirstOfMonth(n - 1) \in Int
          /\ FirstOfMonth(n - 1) + 28 <= FirstOfMonth(n)
      BY <3>1, <3>2, <3>3
    <3>5. /\ ResetDay(p, s, n + 2) >= FirstOfMonth(n + 2) /\ ResetDay(p, s, n + 2) \in Int
          /\ FirstOfMonth(n + 1) \in Int /\ FirstOfMonth(n + 2) \in Int
          /\ FirstOfMonth(n + 1) + 28 <= FirstOfMonth(n + 2)
      BY <3>1, <3>2, <3>3, n + 2 \in Int, n + 1 \in Int, MonthsFollow
    <3> QED
      BY <1>2, <3>1, <3>2, <3>4, <3>5
  <2> QED
    BY <2>1, <2>2, <2>3 DEF Resets
<1>4. ASSUME NEW k \in Int, ResetDay(p, s, k) \in Int
      PROVE  \/ Reset(p, s, k) = 24 * ResetDay(p, s, k) + h - st
             \/ Reset(p, s, k) = 24 * ResetDay(p, s, k) + h - su
  BY <1>1, <1>4, DateIs DEF Reset, ValidSchedule
<1> DEFINE a == ResetDay(p, s, n - 2)
           b == ResetDay(p, s, n + 2)
<1>5. Reset(p, s, n - 2) = 24 * a + h - st \/ Reset(p, s, n - 2) = 24 * a + h - su
  BY <1>3, <1>4
<1>6. Reset(p, s, n + 2) = 24 * b + h - st \/ Reset(p, s, n + 2) = 24 * b + h - su
  BY <1>3, <1>4
<1>7. a \in Int /\ b \in Int /\ a <= day - 2 /\ b >= day + 2 /\ n \in Int
  BY <1>3
<1> HIDE DEF a, b, n, off, st, su, h, day
<1>8. Reset(p, s, n - 2) <= t
  BY <1>1, <1>2, <1>5, <1>7
<1>9. t < Reset(p, s, n + 2)
  BY <1>1, <1>2, <1>6, <1>7
<1> QED
  BY <1>7, <1>8, <1>9 DEF n, day
-----------------------------------------------------------------------------
(* The search comes to the last reset up to the instant, and what follows  *)
(* it is the first one after it: the UTC calendar is never fallen back on. *)
LEMMA SearchArrives ==
  ASSUME NEW p \in Resets, NEW s, ValidSchedule(s), NEW t \in Int
  PROVE  \E n \in Int : /\ Reset(p, s, n) <= t /\ t < Reset(p, s, n + 1)
                        /\ ScheduleWindow(p, s, t) = Window(Reset(p, s, n), Reset(p, s, n + 1))
<1> DEFINE day == LocalDay(s.zone, t)
           b == Number(p, day)
           i == StepsBack(p, s, day, t)
           j == StepsOn(p, s, day, t, -i)
           R(n) == Reset(p, s, n)
<1>1. b \in Int /\ R(b - 2) <= t /\ t < R(b + 2)
  BY StartsNear
<1>2. day \in Int
  BY Divisions DEF LocalDay, DayHours, ValidSchedule, ValidZone, OffsetAt
<1>3. \A k \in Int : Nth(p, s, day, k) = R(b + k)
  BY <1>2, NthIsReset
<1>4. \A n \in Int : R(n) \in Int
  BY ResetsAscend
<1>5. \A m, n \in Int : m < n => R(m) < R(n)
  BY ResetsAscend
<1>6. i = CHOOSE x \in 0 .. MaxSteps : /\ x = MaxSteps \/ Nth(p, s, day, -x) <= t
                                       /\ \A y \in 0 .. x - 1 : Nth(p, s, day, -y) > t
  BY DEF StepsBack
<1>7. j = CHOOSE x \in 0 .. MaxSteps : /\ x = MaxSteps \/ Nth(p, s, day, (-i) + x + 1) > t
                                       /\ \A y \in 0 .. x - 1 : Nth(p, s, day, (-i) + y + 1) <= t
  BY DEF StepsOn
<1>8. ScheduleWindow(p, s, t) =
        LET k == (-i) + j
            w == Window(Nth(p, s, day, k), Nth(p, s, day, k + 1))
        IN  IF w.start <= t /\ t < w.until THEN w ELSE DefaultWindow(p, t)
  BY DEF ScheduleWindow, Usable, ValidSchedule, Resets
<1> HIDE DEF day, b, i, j, R
<1>9. /\ i \in 0 .. 4
      /\ i = 4 \/ R(b - i) <= t
      /\ \A y \in 0 .. i - 1 : R(b - y) > t
  <2> DEFINE P(x) == /\ x = MaxSteps \/ Nth(p, s, day, -x) <= t
                     /\ \A y \in 0 .. x - 1 : Nth(p, s, day, -y) > t
  <2>1. ASSUME NEW x \in 0 .. 4
        PROVE  P(x) <=> /\ x = 4 \/ R(b - x) <= t
                        /\ \A y \in 0 .. x - 1 : R(b - y) > t
    <3>1. \A y \in 0 .. 4 : -y \in Int /\ b + (-y) = b - y
      BY <1>1
    <3> QED
      BY <1>3, <2>1, <3>1 DEF MaxSteps
  <2> HIDE DEF P
  <2>2. P(0) \/ P(1) \/ P(2)
    <3>1. CASE R(b - 0) <= t
      BY <2>1, <3>1
    <3>2. CASE R(b - 0) > t /\ R(b - 1) <= t
      BY <2>1, <3>2
    <3>3. CASE R(b - 0) > t /\ R(b - 1) > t
      BY <1>1, <2>1, <3>3
    <3> QED
      BY <1>1, <1>4, <3>1, <3>2, <3>3
  <2>3. i \in 0 .. 4 /\ P(i)
    BY <1>6, <2>2 DEF MaxSteps, P
  <2> QED
    BY <2>1, <2>3
<1>10. i \in 0 .. 2 /\ R(b - i) <= t
  <2>1. ~ i > 2
    <3> SUFFICES ASSUME i > 2 PROVE FALSE
      OBVIOUS
    <3>1. R(b - 2) > t
      BY <1>9
    <3>2. b - 2 \in Int
      BY <1>1
    <3> QED
      BY <1>1, <1>4, <3>1, <3>2
  <2> QED
    BY <1>9, <2>1
<1> DEFINE c == b - i
<1>11. c \in Int /\ c + 4 >= b + 2 /\ R(c) <= t
  BY <1>1, <1>10
<1>12. t < R(c + 4)
  BY <1>1, <1>4, <1>5, <1>11
<1>13. \A k \in Int : Nth(p, s, day, (-i) + k) = R(c + k)
  <2> SUFFICES ASSUME NEW k \in Int PROVE Nth(p, s, day, (-i) + k) = R(c + k)
    OBVIOUS
  <2>1. (-i) + k \in Int /\ b + ((-i) + k) = c + k
    BY <1>1, <1>10
  <2> QED
    BY <1>3, <2>1
<1> HIDE DEF c
<1>14. /\ j \in 0 .. 4
       /\ j = 4 \/ t < R(c + (j + 1))
       /\ \A y \in 0 .. j - 1 : R(c + (y + 1)) <= t
  <2> DEFINE P(x) == /\ x = MaxSteps \/ Nth(p, s, day, (-i) + x + 1) > t
                     /\ \A y \in 0 .. x - 1 : Nth(p, s, day, (-i) + y + 1) <= t
  <2>1. ASSUME NEW x \in 0 .. 4
        PROVE  P(x) <=> /\ x = 4 \/ t < R(c + (x + 1))
                        /\ \A y \in 0 .. x - 1 : R(c + (y + 1)) <= t
    <3>1. \A y \in 0 .. 4 : y + 1 \in Int /\ (-i) + y + 1 = (-i) + (y + 1) /\ c + (y + 1) \in Int
      BY <1>10, <1>11
    <3>2. \A y \in 0 .. 4 : Nth(p, s, day, (-i) + y + 1) = R(c + (y + 1)) /\ R(c + (y + 1)) \in Int
      BY <1>4, <1>13, <3>1
    <3> QED
      BY <2>1, <3>2 DEF MaxSteps
  <2> HIDE DEF P
  <2>2. P(0) \/ P(1) \/ P(2) \/ P(3)
    <3>1. /\ P(0) <=> t < R(c + 1)
          /\ P(1) <=> t < R(c + 2) /\ R(c + 1) <= t
          /\ P(2) <=> t < R(c + 3) /\ R(c + 1) <= t /\ R(c + 2) <= t
          /\ P(3) <=> t < R(c + 4) /\ R(c + 1) <= t /\ R(c + 2) <= t /\ R(c + 3) <= t
      BY <2>1
    <3>2. R(c + 1) \in Int /\ R(c + 2) \in Int /\ R(c + 3) \in Int
      BY <1>4, <1>11
    <3> QED
      BY <1>12, <3>1, <3>2
  <2>3. j \in 0 .. 4 /\ P(j)
    BY <1>7, <2>2 DEF MaxSteps, P
  <2> QED
    BY <2>1, <2>3
<1>15. j \in 0 .. 3 /\ t < R(c + (j + 1))
  <2>1. j # 4
    <3> SUFFICES ASSUME j = 4 PROVE FALSE
      OBVIOUS
    <3>1. 3 \in 0 .. j - 1 /\ 3 + 1 = 4
      OBVIOUS
    <3>2. R(c + 4) <= t
      BY <1>14, <3>1
    <3> QED
      BY <1>4, <1>11, <1>12, <3>2
  <2> QED
    BY <1>14, <2>1
<1>16. R(c + j) <= t
  <2>1. CASE j = 0
    BY <1>11, <2>1
  <2>2. CASE j # 0
    <3>1. j - 1 \in 0 .. j - 1 /\ (j - 1) + 1 = j
      BY <1>15, <2>2
    <3> QED
      BY <1>14, <3>1
  <2> QED
    BY <2>1, <2>2
<1> DEFINE n == c + j
<1>17. n \in Int /\ R(n) <= t /\ t < R(n + 1) /\ R(n) = Nth(p, s, day, (-i) + j)
       /\ R(n + 1) = Nth(p, s, day, ((-i) + j) + 1)
  <2>1. c + (j + 1) = n + 1 /\ ((-i) + j) + 1 = (-i) + (j + 1) /\ j \in Int /\ j + 1 \in Int
    BY <1>10, <1>11, <1>15
  <2> QED
    BY <1>11, <1>13, <1>15, <1>16, <2>1
<1>18. ScheduleWindow(p, s, t) = Window(R(n), R(n + 1))
  BY <1>8, <1>17 DEF Window
<1> QED
  BY <1>17, <1>18 DEF R

-----------------------------------------------------------------------------
(* A key without a usable schedule has the UTC calendar.                   *)
UtcCalendar == Sched(Utc, 0, 1, 1)
InEffect(s) == IF Usable(s) THEN s ELSE UtcCalendar

LEMMA UtcIsValid ==
  /\ ValidSchedule(UtcCalendar)
  /\ UtcCalendar.weekday = 1 /\ UtcCalendar.day = 1
  /\ \A day \in Int : Date(UtcCalendar.zone, day, UtcCalendar.hour) = 24 * day
<1>1. /\ UtcCalendar.hour = 0 /\ UtcCalendar.weekday = 1 /\ UtcCalendar.day = 1
      /\ UtcCalendar.zone = Utc
  BY DEF UtcCalendar, Sched
<1>2. Utc.standard = 0 /\ Utc.summer = 0 /\ Utc.from = 0 /\ Utc.until = 0
  BY DEF Utc
<1>3. ValidZone(Utc)
  BY <1>2 DEF ValidZone
<1>4. \A day \in Int : Date(Utc, day, 0) = 24 * day
  BY <1>2, <1>3, DateIs
<1> QED
  BY <1>1, <1>3, <1>4 DEF ValidSchedule

LEMMA DefaultArrives ==
  ASSUME NEW p \in Resets, NEW t \in Int
  PROVE  \E n \in Int :
           /\ Reset(p, UtcCalendar, n) <= t /\ t < Reset(p, UtcCalendar, n + 1)
           /\ DefaultWindow(p, t) = Window(Reset(p, UtcCalendar, n), Reset(p, UtcCalendar, n + 1))
<1> DEFINE day == t \div 24
           R(n) == Reset(p, UtcCalendar, n)
           D(n) == ResetDay(p, UtcCalendar, n)
<1>1. day \in Int /\ 24 * day <= t /\ t < 24 * day + 24
  BY Divisions
<1>2. ASSUME NEW n \in Int PROVE D(n) \in Int /\ R(n) = 24 * D(n)
  BY UtcIsValid, ResetDays DEF Reset
<1> SUFFICES \E n \in Int : /\ D(n) <= day /\ day < D(n + 1)
                            /\ DefaultWindow(p, t) = Window(24 * D(n), 24 * D(n + 1))
  <2>1. PICK n \in Int : /\ D(n) <= day /\ day < D(n + 1)
                         /\ DefaultWindow(p, t) = Window(24 * D(n), 24 * D(n + 1))
    OBVIOUS
  <2>2. n + 1 \in Int
    OBVIOUS
  <2>3. D(n) \in Int /\ R(n) = 24 * D(n) /\ D(n + 1) \in Int /\ R(n + 1) = 24 * D(n + 1)
    BY <1>2, <2>2
  <2> HIDE DEF D, R, day
  <2>4. R(n) <= t /\ t < R(n + 1) /\ DefaultWindow(p, t) = Window(R(n), R(n + 1))
    BY <1>1, <2>1, <2>3
  <2> QED
    BY <2>4 DEF R
<1>3. CASE p = "daily"
  <2>1. D(day) = day /\ D(day + 1) = day + 1
    BY <1>3 DEF ResetDay
  <2>2. DefaultWindow(p, t) = Window(24 * day, 24 * (day + 1))
    BY <1>3 DEF DefaultWindow, DayHours
  <2> QED
    BY <1>1, <2>1, <2>2
<1>4. CASE p = "weekly"
  <2> DEFINE n == day \div 7
  <2>1. n \in Int /\ day % 7 \in 0 .. 6 /\ day = 7 * n + (day % 7)
    BY <1>1, Divisions
  <2>2. day - (Weekday(day) - 1) = 7 * n
    BY <1>1, <2>1 DEF Weekday
  <2>3. DefaultWindow(p, t) = Window(24 * (7 * n), 24 * (7 * n + 7))
    BY <1>4, <2>2 DEF DefaultWindow, DayHours
  <2>4. D(n) = 7 * n /\ D(n + 1) = 7 * n + 7
    BY <1>4, <2>1, UtcIsValid DEF ResetDay
  <2> QED
    BY <1>1, <2>1, <2>3, <2>4
<1>5. CASE p = "monthly"
  <2> DEFINE n == MonthOf(day)
  <2>1. n \in Int /\ FirstOfMonth(n) <= day /\ day < FirstOfMonth(n + 1)
    BY <1>1, MonthIs
  <2>2. DefaultWindow(p, t) = Window(24 * FirstOfMonth(n), 24 * FirstOfMonth(n + 1))
    BY <1>5 DEF DefaultWindow, DayHours
  <2>3. ASSUME NEW k \in Int PROVE D(k) = FirstOfMonth(k)
    <3>1. Clamp(1, 1, DaysIn(k)) = 1
      BY MonthsFollow DEF Clamp
    <3> QED
      BY <1>5, <3>1, UtcIsValid, MonthsFollow DEF ResetDay
  <2>4. D(n) = FirstOfMonth(n) /\ D(n + 1) = FirstOfMonth(n + 1)
    BY <2>1, <2>3, n + 1 \in Int
  <2> QED
    BY <2>1, <2>2, <2>4
<1> QED
  BY <1>3, <1>4, <1>5 DEF Resets

LEMMA WindowIsFound ==
  ASSUME NEW p \in Resets, NEW s, ValidSchedule(s) \/ ~ Usable(s), NEW t \in Int
  PROVE  \E n \in Int :
           /\ Reset(p, InEffect(s), n) <= t /\ t < Reset(p, InEffect(s), n + 1)
           /\ ScheduleWindow(p, s, t) = Window(Reset(p, InEffect(s), n), Reset(p, InEffect(s), n + 1))
<1>1. CASE Usable(s)
  BY <1>1, SearchArrives DEF InEffect
<1>2. CASE ~ Usable(s)
  BY <1>2, DefaultArrives DEF InEffect, ScheduleWindow
<1> QED
  BY <1>1, <1>2

(* The windows of every schedule, in every zone, are as CalendarAssumption *)
(* says, on which the proofs about schedules rest: an instant lies in its  *)
(* window, and the next one in the same or in one that starts where this   *)
(* one ends, over daylight saving changes and short months (ADR 0010 #6,   *)
(* scheduleWindow).                                                        *)
THEOREM CalendarWindowsTile ==
  ASSUME NEW s, ValidSchedule(s) \/ ~ Usable(s), NEW p \in MCPeriods, NEW t \in Int,
         p = "total" => Epoch <= t /\ t + 1 < EndOfTime
  PROVE  LET w == ScheduleWindow(p, s, t)
             v == ScheduleWindow(p, s, t + 1)
         IN  /\ w.start \in Int /\ w.until \in Int /\ w.start <= t /\ t < w.until
             /\ IF t + 1 < w.until THEN v = w ELSE v.start = w.until
<1> DEFINE w == ScheduleWindow(p, s, t)
           v == ScheduleWindow(p, s, t + 1)
           R(n) == Reset(p, InEffect(s), n)
<1>1. CASE p = "total"
  <2>1. w = Window(Epoch, EndOfTime) /\ v = Window(Epoch, EndOfTime)
    BY <1>1 DEF ScheduleWindow, DefaultWindow
  <2> QED
    BY <1>1, <2>1 DEF Window, Epoch, EndOfTime
<1>2. CASE p # "total"
  <2>1. p \in Resets
    BY <1>2 DEF Resets, MCPeriods
  <2>2. ValidSchedule(InEffect(s))
    BY UtcIsValid DEF InEffect
  <2>3. PICK n \in Int : R(n) <= t /\ t < R(n + 1) /\ w = Window(R(n), R(n + 1))
    BY <2>1, WindowIsFound
  <2>4. PICK m \in Int : R(m) <= t + 1 /\ t + 1 < R(m + 1) /\ v = Window(R(m), R(m + 1))
    BY <2>1, WindowIsFound, t + 1 \in Int
  <2>5. \A k \in Int : R(k) \in Int /\ \A l \in Int : k < l => R(k) < R(l)
    BY <2>1, <2>2, ResetsAscend
  <2> HIDE DEF w, v, R
  <2>6. w.start = R(n) /\ w.until = R(n + 1) /\ v.start = R(m) /\ v.until = R(m + 1)
    BY <2>3, <2>4 DEF Window
  <2>7. R(n) \in Int /\ R(n + 1) \in Int /\ R(m) \in Int /\ R(m + 1) \in Int
    BY <2>5
  <2>8. ~ m < n
    <3>1. m < n => m + 1 < n \/ m + 1 = n
      OBVIOUS
    <3> QED
      BY <2>3, <2>4, <2>5, <2>7, <3>1
  <2>9. CASE t + 1 < R(n + 1)
    <3>1. ~ n < m
      <4>1. n < m => n + 1 < m \/ n + 1 = m
        OBVIOUS
      <4> QED
        BY <2>4, <2>5, <2>7, <2>9, <4>1
    <3>2. m = n
      BY <2>8, <3>1
    <3> QED
      BY <2>3, <2>4, <2>6, <2>7, <2>9, <3>2 DEF w, v
  <2>10. CASE ~ t + 1 < R(n + 1)
    <3>1. R(n + 1) = t + 1
      BY <2>3, <2>7, <2>10
    <3>2. m # n
      BY <2>4, <2>7, <2>10
    <3>3. ~ n + 1 < m
      BY <2>4, <2>5, <2>7, <3>1
    <3>4. m = n + 1
      BY <2>8, <3>2, <3>3
    <3> QED
      BY <2>3, <2>6, <2>7, <2>10, <3>4 DEF w, v
  <2> QED
    BY <2>9, <2>10
<1> QED
  BY <1>1, <1>2

-----------------------------------------------------------------------------
(* The grid of the run holds the resets that are around its instants.      *)
First == [p \in Resets |-> IF p = "daily" THEN -3 ELSE -2]
Last  == [p \in Resets |-> CASE p = "daily" -> 70 [] p = "weekly" -> 11 [] p = "monthly" -> 4]

LEMMA GridIs ==
  ASSUME NEW p \in Resets, NEW s, ValidSchedule(s)
  PROVE  ResetGrid(p, s) = {Reset(p, s, n) : n \in First[p] .. Last[p]}
<1>1. CASE p = "daily"
  BY <1>1 DEF ResetGrid, Reset, ResetDay, First, Last, Resets
<1>2. CASE p = "weekly"
  BY <1>2 DEF ResetGrid, Reset, ResetDay, First, Last, Resets
<1>3. CASE p = "monthly"
  <2>1. ASSUME NEW n \in Int PROVE Min({s.day, DaysIn(n)}) = Clamp(s.day, 1, DaysIn(n))
    <3>1. s.day \in 1 .. 31
      BY DEF ValidSchedule
    <3>2. DaysIn(n) \in 28 .. 31
      BY <2>1, MonthsFollow
    <3>3. CASE s.day <= DaysIn(n)
      <4>1. Min({s.day, DaysIn(n)}) = s.day
        BY <3>1, <3>2, <3>3 DEF Min
      <4> QED
        BY <3>1, <3>2, <3>3, <4>1 DEF Clamp
    <3>4. CASE DaysIn(n) < s.day
      <4>1. Min({s.day, DaysIn(n)}) = DaysIn(n)
        BY <3>1, <3>2, <3>4 DEF Min
      <4> QED
        BY <3>1, <3>2, <3>4, <4>1 DEF Clamp
    <3> QED
      BY <3>1, <3>2, <3>3, <3>4
  <2> QED
    BY <1>3, <2>1 DEF ResetGrid, Reset, ResetDay, First, Last, Resets
<1> QED
  BY <1>1, <1>2, <1>3 DEF Resets

LEMMA GridReaches ==
  ASSUME NEW p \in Resets, NEW s, ValidSchedule(s), NEW t \in 0 .. Horizon, NEW n \in Int,
         Reset(p, s, n) <= t, t < Reset(p, s, n + 1)
  PROVE  n \in First[p] .. Last[p] /\ n + 1 \in First[p] .. Last[p]
<1> DEFINE a == ResetDay(p, s, n)
           b == ResetDay(p, s, n + 1)
           st == s.zone.standard
           su == s.zone.summer
           h == s.hour
<1>1. a \in Int /\ b \in Int
  BY ResetDays, n + 1 \in Int
<1>2. st \in -24 .. 24 /\ su \in -24 .. 24 /\ h \in 0 .. 23 /\ t \in 0 .. 1560
  BY DEF ValidSchedule, ValidZone, Horizon, DayHours
<1>3. Reset(p, s, n) = 24 * a + h - st \/ Reset(p, s, n) = 24 * a + h - su
  BY <1>1, <1>2, DateIs DEF Reset, ValidSchedule
<1>4. Reset(p, s, n + 1) = 24 * b + h - st \/ Reset(p, s, n + 1) = 24 * b + h - su
  BY <1>1, <1>2, DateIs DEF Reset, ValidSchedule
<1>5. a <= 66 /\ b >= -1
  <2> HIDE DEF a, b, st, su, h
  <2> QED
    BY <1>1, <1>2, <1>3, <1>4
<1>6. CASE p = "daily"
  <2>1. First[p] = -3 /\ Last[p] = 70
    BY <1>6 DEF First, Last
  <2>2. a = n /\ b = n + 1
    BY <1>6 DEF ResetDay
  <2> QED
    BY <1>5, <2>1, <2>2
<1>7. CASE p = "weekly"
  <2>1. First[p] = -2 /\ Last[p] = 11
    BY <1>7 DEF First, Last
  <2>2. a = 7 * n + s.weekday - 1 /\ b = 7 * (n + 1) + s.weekday - 1 /\ s.weekday \in 1 .. 7
    BY <1>7 DEF ResetDay, ValidSchedule
  <2> QED
    BY <1>5, <2>1, <2>2
<1>8. CASE p = "monthly"
  <2>1. First[p] = -2 /\ Last[p] = 4
    BY <1>8 DEF First, Last
  <2>2. /\ FirstOfMonth(-2) = -59 /\ FirstOfMonth(-1) = -31
        /\ FirstOfMonth(3) = 90
    <3>1. /\ FirstOfMonth(3 * (-1) + 1) = 90 * (-1) + 31
          /\ FirstOfMonth(3 * (-1) + 2) = 90 * (-1) + 59
          /\ FirstOfMonth(3 * 1) = 90 * 1
      BY Months, -1 \in Int, 1 \in Int
    <3> QED
      BY <3>1
  <2>3. ASSUME NEW k \in Int
        PROVE  /\ ResetDay(p, s, k) \in FirstOfMonth(k) .. FirstOfMonth(k + 1) - 1
               /\ FirstOfMonth(k) \in Int /\ FirstOfMonth(k + 1) \in Int
    <3>1. Clamp(s.day, 1, DaysIn(k)) \in 1 .. DaysIn(k)
      BY Clamped
    <3> QED
      BY <1>8, <3>1, MonthsFollow, k + 1 \in Int DEF ResetDay
  <2>4. ~ n >= 3
    <3> SUFFICES ASSUME n >= 3 PROVE FALSE
      OBVIOUS
    <3>1. FirstOfMonth(n) >= 90
      <4>1. CASE n = 3
        BY <2>2, <4>1
      <4>2. CASE 3 < n
        <5>1. FirstOfMonth(3 + 1) <= FirstOfMonth(n)
          BY <4>2, MonthsAscend, 3 \in Int
        <5>2. FirstOfMonth(3 + 1) = FirstOfMonth(3) + DaysIn(3) /\ DaysIn(3) \in 28 .. 31
          BY MonthsFollow, 3 \in Int
        <5> QED
          BY <2>2, <2>3, <5>1, <5>2
      <4> QED
        BY <4>1, <4>2
    <3> QED
      BY <1>5, <2>3, <3>1
  <2>5. ~ n + 1 <= -2
    <3> SUFFICES ASSUME n + 1 <= -2 PROVE FALSE
      OBVIOUS
    <3>1. (n + 1) + 1 <= -1 /\ n + 1 \in Int
      OBVIOUS
    <3>2. FirstOfMonth((n + 1) + 1) <= FirstOfMonth(-1)
      BY <3>1, MonthsAscend, -1 \in Int
    <3> QED
      BY <1>5, <2>2, <2>3, <3>1, <3>2
  <2> QED
    BY <2>1, <2>4, <2>5
<1> QED
  BY <1>6, <1>7, <1>8 DEF Resets

CalendarInv ==
  /\ sched \in AnySchedule /\ period \in Periods /\ now \in 0 .. Horizon
  /\ resets = ResetGrid(period, IF sched = Unset THEN Sched(Utc, 0, 1, 1) ELSE sched)
  /\ window = ScheduleWindow(period, sched, now)

LEMMA GridHolds == CalendarInv => WindowIsOnTheGrid
<1> SUFFICES ASSUME CalendarInv PROVE WindowIsOnTheGrid
  OBVIOUS
<1> DEFINE R(n) == Reset(period, InEffect(sched), n)
<1>1. /\ now \in Int /\ now \in 0 .. Horizon /\ Horizon = 1560
      /\ period \in MCPeriods
  BY CalendarValues DEF CalendarInv, Horizon, DayHours
<1>2. /\ ValidSchedule(sched) \/ ~ Usable(sched)
      /\ resets = ResetGrid(period, InEffect(sched))
  <2>1. CASE sched = Unset
    BY <2>1, CalendarValues DEF CalendarInv, InEffect, UtcCalendar
  <2>2. CASE sched # Unset
    <3>1. ValidSchedule(sched)
      BY <2>2, CalendarValues DEF CalendarInv, AnySchedule
    <3>2. Usable(sched)
      BY <3>1 DEF ValidSchedule, Usable
    <3> QED
      BY <2>2, <3>1, <3>2 DEF CalendarInv, InEffect
  <2> QED
    BY <2>1, <2>2
<1>3. CASE period = "total"
  <2>1. window = Window(Epoch, EndOfTime) /\ resets = {Epoch, EndOfTime}
    BY <1>2, <1>3 DEF CalendarInv, ScheduleWindow, DefaultWindow, ResetGrid
  <2> QED
    BY <1>1, <2>1 DEF WindowIsOnTheGrid, Window, Epoch, EndOfTime
<1>4. CASE period # "total"
  <2>1. period \in Resets
    BY <1>1, <1>4 DEF Resets, MCPeriods
  <2>2. ValidSchedule(InEffect(sched))
    BY <1>2, UtcIsValid DEF InEffect
  <2>3. PICK n \in Int : R(n) <= now /\ now < R(n + 1) /\ window = Window(R(n), R(n + 1))
    BY <1>1, <1>2, <2>1, WindowIsFound DEF CalendarInv
  <2>4. n \in First[period] .. Last[period] /\ n + 1 \in First[period] .. Last[period]
    <3>1. Reset(period, InEffect(sched), n) <= now /\ now < Reset(period, InEffect(sched), n + 1)
      BY <2>3
    <3>2. now \in 0 .. Horizon
      BY <1>1
    <3> QED
      BY <2>1, <2>2, <3>1, <3>2, GridReaches, Zenon
  <2>5. resets = {R(m) : m \in First[period] .. Last[period]}
    BY <1>2, <2>1, <2>2, GridIs
  <2>6. \A k \in Int : R(k) \in Int /\ \A l \in Int : k < l => R(k) < R(l)
    BY <2>1, <2>2, ResetsAscend
  <2>7. First[period] \in Int /\ Last[period] \in Int
    BY <2>1 DEF First, Last, Resets
  <2> HIDE DEF R
  <2>8. window.start = R(n) /\ window.until = R(n + 1)
    BY <2>3 DEF Window
  <2>9. ASSUME NEW m \in First[period] .. Last[period] PROVE R(m) <= R(n) \/ R(n + 1) <= R(m)
    <3>1. m \in Int /\ n + 1 \in Int
      BY <2>7
    <3>2. m < n \/ m = n \/ m = n + 1 \/ n + 1 < m
      BY <3>1
    <3> QED
      BY <2>6, <3>1, <3>2
  <2> QED
    BY <2>3, <2>4, <2>5, <2>8, <2>9 DEF WindowIsOnTheGrid
<1> QED
  BY <1>3, <1>4

(* The window of an hour runs from the last reset of the schedule up to    *)
(* it, counted without any search, to the first one after it; a usable     *)
(* schedule is never given up for the UTC calendar (scheduleWindow).       *)
THEOREM WindowsAreOnTheGrid == CalendarSpec => []WindowIsOnTheGrid
<1>1. CalendarInit => CalendarInv
  BY DEF CalendarInit, CalendarInv, Horizon, DayHours
<1>2. CalendarInv /\ [AnHourPasses]_calendarVars => CalendarInv'
  <2> SUFFICES ASSUME CalendarInv, [AnHourPasses]_calendarVars PROVE CalendarInv'
    OBVIOUS
  <2>1. Horizon \in Int
    BY DEF Horizon, DayHours
  <2>2. CASE AnHourPasses
    BY <2>1, <2>2 DEF CalendarInv, AnHourPasses
  <2>3. CASE UNCHANGED calendarVars
    BY <2>3 DEF CalendarInv, calendarVars
  <2> QED
    BY <2>2, <2>3
<1> QED
  BY <1>1, <1>2, GridHolds, PTL DEF CalendarSpec

-----------------------------------------------------------------------------
(* MCServices. A behaviour of the four parts together is one of each, but  *)
(* for what each promises in the end.                                      *)
LEMMA ServicesRun ==
  ServicesSpec => /\ QuotaInit /\ [][QuotaNext]_quotaVars
                  /\ ExchangeInit /\ [][ExchangeNext]_exchangeVars
                  /\ IntervalSpec /\ CalendarSpec
<1>1. ServicesInit => QuotaInit /\ ExchangeInit /\ IntervalInit /\ CalendarInit
  BY DEF ServicesInit
<1>2. ASSUME [ServicesNext]_servicesVars
      PROVE  /\ [QuotaNext]_quotaVars /\ [ExchangeNext]_exchangeVars
             /\ [IntervalNext]_intervalVars /\ [AnHourPasses]_calendarVars
  BY <1>2 DEF ServicesNext, servicesVars
<1> QED
  BY <1>1, <1>2, PTL DEF ServicesSpec, IntervalSpec, CalendarSpec

(* Types of each part.                                                     *)
THEOREM ServicesTypesHold == ServicesSpec => []ServicesTypeOK
<1>1. QuotaTypeOK /\ ExchangeInv /\ IntervalTypeOK => ServicesTypeOK
  BY DEF ServicesTypeOK, ExchangeInv
<1> QED
  BY <1>1, ServicesRun, InitQuota, NextQuota, InitExchange, NextExchange, IntervalTypesHold, PTL
=============================================================================
