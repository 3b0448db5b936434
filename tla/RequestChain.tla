---------------------------- MODULE RequestChain ----------------------------
(***************************************************************************)
(* One request on its way through gateways (Proxy.ServeHTTP up to the      *)
(* upstream call, PipelineExecutor.Execute).                               *)
(*                                                                         *)
(* A provider of a gateway may be another gateway, or the same one again.  *)
(* What one gateway tells the next travels in headers: the trace of the    *)
(* instances passed, the number of hops, and the built-in plugins that     *)
(* have been applied; what the client asked of the first one, to bypass    *)
(* plugins, does not travel. How a gateway is configured is chosen when    *)
(* the request comes to it.                                                *)
(***************************************************************************)
EXTENDS Integers, FiniteSets

CONSTANTS
  Gateways,      \* instances, each with its id
  Builtins,      \* built-in plugins
  HttpPlugins,   \* plugins called by HTTP
  LeastHop       \* bound: the least hop count that a client sends

ASSUME ChainAssumption ==
  IsFiniteSet(Builtins) /\ IsFiniteSet(HttpPlugins) /\ LeastHop \in Int /\ LeastHop <= 0

Plugins == Builtins \cup HttpPlugins

VARIABLES
  first,         \* the gateway that the client called
  at,            \* where the request is: a gateway, or "end"
  step,          \* what is next there
  content,       \* chat, broken (chat, but not JSON) or other
  trace, hop, bypass, applied,      \* the headers of the request
  todo,          \* plugins still to be looked at
  executed,      \* built-ins applied here
  runs,          \* history: how often each built-in was applied, 2 or more as 2
  fixed,         \* history: built-ins that some gateway does not let bypass
  last           \* history: what became of the last plugin

headers   == <<trace, hop, bypass, applied>>
history   == <<runs, fixed, last>>
chainVars == <<first, at, step, content, headers, todo, executed, history>>

(* maxHops of the recursion guard; more hops are as good as so many. Atoi  *)
(* takes a negative count too.                                             *)
MaxHops == 3
Hops    == LeastHop .. MaxHops

NoDecision == [plugin |-> "", setup |-> [bypassable |-> FALSE, closed |-> FALSE], result |-> "none"]

(* A client, or a gateway before it, may send any of the headers.          *)
ChainInit ==
  /\ first \in Gateways /\ at = first /\ step = "arrived"
  /\ content \in {"chat", "broken", "other"}
  /\ trace \in SUBSET Gateways /\ hop \in Hops
  /\ bypass \in BOOLEAN /\ applied \in SUBSET Builtins
  /\ todo = {} /\ executed = {}
  /\ runs = [p \in Builtins |-> 0] /\ fixed = {} /\ last = NoDecision

End ==
  /\ at' = "end" /\ step' = "end"
  /\ todo' = {} /\ executed' = {} /\ last' = NoDecision
  /\ UNCHANGED <<first, content, headers, runs, fixed>>

(* Mutant: nothing but the hop count is looked at, one too late.           *)
GuardLate == hop > MaxHops

LoopDetected == at \in trace \/ hop >= MaxHops

(* The recursion guard, 508; then the key, the Key Quota, the access of    *)
(* the key, and the model are looked at, and any of them may refuse the    *)
(* request. Lists, quota and usage are answered here, chat commands too.   *)
Arrive ==
  /\ step = "arrived"
  /\ IF LoopDetected THEN End
     ELSE /\ step' = "admitted"
          /\ UNCHANGED <<first, at, content, headers, todo, executed, history>>

AnswerHere == step = "admitted" /\ End

(* Only chat and messages go through the plugins. A pipeline that cannot   *)
(* read the body fails as a whole, which is logged; the request goes on.   *)
EnterPipeline ==
  /\ step = "admitted"
  /\ step' = IF content = "chat" THEN "plugins" ELSE "forward"
  /\ todo' = IF content = "chat" THEN Plugins ELSE {}
  /\ UNCHANGED <<first, at, content, headers, executed, history>>

-----------------------------------------------------------------------------
(* How a plugin is set up at this gateway, a fail-closed one never         *)
(* bypassable (ClosedNeverBypassable of PluginRegistry).                   *)
Setups == {s \in [bypassable : BOOLEAN, closed : BOOLEAN] : ~ (s.bypassable /\ s.closed)}

Decide(p, s, result) ==
  /\ last' = [plugin |-> p, setup |-> s, result |-> result]
  /\ fixed' = IF s.bypassable THEN fixed ELSE fixed \cup ({p} \cap Builtins)
  /\ runs' = [q \in Builtins |->
       IF q = p /\ result = "applied" /\ runs[q] < 2 THEN runs[q] + 1 ELSE runs[q]]

(* The bindings leave it off.                                              *)
PluginOff(p) ==
  /\ step = "plugins" /\ p \in todo
  /\ todo' = todo \ {p}
  /\ UNCHANGED <<first, at, step, content, headers, executed, history>>

(* Mutant: the header of the client skips every plugin.                    *)
BypassesAll(p, s) == bypass

Bypassed(p, s)       == bypass /\ s.bypassable
AlreadyApplied(p, s) == p \in Builtins /\ p \in applied /\ s.bypassable

(* Skipped on request, or as an earlier gateway has applied it.            *)
PluginSkipped(p, s) ==
  /\ step = "plugins" /\ p \in todo
  /\ Bypassed(p, s) \/ AlreadyApplied(p, s)
  /\ todo' = todo \ {p}
  /\ Decide(p, s, IF Bypassed(p, s) THEN "bypassed" ELSE "already")
  /\ UNCHANGED <<first, at, step, content, headers, executed>>

(* Mutant: a failure is passed over whatever the policy.                   *)
RunFailingOpen(p, s) ==
  /\ step = "plugins" /\ p \in todo
  /\ ~ Bypassed(p, s) /\ ~ AlreadyApplied(p, s)
  /\ \E result \in {"applied", "passed", "failed"} :
       /\ executed' = IF result = "applied" THEN executed \cup ({p} \cap Builtins) ELSE executed
       /\ Decide(p, s, result)
  /\ todo' = todo \ {p}
  /\ UNCHANGED <<first, at, step, content, headers>>

(* It runs. It may have changed the request, passed it for a reason of its *)
(* own, or failed: then its policy decides.                                *)
PluginRuns(p, s) ==
  /\ step = "plugins" /\ p \in todo
  /\ ~ Bypassed(p, s) /\ ~ AlreadyApplied(p, s)
  /\ \E result \in {"applied", "passed", "failed"} :
       /\ ~ (result = "failed" /\ s.closed)
       /\ executed' = IF result = "applied" THEN executed \cup ({p} \cap Builtins) ELSE executed
       /\ Decide(p, s, result)
  /\ todo' = todo \ {p}
  /\ UNCHANGED <<first, at, step, content, headers>>

(* It rejects the request (403), or failed and is fail-closed (503).       *)
PluginRefuses(p, s) ==
  /\ step = "plugins" /\ p \in todo
  /\ ~ Bypassed(p, s) /\ ~ AlreadyApplied(p, s)
  /\ End

PipelineDone ==
  /\ step = "plugins" /\ todo = {}
  /\ step' = "forward"
  /\ UNCHANGED <<first, at, content, headers, todo, executed, history>>

-----------------------------------------------------------------------------
(* Mutant: only what ran here is named.                                    *)
AppliedHere == IF content = "chat" THEN executed ELSE {}

(* ComputeAppliedHeader: the union, unless no pipeline has made it.        *)
AppliedHeader == IF content = "chat" THEN applied \cup executed ELSE {}

(* Mutant: the client's header goes along.                                 *)
ForwardAll(next) ==
  /\ step = "forward"
  /\ trace' = trace \cup {at} /\ hop' = IF hop < MaxHops THEN hop + 1 ELSE hop
  /\ applied' = AppliedHeader
  /\ at' = next /\ step' = "arrived"
  /\ executed' = {} /\ last' = NoDecision
  /\ UNCHANGED <<first, content, bypass, todo, runs, fixed>>

(* The provider of the model is another gateway.                           *)
Forward(next) ==
  /\ step = "forward"
  /\ trace' = trace \cup {at} /\ hop' = IF hop < MaxHops THEN hop + 1 ELSE hop
  /\ bypass' = FALSE /\ applied' = AppliedHeader
  /\ at' = next /\ step' = "arrived"
  /\ executed' = {} /\ last' = NoDecision
  /\ UNCHANGED <<first, content, todo, runs, fixed>>

(* It is not, and answers, or is not reached (502).                        *)
Upstream == step = "forward" /\ End

ChainNext ==
  \/ Arrive \/ AnswerHere \/ EnterPipeline \/ PipelineDone \/ Upstream
  \/ \E p \in Plugins : PluginOff(p)
  \/ \E p \in Plugins, s \in Setups : PluginSkipped(p, s) \/ PluginRuns(p, s) \/ PluginRefuses(p, s)
  \/ \E next \in Gateways : Forward(next)

ChainSpec == ChainInit /\ [][ChainNext]_chainVars

-----------------------------------------------------------------------------
Decisions ==
  [plugin : Plugins, setup : Setups,
   result : {"bypassed", "already", "applied", "passed", "failed"}]

ChainTypeOK ==
  /\ first \in Gateways /\ at \in Gateways \cup {"end"}
  /\ step \in {"arrived", "admitted", "plugins", "forward", "end"}
  /\ content \in {"chat", "broken", "other"}
  /\ trace \in SUBSET Gateways /\ hop \in Hops
  /\ bypass \in BOOLEAN /\ applied \in SUBSET Builtins
  /\ todo \in SUBSET Plugins /\ executed \in SUBSET Builtins
  /\ runs \in [Builtins -> 0 .. 2] /\ fixed \in SUBSET Builtins
  /\ last \in Decisions \cup {NoDecision}

(* What is left for the request to do here, and in all.                    *)
LeftHere ==
  CASE step = "forward"  -> 0
    [] step = "plugins"  -> Cardinality(todo) + 1
    [] step = "admitted" -> Cardinality(Plugins) + 2
    [] step = "arrived"  -> Cardinality(Plugins) + 3

Left ==
  IF step = "end" THEN 0
  ELSE 1 + (MaxHops - hop) * (Cardinality(Plugins) + 4) + LeftHere

(* README "detect and block cyclic loops between cascaded gateways": every *)
(* step of the request, whichever way the gateways name each other as      *)
(* providers, leaves less to do, so that it comes to an end.               *)
RequestEnds == [][Left' < Left]_chainVars

(* A built-in that every gateway lets a client bypass is applied to the    *)
(* request by one gateway at most, however many there are in between.      *)
AppliedOnce == \A p \in Builtins \ fixed : runs[p] <= 1

(* Neither a header of the client nor one of an earlier gateway, nor a     *)
(* failure, gets the request past a plugin that protects (fail-closed);    *)
(* and the client's wish to bypass plugins is for its own gateway alone.   *)
ProtectionHolds ==
  /\ last.setup.closed => last.result \in {"applied", "passed"}
  /\ last.result = "bypassed" => last.setup.bypassable /\ at = first

(* Both, for one run.                                                      *)
PluginsApply == AppliedOnce /\ ProtectionHolds
=============================================================================
