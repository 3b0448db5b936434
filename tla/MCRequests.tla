----------------------------- MODULE MCRequests -----------------------------
(* The way of a request: the quota gate (QuotaGate, here for a key with a  *)
(* Key Quota and one with a Model Quota on one of two models), the plugins *)
(* and gateways it passes (RequestChain), and the relay of the answer      *)
(* (StreamRelay). They share no state, so that one run checks them all: a  *)
(* behaviour is of one part, and the others rest where they begin.         *)
EXTENDS QuotaGate, RequestChain, StreamRelay

CONSTANTS kKey, kModel, m1, m2

MCMode == [k \in {kKey, kModel} |-> IF k = kKey THEN "key" ELSE "model"]

MCLimitOf ==
  [b \in Budgets |->
     CASE b = <<kKey, AnyModel>> -> 2
       [] b = <<kModel, m1>>     -> 1
       [] OTHER                  -> 0]

(* The bound of RequestChain on what a client sends: one below no hop.    *)
MCLeastHop == -1

VARIABLE part

requestsVars == <<part, used, req, chainVars, relayVars>>

(* One initial state of a part that rests is enough.                       *)
Rest ==
  /\ part # "chain" =>
       /\ first = (CHOOSE g \in Gateways : TRUE)
       /\ content = "other" /\ trace = {} /\ hop = 0 /\ bypass = FALSE /\ applied = {}
  /\ part # "relay" => answer = [mode |-> "sse", injected |-> TRUE, ok |-> TRUE]

RequestsInit ==
  /\ part \in {"gate", "chain", "relay"}
  /\ Rest
  /\ Init /\ ChainInit /\ RelayInit

RequestsNext ==
  /\ UNCHANGED part
  /\ \/ part = "gate" /\ Next /\ UNCHANGED <<chainVars, relayVars>>
     \/ part = "chain" /\ ChainNext /\ UNCHANGED <<used, req, relayVars>>
     \/ part = "relay" /\ RelayNext /\ UNCHANGED <<used, req, chainVars>>

(* RelayFairness, for the behaviours of the relay.                         *)
RequestsSpec ==
  /\ RequestsInit /\ [][RequestsNext]_requestsVars
  /\ WF_relayVars(part = "relay" /\ Handler) /\ WF_relayVars(part = "relay" /\ Timer)

-----------------------------------------------------------------------------
(* Types of the part looked at.                                            *)
RequestsTypeOK ==
  CASE part = "gate"  -> TypeOK
    [] part = "chain" -> ChainTypeOK
    [] part = "relay" -> RelayTypeOK

(* RelayEnds, for the behaviours of the relay: the handler comes to its    *)
(* end and frees what it holds, however upstream, client and idle timer    *)
(* behave.                                                                 *)
RelaysEnd == part = "relay" => RelayEnds
=============================================================================
