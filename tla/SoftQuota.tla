----------------------------- MODULE SoftQuota -----------------------------
(***************************************************************************)
(* What a Token Quota promises (ADR 0005, GLOSSARY "Token Quota"): a soft  *)
(* limit on the tokens counted in the current Quota Window. A request is   *)
(* let in only while the counted usage is below the limit; what it costs   *)
(* is known and counted only after it was answered.                        *)
(***************************************************************************)
EXTENDS Naturals

CONSTANTS
  Limit,       \* tokens per window
  MaxTokens,   \* the most one request can cost
  MaxOpen      \* requests let in and not counted yet, at most

VARIABLES used, open
vars == <<used, open>>

Init == used = 0 /\ open = 0

LetIn ==
  /\ used < Limit /\ open < MaxOpen
  /\ open' = open + 1
  /\ UNCHANGED used

Count ==
  /\ open > 0
  /\ open' = open - 1
  /\ \E n \in 0 .. MaxTokens : used' = used + n

(* Requests that are rejected later, fail, or are lost in a crash.         *)
Abandon ==
  /\ open' \in 0 .. open
  /\ UNCHANGED used

NewWindow == used' = 0 /\ UNCHANGED open

Next == LetIn \/ Count \/ Abandon \/ NewWindow

Spec == Init /\ [][Next]_vars
=============================================================================
