---------------------------- MODULE MCSyncAgrees ----------------------------
(* One sync after the other; remembers what the last two were answered.    *)
EXTENDS MCModelCatalog

VARIABLES current, before

AgreesInit == Init /\ current = {} /\ before = {}

AgreesNext ==
  \/ \E a \in Actors :
       LockPending(a) /\ current' = op[a].listing /\ before' = current
  \/ /\ Next /\ ~ \E a \in Actors : LockPending(a)
     /\ UNCHANGED <<current, before>>

AgreesSpec == AgreesInit /\ [][AgreesNext]_<<vars, current, before>>

(* ADR 0006: a removal of more than half of a provider's models "is        *)
(* applied only if the next consecutive sync agrees": the sync before was  *)
(* answered by the provider and did not list a model that is marked now.   *)
ConfirmedByPreviousSync ==
  [][ \A r \in Providers, a \in Actors :
        Mark(a, r) /\ 2 * Cardinality(Of(r, Removed' \ Removed)) > Cardinality(Of(r, Present))
          => /\ Of(r, before) # {}
             /\ before \cap (Removed' \ Removed) = {} ]_<<vars, current, before>>
=============================================================================
