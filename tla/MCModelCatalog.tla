--------------------------- MODULE MCModelCatalog ---------------------------
(* One or two providers; the models of p are those in ModelsOfP.           *)
EXTENDS ModelCatalog

CONSTANTS p, q, ModelsOfP

AllMemberSets == SUBSET Models
FewMemberSets == {{}, {CHOOSE m \in Models : TRUE}}

MCProviderOf == [m \in Models |-> IF m \in ModelsOfP THEN p ELSE q]
=============================================================================
