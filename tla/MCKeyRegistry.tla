--------------------------- MODULE MCKeyRegistry ---------------------------
(* Two keys, two administrators and a client of the key registry.          *)
EXTENDS KeyRegistry, TLC

CONSTANTS k1, k2, a1, a2, c1

MCKeys    == {k1, k2}
MCAdmins  == {a1, a2}
MCClients == {c1}
MCAccess  == {"all", "group"}
MCQuotas  == {"some"}

Symmetry == Permutations(MCKeys) \cup Permutations(MCAdmins)
=============================================================================
