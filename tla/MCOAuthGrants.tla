--------------------------- MODULE MCOAuthGrants ---------------------------
(* Logins to accounts of one provider.                                     *)
EXTENDS OAuthGrants, TLC

CONSTANTS p1, x1, l1, l2, r1, a1

MCProviders == {p1}
MCAccounts == {x1}
MCLogins == {l1, l2}
MCRefreshers == {r1}
MCAdmins == {a1}

Symmetry == Permutations(MCLogins)
=============================================================================
