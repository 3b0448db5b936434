SPECIFICATION Spec
CONSTANTS
  p1 = p1
  x1 = x1
  l1 = l1
  l2 = l2
  r1 = r1
  a1 = a1
  Providers <- MCProviders
  Accounts <- MCAccounts
  Logins <- MCLogins
  Refreshers <- MCRefreshers
  Admins <- MCAdmins
  MaxVersion = 4
  MaxRepeat = 0
  NoAccount = NoAccount
  NoLogin = NoLogin
SYMMETRY Symmetry
INVARIANTS
  TombstonesHold
  CancelHolds
  DisconnectedIsEvicted
