SPECIFICATION Spec
CONSTANTS
  k1 = k1
  k2 = k2
  a1 = a1
  a2 = a2
  c1 = c1
  Keys <- MCKeys
  Admins <- MCAdmins
  Clients <- MCClients
  Access <- MCAccess
  Quotas <- MCQuotas
  NoQuotas = NoQuotas
  Unborn = Unborn
  Deleted = Deleted
  NoEntry = NoEntry
SYMMETRY Symmetry
INVARIANTS
  NoOrphanQuotas
  LoadedEntryCurrent
