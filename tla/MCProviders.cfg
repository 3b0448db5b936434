SPECIFICATION ProvidersSpec
CONSTANTS
  p = p
  q = q
  Providers = {p, q}
  Models = {m1, m2, m3, n}
  ModelsOfP = {m1, m2, m3}
  MemberSets <- FewMemberSets
  ProviderOf <- MCProviderOf
  Groups = {g}
  Keys = {}
  NoGroup = NoGroup
  Actors = {bg, admin}
  Background = bg
  MaxTruncated = 1
  PrefixNames = {"p"}
  RandomIds = {x1, x2}
  MaxName = 2
  Bare = {"m"}
  Syncs = {s}
INVARIANTS
  ProvidersTypeOK
  RoutingIsSound
PROPERTIES
  OneShortListingIsHeld
  DefaultKept
  OrphansHaveACause
  CatalogConverges
