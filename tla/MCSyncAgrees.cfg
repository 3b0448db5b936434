CONSTANTS
  p = p
  q = q
  Providers = {p}
  Models = {m1, m2, m3}
  ModelsOfP = {m1, m2, m3}
  MemberSets <- AllMemberSets
  ProviderOf <- MCProviderOf
  Groups = {}
  Keys = {}
  NoGroup = NoGroup
  Actors = {a}
  Background = a
SPECIFICATION AgreesSpec
PROPERTY ConfirmedByPreviousSync
