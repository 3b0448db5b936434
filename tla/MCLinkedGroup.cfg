SPECIFICATION Spec
CONSTANTS
  p = p
  q = q
  Providers = {p}
  Models = {m1}
  ModelsOfP = {m1}
  MemberSets <- AllMemberSets
  ProviderOf <- MCProviderOf
  Groups = {g}
  Keys = {k}
  NoGroup = NoGroup
  Actors = {a, b}
  Background = b
PROPERTY LinkedGroupKept
