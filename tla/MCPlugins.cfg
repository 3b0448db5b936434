SPECIFICATION PluginsSpec
CONSTANTS
  p = p
  q = q
  Providers = {p}
  Models = {m1}
  ModelsOfP = {m1}
  MemberSets <- AllMemberSets
  ProviderOf <- MCProviderOf
  Groups = {g}
  Keys = {k}
  NoGroup = NoGroup
  Actors = {a, b}
  NoActor = NoActor
  Background = a
  Editors = {e1, e2}
  Overrides = {"key"}
  PricedModels = {ma, mb}
  PriceEditors = {f1, f2}
  Families = {"family"}
  FamilyOf <- MCFamilyOf
  Prices = {1, 2}
  Slots = {1}
  NoPrice = NoPrice
SYMMETRY Symmetry
INVARIANTS
  PluginsTypeOK
  OnlyOvertakenIsStale
  ClosedNeverBypassable
  RunsWhatIsStored
  PricesApply
PROPERTIES
  PolicyChangesAreAdministrators
\* An operation of the catalog may be left with nothing to do.
CHECK_DEADLOCK FALSE
