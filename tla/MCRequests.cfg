SPECIFICATION RequestsSpec
CONSTANTS
  kKey = kKey
  kModel = kModel
  m1 = m1
  m2 = m2
  AnyModel = AnyModel
  Keys = {kKey, kModel}
  Models = {m1, m2}
  Requests = {r1, r2, r3}
  MaxTokens = 2
  Mode <- MCMode
  LimitOf <- MCLimitOf
  MaxEvents = 3
  LeastHop <- MCLeastHop
  Gateways = {g1, g2, g3}
  Builtins = {"saver"}
  HttpPlugins = {"filter"}
INVARIANTS
  RequestsTypeOK
  OvershootBounded
  PluginsApply
  RelayedInOrder
  UsageCounted
  TimeoutIsReported
PROPERTIES
  QuotaIsSoft
  RequestEnds
  RelaysEnd
\* Requests end.
CHECK_DEADLOCK FALSE
