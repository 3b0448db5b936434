SPECIFICATION ExchangeSpec
CONSTANTS
  Currencies = {"IDR", "EUR"}
  Refreshers = {x1, x2}
  MaxDisturbances = 3
INVARIANT RateOfItsCurrency
CHECK_DEADLOCK FALSE
