CONSTANTS
  Threads = {t1, t2}
  k1 = k1
  k2 = k2
  v1 = v1
  v2 = v2
  Keys = {k1, k2}
  NoEntry = NoEntry
  EmptyKey = EmptyKey
  AnyValue = AnyValue
  Nobody = Nobody
  NoResult = NoResult
  MaxCalls = 4
  Calls <- AllCalls
SPECIFICATION Spec
CHECK_DEADLOCK FALSE
INVARIANTS
  TypeOK
  QueryMissesNothingSteady
PROPERTIES
  CallsAreAtomic
  CallsReturn
