CONSTANTS
  Threads = {t1, t2}
  Spellings = {"a", "A"}
  ToLower <- Lower
  Configs = {c1}
  NoConfig = NoConfig
  Nobody = Nobody
  NoStore = NoStore
  MaxCalls = 3
SPECIFICATION Spec
CHECK_DEADLOCK FALSE
INVARIANT ConfigIsAnswered
