SPECIFICATION Spec
CONSTANTS
  Core = {"a", "b", "bad"}
  Good = {"a", "b"}
  Flushed = TRUE
  MaxInstalls = 3
  MaxCrashes = 3
  Absent = Absent
  Torn = Torn
CHECK_DEADLOCK FALSE
INVARIANTS NoUntestedInstalled CardGood PairKept
PROPERTIES ImplementsAtomicCore
