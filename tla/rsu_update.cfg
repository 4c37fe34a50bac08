SPECIFICATION FairSpec
CONSTANTS
  Build = {"a", "b", "bad", "factory"}
  Factory = "factory"
  Sound = {"a", "b", "factory"}
  Periphery <- MCPeriphery
  MaxUpdates = 2
  MaxCores = 1
  MaxFaults = 2
  Absent = Absent
  Torn = Torn
INVARIANTS BootableIsWhole ToldConfirmed
PROPERTIES UnhealthyFallsBack ImplementsAtomicSlot
CHECK_DEADLOCK FALSE
