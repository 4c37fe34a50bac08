SPECIFICATION FairSpec
CONSTANTS
  Lo = 1
  Hi = 4
  Safe = 2
  Ki = 1
  Settings <- MCSettings
  Default <- MCDefault
  Errors <- MCErrors
  Dt = {1}
  FaultSamples = 2
  Lease = 2
  MaxWork = 2
  None = None
INVARIANTS OffLeavesAlone UnattendedIsSafe
PROPERTIES NoWindup BlindFanSafe HotFullFan
