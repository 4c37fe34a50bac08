SPECIFICATION FairSpec
CONSTANTS
  Thread = {t1, t2}
  Reg <- MCReg
  Fan = "fan"
  Val = {0, 1, 2}
  Reset <- MCReset
  Safe = 1
  Lease = 2
  LeaseReg = {"fan"}
  Ops = {"write", "release", "pause", "resume"}
  Outcomes = {}
  MaxPause = 2
  MaxLoad = 0
  MaxWork = 2
  None = None
INVARIANTS SilenceRaisesFan
PROPERTIES PauseEnds
