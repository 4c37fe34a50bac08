SPECIFICATION FairSpec
CONSTANTS
  Thread = {t1, t2}
  Reg <- MCReg
  Fan = "fan"
  Val = {0, 1}
  Reset <- MCReset
  Safe = 1
  Lease = 2
  LeaseReg = {}
  Ops = {"read", "write", "reload", "install", "kill"}
  Outcomes = {"good", "refused", "error", "wrong"}
  MaxPause = 2
  MaxLoad = 2
  MaxWork = 3
  None = None
INVARIANTS KeepsQuiet AckedKept
PROPERTIES LoadResumes
