SPECIFICATION Spec
CONSTANTS
  Thread = {t1, t2}
  Reg <- MCReg
  Fan = "fan"
  Val = {0, 1}
  Reset <- MCReset
  Safe = 1
  Lease = 2
  LeaseReg = {"fan"}
  Ops = {"read", "write", "reload", "install"}
  Outcomes = {"good", "refused", "error", "wrong", "stuck"}
  MaxPause = 0
  MaxLoad = 2
  MaxWork = 2
  None = None
SYMMETRY Threads
INVARIANTS HandlersKeepQuiet LeaseRunsUnpaused
