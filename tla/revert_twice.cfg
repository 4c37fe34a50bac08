SPECIFICATION Spec
CONSTANTS
  a = a
  b = b
  c = c
  Rel = {a, b, c}
  Working = {a, b}
  First = a
  Thread = {t1}
  Again = FALSE
  SameAgain = FALSE
  Late = FALSE
  Keep = 2
  TestTime = 1
  MaxFails = 2
  MaxChanges = 1
  MaxCrashes = 1
  None = None
  Blank = Blank
INVARIANTS RevertLasts
