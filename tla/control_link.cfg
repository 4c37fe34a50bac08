SPECIFICATION FairLinkSpec
CONSTANTS
  Threads = {"poller", "gui"}
  Requests <- Ops
  Answers <- Replies
  Resends = {"dropped", "timeout"}
  Settings = {"auto", "manual"}
  Default = "auto"
  Conns = {c1, c2, c3}
  NoConn = NoConn
  Names = {r1, r2, r3, r4}
  NoName = NoName
  NoOne = NoOne
  None = None
  MaxFaults = 1
  MaxLate = 1
  MaxSets = 2
  MaxTime = 2
  MaxEvents = 4
INVARIANTS HistoryOrdered SavedShown AckedSticks
PROPERTIES NothingForgotten LatestSettles
CHECK_DEADLOCK FALSE
