SPECIFICATION FairSpec
CONSTANTS
  Threads = {t1, t2}
  NoOne = NoOne
  Conns = {c1, c2, c3}
  NoConn = NoConn
  Requests = {"write"}
  Answers = {"ok", "paused"}
  Resends = {"dropped"}
  Names = {r1, r2, r3, r4}
  NoName = NoName
  MaxFaults = 2
INVARIANTS RepliesMatch NeverTwiceAtOnce
PROPERTIES CallsEnd
CHECK_DEADLOCK FALSE
