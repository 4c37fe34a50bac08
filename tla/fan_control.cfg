SPECIFICATION FairSpec
CONSTANTS
  Duty = {"low", "high"}
  Kick = "kick"
  PorCycles = 1
  KickCycles = 1
  PollCycles = 1
INVARIANTS NeverMidFrame ConfigLast ReadbacksMatch ErrorsAreNacks
PROPERTIES FanFollows
