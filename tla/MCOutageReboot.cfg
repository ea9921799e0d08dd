CONSTANTS
  ClockMod = 3
  PullTicks = 1
  Graces = {1}
  FsFlows = {45}
  Flows = {}
  LearnedBounds = {}
  HealTicks = 2
  MinForced = 1
  SafeModeAfter = 2
  UncleanCap = 2
SPECIFICATION OutageSpec
PROPERTY RebootReentersFailsafe
