\* A heal period of two ticks of a clock that wraps after three, and a safe mode
\* after two crashes.
CONSTANTS
  ClockMod = 3
  PullTicks = 1
  Graces = {1}
  FsFlows = {45}
  Flows = {}
  LearnedBounds = {}
  HealTicks = 2
  MinForced = 1
  SafeModeAfter = 2
  UncleanCap = 2
SPECIFICATION OutageSpec
INVARIANTS SafeModeMeansCrashLoop NoBrokerNoFailsafe
PROPERTIES HealAfterSolidOutage WifiLossEndsInSetup
