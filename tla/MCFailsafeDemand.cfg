\* What the failsafe does to the heat demand, and when: commands, edits, learned
\* bounds, pulls, and a clock that wraps.
CONSTANTS
  ClockMod = 3
  PullTicks = 1
  Graces = {1}
  FsFlows = {45, 90}
  Flows = {95}
  LearnedBounds <- MCBounds
SPECIFICATION Spec
INVARIANTS TypeOK ForcedHeatStands
PROPERTIES ReleaseKeepsCommands QuietOutageRestored GraceRespected FailsafeOnTime OutageReachesFailsafe
