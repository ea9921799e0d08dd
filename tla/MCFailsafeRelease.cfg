CONSTANTS
  ClockMod = 3
  PullTicks = 1
  Graces = {1}
  FsFlows = {40}
  Flows = {95}
  LearnedBounds = {}
SPECIFICATION Spec
PROPERTY ReleaseRestores
