\* Bursts of requests against a slow loop, noise and healing, both roles.
CONSTANTS
  Size = 4
  FrameTicks = 3
  AnswerTicks = 3
  RespondTicks = 2
  HealTicks = 5
  WindowTicks = 8
  MinFrames = 2
  MaxFrames = 6
SPECIFICATION Spec
INVARIANT TypeOK
PROPERTIES IsAQueue LatchedIsAnswered
