SPECIFICATION Spec
CONSTANTS
  Flows <- MCFlows
  Outdoors <- MCOutdoors
  Ceilings <- MCCeilings
  Curves <- MCCurves
  Limits <- MCLimits
  Slots = 3
  Tol = 1
  Confirmations = 2
  ProbeEvery = 2
INVARIANT TypeOK
PROPERTIES
  CapIsACeiling
  BoilerReadingWins
  OutdoorTakeover
  BoilerGetsWhatItTakes
