\* Back-off of one and two ticks, sessions of three; up to two commands open.
CONSTANTS
  Cmds = {"reboot", "settings", "gw_mode"}
  MaxAge = 3
  Retry = 1
  RetryCap = 2
  MaxOrders = 2
SPECIFICATION Spec
INVARIANTS OneShotOnce ZombieBounded OnlineTold
PROPERTIES SessionComesBack
