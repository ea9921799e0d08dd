CONSTANTS
  Images = {usb, good, bad}
  Broken = {bad}
  Factory = usb
  NoUrl = none
  MaxAttempts = 3
  MaxRequests = 3
  MaxFaults = 3
SPECIFICATION Spec
PROPERTY KnownGoodHasRun
