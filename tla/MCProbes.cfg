\* A probe and a foreign device, with room for one of them on the list.
CONSTANTS
  NSlots = 1
  Addrs = {a1, f}
  NoAddr = NoAddr
  Names = {buffer}
  NoName = NoName
  Foreign = {f}
  Raws <- MCRaws
  StaleTicks = 2
SPECIFICATION Spec
INVARIANTS TypeOK RoutedIsLastReading GoneIsDropped
PROPERTIES NoJumpRouted
