\* Two slots and three probes: the table can be full, and a save has two slots to tear.
CONSTANTS
  NSlots = 2
  Addrs = {a1, a2, a3}
  NoAddr = NoAddr
  BadAddr = BadAddr
  Names = {buffer}
  NoName = NoName
  Brightness = {low, high}
  DefaultLed = low
SYMMETRY Symmetry
SPECIFICATION Spec
INVARIANTS NoProbeTwice ChannelsUnique PromisesKept CopiesAgree
PROPERTIES IsLedger
