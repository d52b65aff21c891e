SPECIFICATION ProcessSpec
CONSTANTS
  Unary = {u1, u2}
  Streams = {s1}
  Good = {v1, v2}
  IllTyped = IllTyped
  Garbled = Garbled
  NoConfig = NoConfig
INVARIANTS
  TypeOK
  AnnouncedIsOpen
  NothingBrokenOff
  InstanceIsValid
PROPERTIES
  ShutdownEnds
  ChangeTakesEffect
  StaleEntryHeals
