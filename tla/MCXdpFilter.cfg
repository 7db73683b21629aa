SPECIFICATION Spec
CONSTANTS
  Sources = {zero, a}
  NoAddress = zero
  Lengths = {13, 14, 17, 18, 21, 22, 33, 34, 37, 38, 41, 42}
  zero = zero
  a = a
INVARIANTS
  ReadsWithinPacket
PROPERTIES
  VerdictIsRight
  OnlyConfiguredSources
CHECK_DEADLOCK FALSE
