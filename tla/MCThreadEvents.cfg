CONSTANTS
  Slot = {s1, s2}
  Deleter = {d1, d2}
  MaxEvents = 3
  MaxTurns = 4
  MaxLength = 2
SPECIFICATION Spec
SYMMETRY Slots
INVARIANTS
  TypeOK
  ReplayIsRecentHistory
  WholeTurns
  QuietDeleteIsFinal
