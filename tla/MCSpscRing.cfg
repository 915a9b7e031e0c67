SPECIFICATION Spec
CONSTANTS
  a = a
  b = b
  Raw = Raw
  Husk = Husk
  Size = 4
  Laps = 2
  MaxBulk = 2
  Msgs <- MCMsgs
  Bulks <- MCBulks
INVARIANTS
  TypeOK
  CachesTrail
  SlotsMatchIndexes
  NoSlotRace
  NothingLeaks
PROPERTIES
  ImplementsFifo
\* The ring ends with its destructor.
CHECK_DEADLOCK FALSE
