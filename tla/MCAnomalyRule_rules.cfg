SPECIFICATION Spec
CONSTANTS
  Instruments = {i1, i2}
  MaxInstruments = 1
  Capacity = 4
  Window = 4
  Tolerance = 1
  Cooldown = 5
  Trigger <- MCTrigger
  Rearm <- MCRearm
  MaxRatio = 1
  Values = {1, 2, 3}
  NoTime = NoTime
  NoObservation = NoObservation
  NoInstrument = NoInstrument
  MaxTime = 11
  MaxStep = 2
INVARIANTS TypeOK AlarmJustified
PROPERTIES OverflowIsDense AlarmEpisodes
CHECK_DEADLOCK FALSE
