CONSTANTS
  none = none
  Unit = 2
  Tick = 1
  MinGap = 3
  NoTime = none
  Length = 3
  Capacities = {2, 8, 14, 40}
  Stamps <- MCStamps
  Starts = {none, 11, 20}
  Others = {none, 5, 20}
SPECIFICATION Spec
INVARIANTS
  Spread
  ViewsFollow
  SoundOnTime
