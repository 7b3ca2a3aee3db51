SPECIFICATION DemuxSpec
CONSTANTS
  TickNum = 10
  TickDen = 3
  FieldNum = 7
  FieldDen = 2
  DtsDelta = 30
  DtsError = 30
  Behind = 6
  StartTimes = {5}
  InitialDts <- MCInitial
  PacketStamps <- MCStamps
  Reorder = 2
  PacketDurations = {0, 1}
  Fields = {2, 3}
  MaxPackets = 4
  None = None
INVARIANTS
  Continuous
  KeepsPace
