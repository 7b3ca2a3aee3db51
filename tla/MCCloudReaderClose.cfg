CONSTANTS
  ObjSize = 6
  Content <- MCContent
  ReaderId = {r1, r2}
  ReadSizes = {3}
  SeekOffsets <- MCOffsets
  MaxChunk = 2
  SeekWindow = 2
  Segment = 2
  MaxRespawns = 3
  MaxFaults = 0
SYMMETRY MCSymmetry
SPECIFICATION Spec
PROPERTY NoFetchAfterClose
CHECK_DEADLOCK FALSE
