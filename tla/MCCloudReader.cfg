\* Up to three running readers over a four-byte object, two network faults.
CONSTANTS
  ObjSize = 4
  Content <- MCContent
  ReaderId = {r1, r2, r3}
  ReadSizes = {2, 3}
  SeekOffsets <- MCOffsets
  MaxChunk = 2
  SeekWindow = 2
  Segment = 2
  MaxRespawns = 2
  MaxFaults = 2
SPECIFICATION FairSpec
INVARIANTS
  CoverageIsHonest
  MarkedIsContent
  OpenedForMissing
  RespawnsAdvance
PROPERTIES
  SeekPrimes
  ImplementsByteSource
  CallReturns
CHECK_DEADLOCK FALSE
