CONSTANTS
  v = v  a = a  other = other  none = none  best = best
  NoTime = none
  Best = best
  CliRate <- MCCliRate
  Streams <- LateStreams
  Audio <- LateAudio
  Directs <- LateDirects
  Files <- LateFiles
  Headers <- LateHeaders
  Requests <- LateRequests
  Samples = 2
  Rates <- LateRates
  Bytes <- LateBytes
  Environment = none
  Default = 100
  Reorder = 1
  DecoderRoom = 1
SPECIFICATION Spec
INVARIANT NoRowPastEnd
