\* Four files, what seven containers may say of each, eleven requests.
CONSTANTS
  v = v  a = a  other = other  none = none  best = best
  NoTime = none
  Best = best
  CliRate <- MCCliRate
  Streams = {v, a}
  Audio <- MCAudio
  Directs <- MCDirects
  Files <- MCFiles
  Headers <- MCHeaders
  Requests <- MCRequests
  Samples = 2
  Rates <- MCRates
  Bytes <- MCBytes
  Environment = none
  Default = 100
  Reorder = 1
  DecoderRoom = 1
SPECIFICATION FairSpec
INVARIANTS
  PlansFirst
  WindowDelivered
  PlanSuffices
  SilenceFits
  AudioViewsTile
  StartIsFirstSample
PROPERTIES
  Terminates
