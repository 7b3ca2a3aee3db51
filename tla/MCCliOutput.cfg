\* Up to four frames, a plan of two rows and a limit of seven.
CONSTANTS
  NoPts = NoPts
  Timestamps <- MCTimestamps
  Durations <- MCDurations
  Offset = 0
  MaxCopies = 5
  Planned = 2
  MaxRows = 7
  MaxFrames = 4
SPECIFICATION Spec
INVARIANTS
  TimestampsAreSlots
  ViewsKeepTheirFrame
  NeverTooEarly
  OutputKeepsUp
PROPERTY ImplementsFrameOutput
\* A decode that is done, or has failed, stops.
CHECK_DEADLOCK FALSE
