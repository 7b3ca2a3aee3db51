SPECIFICATION PathSpec
CONSTANTS
  Cases <- MCCases
  Shapes <- MCShapes
  Tags <- MCTags
  Lane = 32
  MaxFrames = 3
  None = None
INVARIANTS
  FiltersAccept
  AsPlanned
  ColourAsAsked
  DirectAsGraph
  CudaRowsComplete
