SPECIFICATION PySpec
CONSTANTS
  t1 = t1  t2 = t2
  c1 = c1  c2 = c2
  gcs = gcs  nobody = nobody
  Threads <- MCThreads
  Configs <- MCConfigs
  Gcs <- gcs
  NoThread <- nobody
  Requests <- MCRequests
  MaxCalls = 3
  MaxAssigns = 1
INVARIANTS
  OneClientPerConfig
  ResultsAsAsked
  AssignmentsSucceed
PROPERTIES
  CallReturns
