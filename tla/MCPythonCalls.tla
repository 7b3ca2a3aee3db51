----------------------------- MODULE MCPythonCalls -----------------------------
(* Two threads, two S3 configurations and GCS, three calls with requests of *)
(* both element types and both orders, and one that is not understood.      *)
EXTENDS PythonCalls

CONSTANTS t1, t2, c1, c2, gcs, nobody

MCThreads  == {t1, t2}
MCConfigs  == {c1, c2}
MCRequests ==
  {[input |-> "s3", dtype |-> "uint8", order |-> "NCHW"],
   [input |-> "s3", dtype |-> "float32", order |-> "NHWC"],
   [input |-> "s3", dtype |-> "float32", order |-> "other"],
   [input |-> "gs", dtype |-> "uint8", order |-> "NHWC"],
   [input |-> "gs", dtype |-> "float32", order |-> "NCHW"]}
===============================================================================
