SPECIFICATION Spec
CONSTANTS
  u = u
  o = o
  l = l
  Null = Null
  w1 = w1
  w2 = w2
  d1 = d1
  d2 = d2
  Compilations = {u}
  Children <- NoChildren
  Mandatory = {u}
  Workers = {w1}
  Digests = {d1}
  FailCodes = {"Unknown"}
  Speculative = FALSE
  CacheEnabled = TRUE
  ReproRequired = FALSE
  MaxAttempts = 2
  MaxInflight = 1
  StoreMayFail = TRUE
  Evidence = {TRUE}
  ToolchainsChange = FALSE
  MaxAttemptId = 2
  MaxSession = 3
  MaxBoot = 2
  MaxGeneration = 2
  MaxEpoch = 2
INVARIANTS Inductive Consistent NoAuthorityAcrossRestart
PROPERTY AssignedToProvenWorker
CHECK_DEADLOCK FALSE
