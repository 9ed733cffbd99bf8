SPECIFICATION Spec
CONSTANTS
  u = u
  o = o
  l = l
  Null = Null
  w1 = w1
  w2 = w2
  d1 = d1
  d2 = d2
  Compilations = {o, l}
  Children <- LinkChildren
  Mandatory = {o, l}
  Workers = {w1}
  Digests = {d1}
  FailCodes = {"Timeout"}
  Speculative = FALSE
  CacheEnabled = TRUE
  ReproRequired = FALSE
  MaxAttempts = 2
  MaxInflight = 2
  StoreMayFail = FALSE
  Evidence = {TRUE, FALSE}
  ToolchainsChange = TRUE
  MaxAttemptId = 3
  MaxSession = 2
  MaxBoot = 1
  MaxGeneration = 2
  MaxEpoch = 1
INVARIANT CommittedJobHasArtifacts
PROPERTIES FanInGate AssignedToProvenWorker
CHECK_DEADLOCK FALSE
