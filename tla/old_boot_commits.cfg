SPECIFICATION Spec
CONSTANTS
  u = u
  o = o
  l = l
  Null = Null
  w1 = w1
  w2 = w2
  d1 = d1
  d2 = d2
  Compilations = {u}
  Children <- NoChildren
  Mandatory = {u}
  Workers = {w1}
  Digests = {d1}
  FailCodes = {"StaleToolchain"}
  Speculative = FALSE
  CacheEnabled = FALSE
  ReproRequired = FALSE
  MaxAttempts = 1
  MaxInflight = 1
  StoreMayFail = FALSE
  Evidence = {TRUE}
  ToolchainsChange = FALSE
  MaxAttemptId = 1
  MaxSession = 2
  MaxBoot = 2
  MaxGeneration = 1
  MaxEpoch = 1
PROPERTY OldBootNeverCommits
CHECK_DEADLOCK FALSE
