SPECIFICATION FairSpec
CONSTANTS
  u = u
  o = o
  l = l
  Null = Null
  w1 = w1
  w2 = w2
  d1 = d1
  d2 = d2
  Compilations = {o, l}
  Children <- LinkChildren
  Mandatory = {o, l}
  Workers = {w1}
  Digests = {d1, d2}
  FailCodes = {"Timeout", "ValidationFailure"}
  Speculative = FALSE
  CacheEnabled = FALSE
  ReproRequired = TRUE
  MaxAttempts = 2
  MaxInflight = 1
  StoreMayFail = FALSE
  Evidence = {TRUE}
  ToolchainsChange = FALSE
  MaxAttemptId = 4
  MaxSession = 3
  MaxBoot = 2
  MaxGeneration = 1
  MaxEpoch = 1
PROPERTIES EveryUnitResolved AuthorityIsTemporary
CHECK_DEADLOCK FALSE
