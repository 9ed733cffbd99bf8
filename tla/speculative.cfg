SPECIFICATION Spec
CONSTANTS
  u = u
  o = o
  l = l
  Null = Null
  w1 = w1
  w2 = w2
  d1 = d1
  d2 = d2
  Compilations = {u}
  Children <- NoChildren
  Mandatory = {u}
  Workers = {w1, w2}
  Digests = {d1, d2}
  FailCodes = {"Timeout", "Cancelled"}
  Speculative = TRUE
  CacheEnabled = FALSE
  ReproRequired = TRUE
  MaxAttempts = 2
  MaxInflight = 1
  StoreMayFail = FALSE
  Evidence = {TRUE}
  ToolchainsChange = FALSE
  MaxAttemptId = 3
  MaxSession = 2
  MaxBoot = 1
  MaxGeneration = 2
  MaxEpoch = 1
SYMMETRY Symmetry
INVARIANTS
  TypeOK AuthorityExact OneCommitPerGeneration CommittedAttemptsAgree OnlySpeculativeSiblings
  StaleLeasesRevoked DivergenceIsReal
PROPERTIES LostAuthorityIsFinal ImplementsArtifactAuthority
CHECK_DEADLOCK FALSE
