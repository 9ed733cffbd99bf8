SPECIFICATION Spec
CONSTANTS
  Contents = {"a", "b", "c"}
  HistoryLimit = 2
  Crashes = TRUE
  MaxGeneration = 4
INVARIANTS SteadyNumbersTellContent InductiveSlot
PROPERTY SteadyForgottenRises
CHECK_DEADLOCK FALSE
