SPECIFICATION Spec
INVARIANT SuccessfulCommitIsDurable
SYMMETRY Symmetry
CONSTANTS
  Sessions = {s1}
  Conns = {c1}
  OptionChoices <- Default
  HealthQueries = {TRUE, FALSE}
  BinderErrors = TRUE
  MaxWrites = 2
  MaxKills = 1
CHECK_DEADLOCK FALSE
