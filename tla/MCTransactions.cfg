SPECIFICATION Spec
INVARIANTS TypeOK StateMatchesServer CachedIsClean NoConnectionLeaked CapHeld NoWaitCycle
PROPERTY IsAtomic
SYMMETRY Symmetry
CONSTANTS
  Sessions = {s1, s2}
  Conns = {c1, c2, c3}
  OptionChoices <- EveryMode
  HealthQueries = {TRUE, FALSE}
  BinderErrors = TRUE
  MaxWrites = 2
  MaxKills = 1
CHECK_DEADLOCK FALSE
