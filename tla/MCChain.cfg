SPECIFICATION Spec
CONSTANTS
  Eip1559Block = 1
  HomesteadFormula = 2
  ByzantiumFormula = 3
  DifficultyBomb = 100
  InitialBaseFee = 5
  Chains <- MCChains
  CheckRoots = {TRUE, FALSE}
  Clock = {12, 100}
  Generations = 2
  None = None
INVARIANTS StateIsCanonical OnlyBadIsBad RulesKept
PROPERTY ChoosesHeaviest
CHECK_DEADLOCK FALSE
