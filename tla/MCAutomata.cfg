SPECIFICATION Spec
CONSTANTS
  AlphabetSize = 2
  FastpathStates = 2
  MaxDeterminized = 2
  CounterBits = 4
  Start <- StartDef
  MaxStates = 3
  MaxTransitions = 3
  MaxWord = 3
  MaxCombined = 2
  Element = {e1, e2}
  SmallCapacity = 2
  Slack = 1
  MaxCapacity = 4
  Nothing = Nothing
  N = 4
  Storage = 4
  Promoted = 6
INVARIANTS
  LanguagesKept
  CanonicalForms
  AlgorithmsExact
  ContainersExact
CHECK_DEADLOCK FALSE
