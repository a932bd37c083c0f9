CONSTANTS
  N = 3
  MaxSteps = 3
  MaxLinks = 3
  Calls = 2
  MaxLines = 3
  PipeSize = 1
  Width = 8
  MaxArgs = 4
SPECIFICATION ExercisesSpec
INVARIANTS LivesOnce LeakIffCycle NothingLeftBehind NeverBothWait MatchesDefinition
