CONSTANTS
  Rounds = 3
SPECIFICATION Spec
INVARIANTS RoundsApart SeqCstExact
