SPECIFICATION WrapSpec
CONSTANTS
  Callers = {1, 2, 3}
  Tokens = {1, 2}
INVARIANT WrongOnlyByOverlap
