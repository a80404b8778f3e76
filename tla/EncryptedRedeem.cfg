SPECIFICATION WrapSpec
CONSTANTS
  Callers = {c1, c2}
  Tokens = {1}
INVARIANT RedeemedOnce
