SPECIFICATION Spec
CONSTANTS
  Validations = {v1, v2}
  Keys = {1, 2}
  Ttl = 1
  Lifetime = 2
  MaxAge = 4
SYMMETRY ValidationSymmetry
INVARIANTS GenuineTokenAccepted RetiredKeysFade
