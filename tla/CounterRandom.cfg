SPECIFICATION RandomSpec
CONSTANTS
  Modulus = 16
  Gamma = 5
  Seeds = {0, 9, 15}
  Length = 8
INVARIANTS
  Splittable
CHECK_DEADLOCK FALSE
