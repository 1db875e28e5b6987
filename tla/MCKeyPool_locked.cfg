\* An encrypted wallet locked and unlocked between the operations:
\* -keypool=1, two threads, at most 9 generated keys.
CONSTANTS
  t1 = t1
  t2 = t2
  Proc <- MCProc
  KeypoolSize = 1
  MaxKeys = 9
  InitiallyLocked = TRUE
  NewKeyPoolWhileReserved = FALSE
SPECIFICATION SpecLocking
CONSTRAINT KeyBound
SYMMETRY MCSymmetry
INVARIANTS
  KeyHandedOnce
