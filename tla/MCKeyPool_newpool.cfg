\* An unencrypted wallet in which NewKeyPool (EncryptWallet) may run while
\* a send holds a reserved change key: -keypool=1, two threads, at most 9
\* generated keys.
CONSTANTS
  t1 = t1
  t2 = t2
  Proc <- MCProc
  KeypoolSize = 1
  MaxKeys = 9
  InitiallyLocked = FALSE
  NewKeyPoolWhileReserved = TRUE
SPECIFICATION SpecLocking
CONSTRAINT KeyBound
SYMMETRY MCSymmetry
INVARIANTS
  PoolRecordsExist
