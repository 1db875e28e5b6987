\* KeyVault: an HD or a pre-HD wallet with one pool key, two passphrases,
\* two imported children of its seed, at most 4 random keys and HD index 4.
\* KeyPool: an unencrypted wallet, two threads, -keypool=1, at most 9 keys.
\* Ledger: the scenario of LedgerScenario.  Dump: a pre-HD wallet of up to
\* three keys and the names "" and L1, restored into any wallet.
CONSTANTS
  G = G  A = A  B = B  C = C  X = X  S = S
  k1 = k1
  k2 = k2
  k3 = k3
  L1 = L1
  Empty = Empty
  NoLabel = NoLabel
  NoKey = NoKey
  p1 = p1
  p2 = p2
  NoPassphrase = NoPassphrase
  t1 = t1
  t2 = t2
  Pass <- MCPass
  NoPass <- NoPassphrase
  KeypoolSize = 1
  HDAtStart = {TRUE, FALSE}
  ImportKeys <- MCImportKeys
  MaxRand = 4
  MaxIndex = 4
  Proc <- MCProc
  MaxKeys = 9
  InitiallyLocked = FALSE
  NewKeyPoolWhileReserved = FALSE
SPECIFICATION MCSpec
CONSTRAINT MCKeyBound
SYMMETRY MCSymmetry
INVARIANTS
  TypeOK
  NoPlaintextAtRest
  SeedNeverPlain
  PoolTypeOK
  PoolRecordsExist
  KeyHandedOnce
  LedgerTypeOK
  ChainSpentMarked
  GroupingsAreComponents
  ImportRestoresBook
PROPERTIES
  NewKeysFresh
  VaultStateMachine
