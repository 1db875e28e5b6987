\* As MCWalletState.cfg for the key store, with a crash of the process
\* inside EncryptWallet between TxnCommit and CDB::Rewrite.
CONSTANTS
  p1 = p1
  p2 = p2
  NoPassphrase = NoPassphrase
  Pass <- MCPass
  NoPass <- NoPassphrase
  KeypoolSize = 1
  HDAtStart = {TRUE, FALSE}
  ImportKeys <- MCImportKeys
  MaxRand = 4
  MaxIndex = 4
SPECIFICATION SpecWithCrash
CONSTRAINT KeyBound
SYMMETRY MCSymmetry
INVARIANT SeedNeverPlain
