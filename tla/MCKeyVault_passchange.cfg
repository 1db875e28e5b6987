\* As MCKeyVault.cfg: ChangeWalletPassphrase on locked and unlocked
\* wallets, with the right and a wrong old passphrase.
CONSTANTS
  p1 = p1
  p2 = p2
  NoPassphrase = NoPassphrase
  Pass <- MCPass
  NoPass <- NoPassphrase
  KeypoolSize = 1
  HDAtStart = {TRUE, FALSE}
  ImportKeys <- MCImportKeys
  MaxRand = 4
  MaxIndex = 4
SPECIFICATION SpecChangeFirst
CONSTRAINT KeyBound
SYMMETRY MCSymmetry
PROPERTIES
  PassphraseChangeKeepsLockState
