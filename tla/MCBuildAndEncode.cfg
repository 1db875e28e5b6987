\* CreateTransaction's fee loop over every wallet of two coins, payment,
\* transaction kind, caller's coin set and change option; every VarInt
\* and CompactSize written and read; every dump label of up to three bytes
CONSTANTS
  c1 = c1  c2 = c2
  Coin <- MCCoin
  Values = {1, 2, 4, 6}
  Depths = {10}
  CENT = 4
  Iterations = 1
  SendValues = {1, 3}
  MessageFee = 1
  nTransactionFee = 1
  BaseFee = 3
  BytesPerKB = 4
  BaseBytes = 0
  InBytes = 1
  OutBytes = 1
  MAX_STANDARD_TX_SIZE = 5
  W = 16
  ByteVals <- MCByteVals
  MaxReadLen = 4
  SizeVals <- MCSizeVals
  Chars <- MCChars
  MaxStrLen = 3
SYMMETRY MCSymmetry
SPECIFICATION MCSpec
CHECK_DEADLOCK FALSE
INVARIANTS
  VarIntRoundTrip
  VarIntReadExact
  CompactSizeRoundTrip
  CompactSizeCanonical
  DumpStringRoundTrip
  BuildTypeOK
  FundsBalance
  FeeCoversSize
  ChangeKeyKept
PROPERTIES
  BuildTerminates
