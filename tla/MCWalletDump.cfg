\* A dump of an HD wallet restored into a wallet: three keys, names "" and L1.
CONSTANTS
  k1 = k1
  k2 = k2
  k3 = k3
  L1 = L1
  Empty = Empty
  NoLabel = NoLabel
  NoKey = NoKey
  Keys <- MCDumpKeys
  Labels <- MCLabels
  HDSource = {TRUE}
SPECIFICATION Spec
SYMMETRY MCSymmetry
INVARIANT ImportRestoresBook

