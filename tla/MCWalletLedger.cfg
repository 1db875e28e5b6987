CONSTANTS
  G = G  A = A  B = B  C = C  X = X  S = S
  Tx <- MCTx
  Inputs <- MCInputs
  NOut <- MCNOut
  MineOut <- MCMineOut
  CoinStake <- MCCoinStake
  WalletSpend <- MCWalletSpend
  Genesis <- MCGenesis
  Addr <- MCAddr
  AddrOf <- MCAddrOf
  AddrBook <- MCAddrBook
  Vin0 <- MCVin0
  AddrOrder <- MCAddrOrder
SPECIFICATION Spec
INVARIANTS TypeOK ChainSpentMarked GroupingsAreComponents
