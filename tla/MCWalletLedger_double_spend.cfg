\* One send at a time and no crash inside CommitTransaction, so that a
\* double spend comes neither from the lock gap (ledger_send_race) nor
\* from the crash window (ledger_commit_crash)
CONSTANTS
  G = G  A = A  B = B  C = C  X = X  S = S
  Tx <- MCTx
  Inputs <- MCInputs
  NOut <- MCNOut
  MineOut <- MCMineOut
  CoinStake <- MCCoinStake
  WalletSpend <- MCWalletSpend
  Genesis <- MCGenesis
  Addr <- MCAddr
  AddrOf <- MCAddrOf
  AddrBook <- MCAddrBook
  Vin0 <- MCVin0
  AddrOrder <- MCAddrOrder
SPECIFICATION SpecSerialSends
INVARIANT NoLocalDoubleSpend
