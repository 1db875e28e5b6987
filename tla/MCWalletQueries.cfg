\* SelectCoins over every wallet of three candidate coins and every
\* target; SelectCoinsForStaking over every wallet of two records and
\* every reserve; GetAmounts over every record of up to three outputs;
\* AddSupportingTransactions over every wallet and chain state of a
\* diamond of supporting transactions
CONSTANTS
  c1 = c1  c2 = c2  c3 = c3
  r1 = r1  r2 = r2
  R = R  Ta = Ta  Tb = Tb  Tc = Tc  Td = Td
  Coin <- MCCoin
  Values <- MCValues
  Depths <- MCDepths
  Targets <- MCTargets
  CENT = 2
  Iterations = 2
  Rec <- MCRec
  StakeValues <- MCStakeValues
  StakeDepths <- MCStakeDepths
  Reserves <- MCReserves
  nCoinbaseMaturity = 3
  nMinimumInputValue = 2
  OutputValues = {0, 1, 3}
  Debits = {0, 2}
  MaxOut = 3
  ChainDepths = {0, 1, 3}
SYMMETRY MCSymmetry
SPECIFICATION MCSpec
CHECK_DEADLOCK FALSE
INVARIANTS SelectionSufficient ExactCoinChosen StakeCoinsEligible
  AmountsNetToBalanceChange SupportingClosure
