---------------------------- MODULE StakeSelection ----------------------------
(***************************************************************************)
(* Selection of the outputs the staker may use, src/wallet/wallet.cpp:     *)
(* AvailableCoinsForStaking (one pass over mapWallet computing balance_out *)
(* and the mature candidates) and SelectCoinsForStaking (the balance,      *)
(* reserve, maturity and per-output reserve tests with their reason        *)
(* codes).  Each wallet record has one unspent output of ours; a spent or  *)
(* foreign output is skipped by both computations alike and is left out.   *)
(* The shuffle of the result does not change the set returned.             *)
(***************************************************************************)
EXTENDS Integers, FiniteSets, FiniteSetsExt

CONSTANTS
  Rec,                 \* the wallet records
  Values,              \* possible vout[i].nValue
  Depths,              \* possible GetDepthInMainChain()
  Reserves,            \* possible nReserveBalance
  nCoinbaseMaturity,
  nMinimumInputValue

\* At depth 0 the record counts only when it is from us and its inputs are
\* confirmed or it is a coinstake; at depth > 0 fFromMe and the
\* dependencies do not matter, so they are fixed there.  young: the
\* record's nTime + nStakeMinAge > nSpendTime.
RecordInfo ==
  {r \in [nValue : Values, fCoinStake : BOOLEAN, nDepth : Depths,
          fFromMe : BOOLEAN, fDepsConfirmed : BOOLEAN, young : BOOLEAN] :
     r.nDepth > 0 => r.fFromMe /\ r.fDepsConfirmed}

Reason == {"NONE", "NO_COINS", "ENTIRE_BALANCE_RESERVED", "NO_MATURE_COINS",
           "NO_UTXOS_AVAILABLE_DUE_TO_RESERVE"}

VARIABLES
  mapWallet,        \* mapWallet[r]: the record's output and its status
  nReserveBalance,
  vCoinsRet,        \* the outputs returned to the staker
  not_staking_error,
  returned

vars == <<mapWallet, nReserveBalance, vCoinsRet, not_staking_error, returned>>

Val(r) == mapWallet[r].nValue

\* nDepth > 0 || (fFromMe && (AreDependenciesConfirmed() || IsCoinStake()))
\* together with !IsSpent, IsMine and nValue > 0
Counted(r) ==
  /\ mapWallet[r].nDepth > 0 \/ (mapWallet[r].fFromMe /\ (mapWallet[r].fDepsConfirmed \/ mapWallet[r].fCoinStake))
  /\ Val(r) > 0

MatureIgnoringReward(r) ==
  IF mapWallet[r].fCoinStake THEN mapWallet[r].nDepth >= nCoinbaseMaturity
  ELSE mapWallet[r].nDepth >= 1

\* coinbase/coinstake: blocks_to_maturity = max(0, nCoinbaseMaturity + 10 - nDepth)
\* must be 0; any other record: nDepth >= 1
Mature(r) ==
  IF mapWallet[r].fCoinStake THEN mapWallet[r].nDepth >= nCoinbaseMaturity + 10
  ELSE mapWallet[r].nDepth >= 1

\* AvailableCoinsForStaking: balance_out over the counted records; vCoins
\* the counted outputs of records old enough and mature, of at least
\* nMinimumInputValue
BalanceOut == FoldSet(LAMBDA r, acc : Val(r) + acc, 0, {r \in Rec : Counted(r)})

AvailableCoinsForStaking ==
  {r \in Rec : Counted(r) /\ ~mapWallet[r].young /\ Mature(r) /\ Val(r) >= nMinimumInputValue}

\* SelectCoinsForStaking(fMiner = true)
SelectCoinsForStakingResult ==
  LET vCoins == AvailableCoinsForStaking
      BalanceToConsider == BalanceOut - nReserveBalance
      fit == {r \in vCoins : BalanceToConsider >= Val(r)}
  IN  CASE BalanceOut <= 0         -> [coins |-> {}, err |-> "NO_COINS"]
        [] BalanceToConsider <= 0  -> [coins |-> {}, err |-> "ENTIRE_BALANCE_RESERVED"]
        [] vCoins = {}             -> [coins |-> {}, err |-> "NO_MATURE_COINS"]
        [] fit = {}                -> [coins |-> {}, err |-> "NO_UTXOS_AVAILABLE_DUE_TO_RESERVE"]
        [] OTHER                   -> [coins |-> fit, err |-> "NONE"]

Init ==
  /\ mapWallet \in [Rec -> RecordInfo]
  /\ nReserveBalance \in Reserves
  /\ vCoinsRet = {}
  /\ not_staking_error = "NONE"
  /\ returned = FALSE

SelectCoinsForStaking ==
  /\ ~returned
  /\ vCoinsRet' = SelectCoinsForStakingResult.coins
  /\ not_staking_error' = SelectCoinsForStakingResult.err
  /\ returned' = TRUE
  /\ UNCHANGED <<mapWallet, nReserveBalance>>

Next == SelectCoinsForStaking

Spec == Init /\ [][Next]_vars

-----------------------------------------------------------------------------
\* The staker is only handed outputs it may stake: from a record old enough
\* for nStakeMinAge, past maturity (nCoinbaseMaturity + 10 for a coinstake
\* or coinbase), worth at least nMinimumInputValue; and it is handed some
\* exactly when no reason code is set.
StakeCoinsEligible ==
  returned =>
    /\ (vCoinsRet # {}) <=> (not_staking_error = "NONE")
    /\ \A r \in vCoinsRet :
         /\ ~mapWallet[r].young
         /\ mapWallet[r].nDepth >= IF mapWallet[r].fCoinStake THEN nCoinbaseMaturity + 10 ELSE 1
         /\ mapWallet[r].nValue >= nMinimumInputValue
====
