-------------------------- MODULE MCWalletQueries --------------------------
(***************************************************************************)
(* The wallet's computations over its records that write nothing, in one  *)
(* model: SelectCoins for a spend (CoinSelection), SelectCoinsForStaking   *)
(* for the staker (StakeSelection), GetAmounts, the listing of a record   *)
(* (WalletAmounts), and AddSupportingTransactions with the relay of the   *)
(* new transaction (SupportingTransactions).  call says which is being    *)
(* made; the variables of the others stay at a fixed value and they do    *)
(* not return.  StakeSelection and SupportingTransactions each call their *)
(* view of the wallet mapWallet; the one of the call being made is set.   *)
(*                                                                         *)
(* SelectCoins: three candidate outputs, each of value 1, 2, 3 or 5,      *)
(* depth 0, 1 or 10 (the thresholds of the three attempts), from us or     *)
(* not; targets on both sides of every coin value and of sums of two and  *)
(* three coins.  CENT = 2 so that a coin can fall strictly between        *)
(* nTargetValue and nTargetValue + CENT.                                   *)
(*                                                                         *)
(* SelectCoinsForStaking: two wallet records; outputs worth 1, 2 or 4      *)
(* with nMinimumInputValue 2 so that the minimum filters some; depths 0,  *)
(* 1, nCoinbaseMaturity and nCoinbaseMaturity + 10 (the two maturity      *)
(* rules and their boundaries); reserves from none to more than every     *)
(* balance.                                                                *)
(*                                                                         *)
(* GetAmounts: every record of up to three outputs worth 0, 1 or 3, ours  *)
(* or not, labelled or not, with inputs of ours worth 0 or 2, plain or a  *)
(* coinstake: sends with and without change, self-sends, receipts,        *)
(* coinstakes with side-stakes to us and to others.                       *)
(*                                                                         *)
(* AddSupportingTransactions: wtxNew spends Ta and Tb, Tb spends Ta and   *)
(* Tc, both of those spend Td (a diamond, so that the queue meets a hash  *)
(* twice and the two orders of vin differ); Tc is a coinstake; depths 0,  *)
(* 1 and 3 = COPY_DEPTH, on each side of the cut-off.                      *)
(*                                                                         *)
(* The coins are interchangeable (every order is a possible shuffle), and *)
(* so are the records: both form symmetry sets.                            *)
(***************************************************************************)
EXTENDS CoinSelection, TLC

CONSTANTS c1, c2, c3, r1, r2, R, Ta, Tb, Tc, Td,
  Rec, StakeValues, StakeDepths, Reserves, nCoinbaseMaturity, nMinimumInputValue,
  OutputValues, Debits, MaxOut, ChainDepths

VARIABLES call, mapWallet, nReserveBalance, vCoinsRet, not_staking_error, stakeReturned,
  wtx, amounts, listed,
  nDepth, vtxPrevOf, vinPrevout, vtxPrev, relayed, added

St == INSTANCE StakeSelection
        WITH Values <- StakeValues, Depths <- StakeDepths, returned <- stakeReturned
Am == INSTANCE WalletAmounts

MCTxId == {R, Ta, Tb, Tc, Td}
MCParents == (R :> <<Ta, Tb>>) @@ (Ta :> <<Td>>) @@ (Tb :> <<Ta, Tc>>) @@ (Tc :> <<Td>>) @@ (Td :> <<>>)
Sup == INSTANCE SupportingTransactions
         WITH TxId <- MCTxId, Parents <- MCParents, Root <- R, CoinStakes <- {Tc}

svars == <<mapWallet, nReserveBalance, vCoinsRet, not_staking_error, stakeReturned>>
avars == <<wtx, amounts, listed>>
tvars == <<nDepth, vtxPrevOf, vinPrevout, vtxPrev, relayed, added>>
allvars == <<call, vars, svars, avars, tvars>>

MCCoin == {c1, c2, c3}
MCValues == {1, 2, 3, 5}
MCDepths == {0, 1, 10}
MCTargets == {2, 3, 4, 6, 7}
MCRec == {r1, r2}
MCStakeValues == {1, 2, 4}
MCStakeDepths == {0, 1, 3, 13}
MCReserves == {0, 2, 5}
MCSymmetry == {p @@ q : p \in Permutations(MCCoin), q \in Permutations(MCRec)}

\* the arguments of the calls not being made
CoinsIdle ==
  /\ vCoins = [c \in Coin |-> CHOOSE r \in CoinRecord : TRUE]
  /\ nTargetValue = CHOOSE v \in Targets : TRUE
  /\ contract = FALSE /\ result = Failed({}) /\ returned = FALSE
StakeArgsIdle ==
  /\ nReserveBalance = CHOOSE v \in Reserves : TRUE
  /\ vCoinsRet = {} /\ not_staking_error = "NONE" /\ stakeReturned = FALSE
StakeIdle == mapWallet = [r \in Rec |-> CHOOSE i \in St!RecordInfo : TRUE] /\ StakeArgsIdle
AmountsIdle == wtx = [coinstake |-> FALSE, nDebit |-> 0, vout |-> (0 :> Am!Empty)] /\ amounts = Am!NoRet /\ listed = FALSE
SupportArgsIdle ==
  /\ nDepth = [t \in MCTxId |-> 0] /\ vtxPrevOf = [t \in MCTxId |-> {}]
  /\ vinPrevout = <<>> /\ vtxPrev = <<>> /\ relayed = <<>> /\ added = FALSE

MCInit ==
  \/ call = "AddSupportingTransactions" /\ Sup!Init /\ StakeArgsIdle /\ CoinsIdle /\ AmountsIdle
  \/ call = "GetAmounts" /\ Am!Init /\ CoinsIdle /\ StakeIdle /\ SupportArgsIdle
  \/ call = "SelectCoinsForStaking" /\ CoinsIdle /\ St!Init /\ AmountsIdle /\ SupportArgsIdle
  \/ call = "SelectCoins" /\ Init /\ StakeIdle /\ AmountsIdle /\ SupportArgsIdle

MCNext ==
  /\ \/ call = "SelectCoins" /\ Next /\ UNCHANGED <<svars, avars, tvars>>
     \/ call = "SelectCoinsForStaking" /\ St!Next /\ UNCHANGED <<vars, avars, tvars>>
     \/ call = "GetAmounts" /\ Am!Next /\ UNCHANGED <<vars, svars, tvars>>
     \/ call = "AddSupportingTransactions" /\ Sup!Next
          /\ UNCHANGED <<vars, nReserveBalance, vCoinsRet, not_staking_error, stakeReturned, avars>>
  /\ UNCHANGED call

MCSpec == MCInit /\ [][MCNext]_allvars

StakeCoinsEligible == St!StakeCoinsEligible
AmountsNetToBalanceChange == Am!AmountsNetToBalanceChange
SupportingClosure == Sup!SupportingClosure
====
