-------------------------- MODULE TransactionBuilder --------------------------
(***************************************************************************)
(* CWallet::CreateTransaction of src/wallet/wallet.cpp: the fee loop.      *)
(* Each pass of its while (true) is one step: the outputs for the payee    *)
(* and the message burn, the inputs (SelectCoins for nValueOut + nFeeRet,  *)
(* or the caller's set of coins), the change with the sub-CENT adjustment, *)
(* the change destination and the CReserveKey, the size limit, and the    *)
(* fee test that either ends the loop or raises nFeeRet and goes round     *)
(* again.  SelectCoins is the operator of CoinSelection, with every result *)
(* its random choices allow.  The call runs under cs_main and cs_wallet,   *)
(* so no other wallet step interleaves with it.                            *)
(***************************************************************************)
EXTENDS Integers, FiniteSets, FiniteSetsExt

CONSTANTS
  Coin, Values, Depths, CENT, Iterations,  \* as in CoinSelection
  SendValues,        \* the possible nValueOut of vecSend (one payee)
  MessageFee,        \* RequiredBurnAmount() of a message contract
  nTransactionFee,   \* -paytxfee: the first fee guess and the fee per kB
  BaseFee,           \* GetBaseFee(wtxNew)
  BytesPerKB,        \* the 1000 of "nBytes / 1000"
  BaseBytes, InBytes, OutBytes,  \* serialized size: fixed, per input, per output
  MAX_STANDARD_TX_SIZE,
  Targets            \* CoinSelection's constant, unused here

VARIABLES
  vCoins,        \* the wallet's candidate outputs (CoinSelection's records)
  txKind,        \* "plain", "contract" (smallest coins first) or "message"
  nValueOut,     \* sum of vecSend
  setCoinsIn,    \* setCoins_in: the caller's inputs ({}: SelectCoins chooses)
  coinControlDest, \* coinControl->destChange is set
  changeBack,    \* change_back_to_input_address
  nFeeRet,
  status,        \* "building", "done", or the error returned
  vin,           \* the inputs of the finished transaction
  nChange,       \* nChange of the last pass (no change output unless > 0)
  changeDest,    \* "none", "coinControl", "input", "empty" or "newKey"
  reserved,      \* the CReserveKey holds a key
  keyAvailable   \* GetReservedKey can find a key (pool or vchDefaultKey)

vars == <<vCoins, txKind, nValueOut, setCoinsIn, coinControlDest, changeBack,
          nFeeRet, status, vin, nChange, changeDest, reserved, keyAvailable>>

CS == INSTANCE CoinSelection
        WITH nTargetValue <- 0, contract <- FALSE,
             result <- [ok |-> FALSE, setCoins |-> {}, nValueRet |-> 0],
             returned <- FALSE

Status == {"building", "done", "select_failed", "inputs_short", "keypool_empty", "too_large"}

\* message_fee: the burn output of a message contract, added to nValueOut
message_fee == IF txKind = "message" THEN MessageFee ELSE 0
TotalOut == nValueOut + message_fee

\* GetSerializeSize of the transaction: payee, burn and change outputs
TxBytes(nIn, nOut) == BaseBytes + InBytes * nIn + OutBytes * nOut

\* GetMinFee(wtxNew, 1000, GMF_SEND, nBytes): the base fee per started kB
GetMinFee(nBytes) == BaseFee * (1 + nBytes \div BytesPerKB)

\* the inputs: SelectCoins(nTotalValue, ...) with every result it can
\* return, or the caller's coins, which always "succeed"
Selections(nTotalValue) ==
  IF setCoinsIn # {}
  THEN {[ok |-> TRUE, setCoins |-> {}, nValueRet |-> CS!SumOf(setCoinsIn)]}
  ELSE CS!SelectCoinsFrom(nTotalValue, txKind = "contract", 1)

\* nChange = nValueIn - nValueOut - nFeeRet; if sub-cent change is
\* required, the fee is raised to at most GetBaseFee, taken from the change
ChangeAndFeeNoMin(nValueIn, fee) ==
  LET change == nValueIn - TotalOut - fee
      move == IF fee < BaseFee /\ change > 0 /\ change < CENT
              THEN BaseFee - fee ELSE 0
  IN  [change |-> change - move, fee |-> fee + move]

ChangeAndFee(nValueIn, fee) ==
  LET change == nValueIn - TotalOut - fee
      move == IF fee < BaseFee /\ change > 0 /\ change < CENT
              THEN Min({change, BaseFee - fee}) ELSE 0
  IN  [change |-> change - move, fee |-> fee + move]

\* nPayFee and nMinFee of a transaction of nBytes
RequiredFeePayOnly(nBytes) == nTransactionFee * (1 + nBytes \div BytesPerKB)
RequiredFee(nBytes) ==
  Max({nTransactionFee * (1 + nBytes \div BytesPerKB), GetMinFee(nBytes)})

\* the fee the loop goes round again with: nFeeRet = max(nPayFee, nMinFee)
RaisedFeePayOnly(nBytes) == nTransactionFee * (1 + nBytes \div BytesPerKB)
RaisedFee(nBytes) ==
  Max({nTransactionFee * (1 + nBytes \div BytesPerKB), GetMinFee(nBytes)})

\* the change script: coin control's destChange, the first input's address,
\* or a key reserved from the pool
ChangeDestination(setCoinsOut) ==
  IF coinControlDest THEN "coinControl"
  ELSE IF changeBack THEN IF setCoinsOut # {} THEN "input" ELSE "empty"
  ELSE "newKey"

-----------------------------------------------------------------------------
Init ==
  /\ vCoins \in [Coin -> CS!CoinRecord]
  /\ txKind \in {"plain", "contract", "message"}
  /\ nValueOut \in SendValues
  /\ setCoinsIn \in SUBSET Coin
  /\ coinControlDest \in BOOLEAN
  /\ changeBack \in BOOLEAN
  /\ nFeeRet = nTransactionFee
  /\ status = "building"
  /\ vin = {}
  /\ nChange = 0
  /\ changeDest = "none"
  /\ reserved = FALSE
  /\ keyAvailable \in BOOLEAN

\* the CReserveKey after the change output: GetReservedKey for a new
\* change key (it keeps the key it already holds), ReturnKey when there is
\* no change
ReservationAfterNoReturn(change, dest) ==
  IF change > 0 THEN reserved \/ dest = "newKey" ELSE reserved
ReservationAfter(change, dest) ==
  IF change > 0 THEN reserved \/ dest = "newKey" ELSE FALSE

\* an error return: nFeeRet keeps what it was last set to
Fail(err, fee) ==
  /\ status' = err
  /\ nFeeRet' = fee
  /\ UNCHANGED <<vin, nChange, changeDest, reserved>>

\* the inputs of wtxNew: the caller's coins, or setCoins_out of this pass
TxInputsKeepPrevious(sel) ==
  IF setCoinsIn # {} THEN setCoinsIn ELSE vin \cup sel.setCoins
TxInputs(sel) ==
  IF setCoinsIn # {} THEN setCoinsIn ELSE sel.setCoins

\* one pass of the while (true) loop of CreateTransaction
Iterate ==
  /\ status = "building"
  /\ \E sel \in Selections(TotalOut + nFeeRet) :
     IF ~sel.ok THEN Fail("select_failed", nFeeRet)
     ELSE
     LET inputs == TxInputs(sel)
         cf     == ChangeAndFee(sel.nValueRet, nFeeRet)
         dest   == IF cf.change > 0 THEN ChangeDestination(sel.setCoins) ELSE "none"
         nOut   == 1 + (IF message_fee > 0 THEN 1 ELSE 0) + (IF cf.change > 0 THEN 1 ELSE 0)
         nBytes == TxBytes(Cardinality(inputs), nOut)
     IN
     CASE setCoinsIn # {} /\ sel.nValueRet - TotalOut - nFeeRet < 0 ->
            Fail("inputs_short", nFeeRet)
       [] dest = "newKey" /\ ~reserved /\ ~keyAvailable ->
            Fail("keypool_empty", cf.fee)
       [] nBytes >= MAX_STANDARD_TX_SIZE ->
            /\ status' = "too_large"
            /\ nFeeRet' = cf.fee
            /\ reserved' = ReservationAfter(cf.change, dest)
            /\ UNCHANGED <<vin, nChange, changeDest>>
       [] OTHER ->
            /\ vin' = inputs
            /\ nChange' = cf.change
            /\ changeDest' = dest
            /\ reserved' = ReservationAfter(cf.change, dest)
            /\ IF cf.fee < RequiredFee(nBytes)
               THEN nFeeRet' = RaisedFee(nBytes) /\ status' = "building"
               ELSE nFeeRet' = cf.fee /\ status' = "done"
  /\ UNCHANGED <<vCoins, txKind, nValueOut, setCoinsIn, coinControlDest,
                 changeBack, keyAvailable>>

Next == Iterate

Spec == Init /\ [][Next]_vars /\ WF_vars(Iterate)

-----------------------------------------------------------------------------
\* the outputs of the finished transaction: payee, burn, change
OutputCount == 1 + (IF message_fee > 0 THEN 1 ELSE 0) + (IF nChange > 0 THEN 1 ELSE 0)

TypeOK ==
  /\ status \in Status
  /\ vin \subseteq Coin
  /\ nChange \in Nat
  /\ nFeeRet \in Nat
  /\ changeDest \in {"none", "coinControl", "input", "empty", "newKey"}
  /\ reserved \in BOOLEAN

\* A built transaction balances: its inputs pay exactly the payee, the
\* message burn, the change output and nFeeRet.  The sub-CENT adjustment
\* moves value from the change to the fee, and a later pass of the loop
\* recomputes both from new inputs; nFeeRet as returned must be the fee the
\* transaction really pays.
FundsBalance ==
  status = "done" => CS!SumOf(vin) = TotalOut + nFeeRet + nChange

\* A built transaction pays at least nPayFee (-paytxfee per started kB) and
\* the relay minimum GetMinFee for its own final size: inputs and change
\* chosen on the last pass, not the size of an earlier pass.
FeeCoversSize ==
  LET nBytes == TxBytes(Cardinality(vin), OutputCount) IN
  status = "done" =>
    /\ nFeeRet >= nTransactionFee * (1 + nBytes \div BytesPerKB)
    /\ nFeeRet >= GetMinFee(nBytes)

\* The CReserveKey that SendMoney keeps on CommitTransaction holds a key
\* exactly when the transaction pays change to a new pool key.  A change
\* key reserved on one pass of the loop must be returned when a later pass,
\* with more fee, leaves no change; otherwise KeepKey burns a pool key.
ChangeKeyKept ==
  status = "done" => (reserved <=> changeDest = "newKey")

\* The fee loop of CreateTransaction ends: each pass that goes round again
\* raises nFeeRet, until the fee suffices, the coins run out or the size
\* limit is reached.
BuildTerminates == <>(status # "building")
====
