-------------------------- MODULE MCBuildAndEncode --------------------------
(***************************************************************************)
(* What a send computes before anything is written, one call per           *)
(* behaviour: the fee loop of CreateTransaction (TransactionBuilder), the   *)
(* integer encodings of serialize.h (Serialize) and the label escaping of  *)
(* the wallet dump (DumpString).  part says which is running; the          *)
(* variables of the other stay at a fixed value.  The encodings share the *)
(* call and its result.                                                    *)
(*                                                                         *)
(* CreateTransaction: two candidate outputs of value 1, 2, 4 or 6,         *)
(* confirmed, from us or not; payments of 1 or 3, a message burn of 1.     *)
(* CENT = 4 and a first fee guess (nTransactionFee = 1) two below          *)
(* GetBaseFee (3), so that sub-CENT change is moved to the fee, in part or *)
(* whole.  Sizes: 1 byte per input and per output and 4 bytes to the "kB", *)
(* so that the fee grows with the inputs and outputs; 2 inputs and 3       *)
(* outputs reach MAX_STANDARD_TX_SIZE.  The coins form a symmetry set.     *)
(*                                                                         *)
(* VarInt of a 16-bit type: every value is written; streams of up to four *)
(* bytes, one past the longest encoding, are read.  The byte values are   *)
(* those on each side of the 0x7F digit and 0x80 continuation boundaries, *)
(* and 0x82, 0x83, with which three digits reach 2^16 - 1 and 2^16.       *)
(* Dump strings: up to three bytes from controls, space, '!', '%', the    *)
(* ends of the digits and of 'a'..'f', DEL, and bytes >= 128 (negative as *)
(* char), so that every branch of the encoder and of the hex decoder runs.*)
(***************************************************************************)
EXTENDS Serialize, TLC

CONSTANTS Chars, MaxStrLen, c1, c2,
  Coin, Values, Depths, CENT, Iterations, SendValues, MessageFee,
  nTransactionFee, BaseFee, BytesPerKB, BaseBytes, InBytes, OutBytes,
  MAX_STANDARD_TX_SIZE

VARIABLES part,
  vCoins, txKind, nValueOut, setCoinsIn, coinControlDest, changeBack,
  nFeeRet, status, vin, nChange, changeDest, reserved, keyAvailable

D == INSTANCE DumpString
B == INSTANCE TransactionBuilder WITH Targets <- {}

bvars == <<vCoins, txKind, nValueOut, setCoinsIn, coinControlDest, changeBack,
           nFeeRet, status, vin, nChange, changeDest, reserved, keyAvailable>>
allvars == <<part, call, ret, bvars>>

MCByteVals == {0, 1, 126, 127, 128, 129, 130, 131, 254, 255}
\* sizes on each side of 253, 2^16, MAX_SIZE, 2^32, and 2^64 - 1
MCSizeVals ==
  {U64(0), U64(252), U64(253), U64(65535), U64(65536), U64(33554432),
   U64(33554433), UINT_MAX, TwoTo32, [i \in 1..8 |-> 255]}
MCChars == {0, 10, 32, 33, 37, 48, 57, 97, 102, 127, 128, 200, 255}
MCCoin == {c1, c2}
MCSymmetry == Permutations(MCCoin)

\* the variables of the part not running
EncodeIdle == call = [op |-> "SerializeVarInt", n |-> 0] /\ ret = NoRet
BuildIdle ==
  /\ vCoins = [c \in Coin |-> CHOOSE r \in B!CS!CoinRecord : TRUE]
  /\ txKind = "plain" /\ nValueOut = CHOOSE v \in SendValues : TRUE
  /\ setCoinsIn = {} /\ coinControlDest = FALSE /\ changeBack = FALSE
  /\ nFeeRet = nTransactionFee /\ status = "select_failed"
  /\ vin = {} /\ nChange = 0 /\ changeDest = "none" /\ reserved = FALSE
  /\ keyAvailable = FALSE

MCInit ==
  \/ part = "build" /\ B!Init /\ EncodeIdle
  \/ part = "encode" /\ (Init \/ D!Init) /\ BuildIdle

\* one pass of CreateTransaction's loop
BuildStep == part = "build" /\ B!Iterate /\ UNCHANGED <<part, call, ret>>

MCNext ==
  \/ BuildStep
  \/ part = "encode" /\ (Next \/ D!Next) /\ UNCHANGED <<part, bvars>>

\* CreateTransaction runs its loop to the end under cs_main and cs_wallet
MCSpec == MCInit /\ [][MCNext]_allvars /\ WF_allvars(BuildStep)

DumpStringRoundTrip == D!DumpStringRoundTrip
BuildTypeOK == B!TypeOK
FundsBalance == B!FundsBalance
FeeCoversSize == B!FeeCoversSize
ChangeKeyKept == B!ChangeKeyKept
BuildTerminates == B!BuildTerminates
====
