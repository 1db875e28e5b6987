---------------------------- MODULE WalletLedger ----------------------------
(***************************************************************************)
(* The wallet's transaction ledger of src/wallet/wallet.cpp: the records   *)
(* of CWallet::mapWallet and their per-output spent flags (vfSpent), and   *)
(* the handlers that change them:                                          *)
(*   - CreateTransaction and CommitTransaction, the two lock scopes of    *)
(*     SendMoney (the wallet sends a transaction), and a crash between    *)
(*     the writes of CommitTransaction,                                    *)
(*   - AddToWalletIfInvolvingMe     (a relayed or mined transaction),      *)
(*   - DisableTransaction           (our coinstake's block disconnected),  *)
(*   - FixSpentCoins                (repair against the transaction index),*)
(*   - ResendWalletTransactions     (erases transactions that no longer    *)
(*                                   revalidate),                          *)
(*   - ScanForWalletTransactions    (rescan of the whole chain) and        *)
(*     ReacceptWalletTransactions   (at start-up, after importprivkey and  *)
(*                                   importwallet).                        *)
(* The node around the wallet (best chain, memory pool) is modelled only   *)
(* as far as it decides which of these calls happen and in which order.    *)
(*                                                                         *)
(* A transaction is a model value; its structure (inputs, outputs, which   *)
(* outputs are ours) is fixed by constants.  An outpoint is the pair       *)
(* <<producing transaction, output index>> (COutPoint).                    *)
(***************************************************************************)
EXTENDS Naturals, FiniteSets, Sequences, SequencesExt

CONSTANTS
  Tx,          \* the transactions of the scenario
  Inputs,      \* Inputs[t]: the outpoints t consumes (vin[i].prevout)
  NOut,        \* NOut[t]: vout.size()
  MineOut,     \* MineOut[t]: indices n with IsMine(vout[n]) != ISMINE_NO
  CoinStake,   \* coinstake transactions, built by this wallet's staker
  WalletSpend, \* transactions CreateTransaction may build from this wallet
  Genesis      \* the best chain at start, one transaction per block

Outpoint == UNION {{t} \X (0..(NOut[t] - 1)) : t \in Tx}

\* transactions that reach this node from the network
External == Tx \ (WalletSpend \cup CoinStake \cup ToSet(Genesis))

ASSUME /\ \A t \in Tx : Inputs[t] \subseteq Outpoint /\ MineOut[t] \subseteq 0..(NOut[t] - 1)
       /\ CoinStake \cup WalletSpend \subseteq Tx
       /\ Genesis \in Seq(Tx) /\ \A i \in DOMAIN Genesis : Inputs[Genesis[i]] = {}

VARIABLES
  wallet,   \* the keys of mapWallet
  spent,    \* spent[t]: the output indices n with vfSpent[n] set
  inBlock,  \* the records whose hashBlock is not null
  chain,    \* the best chain (CTxIndex of each transaction in it)
  mempool,  \* the node's memory pool
  pending   \* transactions CreateTransaction built for a SendMoney that
            \* has not called CommitTransaction yet

vars == <<wallet, spent, inBlock, chain, mempool, pending>>

InChain == ToSet(chain)
Live == InChain \cup mempool

\* the transactions of S that consume outpoint o
Consumers(o, S) == {c \in S : o \in Inputs[c]}
ChainSpent(t, n) == Consumers(<<t, n>>, InChain) # {}

-----------------------------------------------------------------------------
(***************************************************************************)
(* The wallet-side operators work on a ledger record l, so that a whole    *)
(* rescan can be folded over the chain.                                    *)
(***************************************************************************)
Led == [wallet |-> wallet, spent |-> spent, inBlock |-> inBlock]
SetLed(l) == wallet' = l.wallet /\ spent' = l.spent /\ inBlock' = l.inBlock

IsMineTx(t) == MineOut[t] # {}

\* CWallet::IsMine(const CTxIn&): the prevout is a wallet record and ours
IsMineIn(l, o) == o[1] \in l.wallet /\ o[2] \in MineOut[o[1]]

\* IsFromMe(tx): GetDebit(tx) > 0, some input spends one of our outputs
IsFromMe(l, tx) == \E o \in Inputs[tx] : IsMineIn(l, o)

\* the output indices of record t that tx consumes and that are ours
OwnInputsFrom(l, tx, t) == {o[2] : o \in {o \in Inputs[tx] : o[1] = t /\ IsMineIn(l, o)}}

\* WalletUpdateSpent(tx, fBlock): mark every consumed output of ours spent;
\* when tx is in a block, also mark every output of tx that is ours unspent.
WalletUpdateSpent(l, tx, fBlock) ==
  LET marked == [t \in Tx |-> l.spent[t] \cup OwnInputsFrom(l, tx, t)]
  IN  [l EXCEPT !.spent = IF fBlock THEN [marked EXCEPT ![tx] = @ \ MineOut[tx]]
                                    ELSE marked]

\* AddToWallet(wtxIn): insert a new record or merge hashBlock into the
\* existing one (a fresh wtxIn carries no spent flags, so UpdateSpent adds
\* none), then WalletUpdateSpent(wtx, hashBlock != 0).
AddToWallet(l, tx, hasBlock) ==
  WalletUpdateSpent([l EXCEPT !.wallet = @ \cup {tx},
                              !.inBlock = IF hasBlock THEN @ \cup {tx} ELSE @],
                    tx, hasBlock)

AddToWalletIfInvolvingMeNoUpdate(l, tx, hasBlock, fUpdate) ==
  IF tx \in l.wallet THEN l
  ELSE IF IsMineTx(tx) \/ IsFromMe(l, tx) THEN AddToWallet(l, tx, hasBlock)
  ELSE WalletUpdateSpent(l, tx, FALSE)

\* AddToWalletIfInvolvingMe(tx, pblock, fUpdate)
AddToWalletIfInvolvingMe(l, tx, hasBlock, fUpdate) ==
  IF tx \in l.wallet /\ ~fUpdate THEN l
  ELSE IF tx \in l.wallet \/ IsMineTx(tx) \/ IsFromMe(l, tx)
       THEN AddToWallet(l, tx, hasBlock)
       ELSE WalletUpdateSpent(l, tx, FALSE)

\* DisableTransaction(tx): only for our own coinstake, mark its inputs unspent
DisableTransaction(l, tx) ==
  IF tx \notin CoinStake \/ ~IsFromMe(l, tx) THEN l
  ELSE [l EXCEPT !.spent = [t \in Tx |-> @[t] \ OwnInputsFrom(l, tx, t)]]

\* CWalletTx::IsTrusted: confirmed, or unconfirmed but sent by us
IsTrusted(t) == t \in InChain \/ IsFromMe(Led, t)

\* AvailableCoins(fOnlyConfirmed) and the depth rule of SelectCoinsMinConf
\* (nConfMine = 0 on the last attempt, nConfTheirs >= 1): an outpoint the
\* coin selector may return.  Coinstake maturity is abstracted to "in chain".
Available(o) ==
  LET p == o[1] IN
  /\ p \in wallet
  /\ o[2] \notin spent[p]
  /\ o[2] \in MineOut[p]
  /\ IsTrusted(p)
  /\ p \in CoinStake => p \in InChain
  /\ p \in InChain \/ IsFromMe(Led, p)

\* AcceptToMemoryPool against pool: not known yet, inputs exist and are
\* not spent
AcceptableTo(t, pool) ==
  LET live == InChain \cup pool IN
  /\ t \notin live
  /\ \A o \in Inputs[t] : o[1] \in live /\ Consumers(o, live) = {}

AcceptableToMemoryPool(t) == AcceptableTo(t, mempool)

\* the pool entries of pool spending outputs of S, transitively, with S
RECURSIVE Descendants(_, _)
Descendants(S, pool) ==
  LET more == {m \in pool \ S : \E o \in Inputs[m] : o[1] \in S}
  IN  IF more = {} THEN S ELSE Descendants(S \cup more, pool)

\* (the block's own transaction left in the pool, only its conflicts removed)
PoolAfterConnectKeepTx(tx) ==
  mempool \ Descendants({m \in mempool \ {tx} : Inputs[m] \cap Inputs[tx] # {}}, mempool)

\* the memory pool after a block with tx: tx and its conflicts leave
PoolAfterConnect(tx) ==
  mempool \ ({tx} \cup Descendants({m \in mempool \ {tx} : Inputs[m] \cap Inputs[tx] # {}}, mempool))

\* RevalidateTransaction: FetchInputs finds every input in the chain or pool
Revalidates(t) == \A o \in Inputs[t] : o[1] \in Live

-----------------------------------------------------------------------------
\* The node starts on the chain Genesis with a wallet file that holds the
\* records of its first k blocks: k = Len(Genesis) for a wallet kept up to
\* date, a smaller k for a wallet.dat restored from an older backup, whose
\* missing records only a rescan (-rescan, importprivkey) brings back.
Init ==
  /\ chain = Genesis
  /\ mempool = {}
  /\ \E k \in 0..Len(Genesis) :
       wallet = {t \in ToSet(SubSeq(Genesis, 1, k)) : IsMineTx(t)}
  /\ inBlock = wallet
  /\ spent = [t \in Tx |-> {}]
  /\ pending = {}

\* SendMoney's first lock scope: CreateTransaction selects t's inputs
\* among AvailableCoins and signs; nothing is written.  The coins are not
\* reserved: until CommitTransaction marks them spent, another
\* CreateTransaction may select them too.
CreateTransaction(t) ==
  /\ t \in WalletSpend \ (wallet \cup pending)
  /\ \A o \in Inputs[t] : Available(o)
  /\ pending' = pending \cup {t}
  /\ UNCHANGED <<wallet, spent, inBlock, chain, mempool>>

\* SendMoney returns "ABORTED" when the user declines the fee
\* (ThreadSafeAskFee); the built transaction is dropped
AbortSend(t) ==
  /\ t \in pending
  /\ pending' = pending \ {t}
  /\ UNCHANGED <<wallet, spent, inBlock, chain, mempool>>

\* the outputs of S consumed by t marked spent: CommitTransaction's
\* MarkSpent loop over wtxNew.vin
MarkInputsSpent(l, t) ==
  [l EXCEPT !.spent = [u \in Tx |-> @[u] \cup {o[2] : o \in {o \in Inputs[t] : o[1] = u}}]]

\* CommitTransaction(wtxNew), SendMoney's second lock scope: AddToWallet,
\* MarkSpent on every input, AcceptToMemoryPool (whose failure leaves the
\* record in the wallet), relay.  It does not check again that the inputs
\* are unspent.
CommitTransaction(t) ==
  /\ t \in pending
  /\ pending' = pending \ {t}
  /\ SetLed(MarkInputsSpent(AddToWallet(Led, t, FALSE), t))
  /\ mempool' = IF AcceptableToMemoryPool(t) THEN mempool \cup {t} ELSE mempool
  /\ UNCHANGED chain

\* a transaction relayed by a peer: AcceptToMemoryPool, then
\* SyncWithWallets -> AddToWalletIfInvolvingMe(tx, NULL, fUpdate = true)
RelayTransaction(t) ==
  /\ t \in External
  /\ AcceptableToMemoryPool(t)
  /\ mempool' = mempool \cup {t}
  /\ SetLed(AddToWalletIfInvolvingMe(Led, t, FALSE, TRUE))
  /\ UNCHANGED chain

\* a block containing t is connected: SyncWithWallets with the block
ConnectBlock(t) ==
  /\ t \notin InChain \cup CoinStake
  /\ t \in mempool \/ t \in External
  /\ \A o \in Inputs[t] : o[1] \in InChain /\ Consumers(o, InChain) = {}
  /\ chain' = Append(chain, t)
  /\ mempool' = PoolAfterConnect(t)
  /\ SetLed(AddToWalletIfInvolvingMe(Led, t, TRUE, TRUE))

\* the staker: SelectCoinsForStaking / AvailableCoinsForStaking pick an
\* output that is ours, unspent in the wallet and confirmed; the new block
\* with coinstake s is connected and synced to the wallet.
Stake(s) ==
  /\ s \in CoinStake \ InChain
  /\ \A o \in Inputs[s] : /\ o[1] \in wallet \cap InChain
                          /\ o[2] \in MineOut[o[1]] \ spent[o[1]]
                          /\ Consumers(o, InChain) = {}
  /\ chain' = Append(chain, s)
  /\ mempool' = PoolAfterConnect(s)
  /\ SetLed(AddToWalletIfInvolvingMe(Led, s, TRUE, TRUE))

\* the tip block, holding our coinstake, is disconnected in a reorganisation
DisconnectStake ==
  /\ chain # <<>>
  /\ Last(chain) \in CoinStake
  /\ chain' = Front(chain)
  /\ mempool' = mempool \ Descendants({Last(chain)}, mempool)
  /\ SetLed(DisableTransaction(Led, Last(chain)))

\* FixSpentCoins(fCheckOnly = false): for every record in the transaction
\* index, set the spent flag of each output of ours to the index's vSpent
FixSpentCoins ==
  /\ spent' = [t \in Tx |-> IF t \in wallet \cap InChain
                            THEN (spent[t] \ MineOut[t]) \cup {n \in MineOut[t] : ChainSpent(t, n)}
                            ELSE spent[t]]
  /\ UNCHANGED <<wallet, inBlock, chain, mempool>>

\* ResendWalletTransactions: the records old enough to be resent (a
\* nonempty subset, by nTimeReceived) that fail RevalidateTransaction are
\* erased from the wallet (EraseFromWallet) and from the memory pool.
ResendWalletTransactions ==
  \E bad \in SUBSET {t \in wallet : ~Revalidates(t)} \ {{}} :
    /\ wallet' = wallet \ bad
    /\ spent' = [t \in Tx |-> IF t \in bad THEN {} ELSE spent[t]]
    /\ inBlock' = inBlock \ bad
    /\ mempool' = mempool \ bad
    /\ UNCHANGED chain

\* ScanForWalletTransactions(pindexGenesisBlock, fUpdate): every transaction
\* of the chain, in block order, through AddToWalletIfInvolvingMe
ScanForWalletTransactions(l, fUpdate) ==
  FoldLeft(LAMBDA x, t : AddToWalletIfInvolvingMe(x, t, TRUE, fUpdate), l, chain)

\* the coinbases are the transactions of the genesis-era blocks
IsCoinBase(t) == t \in ToSet(Genesis)

\* ReacceptWalletTransactions: the records it passes over
ReacceptSkips(l, t) ==
  (IsCoinBase(t) /\ 0 \in l.spent[t]) \/ (t \in CoinStake /\ 1 \in l.spent[t])

\* one pass of ReacceptWalletTransactions over mapWallet, in the map's
\* order: a record in the transaction index gets the outputs of ours that
\* vSpent shows spent marked; any other record that is not a coinbase or
\* coinstake goes through AcceptWalletTransaction (AcceptToMemoryPool).
\* When a pass marked something, the whole chain is rescanned
\* (ScanForWalletTransactions(pindexGenesisBlock), fUpdate = false), and
\* when the rescan found a transaction the pass is repeated.
RECURSIVE Reaccept(_, _, _)
Reaccept(l, pool, order) ==
  LET marks == [t \in Tx |->
                 IF t \in l.wallet \cap InChain /\ ~ReacceptSkips(l, t)
                 THEN {n \in MineOut[t] \ l.spent[t] : ChainSpent(t, n)} ELSE {}]
      l1 == [l EXCEPT !.spent = [t \in Tx |-> @[t] \cup marks[t]]]
      pool1 == FoldLeft(LAMBDA p, t :
                 IF /\ t \in l.wallet \ InChain /\ ~ReacceptSkips(l, t)
                    /\ ~IsCoinBase(t) /\ t \notin CoinStake /\ AcceptableTo(t, p)
                 THEN p \cup {t} ELSE p, pool, order)
      l2 == ScanForWalletTransactions(l1, FALSE)
  IN  IF \A t \in Tx : marks[t] = {} THEN [l |-> l1, pool |-> pool1]
      ELSE IF l2.wallet = l1.wallet THEN [l |-> l2, pool |-> pool1]
      ELSE Reaccept(l2, pool1, order)

\* the records AcceptWalletTransaction is tried on
ReacceptCandidates(l) ==
  {t \in l.wallet \ InChain : ~IsCoinBase(t) /\ t \notin CoinStake}

\* Node start-up (init.cpp) from the wallet file l: the memory pool and
\* every SendMoney in flight are gone; with -rescan,
\* ScanForWalletTransactions(genesis, fUpdate = true) runs first; then
\* ReacceptWalletTransactions.  mapWallet is ordered by hash, so the order
\* of its records is fixed but arbitrary.
StartFrom(l) ==
  \E rescan \in BOOLEAN :
    LET l1 == IF rescan THEN ScanForWalletTransactions(l, TRUE) ELSE l IN
    \E order \in SetToSeqs(ReacceptCandidates(l1)) :
      LET r == Reaccept(l1, {}, order) IN
      /\ SetLed(r.l)
      /\ mempool' = r.pool
      /\ pending' = {}
      /\ UNCHANGED chain

\* a restart of the node after a shutdown
Restart == StartFrom(Led)

\* The process dies inside CommitTransaction(t): AddToWallet has written
\* the new record (WriteToDisk) and dies before WalletUpdateSpent and the
\* MarkSpent loop write the records of its inputs.  The node restarts
\* from that file.
CrashInCommit(t) ==
  /\ t \in pending
  /\ StartFrom([Led EXCEPT !.wallet = @ \cup {t}])

\* The other callers of ReacceptWalletTransactions, under LOCK2
\* throughout, with the memory pool as it is:
\*   - importprivkey with rescan: ScanForWalletTransactions(genesis, true);
\*   - importwallet: ScanForWalletTransactions(start, false), start taken
\*     as the genesis block.
RescanAndReaccept ==
  \E fUpdate \in BOOLEAN :
    LET l == ScanForWalletTransactions(Led, fUpdate) IN
    \E order \in SetToSeqs(ReacceptCandidates(l)) :
      LET r == Reaccept(l, mempool, order) IN
      /\ SetLed(r.l)
      /\ mempool' = r.pool
      /\ UNCHANGED <<chain, pending>>

Next ==
  \/ \E t \in Tx : \/ CreateTransaction(t)
                   \/ AbortSend(t)
                   \/ CommitTransaction(t)
                   \/ CrashInCommit(t)
  \/ /\ \/ \E t \in Tx : RelayTransaction(t) \/ ConnectBlock(t) \/ Stake(t)
        \/ DisconnectStake
        \/ FixSpentCoins
        \/ ResendWalletTransactions
        \/ RescanAndReaccept
     /\ UNCHANGED pending
  \/ Restart

Spec == Init /\ [][Next]_vars

-----------------------------------------------------------------------------
TypeOK ==
  /\ wallet \subseteq Tx
  /\ spent \in [Tx -> SUBSET Nat]
  /\ \A t \in Tx : spent[t] \subseteq 0..(NOut[t] - 1) /\ (t \notin wallet => spent[t] = {})
  /\ inBlock \subseteq wallet
  /\ chain \in Seq(Tx) /\ mempool \subseteq Tx \ InChain
  /\ pending \subseteq WalletSpend \ wallet

\* Every output of ours that a transaction of the best chain consumes is
\* marked spent in the wallet.  Several handlers write vfSpent: a block
\* marks the inputs of its transactions spent but WalletUpdateSpent also
\* clears the flags of the block transaction's own outputs, FixSpentCoins
\* clears flags, DisableTransaction clears flags on a reorganisation; none
\* of these may leave a chain-spent coin looking spendable.
ChainSpentMarked ==
  \A t \in wallet : \A n \in MineOut[t] : ChainSpent(t, n) => n \in spent[t]

\* The wallet never holds two transactions it built that spend the same
\* outpoint (the spec: no double-spend within the local view).
NoLocalDoubleSpend ==
  \A c1, c2 \in wallet \cap WalletSpend :
    c1 # c2 => Inputs[c1] \cap Inputs[c2] = {}

\* A spent flag on an output of a live record (in the chain or the memory
\* pool) is backed by a known transaction that consumes it (the spec: an
\* output is never marked spent unless some known input consumes it).
SpentBacked ==
  \A t \in wallet \cap Live : \A n \in spent[t] :
    Consumers(<<t, n>>, wallet \cup Live) # {}

\* CommitTransaction records a transaction only while the coins it spends
\* are still unspent in the wallet.  SendMoney releases cs_wallet between
\* CreateTransaction and CommitTransaction (and waits for the user on the
\* fee prompt); a second send, or a relayed transaction, may spend one of
\* the selected coins in between, and CommitTransaction does not select
\* again (the spec, section 5: the coin-selection-through-sign sequence
\* of a build holds the wallet scope, and builds are not pipelined: a
\* second build blocks until the first completes).
CommitSpendsUnspent ==
  [][\A t \in pending \ pending' :
       t \in wallet' \ wallet =>
         \A o \in Inputs[t] : o[1] \in wallet => o[2] \notin spent[o[1]]]_vars

\* Every coin of ours that a transaction the wallet sent consumes is
\* marked spent while the transaction's record is in the wallet, so that
\* AvailableCoins never offers it again.  CommitTransaction writes the new
\* record before the spent flags of its inputs; a restart after a crash
\* between the two writes reloads the record without the flags, and
\* ReacceptWalletTransactions marks only what the transaction index shows
\* spent.
SentInputsMarked ==
  \A t \in wallet \cap WalletSpend :
    \A o \in Inputs[t] : IsMineIn(Led, o) => o[2] \in spent[o[1]]
====
