------------------------ MODULE SupportingTransactions ------------------------
(***************************************************************************)
(* CWalletTx::AddSupportingTransactions and RelayWalletTransaction,        *)
(* src/wallet/wallet.cpp.  CreateTransaction fills vtxPrev of the new      *)
(* transaction with the transactions it builds on: a work queue starts     *)
(* with the transactions its inputs spend; each one is looked up in        *)
(* mapWallet, then among the vtxPrev copies of the wallet records already  *)
(* looked at (mapWalletPrev), then in the transaction index; one found is *)
(* appended to vtxPrev and, while it is less than COPY_DEPTH deep, the     *)
(* transactions it spends are queued; one not found is skipped.  vtxPrev  *)
(* is reversed at the end.  RelayWalletTransaction relays the unconfirmed *)
(* ones that are not coinstakes, then the transaction.                     *)
(*                                                                         *)
(* The transaction graph is a constant; Init picks which of them the       *)
(* wallet holds, their depths, the vtxPrev copies of the wallet records,   *)
(* and the order of the new transaction's inputs.  One call is one step.   *)
(***************************************************************************)
EXTENDS Integers, Sequences, SequencesExt

CONSTANTS
  TxId,       \* the transactions
  Parents,    \* Parents[t]: vin[i].prevout.hash of t, in vin order
  Root,       \* wtxNew, the transaction being built
  CoinStakes, \* the coinstakes among them
  ChainDepths      \* the possible depths in the main chain (0: not in it)

ASSUME /\ Root \in TxId /\ CoinStakes \subseteq TxId \ {Root}
       /\ \A t \in TxId : Parents[t] \in Seq(TxId \ {Root})
       /\ 0 \in ChainDepths

COPY_DEPTH == 3

Spends(t) == ToSet(Parents[t])

\* the transactions reachable from the set S by spending, through the
\* transactions of V (S itself included)
RECURSIVE ReachVia(_, _)
ReachVia(S, V) ==
  LET next == S \cup UNION {Spends(t) : t \in S \cap V}
  IN  IF next = S THEN S ELSE ReachVia(next, V)

AncestorsOf(t) == ReachVia(Spends(t), TxId)

\* a transaction in a block is at least as deep as those it spends
DepthsOf == {d \in [TxId -> ChainDepths] :
               /\ d[Root] = 0
               /\ \A t \in TxId : d[t] > 0 => \A p \in Spends(t) : d[p] >= d[t]}

VARIABLES
  mapWallet,  \* the transactions the wallet holds
  nDepth,     \* nDepth[t]: SetMerkleBranch(), the depth in the main chain
  vtxPrevOf,  \* vtxPrevOf[t]: the transactions of a wallet record's vtxPrev
  vinPrevout, \* vin[i].prevout.hash of wtxNew, in vin order: the first vWorkQueue
  vtxPrev,    \* the supporting transactions of wtxNew, as filled
  relayed,    \* the transactions RelayWalletTransaction relays, in order
  added       \* AddSupportingTransactions has returned

vars == <<mapWallet, nDepth, vtxPrevOf, vinPrevout, vtxPrev, relayed, added>>

\* txdb.ReadDiskTx finds the transactions of the transaction index
OnDisk == {t \in TxId : nDepth[t] > 0}

\* the loop over vWorkQueue from position i; done is setAlreadyDone, prev
\* the domain of mapWalletPrev, out the vtxPrev built so far
RECURSIVE CollectNoDoneCheck(_, _, _, _, _)
CollectNoDoneCheck(q, i, done, prev, out) ==
  IF i > Len(q) THEN out
  ELSE LET h == q[i] IN
    IF h \notin mapWallet \cup prev \cup OnDisk
    THEN CollectNoDoneCheck(q, i + 1, done \cup {h}, prev, out)
    ELSE CollectNoDoneCheck(IF nDepth[h] < COPY_DEPTH THEN q \o Parents[h] ELSE q,
                 i + 1,
                 done \cup {h},
                 IF h \in mapWallet THEN prev \cup vtxPrevOf[h] ELSE prev,
                 Append(out, h))

RECURSIVE Collect(_, _, _, _, _)
Collect(q, i, done, prev, out) ==
  IF i > Len(q) THEN out
  ELSE LET h == q[i] IN
    IF h \in done THEN Collect(q, i + 1, done, prev, out)
    ELSE IF h \notin mapWallet \cup prev \cup OnDisk
    THEN Collect(q, i + 1, done \cup {h}, prev, out)
    ELSE Collect(IF nDepth[h] < COPY_DEPTH THEN q \o Parents[h] ELSE q,
                 i + 1,
                 done \cup {h},
                 IF h \in mapWallet THEN prev \cup vtxPrevOf[h] ELSE prev,
                 Append(out, h))

AddSupportingTransactions ==
  IF nDepth[Root] < COPY_DEPTH THEN Reverse(Collect(vinPrevout, 1, {}, {}, <<>>)) ELSE <<>>

RelayWalletTransaction(prev) ==
  SelectSeq(prev, LAMBDA t : t \notin CoinStakes /\ t \notin OnDisk) \o <<Root>>

-----------------------------------------------------------------------------
\* wtxNew spends outputs of wallet records only; a record's vtxPrev holds
\* some of its ancestors (what was found when it was built, or nothing for
\* a record received from the network)
Init ==
  /\ mapWallet \in {W \in SUBSET (TxId \ {Root}) : Spends(Root) \subseteq W}
  /\ nDepth \in DepthsOf
  /\ \E copies \in SUBSET {<<t, a>> \in mapWallet \X TxId : a \in AncestorsOf(t)} :
       vtxPrevOf = [t \in TxId |-> {a \in TxId : <<t, a>> \in copies}]
  /\ vinPrevout \in {s \in [1..Cardinality(Spends(Root)) -> Spends(Root)] : IsInjective(s)}
  /\ vtxPrev = <<>>
  /\ relayed = <<>>
  /\ added = FALSE

\* CreateTransaction: wtxNew.AddSupportingTransactions(txdb), and the relay
\* of CommitTransaction
AddAndRelay ==
  /\ ~added
  /\ vtxPrev' = AddSupportingTransactions
  /\ relayed' = RelayWalletTransaction(vtxPrev')
  /\ added' = TRUE
  /\ UNCHANGED <<mapWallet, nDepth, vtxPrevOf, vinPrevout>>

Next == AddAndRelay

Spec == Init /\ [][Next]_vars

-----------------------------------------------------------------------------
\* vtxPrev holds each transaction once; it holds only ancestors of wtxNew
\* reached through transactions less than COPY_DEPTH deep, and every such
\* ancestor reached through transactions the wallet holds or the index
\* has, whatever the order of the inputs and of the queue, and whichever
\* copies mapWalletPrev has seen so far: the setAlreadyDone test, the
\* three lookups and the depth cut-off of the queue must agree.
SupportingClosure ==
  added =>
    LET known   == mapWallet \cup OnDisk
        shallow == {t \in TxId : nDepth[t] < COPY_DEPTH}
    IN  /\ IsInjective(vtxPrev)
        /\ ToSet(vtxPrev) \subseteq ReachVia(Spends(Root), shallow)
        /\ ReachVia(Spends(Root), known \cap shallow) \cap known \subseteq ToSet(vtxPrev)
====
