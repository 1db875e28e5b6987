--------------------------- MODULE WalletAddresses ---------------------------
(***************************************************************************)
(* The address views of src/wallet/wallet.cpp over the ledger of           *)
(* WalletLedger: IsChange and CWallet::GetAddressGroupings, the grouping   *)
(* of addresses that are linked by being spent together or by receiving   *)
(* the change of such a spend (listaddressgroupings).  They only read      *)
(* mapWallet, under cs_wallet, so they are operators over the ledger       *)
(* state, evaluated in every state the ledger reaches.                     *)
(*                                                                         *)
(* Every output pays to an address (ExtractDestination always succeeds:    *)
(* the scenario has only pay-to-pubkey-hash outputs).                      *)
(***************************************************************************)
EXTENDS WalletLedger

LOCAL G == INSTANCE Graphs

CONSTANTS
  Addr,      \* the destinations outputs pay to
  AddrOf,    \* AddrOf[t][n]: ExtractDestination(vout[n].scriptPubKey)
  AddrBook,  \* the destinations with an entry in mapAddressBook
  Vin0,      \* Vin0[t]: vin[0].prevout of a transaction with inputs
  AddrOrder  \* the addresses in the order of CTxDestination's operator<

ASSUME /\ \A t \in Tx : AddrOf[t] \in [0..(NOut[t] - 1) -> Addr]
       /\ AddrBook \subseteq Addr
       /\ \A t \in Tx : Inputs[t] # {} => Vin0[t] \in Inputs[t]
       /\ AddrOrder \in Seq(Addr) /\ ToSet(AddrOrder) = Addr /\ IsInjective(AddrOrder)

\* IsChange(txout): the output is ours and its address has no address
\* book entry
IsChange(t, n) == n \in MineOut[t] /\ AddrOf[t][n] \notin AddrBook

\* the groupings the first loop of GetAddressGroupings inserts for one
\* record: when vin[0] is ours, the addresses of the inputs that are ours
\* with, if there was one, the change addresses; then every address the
\* record pays to us, alone
RecordGroupings(l, t) ==
  LET ins == {AddrOf[o[1]][o[2]] : o \in {o \in Inputs[t] : IsMineIn(l, o)}}
      chg == IF ins # {} THEN {AddrOf[t][n] : n \in {n \in MineOut[t] : IsChange(t, n)}}
             ELSE {}
      linked == IF Inputs[t] # {} /\ IsMineIn(l, Vin0[t]) /\ ins \cup chg # {}
                THEN {ins \cup chg} ELSE {}
  IN  linked \cup {{AddrOf[t][n]} : n \in MineOut[t]}

\* set< set<CTxDestination> > groupings, after the loop over mapWallet
RawGroupings(l) == UNION {RecordGroupings(l, t) : t \in l.wallet}

\* one grouping through the merge loop: the groups of uniqueGroupings that
\* setmap shows it hits are merged with it and erased; setmap sends every
\* element of the merged group to it
MergeStepStaleMap(acc, g) ==
  LET hits   == {acc.setmap[a] : a \in g \cap DOMAIN acc.setmap}
      merged == g \cup UNION hits
  IN  [unique |-> (acc.unique \ hits) \cup {merged},
       setmap |-> [a \in DOMAIN acc.setmap \cup g |->
                     IF a \in g THEN merged ELSE acc.setmap[a]]]

MergeStep(acc, g) ==
  LET hits   == {acc.setmap[a] : a \in g \cap DOMAIN acc.setmap}
      merged == g \cup UNION hits
  IN  [unique |-> (acc.unique \ hits) \cup {merged},
       setmap |-> [a \in DOMAIN acc.setmap \cup merged |->
                     IF a \in merged THEN merged ELSE acc.setmap[a]]]

\* std::set< set<CTxDestination> > iterates its groupings in lexicographic
\* order of their sorted elements
AddrRank == Inverse(AddrOrder, DOMAIN AddrOrder, Addr)
AddrLess(a, b) == AddrRank[a] < AddrRank[b]
RECURSIVE LexLess(_, _)
LexLess(s1, s2) ==
  IF s2 = <<>> THEN FALSE ELSE IF s1 = <<>> THEN TRUE
  ELSE IF Head(s1) # Head(s2) THEN AddrLess(Head(s1), Head(s2))
  ELSE LexLess(Tail(s1), Tail(s2))
SetOrder(gs) ==
  SetToSortSeq(gs, LAMBDA g1, g2 : LexLess(SetToSortSeq(g1, AddrLess), SetToSortSeq(g2, AddrLess)))

\* GetAddressGroupings: the merge loop over the groupings in the set's
\* order (ret copies uniqueGroupings)
GetAddressGroupings(l) ==
  FoldLeft(MergeStep, [unique |-> {}, setmap |-> <<>>], SetOrder(RawGroupings(l))).unique

-----------------------------------------------------------------------------
\* the reference: the connected components of the graph that links two
\* addresses when one grouping holds both
LinkGraph(gs) ==
  LET nodes == UNION gs IN
  [node |-> nodes, edge |-> {<<a, b>> \in nodes \X nodes : \E g \in gs : {a, b} \subseteq g}]

Components(gs) ==
  LET gr == LinkGraph(gs)
      c  == G!ConnectionsIn(gr)
  IN  {{b \in gr.node : c[a, b]} : a \in gr.node}

\* GetAddressGroupings returns the connected components of the addresses
\* linked by common spending or change: the groups it returns are disjoint,
\* cover every address of ours, and no two of them are linked.  The merge keeps setmap
\* pointing at the current group of every address; a stale entry makes a
\* later grouping merge into an erased group and return overlapping ones.
GroupingsAreComponents == GetAddressGroupings(Led) = Components(RawGroupings(Led))
====
