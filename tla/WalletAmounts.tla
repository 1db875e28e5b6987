--------------------------- MODULE WalletAmounts ---------------------------
(***************************************************************************)
(* CWalletTx::GetAmounts, src/wallet/wallet.cpp: the listing of one wallet *)
(* record as received and sent entries and a fee, which listtransactions  *)
(* and the account balances show.  It only reads the record and the        *)
(* wallet's ownership of its outputs and inputs, so one call is one step:  *)
(* Init picks a record, GetAmounts returns its listing.                    *)
(*                                                                         *)
(* An output is abstracted to its value, whether it is ours and whether   *)
(* its address has an address book entry (IsChange: ours and unlabelled); *)
(* the inputs to GetDebit(filter), the value of those that are ours.  The *)
(* destinations of the entries (ExtractDestination, and the log line when *)
(* it fails) are left out: no property reads them.                         *)
(***************************************************************************)
EXTENDS Integers, Sequences, SequencesExt

CONSTANTS
  OutputValues,   \* the possible nValue of an output
  Debits,   \* the possible GetDebit(filter) of a record
  MaxOut    \* the most outputs a record has

ASSUME MaxOut >= 2 /\ 0 \in OutputValues /\ 0 \in Debits

Output == {o \in [nValue : OutputValues, mine : BOOLEAN, book : BOOLEAN] : o.book => o.mine}

\* vout[0] of a coinstake: an empty output nobody owns
Empty == [nValue |-> 0, mine |-> FALSE, book |-> FALSE]

\* the records of a wallet: outputs indexed from 0 as in vout.  A coinstake
\* has its empty output first, and, as the comment at the top of GetAmounts
\* says, its output 1 has the owner of its input.
Record ==
  {w \in [coinstake : BOOLEAN, nDebit : Debits,
          vout : UNION {[0..(k - 1) -> Output] : k \in 1..MaxOut}] :
     w.coinstake => /\ 1 \in DOMAIN w.vout
                    /\ w.vout[0] = Empty
                    /\ w.vout[1].mine <=> w.nDebit > 0}

NoRet == [listReceived |-> <<>>, listSent |-> <<>>, nFee |-> 0]

VARIABLES
  wtx,      \* the record GetAmounts is called on
  amounts,  \* [listReceived, listSent, nFee] as returned
  listed    \* GetAmounts has returned

vars == <<wtx, amounts, listed>>

IsChange(o) == o.mine /\ ~o.book
GetValueOut(w) == FoldFunction(LAMBDA o, acc : o.nValue + acc, 0, w.vout)
Indices(w) == [k \in 1..Cardinality(DOMAIN w.vout) |-> k - 1]
Entry(w, i) == [amount |-> w.vout[i].nValue, n |-> i]
If(c, e) == IF c THEN <<e>> ELSE <<>>

\* one pass of the loop over vout; acc.amount is the coinstake roll-up
GetAmountsStep(w, acc, i) ==
  LET o                == w.vout[i]
      fIsFromMe        == w.nDebit > 0
      fIsAllToMe       == \A k \in DOMAIN w.vout : w.vout[k].mine
      fIsCoinStakeMine == w.coinstake /\ w.vout[1].mine
      amount           == IF fIsCoinStakeMine THEN acc.amount + o.nValue ELSE acc.amount
      send == ~o.mine /\ ((i > 1 /\ fIsCoinStakeMine) \/ (~w.coinstake /\ fIsFromMe))
      roll == fIsCoinStakeMine /\ i = Cardinality(DOMAIN w.vout) - 1
      recv == o.mine /\ ~fIsFromMe
      self == fIsFromMe /\ fIsAllToMe
      \* continue: the change of a send, or an output not ours of a record
      \* not from us
      skip == IF fIsFromMe THEN ~w.coinstake /\ IsChange(o) ELSE ~o.mine
  IN  IF skip THEN acc
      ELSE [amount       |-> amount,
            listSent     |-> acc.listSent \o If(send, Entry(w, i)) \o If(self, Entry(w, i)),
            listReceived |-> acc.listReceived
                               \o If(roll, [amount |-> amount - w.nDebit, n |-> 1])
                               \o If(recv, Entry(w, i)) \o If(self, Entry(w, i))]

GetAmountsFeeOnStakes(w) ==
  LET acc == FoldLeft(LAMBDA a, i : GetAmountsStep(w, a, i),
                      [amount |-> 0, listSent |-> <<>>, listReceived |-> <<>>], Indices(w))
  IN  [listReceived |-> acc.listReceived, listSent |-> acc.listSent,
       nFee |-> IF w.nDebit > 0 THEN w.nDebit - GetValueOut(w) ELSE 0]

GetAmounts(w) ==
  LET acc == FoldLeft(LAMBDA a, i : GetAmountsStep(w, a, i),
                      [amount |-> 0, listSent |-> <<>>, listReceived |-> <<>>], Indices(w))
  IN  [listReceived |-> acc.listReceived, listSent |-> acc.listSent,
       nFee |-> IF w.nDebit > 0 /\ ~w.coinstake THEN w.nDebit - GetValueOut(w) ELSE 0]

-----------------------------------------------------------------------------
Init ==
  /\ wtx \in Record
  /\ amounts = NoRet
  /\ listed = FALSE

ListAmounts ==
  /\ ~listed
  /\ amounts' = GetAmounts(wtx)
  /\ listed' = TRUE
  /\ UNCHANGED wtx

Next == ListAmounts

Spec == Init /\ [][Next]_vars

-----------------------------------------------------------------------------
Total(entries) == FoldSeq(LAMBDA e, acc : e.amount + acc, 0, entries)
Credit(w) == FoldFunction(LAMBDA o, acc : IF o.mine THEN o.nValue + acc ELSE acc, 0, w.vout)

\* GetAmounts lists a self-transaction's outputs as both sent and received,
\* rolls a coinstake of ours up into one received entry net of its input
\* and lists its side-stakes to others as sent, and skips the change of a
\* send.  Across all these branches the entries and the fee must still add
\* up to what the record changes in the wallet's balance: the value of its
\* outputs that are ours less the value of its inputs that are ours.
AmountsNetToBalanceChange ==
  listed => Total(amounts.listReceived) - Total(amounts.listSent) - amounts.nFee
              = Credit(wtx) - wtx.nDebit
====
