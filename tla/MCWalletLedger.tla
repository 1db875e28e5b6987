--------------------------- MODULE MCWalletLedger ---------------------------
(***************************************************************************)
(* WalletLedger with its address groupings over the scenario of           *)
(* LedgerScenario.                                                         *)
(***************************************************************************)
EXTENDS WalletAddresses, LedgerScenario

\* The ledger with sends that neither overlap nor crash: at most one
\* SendMoney between its CreateTransaction and its CommitTransaction (one
\* user, one send dialog), and no crash inside CommitTransaction.  It
\* sets aside the lock gap (ledger_send_race) and the crash window
\* (ledger_commit_crash), so that what remains comes from the other
\* handlers.
NextSerialSends ==
  \/ \E t \in Tx : /\ \/ CreateTransaction(t) /\ pending = {}
                      \/ AbortSend(t)
                      \/ CommitTransaction(t)
  \/ /\ \/ \E t \in Tx : RelayTransaction(t) \/ ConnectBlock(t) \/ Stake(t)
        \/ DisconnectStake
        \/ FixSpentCoins
        \/ ResendWalletTransactions
        \/ RescanAndReaccept
     /\ UNCHANGED pending
  \/ Restart

SpecSerialSends == Init /\ [][NextSerialSends]_vars
====
