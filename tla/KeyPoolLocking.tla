--------------------------- MODULE KeyPoolLocking ---------------------------
(***************************************************************************)
(* The key pool of an encrypted wallet: KeyPool with the wallet locked     *)
(* (walletlock, the end of EncryptWallet) and unlocked (walletpassphrase,  *)
(* CWallet::Unlock) between the other operations.  While locked,           *)
(* ReserveKeyFromKeyPool does not top up, so reservations can drain the    *)
(* pool to empty.                                                          *)
(***************************************************************************)
EXTENDS KeyPool

\* CCryptoKeyStore::Lock(): forget the master key
WalletLock ==
  /\ ~locked
  /\ locked' = TRUE
  /\ UNCHANGED <<setKeyPool, pooldb, nextKey, rkIndex, rkKey, used, vchDefaultKey>>

\* CWallet::Unlock: only a locked wallet is unlocked; no top-up follows
WalletUnlock ==
  /\ locked
  /\ locked' = FALSE
  /\ UNCHANGED <<setKeyPool, pooldb, nextKey, rkIndex, rkKey, used, vchDefaultKey>>

NextLocking == Next \/ WalletLock \/ WalletUnlock

SpecLocking == Init /\ [][NextLocking]_vars
====
