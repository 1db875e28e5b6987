------------------------------- MODULE KeyVault -------------------------------
(***************************************************************************)
(* The key store of src/wallet/wallet.cpp: key generation (GenerateNewKey, *)
(* HD derivation with the skip of keys already held), AddKey and           *)
(* AddCryptedKey with the records they write to the wallet file, the HD    *)
(* seed (GenerateNewHDMasterKey, SetHDMasterKey, the HD upgrade of         *)
(* UpgradeWallet), and the encryption state: EncryptWallet, Unlock, Lock   *)
(* and ChangeWalletPassphrase.                                             *)
(*                                                                         *)
(* A key is <<"r", n, 0>> (the n-th random key, MakeNewKey) or             *)
(* <<"hd", s, i>> (child m/0'/0'/i' of the seed <<"r", s, 0>>).  The file  *)
(* holds per key a "key" (plaintext) or "ckey" (encrypted) record; slack   *)
(* is the set of keys whose plaintext survives in free pages of the file   *)
(* after its "key" record was replaced, until CDB::Rewrite.                *)
(*                                                                         *)
(* Every operation holds cs_wallet, so each is one step.                   *)
(***************************************************************************)
EXTENDS Integers, FiniteSets, FiniteSetsExt, Functions, TLC

CONSTANTS
  Pass,                \* passphrases a user may type
  NoPass,              \* no master key
  KeypoolSize,         \* -keypool: keys NewKeyPool generates
  HDAtStart,           \* subset of BOOLEAN: wallets created with an HD seed
                       \* (TRUE) or before HD (FALSE)
  ImportKeys,          \* keys that can arrive through AddKey from outside
  MaxRand, MaxIndex    \* bounds on random keys and on the HD counter

NoSeed == 0
RandKey(n) == <<"r", n, 0>>
ChildKey(s, i) == <<"hd", s, i>>

VARIABLES
  useCrypto,      \* IsCrypted(): the key store holds encrypted keys
  unlocked,       \* vMasterKey is held in memory
  mapMasterKeys,  \* master key id -> the passphrase that wraps it
  keys,           \* the keys the key store holds (HaveKey)
  disk,           \* key -> "key" | "ckey": its record in the wallet file
  slack,          \* keys whose plaintext survives in free pages of the file
  everPlain,      \* keys ever written to the file in plaintext
  hdSeed,         \* hdChain.masterKeyID (the n of its random key, or NoSeed)
  hdCounter,      \* hdChain.nExternalChainCounter
  nextRand,       \* the n of the next random key
  generated       \* keys GenerateNewKey returned in the last step

vars == <<useCrypto, unlocked, mapMasterKeys, keys, disk, slack,
          everPlain, hdSeed, hdCounter, nextRand, generated>>

IsLocked == useCrypto /\ ~unlocked

\* the key-store part of the state as a record, so that the helpers compose
\* (generated is {} at the start of every step)
KS == [keys |-> keys, disk |-> disk, slack |-> slack, everPlain |-> everPlain,
       hdSeed |-> hdSeed, hdCounter |-> hdCounter, nextRand |-> nextRand,
       generated |-> {}]
SetKS(r) ==
  /\ keys' = r.keys /\ disk' = r.disk /\ slack' = r.slack
  /\ everPlain' = r.everPlain /\ hdSeed' = r.hdSeed
  /\ hdCounter' = r.hdCounter /\ nextRand' = r.nextRand
  /\ generated' = r.generated

\* AddKey of an encrypted store that writes no "ckey" record
AddKeyToNoCryptedWrite(ks, k, crypted) ==
  [ks EXCEPT !.keys = @ \cup {k},
             !.disk = IF crypted THEN @ ELSE (k :> "key") @@ @,
             !.everPlain = IF crypted THEN @ ELSE @ \cup {k}]

\* CCryptoKeyStore::AddKey and CWallet::AddKey: unencrypted, WriteKey writes
\* a plaintext "key" record; encrypted, the key is encrypted under
\* vMasterKey and CWallet::AddCryptedKey writes a "ckey" record.  (Both
\* fail when the store is locked; every caller checks that first.)
AddKeyTo(ks, k, crypted) ==
  [ks EXCEPT !.keys = @ \cup {k},
             !.disk = (k :> IF crypted THEN "ckey" ELSE "key") @@ @,
             !.everPlain = IF crypted THEN @ ELSE @ \cup {k}]

\* the derivation without the HaveKey test
NextChildNoSkip(s, i, held) == i

\* do { derive m/0'/0'/counter'; counter++ } while (HaveKey(child)):
\* the index of the first child from i on that the store does not hold
RECURSIVE NextChild(_, _, _)
NextChild(s, i, held) ==
  IF ChildKey(s, i) \in held THEN NextChild(s, i + 1, held) ELSE i

\* CWallet::GenerateNewKey: the next unused HD child (hdChain written with
\* the counter past it), or a new random key; then AddKey
GenerateNewKeyIn(ks, crypted) ==
  LET hd == ks.hdSeed # NoSeed
      i  == NextChild(ks.hdSeed, ks.hdCounter, ks.keys)
      k  == IF hd THEN ChildKey(ks.hdSeed, i) ELSE RandKey(ks.nextRand)
      ks1 == IF hd THEN [ks EXCEPT !.hdCounter = i + 1]
                   ELSE [ks EXCEPT !.nextRand = @ + 1]
  IN  [AddKeyTo(ks1, k, crypted) EXCEPT !.generated = @ \cup {k}]

\* GenerateNewHDMasterKey (a random key, added with AddKey) followed by
\* SetHDMasterKey (a new hdChain for it, counter 0, written to the file)
NewHDSeed(ks, crypted) ==
  LET n == ks.nextRand IN
  [AddKeyTo([ks EXCEPT !.nextRand = @ + 1], RandKey(n), crypted)
     EXCEPT !.hdSeed = n, !.hdCounter = 0]

\* the key generation of NewKeyPool: GenerateNewKey nKeys times
RECURSIVE NewKeyPoolKeys(_, _, _)
NewKeyPoolKeys(ks, n, crypted) ==
  IF n = 0 THEN ks ELSE NewKeyPoolKeys(GenerateNewKeyIn(ks, crypted), n - 1, crypted)

\* CDB::Rewrite: the file is copied record by record, leaving no slack
Rewrite(ks) == [ks EXCEPT !.slack = {}]

\* the loop of Unlock and ChangeWalletPassphrase stops at the first master
\* key; EncryptWallet creates exactly one
FirstMasterKey == Min(DOMAIN mapMasterKeys)

-----------------------------------------------------------------------------
\* A wallet just created: unencrypted, an HD seed if HD, NewKeyPool's keys
Init ==
  LET empty == [keys |-> {}, disk |-> [k \in {} |-> "key"], slack |-> {},
                everPlain |-> {}, hdSeed |-> NoSeed, hdCounter |-> 0,
                nextRand |-> 1, generated |-> {}]
      created(hd) == NewKeyPoolKeys(IF hd THEN NewHDSeed(empty, FALSE) ELSE empty,
                                    KeypoolSize, FALSE)
  IN  \E hd \in HDAtStart : LET ks == created(hd) IN
      /\ useCrypto = FALSE
      /\ unlocked = FALSE
      /\ mapMasterKeys = [m \in {} |-> NoPass]
          /\ keys = ks.keys /\ disk = ks.disk /\ slack = ks.slack
      /\ everPlain = ks.everPlain /\ hdSeed = ks.hdSeed
      /\ hdCounter = ks.hdCounter /\ nextRand = ks.nextRand
      /\ generated = {}

\* GenerateNewKey called by TopUpKeyPool or GetKeyFromPool, which do so
\* only when the wallet is not locked
GenerateNewKey ==
  /\ ~IsLocked
  /\ SetKS(GenerateNewKeyIn(KS, useCrypto))
  /\ UNCHANGED <<useCrypto, unlocked, mapMasterKeys>>

\* CWallet::AddKey of a key from outside the wallet (importprivkey, which
\* requires an unlocked wallet and skips a key it already has)
ImportKey(k) ==
  /\ ~IsLocked
  /\ k \notin keys
  /\ SetKS(AddKeyTo(KS, k, useCrypto))
  /\ UNCHANGED <<useCrypto, unlocked, mapMasterKeys>>

\* UpgradeWallet to FEATURE_HD: a new seed and a new key pool; the seed's
\* AddKey throws when the wallet is locked
UpgradeWalletToHD ==
  /\ hdSeed = NoSeed
  /\ ~IsLocked
  /\ SetKS(NewKeyPoolKeys(NewHDSeed(KS, useCrypto), KeypoolSize, useCrypto))
  /\ UNCHANGED <<useCrypto, unlocked, mapMasterKeys>>

\* EncryptWallet with the records of the keys it holds re-encrypted in one
\* transaction (EncryptKeys, AddCryptedKey through pwalletdbEncryption);
\* the replaced "key" records leave their plaintext in slack
EncryptKeysIn(ks) ==
  [ks EXCEPT !.disk = [k \in DOMAIN @ |-> "ckey"],
             !.slack = @ \cup {k \in DOMAIN ks.disk : ks.disk[k] = "key"}]

\* EncryptWallet without the final CDB::Rewrite
EncryptWalletNoRewrite(p) ==
  /\ ~useCrypto
  /\ mapMasterKeys' = (1 :> p)
  /\ useCrypto' = TRUE
  /\ unlocked' = FALSE
  /\ LET ks1 == EncryptKeysIn(KS)
         ks2 == IF hdSeed # NoSeed THEN NewHDSeed(ks1, TRUE) ELSE ks1
     IN  SetKS(NewKeyPoolKeys(ks2, KeypoolSize, TRUE))

\* EncryptWallet keeping the HD seed of before the encryption
EncryptWalletKeepSeed(p) ==
  /\ ~useCrypto
  /\ mapMasterKeys' = (1 :> p)
  /\ useCrypto' = TRUE
  /\ unlocked' = FALSE
  /\ SetKS(Rewrite(NewKeyPoolKeys(EncryptKeysIn(KS), KeypoolSize, TRUE)))

\* CWallet::EncryptWallet: false on an encrypted wallet; a master key
\* wrapped with p and every key re-encrypted, committed in one
\* transaction; Lock, Unlock(p); a new HD seed when HD (the old one was
\* written in plaintext); NewKeyPool; Lock; CDB::Rewrite.  Both exit(1)
\* paths abort the transaction first: the restarted process finds the
\* file, hence the state, of before the call.
EncryptWallet(p) ==
  /\ ~useCrypto
  /\ mapMasterKeys' = (1 :> p)
  /\ useCrypto' = TRUE
  /\ unlocked' = FALSE
  /\ LET ks1 == EncryptKeysIn(KS)
         ks2 == IF hdSeed # NoSeed THEN NewHDSeed(ks1, TRUE) ELSE ks1
     IN  SetKS(Rewrite(NewKeyPoolKeys(ks2, KeypoolSize, TRUE)))

\* The process dies inside EncryptWallet(p) after TxnCommit (line 373) and
\* before CDB::Rewrite (line 396).  The transaction has put the master key
\* and the encrypted keys in the file; the new HD seed (AddKey, then
\* SetHDMasterKey) and the keys of NewKeyPool are written one by one after
\* it, so the file holds a prefix of them.  The restarted process loads
\* that file: encrypted and locked.
CrashInEncryptWallet(p) ==
  /\ ~useCrypto
  /\ mapMasterKeys' = (1 :> p)
  /\ useCrypto' = TRUE
  /\ unlocked' = FALSE
  /\ LET ks1 == EncryptKeysIn(KS)
         ks2 == IF hdSeed # NoSeed THEN NewHDSeed(ks1, TRUE) ELSE ks1
     IN  \E ks \in {ks1, ks2} \cup {NewKeyPoolKeys(ks2, j, TRUE) : j \in 1..KeypoolSize} :
           SetKS([ks EXCEPT !.generated = {}])

\* CWallet::Unlock: false unless locked; the first master key decides
Unlock(p) ==
  /\ IsLocked
  /\ unlocked' = (p = mapMasterKeys[FirstMasterKey])
  /\ generated' = {}
  /\ UNCHANGED <<useCrypto, mapMasterKeys, keys, disk, slack,
                 everPlain, hdSeed, hdCounter, nextRand>>

\* CCryptoKeyStore::Lock (walletlock, and the calls above): forget
\* vMasterKey; on an unencrypted store it does nothing
Lock ==
  /\ useCrypto
  /\ unlocked' = FALSE
  /\ generated' = {}
  /\ UNCHANGED <<useCrypto, mapMasterKeys, keys, disk, slack,
                 everPlain, hdSeed, hdCounter, nextRand>>

\* CWallet::ChangeWalletPassphrase without the final "if (fWasLocked) Lock()"
ChangeWalletPassphraseNoRelock(old, new) ==
  /\ useCrypto
  /\ IF old # mapMasterKeys[FirstMasterKey]
     THEN unlocked' = FALSE /\ UNCHANGED mapMasterKeys
     ELSE /\ mapMasterKeys' = [mapMasterKeys EXCEPT ![FirstMasterKey] = new]
          /\ unlocked' = TRUE
  /\ generated' = {}
  /\ UNCHANGED <<useCrypto, keys, disk, slack, everPlain, hdSeed,
                 hdCounter, nextRand>>

\* CWallet::ChangeWalletPassphrase: fWasLocked = IsLocked(); Lock(); a
\* wrong old passphrase returns false there; otherwise the master key is
\* rewrapped with the new one and written, and the wallet locked again if
\* it was locked.  (Unencrypted: Lock does nothing and the loop is empty.)
ChangeWalletPassphrase(old, new) ==
  /\ useCrypto
  /\ IF old # mapMasterKeys[FirstMasterKey]
     THEN unlocked' = FALSE /\ UNCHANGED mapMasterKeys
     ELSE /\ mapMasterKeys' = [mapMasterKeys EXCEPT ![FirstMasterKey] = new]
          /\ unlocked' = ~IsLocked
  /\ generated' = {}
  /\ UNCHANGED <<useCrypto, keys, disk, slack, everPlain, hdSeed,
                 hdCounter, nextRand>>

Next ==
  \/ GenerateNewKey
  \/ \E k \in ImportKeys : ImportKey(k)
  \/ UpgradeWalletToHD
  \/ \E p \in Pass : EncryptWallet(p) \/ Unlock(p)
  \/ Lock
  \/ \E o, n \in Pass : ChangeWalletPassphrase(o, n)

Spec == Init /\ [][Next]_vars

\* the key store with the process liable to die inside EncryptWallet
NextWithCrash == Next \/ \E p \in Pass : CrashInEncryptWallet(p)

SpecWithCrash == Init /\ [][NextWithCrash]_vars

\* the bounds on generated keys, used as a state constraint
KeyBound == nextRand <= MaxRand + 1 /\ hdCounter <= MaxIndex
-----------------------------------------------------------------------------
VaultStateOf ==
  IF ~useCrypto THEN "Unencrypted" ELSE IF unlocked THEN "Unlocked" ELSE "Locked"

PassphraseOf == IF useCrypto THEN mapMasterKeys[FirstMasterKey] ELSE NoPass

Abstract == INSTANCE VaultState WITH state <- VaultStateOf, passphrase <- PassphraseOf

TypeOK ==
  /\ useCrypto \in BOOLEAN /\ unlocked \in BOOLEAN
  /\ unlocked => useCrypto
  /\ DOMAIN mapMasterKeys \subseteq {1} /\ useCrypto = (DOMAIN mapMasterKeys = {1})
  /\ \A m \in DOMAIN mapMasterKeys : mapMasterKeys[m] \in Pass
  /\ DOMAIN disk = keys
  /\ \A k \in keys : disk[k] \in {"key", "ckey"}
  /\ slack \subseteq everPlain /\ everPlain \subseteq keys

\* The comment above CDB::Rewrite in EncryptWallet: once the wallet is
\* encrypted, no private key is in the wallet file in plaintext, neither as
\* a "key" record nor in free pages left by replacing one.  Keys added or
\* generated after encryption (AddKey, GenerateNewKey, the HD upgrade, the
\* new pool) must all go through AddCryptedKey.
NoPlaintextAtRest ==
  useCrypto =>
    /\ \A k \in keys : disk[k] = "ckey"
    /\ slack = {}

\* spec.md 4.1 encrypt: the HD seed is replaced when the wallet is
\* encrypted, so that an encrypted wallet never derives keys from a seed
\* that was written in plaintext (and is in old backups); the upgrade to
\* HD of an encrypted wallet creates its seed encrypted.
SeedNeverPlain ==
  (useCrypto /\ hdSeed # NoSeed) => RandKey(hdSeed) \notin everPlain

\* GenerateNewKey never returns a key the store already holds, even after
\* keys of the same HD chain, ahead of hdChain's counter, were imported
\* (the do ... while (HaveKey) of the derivation); the key pool hands out
\* each generated key as a new address.
NewKeysFresh == [][generated' \cap keys = {}]_vars

\* The encryption state follows spec.md's state machine Unencrypted ->
\* Locked <-> Unlocked, with the first master key's passphrase as the
\* vault's passphrase: nothing leads back to Unencrypted, EncryptWallet
\* leaves the wallet Locked, never Unlocked, and a
\* passphrase changes only by ChangeWalletPassphrase on an encrypted wallet
\* and without unlocking it.
VaultStateMachine == Abstract!Spec

\* ChangeWalletPassphrase leaves the wallet locked or unlocked as it found
\* it (it saves fWasLocked to restore it).
PassphraseChangeKeepsLockState ==
  [][\A o, n \in Pass : ChangeWalletPassphrase(o, n) => unlocked' = unlocked]_vars
====
