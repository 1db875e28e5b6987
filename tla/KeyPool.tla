------------------------------- MODULE KeyPool -------------------------------
(***************************************************************************)
(* The key pool of src/wallet/wallet.cpp: setKeyPool (the pool indices in  *)
(* memory), the pool records of the wallet file (WritePool / ReadPool /    *)
(* ErasePool), and the reservations CReserveKey holds while a transaction  *)
(* is built and committed (CreateTransaction reserves a change key,        *)
(* CommitTransaction keeps it, a failed or change-less build returns it;   *)
(* GetOldestKeyPoolTime reserves and returns the oldest key).              *)
(*                                                                         *)
(* Every operation of CWallet takes cs_wallet, so each is one step; a      *)
(* reservation is held across steps, so reservers interleave with each     *)
(* other and with GetKeyFromPool, TopUpKeyPool and NewKeyPool.  The        *)
(* wallet's lock state is a variable that this module never changes (an    *)
(* unencrypted or unlocked wallet); KeyPoolLocking adds Lock and Unlock.   *)
(***************************************************************************)
EXTENDS Integers, FiniteSets, FiniteSetsExt, Functions, TLC

CONSTANTS
  Proc,            \* threads holding a CReserveKey
  KeypoolSize,     \* -keypool (TopUpKeyPool keeps KeypoolSize + 1 keys)
  MaxKeys,         \* bound on the keys GenerateNewKey makes
  InitiallyLocked, \* the wallet is encrypted and locked at start
  NewKeyPoolWhileReserved
    \* NewKeyPool may run while a reservation is held (EncryptWallet during
    \* a send); FALSE: only with none held (UpgradeWallet at start-up)

NoKey == -1        \* CPubKey(): no key
FirstDefaultKey == 0  \* the vchDefaultKey of a new wallet, not in the pool

VARIABLES
  setKeyPool,  \* the pool indices in memory
  pooldb,      \* the pool records on disk: index -> key
  nextKey,     \* the key GenerateNewKey returns next (keys are 1, 2, ...)
  locked,      \* IsLocked()
  rkIndex,     \* rkIndex[p]: CReserveKey::nIndex of thread p (-1: none)
  rkKey,       \* rkKey[p]:   CReserveKey::vchPubKey of thread p
  used,        \* keys handed out for good (KeepKey, GetKeyFromPool)
  vchDefaultKey

vars == <<setKeyPool, pooldb, nextKey, locked, rkIndex, rkKey, used, vchDefaultKey>>

\* the pool part of the state as a record, so that the helpers compose
Pool == [pool |-> setKeyPool, db |-> pooldb, next |-> nextKey]
SetPool(s) == setKeyPool' = s.pool /\ pooldb' = s.db /\ nextKey' = s.next

\* TopUpKeyPool(0): while setKeyPool.size() < nTargetSize + 1, write a new
\* key at nEnd = 1 + the largest index, or at 1 when the pool is empty
RECURSIVE TopUpKeyPool(_)
TopUpKeyPool(s) ==
  IF Cardinality(s.pool) >= KeypoolSize + 1 THEN s
  ELSE LET nEnd == IF s.pool = {} THEN 1 ELSE Max(s.pool) + 1
       IN  TopUpKeyPool([pool |-> s.pool \cup {nEnd},
                         db |-> (nEnd :> s.next) @@ s.db,
                         next |-> s.next + 1])

\* ReserveKeyFromKeyPool (reservation taken before the pool is topped up)
ReserveKeyFromKeyPoolTakeFirst(s, isLocked) ==
  IF s.pool = {} THEN [s |-> IF isLocked THEN s ELSE TopUpKeyPool(s), nIndex |-> -1, key |-> NoKey]
  ELSE LET nIndex == Min(s.pool)
           s1 == [s EXCEPT !.pool = @ \ {nIndex}]
           s2 == IF isLocked THEN s1 ELSE TopUpKeyPool(s1)
       IN  [s |-> s2, nIndex |-> nIndex,
            key |-> IF nIndex \in DOMAIN s.db THEN s.db[nIndex] ELSE NoKey]

\* ReserveKeyFromKeyPool: top up unless locked, then take the oldest
\* (smallest) index out of setKeyPool and read its record.  A missing
\* record throws ("read failed") after the index left setKeyPool.
ReserveKeyFromKeyPool(s, isLocked) ==
  LET s1 == IF isLocked THEN s ELSE TopUpKeyPool(s)
  IN  IF s1.pool = {} THEN [s |-> s1, nIndex |-> -1, key |-> NoKey]
      ELSE LET nIndex == Min(s1.pool)
           IN  [s |-> [s1 EXCEPT !.pool = @ \ {nIndex}], nIndex |-> nIndex,
                key |-> IF nIndex \in DOMAIN s1.db THEN s1.db[nIndex] ELSE NoKey]

\* CWallet::KeepKey(nIndex): ErasePool(nIndex)
KeepKeyIndex(s, nIndex) == [s EXCEPT !.db = Restrict(@, DOMAIN @ \ {nIndex})]

\* CWallet::ReturnKey(nIndex): setKeyPool.insert(nIndex)
ReturnKeyIndex(pool, nIndex) == pool \cup {nIndex}

\* a CReserveKey holding no key (GetReservedKey reserves again)
Idle(p) == rkKey[p] = NoKey

-----------------------------------------------------------------------------
Init ==
  /\ setKeyPool = 1..KeypoolSize          \* NewKeyPool at wallet creation
  /\ pooldb = [i \in 1..KeypoolSize |-> i]
  /\ nextKey = KeypoolSize + 1
  /\ locked = InitiallyLocked
  /\ rkIndex = [p \in Proc |-> -1]
  /\ rkKey = [p \in Proc |-> NoKey]
  /\ used = {}
  /\ vchDefaultKey = FirstDefaultKey

\* CReserveKey::GetReservedKey with nIndex == -1: reserve from the pool, or
\* fall back to vchDefaultKey when the pool is empty.  A failed read throws
\* out of CreateTransaction: the index has left setKeyPool and the
\* reservation holds no key.
GetReservedKey(p) ==
  /\ Idle(p)
  /\ LET r == ReserveKeyFromKeyPool(Pool, locked) IN
       /\ SetPool(r.s)
       /\ IF r.nIndex = -1
          THEN rkIndex' = rkIndex /\ rkKey' = [rkKey EXCEPT ![p] = vchDefaultKey]
          ELSE IF r.key = NoKey
          THEN UNCHANGED <<rkIndex, rkKey>>
          ELSE rkIndex' = [rkIndex EXCEPT ![p] = r.nIndex] /\ rkKey' = [rkKey EXCEPT ![p] = r.key]
  /\ UNCHANGED <<locked, used, vchDefaultKey>>

\* CReserveKey::KeepKey, not forgetting nIndex afterwards
KeepKeyKeepsIndex(p) ==
  /\ ~Idle(p)
  /\ IF rkIndex[p] # -1 THEN pooldb' = Restrict(pooldb, DOMAIN pooldb \ {rkIndex[p]})
                        ELSE UNCHANGED pooldb
  /\ used' = used \cup {rkKey[p]}
  /\ rkKey' = [rkKey EXCEPT ![p] = NoKey]
  /\ UNCHANGED <<setKeyPool, nextKey, locked, vchDefaultKey, rkIndex>>

\* CReserveKey::KeepKey (CommitTransaction): erase the pool record
KeepKey(p) ==
  /\ ~Idle(p)
  /\ IF rkIndex[p] # -1 THEN pooldb' = Restrict(pooldb, DOMAIN pooldb \ {rkIndex[p]})
                        ELSE UNCHANGED pooldb
  /\ used' = used \cup {rkKey[p]}
  /\ rkIndex' = [rkIndex EXCEPT ![p] = -1]
  /\ rkKey' = [rkKey EXCEPT ![p] = NoKey]
  /\ UNCHANGED <<setKeyPool, nextKey, locked, vchDefaultKey>>

\* CReserveKey::ReturnKey: the index goes back into setKeyPool
ReturnKey(p) ==
  /\ ~Idle(p)
  /\ setKeyPool' = IF rkIndex[p] # -1 THEN ReturnKeyIndex(setKeyPool, rkIndex[p]) ELSE setKeyPool
  /\ rkIndex' = [rkIndex EXCEPT ![p] = -1]
  /\ rkKey' = [rkKey EXCEPT ![p] = NoKey]
  /\ UNCHANGED <<pooldb, nextKey, locked, used, vchDefaultKey>>

\* GetKeyFromPool(result, fAllowReuse = false): reserve and keep under one
\* lock; with an empty pool a new key is generated unless the wallet is
\* locked (NoKey: returns false).  A failed read throws out of it.
GetKeyFromPool(s, isLocked) ==
  LET r == ReserveKeyFromKeyPool(s, isLocked) IN
  IF r.nIndex = -1
  THEN IF isLocked THEN [s |-> r.s, key |-> NoKey]
       ELSE [s |-> [r.s EXCEPT !.next = @ + 1], key |-> r.s.next]
  ELSE IF r.key = NoKey THEN [s |-> r.s, key |-> NoKey]
  ELSE [s |-> KeepKeyIndex(r.s, r.nIndex), key |-> r.key]

\* AddToWallet, when a transaction pays to the default key: a key from
\* GetKeyFromPool becomes the new vchDefaultKey (SetDefaultKey)
ReplaceDefaultKey ==
  LET r == GetKeyFromPool(Pool, locked) IN
  /\ SetPool(r.s)
  /\ IF r.key = NoKey THEN UNCHANGED <<vchDefaultKey, used>>
     ELSE vchDefaultKey' = r.key /\ used' = used \cup {r.key}
  /\ UNCHANGED <<locked, rkIndex, rkKey>>

\* TopUpKeyPool() on its own (keypoolrefill)
RefillKeyPool ==
  /\ ~locked
  /\ SetPool(TopUpKeyPool(Pool))
  /\ UNCHANGED <<locked, rkIndex, rkKey, used, vchDefaultKey>>

\* NewKeyPool (EncryptWallet, UpgradeWallet): erase every pool record of
\* setKeyPool and, unless locked, write KeypoolSize new keys at 1, 2, ...
NewKeyPool ==
  LET kept == Restrict(pooldb, DOMAIN pooldb \ setKeyPool) IN
  /\ NewKeyPoolWhileReserved \/ \A p \in Proc : Idle(p)
  /\ IF locked
     THEN SetPool([pool |-> {}, db |-> kept, next |-> nextKey])
     ELSE SetPool([pool |-> 1..KeypoolSize,
                   db |-> [i \in 1..KeypoolSize |-> nextKey + i - 1] @@ kept,
                   next |-> nextKey + KeypoolSize])
  /\ UNCHANGED <<locked, rkIndex, rkKey, used, vchDefaultKey>>

Next ==
  \/ \E p \in Proc : GetReservedKey(p) \/ KeepKey(p) \/ ReturnKey(p)
  \/ ReplaceDefaultKey
  \/ RefillKeyPool
  \/ NewKeyPool

Spec == Init /\ [][Next]_vars

\* the bound on generated keys, used as a state constraint
KeyBound == nextKey <= MaxKeys + 1

-----------------------------------------------------------------------------
TypeOK ==
  /\ setKeyPool \subseteq Nat \ {0}
  /\ DOMAIN pooldb \subseteq Nat \ {0}
  /\ rkIndex \in [Proc -> {-1} \cup (Nat \ {0})]
  /\ \A p \in Proc : rkIndex[p] # -1 => rkKey[p] \notin {NoKey, FirstDefaultKey}

\* Every index in setKeyPool has its record in the wallet file.  A pool
\* index without one makes the next ReserveKeyFromKeyPool that reaches it
\* throw "read failed".  Keeps, returns, refills and new pools of several
\* threads must not let an index outlive its record.
PoolRecordsExist == setKeyPool \subseteq DOMAIN pooldb

\* A key leaves the pool once: two reservations never hold the same key,
\* a reserved or pooled key has not been handed out for good already.
KeyHandedOnce ==
  /\ \A p, q \in Proc : p # q /\ rkIndex[p] # -1 /\ rkIndex[q] # -1 => rkKey[p] # rkKey[q]
  /\ \A p \in Proc : rkIndex[p] # -1 => rkKey[p] \notin used
  /\ \A i \in setKeyPool \cap DOMAIN pooldb : pooldb[i] \notin used
====
