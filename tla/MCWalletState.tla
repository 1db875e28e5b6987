---------------------------- MODULE MCWalletState ----------------------------
(***************************************************************************)
(* The wallet's stateful parts in one model: the key store (KeyVault), the *)
(* key pool (KeyPool), the ledger with its address groupings               *)
(* (WalletAddresses over LedgerScenario) and the dump and restore of keys  *)
(* (WalletDump).  part says which one runs; the others stay in a fixed     *)
(* initial state.                                                          *)
(*                                                                         *)
(* KeyVault: an HD or a pre-HD wallet with one pool key; two passphrases; *)
(* two imported children of its seed, ahead of the counter of a new       *)
(* wallet (KeypoolSize = 1 generates child 0), e.g. from a dump of a      *)
(* newer copy; at most 4 random keys (seeds) and HD index 4.               *)
(*                                                                         *)
(* KeyPool: an unencrypted wallet; two threads reserving change keys,     *)
(* GetKeyFromPool, keypoolrefill and NewKeyPool; -keypool=1 and at most 9 *)
(* generated keys.                                                         *)
(*                                                                         *)
(* Ledger: the six transactions of LedgerScenario.                         *)
(*                                                                         *)
(* Dump: three keys, the names "" and L1, a pre-HD wallet dumped (an HD    *)
(* wallet's dump is the run of MCWalletDump).                             *)
(*                                                                         *)
(* The passphrases, the threads and the dumped keys are interchangeable.   *)
(***************************************************************************)
EXTENDS KeyVault, LedgerScenario

CONSTANTS p1, p2, NoPassphrase, t1, t2,
  Proc, MaxKeys, InitiallyLocked, NewKeyPoolWhileReserved,
  k1, k2, k3, L1, Empty, NoLabel, NoKey

VARIABLES part, setKeyPool, pooldb, nextKey, locked, rkIndex, rkKey, used, vchDefaultKey,
  wallet, spent, inBlock, chain, mempool, pending,
  srcKeys, srcBook, srcPool, srcMaster, dstKeys, dstBook, dstKeys0, dstBook0,
  file, dumped, imported, fGood, found_hd_seed

P == INSTANCE KeyPoolLocking

L == INSTANCE WalletAddresses
       WITH Tx <- MCTx, Inputs <- MCInputs, NOut <- MCNOut, MineOut <- MCMineOut,
            CoinStake <- MCCoinStake, WalletSpend <- MCWalletSpend, Genesis <- MCGenesis,
            Addr <- MCAddr, AddrOf <- MCAddrOf, AddrBook <- MCAddrBook, Vin0 <- MCVin0,
            AddrOrder <- MCAddrOrder

D == INSTANCE WalletDump WITH Keys <- {k1, k2, k3}, Labels <- {Empty, L1}, HDSource <- {FALSE}

pvars == <<setKeyPool, pooldb, nextKey, locked, rkIndex, rkKey, used, vchDefaultKey>>
lvars == <<wallet, spent, inBlock, chain, mempool, pending>>
dvars == <<srcKeys, srcBook, srcPool, srcMaster, dstKeys, dstBook, dstKeys0, dstBook0,
           file, dumped, imported, fGood, found_hd_seed>>
allvars == <<part, vars, pvars, lvars, dvars>>

MCPass == {p1, p2}
MCImportKeys == {ChildKey(1, 1), ChildKey(1, 2)}
MCProc == {t1, t2}
MCSymmetry == {a @@ b @@ c : a \in Permutations(MCPass), b \in Permutations(MCProc),
                             c \in Permutations({k1, k2, k3})}

\* the ledger at genesis with none of it ours; no keys and no dump
LedgerIdle == chain = MCGenesis /\ mempool = {} /\ wallet = {} /\ inBlock = {}
              /\ spent = [t \in MCTx |-> {}] /\ pending = {}
DumpIdle == /\ srcKeys = {} /\ srcBook = [k \in {k1, k2, k3} |-> NoLabel] /\ srcPool = {}
            /\ srcMaster = NoKey /\ dstKeys = {} /\ dstBook = srcBook
            /\ dstKeys0 = {} /\ dstBook0 = srcBook /\ file = [k \in {} |-> NoLabel]
            /\ dumped = FALSE /\ imported = FALSE /\ fGood = TRUE /\ found_hd_seed = FALSE

MCInit ==
  \/ part = "KeyVault" /\ Init /\ P!Init /\ LedgerIdle /\ DumpIdle
  \/ part = "KeyPool" /\ Init /\ hdSeed = NoSeed /\ P!Init /\ LedgerIdle /\ DumpIdle
  \/ part = "Ledger" /\ Init /\ hdSeed = NoSeed /\ P!Init /\ L!Init /\ DumpIdle
  \/ part = "Dump" /\ Init /\ hdSeed = NoSeed /\ P!Init /\ LedgerIdle /\ D!Init

MCNext ==
  /\ \/ part = "KeyVault" /\ Next /\ UNCHANGED <<pvars, lvars, dvars>>
     \/ part = "KeyPool" /\ P!Next /\ UNCHANGED <<vars, lvars, dvars>>
     \/ part = "Ledger" /\ L!Next /\ UNCHANGED <<vars, pvars, dvars>>
     \/ part = "Dump" /\ D!Next /\ UNCHANGED <<vars, pvars, lvars>>
  /\ UNCHANGED part

MCSpec == MCInit /\ [][MCNext]_allvars

MCKeyBound == KeyBound /\ P!KeyBound

PoolTypeOK == P!TypeOK
PoolRecordsExist == P!PoolRecordsExist
KeyHandedOnce == P!KeyHandedOnce
LedgerTypeOK == L!TypeOK
ChainSpentMarked == L!ChainSpentMarked
GroupingsAreComponents == L!GroupingsAreComponents
ImportRestoresBook == D!ImportRestoresBook
====
