# TLA+ models of the Gridcoin wallet

This directory models the wallet of `src/src/wallet/wallet.cpp` (class `CWallet`):
- its transaction ledger;
- its coin selection, transaction building and key pool;
- its key vault;
- the serialisation primitives of `src/src/serialize.h` that the wallet's
  on-disk records rely on.

Each model is translated from the source. `PROJECT.json` maps every modelled
definition to the lines it stands for.

## 1. Inventory

### Components and their state

| Component | Source | State kept | Operations that change it |
|---|---|---|---|
| TransactionLedger | wallet.cpp 441-625, 1087-1318, 2193-2246, 2739-2814 | `mapWallet`, the records; per record `vfSpent` and `hashBlock` | `AddToWallet`, `AddToWalletIfInvolvingMe`, `WalletUpdateSpent`, `CommitTransaction`, `DisableTransaction`, `FixSpentCoins`, `ResendWalletTransactions`/`EraseFromWallet`, `ScanForWalletTransactions` |
| BalanceAccountant | wallet.cpp 660-679, 1325-1420, 2600-2737 | none (derived from the ledger) | none: `GetBalance`, `GetUnconfirmedBalance`, `GetImmatureBalance`, `AvailableCoins`, `IsChange` and `GetAddressGroupings` are readers |
| CoinSelector | wallet.cpp 1520-1881 | none (pure, with a random source) | `ApproximateBestSubset`, `SelectCoinsMinConf`, `SelectSmallestCoins`, `SelectCoins`, `SelectCoinsForStaking` |
| TransactionBuilder | wallet.cpp 1883-2301 | the transaction being built; the reserved change key | `CreateTransaction` (fee loop, change output), `CommitTransaction`, `SendMoney` |
| KeyPool | wallet.cpp 2443-2587, 2816-2851 | `setKeyPool` (pool indices), `CReserveKey::nIndex` | `NewKeyPool`, `TopUpKeyPool`, `ReserveKeyFromKeyPool`, `AddReserveKey`, `KeepKey`, `ReturnKey`, `GetKeyFromPool` |
| KeyVault | wallet.cpp 74-414, 680-744, 3128-3182 | keys, `mapMasterKeys`, the encryption state (unencrypted, locked, unlocked), the HD chain counter | `GenerateNewKey`, `AddKey`, `Unlock`, `ChangeWalletPassphrase`, `EncryptWallet`, `SetHDChain`, `UpgradeWallet` |
| DumpImport | wallet.cpp 3183-3600 (the rpcdump part) | keys, plus a rescan | `importprivkey`, `importwallet`, `dumpwallet`; `EncodeDumpString`/`DecodeDumpString` are pure |
| Serialize | serialize.h 300-475 | none (pure) | `WriteCompactSize`/`ReadCompactSize`, `WriteVarInt`/`ReadVarInt` |
| RPC mining glue | rpcmining.cpp | none | `getmininginfo`, `submitblock`: they format and forward |
| Voting registry | gridcoin/voting/registry.h | declarations only | none in this file |
| Translations | qt/locale/bitcoin_it.ts | none | none |

### How the parts interact

The node (`main.cpp`, not in this repository's `src/`) drives the ledger:
- a relayed transaction, or a connected block, reaches
  `AddToWalletIfInvolvingMe` through `SyncWithWallets`;
- a disconnected coinstake reaches `DisableTransaction`.

The user and the RPC layer drive the sending path. `SendMoney` calls
`CreateTransaction` (under `LOCK2(cs_main, cs_wallet)`), which asks
`SelectCoins` for coins. The caller then calls `CommitTransaction`, in a
second lock scope that:
- keeps the reserved change key;
- records the transaction;
- marks its inputs spent;
- offers it to the memory pool.

The staker calls `SelectCoinsForStaking`. When its coinstake is orphaned, the
node calls `DisableTransaction`. Two timers repair the ledger:
`ResendWalletTransactions` and `FixSpentCoins` (the latter from the
`checkwallet`/`repairwallet` RPCs). A rescan (`-rescan`, `importprivkey`)
runs `ScanForWalletTransactions`.

### What makes these components hard

- **Several writers of `vfSpent`:**
  - `CommitTransaction` marks the inputs it spends.
  - `WalletUpdateSpent` marks the inputs of every transaction it sees. For a
    transaction in a block it also *clears* the flags of that transaction's
    own outputs.
  - `DisableTransaction` clears flags.
  - `FixSpentCoins` overwrites flags from the transaction index, which knows
    nothing of the memory pool.
  - `EraseFromWallet` drops a record without touching the flags of the
    records it spends.

  The order in which blocks, relays, sends and repairs arrive decides what the
  flags say.
- **A lock gap between selection and commit.** `CreateTransaction` and
  `CommitTransaction` hold the locks separately. `SendMoney` can show the fee
  prompt between them, and `CommitTransaction` does not check the inputs
  again.
- **Two writes without a transaction.** `CommitTransaction` writes the new
  record, then the records of the coins it spends; a crash in between leaves
  a file the start-up path must repair.
- **Partial failures:**
  - `CommitTransaction` keeps the record when `AcceptToMemoryPool` fails.
  - `EncryptWallet` calls `exit(1)` half-way (lines 365 and 374).
  - `ResendWalletTransactions` decides what to erase under `cs_wallet` and
    erases it after releasing the lock.
- **Boundaries:**
  - the `nTargetValue + CENT` comparisons of `SelectCoinsMinConf`;
  - a sub-cent change moved to the fee;
  - a `setKeyPool` that is empty when `TopUpKeyPool` computes `nEnd = 1`;
  - `*(--setKeyPool.end())` on an empty set in `AddReserveKey`;
  - the canonical and overflow checks of `ReadCompactSize` and `ReadVarInt`.

### What makes each component correct

- **Ledger:**
  - a coin that the best chain spends is marked spent;
  - the wallet never builds two transactions that spend the same outpoint;
  - a spent flag is backed by a known transaction that consumes the coin
    (spec §3);
  - a repair or rescan restores these properties.
- **Coin selection:**
  - the selected set covers the target whenever the available coins do;
  - an exact match is returned when one coin equals the target;
  - the staker is handed only mature, old enough outputs above the minimum,
    with a reason code exactly when it is handed none.
- **Builder:**
  - the fee loop terminates;
  - the change goes back to one of our addresses (spec §4.5);
  - two concurrent builds do not spend the same coin.
- **Key pool:**
  - a reserved index is never handed out twice;
  - a kept key never returns to the pool.
- **Vault:**
  - `Locked ⇄ Unlocked` only after encryption;
  - a failed passphrase leaves the vault locked;
  - the HD counter never reuses a child index.
- **Serialize:** decoding an encoding gives back the value, and only the
  canonical encoding is accepted.

## 2. Plan

Modules in order of importance; each is checked before the next is begun.

1. `WalletLedger` (done). It models the ledger handlers against a node
   abstraction (best chain, memory pool) and covers the hazards of the spent
   flags.
2. `CoinSelection` and `StakeSelection` (done). They have the selection algorithms as operators, with the
   random choices of `ApproximateBestSubset` as nondeterminism. They are
   checked over small coin multisets against reference definitions:
   sufficiency, exact match and the staking reason codes.
3. `TransactionBuilder` (fee loop done). It models the `CreateTransaction`
   fee loop (termination as liveness), the change and the change
   destination, over `CoinSelection`. Still to come: composing it with
   `WalletLedger` and two concurrent senders, to check the Create/Commit
   lock gap (the gap itself is now modelled in `WalletLedger`).
4. `KeyPool` (done). Reservation, keep and return, top-up, new pools and
   the wallet lock, with two reserving threads.  Still to come: an abstract
   spec (a set of unused keys) and a refinement mapping pool indices onto it,
   for the configurations in which the pool is correct.
5. `KeyVault` (done). Key generation with HD derivation, imports, the HD
   upgrade, the encryption state machine and passphrase changes, checked
   against the abstract `VaultState` by refinement.
6. `Serialize` and `DumpString` (done). CompactSize and VarInt
   encode/decode, checked by round trip and canonicity, and the dump-string
   round trip.
7. `WalletAmounts` and `SupportingTransactions` (done). `GetAmounts` checked
   against the balance change of a record, and `AddSupportingTransactions`
   checked against a reachability definition of the ancestors it must copy.
8. `WalletDump` (done). `dumpwallet` and `importwallet`, checked by the
   round trip of the address book.

## 3. Modules and their correspondence to the code

### WalletLedger (`WalletLedger.tla`, instantiated with `WalletAddresses` over `LedgerScenario.tla` by `MCWalletLedger.tla` and `MCWalletState.tla`)

**State.** A transaction is a model value. Its inputs (`vin[i].prevout`), its
output count and the outputs that are ours are constants.

| Variable | Code |
|---|---|
| `wallet` | the keys of `mapWallet` |
| `spent[t]` | the set bits of `vfSpent` of record `t` |
| `inBlock` | the records whose `hashBlock` is set |
| `chain` | the best chain, read by `FetchInputs` and `CTxIndex::vSpent` |
| `mempool` | the node's memory pool |
| `pending` | the transactions a `SendMoney` has built (`CreateTransaction`) and not yet committed or abandoned |

The wallet-side operators take a ledger record `l`. This lets a rescan fold
`AddToWalletIfInvolvingMe` over the chain in block order, as
`ScanForWalletTransactions` does.

**Actions.**

| Action | What it models |
|---|---|
| `CreateTransaction(t)` | `SendMoney`'s first lock scope: `CreateTransaction` selects `t`'s inputs among the available coins (the availability rule of `AvailableCoins`/`SelectCoins`; the choice of inputs is the scenario's). Nothing is written; `t` becomes pending. |
| `AbortSend(t)` | The user declines the fee prompt (`ThreadSafeAskFee`): `SendMoney` returns `"ABORTED"` and `t` is dropped. |
| `CommitTransaction(t)` | `SendMoney`'s second lock scope, the whole of `CommitTransaction`: `AddToWallet`, then `MarkSpent` on every input (`MarkInputsSpent`), then `AcceptToMemoryPool`, whose failure leaves the record and the flags in place. Like the code, it does not check the inputs again. |
| `CrashInCommit(t)` | The process dies inside `CommitTransaction` after `AddToWallet` wrote `t`'s record and before the `MarkSpent` loop wrote its inputs; the node restarts (`StartFrom`) from that file. |
| `Restart` | A shutdown and start-up: `StartFrom` the current file. |
| `RelayTransaction(t)` | A peer's transaction entering the pool, then `AddToWalletIfInvolvingMe(tx, NULL, fUpdate=true)`. |
| `ConnectBlock(t)` | A block with `t`, then `AddToWalletIfInvolvingMe(tx, &block, true)`. The pool loses `t`, its conflicts and their descendants. |
| `Stake(s)` | Our coinstake in a new block, on a coin the staker may use. |
| `DisconnectStake` | Our coinstake's block orphaned, then `DisableTransaction`. |
| `FixSpentCoins` | `FixSpentCoins(fCheckOnly=false)`: flags of records in the transaction index set to the index's `vSpent`. |
| `ResendWalletTransactions` | Erasure of the records that fail `RevalidateTransaction`, from the wallet and the pool. |
| `RescanAndReaccept`, `StartFrom` | The callers of `ReacceptWalletTransactions`: `importprivkey` (rescan with `fUpdate = true`) and `importwallet` (rescan with `fUpdate = false`) with the memory pool as it is, and node start-up (`StartFrom`, modelled from `init.cpp`'s description since it is not in `src/`), which begins with an empty memory pool and no send in flight, and optionally rescans with `-rescan`. `ScanForWalletTransactions` folds `AddToWalletIfInvolvingMe` over the chain. `Reaccept` is the `while (fRepeat)` loop, in a fixed but arbitrary order of `mapWallet`. It marks the outputs of ours that the index shows spent and re-submits every other non-coinbase, non-coinstake record to the pool. When it marked something it rescans and repeats. |

The actions of peers, blocks, the staker and the repairs leave `pending`
unchanged; only the send actions and the restarts touch it.

**Init.** The wallet file holds the records of a prefix of the chain: a
wallet kept up to date, or one restored from an older backup.

**Scenario (`LedgerScenario`).** Six transactions, and no symmetry, since every
role is distinct:
- `G` pays us three coins.
- `A` spends `G:0`, with change to us.
- `B` spends `A`'s change and `G:2`.
- `C` spends `A`'s change.
- `X` is a conflicting spend of `G:0`, made by another copy of our keys.
- `S` is our coinstake on `G:1`.

This is the smallest set in which:
- a wallet transaction spends unconfirmed change;
- a conflict evicts it;
- a stake is orphaned;
- a repair runs while spends are pending.

**Assumptions.**
- The node calls the wallet with `fUpdate = true` on both the relay and the
  block path, as `SyncWithWallets` does.
- `AcceptToMemoryPool`, as called by `CommitTransaction` and
  `ReacceptWalletTransactions`, does not itself call `SyncWithWallets`
  (`main.cpp` is not in `src/`); only the peer path (`RelayTransaction`)
  does.  A record re-submitted after a restart is therefore not marked
  again.
- Maturity and time are abstracted: a coinstake output is usable once in the
  chain.
- Coin control and the development-build early return of `CommitTransaction`
  are left out.
- The default-key replacement inside `AddToWallet` belongs to the key pool
  and is left out here.
- `FixSpentCoins(fCheckOnly=true)` changes nothing, so it is not an action.
- `ReacceptWalletTransactions` marks a coin spent only when the chain spends
  it and the flag is missing. In the scenario every such coin is already
  marked (`ChainSpentMarked`), so that branch and its rescan never run. It
  exists for a `wallet.dat` copied from elsewhere, which the model does not
  produce. The re-submission to the pool after a restart does run.
  `AcceptWalletTransaction`'s re-submission of the supporting `vtxPrev`
  transactions is left out.
- The early returns of `SendMoney` for a locked wallet or a wallet unlocked
  for staking only belong to the vault; the ledger scenario's wallet is
  unlocked.

`MCTxLocal` is the scenario without `X`: the wallet alone, so that a double
spend found there is the wallet's own.

### WalletAddresses (`WalletAddresses.tla`, evaluated in every ledger state of `MCWalletState`)

`IsChange` and `GetAddressGroupings` (`listaddressgroupings`) only read
`mapWallet` under `cs_wallet`, so they are operators over the ledger record
and the run evaluates them in every state the ledger reaches.  Each output
pays to an address (`AddrOf`); `AddrBook` is `mapAddressBook`.

| Definition | Code |
|---|---|
| `IsChange(t, n)` | `CWallet::IsChange`: ours and not in the address book. |
| `RecordGroupings(l, t)`, `RawGroupings(l)` | The first loop: when `vin[0]` is ours, the addresses of the inputs that are ours and, if there are any, the change addresses, as one grouping; then each address the record pays to us alone. |
| `MergeStep(acc, g)` | One pass of the merge loop: the groups `setmap` shows `g` hits are erased from `uniqueGroupings` and merged with `g`; `setmap` sends every element of the merged group to it. |
| `SetOrder`, `LexLess`, `AddrLess` | The iteration order of `set< set<CTxDestination> >`: lexicographic over the sorted elements, with `AddrOrder` standing for `CTxDestination`'s `operator<`. |
| `GetAddressGroupings(l)` | The merge folded over the groupings in that order. |

`GroupingsAreComponents` compares the result with the connected components
(`Graphs!ConnectionsIn`) of the graph linking two addresses that share a
grouping.  The scenario's addresses: `G` pays `p`, `q`, `r` (all in the
address book); `A` and `B` pay an outside address and change `c1`, `c2`;
the coinstake `S` pays back to `q`.  So `A`, `B` and `S` each link groups,
and `B`, spending `c1` and `r`, merges two groups that were built apart.

### CoinSelection (`CoinSelection.tla`, instantiated by `MCWalletQueries.tla`)

The selection routines are pure functions of the candidate outputs, so
they are operators.  Every random choice of the code is nondeterminism,
and each operator yields the **set** of results the code can return:

| Operator | Code |
|---|---|
| `ApproximateBestSubsetStep`, `...Pass`, `...Trial`, `...Trials`, `ApproximateBestSubset` | `ApproximateBestSubset`: one inclusion decision of a pass (`rng.randbool()` in the first pass, forced in the second), the copy to `vfBest` when a better total is reached, the `nTotal -= ...; vfIncluded[i] = false` undo. `Iterations` trials stand for the 1000. |
| `MinConfScanStep`, `SelectCoinsMinConfFrom`, `SelectCoinsMinConf` | `SelectCoinsMinConf`: the scan of a shuffled candidate list (exact match returns at once, smaller coins collect in `vValue`, the lowest larger coin is kept), then the solver on `vValue` against the target and target + `CENT`, then the choice between the lowest larger coin and the solver's set. All shuffles are `SetToSeqs(Coin)`; sort ties are all the descending orders. |
| `SelectSmallestCoinsFrom`, `SelectSmallestCoins` | `SelectSmallestCoins`, used for transactions with a contract. |
| `Attempts`, `SelectPolicy`, `SelectCoinsFrom` | `SelectCoins`: the attempts (1, 10), (1, 1), (0, 1) in order. |

`SelectCoins` is the one action: it picks one possible result for the wallet
and target that `Init` chose.  `Init` enumerates every wallet of three
candidate outputs with values in {1, 2, 3, 5}, depths 0, 1 and 10 (the
thresholds of the three attempts) and either origin.  The targets lie on both
sides of every coin and every sum.  `CENT = 2`, so that a coin can fall
strictly between the target and target + `CENT`.  Two trials are enough to
exercise both the copy into `vfBest` and the undo.  More trials only make an
exact subset more likely to be drawn; they do not change which results are
possible.

### StakeSelection (`StakeSelection.tla`, instantiated by `MCWalletQueries.tla`)

`AvailableCoinsForStaking` (`Counted`, `Mature`, `BalanceOut`,
`AvailableCoinsForStaking`) and `SelectCoinsForStaking`
(`SelectCoinsForStakingResult`, a `CASE` over its reason codes).  A wallet
record has one output of ours with its value, depth, coinstake flag, origin,
dependency status and age against `nStakeMinAge`.  The bounds are:
- two records;
- values {1, 2, 4};
- depths {0, 1, 3, 13}, which lie on each side of `nCoinbaseMaturity = 3`
  and of `nCoinbaseMaturity + 10`;
- reserves {0, 2, 5};
- `nMinimumInputValue = 2`.

### WalletAmounts (`WalletAmounts.tla`, instantiated by `MCWalletQueries.tla`)

`CWalletTx::GetAmounts` (wallet.cpp 819-981) lists one wallet record as
received and sent entries and a fee; `listtransactions` and the account
balances are built on it.  It only reads, so the model has one action,
`ListAmounts`, from a record `Init` picks (`Record`) to the listing
(`GetAmounts`).  An output is its value, whether it is ours (`IsMine`) and
whether its address is in the address book (so `IsChange` is "ours and
unlabelled", wallet.cpp 660-678); the inputs are `GetDebit(filter)`.
`GetAmountsStep` is one pass of the loop over `vout` with its `continue`
tests and the send, coinstake roll-up, receive and self-transaction
branches in the code's order; `GetAmounts` folds it over the outputs and
computes the fee for non-coinstake sends.  Destinations and log lines are
left out.  `Record` follows the comment at line 848: a coinstake's output 1
has the owner of its input.

**Property.** `AmountsNetToBalanceChange`: received less sent less fee is the
value of the record's outputs that are ours less `nDebit`, across all the
branches.

**Bounds.** Up to three outputs of value 0, 1 or 3, `nDebit` 0 or 2, every
ownership and labelling: every branch (side-stakes, change, self-transaction,
roll-up) is reached with outputs before and after it.

### SupportingTransactions (`SupportingTransactions.tla`, instantiated by `MCWalletQueries.tla`)

`CWalletTx::AddSupportingTransactions` (wallet.cpp 1018-1077) fills the new
transaction's `vtxPrev` from a work queue seeded with its inputs: each hash
is looked up in `mapWallet`, in `mapWalletPrev` (the `vtxPrev` copies of the
records already dequeued), then in the transaction index (`OnDisk`: depth
above 0); a found one is appended and, below `COPY_DEPTH`, its inputs are
queued.  `Collect` is the loop, with `setAlreadyDone`; the result is reversed.
`RelayWalletTransaction` (1179-1200) relays the entries that are not
coinstakes and not in the index, then the transaction.  The transaction graph
is a constant (five transactions with a diamond and a coinstake); `Init`
picks what the wallet holds, consistent depths, the records' `vtxPrev` copies
(subsets of their ancestors) and the input order.

**Property.** `SupportingClosure`: `vtxPrev` holds each transaction once,
only ancestors reached through transactions below `COPY_DEPTH`, and every
such ancestor reached through known transactions, whatever the queue order
and whichever copies `mapWalletPrev` has picked up.

**Bounds.** Depths 0, 1 and 3 (below and at `COPY_DEPTH`); a diamond so that
a hash is queued twice, and a parent reachable only through a copy.

### WalletDump (`WalletDump.tla`, instantiated by `MCWalletState.tla` and `MCWalletDump.tla`)

`dumpwallet` (wallet.cpp 3499-3587) writes a line for every key the wallet
holds, tagged (`DumpTag`) `label=<name>` when the key has an address book
entry, else `hdmaster=1` for the HD seed, else `reserve=1` for a key of the
pool (`GetAllReserveKeys`, 2853-2872), else `change=1`.  `importwallet`
(3342-3451) skips a key the wallet holds (`HaveKey`), reads the tokens up to
the `# addr=` comment (`ParseTag`: `fLabel` starts TRUE, `change=1` and
`reserve=1` clear it, `label=` sets the name), adds the key (`AddKey` may fail:
the key is skipped, the call goes on and throws at the end), and calls
`SetAddressBookName` when `fLabel` holds (`BookAfter`).  `ImportWallet` can
run again on the same file.  The dumped wallet (`src*`) and the restoring
wallet (`dst*`) are chosen by `Init` over every assignment of keys, names,
pool and seed; `dstKeys0` and `dstBook0` remember the restoring wallet before
the first import.  Names are model values, because `DumpStringRoundTrip`
already shows that the escaping round-trips every name.  The line order (by
birth time) is left out, because what import does with a line does not
depend on the other lines.

**Property.** `ImportRestoresBook`: after an import, every dumped key is held
(when no `AddKey` failed), every key the import added has its dumped name,
or the restoring wallet's own entry if it had no name in the dump, and keys
already held keep their entries.

**Bounds.** Three keys and the names `""` and `L1`, every pool and book,
failed subsets of `AddKey`.  `state_pass` dumps pre-HD wallets.
`import_hdmaster` (`MCWalletDump`) dumps HD wallets, where the property fails.

### KeyPool (`KeyPool.tla`, `KeyPoolLocking.tla`, instantiated by `MCWalletState.tla` and `MCKeyPool.tla`)

**State.**

| Variable | Code |
|---|---|
| `setKeyPool` | `CWallet::setKeyPool` |
| `pooldb` | the `pool` records of the wallet file (`WritePool`, `ReadPool`, `ErasePool`), index to key |
| `nextKey` | the next key `GenerateNewKey` makes (keys are numbers) |
| `locked` | `IsLocked()` |
| `rkIndex[p]`, `rkKey[p]` | `nIndex` and `vchPubKey` of the `CReserveKey` of thread `p` |
| `used` | keys handed out for good: kept change keys and default keys |
| `vchDefaultKey` | `CWallet::vchDefaultKey` |

**Operators and actions.**

| Definition | What it models |
|---|---|
| `TopUpKeyPool` | The top-up loop. It writes a new key at `nEnd = 1 + last index`, or at 1 when the pool is empty. |
| `ReserveKeyFromKeyPool` | Top up unless locked, take the smallest index, read its record. A missing record throws after the index has left the pool. |
| `GetReservedKey(p)` | `CReserveKey::GetReservedKey`: reserve, or fall back to `vchDefaultKey`. |
| `KeepKey(p)` | `CReserveKey::KeepKey` from `CommitTransaction`: `ErasePool(nIndex)`. |
| `ReturnKey(p)` | `CReserveKey::ReturnKey`: the index goes back to `setKeyPool`. This covers `CreateTransaction` without change, and `GetOldestKeyPoolTime` (a reservation followed by a return). |
| `ReplaceDefaultKey` | `AddToWallet` replacing a used default key with `GetKeyFromPool(key, false)`. |
| `RefillKeyPool` | `TopUpKeyPool` on its own (keypoolrefill). |
| `NewKeyPool` | `NewKeyPool`: erase the pool records, clear the pool, and unless locked write keys at 1..n. The constant `NewKeyPoolWhileReserved` says whether it may run while a reservation is held (`EncryptWallet` during a send) or only when none is (`UpgradeWallet` at start-up). |
| `WalletLock`, `WalletUnlock` (`KeyPoolLocking`) | `Lock()` and `CWallet::Unlock`, which does not top up. |

Every `CWallet` operation holds `cs_wallet`, so each is one step.  A
`CReserveKey` is held from `CreateTransaction` to `CommitTransaction`
across lock scopes, which is where threads interleave.

**Bounds.** There are two threads (a send and a second send or
`GetOldestKeyPoolTime`) and `-keypool=1` (two keys kept).  The state
constraint `KeyBound` allows at most 9 generated keys, enough for a pool to
drain and be refilled several times.  The threads are a symmetry set.

### Serialize (`Serialize.tla`, instantiated by `MCBuildAndEncode.tla`)

The integer encodings of `serialize.h` are operators, and a step is one call
of the wrapper classes: `SerializeVarInt` and `UnserializeVarInt` are
`CVarInt`, `SerializeCompactSize` and `UnserializeCompactSize` are
`CCompactSize`.  A stream is a sequence of bytes.  A read past its end fails,
as the stream's `read` throws.

- **VarInt.**
  - `WriteVarIntTmp` is the first loop of `WriteVarInt`, which fills `tmp`.
    `WriteVarInt` writes `tmp` backwards.
  - `GetSizeOfVarInt` and `ReadVarIntFrom` follow their loops step by step.
    `& 0x7F` becomes `% 128` and `>> 7` becomes `\div 128`, and every
    assignment to `I` is taken modulo `2^W`.
  - The template is generic in the width of `I`.  The run takes `W = 16` and
    writes every value.  It reads every stream of up to 4 bytes (one past the
    longest encoding) over bytes on each side of the 0x7F/0x80 boundaries,
    plus 0x82 and 0x83, with which three digits reach 2^16 - 1 and 2^16.
  - `VarIntValue` is the reference: the formula in the comment above
    `WriteVarInt`.
- **CompactSize.**
  - A `uint64_t` is its 8 bytes, least significant first, as
    `ser_writedata64` lays it out.  Comparisons compare these sequences.
    This keeps 2^32 and 2^64 - 1 within TLC's integers.
  - The sizes written lie on each side of 253, 2^16, `MAX_SIZE`, 2^32 and
    2^64 - 1.
  - The streams read are every marker byte followed by the first 0, 1, 2, 4
    or 8 bytes of one of these sizes.

### DumpString (`DumpString.tla`, instantiated with Serialize by `MCBuildAndEncode.tla`)

`dumpwallet` writes each key's label through `EncodeDumpString`, and
`importwallet` reads it back through `DecodeDumpString` (wallet.cpp
3226-3250).  Both are operators over byte sequences, and `Encode` and
`Decode` are the calls, in the call/result style of `Serialize`.
`MCBuildAndEncode` extends `Serialize` and instantiates `DumpString` over the
same `call` and `ret` (`MCSpec`), so one run explores every call of either.

- `EncodeDumpString` escapes every byte `<= 32`, `>= 128` and `%` as `%`
  followed by `HexStr`'s two lowercase digits.
- `DecodeDumpString` follows the loop. It decodes a `%` only when two bytes
  follow it. Each digit is `(ch >> 6) * 9 + ((ch - '0') & 15)` on the signed
  `char` (`SignedChar`, with an arithmetic shift). The result is truncated to
  the `unsigned char`.
- The run passes every string of up to three bytes. The bytes are drawn from
  controls, newline, space, `!`, `%`, the ends of `0-9` and `a-f`, DEL and
  three bytes `>= 128`.

### KeyVault (`KeyVault.tla`, abstract `VaultState.tla`, instantiated by `MCWalletState.tla` and `MCKeyVault.tla`)

A key is `<<"r", n, 0>>` (the n-th random key, `MakeNewKey`) or
`<<"hd", s, i>>` (child `m/0'/0'/i'` of the seed `<<"r", s, 0>>`).  The file
is modelled by what matters for the properties: for each key, whether its
record is plaintext (`key`) or encrypted (`ckey`), and which plaintexts remain
in free pages until `CDB::Rewrite`.

**State.**

| Variable | Code |
|---|---|
| `useCrypto` | `IsCrypted()` |
| `unlocked` | `vMasterKey` held in memory, so `IsLocked() = useCrypto /\ ~unlocked` |
| `mapMasterKeys` | `CWallet::mapMasterKeys`: master key id to the passphrase that wraps it |
| `keys` | the keys the key store holds (`HaveKey`) |
| `disk` | the `key`/`ckey` record of each key in the wallet file |
| `slack` | keys whose plaintext survives in free pages after their `key` record was replaced |
| `everPlain` | history: keys ever written in plaintext |
| `hdSeed`, `hdCounter` | `hdChain.masterKeyID`, `hdChain.nExternalChainCounter` |
| `nextRand` | the next random key |
| `generated` | the keys `GenerateNewKey` returned in the last step |

**Operators and actions.**

| Definition | What it models |
|---|---|
| `AddKeyTo` | `CWallet::AddKey`: `WriteKey` writes plaintext when unencrypted. On an encrypted store, `CCryptoKeyStore::AddKey` calls `AddCryptedKey`, which writes `ckey`. |
| `NextChild`, `GenerateNewKeyIn` | `GenerateNewKey`: the `do ... while (HaveKey)` derivation, then the `hdChain` write and `AddKey`.  Without HD, a random key. |
| `NewHDSeed` | `GenerateNewHDMasterKey` and `SetHDMasterKey`: a random key becomes the seed, counter 0. |
| `NewKeyPoolKeys` | the key generation of `NewKeyPool`. |
| `GenerateNewKey` | a call from `TopUpKeyPool` or `GetKeyFromPool`, which check that the wallet is not locked. |
| `ImportKey(k)` | `AddKey` of a key from outside (`importprivkey`); the import set contains two children of the first seed that lie ahead of its counter. |
| `UpgradeWalletToHD` | `UpgradeWallet`: new seed and `NewKeyPool` for a pre-HD wallet. |
| `EncryptWallet(p)` | all of `EncryptWallet`.  Master key, `EncryptKeys` in one transaction, `Lock`, `Unlock`, a new HD seed, `NewKeyPool`, `Lock`, `Rewrite`.  Both `exit(1)` paths abort the transaction first, so a restart finds the state of before the call. |
| `CrashInEncryptWallet(p)` | the process dies after `TxnCommit` (line 373) and before `CDB::Rewrite` (396): the file holds the master key and the encrypted keys, and a prefix of the later writes (the new seed, the pool keys); the restart loads it encrypted and locked.  Only in `SpecWithCrash` (`NextWithCrash`), the spec of `keyvault_encrypt_crash`. |
| `Unlock(p)`, `Lock` | `CWallet::Unlock` (the loop stops at the first master key), `CCryptoKeyStore::Lock`. |
| `ChangeWalletPassphrase(o, n)` | the whole function: `fWasLocked`, `Lock()`, the check of the old passphrase, rewrap, re-lock if it was locked. |

`VaultState` is the state machine of spec.md 4.1: `Unencrypted -> Locked <->
Unlocked`, with a passphrase.  `KeyVault` maps onto it through
`VaultStateOf` and `PassphraseOf` (`Abstract == INSTANCE VaultState WITH
...`).  `VaultStateMachine == Abstract!Spec` is checked as a property.

**Bounds.** The run covers an HD wallet and a pre-HD wallet, each with one pool key, and two
passphrases (a symmetry set).  Two imported children of the first seed lie
ahead of its counter.  At most 4 random keys and HD index 4 are allowed
(`KeyBound`).  That is enough for an import ahead of the counter followed by
a generation that must skip it, an HD upgrade before or after
encryption, and every order of unlock, lock and passphrase change with right
and wrong passphrases.

### TransactionBuilder (`TransactionBuilder.tla`, instantiated by `MCBuildAndEncode.tla`)

`CWallet::CreateTransaction` (wallet.cpp 1883-2170) runs under
`LOCK2(cs_main, cs_wallet)`, so nothing interleaves with it; one pass of its
`while (true)` is the single action `Iterate`.  The inputs of the call are
chosen in `Init`: the coins (`CoinSelection`'s records), the kind of
transaction (plain, contract: smallest coins first, message: a burn output),
the payment, the caller's coin set (`setCoins_in`, empty or not), whether
coin control sets `destChange`, `change_back_to_input_address`, and whether
`GetReservedKey` can find a key.

| Variable | Code |
|---|---|
| `nFeeRet` | `nFeeRet`, starts at `nTransactionFee` (line 1920) |
| `status` | `building` inside the loop, `done` at `break`, the error returned otherwise |
| `vin`, `nChange`, `changeDest` | `wtxNew.vin`, the change of the last pass, the change script |
| `reserved` | the `CReserveKey` holds a key (`GetReservedKey` / `ReturnKey`) |

`Iterate` does what one pass does, in order: `SelectCoins(nValueOut +
nFeeRet)` with every result `CoinSelection` allows (`Selections`), or the sum
of the caller's coins; the "inputs cannot cover the fees" error;
`ChangeAndFee` (the change and the sub-CENT move of up to `GetBaseFee -
nFeeRet` into the fee); `ChangeDestination` and the reservation
(`ReservationAfter`: reserve a new key, or `ReturnKey` when there is no
change), with "keypool ran out" as an error; the size limit; and the fee test,
which either ends the loop or sets `nFeeRet = max(nPayFee, nMinFee)`
(`RaisedFee`) and goes round again.  `GetMinFee` and the serialized size are
outside `src/` and modelled from their definition: the base fee per started
kB, and a fixed size per input and per output.

**Properties.** `FundsBalance`: a built transaction's inputs pay exactly the
payee, the burn, the change and `nFeeRet`.  `FeeCoversSize`: `nFeeRet`
covers `nPayFee` and `GetMinFee` of the final size.  `ChangeKeyKept`: the
key that `CommitTransaction` keeps is reserved exactly when the change goes
to a new key; a pass that reserved one and a later pass with no change must
return it.  `BuildTerminates`: the loop ends.

**Bounds.** Two coins of value 1, 2, 4 or 6 (a symmetry set), payments 1 and
3, a burn of 1, `CENT = 4`, `nTransactionFee = 1` below `GetBaseFee = 3`, 4
bytes to the "kB" and a size limit of 5.  With these a first pass always
raises the fee, a second pass re-selects with a larger target (more inputs,
or no change left), sub-CENT change is moved to the fee in whole and in
part, and every error return is reached.

### Runs that combine several parts

`MCWalletQueries`, `MCWalletState` and `MCBuildAndEncode` each check several parts in one
run.  A variable (`call`, `part`) chosen in the initial state says which part
runs; the other parts' variables stay at a fixed value.  `MCWalletQueries`
extends `CoinSelection` and instantiates `StakeSelection` (sharing
`mapWallet` with `SupportingTransactions`, under renamed variables),
`WalletAmounts` and `SupportingTransactions`; `MCWalletState` extends `KeyVault` (an HD and a pre-HD wallet) and
`LedgerScenario`, and instantiates `KeyPoolLocking` (the key pool with
`KeyVault`'s `Init` and no HD seed), `WalletAddresses` (the ledger, whose
idle state is the genesis chain with nothing of it ours) and `WalletDump`; `MCBuildAndEncode` extends `Serialize`, instantiates `DumpString`
over the same call and result, and instantiates `TransactionBuilder`.  The
symmetry set is the product of the parts' permutations.  The parts
do not interact in these runs; it is a way of asking both questions in one
model.

## 4. Runs

| Run | Properties | Expect | What it shows |
|---|---|---|---|
| `ledger_double_spend` | `NoLocalDoubleSpend` | violation | Under `SpecSerialSends` (`MCWalletLedger`): one send at a time and no crash inside `CommitTransaction`, so neither the lock gap nor the crash window is involved. Commit `A`, commit `B` (spends `A`'s change), `A` confirms, commit `C`. `WalletUpdateSpent(A, fBlock=true)` marks `A`'s change unspent although `B` spends it, so `C` is built on the same coin. `CommitTransaction` keeps `C` even though the pool rejects it. Seven steps, 200 distinct states. |
| `ledger_lost_coin` | `SpentBacked` | violation | Commit `A`, commit `B`, `X` confirms (evicting `A` and `B`), then `ResendWalletTransactions` erases `B`. `G:2` stays marked spent with no transaction consuming it. The coin is gone from the balance until `FixSpentCoins` is run by hand. |
| `queries_pass` | `SelectionSufficient`, `ExactCoinChosen`, `StakeCoinsEligible`, `AmountsNetToBalanceChange`, `SupportingClosure` | pass | For every wallet of three coins, every target and every outcome of the shuffles and trials, `SelectCoins` succeeds exactly when the eligible coins cover the target, returns eligible coins worth enough, and the exact coin when there is one. For every wallet of two staking records and every reserve, the staker gets only mature, old-enough outputs of at least `nMinimumInputValue`, and gets some exactly when no reason code is set. For every record of up to three outputs, `GetAmounts` lists entries and a fee that net to the balance change of the record. For every wallet, depth assignment, `vtxPrev` copies and input order, `AddSupportingTransactions` collects exactly the shallow known ancestors, once each. 66635 distinct states, under two minutes. |
| `state_pass` | `TypeOK`, `NoPlaintextAtRest`, `SeedNeverPlain`, `PoolTypeOK`, `PoolRecordsExist`, `KeyHandedOnce`, `LedgerTypeOK`, `ChainSpentMarked`, `GroupingsAreComponents`, `ImportRestoresBook`, `NewKeysFresh`, `VaultStateMachine` | pass | Vault: whatever the order of key generation, imports, HD upgrade, encryption, unlock, lock and passphrase changes, an encrypted wallet's file holds no plaintext key, in records or in slack; its HD seed was never written in plaintext; `GenerateNewKey` never returns a key already held; the encryption state implements `VaultState`. Key pool: in an unencrypted wallet with `NewKeyPool` only at start-up, reservations, keeps, returns, default-key replacements and refills by two threads never hand a key out twice and never leave a pool index without its record. Ledger: Whatever the order of sends (created, abandoned, committed, or interrupted by a crash), blocks, relays, orphaned stakes, repairs, erasures, rescans and restarts, every coin of ours that the best chain spends is marked spent, and `GetAddressGroupings` returns exactly the connected components of the linked addresses. Dump: for every pre-HD wallet of up to three keys and every wallet it is restored into, `importwallet` of its dump, run again after failed `AddKey`s, gives every added key its dumped name, adds no entry for change and pool keys, and leaves the entries of keys already held alone. 136635 distinct states in all, under a minute and a half. |
| `keypool_locked` | `KeyHandedOnce` | violation | `t1` reserves the only key while the wallet is locked, so the pool is empty. After unlock, `t2`'s top-up writes index 1 again with a new key and `t2` takes index 1. `t1` returns index 1, and `t1` reserves again: both threads hold the same key. |
| `keypool_newpool` | `PoolRecordsExist` | violation | An unencrypted wallet in which `NewKeyPool` may run while a reservation is held (`EncryptWallet` while a send waits between `CreateTransaction` and `CommitTransaction`): `t1` reserves index 1, `NewKeyPool` writes a new key at index 1, `t1`'s `KeepKey` erases pool record 1 while 1 stays in `setKeyPool`. The next reservation of index 1 throws "read failed". |
| `build_encode_pass` | `VarIntRoundTrip`, `VarIntReadExact`, `CompactSizeRoundTrip`, `CompactSizeCanonical`, `DumpStringRoundTrip`, `BuildTypeOK`, `FundsBalance`, `FeeCoversSize`, `ChangeKeyKept`, `BuildTerminates` | pass | For every wallet of two coins, payment, transaction kind, caller's coin set and change option, the fee loop ends. A built transaction balances, pays the fee its final size needs, and leaves a key reserved exactly when its change goes to a new key. Every 16-bit VarInt is written within `tmp` in `GetSizeOfVarInt` bytes and read back. Every stream read decodes to the comment's value or is refused only when no value of `I` fits. CompactSize round-trips up to `MAX_SIZE`, refuses larger sizes, and accepts only the canonical encoding. Every dump label of up to three bytes is escaped into printable ASCII with no spaces, then decoded back unchanged. 179932 distinct states, under a minute and a half. |
| `keyvault_passchange` | `PassphraseChangeKeepsLockState` | violation | Encrypt, unlock with the right passphrase, then `ChangeWalletPassphrase` with a wrong old passphrase. The `Lock()` at its start is never undone, so the unlocked wallet ends locked (a staking wallet stops staking). The spec lists `ChangeWalletPassphrase` first so that TLC names it in the trace: the same step is also a `Lock`. |
| `ledger_send_race` | `CommitSpendsUnspent` | violation | The wallet alone (`MCTxLocal`): create and commit `A`; create `C` and `B`, both on `A`'s change; commit `B`; commit `C`. `C` is recorded spending a coin `B` already marked spent, because `SendMoney` releases the locks between `CreateTransaction` and `CommitTransaction` and the commit does not check again. With `X` in the scenario, a relayed conflict between create and commit does the same in three steps. |
| `import_hdmaster` | `ImportRestoresBook` | violation | Dump an HD wallet whose seed key has no address book entry: its line is tagged `hdmaster=1`. `importwallet` into a wallet without that key leaves `fLabel` set for this tag (only `change=1` and `reserve=1` clear it) and calls `SetAddressBookName(seed, "")`. The restored wallet lists its seed as a receiving address named "". Three steps; `MCWalletDump`, three keys, 113078 states to the violation. |
| `keyvault_encrypt_crash` | `SeedNeverPlain` | violation | `SpecWithCrash` (`MCKeyVault`, the bounds of the vault part of `state_pass`). A new HD wallet is encrypted and the process dies right after `TxnCommit`. The file loads as an encrypted wallet whose HD seed is the one written in plaintext at creation, and no later call replaces a seed that exists. One step, 32 distinct states. A crash after the new seed is written and before `CDB::Rewrite` breaks `NoPlaintextAtRest` instead (plaintext in slack). |
| `ledger_commit_crash` | `SentInputsMarked` | violation | Create `A`, then crash inside its commit after `AddToWallet`. After restart `A` is in the wallet, re-submitted to the pool, and `G:0` is not marked spent: `AvailableCoins` offers it again. |

The ledger scenario is small, but every ledger path above is three to five steps of
different actors. `state_pass` explores every interleaving of all thirteen
actions to depth 14, the point where no new state appears.

## 5. Fairness

Only `build_encode_pass` checks a liveness property, `BuildTerminates`.  It
assumes weak fairness of one pass of the loop alone (`WF_allvars(BuildStep)`
in `MCBuildAndEncode!MCSpec`, as `WF_vars(Iterate)` in
`TransactionBuilder!Spec`): `CreateTransaction` is one thread running its
loop to completion under `cs_main` and `cs_wallet`, and nothing else can take
a step of it.  The other runs check safety and assume no fairness.

## 6. Not modelled

- `rpcmining.cpp` formats and forwards RPC calls; it has no state of its own.
- `gridcoin/voting/registry.h` has declarations only; their bodies are not in
  `src/`.
- `qt/locale/bitcoin_it.ts` is translation data.
- The `script.h` part of `wallet.cpp` consists of declarations and
  script-construction helpers.
- The `return false` of `EncryptWallet` when `TxnBegin` fails (line 357),
  an I/O error path.  It leaves the new master key in `mapMasterKeys` in
  memory only (it is not written), so an `Unlock` later in the same session
  tries that key first and returns false.  A restart clears it.  The model's
  `mapMasterKeys` holds at most the one key that `EncryptWallet` writes.
- The crash window inside `EncryptWallet` is left out of `state_pass`
  (`Spec` has no crash step), because `NoPlaintextAtRest` and
  `SeedNeverPlain` fail there, as `keyvault_encrypt_crash` shows.
- The split of `ResendWalletTransactions` into its check under `cs_wallet`
  and its erase after the lock: in the scenario a record that fails
  `RevalidateTransaction` can become valid again only through a restart,
  which also ends the pending erase, so the split would show nothing.
- Spec section 4.5 says sub-CENT change is folded entirely into the fee.
  `CreateTransaction` moves it only while `nFeeRet < GetBaseFee`, so once a
  pass has raised the fee a change output below `CENT` is emitted.  The model
  reaches such transactions; no run checks the spec's wording.
- Signing in `CreateTransaction` (the inputs are ours and the wallet is
  unlocked) and the random position of the change output.
- Key metadata, `nTimeFirstKey`, `SetMinVersion` and the calibration of
  `nDeriveIterations` change no state that a property reads.
- Display and formatting helpers are left out (`GetGeneratedType`,
  `FormatMoney`, the dumpwallet text layout, the destinations and log lines
  of `GetAmounts`).
- The birth times of `dumpwallet` (`GetKeyBirthTimes`, the sort,
  `nCreateTime`) and the rescan window of `importwallet` (`nTimeBegin`,
  `nTimeFirstKey`, the walk back to 7200 s before the earliest key).  They
  are only correct given how far block timestamps may lag, which is a
  consensus rule outside `src/`.
- Two things the models reach that are not listed as hazards: the reversed `vtxPrev`
  relays a child before its parent when one input spends another (whether a
  peer drops it depends on the orphan handling in `main.cpp`, not in
  `src/`), and `GetAmounts` counts a coinstake twice if its output 1 is ours
  and its input is not (excluded in `Record` by the comment at line 848).
