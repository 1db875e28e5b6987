------------------------------ MODULE WalletDump ------------------------------
(***************************************************************************)
(* dumpwallet and importwallet, src/wallet/wallet.cpp: the backup of a     *)
(* wallet's keys as a text file, and its restore into a wallet.            *)
(*                                                                         *)
(* dumpwallet writes one line per key the wallet holds: the secret, the    *)
(* birth time, then one tag: label=<name> for a key with an address book   *)
(* entry, else hdmaster=1 for the HD seed, else reserve=1 for a key of the *)
(* key pool, else change=1; then a comment "# addr=...".  importwallet     *)
(* reads the lines back under cs_main and cs_wallet: it skips a key the    *)
(* wallet already holds, reads the tags up to the comment, adds the key,   *)
(* and gives it an address book entry unless the tags said change=1 or     *)
(* reserve=1.  Each call holds the locks throughout, so each is one step.  *)
(*                                                                         *)
(* Abstractions.  A name is a model value: EncodeDumpString and            *)
(* DecodeDumpString round-trip every name (DumpStringRoundTrip, module      *)
(* DumpString), so the label= token carries the name unchanged.  The       *)
(* lines form a set: each key has one line, and what importwallet does     *)
(* with a line does not depend on the others, so the birth-time order of  *)
(* the file (GetKeyBirthTimes and the sort) changes nothing modelled.  The *)
(* birth times, nTimeFirstKey and the rescan window are left out (see the  *)
(* README).  AddKey may fail on a write error; the failed keys are chosen  *)
(* nondeterministically.                                                   *)
(***************************************************************************)
CONSTANTS
  Keys,      \* key ids (CKeyID)
  Labels,    \* address book names
  Empty,     \* the name "": strLabel before a label= token sets it
  NoLabel,   \* no mapAddressBook entry
  NoKey,     \* a null hdChain.masterKeyID
  HDSource   \* subset of BOOLEAN: the dumped wallet has an HD seed (TRUE) or not

ASSUME /\ Empty \in Labels /\ NoLabel \notin Labels
       /\ NoKey \notin Keys /\ HDSource \subseteq BOOLEAN

Book == [Keys -> Labels \cup {NoLabel}]

VARIABLES
  srcKeys,    \* the dumped wallet: the keys it holds (GetKeys)
  srcBook,    \*   its mapAddressBook
  srcPool,    \*   the keys of its key pool records (setKeyPool)
  srcMaster,  \*   its hdChain.masterKeyID
  dstKeys,    \* the wallet importwallet runs on: the keys it holds
  dstBook,    \*   its mapAddressBook
  dstKeys0,   \* (history) dstKeys and dstBook before importwallet
  dstBook0,
  file,       \* the key lines of the dump: key -> tag
  dumped,     \* dumpwallet has written the file
  imported,   \* importwallet has returned (at least once)
  fGood,      \* the last importwallet: every AddKey succeeded
  found_hd_seed \* the last importwallet: a line tagged hdmaster=1 was imported

vars == <<srcKeys, srcBook, srcPool, srcMaster, dstKeys, dstBook, dstKeys0,
          dstBook0, file, dumped, imported, fGood, found_hd_seed>>

-----------------------------------------------------------------------------
\* GetAllReserveKeys: the key ids of the pool records
GetAllReserveKeys == srcPool

\* the tag dumpwallet writes for key k: the if / else if chain of the loop
DumpTag(k, setKeyPool) ==
  CASE srcBook[k] # NoLabel -> [kind |-> "label", name |-> srcBook[k]]
    [] k = srcMaster        -> [kind |-> "hdmaster", name |-> NoLabel]
    [] k \in setKeyPool     -> [kind |-> "reserve", name |-> NoLabel]
    [] OTHER                -> [kind |-> "change", name |-> NoLabel]

\* the loop over the tokens after the time: fLabel starts TRUE, change=1
\* and reserve=1 clear it, label= sets strLabel and fLabel again
ParseTagNoReserve(tag) ==
  [fLabel   |-> tag.kind # "change",
   strLabel |-> IF tag.kind = "label" THEN tag.name ELSE Empty]

ParseTag(tag) ==
  [fLabel   |-> tag.kind \notin {"change", "reserve"},
   strLabel |-> IF tag.kind = "label" THEN tag.name ELSE Empty]

\* SetAddressBookName(keyid, strLabel) for each key added with fLabel
BookAfter(added) ==
  [k \in Keys |-> IF k \in added /\ ParseTag(file[k]).fLabel
                  THEN ParseTag(file[k]).strLabel ELSE dstBook[k]]

-----------------------------------------------------------------------------
Init ==
  /\ srcKeys \in SUBSET Keys
  /\ srcBook \in Book
  /\ srcPool \in SUBSET srcKeys
  /\ srcMaster \in {m \in srcKeys \cup {NoKey} : (m # NoKey) \in HDSource}
  /\ dstKeys \in SUBSET Keys
  /\ dstBook \in Book
  /\ dstKeys0 = dstKeys
  /\ dstBook0 = dstBook
  /\ file = [k \in {} |-> NoLabel]
  /\ dumped = FALSE
  /\ imported = FALSE
  /\ fGood = TRUE
  /\ found_hd_seed = FALSE

\* dumpwallet: a line for each key GetKey finds, tagged from the address
\* book, the HD chain and the pool read under the locks
DumpWallet ==
  /\ ~dumped
  /\ file' = [k \in srcKeys |-> DumpTag(k, GetAllReserveKeys)]
  /\ dumped' = TRUE
  /\ UNCHANGED <<srcKeys, srcBook, srcPool, srcMaster, dstKeys, dstBook,
                 dstKeys0, dstBook0, imported, fGood, found_hd_seed>>

\* importwallet: the lines of keys not held are parsed; AddKey fails for
\* the keys of failed, which are skipped; the others are added and named.
\* The user may run it again on the same file, e.g. after "Error adding
\* some keys to wallet".
ImportWallet ==
  /\ dumped
  /\ LET new == DOMAIN file \ dstKeys IN
     \E failed \in SUBSET new :
       /\ dstKeys' = dstKeys \cup (new \ failed)
       /\ dstBook' = BookAfter(new \ failed)
       /\ fGood' = (failed = {})
       /\ found_hd_seed' = \E k \in new : file[k].kind = "hdmaster"
  /\ imported' = TRUE
  /\ UNCHANGED <<srcKeys, srcBook, srcPool, srcMaster, dstKeys0, dstBook0,
                 file, dumped>>

Next == DumpWallet \/ ImportWallet

Spec == Init /\ [][Next]_vars

-----------------------------------------------------------------------------
\* A restore from a dump gives back what the dump was taken from: once
\* importwallet has returned without error, every dumped key is held, and
\* every key it added has the address book entry it had in the dumped
\* wallet, or, when it had none there, the entry (or absence of one) the
\* restoring wallet had; keys the restoring wallet already held keep their
\* entries.  The dump tags, the token loop of importwallet and the
\* AddKey / HaveKey paths must agree for this.
ImportRestoresBook ==
  imported =>
    /\ fGood => srcKeys \subseteq dstKeys
    /\ \A k \in Keys :
         dstBook[k] = IF k \in dstKeys \ dstKeys0 /\ srcBook[k] # NoLabel
                      THEN srcBook[k] ELSE dstBook0[k]
====
