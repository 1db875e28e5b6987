----------------------------- MODULE VaultState -----------------------------
(***************************************************************************)
(* What the key vault promises about its encryption state (spec.md 4.1,    *)
(* "State machine"): Unencrypted -(encrypt)-> Locked <-(unlock/lock)->     *)
(* Unlocked, with no way back to Unencrypted.  Unlocking takes the         *)
(* passphrase the vault was encrypted with, and changing the passphrase    *)
(* takes the current one.  KeyVault is checked to implement this module.   *)
(***************************************************************************)
CONSTANTS
  Pass,    \* the passphrases a user may type
  NoPass   \* no passphrase: the vault is not encrypted

VARIABLES
  state,       \* "Unencrypted", "Locked" or "Unlocked"
  passphrase   \* the passphrase that unlocks the vault

avars == <<state, passphrase>>

Init ==
  /\ state = "Unencrypted"
  /\ passphrase = NoPass

Encrypt(p) ==
  /\ state = "Unencrypted"
  /\ state' = "Locked"
  /\ passphrase' = p

Unlock(p) ==
  /\ state = "Locked"
  /\ p = passphrase
  /\ state' = "Unlocked"
  /\ UNCHANGED passphrase

Lock ==
  /\ state = "Unlocked"
  /\ state' = "Locked"
  /\ UNCHANGED passphrase

ChangePassphrase(old, new) ==
  /\ state # "Unencrypted"
  /\ old = passphrase
  /\ passphrase' = new
  /\ UNCHANGED state

Next ==
  \/ \E p \in Pass : Encrypt(p) \/ Unlock(p)
  \/ Lock
  \/ \E o, n \in Pass : ChangePassphrase(o, n)

Spec == Init /\ [][Next]_avars
====
