----------------------------- MODULE MCKeyVault -----------------------------
EXTENDS KeyVault

CONSTANTS p1, p2, NoPassphrase

MCPass == {p1, p2}

\* two children of the first HD seed, ahead of the counter of a new wallet
\* (KeypoolSize = 1 generates child 0), e.g. from a dump of a newer copy
MCImportKeys == {ChildKey(1, 1), ChildKey(1, 2)}

\* Spec with ChangeWalletPassphrase listed first: the same behaviours, but
\* a step that is both a Lock and a ChangeWalletPassphrase with a wrong
\* old passphrase is named after the latter in a trace
SpecChangeFirst ==
  Init /\ [][(\E o, n \in Pass : ChangeWalletPassphrase(o, n)) \/ Next]_vars

MCSymmetry == Permutations(MCPass)
====
