----------------------------- MODULE MCWalletDump -----------------------------
(***************************************************************************)
(* WalletDump over three keys and two names ("" and one other).  The keys *)
(* are interchangeable.                                                    *)
(***************************************************************************)
EXTENDS WalletDump, TLC

CONSTANTS k1, k2, k3, L1

MCDumpKeys == {k1, k2, k3}
MCLabels == {Empty, L1}

MCSymmetry == Permutations(MCDumpKeys)
====
