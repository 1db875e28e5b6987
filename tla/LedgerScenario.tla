-------------------------- MODULE LedgerScenario --------------------------
(***************************************************************************)
(* The wallet scenario of WalletLedger:                                  *)
(*   G  genesis-era coinbase paying us three outputs                       *)
(*   A  our payment spending G:0, change to us at A:1                      *)
(*   B  our payment spending A:1 (unconfirmed change) and G:2              *)
(*   C  our payment spending A:1 only                                      *)
(*   X  a conflicting spend of G:0 (another copy of the same keys)         *)
(*   S  our coinstake spending G:1, reward back to us at S:1               *)
(* Addresses: G pays us at p, q, r (labelled receive addresses), A and B  *)
(* pay change to c1 and c2 (pool keys, no label), S restakes to q; every *)
(* output to others pays ext.                                             *)
(* Every role is distinct, so no symmetry set is used.                     *)
(***************************************************************************)
EXTENDS Sequences, TLC

CONSTANTS G, A, B, C, X, S

MCTx == {G, A, B, C, X, S}

\* the scenario without the other copy of the wallet's keys
MCTxLocal == MCTx \ {X}

MCInputs == [t \in MCTx |->
               CASE t = A -> {<<G, 0>>}
                 [] t = B -> {<<A, 1>>, <<G, 2>>}
                 [] t = C -> {<<A, 1>>}
                 [] t = X -> {<<G, 0>>}
                 [] t = S -> {<<G, 1>>}
                 [] OTHER -> {}]

MCNOut == [t \in MCTx |->
             CASE t = G -> 3 [] t = C -> 1 [] t = X -> 1 [] OTHER -> 2]

MCMineOut == [t \in MCTx |->
                CASE t = G -> {0, 1, 2} [] t \in {A, B, S} -> {1} [] OTHER -> {}]

MCCoinStake == {S}
MCWalletSpend == {A, B, C}
MCGenesis == <<G>>

MCAddr == {"p", "q", "r", "c1", "c2", "ext"}

MCAddrOf == [t \in MCTx |->
               CASE t = G -> (0 :> "p" @@ 1 :> "q" @@ 2 :> "r")
                 [] t = A -> (0 :> "ext" @@ 1 :> "c1")
                 [] t = B -> (0 :> "ext" @@ 1 :> "c2")
                 [] t = S -> (0 :> "ext" @@ 1 :> "q")
                 [] OTHER -> (0 :> "ext")]

MCAddrBook == {"p", "q", "r"}

MCAddrOrder == <<"c1", "c2", "p", "q", "r", "ext">>

MCVin0 == [t \in MCTx |->
             CASE t = B -> <<A, 1>>
               [] t = C -> <<A, 1>>
               [] t = S -> <<G, 1>>
               [] OTHER -> <<G, 0>>]
====
