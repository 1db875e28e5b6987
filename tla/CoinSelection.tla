---------------------------- MODULE CoinSelection ----------------------------
(***************************************************************************)
(* Coin selection for ordinary spends, src/wallet/wallet.cpp:              *)
(*   ApproximateBestSubset  the stochastic subset-sum solver               *)
(*   SelectCoinsMinConf     exact match / smaller coins / lowest larger    *)
(*   SelectSmallestCoins    smallest-first (transactions with a contract)  *)
(*   SelectCoins            three attempts with loosening depth rules      *)
(* as operators.  Every random choice of the code (the Shuffle of the      *)
(* candidates, each rng.randbool() of a trial, the order std::sort leaves  *)
(* among equal values) is a nondeterministic choice, so an operator yields *)
(* the SET of results the code can return.  One call is one step: Init     *)
(* picks a wallet of candidate outputs and a target, SelectCoins returns.  *)
(***************************************************************************)
EXTENDS Integers, FiniteSets, Sequences, SequencesExt

CONSTANTS
  Coin,        \* the candidate outputs COutput that AvailableCoins returned
  Values,      \* their possible nValue
  Depths,      \* their possible nDepth
  Targets,     \* the possible nTargetValue
  CENT,        \* CENT, the dust threshold of the selection
  Iterations   \* bound standing for the 1000 trials of ApproximateBestSubset

ASSUME CENT > 0 /\ Iterations >= 1

\* AvailableCoins(fOnlyConfirmed = true) returns only trusted records:
\* confirmed, or unconfirmed but from us.
CoinRecord == {r \in [nValue : Values, nDepth : Depths, fFromMe : BOOLEAN] :
                 r.fFromMe \/ r.nDepth >= 1}

VARIABLES
  vCoins,        \* vCoins[c]: the output's value, depth and IsFromMe()
  nTargetValue,
  contract,      \* the transaction carries a contract (SelectSmallestCoins)
  result,        \* [ok, setCoins, nValueRet] as returned to CreateTransaction
  returned       \* SelectCoins has returned

vars == <<vCoins, nTargetValue, contract, result, returned>>

Val(c) == vCoins[c].nValue
SumOf(S) == FoldSet(LAMBDA c, acc : Val(c) + acc, 0, S)

\* output.nDepth < (pcoin->IsFromMe() ? nConfMine : nConfTheirs) -> skip
Eligible(c, nConfMine, nConfTheirs) ==
  vCoins[c].nDepth >= IF vCoins[c].fFromMe THEN nConfMine ELSE nConfTheirs

Found(S) == [ok |-> TRUE, setCoins |-> S, nValueRet |-> SumOf(S)]
Failed(S) == [ok |-> FALSE, setCoins |-> S, nValueRet |-> SumOf(S)]

-----------------------------------------------------------------------------
(***************************************************************************)
(* ApproximateBestSubset(vValue, nTotalLower, nTargetValue).  A trial is   *)
(* pass 0 (include coin i when randbool) then, unless the target was       *)
(* reached, pass 1 (include every coin not yet included).  Whenever the    *)
(* running total reaches the target it is kept if it is the best so far,   *)
(* and the coin just added is taken out again.  Indices are positions in   *)
(* vValue; r is the set of positions whose randbool is true.               *)
(***************************************************************************)
ApproximateBestSubsetStepEarlyCopy(vv, target, st, i, pass, r) ==
  IF ~(IF pass = 0 THEN i \in r ELSE i \notin st.inc) THEN st
  ELSE LET tot == st.tot + Val(vv[i]) IN
       IF tot >= target
       THEN [st EXCEPT !.reached = TRUE,
                       !.nBest = IF tot < st.nBest THEN tot ELSE @,
                       !.best = IF tot < st.nBest THEN st.inc ELSE @]
       ELSE [st EXCEPT !.tot = tot, !.inc = @ \cup {i}]

ApproximateBestSubsetStep(vv, target, st, i, pass, r) ==
  IF ~(IF pass = 0 THEN i \in r ELSE i \notin st.inc) THEN st
  ELSE LET tot == st.tot + Val(vv[i]) IN
       IF tot >= target
       THEN [st EXCEPT !.reached = TRUE,
                       !.nBest = IF tot < st.nBest THEN tot ELSE @,
                       !.best = IF tot < st.nBest THEN st.inc \cup {i} ELSE @]
       ELSE [st EXCEPT !.tot = tot, !.inc = @ \cup {i}]

ApproximateBestSubsetPass(vv, target, st, pass, r) ==
  FoldLeft(LAMBDA s, i : ApproximateBestSubsetStep(vv, target, s, i, pass, r),
           st, [i \in DOMAIN vv |-> i])

ApproximateBestSubsetTrial(vv, target, st, r) ==
  LET s0 == [st EXCEPT !.inc = {}, !.tot = 0, !.reached = FALSE]
      s1 == ApproximateBestSubsetPass(vv, target, s0, 0, r)
  IN  IF s1.reached THEN s1 ELSE ApproximateBestSubsetPass(vv, target, s1, 1, r)

\* for (nRep = 0; nRep < iterations && nBest != nTargetValue; nRep++)
RECURSIVE ApproximateBestSubsetTrials(_, _, _, _)
ApproximateBestSubsetTrials(vv, target, k, st) ==
  IF k = 0 \/ st.nBest = target THEN {st}
  ELSE UNION {ApproximateBestSubsetTrials(vv, target, k - 1,
                 ApproximateBestSubsetTrial(vv, target, st, r)) : r \in SUBSET DOMAIN vv}

\* the possible <<vfBest, nBest>>, vfBest as the set of chosen coins
ApproximateBestSubset(vv, nTotalLower, target) ==
  {[vfBest |-> {vv[i] : i \in s.best}, nBest |-> s.nBest] :
     s \in ApproximateBestSubsetTrials(vv, target, Iterations,
             [inc |-> {}, tot |-> 0, reached |-> FALSE,
              best |-> DOMAIN vv, nBest |-> nTotalLower])}

-----------------------------------------------------------------------------
(***************************************************************************)
(* SelectCoinsMinConf over one shuffled order of the candidates.  The scan *)
(* returns at the first coin equal to the target; it collects the coins    *)
(* below nTargetValue + CENT in vValue and keeps the smallest larger coin  *)
(* (the first of equal ones in the shuffled order).                        *)
(***************************************************************************)
MinConfScanStepLowerFirst(target, nConfMine, nConfTheirs, acc, c) ==
  IF acc.exact # {} \/ ~Eligible(c, nConfMine, nConfTheirs) THEN acc
  ELSE IF Val(c) < target + CENT
       THEN [acc EXCEPT !.vValue = Append(@, c), !.nTotalLower = @ + Val(c)]
  ELSE IF Val(c) = target THEN [acc EXCEPT !.exact = {c}]
  ELSE IF \A l \in acc.lowest : Val(c) < Val(l) THEN [acc EXCEPT !.lowest = {c}]
  ELSE acc

MinConfScanStep(target, nConfMine, nConfTheirs, acc, c) ==
  IF acc.exact # {} \/ ~Eligible(c, nConfMine, nConfTheirs) THEN acc
  ELSE IF Val(c) = target THEN [acc EXCEPT !.exact = {c}]
  ELSE IF Val(c) < target + CENT
       THEN [acc EXCEPT !.vValue = Append(@, c), !.nTotalLower = @ + Val(c)]
  ELSE IF \A l \in acc.lowest : Val(c) < Val(l) THEN [acc EXCEPT !.lowest = {c}]
  ELSE acc

\* sort(vValue.rbegin(), vValue.rend(), CompareValueOnly()): descending
\* values, equal values in any order
DescendingOrders(vv) ==
  {s \in SetToSeqs(ToSet(vv)) : IsSorted(s, LAMBDA x, y : Val(x) >= Val(y))}

\* the solver, retried with nTargetValue + CENT when it found no exact
\* subset and the smaller coins can pay for a change of at least CENT
SubsetSolutions(vv, nTotalLower, target) ==
  UNION {IF b.nBest # target /\ nTotalLower >= target + CENT
         THEN ApproximateBestSubset(vv, nTotalLower, target + CENT)
         ELSE {b} : b \in ApproximateBestSubset(vv, nTotalLower, target)}

SelectCoinsMinConfFrom(target, nConfMine, nConfTheirs, order) ==
  LET a == FoldLeft(LAMBDA acc, c : MinConfScanStep(target, nConfMine, nConfTheirs, acc, c),
                    [exact |-> {}, vValue |-> <<>>, nTotalLower |-> 0, lowest |-> {}],
                    order)
      larger(b) == \E l \in a.lowest :
                     (b.nBest # target /\ b.nBest < target + CENT) \/ Val(l) <= b.nBest
  IN  CASE a.exact # {}            -> {Found(a.exact)}
        [] a.nTotalLower = target  -> {Found(ToSet(a.vValue))}
        [] a.nTotalLower < target  -> {IF a.lowest = {} THEN Failed({}) ELSE Found(a.lowest)}
        [] OTHER ->
             {IF larger(b) THEN Found(a.lowest) ELSE Found(b.vfBest) :
                b \in UNION {SubsetSolutions(vv, a.nTotalLower, target) :
                               vv \in DescendingOrders(a.vValue)}}

\* Shuffle(vCoins): every order of the candidates
SelectCoinsMinConf(target, nConfMine, nConfTheirs) ==
  UNION {SelectCoinsMinConfFrom(target, nConfMine, nConfTheirs, order) :
           order \in SetToSeqs(Coin)}

\* SelectSmallestCoins: ascending values (smallestcoincomp, equal values in
\* any order), take eligible coins until nValueRet >= nTargetValue
SelectSmallestCoinsFrom(target, nConfMine, nConfTheirs, order) ==
  LET a == FoldLeft(LAMBDA acc, c :
                      IF acc.done \/ ~Eligible(c, nConfMine, nConfTheirs) THEN acc
                      ELSE [set |-> acc.set \cup {c}, done |-> SumOf(acc.set \cup {c}) >= target],
                    [set |-> {}, done |-> FALSE], order)
  IN  IF a.done THEN Found(a.set) ELSE Failed(a.set)

SelectSmallestCoins(target, nConfMine, nConfTheirs) ==
  {SelectSmallestCoinsFrom(target, nConfMine, nConfTheirs, order) :
     order \in {s \in SetToSeqs(Coin) : IsSorted(s, LAMBDA x, y : Val(x) <= Val(y))}}

\* SelectCoins: the attempts (nConfMine, nConfTheirs) = (1,10), (1,1), (0,1)
Attempts == <<<<1, 10>>, <<1, 1>>, <<0, 1>>>>

SelectPolicy(target, isContract, k) ==
  IF isContract THEN SelectSmallestCoins(target, Attempts[k][1], Attempts[k][2])
  ELSE SelectCoinsMinConf(target, Attempts[k][1], Attempts[k][2])

RECURSIVE SelectCoinsFrom(_, _, _)
SelectCoinsFrom(target, isContract, k) ==
  UNION {IF r.ok \/ k = Len(Attempts) THEN {r} ELSE SelectCoinsFrom(target, isContract, k + 1) :
           r \in SelectPolicy(target, isContract, k)}

-----------------------------------------------------------------------------
Init ==
  /\ vCoins \in [Coin -> CoinRecord]
  /\ nTargetValue \in Targets
  /\ contract \in BOOLEAN
  /\ result = Failed({})
  /\ returned = FALSE

SelectCoins ==
  /\ ~returned
  /\ result' \in SelectCoinsFrom(nTargetValue, contract, 1)
  /\ returned' = TRUE
  /\ UNCHANGED <<vCoins, nTargetValue, contract>>

Next == SelectCoins

Spec == Init /\ [][Next]_vars

-----------------------------------------------------------------------------
\* Selection sufficiency (spec section 8): SelectCoins succeeds exactly when
\* the coins eligible under its loosest depth rule can pay the target, and
\* then returns eligible coins worth at least the target.  Across the
\* exact match, the smaller-coin total, the lowest larger coin and the two
\* solver runs, the set returned and its total must agree.
SelectionSufficient ==
  returned =>
    /\ result.ok <=> SumOf({c \in Coin : Eligible(c, 0, 1)}) >= nTargetValue
    /\ result.ok => /\ result.nValueRet >= nTargetValue
                    /\ \A c \in result.setCoins : Eligible(c, 0, 1)

\* Exact match (spec section 8): a spend without a contract, whose wallet
\* holds a coin eligible on the first attempt that equals the target, pays
\* exactly the target and needs no change.
ExactCoinChosen ==
  (returned /\ ~contract /\ \E c \in Coin : Eligible(c, 1, 10) /\ Val(c) = nTargetValue)
    => result.nValueRet = nTargetValue
====
