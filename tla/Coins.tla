------------------------------- MODULE Coins --------------------------------
(***************************************************************************)
(* Sets of tokens and their value: what select_tokens (app/crypto/         *)
(* tokens.py) and the loops of the payment and settlement services choose  *)
(* from them.                                                              *)
(***************************************************************************)
EXTENDS Integers, FiniteSets, FiniteSetsExt

CONSTANTS
    Tokens,  \* ids of the tokens that can be minted (bounds minting)
    Denom    \* denomination_cents of each token

ASSUME DenomAssumption == Denom \in [Tokens -> Nat \ {0}]

ASSUME TokensAssumption == IsFiniteSet(Tokens)

Denominations == {500, 1000, 2000, 5000, 10000}

\* mint_tokens creates tokens of these denominations only.
ASSUME DenominationsAssumption == \A t \in Tokens : Denom[t] \in Denominations

\* sum(f[x] for x in S).
SumOver(f, S) == MapThenSumSet(LAMBDA x : f[x], S)

Value(S) == SumOver(Denom, S)

\* The greedy attempt is returned although it falls short of the target.
Mut_Selections(S, amount) == {T \in SUBSET S : Value(T) <= amount}

\* select_tokens: least change, then fewest tokens.  There is no selection
\* (ValueError) without tokens or when all of them fall short.
Selections(S, amount) ==
    LET covering == {T \in (SUBSET S) \ {{}} : Value(T) >= amount}
    IN  {T \in covering : \A U \in covering :
            \/ Value(T) < Value(U)
            \/ Value(T) = Value(U) /\ Cardinality(T) <= Cardinality(U)}

\* The prefixes a loop over S may end with when it visits the tokens in the
\* order Before (ties in any order, the queries have no ORDER BY) and stops
\* taking them once their value covers amount.
GreedyPrefixes(S, amount, Before(_, _)) ==
    {P \in SUBSET S :
        /\ Value(P) >= amount
        /\ \A p \in P, x \in S \ P : Before(p, x)
        /\ \E last \in P : /\ \A p \in P : Before(p, last)
                           /\ Value(P \ {last}) < amount}

LargestFirst(S, amount) ==
    GreedyPrefixes(S, amount, LAMBDA a, b : Denom[a] >= Denom[b])

SmallestFirst(S, amount) ==
    GreedyPrefixes(S, amount, LAMBDA a, b : Denom[a] <= Denom[b])

\* The tokens a loop over S, largest first, has handled when it stops at the
\* first one in bad.
PrefixesBefore(S, bad) ==
    {P \in SUBSET (S \ bad) :
        \E b \in S \cap bad :
            /\ \A p \in P : Denom[p] >= Denom[b]
            /\ \A x \in (S \ P) \ {b} : Denom[x] <= Denom[b]}
=============================================================================
