--------------------------- MODULE CoinSelection ----------------------------
(***************************************************************************)
(* select_tokens (app/crypto/tokens.py): a greedy attempt at an exact sum, *)
(* then a depth-first branch-and-bound search.  Payments uses it through   *)
(* Selections (module Coins); this module shows that the algorithm returns *)
(* one of them.                                                            *)
(*                                                                         *)
(* A call of search(idx, current_sum, selected) is the node of the search  *)
(* tree reached by the decisions path: idx = Len(path), and path[i] says   *)
(* whether the i-th token is selected.                                     *)
(***************************************************************************)
EXTENDS Coins, Sequences, SequencesExt

CONSTANT Targets  \* amounts to pay

ASSUME TargetsAssumption == Targets \subseteq Nat \ {0}

VARIABLES
    order,   \* available tokens, largest denomination first (sorted_indices)
    target,  \* target_cents
    pc,      \* "start", "search", "done" or "rejected" (ValueError)
    path,    \* include / skip decisions of the current call
    best     \* best_selection, {} while there is none

vars == <<order, target, pc, path, best>>

Descending(s) == \A i \in 1..Len(s) - 1 : Denom[s[i]] >= Denom[s[i + 1]]

Init ==
    /\ \E S \in SUBSET Tokens : order \in {s \in SetToSeqs(S) : Descending(s)}
    /\ target \in Targets
    /\ pc = "start"
    /\ path = <<>>
    /\ best = {}

Insufficient == order = <<>> \/ Value(ToSet(order)) < target

\* _try_exact_match: take every token that still fits.
Greedy ==
    FoldLeft(LAMBDA acc, t : IF Denom[t] <= acc.remaining
                             THEN [selected |-> acc.selected \cup {t},
                                   remaining |-> acc.remaining - Denom[t]]
                             ELSE acc,
             [selected |-> {}, remaining |-> target], order)

Reject ==
    /\ pc = "start"
    /\ Insufficient
    /\ pc' = "rejected"
    /\ UNCHANGED <<order, target, path, best>>

\* What the greedy attempt took is returned although it falls short.
Mut_ExactMatch ==
    /\ pc = "start"
    /\ ~Insufficient
    /\ best' = Greedy.selected
    /\ pc' = "done"
    /\ UNCHANGED <<order, target, path>>

ExactMatch ==
    /\ pc = "start"
    /\ ~Insufficient
    /\ Greedy.remaining = 0
    /\ best' = Greedy.selected
    /\ pc' = "done"
    /\ UNCHANGED <<order, target, path>>

StartSearch ==
    /\ pc = "start"
    /\ ~Insufficient
    /\ Greedy.remaining # 0
    /\ pc' = "search"
    /\ UNCHANGED <<order, target, path, best>>

-----------------------------------------------------------------------------
(* The search *)

Selected == {order[i] : i \in {j \in 1..Len(path) : path[j]}}
Undecided == {order[i] : i \in Len(path) + 1..Len(order)}

\* The first cover found is kept.
Mut_Better(T, U) == U = {}

\* T beats U: less change, or the same change with fewer tokens.
Better(T, U) ==
    \/ U = {}
    \/ Value(T) < Value(U)
    \/ Value(T) = Value(U) /\ Cardinality(T) < Cardinality(U)

CannotReach == Value(Selected) + Value(Undecided) < target

\* The token is not popped before the skip branch.
Mut_Return ==
    LET open == {i \in 1..Len(path) : path[i]}
    IN  IF open = {}
        THEN pc' = "done" /\ UNCHANGED path
        ELSE path' = SubSeq(path, 1, Max(open)) /\ UNCHANGED pc

\* The call returns: the innermost open include branch is followed by its skip
\* branch, or the search is over.
Return ==
    LET open == {i \in 1..Len(path) : path[i]}
    IN  IF open = {}
        THEN pc' = "done" /\ UNCHANGED path
        ELSE path' = Append(SubSeq(path, 1, Max(open) - 1), FALSE) /\ UNCHANGED pc

Covered ==
    /\ pc = "search"
    /\ Value(Selected) >= target
    /\ best' = IF Better(Selected, best) THEN Selected ELSE best
    /\ Return
    /\ UNCHANGED <<order, target>>

Prune ==
    /\ pc = "search"
    /\ Value(Selected) < target
    /\ Undecided = {} \/ CannotReach
    /\ Return
    /\ UNCHANGED <<order, target, best>>

Include ==
    /\ pc = "search"
    /\ Value(Selected) < target
    /\ Undecided # {} /\ ~CannotReach
    /\ path' = Append(path, TRUE)
    /\ UNCHANGED <<order, target, pc, best>>

Next == Reject \/ ExactMatch \/ StartSearch \/ Covered \/ Prune \/ Include

Spec == Init /\ [][Next]_vars /\ WF_vars(Next)

-----------------------------------------------------------------------------

\* select_tokens returns a selection with the least change and, among those,
\* the fewest tokens, although it returns the first exact greedy match; it
\* raises ValueError exactly when no selection covers the target.
ResultOptimal ==
    /\ pc = "done" => best \in Selections(ToSet(order), target)
    /\ pc = "rejected" => Selections(ToSet(order), target) = {}

\* The selections below a skip decision of the current call whose include
\* branch was explored.
Passed ==
    {T \in SUBSET ToSet(order) :
        \E i \in 1..Len(path) :
            /\ ~path[i] /\ order[i] \in T
            /\ \A j \in 1..i - 1 : path[j] <=> order[j] \in T}

\* Pruning and stopping at the first cover lose nothing: at every moment of the
\* search no covering selection in the explored part of the tree beats
\* best_selection.
BestSoFar ==
    pc = "search" =>
        \A T \in Passed : Value(T) >= target =>
            /\ best # {}
            /\ \/ Value(best) < Value(T)
               \/ Value(best) = Value(T) /\ Cardinality(best) <= Cardinality(T)

\* The search ends.
SearchEnds == <>(pc \in {"done", "rejected"})
=============================================================================
