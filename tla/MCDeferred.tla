----------------------------- MODULE MCDeferred -----------------------------
(* Instances of Deferred for TLC. *)
EXTENDS Deferred, TLC

CONSTANTS t5, t5b, t10

MCDenom == (t5 :> 500 @@ t5b :> 500 @@ t10 :> 1000)
MCDenom2 == (t5 :> 500 @@ t10 :> 1000)
OneFive == (t5 :> 500)
Symmetry == Permutations(Requests) \cup Permutations(Workers) \cup Permutations(TxIds)

SerialSymmetry == Permutations(TxIds) \cup Permutations({t5, t5b})

TopUp1500 == {[amount |-> 2000, alloc |-> 1500]}

\* An allocation that mint_tokens cannot express: 200 cents are not minted.
TopUps == {[amount |-> 2000, alloc |-> 1700], [amount |-> 500, alloc |-> 500]}
FiveOnly == {[amount |-> 500, alloc |-> 500]}
=============================================================================
