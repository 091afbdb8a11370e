-------------------------- MODULE MCSecureElement ---------------------------
(* Instances of SecureElement for TLC. *)
EXTENDS SecureElement, TLC

CONSTANTS t5, t5b, t10

MCDenom == (t5 :> 500 @@ t5b :> 500 @@ t10 :> 1000)
Symmetry == Permutations({t5, t5b})
=============================================================================
