------------------------------- MODULE Signer -------------------------------
(***************************************************************************)
(* What Payments assumes of the secure element of a worker: the signing    *)
(* loop of an offline payment is one step.  It signs with all the tokens   *)
(* and destroys their keys, or stops at a token whose key was destroyed    *)
(* before, having destroyed those in front of it (PaySign, PaySignFails).  *)
(***************************************************************************)
EXTENDS Coins

VARIABLES
    destroyed,  \* tokens whose key the secure element has destroyed
    outcome     \* how the last loop ended, "idle" between payments

vars == <<destroyed, outcome>>

Init == destroyed = {} /\ outcome = "idle"

SignAll(S) ==
    /\ outcome = "idle"
    /\ S \cap destroyed = {}
    /\ destroyed' = destroyed \cup S
    /\ outcome' = "signed"

SignSome(S) ==
    /\ outcome = "idle"
    /\ S \cap destroyed # {}
    /\ \E P \in PrefixesBefore(S, destroyed) : destroyed' = destroyed \cup P
    /\ outcome' = "failed"

Finish ==
    /\ outcome # "idle"
    /\ outcome' = "idle"
    /\ UNCHANGED destroyed

Restart == destroyed' = {} /\ outcome' = "idle"

Next ==
    \/ \E S \in SUBSET Tokens : SignAll(S) \/ SignSome(S)
    \/ Finish \/ Restart

Spec == Init /\ [][Next]_vars
=============================================================================
