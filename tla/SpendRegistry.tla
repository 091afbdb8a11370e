--------------------------- MODULE SpendRegistry ----------------------------
(***************************************************************************)
(* What the global spend registry promises to merchants, with no requests, *)
(* sessions or races: a token is spent in at most one payment, for ever;   *)
(* and a settlement is guaranteed at most once, in the very step in which  *)
(* all the tokens of the payment are spent for the first time.             *)
(***************************************************************************)
CONSTANTS Tokens, Payments, None

VARIABLES spentIn,     \* the payment each token was spent in, or None
          guaranteed   \* payments the merchant holds a guarantee for

Init ==
    /\ spentIn = [t \in Tokens |-> None]
    /\ guaranteed = {}

\* Tokens are spent without a guarantee (a sync batch); a payment that is
\* already guaranteed takes no further token.
Spend ==
    /\ spentIn' \in [Tokens -> Payments \cup {None}]
    /\ \A t \in Tokens :
         spentIn'[t] # spentIn[t] => spentIn[t] = None /\ spentIn'[t] \notin guaranteed
    /\ UNCHANGED guaranteed

\* All tokens of payment p are spent and p is guaranteed.
Guarantee(p) ==
    /\ p \notin guaranteed
    /\ \A t \in Tokens : spentIn[t] # p
    /\ spentIn' \in [Tokens -> Payments \cup {None}]
    /\ \A t \in Tokens :
         spentIn'[t] # spentIn[t] => spentIn[t] = None /\ spentIn'[t] = p
    /\ guaranteed' = guaranteed \cup {p}

Next == Spend \/ \E p \in Payments : Guarantee(p)

Spec == Init /\ [][Next]_<<spentIn, guaranteed>>
=============================================================================
