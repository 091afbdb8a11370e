------------------------------- MODULE TopUps -------------------------------
(***************************************************************************)
(* POST /topups (app/routers/topups.py): fund a wallet and mint offline    *)
(* tokens for the offline part (app/crypto/tokens.py, mint_tokens).        *)
(***************************************************************************)
EXTENDS Database

CONSTANT TopUpBodies  \* request bodies: amount and offline allocation

\* TopUpCreate.allocation_within_amount: the allocation is part of the amount.
ASSUME TopUpAssumption ==
    \A b \in TopUpBodies : b.amount \in Nat \ {0} /\ b.alloc \in 0..b.amount

\* What is left for denomination d once every larger one was minted greedily.
Remaining(total) ==
    LET rest[d \in Denominations] ==
          LET larger == {e \in Denominations : e > d}
          IN IF larger = {} THEN total
             ELSE LET next == Min(larger) IN rest[next] % next
    IN rest

\* The batches mint_tokens may create from token ids not in use: as many
\* tokens of each denomination as fit.  What is below the smallest
\* denomination is not minted.
MintSets(total) ==
    {S \in SUBSET {t \in Tokens : tokStatus[t] = "none"} :
        \A d \in Denominations :
            Cardinality({t \in S : Denom[t] = d}) = Remaining(total)[d] \div d}

TopUpRead(r) ==
    /\ sess[r].pc = "idle"
    /\ \E w \in Wallets, b \in TopUpBodies :
        /\ offline[w] + b.alloc <= Allowance
        /\ sess' = [sess EXCEPT ![r] =
             [Idle EXCEPT !.pc = "topup", !.w = w, !.on = online[w],
                          !.off = offline[w], !.amount = b.amount, !.alloc = b.alloc]]
    /\ UNCHANGED <<walletVars, topupVars, tokenVars, gs, txVars, proofs, seVars>>

\* The wallet's new balances, the topups row and the tokens are written
\* together.  A balance the request leaves unchanged is not written.
TopUpCommit(r) ==
    LET s == sess[r]
    IN  /\ s.pc = "topup"
        /\ RowsFree(r, {s.w}, {})
        /\ OfflineOK(s.off + s.alloc)
        /\ online' = [online EXCEPT ![s.w] =
             IF s.amount > s.alloc THEN s.on + (s.amount - s.alloc) ELSE @]
        /\ offline' = [offline EXCEPT ![s.w] =
             IF s.alloc > 0 THEN s.off + s.alloc ELSE @]
        /\ funded' = [funded EXCEPT ![s.w] = @ + s.amount]
        /\ allocated' = [allocated EXCEPT ![s.w] = @ + s.alloc]
        /\ \E S \in MintSets(s.alloc) :
             /\ tokStatus' = [t \in Tokens |-> IF t \in S THEN "minted" ELSE tokStatus[t]]
             /\ owner' = [t \in Tokens |-> IF t \in S THEN s.w ELSE owner[t]]
        /\ End(r)
        /\ UNCHANGED <<otp, codeAmt, gs, txVars, proofs, seVars>>
=============================================================================
