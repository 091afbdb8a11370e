---------------------------- MODULE Settlements -----------------------------
(***************************************************************************)
(* POST /settlements and POST /settlements/emergency                       *)
(* (settlement_service.py): a merchant turns a payment proof, or an        *)
(* emergency code, into a guaranteed settlement.  global_spends records    *)
(* each token that was cashed in.                                          *)
(***************************************************************************)
EXTENDS Database

\* int(amount_cents * FEE_RATE) with FEE_RATE = 0.03.
Fee(amount) == (amount * 3) \div 100

\* The fee is added instead of deducted.
Mut_Net(amount) == amount + Fee(amount)

Net(amount) == amount - Fee(amount)

-----------------------------------------------------------------------------
(* Payment proofs *)

\* Decode, merchant lock and expiry, then the double-spend check and the read
\* of the transactions row.
SettleCheck(r, p) ==
    /\ sess[r].pc = "idle"
    /\ proofs[p] = "live"
    /\ NotSpent(pay[p].toks)
    /\ sess' = [sess EXCEPT ![r] =
         [Idle EXCEPT !.pc = "settle", !.tx = p, !.toks = pay[p].toks,
                      !.seen = (txStatus[p] # "none")]]
    /\ UNCHANGED <<walletVars, topupVars, tokenVars, gs, txVars, proofs, seVars>>

\* Without the foreign key.
Mut_HasTransaction(p) == TRUE

\* Foreign key settlements.payment_id: the transactions row is committed.
HasTransaction(p) == txStatus[p] # "none"

\* A duplicate is looked for in settlements instead of the registry, whose
\* rows are inserted with ON CONFLICT DO NOTHING.
Mut_SettleCommit(r) ==
    LET s == sess[r]
    IN  /\ s.pc = "settle"
        /\ RowsFree(r, {}, s.toks)
        /\ settlements[s.tx] = 0
        /\ HasTransaction(s.tx)
        /\ gs' = [t \in Tokens |-> IF t \in s.toks /\ gs[t] = None THEN s.tx ELSE gs[t]]
        /\ tokStatus' = [t \in Tokens |-> IF t \in s.toks THEN "settled" ELSE tokStatus[t]]
        /\ txStatus' = [txStatus EXCEPT ![s.tx] = IF s.seen THEN "succeeded" ELSE @]
        /\ settlements' = [settlements EXCEPT ![s.tx] = @ + 1]
        /\ End(r)
        /\ UNCHANGED <<walletVars, topupVars, owner, otp, codeAmt, pay, queue,
                       proofs, seVars>>

\* The registry rows, the tokens, the transactions row (if it was found) and
\* the settlements row are written together.
SettleCommit(r) ==
    LET s == sess[r]
    IN  /\ s.pc = "settle"
        /\ RowsFree(r, {}, s.toks)
        /\ NotSpent(s.toks)
        /\ HasTransaction(s.tx)
        /\ gs' = [t \in Tokens |-> IF t \in s.toks THEN s.tx ELSE gs[t]]
        /\ tokStatus' = [t \in Tokens |-> IF t \in s.toks THEN "settled" ELSE tokStatus[t]]
        /\ txStatus' = [txStatus EXCEPT ![s.tx] = IF s.seen THEN "succeeded" ELSE @]
        /\ settlements' = [settlements EXCEPT ![s.tx] = @ + 1]
        /\ End(r)
        /\ UNCHANGED <<walletVars, topupVars, owner, otp, codeAmt, pay, queue,
                       proofs, seVars>>

-----------------------------------------------------------------------------
(* Emergency codes *)

\* Tokens locked to the code, the part of them that covers the amount, and
\* the wallet of the payer.  Without unused tokens no wallet is read.
EmergencyQuery(r, c) ==
    LET found == {t \in Tokens : otp[t] = c /\ tokStatus[t] = "minted"}
    IN  /\ sess[r].pc = "idle"
        /\ codeAmt[c] > 0
        /\ \E a \in Amounts, payee \in Wallets \cup {None} :
             \E use \in SmallestFirst(found, a), first \in found :
               sess' = [sess EXCEPT ![r] =
                 [Idle EXCEPT !.pc = IF use = found THEN "emReady" ELSE "emTokens",
                              !.w = owner[first], !.payee = payee, !.amount = a,
                              !.toks = found, !.use = use, !.code = c]]
        /\ UNCHANGED <<walletVars, topupVars, tokenVars, gs, txVars, proofs, seVars>>

\* Some tokens are unused: the payer's wallet is read for the refund.
EmergencyReadPayer(r) ==
    LET s == sess[r]
    IN  /\ s.pc = "emTokens"
        /\ sess' = [sess EXCEPT ![r] =
             [s EXCEPT !.pc = "emReady", !.on = online[s.w], !.off = offline[s.w]]]
        /\ UNCHANGED <<walletVars, topupVars, tokenVars, gs, txVars, proofs, seVars>>

\* The whole code is refunded.
Mut_Refund(s) == Value(s.toks)

Refund(s) == Value(s.toks \ s.use)

\* Flush of registry rows, tokens, refund, transactions and settlements rows.
EmergencyFlush(r) ==
    LET s == sess[r]
    IN  /\ s.pc = "emReady"
        /\ RowsFree(r, IF s.use = s.toks THEN {} ELSE {s.w}, s.toks)
        /\ NotSpent(s.use)
        /\ s.use # s.toks => OfflineOK(s.off + Refund(s))
        /\ sess' = [sess EXCEPT ![r].pc = "emFlushed"]
        /\ UNCHANGED <<walletVars, topupVars, tokenVars, gs, txVars, proofs, seVars>>

\* The payee's wallet is read after the flush.  If it is the payer's wallet
\* and was loaded for the refund, the session returns the loaded object.
EmergencyReadPayee(r) ==
    LET s == sess[r]
    IN  /\ s.pc = "emFlushed"
        /\ s.payee # None
        /\ sess' = [sess EXCEPT ![r] =
             [s EXCEPT !.pc = "emPayee",
                       !.on = IF s.payee = s.w /\ s.use # s.toks
                              THEN @ ELSE online[s.payee]]]
        /\ UNCHANGED <<walletVars, topupVars, tokenVars, gs, txVars, proofs, seVars>>

EmergencyPayment(s) == [mode |-> "emergency", wallet |-> s.w, amount |-> s.amount,
                        toks |-> s.use]

\* Consumed tokens are registered and settled, unused ones unlocked and
\* refunded, the payee credited with the net amount.
EmergencyCommit(r, p) ==
    LET s == sess[r]
    IN  /\ s.pc = IF s.payee = None THEN "emFlushed" ELSE "emPayee"
        /\ Fresh(p)
        /\ RowsFree(r, {s.payee} \cap Wallets, {})
        /\ gs' = [t \in Tokens |-> IF t \in s.use THEN p ELSE gs[t]]
        /\ tokStatus' = [t \in Tokens |-> IF t \in s.use THEN "settled" ELSE tokStatus[t]]
        /\ otp' = [t \in Tokens |-> IF t \in s.use THEN "spent"
                                    ELSE IF t \in s.toks THEN None ELSE otp[t]]
        /\ offline' = [offline EXCEPT ![s.w] =
             IF s.use # s.toks THEN s.off + Refund(s) ELSE @]
        /\ online' = [w \in Wallets |->
             IF w = s.payee THEN s.on + Net(s.amount) ELSE online[w]]
        /\ pay' = [pay EXCEPT ![p] = EmergencyPayment(s)]
        /\ txStatus' = [txStatus EXCEPT ![p] = "succeeded"]
        /\ settlements' = [settlements EXCEPT ![p] = @ + 1]
        /\ End(r)
        /\ UNCHANGED <<topupVars, owner, codeAmt, queue, proofs, seVars>>
=============================================================================
