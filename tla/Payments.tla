------------------------------ MODULE Payments ------------------------------
(***************************************************************************)
(* POST /payments and POST /payments/emergency (payment_service.py).  An   *)
(* online payment debits the online balance.  An offline payment selects   *)
(* tokens, has the worker's secure element sign with and destroy the key   *)
(* of each, marks them spent and hands out a proof the merchant settles    *)
(* later.  An emergency code locks tokens to a code that can be read out.  *)
(***************************************************************************)
EXTENDS Database

(* Online payments *)

OnlineRead(r) ==
    /\ sess[r].pc = "idle"
    /\ \E w \in Wallets, a \in Amounts :
        /\ online[w] >= a
        /\ sess' = [sess EXCEPT ![r] =
             [Idle EXCEPT !.pc = "online", !.w = w, !.on = online[w], !.amount = a]]
    /\ UNCHANGED <<walletVars, topupVars, tokenVars, gs, txVars, proofs, seVars>>

OnlineCommit(r, p) ==
    LET s == sess[r]
    IN  /\ s.pc = "online"
        /\ Fresh(p)
        /\ RowsFree(r, {s.w}, {})
        /\ OnlineOK(s.on - s.amount)
        /\ online' = [online EXCEPT ![s.w] = s.on - s.amount]
        /\ pay' = [pay EXCEPT ![p] = [mode |-> "online", wallet |-> s.w,
                                      amount |-> s.amount, toks |-> {}]]
        /\ txStatus' = [txStatus EXCEPT ![p] = "succeeded"]
        /\ End(r)
        /\ UNCHANGED <<offline, topupVars, tokenVars, gs, settlements, queue,
                       proofs, seVars>>

-----------------------------------------------------------------------------
(* Offline payments *)

PayRead(r) ==
    /\ sess[r].pc = "idle"
    /\ \E w \in Wallets, a \in Amounts :
        /\ offline[w] >= a
        /\ sess' = [sess EXCEPT ![r] =
             [Idle EXCEPT !.pc = "payWallet", !.w = w, !.off = offline[w], !.amount = a]]
    /\ UNCHANGED <<walletVars, topupVars, tokenVars, gs, txVars, proofs, seVars>>

\* The query takes every minted token, tokens locked to a code included; see
\* CoinSelection for select_tokens.
PaySelect(r) ==
    /\ sess[r].pc = "payWallet"
    /\ \E S \in Selections(MintedOf(sess[r].w), sess[r].amount) :
        sess' = [sess EXCEPT ![r].pc = "paySelected", ![r].toks = S]
    /\ UNCHANGED <<walletVars, topupVars, tokenVars, gs, txVars, proofs, seVars>>

\* The destroyed keys are not consulted.
Mut_CanSign(k, S) == TRUE

\* SoftwareSecureElement.generate_keypair and sign refuse a destroyed key.
CanSign(k, S) == S \cap destroyed[k] = {}

\* spend_token on each token of S: sign, then destroy_key.
SignAndDestroy(k, S) == destroyed' = [destroyed EXCEPT ![k] = @ \cup S]

\* The sign-and-destroy loop, in whichever worker serves the request.  No
\* await interrupts it, so no other request of the worker runs in between.
PaySign(r, k) ==
    /\ sess[r].pc = "paySelected"
    /\ CanSign(k, sess[r].toks)
    /\ SignAndDestroy(k, sess[r].toks)
    /\ sess' = [sess EXCEPT ![r].pc = "paySigned", ![r].worker = k]
    /\ UNCHANGED <<walletVars, topupVars, tokenVars, gs, txVars, proofs, restarts>>

\* A key was destroyed before: PaymentError.  The session rolls back, but the
\* keys destroyed earlier in the loop stay destroyed.
PaySignFails(r, k) ==
    /\ sess[r].pc = "paySelected"
    /\ ~CanSign(k, sess[r].toks)
    /\ \E P \in PrefixesBefore(sess[r].toks, destroyed[k]) : SignAndDestroy(k, P)
    /\ End(r)
    /\ UNCHANGED <<walletVars, topupVars, tokenVars, gs, txVars, proofs, restarts>>

\* Flush of the token, wallet, transactions and sync_queue rows.
PayFlush(r) ==
    LET s == sess[r]
    IN  /\ s.pc = "paySigned"
        /\ RowsFree(r, {s.w}, s.toks)
        /\ OfflineOK(s.off - Value(s.toks))
        /\ sess' = [sess EXCEPT ![r].pc = "payFlushed"]
        /\ UNCHANGED <<walletVars, topupVars, tokenVars, gs, txVars, proofs, seVars>>

OfflinePayment(s) == [mode |-> "offline", wallet |-> s.w, amount |-> s.amount,
                      toks |-> s.toks]

\* What the commit of a flushed offline payment p changes in the database.
\* The whole value of the tokens leaves the balance, change included.
PayWrites(r, p) ==
    LET s == sess[r]
    IN  /\ offline' = [offline EXCEPT ![s.w] = s.off - Value(s.toks)]
        /\ tokStatus' = [t \in Tokens |-> IF t \in s.toks THEN "spent" ELSE tokStatus[t]]
        /\ txStatus' = [txStatus EXCEPT ![p] = "pending"]
        /\ queue' = [queue EXCEPT ![p] = "pending"]
        /\ End(r)
        /\ UNCHANGED <<online, topupVars, owner, otp, codeAmt, gs, settlements, seVars>>

\* get_db commits before the response leaves (FastAPI before 0.118); the
\* response may be lost on its way.
PayCommit(r, p) ==
    /\ sess[r].pc = "payFlushed"
    /\ Fresh(p)
    /\ pay' = [pay EXCEPT ![p] = OfflinePayment(sess[r])]
    /\ PayWrites(r, p)
    /\ \E delivered \in {"none", "live"} : proofs' = [proofs EXCEPT ![p] = delivered]

\* From FastAPI 0.118 on the response leaves first ...
PayRespond(r, p) ==
    /\ sess[r].pc = "payFlushed"
    /\ Fresh(p)
    /\ pay' = [pay EXCEPT ![p] = OfflinePayment(sess[r])]
    /\ proofs' = [proofs EXCEPT ![p] = "live"]
    /\ sess' = [sess EXCEPT ![r].pc = "payResponded", ![r].tx = p]
    /\ UNCHANGED <<walletVars, topupVars, tokenVars, gs, txStatus, settlements,
                   queue, seVars>>

\* ... and get_db commits afterwards (or fails to: Rollback).
PayCommitAfterResponse(r) ==
    /\ sess[r].pc = "payResponded"
    /\ PayWrites(r, sess[r].tx)
    /\ UNCHANGED <<pay, proofs>>

\* The 24 hours of a proof pass.
ProofExpires(p) ==
    /\ proofs[p] = "live"
    /\ proofs' = [proofs EXCEPT ![p] = "expired"]
    /\ UNCHANGED <<walletVars, topupVars, tokenVars, gs, txVars, seVars, sess>>

\* A worker process is restarted: its requests die and its secure element,
\* which lives in memory, starts empty.
Restart(k) ==
    /\ restarts < MaxRestarts
    /\ restarts' = restarts + 1
    /\ destroyed' = [destroyed EXCEPT ![k] = {}]
    /\ sess' = [r \in Requests |-> IF sess[r].worker = k THEN Idle ELSE sess[r]]
    /\ UNCHANGED <<walletVars, topupVars, tokenVars, gs, txVars, proofs>>

-----------------------------------------------------------------------------
(* Emergency codes *)

CodeRead(r) ==
    /\ sess[r].pc = "idle"
    /\ \E w \in Wallets, a \in Amounts :
        /\ offline[w] >= a
        /\ sess' = [sess EXCEPT ![r] =
             [Idle EXCEPT !.pc = "codeWallet", !.w = w, !.off = offline[w], !.amount = a]]
    /\ UNCHANGED <<walletVars, topupVars, tokenVars, gs, txVars, proofs, seVars>>

CodeSelect(r) ==
    /\ sess[r].pc = "codeWallet"
    /\ \E S \in LargestFirst(FreeOf(sess[r].w), sess[r].amount) :
        sess' = [sess EXCEPT ![r].pc = "codeTokens", ![r].toks = S]
    /\ UNCHANGED <<walletVars, topupVars, tokenVars, gs, txVars, proofs, seVars>>

\* Only otp_code and the balance are written: the status read is not.
CodeCommit(r, c) ==
    LET s == sess[r]
    IN  /\ s.pc = "codeTokens"
        /\ codeAmt[c] = 0
        /\ RowsFree(r, {s.w}, s.toks)
        /\ OfflineOK(s.off - Value(s.toks))
        /\ offline' = [offline EXCEPT ![s.w] = s.off - Value(s.toks)]
        /\ otp' = [t \in Tokens |-> IF t \in s.toks THEN c ELSE otp[t]]
        /\ codeAmt' = [codeAmt EXCEPT ![c] = s.amount]
        /\ End(r)
        /\ UNCHANGED <<online, topupVars, tokStatus, owner, gs, txVars, proofs, seVars>>
=============================================================================
