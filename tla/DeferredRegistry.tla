-------------------------- MODULE DeferredRegistry --------------------------
(***************************************************************************)
(* Proofs that the registry properties of Deferred hold for any number of  *)
(* wallets, tokens, payments, requests, workers and restarts, that the     *)
(* services implement SpendRegistry, and how often a token can sign.       *)
(*                                                                         *)
(* First type correctness, in particular that no balance is ever negative  *)
(* and no offline balance exceeds the allowance.  TypeOK is not inductive: *)
(* requests that flushed their writes commit a balance computed from what  *)
(* they read earlier, so TInv records that it passed the check constraints *)
(* (SessionOK).                                                            *)
(*                                                                         *)
(* The inductive invariant of the rest relates the tables to each other    *)
(* (RowInv), what each request has read or staged to the tables            *)
(* (SessionInv), and the rows that flushed requests have locked (LockInv). *)
(* SigningInv, on top of it, relates the proofs that left the API to the   *)
(* keys that workers have destroyed.                                       *)
(***************************************************************************)
EXTENDS Deferred, FiniteSetTheorems, TLAPS

-----------------------------------------------------------------------------
(* Type correctness *)

\* A minted token belongs to a wallet.
OwnerInv == \A t \in Tokens : tokStatus[t] = "minted" => owner[t] \in Wallets

\* A flushed request has passed the check constraints of its wallet; a top-up
\* and a redemption about to read the payer have a wallet, a sync an item.
SessionOK(s) ==
    /\ s.pc \in {"payFlushed", "payResponded"} => OfflineOK(s.off - Value(s.toks))
    /\ s.pc \in {"emFlushed", "emPayee"} /\ s.use # s.toks => OfflineOK(s.off + Refund(s))
    /\ s.pc \in {"topup", "emTokens"} => s.w \in Wallets
    /\ s.pc = "syncTx" => s.tx \in TxIds

TInv == TypeOK /\ OwnerInv /\ \A r \in Requests : SessionOK(sess[r])

\* Everything but the sessions.
dbVars == <<walletVars, topupVars, tokenVars, gs, txVars, proofs, seVars>>

\* A fresh session is well typed.
LEMMA IdleType == Idle \in Session
  BY DEF Idle, Session, PCs, Outcomes

\* The net amount of a settlement is never negative.
LEMMA NetType == \A a \in Nat : Net(a) \in Nat
  BY DEF Net, Fee

\* An update keeps the type of a function, whatever its argument.
LEMMA UpdateType ==
  ASSUME NEW D, NEW R, NEW f \in [D -> R], NEW d, NEW v, d \in D => v \in R
  PROVE  [f EXCEPT ![d] = v] \in [D -> R]
  OBVIOUS

\* A session stays well typed when its request moves on to a step with a worker
\* or with a balance it has read.
LEMMA SessionWorker ==
  ASSUME NEW s \in Session, NEW k \in Workers
  PROVE  [s EXCEPT !.pc = "paySigned", !.worker = k] \in Session
<1>1. "paySigned" \in PCs
  BY DEF PCs
<1> QED BY <1>1 DEF Session

LEMMA SessionBalance ==
  ASSUME NEW s \in Session, NEW b \in Nat
  PROVE  [s EXCEPT !.pc = "emPayee", !.on = b] \in Session
<1>1. "emPayee" \in PCs
  BY DEF PCs
<1> QED BY <1>1 DEF Session

\* A step that gives request r the session s keeps the session part.
LEMMA SessionTypes ==
  ASSUME TInv, NEW r \in Requests, NEW s \in Session, SessionOK(s),
         sess' = [sess EXCEPT ![r] = s]
  PROVE  sess' \in [Requests -> Session] /\ (\A q \in Requests : SessionOK(sess[q]))'
<1>1. sess' \in [Requests -> Session]
  BY DEF TInv, TypeOK
<1>2. \A q \in Requests : SessionOK(sess'[q])
  BY DEF TInv, TypeOK
<1> QED BY <1>1, <1>2 DEF SessionOK, OfflineOK, Refund

\* A step that changes only the session of r.
LEMMA ReadTypes ==
  ASSUME TInv, NEW r \in Requests, NEW s \in Session, SessionOK(s),
         sess' = [sess EXCEPT ![r] = s], UNCHANGED dbVars
  PROVE  TInv'
<1>1. sess' \in [Requests -> Session] /\ (\A q \in Requests : SessionOK(sess[q]))'
  BY SessionTypes
<1>2. TypeOK'
  BY <1>1 DEF TInv, TypeOK, dbVars, walletVars, topupVars, tokenVars, txVars, seVars
<1>3. OwnerInv'
  BY DEF TInv, OwnerInv, dbVars, tokenVars
<1> QED BY <1>1, <1>2, <1>3 DEF TInv

\* A step that ends the request of r.
LEMMA EndTypes ==
  ASSUME TInv, NEW r \in Requests, End(r)
  PROVE  sess' \in [Requests -> Session] /\ (\A q \in Requests : SessionOK(sess[q]))'
<1>1. SessionOK(Idle)
  BY DEF SessionOK, Idle
<1> QED BY <1>1, IdleType, SessionTypes DEF End

\* Top-ups keep types and balance checks.
LEMMA TopUpTypes ==
  ASSUME TInv, NEW r \in Requests, TopUpStep(r)
  PROVE  TInv'
<1>1. CASE TopUpRead(r)
  <2>1. PICK w \in Wallets, b \in TopUpBodies :
          /\ offline[w] + b.alloc <= Allowance
          /\ sess' = [sess EXCEPT ![r] =
               [Idle EXCEPT !.pc = "topup", !.w = w, !.on = online[w],
                            !.off = offline[w], !.amount = b.amount, !.alloc = b.alloc]]
    BY <1>1 DEF TopUpRead
  <2> DEFINE s == [Idle EXCEPT !.pc = "topup", !.w = w, !.on = online[w],
                          !.off = offline[w], !.amount = b.amount, !.alloc = b.alloc]
  <2>2. b.amount \in Nat /\ b.alloc \in Nat /\ online[w] \in Nat /\ offline[w] \in Nat
    BY TopUpAssumption, NumbersAssumption DEF TInv, TypeOK
  <2>3. s \in Session
    BY <2>2 DEF Session, PCs, Outcomes, Idle
  <2>4. SessionOK(s)
    BY <2>3 DEF SessionOK, Idle
  <2> QED BY <1>1, <2>1, <2>3, <2>4, ReadTypes DEF TopUpRead, dbVars
<1>2. CASE TopUpCommit(r)
  <2> DEFINE s == sess[r]
  <2>1. s \in Session /\ s.amount \in Nat /\ s.alloc \in Nat /\ s.on \in Nat
    BY DEF TInv, TypeOK, Session
  <2>2. End(r) /\ OfflineOK(s.off + s.alloc)
    BY <1>2 DEF TopUpCommit
  <2>3. online' \in [Wallets -> Nat]
    <3>1. s.w \in Wallets =>
            (IF s.amount > s.alloc THEN s.on + (s.amount - s.alloc) ELSE online[s.w]) \in Nat
      BY <2>1 DEF TInv, TypeOK
    <3> QED BY <1>2, <3>1, UpdateType DEF TopUpCommit, TInv, TypeOK
  <2>4. offline' \in [Wallets -> 0..Allowance]
    <3>1. s.w \in Wallets =>
            (IF s.alloc > 0 THEN s.off + s.alloc ELSE offline[s.w]) \in 0..Allowance
      BY <2>2 DEF TInv, TypeOK, OfflineOK
    <3> QED BY <1>2, <3>1, UpdateType DEF TopUpCommit, TInv, TypeOK
  <2>5. funded' \in [Wallets -> Nat] /\ allocated' \in [Wallets -> Nat]
    <3>1. s.w \in Wallets => funded[s.w] + s.amount \in Nat /\ allocated[s.w] + s.alloc \in Nat
      BY <2>1 DEF TInv, TypeOK
    <3> QED BY <1>2, <3>1, UpdateType DEF TopUpCommit, TInv, TypeOK
  <2>6. tokStatus' \in [Tokens -> TokenStatus] /\ owner' \in [Tokens -> Wallets \cup {None}]
    BY <1>2, <2>1 DEF TopUpCommit, TInv, TypeOK, TokenStatus, Session
  <2>7. sess' \in [Requests -> Session] /\ (\A q \in Requests : SessionOK(sess[q]))'
    BY <2>2, EndTypes
  <2>8. OwnerInv'
    BY <1>2 DEF TopUpCommit, TInv, OwnerInv, SessionOK
  <2> QED
    BY <1>2, <2>3, <2>4, <2>5, <2>6, <2>7, <2>8 DEF TopUpCommit, TInv, TypeOK, txVars, seVars
<1> QED BY <1>1, <1>2 DEF TopUpStep

\* Payments keep types and balance checks.
LEMMA PaymentTypes ==
  ASSUME TInv, NEW r \in Requests, PaymentStep(r)
  PROVE  TInv'
<1> DEFINE s == sess[r]
<1>0. s \in Session /\ s.amount \in Nat /\ s.toks \in SUBSET Tokens
  BY DEF TInv, TypeOK, Session
<1>1. CASE OnlineRead(r)
  <2>1. PICK w \in Wallets, a \in Amounts :
          sess' = [sess EXCEPT ![r] =
             [Idle EXCEPT !.pc = "online", !.w = w, !.on = online[w], !.amount = a]]
    BY <1>1 DEF OnlineRead
  <2> DEFINE n == [Idle EXCEPT !.pc = "online", !.w = w, !.on = online[w], !.amount = a]
  <2>2. online[w] \in Nat /\ a \in Nat
    BY NumbersAssumption DEF TInv, TypeOK
  <2>3. n \in Session
    BY <2>2 DEF Session, PCs, Outcomes, Idle
  <2>4. SessionOK(n)
    BY DEF SessionOK, Idle
  <2> QED BY <1>1, <2>1, <2>3, <2>4, ReadTypes DEF OnlineRead, dbVars
<1>2. CASE PayRead(r)
  <2>1. PICK w \in Wallets, a \in Amounts :
          sess' = [sess EXCEPT ![r] =
             [Idle EXCEPT !.pc = "payWallet", !.w = w, !.off = offline[w], !.amount = a]]
    BY <1>2 DEF PayRead
  <2> DEFINE n == [Idle EXCEPT !.pc = "payWallet", !.w = w, !.off = offline[w], !.amount = a]
  <2>2. offline[w] \in Nat /\ a \in Nat
    BY NumbersAssumption DEF TInv, TypeOK
  <2>3. n \in Session
    BY <2>2 DEF Session, PCs, Outcomes, Idle
  <2>4. SessionOK(n)
    BY DEF SessionOK, Idle
  <2> QED BY <1>2, <2>1, <2>3, <2>4, ReadTypes DEF PayRead, dbVars
<1>3. CASE CodeRead(r)
  <2>1. PICK w \in Wallets, a \in Amounts :
          sess' = [sess EXCEPT ![r] =
             [Idle EXCEPT !.pc = "codeWallet", !.w = w, !.off = offline[w], !.amount = a]]
    BY <1>3 DEF CodeRead
  <2> DEFINE n == [Idle EXCEPT !.pc = "codeWallet", !.w = w, !.off = offline[w], !.amount = a]
  <2>2. offline[w] \in Nat /\ a \in Nat
    BY NumbersAssumption DEF TInv, TypeOK
  <2>3. n \in Session
    BY <2>2 DEF Session, PCs, Outcomes, Idle
  <2>4. SessionOK(n)
    BY DEF SessionOK, Idle
  <2> QED BY <1>3, <2>1, <2>3, <2>4, ReadTypes DEF CodeRead, dbVars
<1>4. CASE PaySelect(r)
  <2>1. PICK S \in Selections(MintedOf(s.w), s.amount) :
          sess' = [sess EXCEPT ![r].pc = "paySelected", ![r].toks = S]
    BY <1>4 DEF PaySelect
  <2>2. S \in SUBSET Tokens
    BY DEF Selections, MintedOf
  <2> DEFINE n == [s EXCEPT !.pc = "paySelected", !.toks = S]
  <2>3. n \in Session
    BY <1>0, <2>2 DEF Session, PCs
  <2>4. SessionOK(n)
    BY <1>0 DEF Session, SessionOK
  <2>5. sess' = [sess EXCEPT ![r] = n]
    BY <2>1
  <2> QED BY <1>4, <2>3, <2>4, <2>5, ReadTypes DEF PaySelect, dbVars
<1>5. CASE CodeSelect(r)
  <2>1. PICK S \in LargestFirst(FreeOf(s.w), s.amount) :
          sess' = [sess EXCEPT ![r].pc = "codeTokens", ![r].toks = S]
    BY <1>5 DEF CodeSelect
  <2>2. S \in SUBSET Tokens
    BY DEF LargestFirst, GreedyPrefixes, FreeOf, MintedOf
  <2> DEFINE n == [s EXCEPT !.pc = "codeTokens", !.toks = S]
  <2>3. n \in Session
    BY <1>0, <2>2 DEF Session, PCs
  <2>4. SessionOK(n)
    BY <1>0 DEF Session, SessionOK
  <2>5. sess' = [sess EXCEPT ![r] = n]
    BY <2>1
  <2> QED BY <1>5, <2>3, <2>4, <2>5, ReadTypes DEF CodeSelect, dbVars
<1>6. CASE PayFlush(r)
  <2> DEFINE n == [s EXCEPT !.pc = "payFlushed"]
  <2>1. n \in Session /\ SessionOK(n)
    BY <1>0, <1>6 DEF PayFlush, Session, PCs, SessionOK
  <2>2. sess' = [sess EXCEPT ![r] = n]
    BY <1>6 DEF PayFlush
  <2> QED BY <1>6, <2>1, <2>2, ReadTypes DEF PayFlush, dbVars
<1>7. ASSUME NEW k \in Workers, PaySign(r, k) PROVE TInv'
  <2> DEFINE n == [s EXCEPT !.pc = "paySigned", !.worker = k]
  <2>0. n \in Session
    BY <1>0, SessionWorker
  <2>1. SessionOK(n)
    <3>1. n.pc = "paySigned"
      BY <1>0 DEF Session
    <3> HIDE DEF n
    <3> QED BY <3>1 DEF SessionOK
  <2>2. sess' = [sess EXCEPT ![r] = n]
    BY <1>7 DEF PaySign
  <2>3. sess' \in [Requests -> Session] /\ (\A q \in Requests : SessionOK(sess[q]))'
    BY <2>0, <2>1, <2>2, SessionTypes
  <2>4. destroyed' \in [Workers -> SUBSET Tokens]
    BY <1>0, <1>7 DEF PaySign, SignAndDestroy, TInv, TypeOK
  <2> QED
    BY <1>7, <2>3, <2>4 DEF PaySign, TInv, TypeOK, OwnerInv, walletVars, topupVars, tokenVars, txVars
<1>8. ASSUME NEW k \in Workers, PaySignFails(r, k) PROVE TInv'
  <2>1. PICK P \in PrefixesBefore(s.toks, destroyed[k]) :
          destroyed' = [destroyed EXCEPT ![k] = @ \cup P]
    BY <1>8 DEF PaySignFails, SignAndDestroy
  <2>2. P \in SUBSET Tokens
    BY <1>0 DEF PrefixesBefore
  <2>3. destroyed' \in [Workers -> SUBSET Tokens]
    BY <2>1, <2>2 DEF TInv, TypeOK
  <2>4. sess' \in [Requests -> Session] /\ (\A q \in Requests : SessionOK(sess[q]))'
    BY <1>8, EndTypes DEF PaySignFails
  <2> QED
    BY <1>8, <2>3, <2>4 DEF PaySignFails, TInv, TypeOK, OwnerInv, walletVars, topupVars, tokenVars, txVars
<1>9. ASSUME NEW p \in TxIds, OnlineCommit(r, p) PROVE TInv'
  <2>1. End(r) /\ s.on - s.amount \in Nat
    BY <1>9 DEF OnlineCommit, OnlineOK
  <2>2. online' \in [Wallets -> Nat]
    BY <1>9, <2>1, UpdateType DEF OnlineCommit, TInv, TypeOK
  <2>3. pay' \in [TxIds -> Payment]
    <3>1. [mode |-> "online", wallet |-> s.w, amount |-> s.amount, toks |-> {}] \in Payment
      BY <1>0 DEF Payment, TxMode, Session
    <3> QED BY <1>9, <3>1, UpdateType DEF OnlineCommit, TInv, TypeOK
  <2>4. txStatus' \in [TxIds -> TxStatus]
    BY <1>9 DEF OnlineCommit, TInv, TypeOK, TxStatus
  <2>5. sess' \in [Requests -> Session] /\ (\A q \in Requests : SessionOK(sess[q]))'
    BY <2>1, EndTypes
  <2> QED
    BY <1>9, <2>2, <2>3, <2>4, <2>5
       DEF OnlineCommit, TInv, TypeOK, OwnerInv, topupVars, tokenVars, seVars
<1>10. OfflinePayment(s) \in Payment
  BY <1>0 DEF OfflinePayment, Payment, TxMode, Session
<1>11. ASSUME NEW p, PayWrites(r, p), s.pc \in {"payFlushed", "payResponded"},
              pay' \in [TxIds -> Payment], proofs' \in [TxIds -> {"none", "live", "expired"}]
       PROVE  TInv'
  <2>1. s.off - Value(s.toks) \in 0..Allowance
    BY <1>11 DEF TInv, SessionOK, OfflineOK
  <2>2. offline' \in [Wallets -> 0..Allowance]
    BY <1>11, <2>1, UpdateType DEF PayWrites, TInv, TypeOK
  <2>3. tokStatus' \in [Tokens -> TokenStatus]
    BY <1>11 DEF PayWrites, TInv, TypeOK, TokenStatus
  <2>4. txStatus' \in [TxIds -> TxStatus] /\ queue' \in [TxIds -> SyncStatus]
    BY <1>11 DEF PayWrites, TInv, TypeOK, TxStatus, SyncStatus
  <2>5. sess' \in [Requests -> Session] /\ (\A q \in Requests : SessionOK(sess[q]))'
    BY <1>11, EndTypes DEF PayWrites
  <2> QED
    BY <1>11, <2>2, <2>3, <2>4, <2>5 DEF PayWrites, TInv, TypeOK, OwnerInv, topupVars, seVars
<1>12. ASSUME NEW p \in TxIds, PayCommit(r, p) PROVE TInv'
  <2>1. pay' \in [TxIds -> Payment]
    BY <1>10, <1>12, UpdateType DEF PayCommit, TInv, TypeOK
  <2>2. proofs' \in [TxIds -> {"none", "live", "expired"}]
    BY <1>12 DEF PayCommit, TInv, TypeOK
  <2> QED BY <1>11, <1>12, <2>1, <2>2 DEF PayCommit
<1>13. ASSUME NEW p \in TxIds, PayRespond(r, p) PROVE TInv'
  <2> DEFINE n == [s EXCEPT !.pc = "payResponded", !.tx = p]
  <2>1. n \in Session
    BY <1>0 DEF Session, PCs
  <2>2. SessionOK(n)
    BY <1>0, <1>13 DEF PayRespond, TInv, SessionOK, Session
  <2>3. sess' = [sess EXCEPT ![r] = n]
    BY <1>13 DEF PayRespond
  <2>4. sess' \in [Requests -> Session] /\ (\A q \in Requests : SessionOK(sess[q]))'
    BY <2>1, <2>2, <2>3, SessionTypes
  <2>5. pay' \in [TxIds -> Payment]
    BY <1>10, <1>13, UpdateType DEF PayRespond, TInv, TypeOK
  <2>6. proofs' \in [TxIds -> {"none", "live", "expired"}]
    BY <1>13 DEF PayRespond, TInv, TypeOK
  <2> QED
    BY <1>13, <2>4, <2>5, <2>6
       DEF PayRespond, TInv, TypeOK, OwnerInv, walletVars, topupVars, tokenVars, seVars
<1>14. CASE PayCommitAfterResponse(r)
  BY <1>11, <1>14 DEF PayCommitAfterResponse, TInv, TypeOK
<1>15. ASSUME NEW c \in Codes, CodeCommit(r, c) PROVE TInv'
  <2>1. End(r) /\ s.off - Value(s.toks) \in 0..Allowance
    BY <1>15 DEF CodeCommit, OfflineOK
  <2>2. offline' \in [Wallets -> 0..Allowance]
    BY <1>15, <2>1, UpdateType DEF CodeCommit, TInv, TypeOK
  <2>3. otp' \in [Tokens -> Codes \cup {None, "spent"}]
    BY <1>15 DEF CodeCommit, TInv, TypeOK
  <2>4. codeAmt' \in [Codes -> Nat]
    BY <1>0, <1>15, UpdateType DEF CodeCommit, TInv, TypeOK
  <2>5. sess' \in [Requests -> Session] /\ (\A q \in Requests : SessionOK(sess[q]))'
    BY <2>1, EndTypes
  <2> QED
    BY <1>15, <2>2, <2>3, <2>4, <2>5 DEF CodeCommit, TInv, TypeOK, OwnerInv, topupVars, txVars, seVars
<1> QED
  BY <1>1, <1>2, <1>3, <1>4, <1>5, <1>6, <1>7, <1>8, <1>9, <1>12, <1>13, <1>14, <1>15
     DEF PaymentStep

\* Settlements keep types and balance checks.
LEMMA SettlementTypes ==
  ASSUME TInv, NEW r \in Requests, SettlementStep(r)
  PROVE  TInv'
<1> DEFINE s == sess[r]
<1>0. s \in Session /\ s.amount \in Nat /\ s.on \in Nat /\ s.toks \in SUBSET Tokens
  BY DEF TInv, TypeOK, Session
<1>1. ASSUME NEW p \in TxIds, SettleCheck(r, p) PROVE TInv'
  <2> DEFINE n == [Idle EXCEPT !.pc = "settle", !.tx = p, !.toks = pay[p].toks,
                               !.seen = (txStatus[p] # "none")]
  <2>1. pay[p].toks \in SUBSET Tokens
    BY DEF TInv, TypeOK, Payment
  <2>2. n \in Session /\ SessionOK(n)
    BY <2>1, (txStatus[p] # "none") \in BOOLEAN DEF Session, PCs, Outcomes, Idle, SessionOK
  <2>3. sess' = [sess EXCEPT ![r] = n]
    BY <1>1 DEF SettleCheck
  <2> QED BY <1>1, <2>2, <2>3, ReadTypes DEF SettleCheck, dbVars
<1>2. CASE SettleCommit(r)
  <2>1. End(r) /\ HasTransaction(s.tx)
    BY <1>2 DEF SettleCommit
  <2>2. gs' \in [Tokens -> TxIds \cup {None}]
    BY <1>0, <1>2 DEF SettleCommit, TInv, TypeOK, Session
  <2>3. tokStatus' \in [Tokens -> TokenStatus]
    BY <1>2 DEF SettleCommit, TInv, TypeOK, TokenStatus
  <2>4. txStatus' \in [TxIds -> TxStatus]
    <3>1. s.tx \in TxIds => (IF s.seen THEN "succeeded" ELSE txStatus[s.tx]) \in TxStatus
      BY DEF TInv, TypeOK, TxStatus
    <3> QED BY <1>2, <3>1, UpdateType DEF SettleCommit, TInv, TypeOK
  <2>5. settlements' \in [TxIds -> Nat]
    <3>1. s.tx \in TxIds => settlements[s.tx] + 1 \in Nat
      BY DEF TInv, TypeOK
    <3> QED BY <1>2, <3>1, UpdateType DEF SettleCommit, TInv, TypeOK
  <2>6. sess' \in [Requests -> Session] /\ (\A q \in Requests : SessionOK(sess[q]))'
    BY <2>1, EndTypes
  <2> QED
    BY <1>2, <2>2, <2>3, <2>4, <2>5, <2>6
       DEF SettleCommit, TInv, TypeOK, OwnerInv, walletVars, topupVars, seVars
<1>3. ASSUME NEW c \in Codes, EmergencyQuery(r, c) PROVE TInv'
  <2> DEFINE found == {t \in Tokens : otp[t] = c /\ tokStatus[t] = "minted"}
  <2>0. PICK a \in Amounts, payee \in Wallets \cup {None} :
          \E use \in SmallestFirst(found, a), first \in found :
            sess' = [sess EXCEPT ![r] =
              [Idle EXCEPT !.pc = IF use = found THEN "emReady" ELSE "emTokens",
                           !.w = owner[first], !.payee = payee, !.amount = a,
                           !.toks = found, !.use = use, !.code = c]]
    BY <1>3 DEF EmergencyQuery
  <2>1. PICK use \in SmallestFirst(found, a), first \in found :
          sess' = [sess EXCEPT ![r] =
            [Idle EXCEPT !.pc = IF use = found THEN "emReady" ELSE "emTokens",
                         !.w = owner[first], !.payee = payee, !.amount = a,
                         !.toks = found, !.use = use, !.code = c]]
    BY <2>0
  <2> DEFINE n == [Idle EXCEPT !.pc = IF use = found THEN "emReady" ELSE "emTokens",
                               !.w = owner[first], !.payee = payee, !.amount = a,
                               !.toks = found, !.use = use, !.code = c]
  <2>2. /\ a \in Nat /\ found \in SUBSET Tokens /\ use \in SUBSET Tokens
        /\ owner[first] \in Wallets
    BY NumbersAssumption DEF SmallestFirst, GreedyPrefixes, TInv, OwnerInv
  <2>3. n \in Session /\ SessionOK(n)
    BY <2>2 DEF Session, PCs, Outcomes, Idle, SessionOK
  <2> QED BY <1>3, <2>1, <2>3, ReadTypes DEF EmergencyQuery, dbVars
<1>4. CASE EmergencyReadPayer(r)
  <2> DEFINE n == [s EXCEPT !.pc = "emReady", !.on = online[s.w], !.off = offline[s.w]]
  <2>1. online[s.w] \in Nat /\ offline[s.w] \in Nat
    BY <1>4, NumbersAssumption DEF EmergencyReadPayer, TInv, TypeOK, SessionOK
  <2>2. n \in Session
    BY <1>0, <2>1 DEF Session, PCs
  <2>3. SessionOK(n)
    BY <1>0 DEF Session, SessionOK
  <2> QED BY <1>4, <2>2, <2>3, ReadTypes DEF EmergencyReadPayer, dbVars
<1>5. CASE EmergencyFlush(r)
  <2> DEFINE n == [s EXCEPT !.pc = "emFlushed"]
  <2>1. n \in Session
    BY <1>0 DEF Session, PCs
  <2>2. SessionOK(n)
    BY <1>0, <1>5 DEF EmergencyFlush, SessionOK, Refund, Session
  <2>3. sess' = [sess EXCEPT ![r] = n]
    BY <1>5 DEF EmergencyFlush
  <2> QED BY <1>5, <2>1, <2>2, <2>3, ReadTypes DEF EmergencyFlush, dbVars
<1>6. CASE EmergencyReadPayee(r)
  <2> DEFINE n == [s EXCEPT !.pc = "emPayee",
                            !.on = IF s.payee = s.w /\ s.use # s.toks
                                   THEN @ ELSE online[s.payee]]
  <2>1. (IF s.payee = s.w /\ s.use # s.toks THEN s.on ELSE online[s.payee]) \in Nat
    BY <1>0, <1>6 DEF EmergencyReadPayee, TInv, TypeOK, Session
  <2>2. n \in Session
    BY <1>0, <2>1, SessionBalance
  <2>3. SessionOK(n)
    BY <1>0, <1>6 DEF EmergencyReadPayee, TInv, SessionOK, Refund, Session
  <2> QED BY <1>6, <2>2, <2>3, ReadTypes DEF EmergencyReadPayee, dbVars
<1>7. ASSUME NEW p \in TxIds, EmergencyCommit(r, p) PROVE TInv'
  <2>1. End(r) /\ s.pc \in {"emFlushed", "emPayee"} /\ s.use \in SUBSET Tokens
    BY <1>0, <1>7 DEF EmergencyCommit, Session
  <2>2. gs' \in [Tokens -> TxIds \cup {None}]
    BY <1>7 DEF EmergencyCommit, TInv, TypeOK
  <2>3. tokStatus' \in [Tokens -> TokenStatus] /\ otp' \in [Tokens -> Codes \cup {None, "spent"}]
    BY <1>7 DEF EmergencyCommit, TInv, TypeOK, TokenStatus
  <2>4. offline' \in [Wallets -> 0..Allowance]
    <3>1. s.w \in Wallets =>
            (IF s.use # s.toks THEN s.off + Refund(s) ELSE offline[s.w]) \in 0..Allowance
      BY <2>1 DEF TInv, TypeOK, SessionOK, OfflineOK
    <3> QED BY <1>7, <3>1, UpdateType DEF EmergencyCommit, TInv, TypeOK
  <2>5. online' \in [Wallets -> Nat]
    BY <1>0, <1>7, NetType DEF EmergencyCommit, TInv, TypeOK
  <2>6. pay' \in [TxIds -> Payment]
    <3>1. EmergencyPayment(s) \in Payment
      BY <1>0 DEF EmergencyPayment, Payment, TxMode, Session
    <3> QED BY <1>7, <3>1, UpdateType DEF EmergencyCommit, TInv, TypeOK
  <2>7. txStatus' \in [TxIds -> TxStatus] /\ settlements' \in [TxIds -> Nat]
    BY <1>7 DEF EmergencyCommit, TInv, TypeOK, TxStatus
  <2>8. sess' \in [Requests -> Session] /\ (\A q \in Requests : SessionOK(sess[q]))'
    BY <2>1, EndTypes
  <2> QED
    BY <1>7, <2>2, <2>3, <2>4, <2>5, <2>6, <2>7, <2>8
       DEF EmergencyCommit, TInv, TypeOK, OwnerInv, topupVars, seVars
<1> QED
  BY <1>1, <1>2, <1>3, <1>4, <1>5, <1>6, <1>7 DEF SettlementStep

\* Sync keeps types and balance checks.
LEMMA SyncTypes ==
  ASSUME TInv, NEW r \in Requests, SyncStep(r)
  PROVE  TInv'
<1> DEFINE s == sess[r]
<1>0. /\ s \in Session /\ s.items \in SUBSET TxIds /\ s.tx \in TxIds \cup {None}
      /\ s.staged \in [TxIds -> Outcomes] /\ s.gsNew \in [Tokens -> TxIds \cup {None}]
  BY DEF TInv, TypeOK, Session
<1>1. ASSUME NEW w \in Wallets \cup {None}, SyncFetch(r, w) PROVE TInv'
  <2>1. PICK B \in Batches(w) :
          sess' = [sess EXCEPT ![r] = [Idle EXCEPT !.pc = "sync", !.items = B]]
    BY <1>1 DEF SyncFetch
  <2> DEFINE n == [Idle EXCEPT !.pc = "sync", !.items = B]
  <2>2. B \in SUBSET TxIds
    BY DEF Batches
  <2>3. n \in Session
    BY <2>2 DEF Session, PCs, Outcomes, Idle
  <2>4. SessionOK(n)
    BY DEF SessionOK, Idle
  <2> QED BY <1>1, <2>1, <2>3, <2>4, ReadTypes DEF SyncFetch, dbVars
<1>2. ASSUME NEW p \in TxIds, SyncLoad(r, p) PROVE TInv'
  <2>0. sess' = [sess EXCEPT ![r] =
          IF AlreadySettled(p)
          THEN [s EXCEPT !.items = s.items \ {p}, !.staged = [s.staged EXCEPT ![p] = "already"]]
          ELSE [s EXCEPT !.items = s.items \ {p}, !.pc = "syncTx", !.tx = p]]
    BY <1>2 DEF SyncLoad
  <2>1. CASE AlreadySettled(p)
    <3> DEFINE n == [s EXCEPT !.items = s.items \ {p},
                              !.staged = [s.staged EXCEPT ![p] = "already"]]
    <3>1. [s.staged EXCEPT ![p] = "already"] \in [TxIds -> Outcomes]
      BY <1>0 DEF Outcomes
    <3>2. n \in Session
      BY <1>0, <3>1 DEF Session
    <3>3. SessionOK(n)
      BY <1>0, <1>2 DEF SyncLoad, Session, SessionOK
    <3>4. sess' = [sess EXCEPT ![r] = n]
      BY <2>0, <2>1
    <3> QED BY <1>2, <3>2, <3>3, <3>4, ReadTypes DEF SyncLoad, dbVars
  <2>2. CASE ~AlreadySettled(p)
    <3> DEFINE n == [s EXCEPT !.items = s.items \ {p}, !.pc = "syncTx", !.tx = p]
    <3>1. n \in Session
      BY <1>0 DEF Session, PCs
    <3>2. SessionOK(n)
      BY <1>0 DEF Session, SessionOK
    <3>3. sess' = [sess EXCEPT ![r] = n]
      BY <2>0, <2>2
    <3> QED BY <1>2, <3>1, <3>2, <3>3, ReadTypes DEF SyncLoad, dbVars
  <2> QED BY <2>1, <2>2
<1>3. ASSUME NEW T \in SUBSET Tokens, NEW outcome \in Outcomes, Stage(r, T, outcome),
             UNCHANGED dbVars
      PROVE  TInv'
  <2> DEFINE G == [t \in Tokens |-> IF t \in T THEN s.tx ELSE s.gsNew[t]]
             n == [s EXCEPT !.pc = "sync", !.tx = None, !.staged[s.tx] = outcome, !.gsNew = G]
  <2>1. G \in [Tokens -> TxIds \cup {None}]
    BY <1>0
  <2>2. [s.staged EXCEPT ![s.tx] = outcome] \in [TxIds -> Outcomes]
    BY <1>0
  <2>3. n \in Session
    BY <1>0, <2>1, <2>2 DEF Session, PCs
  <2>4. SessionOK(n)
    BY <1>0 DEF Session, SessionOK
  <2>5. sess' = [sess EXCEPT ![r] = n]
    BY <1>3 DEF Stage
  <2> QED BY <1>3, <2>3, <2>4, <2>5, ReadTypes
<1>4. CASE SyncItemOk(r)
  <2>1. pay[s.tx].toks \in SUBSET Tokens
    BY <1>4 DEF SyncItemOk, TInv, TypeOK, SessionOK, Payment
  <2> QED BY <1>3, <1>4, <2>1 DEF SyncItemOk, Outcomes, dbVars
<1>5. CASE SyncItemFails(r)
  <2>1. pay[s.tx].toks \in SUBSET Tokens
    BY <1>5 DEF SyncItemFails, TInv, TypeOK, SessionOK, Payment
  <2>2. PICK P \in PrefixesBefore(pay[s.tx].toks, Registered(s)) : Stage(r, P, "failed")
    BY <1>5 DEF SyncItemFails
  <2>3. P \in SUBSET Tokens
    BY <2>1 DEF PrefixesBefore
  <2> QED BY <1>3, <1>5, <2>2, <2>3 DEF SyncItemFails, Outcomes, dbVars
<1>6. CASE SyncCommit(r)
  <2>1. gs' \in [Tokens -> TxIds \cup {None}]
    BY <1>0, <1>6 DEF SyncCommit, TInv, TypeOK
  <2>2. txStatus' \in [TxIds -> TxStatus]
    BY <1>6 DEF SyncCommit, TInv, TypeOK, TxStatus
  <2>3. queue' \in [TxIds -> SyncStatus]
    BY <1>6 DEF SyncCommit, ItemStatus, TInv, TypeOK, SyncStatus
  <2>4. sess' \in [Requests -> Session] /\ (\A q \in Requests : SessionOK(sess[q]))'
    BY <1>6, EndTypes DEF SyncCommit
  <2> QED
    BY <1>6, <2>1, <2>2, <2>3, <2>4
       DEF SyncCommit, TInv, TypeOK, OwnerInv, walletVars, topupVars, tokenVars, seVars
<1> QED
  BY <1>1, <1>2, <1>4, <1>5, <1>6 DEF SyncStep

\* The initial state satisfies the invariant.
LEMMA InitTypes == Init => TInv
<1> SUFFICES ASSUME Init PROVE TInv
  OBVIOUS
<1>1. Unused \in Payment
  BY DEF Unused, Payment, TxMode
<1>2. SessionOK(Idle)
  BY DEF SessionOK, Idle
<1>3. TypeOK
  BY <1>1, IdleType, NumbersAssumption
     DEF Init, TypeOK, TokenStatus, TxStatus, SyncStatus
<1>4. OwnerInv /\ \A r \in Requests : SessionOK(sess[r])
  BY <1>2 DEF Init, OwnerInv
<1> QED BY <1>3, <1>4 DEF TInv

\* Every step preserves the invariant.
LEMMA NextTypes == TInv /\ [Next]_vars => TInv'
<1> SUFFICES ASSUME TInv, [Next]_vars PROVE TInv'
  OBVIOUS
<1>1. ASSUME NEW r \in Requests, Rollback(r) PROVE TInv'
  <2>1. SessionOK(Idle)
    BY DEF SessionOK, Idle
  <2> QED BY <1>1, <2>1, IdleType, ReadTypes DEF Rollback, End, dbVars
<1>2. ASSUME NEW p \in TxIds, ProofExpires(p) PROVE TInv'
  <2>1. proofs' \in [TxIds -> {"none", "live", "expired"}]
    BY <1>2 DEF ProofExpires, TInv, TypeOK
  <2>2. \A r \in Requests : SessionOK(sess'[r])
    BY <1>2 DEF ProofExpires, TInv
  <2> QED
    BY <1>2, <2>1, <2>2 DEF ProofExpires, TInv, TypeOK, OwnerInv, SessionOK, OfflineOK, Refund,
       walletVars, topupVars, tokenVars, txVars, seVars
<1>3. ASSUME NEW k \in Workers, Restart(k) PROVE TInv'
  <2>1. SessionOK(Idle)
    BY DEF SessionOK, Idle
  <2>2. sess' \in [Requests -> Session] /\ \A r \in Requests : SessionOK(sess'[r])
    BY <1>3, <2>1, IdleType DEF Restart, TInv, TypeOK
  <2>3. destroyed' \in [Workers -> SUBSET Tokens] /\ restarts' \in 0..MaxRestarts
    BY <1>3, NumbersAssumption DEF Restart, TInv, TypeOK
  <2>4. (\A r \in Requests : SessionOK(sess[r]))'
    BY <2>2 DEF SessionOK, OfflineOK, Refund
  <2> QED
    BY <1>3, <2>2, <2>3, <2>4 DEF Restart, TInv, TypeOK, OwnerInv,
       walletVars, topupVars, tokenVars, txVars
<1>4. CASE UNCHANGED vars
  BY <1>4 DEF vars, TInv, TypeOK, OwnerInv, SessionOK, OfflineOK, Refund,
     walletVars, topupVars, tokenVars, txVars, seVars
<1> QED
  BY <1>1, <1>2, <1>3, <1>4, TopUpTypes, PaymentTypes, SettlementTypes, SyncTypes DEF Next

\* The tables and sessions of the API keep their types; in particular the check
\* constraints on wallets hold of every committed balance, whatever requests
\* interleave: no balance is negative, no offline balance exceeds the allowance.
THEOREM TypeCorrect == Spec => []TypeOK
<1>1. TInv => TypeOK
  BY DEF TInv
<1> QED BY <1>1, InitTypes, NextTypes, PTL DEF Spec

-----------------------------------------------------------------------------
(* The registry *)

Spent == {"spent", "settled"}

\* An unused payment id has no row anywhere; a payment with tokens has tokens
\* worth its amount; a queued or delivered payment is an offline payment.
PaymentRows ==
    \A p \in TxIds :
        /\ pay[p].mode = "unused" =>
             /\ pay[p].toks = {} /\ txStatus[p] = "none" /\ settlements[p] = 0
             /\ queue[p] = "none" /\ proofs[p] = "none"
        /\ pay[p].mode \in {"offline", "emergency"} =>
             /\ pay[p].toks # {}
             /\ Value(pay[p].toks) >= pay[p].amount
        /\ pay[p].mode = "offline" /\ txStatus[p] # "none" =>
             \A t \in pay[p].toks : tokStatus[t] \in Spent
        /\ queue[p] # "none" => pay[p].mode = "offline" /\ txStatus[p] # "none"
        /\ proofs[p] # "none" => pay[p].mode = "offline"

SettlementRows ==
    \A p \in TxIds :
        /\ settlements[p] <= 1
        /\ settlements[p] > 0 =>
             pay[p].mode \in {"offline", "emergency"} /\ txStatus[p] # "none"

RowInv == PaymentRows /\ SettlementRows /\ GuaranteeBacked /\ RegisteredNotSpendable

\* Offline payments: the selection covers the amount; once the proof is out,
\* the payment id stands for it.
PayInv(s) ==
    /\ s.pc \in {"paySelected", "paySigned", "payFlushed", "payResponded"} =>
         /\ s.toks # {}
         /\ Value(s.toks) >= s.amount
    /\ s.pc = "payResponded" =>
         s.tx \in TxIds /\ pay[s.tx].mode = "offline" /\ pay[s.tx].toks = s.toks

SettleInv(s) ==
    s.pc = "settle" =>
        s.tx \in TxIds /\ pay[s.tx].mode = "offline" /\ pay[s.tx].toks = s.toks

\* Emergency redemptions: once flushed, the tokens it consumes stay unspent.
EmergencyInv(s) ==
    /\ s.pc \in {"emTokens", "emReady", "emFlushed", "emPayee"} =>
         /\ s.use # {} /\ s.use \subseteq s.toks
         /\ Value(s.use) >= s.amount
    /\ s.pc \in {"emFlushed", "emPayee"} => NotSpent(s.use)

\* Sync: every item and staged registry row belongs to a queued payment, and an
\* item staged as synced has all its tokens staged.
SyncInv(s) ==
    /\ \A p \in s.items : queue[p] # "none"
    /\ s.pc = "syncTx" => s.tx \in TxIds /\ queue[s.tx] # "none"
    /\ \A p \in TxIds :
         /\ s.staged[p] # "none" => queue[p] # "none"
         /\ s.staged[p] = "ok" => \A t \in pay[p].toks : s.gsNew[t] = p
    /\ \A t \in Tokens : s.gsNew[t] # None =>
         t \in pay[s.gsNew[t]].toks /\ queue[s.gsNew[t]] # "none"

SessInv(s) == PayInv(s) /\ SettleInv(s) /\ EmergencyInv(s) /\ SyncInv(s)

SessionInv == \A r \in Requests : SessInv(sess[r])

\* Flushed requests hold disjoint sets of token rows.
LockInv ==
    \A r, q \in Requests :
        r # q /\ sess[r].pc \in Flushed /\ sess[q].pc \in Flushed
          => sess[r].toks \cap sess[q].toks = {}

IInv == TInv /\ RowInv /\ SessionInv /\ LockInv

-----------------------------------------------------------------------------
(* How steps affect the parts of the invariant *)

\* The tables the registry properties speak of.
regVars == <<tokStatus, gs, pay, txStatus, settlements, queue, proofs>>

\* Payment ids keep their meaning, and queue items are never deleted.
Grows ==
    \A p \in TxIds : /\ pay[p].mode # "unused" => pay'[p] = pay[p]
                     /\ queue[p] # "none" => queue'[p] # "none"

\* What a request has read or staged stays true while other requests commit,
\* as long as they do not spend the tokens of a flushed redemption.
LEMMA StableSession ==
  ASSUME RowInv, Grows, NEW s \in Session, SessInv(s),
         s.pc \in {"emFlushed", "emPayee"} => \A t \in s.use : gs'[t] = gs[t]
  PROVE  SessInv(s)'
<1>1. PayInv(s)'
  BY DEF SessInv, PayInv, Grows
<1>2. SettleInv(s)'
  BY DEF SessInv, SettleInv, Grows
<1>3. EmergencyInv(s)'
  BY DEF SessInv, EmergencyInv, NotSpent
<1>4. SyncInv(s)'
  <2>0. \A p \in TxIds : queue[p] # "none" => queue'[p] # "none" /\ pay'[p] = pay[p]
    BY DEF RowInv, PaymentRows, Grows
  <2>1. s.items \subseteq TxIds /\ s.gsNew \in [Tokens -> TxIds \cup {None}]
    BY DEF Session
  <2>2. (\A p \in s.items : queue[p] # "none")'
    BY <2>0, <2>1 DEF SessInv, SyncInv
  <2>3. (s.pc = "syncTx" => s.tx \in TxIds /\ queue[s.tx] # "none")'
    BY <2>0 DEF SessInv, SyncInv
  <2>4. (\A p \in TxIds :
          /\ s.staged[p] # "none" => queue[p] # "none"
          /\ s.staged[p] = "ok" => \A t \in pay[p].toks : s.gsNew[t] = p)'
    BY <2>0 DEF SessInv, SyncInv
  <2>5. (\A t \in Tokens : s.gsNew[t] # None =>
          t \in pay[s.gsNew[t]].toks /\ queue[s.gsNew[t]] # "none")'
    BY <2>0, <2>1 DEF SessInv, SyncInv
  <2> QED BY <2>2, <2>3, <2>4, <2>5 DEF SyncInv
<1> QED BY <1>1, <1>2, <1>3, <1>4 DEF SessInv

\* An idle request has read nothing.
LEMMA IdleInv == SessInv(Idle)
  BY DEF SessInv, PayInv, SettleInv, EmergencyInv, SyncInv, Idle

\* The session part after the step in terms of each request's new session.
LEMMA NewSessions ==
  ASSUME NEW n, n = sess', \A q \in Requests : SessInv(n[q])'
  PROVE  SessionInv'
<1> SUFFICES ASSUME NEW q \in Requests PROVE SessInv(sess[q])'
  BY DEF SessionInv
<1>0. sess'[q] = n[q] /\ SessInv(n[q])'
  OBVIOUS
<1>1. PayInv(sess[q])' /\ SettleInv(sess[q])'
  BY <1>0 DEF SessInv, PayInv, SettleInv
<1>2. EmergencyInv(sess[q])'
  BY <1>0 DEF SessInv, EmergencyInv, NotSpent
<1>3. SyncInv(sess[q])'
  BY <1>0 DEF SessInv, SyncInv
<1> QED BY <1>1, <1>2, <1>3 DEF SessInv

\* A commit of r preserves the invariants of the sessions and locks.
LEMMA CommitSessions ==
  ASSUME IInv, NEW r \in Requests, End(r), Grows,
         \A q \in Requests \ {r} : sess[q].pc \in {"emFlushed", "emPayee"} =>
            \A t \in sess[q].use : gs'[t] = gs[t]
  PROVE  SessionInv' /\ LockInv'
<1>0. PICK n : n = sess'
  OBVIOUS
<1>1. /\ n[r] = Idle /\ sess \in [Requests -> Session] /\ RowInv
      /\ \A q \in Requests \ {r} : n[q] = sess[q]
  BY <1>0 DEF End, IInv, TInv, TypeOK
<1>2. ASSUME NEW q \in Requests PROVE SessInv(n[q])'
  <2>1. n[q] \in Session /\ SessInv(n[q])
    <3>1. CASE q = r
      BY <1>1, <3>1, IdleType, IdleInv
    <3>2. CASE q # r
      <4>1. SessInv(sess[q])
        BY DEF IInv, SessionInv
      <4> QED BY <1>1, <3>2, <4>1
    <3> QED BY <3>1, <3>2
  <2>2. n[q].pc \in {"emFlushed", "emPayee"} => \A t \in n[q].use : gs'[t] = gs[t]
    BY <1>1 DEF Idle
  <2> QED BY <1>1, <2>1, <2>2, StableSession
<1>3. SessionInv'
  BY <1>0, <1>2, NewSessions
<1>4. LockInv'
  BY <1>0, <1>1 DEF IInv, LockInv, Idle, Flushed
<1> QED BY <1>3, <1>4

\* A step of r that only reads preserves the invariants if its new session
\* satisfies them, and its token rows are free if it flushes them.
LEMMA ReadInv ==
  ASSUME IInv, NEW r \in Requests, UNCHANGED regVars, TInv',
         NEW s, SessInv(s), sess' = [sess EXCEPT ![r] = s],
         s.pc \in Flushed =>
            \/ sess[r].pc \in Flushed /\ s.toks = sess[r].toks
            \/ RowsFree(r, {}, s.toks)
  PROVE  IInv'
<1>0. PICK n : n = sess'
  OBVIOUS
<1>1. /\ n[r] = s /\ sess \in [Requests -> Session] /\ RowInv
      /\ n \in [Requests -> Session]
      /\ \A q \in Requests \ {r} : n[q] = sess[q]
  BY <1>0 DEF IInv, TInv, TypeOK
<1>2. RowInv'
  BY <1>1 DEF regVars, RowInv, PaymentRows, SettlementRows, GuaranteeBacked,
     RegisteredNotSpendable
<1>3. Grows
  BY DEF regVars, Grows
<1>4. ASSUME NEW q \in Requests PROVE SessInv(n[q])'
  <2>1. n[q] \in Session /\ SessInv(n[q])
    <3>1. SessInv(sess[q])
      BY DEF IInv, SessionInv
    <3> QED BY <1>1, <3>1
  <2> QED BY <1>1, <1>3, <2>1, StableSession DEF regVars
<1>5. SessionInv'
  BY <1>0, <1>4, NewSessions
<1>6. LockInv'
  BY <1>0, <1>1 DEF IInv, LockInv, RowsFree
<1> QED BY <1>2, <1>5, <1>6 DEF IInv

-----------------------------------------------------------------------------
(* Steps that only read *)

\* A request that has neither selected tokens for a payment nor staged a sync.
LEMMA PlainInv ==
  ASSUME NEW s, s.pc \in {"topup", "online", "payWallet", "codeWallet"},
         s.items = {}, s.staged = Idle.staged, s.gsNew = Idle.gsNew
  PROVE  SessInv(s)
  BY DEF SessInv, PayInv, SettleInv, EmergencyInv, SyncInv, Idle

\* Reads of top-ups and payments preserve the invariant.
LEMMA PaymentReads ==
  ASSUME IInv, TInv', NEW r \in Requests,
         \/ TopUpRead(r) \/ OnlineRead(r) \/ PayRead(r) \/ CodeRead(r)
         \/ PaySelect(r) \/ CodeSelect(r) \/ PayFlush(r)
         \/ \E k \in Workers : PaySign(r, k)
  PROVE  IInv'
<1> DEFINE s == sess[r]
<1>0. s \in Session /\ SessInv(s) /\ sess \in [Requests -> Session]
  BY DEF IInv, TInv, TypeOK, SessionInv
<1>2. CASE TopUpRead(r)
  <2>1. PICK w \in Wallets, b \in TopUpBodies :
          sess' = [sess EXCEPT ![r] =
             [Idle EXCEPT !.pc = "topup", !.w = w, !.on = online[w],
                          !.off = offline[w], !.amount = b.amount, !.alloc = b.alloc]]
    BY <1>2 DEF TopUpRead
  <2> DEFINE n == [Idle EXCEPT !.pc = "topup", !.w = w, !.on = online[w],
                          !.off = offline[w], !.amount = b.amount, !.alloc = b.alloc]
  <2>2. /\ n.pc = "topup" /\ n.items = {} /\ n.staged = Idle.staged
        /\ n.gsNew = Idle.gsNew
    BY DEF Idle
  <2>3. SessInv(n) /\ n.pc \notin Flushed
    <3> HIDE DEF n
    <3> QED BY <2>2, PlainInv DEF Flushed
  <2> QED BY ReadInv, <1>2, <2>1, <2>3 DEF TopUpRead, regVars, tokenVars, txVars
<1>3. CASE OnlineRead(r)
  <2>1. PICK w \in Wallets, a \in Amounts :
          sess' = [sess EXCEPT ![r] =
             [Idle EXCEPT !.pc = "online", !.w = w, !.on = online[w], !.amount = a]]
    BY <1>3 DEF OnlineRead
  <2> DEFINE n == [Idle EXCEPT !.pc = "online", !.w = w, !.on = online[w], !.amount = a]
  <2>2. /\ n.pc = "online" /\ n.items = {} /\ n.staged = Idle.staged
        /\ n.gsNew = Idle.gsNew
    BY DEF Idle
  <2>3. SessInv(n) /\ n.pc \notin Flushed
    <3> HIDE DEF n
    <3> QED BY <2>2, PlainInv DEF Flushed
  <2> QED BY ReadInv, <1>3, <2>1, <2>3 DEF OnlineRead, regVars, tokenVars, txVars
<1>4. CASE PayRead(r)
  <2>1. PICK w \in Wallets, a \in Amounts :
          sess' = [sess EXCEPT ![r] =
             [Idle EXCEPT !.pc = "payWallet", !.w = w, !.off = offline[w], !.amount = a]]
    BY <1>4 DEF PayRead
  <2> DEFINE n == [Idle EXCEPT !.pc = "payWallet", !.w = w, !.off = offline[w], !.amount = a]
  <2>2. /\ n.pc = "payWallet" /\ n.items = {} /\ n.staged = Idle.staged
        /\ n.gsNew = Idle.gsNew
    BY DEF Idle
  <2>3. SessInv(n) /\ n.pc \notin Flushed
    <3> HIDE DEF n
    <3> QED BY <2>2, PlainInv DEF Flushed
  <2> QED BY ReadInv, <1>4, <2>1, <2>3 DEF PayRead, regVars, tokenVars, txVars
<1>5. CASE CodeRead(r)
  <2>1. PICK w \in Wallets, a \in Amounts :
          sess' = [sess EXCEPT ![r] =
             [Idle EXCEPT !.pc = "codeWallet", !.w = w, !.off = offline[w], !.amount = a]]
    BY <1>5 DEF CodeRead
  <2> DEFINE n == [Idle EXCEPT !.pc = "codeWallet", !.w = w, !.off = offline[w], !.amount = a]
  <2>2. /\ n.pc = "codeWallet" /\ n.items = {} /\ n.staged = Idle.staged
        /\ n.gsNew = Idle.gsNew
    BY DEF Idle
  <2>3. SessInv(n) /\ n.pc \notin Flushed
    <3> HIDE DEF n
    <3> QED BY <2>2, PlainInv DEF Flushed
  <2> QED BY ReadInv, <1>5, <2>1, <2>3 DEF CodeRead, regVars, tokenVars, txVars
<1>6. CASE PaySelect(r)
  <2>1. PICK S \in Selections(MintedOf(s.w), s.amount) :
          sess' = [sess EXCEPT ![r].pc = "paySelected", ![r].toks = S]
    BY <1>6 DEF PaySelect
  <2> DEFINE n == [s EXCEPT !.pc = "paySelected", !.toks = S]
  <2>2. S # {} /\ Value(S) >= s.amount
    BY DEF Selections
  <2>3. /\ n.pc = "paySelected" /\ n.toks = S /\ n.amount = s.amount
        /\ n.items = s.items /\ n.staged = s.staged /\ n.gsNew = s.gsNew
    BY <1>0 DEF Session
  <2>4. SessInv(n) /\ n.pc \notin Flushed
    BY <1>0, <2>2, <2>3 DEF SessInv, PayInv, SettleInv, EmergencyInv, SyncInv, Flushed
  <2>5. sess' = [sess EXCEPT ![r] = n]
    BY <2>1
  <2> QED BY ReadInv, <1>6, <2>4, <2>5 DEF PaySelect, regVars, tokenVars, txVars
<1>7. CASE CodeSelect(r)
  <2>1. PICK S : sess' = [sess EXCEPT ![r].pc = "codeTokens", ![r].toks = S]
    BY <1>7 DEF CodeSelect
  <2> DEFINE n == [s EXCEPT !.pc = "codeTokens", !.toks = S]
  <2>2. /\ n.pc = "codeTokens" /\ n.items = s.items /\ n.staged = s.staged
        /\ n.gsNew = s.gsNew
    BY <1>0 DEF Session
  <2>3. SessInv(n) /\ n.pc \notin Flushed
    BY <1>0, <2>2 DEF SessInv, PayInv, SettleInv, EmergencyInv, SyncInv, Flushed
  <2>4. sess' = [sess EXCEPT ![r] = n]
    BY <2>1
  <2> QED BY ReadInv, <1>7, <2>3, <2>4 DEF CodeSelect, regVars, tokenVars, txVars
<1>8. CASE PayFlush(r)
  <2> DEFINE n == [s EXCEPT !.pc = "payFlushed"]
  <2>1. /\ n.pc = "payFlushed" /\ n.toks = s.toks /\ n.amount = s.amount
        /\ n.items = s.items /\ n.staged = s.staged /\ n.gsNew = s.gsNew
    BY <1>0 DEF Session
  <2>2. SessInv(n)
    BY <1>0, <1>8, <2>1 DEF PayFlush, SessInv, PayInv, SettleInv, EmergencyInv, SyncInv
  <2>3. RowsFree(r, {}, n.toks)
    BY <1>8, <2>1 DEF PayFlush, RowsFree
  <2>4. sess' = [sess EXCEPT ![r] = n]
    BY <1>8 DEF PayFlush
  <2> QED BY ReadInv, <1>8, <2>2, <2>3, <2>4 DEF PayFlush, regVars, tokenVars, txVars
<1>9. ASSUME NEW k \in Workers, PaySign(r, k) PROVE IInv'
  <2> DEFINE n == [s EXCEPT !.pc = "paySigned", !.worker = k]
  <2>1. /\ n.pc = "paySigned" /\ n.toks = s.toks /\ n.amount = s.amount
        /\ n.items = s.items /\ n.staged = s.staged /\ n.gsNew = s.gsNew
    BY <1>0 DEF Session
  <2>2. SessInv(n) /\ n.pc \notin Flushed
    <3>1. s.pc = "paySelected"
      BY <1>9 DEF PaySign
    <3> HIDE DEF n, s
    <3> QED
      BY <1>0, <2>1, <3>1 DEF SessInv, PayInv, SettleInv, EmergencyInv, SyncInv, Flushed
  <2>3. sess' = [sess EXCEPT ![r] = n]
    BY <1>9 DEF PaySign
  <2> QED BY ReadInv, <1>9, <2>2, <2>3 DEF PaySign, regVars, tokenVars, txVars
<1> QED BY <1>2, <1>3, <1>4, <1>5, <1>6, <1>7, <1>8, <1>9

\* Reads of settlements and emergency redemptions preserve the invariant.
LEMMA SettlementReads ==
  ASSUME IInv, TInv', NEW r \in Requests,
         \/ \E p \in TxIds : SettleCheck(r, p)
         \/ \E c \in Codes : EmergencyQuery(r, c)
         \/ EmergencyReadPayer(r) \/ EmergencyFlush(r) \/ EmergencyReadPayee(r)
  PROVE  IInv'
<1> DEFINE s == sess[r]
<1>0. s \in Session /\ SessInv(s)
  BY DEF IInv, TInv, TypeOK, SessionInv
<1>1. ASSUME NEW p \in TxIds, SettleCheck(r, p) PROVE IInv'
  <2> DEFINE n == [Idle EXCEPT !.pc = "settle", !.tx = p, !.toks = pay[p].toks,
                               !.seen = (txStatus[p] # "none")]
  <2>1. /\ n.pc = "settle" /\ n.tx = p /\ n.toks = pay[p].toks
        /\ n.items = {} /\ n.staged = Idle.staged /\ n.gsNew = Idle.gsNew
    BY DEF Idle
  <2>2. pay[p].mode = "offline"
    BY <1>1 DEF SettleCheck, IInv, RowInv, PaymentRows
  <2>3. SessInv(n) /\ n.pc \notin Flushed
    <3> HIDE DEF n
    <3> QED
      BY <2>1, <2>2 DEF SessInv, PayInv, SettleInv, EmergencyInv, SyncInv, Idle, Flushed
  <2> QED BY ReadInv, <1>1, <2>3 DEF SettleCheck, regVars, tokenVars, txVars
<1>2. ASSUME NEW c \in Codes, EmergencyQuery(r, c) PROVE IInv'
  <2> DEFINE found == {t \in Tokens : otp[t] = c /\ tokStatus[t] = "minted"}
  <2>1. PICK a \in Amounts, payee \in Wallets \cup {None} :
          \E use \in SmallestFirst(found, a), first \in found :
            sess' = [sess EXCEPT ![r] =
              [Idle EXCEPT !.pc = IF use = found THEN "emReady" ELSE "emTokens",
                           !.w = owner[first], !.payee = payee, !.amount = a,
                           !.toks = found, !.use = use, !.code = c]]
    BY <1>2 DEF EmergencyQuery
  <2>2. PICK use \in SmallestFirst(found, a), first \in found :
          sess' = [sess EXCEPT ![r] =
            [Idle EXCEPT !.pc = IF use = found THEN "emReady" ELSE "emTokens",
                         !.w = owner[first], !.payee = payee, !.amount = a,
                         !.toks = found, !.use = use, !.code = c]]
    BY <2>1
  <2> DEFINE n == [Idle EXCEPT !.pc = IF use = found THEN "emReady" ELSE "emTokens",
                               !.w = owner[first], !.payee = payee, !.amount = a,
                               !.toks = found, !.use = use, !.code = c]
  <2>3. use # {} /\ use \subseteq found /\ Value(use) >= a
    BY DEF SmallestFirst, GreedyPrefixes
  <2>4. /\ n.pc \in {"emReady", "emTokens"} /\ n.toks = found /\ n.use = use /\ n.amount = a
        /\ n.items = {} /\ n.staged = Idle.staged /\ n.gsNew = Idle.gsNew
    BY DEF Idle
  <2>5. SessInv(n) /\ n.pc \notin Flushed
    <3> HIDE DEF n, found
    <3> QED
      BY <2>3, <2>4 DEF SessInv, PayInv, SettleInv, EmergencyInv, SyncInv, Idle, Flushed
  <2> QED BY ReadInv, <1>2, <2>2, <2>5 DEF EmergencyQuery, regVars, tokenVars, txVars
<1>3. CASE EmergencyReadPayer(r)
  <2> DEFINE n == [s EXCEPT !.pc = "emReady", !.on = online[s.w], !.off = offline[s.w]]
  <2>1. /\ s.pc = "emTokens" /\ n.pc = "emReady"
        /\ n.toks = s.toks /\ n.use = s.use /\ n.amount = s.amount
        /\ n.items = s.items /\ n.staged = s.staged /\ n.gsNew = s.gsNew
    BY <1>0, <1>3 DEF EmergencyReadPayer, Session
  <2>2. SessInv(n) /\ n.pc \notin Flushed
    <3> HIDE DEF n, s
    <3> QED
      BY <1>0, <2>1 DEF SessInv, PayInv, SettleInv, EmergencyInv, SyncInv, Flushed
  <2> QED BY ReadInv, <1>3, <2>2 DEF EmergencyReadPayer, regVars, tokenVars, txVars
<1>4. CASE EmergencyFlush(r)
  <2> DEFINE n == [s EXCEPT !.pc = "emFlushed"]
  <2>1. /\ s.pc = "emReady" /\ n.pc = "emFlushed"
        /\ n.toks = s.toks /\ n.use = s.use /\ n.amount = s.amount
        /\ n.items = s.items /\ n.staged = s.staged /\ n.gsNew = s.gsNew
    BY <1>0, <1>4 DEF EmergencyFlush, Session
  <2>2. SessInv(n)
    <3>1. NotSpent(s.use)
      BY <1>4 DEF EmergencyFlush
    <3> HIDE DEF n, s
    <3> QED
      BY <1>0, <2>1, <3>1 DEF SessInv, PayInv, SettleInv, EmergencyInv, SyncInv
  <2>3. RowsFree(r, {}, n.toks)
    BY <1>4, <2>1 DEF EmergencyFlush, RowsFree
  <2>4. sess' = [sess EXCEPT ![r] = n]
    BY <1>4 DEF EmergencyFlush
  <2> QED BY ReadInv, <1>4, <2>2, <2>3, <2>4 DEF EmergencyFlush, regVars, tokenVars, txVars
<1>5. CASE EmergencyReadPayee(r)
  <2> DEFINE n == [s EXCEPT !.pc = "emPayee",
                            !.on = IF s.payee = s.w /\ s.use # s.toks
                                   THEN @ ELSE online[s.payee]]
  <2>1. /\ s.pc = "emFlushed" /\ n.pc = "emPayee"
        /\ n.toks = s.toks /\ n.use = s.use /\ n.amount = s.amount
        /\ n.items = s.items /\ n.staged = s.staged /\ n.gsNew = s.gsNew
    BY <1>0, <1>5 DEF EmergencyReadPayee, Session
  <2>2. SessInv(n) /\ s.pc \in Flushed
    <3> HIDE DEF n, s
    <3> QED
      BY <1>0, <2>1 DEF SessInv, PayInv, SettleInv, EmergencyInv, SyncInv, Flushed
  <2> QED
    BY ReadInv, <1>5, <2>1, <2>2 DEF EmergencyReadPayee, regVars, tokenVars, txVars
<1> QED BY <1>1, <1>2, <1>3, <1>4, <1>5

\* Fetching and staging sync items preserves the invariant.
LEMMA SyncReads ==
  ASSUME IInv, TInv', NEW r \in Requests,
         \/ \E w \in Wallets \cup {None} : SyncFetch(r, w)
         \/ \E p \in TxIds : SyncLoad(r, p)
         \/ SyncItemOk(r) \/ SyncItemFails(r)
  PROVE  IInv'
<1> DEFINE s == sess[r]
<1>0. /\ s \in Session /\ SessInv(s) /\ s.staged \in [TxIds -> Outcomes]
      /\ s.gsNew \in [Tokens -> TxIds \cup {None}]
  BY DEF IInv, TInv, TypeOK, SessionInv, Session
<1>1. ASSUME NEW w \in Wallets \cup {None}, SyncFetch(r, w) PROVE IInv'
  <2>1. PICK B \in Batches(w) :
          sess' = [sess EXCEPT ![r] = [Idle EXCEPT !.pc = "sync", !.items = B]]
    BY <1>1 DEF SyncFetch
  <2> DEFINE n == [Idle EXCEPT !.pc = "sync", !.items = B]
  <2>2. \A p \in B : queue[p] # "none"
    BY DEF Batches
  <2>3. n.pc = "sync" /\ n.items = B /\ n.staged = Idle.staged /\ n.gsNew = Idle.gsNew
    BY DEF Idle
  <2>4. SessInv(n) /\ n.pc \notin Flushed
    <3> HIDE DEF n
    <3> QED
      BY <2>2, <2>3 DEF SessInv, PayInv, SettleInv, EmergencyInv, SyncInv, Idle, Flushed
  <2> QED BY ReadInv, <1>1, <2>1, <2>4 DEF SyncFetch, regVars, tokenVars, txVars
<1>2. ASSUME NEW p \in TxIds, SyncLoad(r, p) PROVE IInv'
  <2>0. s.pc = "sync" /\ p \in s.items
    BY <1>2 DEF SyncLoad
  <2>1. CASE AlreadySettled(p)
    <3> DEFINE n == [s EXCEPT !.items = s.items \ {p},
                              !.staged = [s.staged EXCEPT ![p] = "already"]]
    <3>1. /\ n.pc = "sync" /\ n.items = s.items \ {p} /\ n.gsNew = s.gsNew
          /\ n.staged = [s.staged EXCEPT ![p] = "already"]
      BY <1>0, <2>0 DEF Session
    <3>2. SessInv(n) /\ n.pc \notin Flushed
      <4> HIDE DEF n, s
      <4> QED
        BY <1>0, <2>0, <3>1
           DEF SessInv, PayInv, SettleInv, EmergencyInv, SyncInv, Flushed
    <3>3. sess' = [sess EXCEPT ![r] = n]
      BY <1>2, <2>1 DEF SyncLoad
    <3> QED BY ReadInv, <1>2, <3>2, <3>3 DEF SyncLoad, regVars, tokenVars, txVars
  <2>2. CASE ~AlreadySettled(p)
    <3> DEFINE n == [s EXCEPT !.items = s.items \ {p}, !.pc = "syncTx", !.tx = p]
    <3>1. /\ n.pc = "syncTx" /\ n.tx = p /\ n.items = s.items \ {p}
          /\ n.gsNew = s.gsNew /\ n.staged = s.staged
      BY <1>0 DEF Session
    <3>2. SessInv(n) /\ n.pc \notin Flushed
      <4> HIDE DEF n, s
      <4> QED
        BY <1>0, <2>0, <3>1
           DEF SessInv, PayInv, SettleInv, EmergencyInv, SyncInv, Flushed
    <3>3. sess' = [sess EXCEPT ![r] = n]
      BY <1>2, <2>2 DEF SyncLoad
    <3> QED BY ReadInv, <1>2, <3>2, <3>3 DEF SyncLoad, regVars, tokenVars, txVars
  <2> QED BY <2>1, <2>2
<1>3. ASSUME NEW T, NEW outcome, Stage(r, T, outcome), s.pc = "syncTx", UNCHANGED regVars,
             T \subseteq pay[s.tx].toks, T \cap Registered(s) = {},
             outcome = "ok" => T = pay[s.tx].toks
      PROVE  IInv'
  <2> DEFINE G == [t \in Tokens |-> IF t \in T THEN s.tx ELSE s.gsNew[t]]
             n == [s EXCEPT !.pc = "sync", !.tx = None, !.staged[s.tx] = outcome, !.gsNew = G]
  <2>1. /\ n.pc = "sync" /\ n.items = s.items
        /\ n.staged = [s.staged EXCEPT ![s.tx] = outcome] /\ n.gsNew = G
    BY <1>0 DEF Session
  <2>2. s.tx \in TxIds /\ queue[s.tx] # "none" /\ pay[s.tx].toks \subseteq Tokens
    BY <1>0, <1>3 DEF SessInv, SyncInv, IInv, TInv, TypeOK, Payment
  <2>3. \A t \in Tokens : n.gsNew[t] # None =>
          t \in pay[n.gsNew[t]].toks /\ queue[n.gsNew[t]] # "none"
    <3> HIDE DEF n, s
    <3> QED BY <1>0, <1>3, <2>1, <2>2 DEF SessInv, SyncInv
  <2>4. ASSUME NEW p \in TxIds
        PROVE  /\ n.staged[p] # "none" => queue[p] # "none"
               /\ n.staged[p] = "ok" => \A t \in pay[p].toks : n.gsNew[t] = p
    <3>1. CASE p = s.tx
      <4> HIDE DEF n, s
      <4> QED BY <1>0, <1>3, <2>1, <2>2, <3>1
    <3>2. CASE p # s.tx
      <4>1. n.staged[p] = s.staged[p]
        BY <1>0, <2>1, <3>2
      <4>2. \A t \in pay[p].toks : s.gsNew[t] = p => n.gsNew[t] = p
        <5>1. p # None /\ pay[p].toks \subseteq Tokens
          BY SetsAssumption DEF IInv, TInv, TypeOK, Payment
        <5> HIDE DEF n, s
        <5> QED BY <1>3, <2>1, <5>1 DEF Registered
      <4> HIDE DEF n, s
      <4> QED BY <1>0, <4>1, <4>2 DEF SessInv, SyncInv
    <3> QED BY <3>1, <3>2
  <2>5. SessInv(n) /\ n.pc \notin Flushed
    <3> HIDE DEF n, s
    <3> QED
      BY <1>0, <2>1, <2>3, <2>4
         DEF SessInv, PayInv, SettleInv, EmergencyInv, SyncInv, Flushed
  <2>6. sess' = [sess EXCEPT ![r] = n]
    BY <1>3 DEF Stage
  <2> QED BY ReadInv, <1>3, <2>5, <2>6
<1>4. CASE SyncItemOk(r)
  BY <1>3, <1>4 DEF SyncItemOk, regVars, tokenVars, txVars
<1>5. CASE SyncItemFails(r)
  <2>1. PICK P \in PrefixesBefore(pay[s.tx].toks, Registered(s)) : Stage(r, P, "failed")
    BY <1>5 DEF SyncItemFails
  <2>2. P \subseteq pay[s.tx].toks /\ P \cap Registered(s) = {}
    BY DEF PrefixesBefore
  <2> QED BY <1>3, <1>5, <2>1, <2>2 DEF SyncItemFails, regVars, tokenVars, txVars
<1> QED BY <1>1, <1>2, <1>4, <1>5

-----------------------------------------------------------------------------
(* Steps that write *)

\* A payment id that was not drawn yet occurs in no table.
LEMMA FreshRows ==
  ASSUME IInv, NEW p \in TxIds, Fresh(p)
  PROVE  /\ pay[p].toks = {} /\ txStatus[p] = "none" /\ settlements[p] = 0
         /\ queue[p] = "none" /\ proofs[p] = "none" /\ \A t \in Tokens : gs[t] # p
<1>1. /\ pay[p].toks = {} /\ txStatus[p] = "none" /\ settlements[p] = 0
      /\ queue[p] = "none" /\ proofs[p] = "none"
  BY DEF IInv, RowInv, PaymentRows, Fresh
<1>2. \A t \in Tokens : gs[t] # p
  BY <1>1, SetsAssumption DEF IInv, RowInv, RegisteredNotSpendable
<1> QED BY <1>1, <1>2

\* Tokens with a registry row stay out of reach of a top-up: TopUpCommit.
LEMMA TopUpInv ==
  ASSUME IInv, TInv', NEW r \in Requests, TopUpCommit(r)
  PROVE  IInv'
<1>1. PICK S \in MintSets(sess[r].alloc) :
        tokStatus' = [t \in Tokens |-> IF t \in S THEN "minted" ELSE tokStatus[t]]
  BY DEF TopUpCommit
<1>2. \A t \in Tokens : tokStatus[t] \in Spent => tokStatus'[t] \in Spent
  BY <1>1 DEF MintSets, Spent
<1>3. UNCHANGED <<gs, pay, txStatus, settlements, queue, proofs>> /\ End(r)
  BY DEF TopUpCommit, txVars
<1>4. RowInv'
  <2>1. PaymentRows'
    BY <1>2, <1>3 DEF IInv, RowInv, PaymentRows, TInv, TypeOK, Payment
  <2>2. SettlementRows' /\ GuaranteeBacked'
    BY <1>3 DEF IInv, RowInv, SettlementRows, GuaranteeBacked
  <2>3. RegisteredNotSpendable'
    BY <1>2, <1>3 DEF IInv, RowInv, RegisteredNotSpendable, Spent
  <2> QED BY <2>1, <2>2, <2>3 DEF RowInv
<1>5. Grows
  BY <1>3 DEF Grows
<1> QED BY <1>3, <1>4, <1>5, CommitSessions DEF IInv

\* An online payment takes no tokens and settles nothing: OnlineCommit.
LEMMA OnlineInv ==
  ASSUME IInv, TInv', NEW r \in Requests, NEW p \in TxIds, OnlineCommit(r, p)
  PROVE  IInv'
<1>1. /\ Fresh(p) /\ End(r) /\ UNCHANGED <<tokStatus, gs, settlements, queue, proofs>>
      /\ pay' = [pay EXCEPT ![p] = [mode |-> "online", wallet |-> sess[r].w,
                                    amount |-> sess[r].amount, toks |-> {}]]
      /\ txStatus' = [txStatus EXCEPT ![p] = "succeeded"]
  BY DEF OnlineCommit, tokenVars
<1>2. /\ pay'[p].mode = "online" /\ pay'[p].toks = {} /\ txStatus'[p] = "succeeded"
      /\ \A q \in TxIds \ {p} : pay'[q] = pay[q] /\ txStatus'[q] = txStatus[q]
  BY <1>1 DEF IInv, TInv, TypeOK
<1>3. /\ pay[p].toks = {} /\ txStatus[p] = "none" /\ settlements[p] = 0
      /\ queue[p] = "none" /\ proofs[p] = "none" /\ \A t \in Tokens : gs[t] # p
  BY <1>1, FreshRows
<1>4. RowInv'
  <2>1. PaymentRows'
    BY <1>1, <1>2, <1>3 DEF IInv, RowInv, PaymentRows
  <2>2. SettlementRows' /\ GuaranteeBacked'
    BY <1>1, <1>2, <1>3 DEF IInv, RowInv, SettlementRows, GuaranteeBacked
  <2>3. RegisteredNotSpendable'
    BY <1>1, <1>2, <1>3 DEF IInv, RowInv, RegisteredNotSpendable, TInv, TypeOK
  <2> QED BY <2>1, <2>2, <2>3 DEF RowInv
<1>5. Grows
  BY <1>1, <1>2 DEF Grows, Fresh
<1> QED BY <1>1, <1>4, <1>5, CommitSessions DEF IInv

\* The commit of an offline payment p, drawn in this step or before.
LEMMA PayWritesInv ==
  ASSUME IInv, TInv', NEW r \in Requests, NEW p \in TxIds, PayWrites(r, p),
         pay'[p].mode = "offline", pay'[p].toks = sess[r].toks, sess[r].toks # {},
         Value(pay'[p].toks) >= pay'[p].amount,
         \A q \in TxIds \ {p} : pay'[q] = pay[q] /\ proofs'[q] = proofs[q],
         Fresh(p) \/ UNCHANGED <<pay, proofs>>
  PROVE  IInv'
<1>1. /\ End(r) /\ UNCHANGED <<gs, settlements>>
      /\ txStatus' = [txStatus EXCEPT ![p] = "pending"]
      /\ queue' = [queue EXCEPT ![p] = "pending"]
      /\ tokStatus' = [t \in Tokens |-> IF t \in sess[r].toks THEN "spent" ELSE tokStatus[t]]
  BY DEF PayWrites
<1>2. /\ txStatus'[p] = "pending" /\ queue'[p] = "pending"
      /\ \A q \in TxIds \ {p} : txStatus'[q] = txStatus[q] /\ queue'[q] = queue[q]
      /\ \A t \in Tokens : t \in sess[r].toks \/ tokStatus[t] \in Spent => tokStatus'[t] \in Spent
      /\ sess[r].toks \subseteq Tokens
  BY <1>1 DEF IInv, TInv, TypeOK, Spent, Session
<1>3. \/ pay'[p] = pay[p]
      \/ /\ pay[p].toks = {} /\ txStatus[p] = "none" /\ settlements[p] = 0
         /\ \A t \in Tokens : gs[t] # p
  BY FreshRows
<1>4. PaymentRows'
  <2> SUFFICES ASSUME NEW q \in TxIds
               PROVE  /\ pay'[q].mode = "unused" =>
                           /\ pay'[q].toks = {} /\ txStatus'[q] = "none" /\ settlements'[q] = 0
                           /\ queue'[q] = "none" /\ proofs'[q] = "none"
                      /\ pay'[q].mode \in {"offline", "emergency"} =>
                           /\ pay'[q].toks # {}
                           /\ Value(pay'[q].toks) >= pay'[q].amount
                      /\ pay'[q].mode = "offline" /\ txStatus'[q] # "none" =>
                           \A t \in pay'[q].toks : tokStatus'[t] \in Spent
                      /\ queue'[q] # "none" => pay'[q].mode = "offline" /\ txStatus'[q] # "none"
                      /\ proofs'[q] # "none" => pay'[q].mode = "offline"
    BY DEF PaymentRows
  <2>1. CASE q = p
    BY <1>2, <2>1
  <2>2. CASE q # p
    <3>1. /\ pay'[q] = pay[q] /\ proofs'[q] = proofs[q] /\ settlements'[q] = settlements[q]
          /\ txStatus'[q] = txStatus[q] /\ queue'[q] = queue[q]
      BY <1>1, <1>2, <2>2
    <3>2. pay[q].toks \subseteq Tokens
      BY DEF IInv, TInv, TypeOK, Payment
    <3> QED BY <1>2, <3>1, <3>2 DEF IInv, RowInv, PaymentRows
  <2> QED BY <2>1, <2>2
<1>5. SettlementRows' /\ GuaranteeBacked'
  BY <1>1, <1>2, <1>3 DEF IInv, RowInv, SettlementRows, GuaranteeBacked
<1>6. RegisteredNotSpendable'
  BY <1>1, <1>2, <1>3 DEF IInv, RowInv, RegisteredNotSpendable, TInv, TypeOK, Spent
<1>7. Grows
  BY <1>2 DEF Grows, Fresh
<1> QED BY <1>1, <1>4, <1>5, <1>6, <1>7, CommitSessions DEF IInv, RowInv

\* Commits and responses of offline payments preserve the invariant.
LEMMA PayInvariant ==
  ASSUME IInv, TInv', NEW r \in Requests,
         \/ \E p \in TxIds : PayCommit(r, p) \/ PayRespond(r, p)
         \/ PayCommitAfterResponse(r)
  PROVE  IInv'
<1> DEFINE s == sess[r]
<1>0. s \in Session /\ SessInv(s) /\ pay \in [TxIds -> Payment]
  BY DEF IInv, TInv, TypeOK, SessionInv
<1>1. ASSUME NEW p \in TxIds, PayCommit(r, p) PROVE IInv'
  <2>1. s.toks # {} /\ Value(s.toks) >= s.amount
    BY <1>0, <1>1 DEF PayCommit, SessInv, PayInv
  <2>2. /\ pay'[p] = OfflinePayment(s)
        /\ \A q \in TxIds \ {p} : pay'[q] = pay[q] /\ proofs'[q] = proofs[q]
    BY <1>0, <1>1 DEF PayCommit, IInv, TInv, TypeOK
  <2> QED BY <1>1, <2>1, <2>2, PayWritesInv DEF PayCommit, OfflinePayment
<1>2. CASE PayCommitAfterResponse(r)
  <2>1. /\ s.toks # {} /\ s.tx \in TxIds /\ pay[s.tx].mode = "offline"
        /\ pay[s.tx].toks = s.toks
    BY <1>0, <1>2 DEF PayCommitAfterResponse, SessInv, PayInv
  <2>2. Value(pay[s.tx].toks) >= pay[s.tx].amount
    BY <2>1 DEF IInv, RowInv, PaymentRows
  <2> QED BY <1>2, <2>1, <2>2, PayWritesInv DEF PayCommitAfterResponse
<1>3. ASSUME NEW p \in TxIds, PayRespond(r, p) PROVE IInv'
  <2>1. s.toks # {} /\ Value(s.toks) >= s.amount /\ s.pc = "payFlushed"
    BY <1>0, <1>3 DEF PayRespond, SessInv, PayInv
  <2>2. /\ pay'[p] = OfflinePayment(s) /\ proofs'[p] = "live"
        /\ \A q \in TxIds \ {p} : pay'[q] = pay[q] /\ proofs'[q] = proofs[q]
    BY <1>0, <1>3 DEF PayRespond, IInv, TInv, TypeOK
  <2>3. Fresh(p) /\ UNCHANGED <<tokStatus, gs, txStatus, settlements, queue>>
    BY <1>3 DEF PayRespond, tokenVars
  <2>4. /\ pay[p].toks = {} /\ txStatus[p] = "none" /\ settlements[p] = 0
        /\ queue[p] = "none" /\ \A t \in Tokens : gs[t] # p
    BY <2>3, FreshRows
  <2>5. /\ pay'[p].mode = "offline" /\ pay'[p].toks = s.toks /\ pay'[p].amount = s.amount
    BY <2>2 DEF OfflinePayment
  <2>6. RowInv'
    <3>1. PaymentRows'
      BY <2>1, <2>2, <2>3, <2>4, <2>5 DEF IInv, RowInv, PaymentRows
    <3>2. SettlementRows' /\ GuaranteeBacked'
      BY <2>2, <2>3, <2>4 DEF IInv, RowInv, SettlementRows, GuaranteeBacked
    <3>3. RegisteredNotSpendable'
      BY <2>2, <2>3, <2>4 DEF IInv, RowInv, RegisteredNotSpendable, TInv, TypeOK
    <3> QED BY <3>1, <3>2, <3>3 DEF RowInv
  <2>7. Grows
    BY <2>2, <2>3 DEF Grows, Fresh
  <2>8. PICK n : n = sess'
    OBVIOUS
  <2>9. /\ n[r].pc = "payResponded" /\ n[r].tx = p /\ n[r].toks = s.toks
        /\ n[r].amount = s.amount /\ n[r].items = s.items /\ n[r].staged = s.staged
        /\ n[r].gsNew = s.gsNew /\ n \in [Requests -> Session]
        /\ \A q \in Requests \ {r} : n[q] = sess[q]
    <3>1. sess' = [sess EXCEPT ![r] = [s EXCEPT !.pc = "payResponded", !.tx = p]]
      BY <1>3 DEF PayRespond
    <3> QED BY <1>0, <2>8, <3>1 DEF IInv, TInv, TypeOK, Session
  <2>10. ASSUME NEW q \in Requests PROVE SessInv(n[q])'
    <3>1. CASE q # r
      <4>1. SessInv(sess[q]) /\ sess[q] \in Session
        BY DEF IInv, SessionInv, TInv, TypeOK
      <4>2. n[q] \in Session /\ SessInv(n[q])
        BY <2>9, <3>1, <4>1
      <4> QED BY <2>3, <2>7, <4>2, StableSession DEF IInv
    <3>2. CASE q = r
      <4>1. PICK o : o = s
        OBVIOUS
      <4>2. SessInv(o)'
        BY <1>0, <2>1, <2>3, <2>7, <4>1, StableSession DEF IInv
      <4> HIDE DEF s
      <4>3. PayInv(n[q])'
        BY <2>1, <2>5, <2>9, <3>2, <4>1 DEF PayInv
      <4>4. SettleInv(n[q])' /\ EmergencyInv(n[q])'
        BY <2>9, <3>2 DEF SettleInv, EmergencyInv
      <4>5. SyncInv(n[q])'
        BY <2>9, <3>2, <4>1, <4>2 DEF SessInv, SyncInv
      <4> QED BY <4>3, <4>4, <4>5 DEF SessInv
    <3> QED BY <3>1, <3>2
  <2>11. SessionInv'
    BY <2>8, <2>10, NewSessions
  <2>12. LockInv'
    BY <2>1, <2>8, <2>9 DEF IInv, LockInv, Flushed
  <2> QED BY <2>6, <2>11, <2>12 DEF IInv
<1> QED BY <1>1, <1>2, <1>3

\* A step that ends requests, or lets a proof expire, and leaves the other
\* tables alone: code requests, failed signatures, rollbacks, restarts.
LEMMA EndInv ==
  ASSUME IInv, TInv', UNCHANGED <<tokStatus, gs, pay, txStatus, settlements, queue>>,
         \A p \in TxIds : proofs[p] = "none" => proofs'[p] = "none",
         \A q \in Requests : sess'[q] \in {sess[q], Idle}
  PROVE  IInv'
<1>1. RowInv'
  BY DEF IInv, RowInv, PaymentRows, SettlementRows, GuaranteeBacked, RegisteredNotSpendable
<1>2. Grows
  BY DEF Grows
<1>3. PICK n : n = sess'
  OBVIOUS
<1>4. ASSUME NEW q \in Requests PROVE SessInv(n[q])'
  <2>1. SessInv(sess[q]) /\ sess[q] \in Session
    BY DEF IInv, SessionInv, TInv, TypeOK
  <2>2. n[q] \in Session /\ SessInv(n[q])
    BY <1>3, <2>1, IdleType, IdleInv
  <2> QED BY <1>2, <2>2, StableSession DEF IInv
<1>5. SessionInv'
  BY <1>3, <1>4, NewSessions
<1>6. LockInv'
  BY DEF IInv, LockInv, Idle, Flushed
<1> QED BY <1>1, <1>5, <1>6 DEF IInv

\* Steps of the kind EndInv describes.
LEMMA EndSteps ==
  ASSUME IInv, TInv',
         \/ \E r \in Requests : \/ Rollback(r)
                                \/ \E k \in Workers : PaySignFails(r, k)
                                \/ \E c \in Codes : CodeCommit(r, c)
         \/ \E p \in TxIds : ProofExpires(p)
         \/ \E k \in Workers : Restart(k)
         \/ UNCHANGED vars
  PROVE  IInv'
<1>0. sess \in [Requests -> Session] /\ proofs \in [TxIds -> {"none", "live", "expired"}]
  BY DEF IInv, TInv, TypeOK
<1>1. ASSUME NEW r \in Requests, Rollback(r) PROVE IInv'
  BY <1>0, <1>1, EndInv DEF Rollback, End, tokenVars, txVars
<1>2. ASSUME NEW r \in Requests, NEW k \in Workers, PaySignFails(r, k) PROVE IInv'
  BY <1>0, <1>2, EndInv DEF PaySignFails, End, tokenVars, txVars
<1>3. ASSUME NEW r \in Requests, NEW c \in Codes, CodeCommit(r, c) PROVE IInv'
  BY <1>0, <1>3, EndInv DEF CodeCommit, End, txVars
<1>4. ASSUME NEW p \in TxIds, ProofExpires(p) PROVE IInv'
  BY <1>0, <1>4, EndInv DEF ProofExpires, tokenVars, txVars
<1>5. ASSUME NEW k \in Workers, Restart(k) PROVE IInv'
  BY <1>0, <1>5, EndInv DEF Restart, tokenVars, txVars
<1>6. CASE UNCHANGED vars
  BY <1>0, <1>6, EndInv DEF vars, tokenVars, txVars
<1> QED BY <1>1, <1>2, <1>3, <1>4, <1>5, <1>6

\* A payment with tokens none of which is registered has no settlement, and its
\* tokens belong to no payment that has one: the step guarantees p and registers
\* its tokens T (settle_payment, settle_emergency_code).
LEMMA GuaranteeInv ==
  ASSUME IInv, TInv', NEW r \in Requests, End(r), NEW p \in TxIds, NEW T \in SUBSET Tokens,
         NotSpent(T), T # {},
         pay'[p].toks = T, pay'[p].mode \in {"offline", "emergency"},
         Value(T) >= pay'[p].amount,
         \A q \in TxIds \ {p} : pay'[q] = pay[q],
         pay' = pay \/ Fresh(p),
         gs' = [t \in Tokens |-> IF t \in T THEN p ELSE gs[t]],
         tokStatus' = [t \in Tokens |-> IF t \in T THEN "settled" ELSE tokStatus[t]],
         txStatus'[p] # "none", \A q \in TxIds \ {p} : txStatus'[q] = txStatus[q],
         settlements' = [settlements EXCEPT ![p] = settlements[p] + 1],
         UNCHANGED <<queue, proofs>>,
         pay'[p].mode = "offline" \/ (queue[p] = "none" /\ proofs[p] = "none"),
         \A q \in Requests \ {r} : sess[q].pc \in {"emFlushed", "emPayee"} =>
            sess[q].use \cap T = {}
  PROVE  /\ IInv'
         /\ settlements[p] = 0 /\ \A t \in Tokens : gs[t] # p
<1>0. p # None /\ settlements \in [TxIds -> Nat] /\ gs \in [Tokens -> TxIds \cup {None}]
  BY SetsAssumption DEF IInv, TInv, TypeOK
<1>1. \A t \in T : gs[t] = None /\ gs'[t] = p
  BY DEF NotSpent
<1>2. settlements[p] = 0 /\ \A t \in Tokens : gs[t] # p
  <2>1. CASE Fresh(p)
    BY <2>1, FreshRows
  <2>2. CASE pay' = pay
    <3>1. \A t \in Tokens : gs[t] # p
      BY <1>0, <1>1, <2>2 DEF IInv, RowInv, RegisteredNotSpendable
    <3>2. settlements[p] > 0 => \A t \in T : gs[t] = p
      BY <2>2 DEF IInv, RowInv, GuaranteeBacked
    <3> QED BY <1>0, <3>1, <3>2
  <2> QED BY <2>1, <2>2
<1>3. /\ settlements'[p] = 1 /\ \A q \in TxIds \ {p} : settlements'[q] = settlements[q]
  BY <1>0, <1>2
<1>4. /\ \A t \in T : tokStatus'[t] \in Spent
      /\ \A t \in Tokens : tokStatus[t] \in Spent => tokStatus'[t] \in Spent
      /\ \A t \in Tokens \ T : gs'[t] = gs[t] /\ tokStatus'[t] = tokStatus[t]
  BY DEF Spent
<1>5. PaymentRows'
  <2> SUFFICES ASSUME NEW q \in TxIds
               PROVE  /\ pay'[q].mode = "unused" =>
                           /\ pay'[q].toks = {} /\ txStatus'[q] = "none" /\ settlements'[q] = 0
                           /\ queue'[q] = "none" /\ proofs'[q] = "none"
                      /\ pay'[q].mode \in {"offline", "emergency"} =>
                           /\ pay'[q].toks # {}
                           /\ Value(pay'[q].toks) >= pay'[q].amount
                      /\ pay'[q].mode = "offline" /\ txStatus'[q] # "none" =>
                           \A t \in pay'[q].toks : tokStatus'[t] \in Spent
                      /\ queue'[q] # "none" => pay'[q].mode = "offline" /\ txStatus'[q] # "none"
                      /\ proofs'[q] # "none" => pay'[q].mode = "offline"
    BY DEF PaymentRows
  <2>1. CASE q = p
    BY <1>4, <2>1
  <2>2. CASE q # p
    <3>1. pay[q].toks \subseteq Tokens
      BY DEF IInv, TInv, TypeOK, Payment
    <3> QED BY <1>3, <1>4, <2>2, <3>1 DEF IInv, RowInv, PaymentRows
  <2> QED BY <2>1, <2>2
<1>6. SettlementRows'
  BY <1>3 DEF IInv, RowInv, SettlementRows
<1>7. GuaranteeBacked'
  <2> SUFFICES ASSUME NEW q \in TxIds, pay'[q].mode \in {"offline", "emergency"},
                      settlements'[q] > 0 \/ txStatus'[q] = "succeeded"
               PROVE  /\ \A t \in pay'[q].toks : gs'[t] = q
                      /\ Value(pay'[q].toks) >= pay'[q].amount
    BY DEF GuaranteeBacked
  <2>1. CASE q = p
    BY <1>1, <2>1
  <2>2. CASE q # p
    <3>1. /\ \A t \in pay[q].toks : gs[t] = q
          /\ Value(pay[q].toks) >= pay[q].amount
      BY <1>3, <2>2 DEF IInv, RowInv, GuaranteeBacked
    <3>2. pay[q].toks \subseteq Tokens /\ q # None
      BY SetsAssumption DEF IInv, TInv, TypeOK, Payment
    <3> QED BY <1>1, <1>4, <2>2, <3>1, <3>2
  <2> QED BY <2>1, <2>2
<1>8. RegisteredNotSpendable'
  <2> SUFFICES ASSUME NEW t \in Tokens, gs'[t] # None
               PROVE  /\ t \in pay'[gs'[t]].toks
                      /\ txStatus'[gs'[t]] # "none"
                      /\ tokStatus'[t] \in Spent
    BY DEF RegisteredNotSpendable, Spent
  <2>1. CASE t \in T
    BY <1>1, <1>4, <2>1
  <2>2. CASE t \notin T
    BY <1>0, <1>2, <1>4, <2>2 DEF IInv, RowInv, RegisteredNotSpendable, Spent
  <2> QED BY <2>1, <2>2
<1>9. Grows
  BY DEF Grows, Fresh
<1>10. \A q \in Requests \ {r} : sess[q].pc \in {"emFlushed", "emPayee"} =>
         \A t \in sess[q].use : gs'[t] = gs[t]
  BY <1>4 DEF IInv, TInv, TypeOK, Session
<1>11. SessionInv' /\ LockInv'
  BY <1>9, <1>10, CommitSessions
<1> QED BY <1>2, <1>5, <1>6, <1>7, <1>8, <1>11 DEF IInv, RowInv

\* Settlement of a payment proof: SettleCommit.
LEMMA SettleCommitInv ==
  ASSUME IInv, TInv', NEW r \in Requests, SettleCommit(r)
  PROVE  /\ IInv' /\ sess[r].tx \in TxIds
         /\ settlements[sess[r].tx] = 0 /\ \A t \in Tokens : gs[t] # sess[r].tx
<1> DEFINE s == sess[r]
<1>0. s \in Session /\ SessInv(s) /\ s.toks \in SUBSET Tokens
  BY DEF IInv, TInv, TypeOK, SessionInv, Session
<1>1. s.tx \in TxIds /\ pay[s.tx].mode = "offline" /\ pay[s.tx].toks = s.toks
  BY <1>0 DEF SettleCommit, SessInv, SettleInv
<1>2. s.toks # {} /\ Value(s.toks) >= pay[s.tx].amount
  BY <1>1 DEF IInv, RowInv, PaymentRows
<1>3. /\ End(r) /\ NotSpent(s.toks) /\ UNCHANGED <<pay, queue, proofs>>
      /\ gs' = [t \in Tokens |-> IF t \in s.toks THEN s.tx ELSE gs[t]]
      /\ tokStatus' = [t \in Tokens |-> IF t \in s.toks THEN "settled" ELSE tokStatus[t]]
      /\ settlements' = [settlements EXCEPT ![s.tx] = settlements[s.tx] + 1]
  BY DEF SettleCommit
<1>4. txStatus'[s.tx] # "none" /\ \A q \in TxIds \ {s.tx} : txStatus'[q] = txStatus[q]
  BY <1>1 DEF SettleCommit, HasTransaction, IInv, TInv, TypeOK
<1>5. \A q \in Requests \ {r} : sess[q].pc \in {"emFlushed", "emPayee"} =>
        sess[q].use \cap s.toks = {}
  BY DEF SettleCommit, RowsFree, Flushed, IInv, SessionInv, SessInv, EmergencyInv
<1> HIDE DEF s
<1>6. /\ IInv' /\ settlements[s.tx] = 0 /\ \A t \in Tokens : gs[t] # s.tx
  BY <1>0, <1>1, <1>2, <1>3, <1>4, <1>5, GuaranteeInv
<1> QED BY <1>1, <1>6 DEF s

\* Redemption of an emergency code: EmergencyCommit.
LEMMA EmergencyCommitInv ==
  ASSUME IInv, TInv', NEW r \in Requests, NEW p \in TxIds, EmergencyCommit(r, p)
  PROVE  /\ IInv'
         /\ settlements[p] = 0 /\ \A t \in Tokens : gs[t] # p
<1> DEFINE s == sess[r]
<1>0. s \in Session /\ SessInv(s) /\ s.use \in SUBSET Tokens
  BY DEF IInv, TInv, TypeOK, SessionInv, Session
<1>1. s.pc \in {"emFlushed", "emPayee"}
  BY DEF EmergencyCommit
<1>2. s.use # {} /\ s.use \subseteq s.toks /\ Value(s.use) >= s.amount /\ NotSpent(s.use)
  BY <1>0, <1>1 DEF SessInv, EmergencyInv
<1>3. /\ Fresh(p) /\ End(r) /\ UNCHANGED <<queue, proofs>>
      /\ pay' = [pay EXCEPT ![p] = EmergencyPayment(s)]
      /\ txStatus' = [txStatus EXCEPT ![p] = "succeeded"]
      /\ gs' = [t \in Tokens |-> IF t \in s.use THEN p ELSE gs[t]]
      /\ tokStatus' = [t \in Tokens |-> IF t \in s.use THEN "settled" ELSE tokStatus[t]]
      /\ settlements' = [settlements EXCEPT ![p] = settlements[p] + 1]
  BY DEF EmergencyCommit
<1>4. /\ pay'[p].mode = "emergency" /\ pay'[p].toks = s.use /\ pay'[p].amount = s.amount
      /\ txStatus'[p] = "succeeded"
      /\ \A q \in TxIds \ {p} : pay'[q] = pay[q] /\ txStatus'[q] = txStatus[q]
  BY <1>3 DEF IInv, TInv, TypeOK, EmergencyPayment
<1>5. queue[p] = "none" /\ proofs[p] = "none"
  BY <1>3, FreshRows
<1>6. \A q \in Requests \ {r} : sess[q].pc \in {"emFlushed", "emPayee"} =>
        sess[q].use \cap s.use = {}
  BY <1>1, <1>2 DEF IInv, LockInv, Flushed, SessionInv, SessInv, EmergencyInv
<1> HIDE DEF s
<1>7. /\ pay'[p].toks = s.use /\ pay'[p].mode \in {"offline", "emergency"}
      /\ Value(s.use) >= pay'[p].amount
      /\ \A q \in TxIds \ {p} : pay'[q] = pay[q]
      /\ pay' = pay \/ Fresh(p)
      /\ txStatus'[p] # "none"
      /\ \A q \in TxIds \ {p} : txStatus'[q] = txStatus[q]
      /\ pay'[p].mode = "offline" \/ (queue[p] = "none" /\ proofs[p] = "none")
  BY <1>2, <1>3, <1>4, <1>5
<1>8. /\ End(r) /\ UNCHANGED <<queue, proofs>>
      /\ gs' = [t \in Tokens |-> IF t \in s.use THEN p ELSE gs[t]]
      /\ tokStatus' = [t \in Tokens |-> IF t \in s.use THEN "settled" ELSE tokStatus[t]]
      /\ settlements' = [settlements EXCEPT ![p] = settlements[p] + 1]
  BY <1>3
<1> QED
  BY <1>0, <1>2, <1>6, <1>7, <1>8, GuaranteeInv

\* Commit of a sync batch: SyncCommit.  A payment it marks succeeded owns its
\* tokens, and it registers no token of a payment that has a settlement.
LEMMA SyncCommitInv ==
  ASSUME IInv, TInv', NEW r \in Requests, SyncCommit(r)
  PROVE  /\ IInv'
         /\ \A t \in Tokens : gs'[t] # gs[t] =>
              gs[t] = None /\ gs'[t] \in TxIds /\ settlements[gs'[t]] = 0
<1> DEFINE s == sess[r]
           added == {t \in Tokens : s.gsNew[t] # None}
<1>0. /\ SessInv(s) /\ s.gsNew \in [Tokens -> TxIds \cup {None}]
      /\ settlements \in [TxIds -> Nat]
  BY DEF IInv, TInv, TypeOK, SessionInv, Session
<1>1. /\ End(r) /\ NotSpent(added) /\ RowsFree(r, {}, added)
      /\ UNCHANGED <<tokStatus, pay, settlements, proofs>>
      /\ gs' = [t \in Tokens |-> IF t \in added THEN s.gsNew[t] ELSE gs[t]]
      /\ txStatus' = [p \in TxIds |->
           CASE s.staged[p] = "ok" -> "succeeded"
             [] s.staged[p] = "failed" -> "failed"
             [] OTHER -> txStatus[p]]
      /\ queue' = [p \in TxIds |-> ItemStatus(s.staged[p], queue[p])]
  BY DEF SyncCommit, tokenVars
<1>2. SyncInv(s)
  BY <1>0 DEF SessInv
<1> HIDE DEF s
<1>3. ASSUME NEW t \in added
      PROVE  /\ s.gsNew[t] \in TxIds /\ t \in pay[s.gsNew[t]].toks
             /\ queue[s.gsNew[t]] # "none" /\ gs[t] = None /\ gs'[t] = s.gsNew[t]
             /\ pay[s.gsNew[t]].mode = "offline" /\ txStatus[s.gsNew[t]] # "none"
             /\ tokStatus[t] \in Spent /\ settlements[s.gsNew[t]] = 0
  <2>1. /\ s.gsNew[t] \in TxIds /\ t \in pay[s.gsNew[t]].toks
        /\ queue[s.gsNew[t]] # "none" /\ gs[t] = None /\ gs'[t] = s.gsNew[t]
    BY <1>0, <1>1, <1>2 DEF SyncInv, NotSpent
  <2>2. /\ pay[s.gsNew[t]].mode = "offline" /\ txStatus[s.gsNew[t]] # "none"
        /\ tokStatus[t] \in Spent
    BY <2>1 DEF IInv, RowInv, PaymentRows
  <2>3. settlements[s.gsNew[t]] > 0 => gs[t] = s.gsNew[t]
    BY <2>1, <2>2 DEF IInv, RowInv, GuaranteeBacked
  <2> QED BY <1>0, <2>1, <2>2, <2>3, SetsAssumption
<1>4. ASSUME NEW p \in TxIds
      PROVE  /\ (queue'[p] = "none") = (queue[p] = "none")
             /\ (txStatus'[p] = "none") = (txStatus[p] = "none")
  <2>1. s.staged[p] # "none" => queue[p] # "none" /\ txStatus[p] # "none"
    BY <1>2 DEF SyncInv, IInv, RowInv, PaymentRows
  <2>2. /\ queue'[p] = ItemStatus(s.staged[p], queue[p])
        /\ txStatus'[p] = CASE s.staged[p] = "ok" -> "succeeded"
                            [] s.staged[p] = "failed" -> "failed"
                            [] OTHER -> txStatus[p]
    BY <1>1
  <2> QED BY <2>1, <2>2 DEF ItemStatus
<1>5. PaymentRows'
  BY <1>1, <1>4 DEF IInv, RowInv, PaymentRows
<1>6. SettlementRows'
  BY <1>1, <1>4 DEF IInv, RowInv, SettlementRows
<1>7. GuaranteeBacked'
  <2> SUFFICES ASSUME NEW p \in TxIds, pay[p].mode \in {"offline", "emergency"},
                      settlements[p] > 0 \/ txStatus'[p] = "succeeded"
               PROVE  /\ \A t \in pay[p].toks : gs'[t] = p
                      /\ Value(pay[p].toks) >= pay[p].amount
    BY <1>1 DEF GuaranteeBacked
  <2>0. pay[p].toks \subseteq Tokens /\ p # None
    BY SetsAssumption DEF IInv, TInv, TypeOK, Payment
  <2>1. CASE settlements[p] > 0 \/ txStatus[p] = "succeeded"
    <3>1. /\ \A t \in pay[p].toks : gs[t] = p
          /\ Value(pay[p].toks) >= pay[p].amount
      BY <2>1 DEF IInv, RowInv, GuaranteeBacked
    <3>2. \A t \in pay[p].toks : t \notin added
      BY <1>1, <2>0, <3>1 DEF NotSpent
    <3> QED BY <1>1, <2>0, <3>1, <3>2
  <2>2. CASE s.staged[p] = "ok"
    <3>1. \A t \in pay[p].toks : s.gsNew[t] = p
      BY <1>2, <2>2 DEF SyncInv
    <3>2. Value(pay[p].toks) >= pay[p].amount
      BY DEF IInv, RowInv, PaymentRows
    <3> QED BY <1>1, <2>0, <3>1, <3>2
  <2> QED BY <1>1, <2>1, <2>2
<1>8. RegisteredNotSpendable'
  <2> SUFFICES ASSUME NEW t \in Tokens, gs'[t] # None
               PROVE  /\ t \in pay[gs'[t]].toks
                      /\ txStatus'[gs'[t]] # "none"
                      /\ tokStatus[t] \in Spent
    BY <1>1 DEF RegisteredNotSpendable, Spent
  <2>1. CASE t \in added
    BY <1>3, <1>4, <2>1
  <2>2. CASE t \notin added
    BY <1>1, <1>4, <2>2 DEF IInv, RowInv, RegisteredNotSpendable, Spent, TInv, TypeOK
  <2> QED BY <2>1, <2>2
<1>9. Grows
  BY <1>1, <1>4 DEF Grows
<1>10. \A q \in Requests \ {r} : sess[q].pc \in {"emFlushed", "emPayee"} =>
         \A t \in sess[q].use : gs'[t] = gs[t]
  BY <1>1 DEF RowsFree, Flushed, IInv, SessionInv, SessInv, EmergencyInv, TInv, TypeOK, Session
<1>11. SessionInv' /\ LockInv'
  BY <1>1, <1>9, <1>10, CommitSessions
<1>12. \A t \in Tokens : gs'[t] # gs[t] => t \in added
  BY <1>1
<1> QED BY <1>3, <1>5, <1>6, <1>7, <1>8, <1>11, <1>12 DEF IInv, RowInv

-----------------------------------------------------------------------------
(* Theorems *)

\* The initial state satisfies the invariant.
LEMMA InitInv == Init => IInv
<1> SUFFICES ASSUME Init PROVE IInv
  OBVIOUS
<1>1. RowInv
  BY DEF Init, RowInv, PaymentRows, SettlementRows, GuaranteeBacked,
     RegisteredNotSpendable, Unused
<1>2. SessionInv /\ LockInv
  BY IdleInv DEF Init, SessionInv, LockInv, Idle, Flushed
<1> QED BY <1>1, <1>2, InitTypes DEF IInv

\* Every step preserves the invariant.
LEMMA NextInv == IInv /\ [Next]_vars => IInv'
<1> SUFFICES ASSUME IInv, [Next]_vars PROVE IInv'
  OBVIOUS
<1>0. TInv'
  BY NextTypes DEF IInv
<1>1. ASSUME NEW r \in Requests, TopUpStep(r) PROVE IInv'
  BY <1>0, <1>1, PaymentReads, TopUpInv DEF TopUpStep
<1>2. ASSUME NEW r \in Requests, PaymentStep(r) PROVE IInv'
  BY <1>0, <1>2, PaymentReads, OnlineInv, PayInvariant, EndSteps DEF PaymentStep
<1>3. ASSUME NEW r \in Requests, SettlementStep(r) PROVE IInv'
  BY <1>0, <1>3, SettlementReads, SettleCommitInv, EmergencyCommitInv DEF SettlementStep
<1>4. ASSUME NEW r \in Requests, SyncStep(r) PROVE IInv'
  BY <1>0, <1>4, SyncReads, SyncCommitInv DEF SyncStep
<1> QED
  BY <1>0, <1>1, <1>2, <1>3, <1>4, EndSteps DEF Next

\* The invariant holds in every reachable state.
LEMMA Invariant == Spec => []IInv
  BY InitInv, NextInv, PTL DEF Spec

\* For genuine proofs, however settle_payment, settle_emergency_code and trigger_sync
\* race for the same tokens, no payment is settled twice and no token pays for two settled
\* payments.
THEOREM NoDoubleSettlementHolds == Spec => []NoDoubleSettlement
<1>1. IInv => NoDoubleSettlement
  <2> SUFFICES ASSUME IInv, NEW p \in TxIds, NEW q \in TxIds,
                      p # q, settlements[p] > 0, settlements[q] > 0
               PROVE  pay[p].toks \cap pay[q].toks = {}
    BY DEF NoDoubleSettlement, IInv, RowInv, SettlementRows
  <2>1. pay[p].mode \in {"offline", "emergency"} /\ pay[q].mode \in {"offline", "emergency"}
    BY DEF IInv, RowInv, SettlementRows
  <2>2. (\A t \in pay[p].toks : gs[t] = p) /\ (\A t \in pay[q].toks : gs[t] = q)
    BY <2>1 DEF IInv, RowInv, GuaranteeBacked
  <2> QED BY <2>2
<1> QED BY <1>1, Invariant, PTL

\* For genuine proofs, a settled or synced payment owns all its tokens in
\* global_spends, and they are worth what the merchant is guaranteed.
THEOREM GuaranteeBackedHolds == Spec => []GuaranteeBacked
<1>1. IInv => GuaranteeBacked
  BY DEF IInv, RowInv
<1> QED BY <1>1, Invariant, PTL

\* For genuine proofs, a registered token belongs to the committed payment it is registered to, and
\* no payment or emergency code can select it again.
THEOREM RegisteredNotSpendableHolds == Spec => []RegisteredNotSpendable
<1>1. IInv => RegisteredNotSpendable
  BY DEF IInv, RowInv
<1> QED BY <1>1, Invariant, PTL

\* Only settlements and sync batches write global_spends and settlements.
LEMMA OthersStutter ==
  ASSUME NEW r \in Requests,
         \/ TopUpStep(r) \/ PaymentStep(r) \/ Rollback(r)
         \/ \E p \in TxIds : SettleCheck(r, p)
         \/ \E c \in Codes : EmergencyQuery(r, c)
         \/ EmergencyReadPayer(r) \/ EmergencyFlush(r) \/ EmergencyReadPayee(r)
         \/ \E w \in Wallets \cup {None} : SyncFetch(r, w)
         \/ \E p \in TxIds : SyncLoad(r, p)
         \/ SyncItemOk(r) \/ SyncItemFails(r)
  PROVE  UNCHANGED <<gs, settlements>>
<1>1. CASE TopUpStep(r)
  BY <1>1 DEF TopUpStep, TopUpRead, TopUpCommit, txVars
<1>2. CASE PaymentStep(r)
  BY <1>2 DEF PaymentStep, OnlineRead, OnlineCommit, PayRead, PaySelect, PaySign,
     PaySignFails, PayFlush, PayCommit, PayRespond, PayCommitAfterResponse, PayWrites,
     CodeRead, CodeSelect, CodeCommit, txVars
<1>3. CASE \/ \E p \in TxIds : SettleCheck(r, p)
           \/ \E c \in Codes : EmergencyQuery(r, c)
           \/ EmergencyReadPayer(r) \/ EmergencyFlush(r) \/ EmergencyReadPayee(r)
  BY <1>3 DEF SettleCheck, EmergencyQuery, EmergencyReadPayer, EmergencyFlush,
     EmergencyReadPayee, txVars
<1>4. CASE \/ \E w \in Wallets \cup {None} : SyncFetch(r, w)
           \/ \E p \in TxIds : SyncLoad(r, p)
           \/ SyncItemOk(r) \/ SyncItemFails(r)
  BY <1>4 DEF SyncFetch, SyncLoad, SyncItemOk, SyncItemFails, txVars
<1>5. CASE Rollback(r)
  BY <1>5 DEF Rollback, txVars
<1> QED BY <1>1, <1>2, <1>3, <1>4, <1>5

\* A step that registers tokens for p alone and gives it its first settlement
\* is a Guarantee step of the abstract registry.
LEMMA GuaranteeStep ==
  ASSUME IInv, TInv', NEW p \in TxIds, settlements[p] = 0,
         \A t \in Tokens : gs[t] # p,
         \A t \in Tokens : gs'[t] # gs[t] => gs[t] = None /\ gs'[t] = p,
         settlements' = [settlements EXCEPT ![p] = settlements[p] + 1]
  PROVE  Registry!Guarantee(p)
<1>1. settlements \in [TxIds -> Nat] /\ gs' \in [Tokens -> TxIds \cup {None}]
  BY DEF IInv, TInv, TypeOK
<1>2. {q \in TxIds : settlements'[q] > 0} = {q \in TxIds : settlements[q] > 0} \cup {p}
  BY <1>1
<1>3. p \notin {q \in TxIds : settlements[q] > 0}
  BY <1>1
<1> QED BY <1>1, <1>2, <1>3 DEF Registry!Guarantee

\* Every step of the API is a step of the abstract registry or leaves it alone.
LEMMA RegistryStep ==
  IInv /\ [Next]_vars =>
    [Registry!Next]_<<gs, {p \in TxIds : settlements[p] > 0}>>
<1> SUFFICES ASSUME IInv, [Next]_vars
             PROVE  Registry!Next \/ UNCHANGED <<gs, settlements>>
  OBVIOUS
<1>0. TInv' /\ gs' \in [Tokens -> TxIds \cup {None}]
  BY NextTypes DEF IInv, TInv, TypeOK
<1>1. ASSUME NEW r \in Requests, SettleCommit(r) PROVE Registry!Next
  <2>1. PICK p \in TxIds :
          p = sess[r].tx /\ settlements[p] = 0 /\ \A t \in Tokens : gs[t] # p
    BY <1>0, <1>1, SettleCommitInv
  <2>2. \A t \in Tokens : gs'[t] # gs[t] => gs[t] = None /\ gs'[t] = p
    BY <1>1, <2>1 DEF SettleCommit, NotSpent
  <2>3. settlements' = [settlements EXCEPT ![p] = settlements[p] + 1]
    BY <1>1, <2>1 DEF SettleCommit
  <2>4. Registry!Guarantee(p)
    BY <1>0, <2>1, <2>2, <2>3, GuaranteeStep
  <2> QED BY <2>1, <2>4 DEF Registry!Next
<1>2. ASSUME NEW r \in Requests, NEW p \in TxIds, EmergencyCommit(r, p) PROVE Registry!Next
  <2>1. settlements[p] = 0 /\ \A t \in Tokens : gs[t] # p
    BY <1>0, <1>2, EmergencyCommitInv
  <2>2. NotSpent(sess[r].use)
    BY <1>2 DEF EmergencyCommit, IInv, SessionInv, SessInv, EmergencyInv
  <2>3. \A t \in Tokens : gs'[t] # gs[t] => gs[t] = None /\ gs'[t] = p
    BY <1>2, <2>2 DEF EmergencyCommit, NotSpent
  <2>4. settlements' = [settlements EXCEPT ![p] = settlements[p] + 1]
    BY <1>2 DEF EmergencyCommit
  <2>5. Registry!Guarantee(p)
    BY <1>0, <2>1, <2>3, <2>4, GuaranteeStep
  <2> QED BY <2>5 DEF Registry!Next
<1>3. ASSUME NEW r \in Requests, SyncCommit(r) PROVE Registry!Next
  <2>1. \A t \in Tokens : gs'[t] # gs[t] =>
          gs[t] = None /\ gs'[t] \in TxIds /\ settlements[gs'[t]] = 0
    BY <1>0, <1>3, SyncCommitInv
  <2>2. settlements' = settlements
    BY <1>3 DEF SyncCommit
  <2> QED BY <1>0, <2>1, <2>2 DEF Registry!Next, Registry!Spend
<1>4. ASSUME NEW r \in Requests,
             TopUpStep(r) \/ PaymentStep(r) \/ SettlementStep(r) \/ SyncStep(r) \/ Rollback(r)
      PROVE  Registry!Next \/ UNCHANGED <<gs, settlements>>
  BY <1>1, <1>2, <1>3, <1>4, OthersStutter DEF SettlementStep, SyncStep
<1>5. CASE (\E p \in TxIds : ProofExpires(p)) \/ \E k \in Workers : Restart(k)
  BY <1>5 DEF ProofExpires, Restart, txVars
<1>6. CASE UNCHANGED vars
  BY <1>6 DEF vars, txVars
<1> QED BY <1>4, <1>5, <1>6 DEF Next

\* For genuine proofs, the services implement the abstract spend registry: a token is spent in at
\* most one payment for ever, and a guarantee is given once, in the very commit
\* that spends all the tokens of the payment for the first time.
THEOREM ImplementsRegistryHolds == Spec => ImplementsRegistry
<1>1. Init => Registry!Init
  BY DEF Init, Registry!Init
<1> QED BY <1>1, RegistryStep, Invariant, PTL DEF Spec, ImplementsRegistry, Registry!Spec

-----------------------------------------------------------------------------
(* Signatures *)

\* A request that has signed with token t on worker k and not yet sent the proof.
Signs(s) == s.pc \in {"paySigned", "payFlushed"}
SignsWith(s, k, t) == Signs(s) /\ s.worker = k /\ t \in s.toks

\* The proofs with token t that left the API, and the workers that have destroyed
\* its key and have no signature with it still on its way.
Signed(t) == {p \in TxIds : proofs[p] # "none" /\ t \in pay[p].toks}
Done(t) == {k \in Workers : /\ t \in destroyed[k]
                            /\ \A r \in Requests : ~SignsWith(sess[r], k, t)}

\* Requests on the same worker have signed with different tokens, whose keys the
\* worker has destroyed.
SignersInv ==
    /\ \A r \in Requests : Signs(sess[r]) =>
         sess[r].worker \in Workers /\ sess[r].toks \subseteq destroyed[sess[r].worker]
    /\ \A r, q \in Requests :
         r # q /\ Signs(sess[r]) /\ Signs(sess[q]) /\ sess[r].worker = sess[q].worker
           => sess[r].toks \cap sess[q].toks = {}

\* Each proof with t is accounted for by a worker that is done with t, or by a
\* restart.
ProofsInv == \A t \in Tokens : Cardinality(Signed(t)) <= Cardinality(Done(t)) + restarts

SigningInv == SignersInv /\ ProofsInv

LEMMA SigningTypes ==
  ASSUME IInv, NEW t \in Tokens
  PROVE  /\ IsFiniteSet(Signed(t)) /\ Cardinality(Signed(t)) \in Nat
         /\ IsFiniteSet(Done(t)) /\ Cardinality(Done(t)) \in Nat /\ restarts \in Nat
<1>1. IsFiniteSet(Signed(t)) /\ IsFiniteSet(Done(t))
  BY FiniteAssumption, FS_Subset DEF Signed, Done
<1>2. restarts \in Nat
  BY NumbersAssumption DEF IInv, TInv, TypeOK
<1> QED BY <1>1, <1>2, FS_CardinalityType

LEMMA SigningTypesNext ==
  ASSUME NEW t \in Tokens
  PROVE  /\ IsFiniteSet(Signed(t)') /\ Cardinality(Signed(t)') \in Nat
         /\ IsFiniteSet(Done(t)') /\ Cardinality(Done(t)') \in Nat
<1>1. IsFiniteSet(Signed(t)') /\ IsFiniteSet(Done(t)')
  BY FiniteAssumption, FS_Subset DEF Signed, Done
<1> QED BY <1>1, FS_CardinalityType

\* Requests keep what they have signed with, or end.
SignersKept ==
    \A q \in Requests : Signs(sess'[q]) =>
        Signs(sess[q]) /\ sess'[q].toks = sess[q].toks /\ sess'[q].worker = sess[q].worker

\* No proof leaves, and no key is forgotten.
LEMMA ProofsKept ==
  ASSUME IInv, ProofsInv, restarts' = restarts,
         \A t \in Tokens : Signed(t)' \subseteq Signed(t) /\ Done(t) \subseteq Done(t)'
  PROVE  ProofsInv'
<1> SUFFICES ASSUME NEW t \in Tokens
             PROVE  Cardinality(Signed(t)') <= Cardinality(Done(t)') + restarts'
  BY DEF ProofsInv
<1>1. Cardinality(Signed(t)') <= Cardinality(Signed(t))
  BY SigningTypes, FS_Subset
<1>2. Cardinality(Done(t)) <= Cardinality(Done(t)')
  BY SigningTypesNext, FS_Subset
<1>3. Cardinality(Signed(t)) <= Cardinality(Done(t)) + restarts
  BY DEF ProofsInv
<1> QED BY <1>1, <1>2, <1>3, SigningTypes, SigningTypesNext

\* Steps that neither sign nor send a proof.
LEMMA SigningKept ==
  ASSUME IInv, SigningInv, SignersKept, restarts' = restarts, destroyed' \in [Workers -> SUBSET Tokens],
         \A k \in Workers : destroyed[k] \subseteq destroyed'[k],
         \A p \in TxIds : proofs'[p] # "none" => proofs[p] # "none" /\ pay'[p] = pay[p]
  PROVE  SigningInv'
<1>1. SignersInv'
  <2>1. ASSUME NEW r \in Requests, Signs(sess'[r])
        PROVE  sess'[r].worker \in Workers /\ sess'[r].toks \subseteq destroyed'[sess'[r].worker]
    BY <2>1 DEF SigningInv, SignersInv, SignersKept
  <2>2. ASSUME NEW r \in Requests, NEW q \in Requests, r # q, Signs(sess'[r]), Signs(sess'[q]),
               sess'[r].worker = sess'[q].worker
        PROVE  sess'[r].toks \cap sess'[q].toks = {}
    BY <2>2 DEF SigningInv, SignersInv, SignersKept
  <2> QED BY <2>1, <2>2 DEF SignersInv, Signs
<1>2. ASSUME NEW t \in Tokens PROVE Signed(t)' \subseteq Signed(t)
  BY DEF Signed
<1>3. ASSUME NEW t \in Tokens PROVE Done(t) \subseteq Done(t)'
  <2>1. \A k \in Workers, r \in Requests : SignsWith(sess'[r], k, t) => SignsWith(sess[r], k, t)
    BY DEF SignersKept, SignsWith
  <2> QED BY <2>1 DEF Done, SignsWith, Signs
<1>4. ProofsInv'
  BY <1>2, <1>3, ProofsKept DEF SigningInv
<1> QED BY <1>1, <1>4 DEF SigningInv

\* The sign-and-destroy loop: the worker has not destroyed a key of the tokens,
\* so no other request of it signed with one of them.
LEMMA SigningSign ==
  ASSUME IInv, SigningInv, NEW r \in Requests, NEW k \in Workers, PaySign(r, k)
  PROVE  SigningInv'
<1> DEFINE T == sess[r].toks
<1>0. /\ sess \in [Requests -> Session] /\ destroyed \in [Workers -> SUBSET Tokens]
      /\ T \in SUBSET Tokens /\ sess[r].pc = "paySelected"
  BY DEF IInv, TInv, TypeOK, Session, PaySign
<1>1. /\ T \cap destroyed[k] = {} /\ destroyed' = [destroyed EXCEPT ![k] = @ \cup T]
      /\ sess' = [sess EXCEPT ![r].pc = "paySigned", ![r].worker = k]
      /\ UNCHANGED <<pay, proofs, restarts>>
  BY DEF PaySign, CanSign, SignAndDestroy, txVars
<1>2. /\ sess'[r].pc = "paySigned" /\ sess'[r].worker = k /\ sess'[r].toks = T
      /\ \A q \in Requests \ {r} : sess'[q] = sess[q]
      /\ destroyed'[k] = destroyed[k] \cup T
      /\ \A j \in Workers \ {k} : destroyed'[j] = destroyed[j]
  BY <1>0, <1>1 DEF Session
<1>3. ~Signs(sess[r])
  BY <1>0 DEF Signs
<1> HIDE DEF T
<1>4. \A q \in Requests \ {r} : Signs(sess[q]) /\ sess[q].worker = k => sess[q].toks \cap T = {}
  BY <1>1 DEF SigningInv, SignersInv
<1>5. SignersInv'
  <2>1. ASSUME NEW q \in Requests, Signs(sess'[q])
        PROVE  sess'[q].worker \in Workers /\ sess'[q].toks \subseteq destroyed'[sess'[q].worker]
    BY <1>2, <2>1 DEF SigningInv, SignersInv
  <2>2. ASSUME NEW u \in Requests, NEW q \in Requests, u # q, Signs(sess'[u]), Signs(sess'[q]),
               sess'[u].worker = sess'[q].worker
        PROVE  sess'[u].toks \cap sess'[q].toks = {}
    BY <1>2, <1>4, <2>2 DEF SigningInv, SignersInv
  <2> QED BY <2>1, <2>2 DEF SignersInv, Signs
<1>6. ASSUME NEW t \in Tokens PROVE Signed(t)' \subseteq Signed(t)
  BY <1>1 DEF Signed
<1>7. ASSUME NEW t \in Tokens PROVE Done(t) \subseteq Done(t)'
  <2> SUFFICES ASSUME NEW j \in Done(t) PROVE j \in Done(t)'
    OBVIOUS
  <2>1. j \in Workers /\ t \in destroyed[j] /\ \A q \in Requests : ~SignsWith(sess[q], j, t)
    BY DEF Done
  <2>2. t \in destroyed'[j]
    BY <1>2, <2>1
  <2>3. ASSUME NEW q \in Requests PROVE ~SignsWith(sess'[q], j, t)
    <3>1. CASE q = r
      BY <1>1, <1>2, <2>1, <3>1 DEF SignsWith
    <3>2. CASE q # r
      BY <1>2, <2>1, <3>2 DEF SignsWith
    <3> QED BY <3>1, <3>2
  <2> QED BY <2>1, <2>2, <2>3 DEF Done, SignsWith, Signs
<1>8. ProofsInv'
  BY <1>1, <1>6, <1>7, ProofsKept DEF SigningInv
<1> QED BY <1>5, <1>8 DEF SigningInv

\* A proof leaves with the signatures of r, which is done with its tokens: the
\* worker of r is now done with them too.
LEMMA SigningSend ==
  ASSUME IInv, SigningInv, NEW r \in Requests, NEW p \in TxIds, sess[r].pc = "payFlushed", Fresh(p),
         pay' = [pay EXCEPT ![p] = OfflinePayment(sess[r])],
         \A q \in TxIds \ {p} : proofs'[q] = proofs[q],
         UNCHANGED <<destroyed, restarts>>, ~Signs(sess'[r]),
         \A q \in Requests \ {r} : sess'[q] = sess[q]
  PROVE  SigningInv'
<1> DEFINE T == sess[r].toks
           k == sess[r].worker
<1>0. k \in Workers /\ T \subseteq destroyed[k] /\ T \in SUBSET Tokens /\ Signs(sess[r])
  BY DEF IInv, TInv, TypeOK, Session, SigningInv, SignersInv, Signs
<1>1. proofs[p] = "none" /\ pay'[p].toks = T /\ \A q \in TxIds \ {p} : pay'[q] = pay[q]
  BY DEF Fresh, IInv, RowInv, PaymentRows, TInv, TypeOK, OfflinePayment
<1>2. SignersKept
  BY DEF SignersKept
<1>3. SignersInv'
  <2>1. ASSUME NEW q \in Requests, Signs(sess'[q])
        PROVE  sess'[q].worker \in Workers /\ sess'[q].toks \subseteq destroyed[sess'[q].worker]
    BY <2>1 DEF SigningInv, SignersInv
  <2>2. ASSUME NEW u \in Requests, NEW q \in Requests, u # q, Signs(sess'[u]), Signs(sess'[q]),
               sess'[u].worker = sess'[q].worker
        PROVE  sess'[u].toks \cap sess'[q].toks = {}
    BY <2>2 DEF SigningInv, SignersInv
  <2> QED BY <2>1, <2>2 DEF SignersInv, Signs
<1> HIDE DEF T, k
<1>4. ProofsInv'
  <2> SUFFICES ASSUME NEW t \in Tokens
               PROVE  Cardinality(Signed(t)') <= Cardinality(Done(t)') + restarts
    BY DEF ProofsInv
  <2>0. Done(t) \subseteq Done(t)'
    <3>1. \A j \in Workers, q \in Requests : SignsWith(sess'[q], j, t) => SignsWith(sess[q], j, t)
      BY DEF SignsWith
    <3> QED BY <3>1 DEF Done, SignsWith, Signs
  <2>1. Cardinality(Signed(t)) <= Cardinality(Done(t)) + restarts
    BY DEF SigningInv, ProofsInv
  <2>2. CASE t \notin T
    <3>1. Signed(t)' \subseteq Signed(t)
      BY <1>1, <2>2 DEF Signed
    <3>2. Cardinality(Signed(t)') <= Cardinality(Signed(t))
      BY <3>1, SigningTypes, FS_Subset
    <3>3. Cardinality(Done(t)) <= Cardinality(Done(t)')
      BY <2>0, SigningTypesNext, FS_Subset
    <3> QED BY <2>1, <3>2, <3>3, SigningTypes, SigningTypesNext
  <2>3. CASE t \in T
    <3>1. Signed(t)' \subseteq Signed(t) \cup {p}
      BY <1>1 DEF Signed
    <3>2. IsFiniteSet(Signed(t) \cup {p}) /\ Cardinality(Signed(t) \cup {p}) = Cardinality(Signed(t)) + 1
      <4>1. p \notin Signed(t)
        BY <1>1 DEF Signed
      <4> QED BY <4>1, SigningTypes, FS_AddElement
    <3>3. Cardinality(Signed(t)') <= Cardinality(Signed(t) \cup {p})
      BY <3>1, <3>2, FS_Subset
    <3>4. k \notin Done(t)
      BY <1>0, <2>3 DEF Done, SignsWith, k, T
    <3>5. k \in Done(t)'
      <4>1. ASSUME NEW q \in Requests PROVE ~SignsWith(sess'[q], k, t)
        BY <1>0, <2>3 DEF SignsWith, SigningInv, SignersInv, k, T
      <4> QED BY <1>0, <2>3, <4>1 DEF Done, SignsWith, Signs
    <3>6. Cardinality(Done(t) \cup {k}) = Cardinality(Done(t)) + 1
      BY <3>4, SigningTypes, FS_AddElement
    <3>7. Cardinality(Done(t) \cup {k}) <= Cardinality(Done(t)')
      BY <2>0, <3>5, SigningTypesNext, FS_Subset
    <3>8. Cardinality(Signed(t) \cup {p}) \in Nat
      BY <3>2, FS_CardinalityType
    <3> QED BY <2>1, <3>2, <3>3, <3>6, <3>7, <3>8, SigningTypes, SigningTypesNext
  <2> QED BY <2>2, <2>3
<1> QED BY <1>3, <1>4 DEF SigningInv

\* A restart forgets the keys one worker destroyed, and is counted.
LEMMA SigningRestart ==
  ASSUME IInv, SigningInv, NEW k \in Workers, Restart(k)
  PROVE  SigningInv'
<1>0. /\ restarts' = restarts + 1 /\ destroyed'[k] = {}
      /\ \A j \in Workers \ {k} : destroyed'[j] = destroyed[j]
      /\ \A q \in Requests : sess'[q] = IF sess[q].worker = k THEN Idle ELSE sess[q]
      /\ UNCHANGED <<pay, proofs>>
  BY DEF Restart, txVars, IInv, TInv, TypeOK
<1>1. \A q \in Requests : Signs(sess'[q]) => sess'[q] = sess[q] /\ sess[q].worker # k
  BY <1>0 DEF Signs, Idle
<1>2. SignersInv'
  <2>1. ASSUME NEW q \in Requests, Signs(sess'[q])
        PROVE  sess'[q].worker \in Workers /\ sess'[q].toks \subseteq destroyed'[sess'[q].worker]
    BY <1>0, <1>1, <2>1 DEF SigningInv, SignersInv
  <2>2. ASSUME NEW u \in Requests, NEW q \in Requests, u # q, Signs(sess'[u]), Signs(sess'[q]),
               sess'[u].worker = sess'[q].worker
        PROVE  sess'[u].toks \cap sess'[q].toks = {}
    BY <1>1, <2>2 DEF SigningInv, SignersInv
  <2> QED BY <2>1, <2>2 DEF SignersInv, Signs
<1>3. ProofsInv'
  <2> SUFFICES ASSUME NEW t \in Tokens
               PROVE  Cardinality(Signed(t)') <= Cardinality(Done(t)') + (restarts + 1)
    BY <1>0 DEF ProofsInv
  <2>1. Signed(t)' = Signed(t)
    BY <1>0 DEF Signed
  <2>2. Done(t) \ {k} \subseteq Done(t)'
    <3>1. \A j \in Workers, q \in Requests : SignsWith(sess'[q], j, t) => SignsWith(sess[q], j, t)
      BY <1>1 DEF SignsWith
    <3> QED BY <1>0, <3>1 DEF Done, SignsWith, Signs
  <2>3. Cardinality(Done(t) \ {k}) <= Cardinality(Done(t)')
    BY <2>2, SigningTypesNext, FS_Subset
  <2>4. Cardinality(Done(t)) <= Cardinality(Done(t) \ {k}) + 1 /\ Cardinality(Done(t) \ {k}) \in Nat
    <3>1. IsFiniteSet(Done(t) \ {k})
      BY SigningTypes, FS_Subset
    <3>2. Cardinality(Done(t) \ {k}) \in Nat
      BY <3>1, FS_CardinalityType
    <3>3. CASE k \in Done(t)
      <4>1. Cardinality(Done(t) \ {k}) = Cardinality(Done(t)) - 1
        BY <3>3, SigningTypes, FS_RemoveElement
      <4> QED BY <3>2, <4>1, SigningTypes
    <3>4. CASE k \notin Done(t)
      <4>1. Done(t) \ {k} = Done(t)
        BY <3>4
      <4>2. Cardinality(Done(t) \ {k}) = Cardinality(Done(t))
        BY <4>1
      <4> QED BY <3>2, <4>2
    <3> QED BY <3>3, <3>4
  <2>5. Cardinality(Signed(t)) <= Cardinality(Done(t)) + restarts
    BY DEF SigningInv, ProofsInv
  <2> QED BY <2>1, <2>3, <2>4, <2>5, SigningTypes, SigningTypesNext
<1> QED BY <1>2, <1>3 DEF SigningInv

\* The invariant holds initially and is preserved by every step.
LEMMA SigningInit == Init => SigningInv
<1> SUFFICES ASSUME Init PROVE SigningInv
  OBVIOUS
<1>1. SignersInv
  BY DEF Init, SignersInv, Signs, Idle
<1>2. ASSUME NEW t \in Tokens PROVE Cardinality(Signed(t)) <= Cardinality(Done(t)) + restarts
  <2>1. Signed(t) = {} /\ restarts = 0
    BY DEF Init, Signed
  <2>2. Cardinality(Signed(t)) = 0
    BY <2>1, FS_EmptySet
  <2> QED BY <2>1, <2>2, InitInv, SigningTypes
<1> QED BY <1>1, <1>2 DEF SigningInv, ProofsInv

\* Everything but the sign-and-destroy loop, the response and restarts.
LEMMA SigningOthers ==
  ASSUME IInv, SigningInv, NEW r \in Requests,
         \/ TopUpStep(r) \/ SettlementStep(r) \/ SyncStep(r) \/ Rollback(r)
         \/ OnlineRead(r) \/ PayRead(r) \/ PaySelect(r) \/ PayFlush(r)
         \/ PayCommitAfterResponse(r) \/ CodeRead(r) \/ CodeSelect(r)
         \/ \E p \in TxIds : OnlineCommit(r, p)
         \/ \E c \in Codes : CodeCommit(r, c)
  PROVE  SigningInv'
<1>0. sess \in [Requests -> Session] /\ sess[r] \in Session
  BY DEF IInv, TInv, TypeOK
<1>1. UNCHANGED <<destroyed, restarts, proofs>>
  BY DEF TopUpStep, TopUpRead, TopUpCommit, SettlementStep, SettleCheck, SettleCommit,
     EmergencyQuery, EmergencyReadPayer, EmergencyFlush, EmergencyReadPayee, EmergencyCommit,
     SyncStep, SyncFetch, SyncLoad, SyncItemOk, SyncItemFails, SyncCommit, Rollback, OnlineRead,
     PayRead, PaySelect, PayFlush, PayCommitAfterResponse, PayWrites, CodeRead, CodeSelect,
     OnlineCommit, CodeCommit, seVars
<1>2. \A q \in Requests \ {r} : sess'[q] = sess[q]
  BY <1>0 DEF TopUpStep, TopUpRead, TopUpCommit, SettlementStep, SettleCheck, SettleCommit,
     EmergencyQuery, EmergencyReadPayer, EmergencyFlush, EmergencyReadPayee, EmergencyCommit,
     SyncStep, SyncFetch, SyncLoad, SyncItemOk, SyncItemFails, Stage, SyncCommit, Rollback,
     OnlineRead, PayRead, PaySelect, PayFlush, PayCommitAfterResponse, PayWrites, CodeRead,
     CodeSelect, OnlineCommit, CodeCommit, End
<1>3. Signs(sess'[r]) => /\ Signs(sess[r]) /\ sess'[r].toks = sess[r].toks
                         /\ sess'[r].worker = sess[r].worker
  <2>1. CASE PayFlush(r)
    BY <1>0, <2>1 DEF PayFlush, Signs, Session
  <2>2. CASE End(r)
    BY <1>0, <2>2 DEF End, Signs, Idle
  <2>3. CASE TopUpRead(r) \/ OnlineRead(r) \/ PayRead(r) \/ CodeRead(r)
    <3>1. sess'[r].pc \in {"topup", "online", "payWallet", "codeWallet"}
      <4>1. CASE TopUpRead(r)
        BY <1>0, <4>1 DEF TopUpRead, Idle
      <4>2. CASE OnlineRead(r)
        BY <1>0, <4>2 DEF OnlineRead, Idle
      <4>3. CASE PayRead(r)
        BY <1>0, <4>3 DEF PayRead, Idle
      <4>4. CASE CodeRead(r)
        BY <1>0, <4>4 DEF CodeRead, Idle
      <4> QED BY <2>3, <4>1, <4>2, <4>3, <4>4
    <3> QED BY <3>1 DEF Signs
  <2>4. CASE PaySelect(r) \/ CodeSelect(r)
    BY <1>0, <2>4 DEF PaySelect, CodeSelect, Signs, Session
  <2>5. CASE \E p \in TxIds : SettleCheck(r, p)
    BY <1>0, <2>5 DEF SettleCheck, Signs, Idle
  <2>6. CASE \E c \in Codes : EmergencyQuery(r, c)
    <3>1. PICK c \in Codes : EmergencyQuery(r, c)
      BY <2>6
    <3> DEFINE found == {t \in Tokens : otp[t] = c /\ tokStatus[t] = "minted"}
    <3>2. PICK a \in Amounts, payee \in Wallets \cup {None} :
            \E use \in SmallestFirst(found, a), first \in found :
              sess' = [sess EXCEPT ![r] =
                [Idle EXCEPT !.pc = IF use = found THEN "emReady" ELSE "emTokens",
                             !.w = owner[first], !.payee = payee, !.amount = a,
                             !.toks = found, !.use = use, !.code = c]]
      BY <3>1 DEF EmergencyQuery
    <3> HIDE DEF found
    <3>3. sess'[r].pc \in {"emReady", "emTokens"}
      BY <1>0, <3>2 DEF Idle
    <3> QED BY <3>3 DEF Signs
  <2>7. CASE EmergencyReadPayer(r) \/ EmergencyFlush(r) \/ EmergencyReadPayee(r)
    <3>1. sess'[r].pc \in {"emReady", "emFlushed", "emPayee"}
      <4>1. CASE EmergencyReadPayer(r)
        BY <1>0, <4>1 DEF EmergencyReadPayer, Session
      <4>2. CASE EmergencyFlush(r)
        BY <1>0, <4>2 DEF EmergencyFlush, Session
      <4>3. CASE EmergencyReadPayee(r)
        BY <1>0, <4>3 DEF EmergencyReadPayee, Session
      <4> QED BY <2>7, <4>1, <4>2, <4>3
    <3> QED BY <3>1 DEF Signs
  <2>8. CASE \E w \in Wallets \cup {None} : SyncFetch(r, w)
    BY <1>0, <2>8 DEF SyncFetch, Signs, Idle
  <2>9. CASE \E p \in TxIds : SyncLoad(r, p)
    BY <1>0, <2>9 DEF SyncLoad, Signs, Session
  <2>10. CASE SyncItemOk(r) \/ SyncItemFails(r)
    <3>1. PICK T, o : Stage(r, T, o)
      BY <2>10 DEF SyncItemOk, SyncItemFails
    <3> QED BY <1>0, <3>1 DEF Stage, Signs, Session
  <2> QED BY <2>1, <2>2, <2>3, <2>4, <2>5, <2>6, <2>7, <2>8, <2>9, <2>10
          DEF TopUpStep, TopUpCommit, SettlementStep, SettleCommit, EmergencyCommit, SyncStep,
          SyncCommit, Rollback, PayCommitAfterResponse, PayWrites, OnlineCommit, CodeCommit
<1>4. SignersKept
  BY <1>2, <1>3 DEF SignersKept
<1>5. \/ UNCHANGED pay
      \/ \E p \in TxIds : Fresh(p) /\ \A q \in TxIds \ {p} : pay'[q] = pay[q]
  BY DEF TopUpStep, TopUpRead, TopUpCommit, SettlementStep, SettleCheck, SettleCommit,
     EmergencyQuery, EmergencyReadPayer, EmergencyFlush, EmergencyReadPayee, EmergencyCommit,
     SyncStep, SyncFetch, SyncLoad, SyncItemOk, SyncItemFails, SyncCommit, Rollback, OnlineRead,
     PayRead, PaySelect, PayFlush, PayCommitAfterResponse, CodeRead, CodeSelect,
     OnlineCommit, CodeCommit, txVars, IInv, TInv, TypeOK
<1>6. \A p \in TxIds : proofs'[p] # "none" => proofs[p] # "none" /\ pay'[p] = pay[p]
  BY <1>1, <1>5 DEF Fresh, IInv, RowInv, PaymentRows
<1> QED BY <1>1, <1>4, <1>6, SigningKept DEF IInv, TInv, TypeOK

LEMMA SigningNext == IInv /\ SigningInv /\ [Next]_vars => SigningInv'
<1> SUFFICES ASSUME IInv, SigningInv, [Next]_vars PROVE SigningInv'
  OBVIOUS
<1>0. sess \in [Requests -> Session] /\ destroyed \in [Workers -> SUBSET Tokens]
  BY DEF IInv, TInv, TypeOK
<1>1. ASSUME NEW r \in Requests, NEW p \in TxIds, PayCommit(r, p) PROVE SigningInv'
  <2>1. /\ sess[r].pc = "payFlushed" /\ Fresh(p) /\ UNCHANGED <<destroyed, restarts>>
        /\ pay' = [pay EXCEPT ![p] = OfflinePayment(sess[r])]
        /\ sess' = [sess EXCEPT ![r] = Idle]
    BY <1>1 DEF PayCommit, PayWrites, End, seVars
  <2>2. \A q \in TxIds \ {p} : proofs'[q] = proofs[q]
    BY <1>1 DEF PayCommit, IInv, TInv, TypeOK
  <2>3. ~Signs(sess'[r]) /\ \A q \in Requests \ {r} : sess'[q] = sess[q]
    BY <1>0, <2>1 DEF Signs, Idle
  <2> QED BY <2>1, <2>2, <2>3, SigningSend
<1>2. ASSUME NEW r \in Requests, NEW p \in TxIds, PayRespond(r, p) PROVE SigningInv'
  <2>1. /\ sess[r].pc = "payFlushed" /\ Fresh(p) /\ UNCHANGED <<destroyed, restarts>>
        /\ pay' = [pay EXCEPT ![p] = OfflinePayment(sess[r])]
        /\ sess' = [sess EXCEPT ![r].pc = "payResponded", ![r].tx = p]
    BY <1>2 DEF PayRespond, seVars
  <2>2. \A q \in TxIds \ {p} : proofs'[q] = proofs[q]
    BY <1>2 DEF PayRespond, IInv, TInv, TypeOK
  <2>3. ~Signs(sess'[r]) /\ \A q \in Requests \ {r} : sess'[q] = sess[q]
    BY <1>0, <2>1 DEF Signs, Session
  <2> QED BY <2>1, <2>2, <2>3, SigningSend
<1>3. ASSUME NEW r \in Requests, NEW k \in Workers, PaySignFails(r, k) PROVE SigningInv'
  <2>1. PICK P \in PrefixesBefore(sess[r].toks, destroyed[k]) :
          destroyed' = [destroyed EXCEPT ![k] = @ \cup P]
    BY <1>3 DEF PaySignFails, SignAndDestroy
  <2>2. P \in SUBSET Tokens
    BY <1>0 DEF PrefixesBefore, Session
  <2>3. /\ destroyed' \in [Workers -> SUBSET Tokens]
        /\ \A j \in Workers : destroyed[j] \subseteq destroyed'[j]
    BY <1>0, <2>1, <2>2
  <2>4. UNCHANGED <<pay, proofs, restarts>> /\ sess' = [sess EXCEPT ![r] = Idle]
    BY <1>3 DEF PaySignFails, End, txVars
  <2>5. SignersKept
    BY <1>0, <2>4 DEF SignersKept, Signs, Idle
  <2> QED BY <2>3, <2>4, <2>5, SigningKept
<1>4. CASE \E p \in TxIds : ProofExpires(p)
  <2>1. /\ UNCHANGED <<pay, destroyed, restarts, sess>>
        /\ \A p \in TxIds : proofs'[p] # "none" => proofs[p] # "none"
    BY <1>4 DEF ProofExpires, txVars, seVars, IInv, TInv, TypeOK
  <2> QED BY <1>0, <2>1, SigningKept DEF SignersKept
<1>5. CASE UNCHANGED vars
  <2>1. UNCHANGED <<pay, proofs, destroyed, restarts, sess>>
    BY <1>5 DEF vars, txVars, seVars
  <2> QED BY <1>0, <2>1, SigningKept DEF SignersKept
<1>6. ASSUME NEW r \in Requests, PaymentStep(r) PROVE SigningInv'
  BY <1>1, <1>2, <1>3, <1>6, SigningSign, SigningOthers DEF PaymentStep
<1> QED BY <1>4, <1>5, <1>6, SigningOthers, SigningRestart DEF Next

\* Whatever payments race, fail or are rolled back on whatever workers, a token
\* signs at most once per start of a worker: SoftwareSecureElement destroys the
\* key before another request of the process can use it.
THEOREM SignedPerStartHolds == Spec => []SignedPerStart
<1>1. IInv /\ SigningInv => SignedPerStart
  <2> SUFFICES ASSUME IInv, SigningInv, NEW t \in Tokens
               PROVE  Cardinality(Signed(t)) <= Cardinality({k \in Workers : t \in destroyed[k]}) + restarts
    BY DEF SignedPerStart, Signed
  <2> DEFINE K == {k \in Workers : t \in destroyed[k]}
  <2>1. IsFiniteSet(K) /\ Done(t) \subseteq K
    BY FiniteAssumption, FS_Subset DEF Done
  <2>2. Cardinality(Done(t)) <= Cardinality(K) /\ Cardinality(K) \in Nat
    BY <2>1, FS_Subset, FS_CardinalityType
  <2>3. Cardinality(Signed(t)) <= Cardinality(Done(t)) + restarts
    BY DEF SigningInv, ProofsInv
  <2> QED BY <2>2, <2>3, SigningTypes
<1> QED BY <1>1, SigningInit, SigningNext, Invariant, PTL DEF Spec

\* docs/adr/001 is right for an API that runs as one process which is never
\* restarted: a token can only ever sign one transaction.
THEOREM SignOnceOneStart ==
  ASSUME NEW k, Workers = {k}, MaxRestarts = 0
  PROVE  Spec => []SignOnce
<1>1. IInv /\ SignedPerStart => SignOnce
  <2> SUFFICES ASSUME IInv, SignedPerStart, NEW p \in TxIds, NEW q \in TxIds, p # q,
                      proofs[p] # "none", proofs[q] # "none",
                      NEW t \in pay[p].toks, t \in pay[q].toks
               PROVE  FALSE
    BY DEF SignOnce
  <2>1. t \in Tokens /\ restarts = 0
    BY DEF IInv, TInv, TypeOK, Payment
  <2>2. Cardinality(Signed(t)) <= Cardinality({j \in Workers : t \in destroyed[j]}) + restarts
    BY <2>1 DEF SignedPerStart, Signed
  <2>3. Cardinality({j \in Workers : t \in destroyed[j]}) <= 1
    <3>1. {j \in Workers : t \in destroyed[j]} \subseteq {k}
      OBVIOUS
    <3>2. IsFiniteSet({k}) /\ Cardinality({k}) = 1
      BY FS_Singleton
    <3> QED BY <3>1, <3>2, FS_Subset
  <2>4. {p, q} \subseteq Signed(t)
    BY DEF Signed
  <2>5. Cardinality({p, q}) = 2
    <3>1. IsFiniteSet({p}) /\ Cardinality({p}) = 1 /\ q \notin {p} /\ {p} \cup {q} = {p, q}
      BY FS_Singleton
    <3>2. Cardinality({p} \cup {q}) = Cardinality({p}) + 1
      BY <3>1, FS_AddElement
    <3>3. Cardinality({p, q}) = Cardinality({p}) + 1
      BY <3>1, <3>2, Zenon
    <3> QED BY <3>1, <3>3
  <2>6. Cardinality({p, q}) <= Cardinality(Signed(t))
    BY <2>1, <2>4, SigningTypes, FS_Subset
  <2>7. Cardinality({j \in Workers : t \in destroyed[j]}) \in Nat
    BY FiniteAssumption, FS_Subset, FS_CardinalityType
  <2> QED BY <2>1, <2>2, <2>3, <2>5, <2>6, <2>7, SigningTypes
<1> QED BY <1>1, SignedPerStartHolds, Invariant, PTL
=============================================================================
