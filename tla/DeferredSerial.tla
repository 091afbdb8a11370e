--------------------------- MODULE DeferredSerial ---------------------------
(***************************************************************************)
(* Proofs of what Deferred promises when requests are served one at a      *)
(* time, for any number of wallets, tokens, payments, workers, restarts    *)
(* and requests that follow each other.                                    *)
(*                                                                         *)
(* What a request read is still current when it commits (Current and       *)
(* CurrentBalance), so that the tables keep more than the registry         *)
(* invariant IInv.  SerialInv: a token belongs to one committed payment,   *)
(* and a registered one to a succeeded payment.  BalanceInv: what wallets  *)
(* can spend offline is allocated to them, and tokens locked to a code     *)
(* belong to one wallet.  From both follows that no step creates money.    *)
(***************************************************************************)
EXTENDS DeferredRegistry, CoinsProofs

\* At most one request is in flight.
Serial == \A r, q \in Requests : r = q

\* The tokens of a committed payment are spent or settled.
CommittedSpent ==
    \A p \in TxIds : txStatus[p] # "none" =>
        \A t \in pay[p].toks : tokStatus[t] \in Spent

\* Sync and settlement leave no payment half-way: what is registered succeeded.
RegisteredSucceeded ==
    \A t \in Tokens : gs[t] # None => txStatus[gs[t]] = "succeeded"

TokenInv == CommittedSpent /\ PaymentsDisjoint /\ RegisteredSucceeded /\ NoFalseDoubleSpend

\* The tokens a payment or a redemption goes on to spend are still minted; a
\* payment whose response is out, and one being settled, are where they were.
CurrentTokens(s) ==
    /\ s.pc \in {"paySelected", "paySigned", "payFlushed", "payResponded",
                 "emTokens", "emReady", "emFlushed", "emPayee"} =>
         \A t \in s.toks : tokStatus[t] = "minted"
    /\ s.pc = "payResponded" => txStatus[s.tx] = "none"
    /\ s.pc = "settle" /\ txStatus[s.tx] # "none" => s.seen

\* A sync has not staged the items still to come, has failed none, and stages
\* registry rows only for payments it stages as synced.
CurrentSync(s) ==
    /\ \A p \in TxIds : s.staged[p] # "failed"
    /\ \A p \in s.items : s.staged[p] = "none"
    /\ s.pc = "syncTx" => /\ s.tx \notin s.items /\ s.staged[s.tx] = "none"
                          /\ txStatus[s.tx] # "succeeded"
    /\ \A t \in Tokens : s.gsNew[t] # None => s.staged[s.gsNew[t]] = "ok"

Current(s) == CurrentTokens(s) /\ CurrentSync(s)

SerialInv == TokenInv /\ \A r \in Requests : Current(sess[r])

-----------------------------------------------------------------------------
(* How steps affect the parts of the invariant *)

\* The tables the invariant speaks of.
serialVars == <<tokStatus, gs, pay, txStatus>>

LEMMA IdleCurrent == Current(Idle)
  BY DEF Current, CurrentTokens, CurrentSync, Idle

\* A step of r that only reads.
LEMMA SerialRead ==
  ASSUME Serial, IInv, SerialInv, NEW r \in Requests, UNCHANGED serialVars,
         NEW n, Current(n), sess' = [sess EXCEPT ![r] = n]
  PROVE  SerialInv'
<1>1. TokenInv'
  BY DEF SerialInv, serialVars, TokenInv, CommittedSpent, PaymentsDisjoint,
     RegisteredSucceeded, NoFalseDoubleSpend
<1>2. PICK m : m = sess'
  OBVIOUS
<1>3. \A q \in Requests : m[q] = n
  BY <1>2 DEF Serial, IInv, TInv, TypeOK
<1>4. \A q \in Requests : Current(m[q])
  BY <1>3
<1>5. (\A q \in Requests : Current(sess[q]))'
  BY <1>2, <1>4 DEF Current, CurrentTokens, CurrentSync, serialVars
<1> QED BY <1>1, <1>5 DEF SerialInv

\* A step that ends the request of r.
LEMMA SerialEnd ==
  ASSUME Serial, IInv, TokenInv', NEW r \in Requests, End(r)
  PROVE  SerialInv'
<1>1. \A q \in Requests : sess'[q] = Idle
  BY DEF Serial, End, IInv, TInv, TypeOK
<1>2. (\A q \in Requests : Current(sess[q]))'
  BY <1>1 DEF Current, CurrentTokens, CurrentSync, Idle
<1> QED BY <1>2 DEF SerialInv

-----------------------------------------------------------------------------
(* Steps that only read *)

\* A request that has no tokens in hand and stages nothing.
LEMMA PlainCurrent ==
  ASSUME NEW s, s.pc \in {"topup", "online", "payWallet", "codeWallet", "codeTokens"},
         s.items = {}, s.staged = Idle.staged, s.gsNew = Idle.gsNew
  PROVE  Current(s)
  BY DEF Current, CurrentTokens, CurrentSync, Idle

\* Reads of top-ups and payments preserve the invariant.
LEMMA SerialPaymentReads ==
  ASSUME Serial, IInv, SerialInv, NEW r \in Requests,
         \/ TopUpRead(r) \/ OnlineRead(r) \/ PayRead(r) \/ CodeRead(r)
         \/ PaySelect(r) \/ CodeSelect(r) \/ PayFlush(r)
         \/ \E k \in Workers : PaySign(r, k)
  PROVE  SerialInv'
<1> DEFINE s == sess[r]
<1>0. s \in Session /\ Current(s) /\ sess \in [Requests -> Session]
  BY DEF IInv, TInv, TypeOK, SerialInv
<1>1. CASE TopUpRead(r)
  <2>1. PICK w \in Wallets, b \in TopUpBodies :
          sess' = [sess EXCEPT ![r] = [Idle EXCEPT !.pc = "topup", !.w = w, !.on = online[w],
                     !.off = offline[w], !.amount = b.amount, !.alloc = b.alloc]]
    BY <1>1 DEF TopUpRead
  <2> DEFINE n == [Idle EXCEPT !.pc = "topup", !.w = w, !.on = online[w],
                     !.off = offline[w], !.amount = b.amount, !.alloc = b.alloc]
  <2>2. /\ n.pc = "topup" /\ n.items = {} /\ n.staged = Idle.staged
        /\ n.gsNew = Idle.gsNew
    BY DEF Idle
  <2>3. Current(n)
    <3> HIDE DEF n
    <3> QED BY <2>2, PlainCurrent
  <2> QED BY SerialRead, <1>1, <2>1, <2>3 DEF TopUpRead, serialVars, tokenVars, txVars
<1>2. CASE OnlineRead(r)
  <2>1. PICK w \in Wallets, a \in Amounts :
          sess' = [sess EXCEPT ![r] = [Idle EXCEPT !.pc = "online", !.w = w, !.on = online[w], !.amount = a]]
    BY <1>2 DEF OnlineRead
  <2> DEFINE n == [Idle EXCEPT !.pc = "online", !.w = w, !.on = online[w], !.amount = a]
  <2>2. /\ n.pc = "online" /\ n.items = {} /\ n.staged = Idle.staged
        /\ n.gsNew = Idle.gsNew
    BY DEF Idle
  <2>3. Current(n)
    <3> HIDE DEF n
    <3> QED BY <2>2, PlainCurrent
  <2> QED BY SerialRead, <1>2, <2>1, <2>3 DEF OnlineRead, serialVars, tokenVars, txVars
<1>3. CASE PayRead(r)
  <2>1. PICK w \in Wallets, a \in Amounts :
          sess' = [sess EXCEPT ![r] = [Idle EXCEPT !.pc = "payWallet", !.w = w, !.off = offline[w], !.amount = a]]
    BY <1>3 DEF PayRead
  <2> DEFINE n == [Idle EXCEPT !.pc = "payWallet", !.w = w, !.off = offline[w], !.amount = a]
  <2>2. /\ n.pc = "payWallet" /\ n.items = {} /\ n.staged = Idle.staged
        /\ n.gsNew = Idle.gsNew
    BY DEF Idle
  <2>3. Current(n)
    <3> HIDE DEF n
    <3> QED BY <2>2, PlainCurrent
  <2> QED BY SerialRead, <1>3, <2>1, <2>3 DEF PayRead, serialVars, tokenVars, txVars
<1>4. CASE CodeRead(r)
  <2>1. PICK w \in Wallets, a \in Amounts :
          sess' = [sess EXCEPT ![r] = [Idle EXCEPT !.pc = "codeWallet", !.w = w, !.off = offline[w], !.amount = a]]
    BY <1>4 DEF CodeRead
  <2> DEFINE n == [Idle EXCEPT !.pc = "codeWallet", !.w = w, !.off = offline[w], !.amount = a]
  <2>2. /\ n.pc = "codeWallet" /\ n.items = {} /\ n.staged = Idle.staged
        /\ n.gsNew = Idle.gsNew
    BY DEF Idle
  <2>3. Current(n)
    <3> HIDE DEF n
    <3> QED BY <2>2, PlainCurrent
  <2> QED BY SerialRead, <1>4, <2>1, <2>3 DEF CodeRead, serialVars, tokenVars, txVars
<1>5. CASE PaySelect(r)
  <2>1. PICK S \in Selections(MintedOf(s.w), s.amount) :
          sess' = [sess EXCEPT ![r].pc = "paySelected", ![r].toks = S]
    BY <1>5 DEF PaySelect
  <2> DEFINE n == [s EXCEPT !.pc = "paySelected", !.toks = S]
  <2>2. \A t \in S : tokStatus[t] = "minted"
    BY DEF Selections, MintedOf
  <2>3. /\ n.pc = "paySelected" /\ n.toks = S
        /\ n.items = s.items /\ n.staged = s.staged /\ n.gsNew = s.gsNew
    BY <1>0 DEF Session
  <2>4. Current(n)
    <3> HIDE DEF n, s
    <3> QED BY <1>0, <2>2, <2>3 DEF Current, CurrentTokens, CurrentSync
  <2>5. sess' = [sess EXCEPT ![r] = n]
    BY <2>1
  <2> QED BY SerialRead, <1>5, <2>4, <2>5 DEF PaySelect, serialVars, tokenVars, txVars
<1>6. CASE CodeSelect(r)
  <2>1. PICK S : sess' = [sess EXCEPT ![r].pc = "codeTokens", ![r].toks = S]
    BY <1>6 DEF CodeSelect
  <2> DEFINE n == [s EXCEPT !.pc = "codeTokens", !.toks = S]
  <2>2. /\ n.pc = "codeTokens" /\ n.items = s.items /\ n.staged = s.staged
        /\ n.gsNew = s.gsNew
    BY <1>0 DEF Session
  <2>3. Current(n)
    <3> HIDE DEF n, s
    <3> QED BY <1>0, <2>2 DEF Current, CurrentTokens, CurrentSync
  <2>4. sess' = [sess EXCEPT ![r] = n]
    BY <2>1
  <2> QED BY SerialRead, <1>6, <2>3, <2>4 DEF CodeSelect, serialVars, tokenVars, txVars
<1>7. CASE PayFlush(r)
  <2> DEFINE n == [s EXCEPT !.pc = "payFlushed"]
  <2>1. /\ s.pc = "paySigned" /\ n.pc = "payFlushed" /\ n.toks = s.toks
        /\ n.items = s.items /\ n.staged = s.staged /\ n.gsNew = s.gsNew
    BY <1>0, <1>7 DEF PayFlush, Session
  <2>2. Current(n)
    <3> HIDE DEF n, s
    <3> QED BY <1>0, <2>1 DEF Current, CurrentTokens, CurrentSync
  <2>3. sess' = [sess EXCEPT ![r] = n]
    BY <1>7 DEF PayFlush
  <2> QED BY SerialRead, <1>7, <2>2, <2>3 DEF PayFlush, serialVars, tokenVars, txVars
<1>8. ASSUME NEW k \in Workers, PaySign(r, k) PROVE SerialInv'
  <2> DEFINE n == [s EXCEPT !.pc = "paySigned", !.worker = k]
  <2>1. /\ s.pc = "paySelected" /\ n.pc = "paySigned" /\ n.toks = s.toks
        /\ n.items = s.items /\ n.staged = s.staged /\ n.gsNew = s.gsNew
    BY <1>0, <1>8 DEF PaySign, Session
  <2>2. Current(n)
    <3> HIDE DEF n, s
    <3> QED BY <1>0, <2>1 DEF Current, CurrentTokens, CurrentSync
  <2>3. sess' = [sess EXCEPT ![r] = n]
    BY <1>8 DEF PaySign
  <2> QED BY SerialRead, <1>8, <2>2, <2>3 DEF PaySign, serialVars, tokenVars, txVars
<1> QED BY <1>1, <1>2, <1>3, <1>4, <1>5, <1>6, <1>7, <1>8

\* Reads of settlements and emergency redemptions preserve the invariant.
LEMMA SerialSettlementReads ==
  ASSUME Serial, IInv, SerialInv, NEW r \in Requests,
         \/ \E p \in TxIds : SettleCheck(r, p)
         \/ \E c \in Codes : EmergencyQuery(r, c)
         \/ EmergencyReadPayer(r) \/ EmergencyFlush(r) \/ EmergencyReadPayee(r)
  PROVE  SerialInv'
<1> DEFINE s == sess[r]
<1>0. s \in Session /\ Current(s) /\ sess \in [Requests -> Session]
  BY DEF IInv, TInv, TypeOK, SerialInv
<1>1. ASSUME NEW p \in TxIds, SettleCheck(r, p) PROVE SerialInv'
  <2> DEFINE n == [Idle EXCEPT !.pc = "settle", !.tx = p, !.toks = pay[p].toks,
                               !.seen = (txStatus[p] # "none")]
  <2>1. /\ n.pc = "settle" /\ n.tx = p /\ n.seen = (txStatus[p] # "none")
        /\ n.items = {} /\ n.staged = Idle.staged /\ n.gsNew = Idle.gsNew
    BY DEF Idle
  <2>2. Current(n)
    <3> HIDE DEF n
    <3>1. CurrentTokens(n)
      BY <2>1 DEF CurrentTokens
    <3>2. CurrentSync(n)
      BY <2>1 DEF CurrentSync, Idle
    <3> QED BY <3>1, <3>2 DEF Current
  <2> QED BY SerialRead, <1>1, <2>2 DEF SettleCheck, serialVars, tokenVars, txVars
<1>2. ASSUME NEW c \in Codes, EmergencyQuery(r, c) PROVE SerialInv'
  <2> DEFINE found == {t \in Tokens : otp[t] = c /\ tokStatus[t] = "minted"}
  <2>1. PICK a \in Amounts, payee \in Wallets \cup {None} :
          \E use \in SmallestFirst(found, a), first \in found :
            sess' = [sess EXCEPT ![r] =
              [Idle EXCEPT !.pc = IF use = found THEN "emReady" ELSE "emTokens",
                           !.w = owner[first], !.payee = payee, !.amount = a,
                           !.toks = found, !.use = use, !.code = c]]
    BY <1>2 DEF EmergencyQuery
  <2>2. PICK use \in SmallestFirst(found, a), first \in found :
          sess' = [sess EXCEPT ![r] =
            [Idle EXCEPT !.pc = IF use = found THEN "emReady" ELSE "emTokens",
                         !.w = owner[first], !.payee = payee, !.amount = a,
                         !.toks = found, !.use = use, !.code = c]]
    BY <2>1
  <2> DEFINE n == [Idle EXCEPT !.pc = IF use = found THEN "emReady" ELSE "emTokens",
                               !.w = owner[first], !.payee = payee, !.amount = a,
                               !.toks = found, !.use = use, !.code = c]
  <2>3. /\ n.pc \in {"emReady", "emTokens"} /\ n.toks = found
        /\ n.items = {} /\ n.staged = Idle.staged /\ n.gsNew = Idle.gsNew
    BY DEF Idle
  <2>4. \A t \in n.toks : tokStatus[t] = "minted"
    BY <2>3
  <2>5. Current(n)
    <3> HIDE DEF n, found
    <3> QED BY <2>3, <2>4 DEF Current, CurrentTokens, CurrentSync, Idle
  <2> QED BY SerialRead, <1>2, <2>2, <2>5 DEF EmergencyQuery, serialVars, tokenVars, txVars
<1>3. CASE EmergencyReadPayer(r)
  <2> DEFINE n == [s EXCEPT !.pc = "emReady", !.on = online[s.w], !.off = offline[s.w]]
  <2>1. /\ s.pc = "emTokens" /\ n.pc = "emReady" /\ n.toks = s.toks
        /\ n.items = s.items /\ n.staged = s.staged /\ n.gsNew = s.gsNew
    BY <1>0, <1>3 DEF EmergencyReadPayer, Session
  <2>2. Current(n)
    <3> HIDE DEF n, s
    <3> QED BY <1>0, <2>1 DEF Current, CurrentTokens, CurrentSync
  <2>3. sess' = [sess EXCEPT ![r] = n]
    BY <1>3 DEF EmergencyReadPayer
  <2> QED BY SerialRead, <1>3, <2>2, <2>3 DEF EmergencyReadPayer, serialVars, tokenVars, txVars
<1>4. CASE EmergencyFlush(r)
  <2> DEFINE n == [s EXCEPT !.pc = "emFlushed"]
  <2>1. /\ s.pc = "emReady" /\ n.pc = "emFlushed" /\ n.toks = s.toks
        /\ n.items = s.items /\ n.staged = s.staged /\ n.gsNew = s.gsNew
    BY <1>0, <1>4 DEF EmergencyFlush, Session
  <2>2. Current(n)
    <3> HIDE DEF n, s
    <3> QED BY <1>0, <2>1 DEF Current, CurrentTokens, CurrentSync
  <2>3. sess' = [sess EXCEPT ![r] = n]
    BY <1>4 DEF EmergencyFlush
  <2> QED BY SerialRead, <1>4, <2>2, <2>3 DEF EmergencyFlush, serialVars, tokenVars, txVars
<1>5. CASE EmergencyReadPayee(r)
  <2> DEFINE n == [s EXCEPT !.pc = "emPayee",
                            !.on = IF s.payee = s.w /\ s.use # s.toks
                                   THEN @ ELSE online[s.payee]]
  <2>1. /\ s.pc = "emFlushed" /\ n.pc = "emPayee" /\ n.toks = s.toks
        /\ n.items = s.items /\ n.staged = s.staged /\ n.gsNew = s.gsNew
    BY <1>0, <1>5 DEF EmergencyReadPayee, Session
  <2>2. Current(n)
    <3> HIDE DEF n, s
    <3> QED BY <1>0, <2>1 DEF Current, CurrentTokens, CurrentSync
  <2>3. sess' = [sess EXCEPT ![r] = n]
    BY <1>5 DEF EmergencyReadPayee
  <2> QED BY SerialRead, <1>5, <2>2, <2>3 DEF EmergencyReadPayee, serialVars, tokenVars, txVars
<1> QED BY <1>1, <1>2, <1>3, <1>4, <1>5

\* A queued payment that was not settled has none of its tokens in the registry:
\* a registered token belongs to one committed payment only, and that succeeded.
LEMMA NothingRegistered ==
  ASSUME IInv, SerialInv, NEW r \in Requests, sess[r].pc = "syncTx"
  PROVE  pay[sess[r].tx].toks \cap Registered(sess[r]) = {}
<1> DEFINE s == sess[r]
           p == s.tx
<1>0. /\ SyncInv(s) /\ CurrentSync(s) /\ s.gsNew \in [Tokens -> TxIds \cup {None}]
  BY DEF IInv, TInv, TypeOK, Session, SessionInv, SessInv, SerialInv, Current
<1>1. p \in TxIds /\ queue[p] # "none" /\ s.staged[p] = "none" /\ txStatus[p] # "succeeded"
  BY <1>0 DEF SyncInv, CurrentSync
<1>2. txStatus[p] # "none"
  BY <1>1 DEF IInv, RowInv, PaymentRows
<1>3. ASSUME NEW t \in pay[p].toks, t \in Tokens, gs[t] # None PROVE FALSE
  <2>1. /\ gs[t] \in TxIds /\ t \in pay[gs[t]].toks /\ txStatus[gs[t]] # "none"
        /\ txStatus[gs[t]] = "succeeded"
    BY <1>3 DEF IInv, TInv, TypeOK, RowInv, RegisteredNotSpendable, SerialInv, TokenInv,
       RegisteredSucceeded
  <2>2. gs[t] = p
    BY <1>1, <1>2, <1>3, <2>1 DEF SerialInv, TokenInv, PaymentsDisjoint
  <2> QED BY <1>1, <2>1, <2>2
<1>4. ASSUME NEW t \in pay[p].toks, t \in Tokens, s.gsNew[t] # None PROVE FALSE
  <2>1. /\ s.gsNew[t] \in TxIds /\ t \in pay[s.gsNew[t]].toks
        /\ queue[s.gsNew[t]] # "none" /\ s.staged[s.gsNew[t]] = "ok"
    BY <1>0, <1>4 DEF SyncInv, CurrentSync
  <2>2. txStatus[s.gsNew[t]] # "none"
    BY <2>1 DEF IInv, RowInv, PaymentRows
  <2>3. s.gsNew[t] = p
    BY <1>1, <1>2, <1>4, <2>1, <2>2 DEF SerialInv, TokenInv, PaymentsDisjoint
  <2> QED BY <1>1, <2>1, <2>3
<1> QED BY <1>3, <1>4 DEF Registered

\* Fetching and staging sync items preserves the invariant; in particular
\* SyncItemFails cannot happen.
LEMMA SerialSyncReads ==
  ASSUME Serial, IInv, SerialInv, NEW r \in Requests,
         \/ \E w \in Wallets \cup {None} : SyncFetch(r, w)
         \/ \E p \in TxIds : SyncLoad(r, p)
         \/ SyncItemOk(r) \/ SyncItemFails(r)
  PROVE  SerialInv'
<1> DEFINE s == sess[r]
<1>0. /\ s \in Session /\ Current(s) /\ s.staged \in [TxIds -> Outcomes]
      /\ s.gsNew \in [Tokens -> TxIds \cup {None}] /\ s.items \subseteq TxIds
  BY DEF IInv, TInv, TypeOK, SerialInv, Session
<1>1. ASSUME NEW w \in Wallets \cup {None}, SyncFetch(r, w) PROVE SerialInv'
  <2>1. PICK B \in Batches(w) :
          sess' = [sess EXCEPT ![r] = [Idle EXCEPT !.pc = "sync", !.items = B]]
    BY <1>1 DEF SyncFetch
  <2> DEFINE n == [Idle EXCEPT !.pc = "sync", !.items = B]
  <2>2. B \subseteq TxIds
    BY DEF Batches
  <2>3. n.pc = "sync" /\ n.items = B /\ n.staged = Idle.staged /\ n.gsNew = Idle.gsNew
    BY DEF Idle
  <2>4. Current(n)
    <3> HIDE DEF n
    <3> QED BY <2>2, <2>3 DEF Current, CurrentTokens, CurrentSync, Idle
  <2> QED BY SerialRead, <1>1, <2>1, <2>4 DEF SyncFetch, serialVars, tokenVars, txVars
<1>2. ASSUME NEW p \in TxIds, SyncLoad(r, p) PROVE SerialInv'
  <2>0. s.pc = "sync" /\ p \in s.items
    BY <1>2 DEF SyncLoad
  <2>1. CASE AlreadySettled(p)
    <3> DEFINE n == [s EXCEPT !.items = s.items \ {p},
                              !.staged = [s.staged EXCEPT ![p] = "already"]]
    <3>1. /\ n.pc = "sync" /\ n.items = s.items \ {p} /\ n.gsNew = s.gsNew
          /\ n.staged = [s.staged EXCEPT ![p] = "already"]
      BY <1>0, <2>0 DEF Session
    <3>2. Current(n)
      <4> HIDE DEF n, s
      <4>1. CurrentTokens(n)
        BY <3>1 DEF CurrentTokens
      <4>2. CurrentSync(n)
        BY <1>0, <2>0, <3>1 DEF Current, CurrentSync
      <4> QED BY <4>1, <4>2 DEF Current
    <3>3. sess' = [sess EXCEPT ![r] = n]
      BY <1>2, <2>1 DEF SyncLoad
    <3> QED BY SerialRead, <1>2, <3>2, <3>3 DEF SyncLoad, serialVars, tokenVars, txVars
  <2>2. CASE ~AlreadySettled(p)
    <3> DEFINE n == [s EXCEPT !.items = s.items \ {p}, !.pc = "syncTx", !.tx = p]
    <3>1. /\ n.pc = "syncTx" /\ n.tx = p /\ n.items = s.items \ {p}
          /\ n.gsNew = s.gsNew /\ n.staged = s.staged
      BY <1>0 DEF Session
    <3>2. Current(n)
      <4> HIDE DEF n, s
      <4>1. CurrentTokens(n)
        BY <3>1 DEF CurrentTokens
      <4>2. CurrentSync(n)
        BY <1>0, <2>0, <2>2, <3>1 DEF Current, CurrentSync, AlreadySettled
      <4> QED BY <4>1, <4>2 DEF Current
    <3>3. sess' = [sess EXCEPT ![r] = n]
      BY <1>2, <2>2 DEF SyncLoad
    <3> QED BY SerialRead, <1>2, <3>2, <3>3 DEF SyncLoad, serialVars, tokenVars, txVars
  <2> QED BY <2>1, <2>2
<1>3. CASE SyncItemOk(r)
  <2> DEFINE T == pay[s.tx].toks
             G == [t \in Tokens |-> IF t \in T THEN s.tx ELSE s.gsNew[t]]
             n == [s EXCEPT !.pc = "sync", !.tx = None, !.staged[s.tx] = "ok", !.gsNew = G]
  <2>1. /\ n.pc = "sync" /\ n.items = s.items
        /\ n.staged = [s.staged EXCEPT ![s.tx] = "ok"] /\ n.gsNew = G
    BY <1>0 DEF Session
  <2>2. s.pc = "syncTx" /\ s.tx \in TxIds
    BY <1>3 DEF SyncItemOk, IInv, SessionInv, SessInv, SyncInv
  <2>3. Current(n)
    <3> HIDE DEF n, s, T
    <3>1. CurrentTokens(n)
      BY <2>1 DEF CurrentTokens
    <3>2. CurrentSync(n)
      BY <1>0, <2>1, <2>2 DEF Current, CurrentSync
    <3> QED BY <3>1, <3>2 DEF Current
  <2>4. sess' = [sess EXCEPT ![r] = n]
    BY <1>3 DEF SyncItemOk, Stage
  <2> QED BY SerialRead, <1>3, <2>3, <2>4 DEF SyncItemOk, serialVars, tokenVars, txVars
<1>4. CASE SyncItemFails(r)
  BY <1>4, NothingRegistered DEF SyncItemFails, PrefixesBefore
<1> QED BY <1>1, <1>2, <1>3, <1>4

-----------------------------------------------------------------------------
(* Steps that write *)

\* Top-ups mint tokens of no payment: TopUpCommit.
LEMMA SerialTopUp ==
  ASSUME Serial, IInv, SerialInv, NEW r \in Requests, TopUpCommit(r)
  PROVE  SerialInv'
<1>1. PICK S \in MintSets(sess[r].alloc) :
        tokStatus' = [t \in Tokens |-> IF t \in S THEN "minted" ELSE tokStatus[t]]
  BY DEF TopUpCommit
<1>2. \A t \in Tokens : tokStatus[t] \in Spent => tokStatus'[t] \in Spent
  BY <1>1 DEF MintSets, Spent
<1>3. UNCHANGED <<gs, pay, txStatus>> /\ End(r)
  BY DEF TopUpCommit, txVars
<1>4. CommittedSpent'
  BY <1>2, <1>3 DEF SerialInv, TokenInv, CommittedSpent, IInv, TInv, TypeOK, Payment
<1>5. TokenInv'
  BY <1>3, <1>4 DEF SerialInv, TokenInv, PaymentsDisjoint, RegisteredSucceeded,
     NoFalseDoubleSpend
<1> QED BY <1>3, <1>5, SerialEnd

\* A committed payment p with the tokens T, which were minted until now: no
\* other committed payment has one of them.
LEMMA SerialSpends ==
  ASSUME Serial, IInv, SerialInv, NEW r \in Requests, End(r),
         NEW p \in TxIds, NEW T \in SUBSET Tokens,
         txStatus[p] = "none", \A t \in T : tokStatus[t] = "minted",
         pay'[p].toks = T, txStatus'[p] \in {"pending", "succeeded"},
         \A q \in TxIds \ {p} : txStatus'[q] = txStatus[q],
         \A q \in TxIds \ {p} : txStatus[q] # "none" => pay'[q] = pay[q],
         \A t \in T : tokStatus'[t] \in Spent,
         \A t \in Tokens \ T : tokStatus'[t] = tokStatus[t],
         \/ UNCHANGED gs
         \/ txStatus'[p] = "succeeded" /\ gs' = [t \in Tokens |-> IF t \in T THEN p ELSE gs[t]]
  PROVE  SerialInv'
<1>1. ASSUME NEW q \in TxIds \ {p}, txStatus'[q] # "none"
      PROVE  /\ pay'[q] = pay[q] /\ txStatus[q] # "none" /\ pay[q].toks \subseteq Tokens
             /\ pay[q].toks \cap T = {} /\ \A t \in pay[q].toks : tokStatus'[t] \in Spent
  <2>1. pay'[q] = pay[q] /\ txStatus[q] # "none" /\ pay[q].toks \subseteq Tokens
    BY <1>1 DEF IInv, TInv, TypeOK, Payment
  <2>2. \A t \in pay[q].toks : tokStatus[t] \in Spent
    BY <2>1 DEF SerialInv, TokenInv, CommittedSpent
  <2>3. pay[q].toks \cap T = {}
    BY <2>2 DEF Spent
  <2> QED BY <2>1, <2>2, <2>3
<1>2. CommittedSpent'
  BY <1>1 DEF CommittedSpent
<1>3. PaymentsDisjoint'
  <2> SUFFICES ASSUME NEW q \in TxIds, NEW u \in TxIds, q # u,
                      txStatus'[q] # "none", txStatus'[u] # "none"
               PROVE  pay'[q].toks \cap pay'[u].toks = {}
    BY DEF PaymentsDisjoint
  <2>1. CASE q = p
    BY <1>1, <2>1
  <2>2. CASE u = p
    BY <1>1, <2>2
  <2>3. CASE q # p /\ u # p
    BY <1>1, <2>3 DEF SerialInv, TokenInv, PaymentsDisjoint
  <2> QED BY <2>1, <2>2, <2>3
<1>4. \A t \in Tokens : gs[t] # p
  BY SetsAssumption DEF IInv, RowInv, RegisteredNotSpendable
<1>5. RegisteredSucceeded'
  BY <1>4 DEF SerialInv, TokenInv, RegisteredSucceeded, IInv, TInv, TypeOK
<1>6. NoFalseDoubleSpend'
  BY DEF SerialInv, TokenInv, NoFalseDoubleSpend
<1> QED BY <1>2, <1>3, <1>5, <1>6, SerialEnd DEF TokenInv

\* Commits of online and offline payments, and responses before the commit.
LEMMA SerialPayments ==
  ASSUME Serial, IInv, SerialInv, NEW r \in Requests,
         \/ \E p \in TxIds : OnlineCommit(r, p) \/ PayCommit(r, p) \/ PayRespond(r, p)
         \/ PayCommitAfterResponse(r)
  PROVE  SerialInv'
<1> DEFINE s == sess[r]
<1>0. /\ s \in Session /\ Current(s) /\ SessInv(s) /\ sess \in [Requests -> Session]
      /\ pay \in [TxIds -> Payment] /\ txStatus \in [TxIds -> TxStatus]
      /\ s.toks \in SUBSET Tokens
  BY DEF IInv, TInv, TypeOK, SerialInv, SessionInv, Session
<1>1. ASSUME NEW p \in TxIds, OnlineCommit(r, p) PROVE SerialInv'
  <2>1. /\ End(r) /\ Fresh(p) /\ UNCHANGED <<tokStatus, gs>>
        /\ pay'[p].toks = {} /\ txStatus'[p] = "succeeded"
        /\ \A q \in TxIds \ {p} : pay'[q] = pay[q] /\ txStatus'[q] = txStatus[q]
    BY <1>0, <1>1 DEF OnlineCommit, tokenVars
  <2>2. txStatus[p] = "none"
    BY <2>1, FreshRows
  <2> QED BY <2>1, <2>2, SerialSpends
<1>2. ASSUME NEW p \in TxIds, PayWrites(r, p), txStatus[p] = "none",
             s.pc \in {"payFlushed", "payResponded"}, pay'[p].toks = s.toks,
             \A q \in TxIds \ {p} : pay'[q] = pay[q]
      PROVE  SerialInv'
  <2>1. /\ End(r) /\ UNCHANGED gs /\ txStatus'[p] = "pending"
        /\ \A q \in TxIds \ {p} : txStatus'[q] = txStatus[q]
        /\ \A t \in s.toks : tokStatus'[t] \in Spent
        /\ \A t \in Tokens \ s.toks : tokStatus'[t] = tokStatus[t]
    BY <1>0, <1>2 DEF PayWrites, Spent
  <2>2. \A t \in s.toks : tokStatus[t] = "minted"
    BY <1>0, <1>2 DEF Current, CurrentTokens
  <2> HIDE DEF s
  <2> QED BY <1>0, <1>2, <2>1, <2>2, SerialSpends
<1>3. ASSUME NEW p \in TxIds, PayCommit(r, p) PROVE SerialInv'
  <2>1. /\ PayWrites(r, p) /\ Fresh(p) /\ s.pc = "payFlushed" /\ pay'[p].toks = s.toks
        /\ \A q \in TxIds \ {p} : pay'[q] = pay[q]
    BY <1>0, <1>3 DEF PayCommit, OfflinePayment
  <2>2. txStatus[p] = "none"
    BY <2>1, FreshRows
  <2> QED BY <1>2, <2>1, <2>2
<1>4. CASE PayCommitAfterResponse(r)
  <2>1. s.tx \in TxIds /\ pay[s.tx].toks = s.toks /\ txStatus[s.tx] = "none"
    BY <1>0, <1>4 DEF PayCommitAfterResponse, SessInv, PayInv, Current, CurrentTokens
  <2> QED BY <1>2, <1>4, <2>1 DEF PayCommitAfterResponse
<1>5. ASSUME NEW p \in TxIds, PayRespond(r, p) PROVE SerialInv'
  <2>1. /\ Fresh(p) /\ s.pc = "payFlushed" /\ UNCHANGED <<tokStatus, gs, txStatus>>
        /\ \A q \in TxIds \ {p} : pay'[q] = pay[q]
        /\ sess' = [sess EXCEPT ![r] = [s EXCEPT !.pc = "payResponded", !.tx = p]]
    BY <1>0, <1>5 DEF PayRespond, tokenVars
  <2>2. txStatus[p] = "none"
    BY <2>1, FreshRows
  <2>3. \A q \in TxIds : txStatus[q] # "none" => pay'[q] = pay[q]
    BY <2>1, <2>2
  <2>4. TokenInv'
    BY <2>1, <2>3 DEF SerialInv, TokenInv, CommittedSpent, PaymentsDisjoint,
       RegisteredSucceeded, NoFalseDoubleSpend
  <2>5. PICK m : m = sess'
    OBVIOUS
  <2>6. /\ m[r].pc = "payResponded" /\ m[r].tx = p /\ m[r].toks = s.toks
        /\ m[r].items = s.items /\ m[r].staged = s.staged /\ m[r].gsNew = s.gsNew
    BY <1>0, <2>1, <2>5 DEF Session
  <2>7. Current(m[r])
    <3>1. \A t \in s.toks : tokStatus[t] = "minted"
      BY <1>0, <2>1 DEF Current, CurrentTokens
    <3> HIDE DEF s
    <3> QED BY <1>0, <2>2, <2>6, <3>1 DEF Current, CurrentTokens, CurrentSync
  <2>8. (\A q \in Requests : Current(sess[q]))'
    <3>1. \A q \in Requests : Current(m[q])
      BY <2>7 DEF Serial
    <3> QED BY <2>1, <2>5, <3>1 DEF Current, CurrentTokens, CurrentSync
  <2> QED BY <2>4, <2>8 DEF SerialInv
<1> QED BY <1>1, <1>3, <1>4, <1>5

\* Settlement of a proof: the payment is committed, and found.
LEMMA SerialSettle ==
  ASSUME Serial, IInv, SerialInv, NEW r \in Requests, SettleCommit(r)
  PROVE  SerialInv'
<1> DEFINE s == sess[r]
<1>0. /\ s.tx \in TxIds /\ pay[s.tx].toks = s.toks /\ s.toks \subseteq Tokens
      /\ txStatus[s.tx] # "none"
  BY DEF SettleCommit, HasTransaction, IInv, SessionInv, SessInv, SettleInv, TInv, TypeOK,
     Payment
<1>1. s.seen
  BY <1>0 DEF SettleCommit, SerialInv, Current, CurrentTokens
<1>2. /\ End(r) /\ UNCHANGED pay
      /\ gs' = [t \in Tokens |-> IF t \in s.toks THEN s.tx ELSE gs[t]]
      /\ tokStatus' = [t \in Tokens |-> IF t \in s.toks THEN "settled" ELSE tokStatus[t]]
      /\ txStatus' = [txStatus EXCEPT ![s.tx] = "succeeded"]
  BY <1>1 DEF SettleCommit
<1>3. /\ txStatus'[s.tx] = "succeeded"
      /\ \A q \in TxIds \ {s.tx} : txStatus'[q] = txStatus[q]
      /\ \A q \in TxIds : txStatus'[q] # "none" => txStatus[q] # "none"
  BY <1>0, <1>2 DEF IInv, TInv, TypeOK
<1> HIDE DEF s
<1>4. CommittedSpent'
  BY <1>2, <1>3 DEF SerialInv, TokenInv, CommittedSpent, Spent, IInv, TInv, TypeOK, Payment
<1>5. PaymentsDisjoint'
  BY <1>2, <1>3 DEF SerialInv, TokenInv, PaymentsDisjoint
<1>6. RegisteredSucceeded'
  BY <1>0, <1>2, <1>3 DEF SerialInv, TokenInv, RegisteredSucceeded, IInv, TInv, TypeOK
<1>7. NoFalseDoubleSpend'
  BY <1>3 DEF SerialInv, TokenInv, NoFalseDoubleSpend
<1> QED BY <1>2, <1>4, <1>5, <1>6, <1>7, SerialEnd DEF TokenInv

\* Redemption of an emergency code.
LEMMA SerialRedeem ==
  ASSUME Serial, IInv, SerialInv, NEW r \in Requests, NEW p \in TxIds, EmergencyCommit(r, p)
  PROVE  SerialInv'
<1> DEFINE s == sess[r]
<1>0. s.pc \in {"emFlushed", "emPayee"} /\ s.use \subseteq s.toks /\ s.use \in SUBSET Tokens
  BY DEF EmergencyCommit, IInv, SessionInv, SessInv, EmergencyInv, TInv, TypeOK, Session
<1>1. \A t \in s.use : tokStatus[t] = "minted"
  BY <1>0 DEF SerialInv, Current, CurrentTokens
<1>2. /\ End(r) /\ Fresh(p)
      /\ pay' = [pay EXCEPT ![p] = EmergencyPayment(s)]
      /\ txStatus' = [txStatus EXCEPT ![p] = "succeeded"]
      /\ gs' = [t \in Tokens |-> IF t \in s.use THEN p ELSE gs[t]]
      /\ tokStatus' = [t \in Tokens |-> IF t \in s.use THEN "settled" ELSE tokStatus[t]]
  BY DEF EmergencyCommit
<1>3. /\ pay'[p].toks = s.use /\ txStatus'[p] = "succeeded"
      /\ \A q \in TxIds \ {p} : pay'[q] = pay[q] /\ txStatus'[q] = txStatus[q]
  BY <1>2 DEF IInv, TInv, TypeOK, EmergencyPayment
<1>4. txStatus[p] = "none"
  BY <1>2, FreshRows
<1> HIDE DEF s
<1>5. /\ \A t \in s.use : tokStatus'[t] \in Spent
      /\ \A t \in Tokens \ s.use : tokStatus'[t] = tokStatus[t]
  BY <1>0, <1>2 DEF Spent
<1> QED BY <1>0, <1>1, <1>2, <1>3, <1>4, <1>5, SerialSpends

\* Commit of a sync batch, none of whose items has failed.
LEMMA SerialSync ==
  ASSUME Serial, IInv, SerialInv, NEW r \in Requests, SyncCommit(r)
  PROVE  SerialInv'
<1> DEFINE s == sess[r]
<1>0. /\ SyncInv(s) /\ CurrentSync(s) /\ s.gsNew \in [Tokens -> TxIds \cup {None}]
  BY DEF IInv, TInv, TypeOK, Session, SessionInv, SessInv, SerialInv, Current
<1>1. /\ End(r) /\ UNCHANGED <<pay, tokStatus>>
      /\ gs' = [t \in Tokens |-> IF s.gsNew[t] # None THEN s.gsNew[t] ELSE gs[t]]
      /\ txStatus' = [p \in TxIds |->
           CASE s.staged[p] = "ok" -> "succeeded"
             [] s.staged[p] = "failed" -> "failed"
             [] OTHER -> txStatus[p]]
  BY DEF SyncCommit, tokenVars
<1> HIDE DEF s
<1>2. ASSUME NEW p \in TxIds
      PROVE  /\ txStatus'[p] = IF s.staged[p] = "ok" THEN "succeeded" ELSE txStatus[p]
             /\ txStatus'[p] # "none" => txStatus[p] # "none"
  <2>1. s.staged[p] # "failed"
    BY <1>0 DEF CurrentSync
  <2>2. s.staged[p] # "none" => txStatus[p] # "none"
    BY <1>0 DEF SyncInv, IInv, RowInv, PaymentRows
  <2> QED BY <1>1, <2>1, <2>2
<1>3. CommittedSpent'
  BY <1>1, <1>2 DEF SerialInv, TokenInv, CommittedSpent
<1>4. PaymentsDisjoint'
  BY <1>1, <1>2 DEF SerialInv, TokenInv, PaymentsDisjoint
<1>5. RegisteredSucceeded'
  <2> SUFFICES ASSUME NEW t \in Tokens, gs'[t] # None
               PROVE  txStatus'[gs'[t]] = "succeeded"
    BY DEF RegisteredSucceeded
  <2>1. CASE s.gsNew[t] # None
    BY <1>0, <1>1, <1>2, <2>1 DEF CurrentSync
  <2>2. CASE s.gsNew[t] = None
    BY <1>1, <1>2, <2>2 DEF SerialInv, TokenInv, RegisteredSucceeded, IInv, TInv, TypeOK
  <2> QED BY <2>1, <2>2
<1>6. NoFalseDoubleSpend'
  BY <1>2 DEF SerialInv, TokenInv, NoFalseDoubleSpend
<1> QED BY <1>1, <1>3, <1>4, <1>5, <1>6, SerialEnd DEF TokenInv

\* Steps that leave payments and tokens alone and end requests or none: code
\* requests, failed signatures, rollbacks, restarts, proofs that expire.
LEMMA SerialEnds ==
  ASSUME IInv, SerialInv,
         \/ \E r \in Requests : \/ Rollback(r)
                                \/ \E k \in Workers : PaySignFails(r, k)
                                \/ \E c \in Codes : CodeCommit(r, c)
         \/ \E p \in TxIds : ProofExpires(p)
         \/ \E k \in Workers : Restart(k)
         \/ UNCHANGED vars
  PROVE  SerialInv'
<1>1. UNCHANGED serialVars
  BY DEF Rollback, PaySignFails, CodeCommit, ProofExpires, Restart, vars, serialVars,
     tokenVars, txVars
<1>2. \A q \in Requests : sess'[q] \in {sess[q], Idle}
  BY DEF Rollback, PaySignFails, CodeCommit, ProofExpires, Restart, vars, End, IInv, TInv,
     TypeOK
<1>3. TokenInv'
  BY <1>1 DEF SerialInv, serialVars, TokenInv, CommittedSpent, PaymentsDisjoint,
     RegisteredSucceeded, NoFalseDoubleSpend
<1>4. PICK m : m = sess'
  OBVIOUS
<1>5. \A q \in Requests : Current(m[q])
  BY <1>2, <1>4, IdleCurrent DEF SerialInv
<1>6. (\A q \in Requests : Current(sess[q]))'
  BY <1>1, <1>4, <1>5 DEF Current, CurrentTokens, CurrentSync, serialVars
<1> QED BY <1>3, <1>6 DEF SerialInv

\* The invariant holds initially and is preserved by every step.
LEMMA SerialInit == Init => SerialInv
<1> SUFFICES ASSUME Init PROVE SerialInv
  OBVIOUS
<1>1. TokenInv
  BY DEF Init, TokenInv, CommittedSpent, PaymentsDisjoint, RegisteredSucceeded,
     NoFalseDoubleSpend
<1>2. \A r \in Requests : Current(sess[r])
  BY IdleCurrent DEF Init
<1> QED BY <1>1, <1>2 DEF SerialInv

LEMMA SerialNext ==
  ASSUME Serial
  PROVE  IInv /\ SerialInv /\ [Next]_vars => SerialInv'
<1> SUFFICES ASSUME IInv, SerialInv, [Next]_vars PROVE SerialInv'
  OBVIOUS
<1>1. ASSUME NEW r \in Requests, TopUpStep(r) PROVE SerialInv'
  BY <1>1, SerialPaymentReads, SerialTopUp DEF TopUpStep
<1>2. ASSUME NEW r \in Requests, PaymentStep(r) PROVE SerialInv'
  BY <1>2, SerialPaymentReads, SerialPayments, SerialEnds DEF PaymentStep
<1>3. ASSUME NEW r \in Requests, SettlementStep(r) PROVE SerialInv'
  BY <1>3, SerialSettlementReads, SerialSettle, SerialRedeem DEF SettlementStep
<1>4. ASSUME NEW r \in Requests, SyncStep(r) PROVE SerialInv'
  BY <1>4, SerialSyncReads, SerialSync DEF SyncStep
<1> QED BY <1>1, <1>2, <1>3, <1>4, SerialEnds DEF Next

LEMMA SerialInvariant ==
  ASSUME Serial
  PROVE  Spec => []SerialInv
<1>1. IInv /\ SerialInv /\ [Next]_vars => SerialInv'
  BY SerialNext
<1> QED BY <1>1, SerialInit, Invariant, PTL DEF Spec

-----------------------------------------------------------------------------
(* Theorems on tokens and payments *)

\* Served one at a time, _create_offline_payment and settle_emergency_code never
\* commit two payments that use the same token.
THEOREM PaymentsDisjointHolds ==
  ASSUME Serial
  PROVE  Spec => []PaymentsDisjoint
<1>1. SerialInv => PaymentsDisjoint
  BY DEF SerialInv, TokenInv
<1> QED BY <1>1, SerialInvariant, PTL

\* Served one at a time, trigger_sync never marks a payment as a double spend.
THEOREM NoFalseDoubleSpendHolds ==
  ASSUME Serial
  PROVE  Spec => []NoFalseDoubleSpend
<1>1. SerialInv => NoFalseDoubleSpend
  BY DEF SerialInv, TokenInv
<1> QED BY <1>1, SerialInvariant, PTL

-----------------------------------------------------------------------------
(* Minting *)

\* The recursive function of Remaining, denomination by denomination.
LEMMA RemainingValues ==
  ASSUME NEW n \in Nat
  PROVE  /\ Remaining(n)[10000] = n
         /\ Remaining(n)[5000] = Remaining(n)[10000] % 10000
         /\ Remaining(n)[2000] = Remaining(n)[5000] % 5000
         /\ Remaining(n)[1000] = Remaining(n)[2000] % 2000
         /\ Remaining(n)[500] = Remaining(n)[1000] % 1000
<1> DEFINE larger(d) == {e \in Denominations : e > d}
           step(f) == [d \in Denominations |->
             IF larger(d) = {} THEN n ELSE f[Min(larger(d))] % Min(larger(d))]
           f5 == n % 10000
           f2 == f5 % 5000
           f1 == f2 % 2000
           g == [d \in Denominations |->
             IF d = 10000 THEN n ELSE IF d = 5000 THEN f5 ELSE IF d = 2000 THEN f2
             ELSE IF d = 1000 THEN f1 ELSE f1 % 1000]
<1>1. Remaining(n) = CHOOSE f : f = step(f)
  BY DEF Remaining
<1>2. /\ larger(10000) = {}
      /\ larger(5000) = {10000}
      /\ larger(2000) = {5000, 10000}
      /\ larger(1000) = {2000, 5000, 10000}
      /\ larger(500) = {1000, 2000, 5000, 10000}
  BY DEF Denominations
<1>3. /\ Min({10000}) = 10000 /\ Min({5000, 10000}) = 5000
      /\ Min({2000, 5000, 10000}) = 2000 /\ Min({1000, 2000, 5000, 10000}) = 1000
  BY DEF Min
<1>4. /\ larger(5000) # {} /\ larger(2000) # {} /\ larger(1000) # {} /\ larger(500) # {}
  BY <1>2
<1>5. /\ Min(larger(5000)) = 10000 /\ Min(larger(2000)) = 5000
      /\ Min(larger(1000)) = 2000 /\ Min(larger(500)) = 1000
  <2> HIDE DEF larger
  <2> QED BY <1>2, <1>3
<1>6. larger(10000) = {}
  BY <1>2
<1> HIDE DEF larger
<1>7. ASSUME NEW f
      PROVE  /\ step(f)[10000] = n /\ step(f)[5000] = f[10000] % 10000
             /\ step(f)[2000] = f[5000] % 5000 /\ step(f)[1000] = f[2000] % 2000
             /\ step(f)[500] = f[1000] % 1000
  BY <1>4, <1>5, <1>6 DEF Denominations
<1>8. g = step(g)
  <2>1. \A d \in Denominations : g[d] = step(g)[d]
    <3>1. /\ g[10000] = n /\ g[5000] = f5 /\ g[2000] = f2 /\ g[1000] = f1 /\ g[500] = f1 % 1000
      BY DEF Denominations
    <3> HIDE DEF g, step
    <3> QED BY <1>7, <3>1 DEF Denominations
  <2>2. g = [d \in Denominations |-> g[d]] /\ step(g) = [d \in Denominations |-> step(g)[d]]
    OBVIOUS
  <2> HIDE DEF g, step
  <2> QED BY <2>1, <2>2
<1>9. Remaining(n) = step(Remaining(n))
  <2> HIDE DEF g, step
  <2> QED BY <1>1, <1>8
<1> HIDE DEF step
<1> QED BY <1>7, <1>9

\* mint_tokens never mints more than it was asked to.
LEMMA MintValue ==
  ASSUME NEW n \in Nat, NEW S \in MintSets(n)
  PROVE  Value(S) <= n
<1> DEFINE R == Remaining(n)
           B(d) == {t \in S : Denom[t] = d}
<1>1. S \in SUBSET Tokens /\ \A d \in Denominations : Cardinality(B(d)) = R[d] \div d
  BY DEF MintSets
<1>2. Denom \in [Tokens -> Nat]
  BY DenomAssumption
<1>3. ASSUME NEW d \in Denominations PROVE Value(B(d)) = d * Cardinality(B(d))
  <2>1. B(d) \in SUBSET Tokens /\ IsFiniteSet(B(d)) /\ \A t \in B(d) : Denom[t] = d
    BY <1>1, ValueType
  <2>2. d \in Nat
    BY DEF Denominations
  <2> HIDE DEF B
  <2> QED BY <1>2, <2>1, <2>2, SumConstant DEF Value
<1> DEFINE from5 == B(5000) \cup B(10000)
           from2 == B(2000) \cup from5
           from1 == B(1000) \cup from2
<1>4. S = B(500) \cup from1
  BY <1>1, DenominationsAssumption DEF Denominations
<1>5. /\ B(500) \in SUBSET Tokens /\ B(1000) \in SUBSET Tokens /\ B(2000) \in SUBSET Tokens
      /\ B(5000) \in SUBSET Tokens /\ B(10000) \in SUBSET Tokens
      /\ B(5000) \cap B(10000) = {} /\ B(2000) \cap from5 = {}
      /\ B(1000) \cap from2 = {} /\ B(500) \cap from1 = {}
      /\ from5 \in SUBSET Tokens /\ from2 \in SUBSET Tokens /\ from1 \in SUBSET Tokens
  BY <1>1
<1> HIDE DEF B
<1>6. Value(S) = Value(B(500)) + (Value(B(1000)) + (Value(B(2000)) + (Value(B(5000)) + Value(B(10000)))))
  <2>1. Value(from5) = Value(B(5000)) + Value(B(10000))
    BY <1>5, ValueUnion
  <2> HIDE DEF from5
  <2>2. Value(from2) = Value(B(2000)) + Value(from5)
    BY <1>5, ValueUnion
  <2> HIDE DEF from2
  <2>3. Value(from1) = Value(B(1000)) + Value(from2)
    BY <1>5, ValueUnion
  <2> HIDE DEF from1
  <2>4. Value(S) = Value(B(500)) + Value(from1)
    BY <1>4, <1>5, ValueUnion
  <2> QED BY <2>1, <2>2, <2>3, <2>4
<1>7. /\ Value(B(500)) = 500 * (R[500] \div 500) /\ Value(B(1000)) = 1000 * (R[1000] \div 1000)
      /\ Value(B(2000)) = 2000 * (R[2000] \div 2000) /\ Value(B(5000)) = 5000 * (R[5000] \div 5000)
      /\ Value(B(10000)) = 10000 * (R[10000] \div 10000)
  BY <1>1, <1>3 DEF Denominations
<1>8. PICK a \in Nat, b \in Nat, c \in Nat, d \in Nat, e \in Nat :
        /\ a = R[10000] /\ b = R[5000] /\ c = R[2000] /\ d = R[1000] /\ e = R[500]
        /\ a = n /\ b = a % 10000 /\ c = b % 5000 /\ d = c % 2000 /\ e = d % 1000
  BY RemainingValues
<1> HIDE DEF R
<1>9. Value(S) = 500 * (e \div 500) + (1000 * (d \div 1000) + (2000 * (c \div 2000)
                   + (5000 * (b \div 5000) + 10000 * (a \div 10000))))
  BY <1>6, <1>7, <1>8
<1>10. /\ 500 * (e \div 500) <= e /\ 1000 * (d \div 1000) = d - e
       /\ 2000 * (c \div 2000) = c - d /\ 5000 * (b \div 5000) = b - c
       /\ 10000 * (a \div 10000) = a - b
  BY <1>8
<1> QED BY <1>8, <1>9, <1>10

-----------------------------------------------------------------------------
(* Balances *)

\* A token that was not minted has no owner and no code; a code in use was
\* issued, and the tokens locked to it belong to one wallet.
CodeInv ==
    \A t \in Tokens :
        /\ tokStatus[t] = "none" => owner[t] = None /\ otp[t] = None
        /\ otp[t] \in Codes => codeAmt[otp[t]] > 0
        /\ \A u \in Tokens : otp[t] \in Codes /\ otp[t] = otp[u] => owner[t] = owner[u]

\* The balances a request has read are current; the tokens it has selected are
\* its wallet's.
CurrentWallet(s) ==
    /\ s.pc \in {"topup", "payWallet", "paySelected", "paySigned", "payFlushed",
                 "payResponded", "codeWallet", "codeTokens"} =>
         s.w \in Wallets /\ s.off = offline[s.w]
    /\ s.pc \in {"topup", "online"} => s.w \in Wallets /\ s.on = online[s.w]
    /\ s.pc = "topup" => s.alloc <= s.amount
    /\ s.pc \in {"paySelected", "paySigned", "payFlushed", "payResponded"} =>
         s.toks \subseteq MintedOf(s.w)
    /\ s.pc \in {"codeWallet", "codeTokens"} => s.amount > 0
    /\ s.pc = "codeTokens" => s.toks \subseteq FreeOf(s.w)

CurrentRedemption(s) ==
    /\ s.pc \in {"emTokens", "emReady", "emFlushed", "emPayee"} =>
         /\ s.w \in Wallets /\ s.code \in Codes
         /\ \A t \in s.toks : otp[t] = s.code /\ owner[t] = s.w
    /\ s.pc \in {"emReady", "emFlushed", "emPayee"} /\ s.use # s.toks =>
         s.off = offline[s.w]
    /\ s.pc \in {"emReady", "emFlushed"} /\ s.use # s.toks => s.on = online[s.w]
    /\ s.pc = "emPayee" => s.payee \in Wallets /\ s.on = online[s.payee]

CurrentBalance(s) == CurrentWallet(s) /\ CurrentRedemption(s)


BalanceTables == CodeInv /\ Solvent

BalanceInv == BalanceTables /\ \A r \in Requests : CurrentBalance(sess[r])

-----------------------------------------------------------------------------
(* How steps affect balances *)

\* The tables the invariant speaks of.
balanceVars == <<online, offline, allocated, tokStatus, owner, otp, codeAmt>>

LEMMA TablesUnchanged ==
  ASSUME BalanceTables, UNCHANGED balanceVars
  PROVE  BalanceTables'
  BY DEF BalanceTables, CodeInv, Solvent, FreeOf, MintedOf, balanceVars

\* A step of r that only reads.
LEMMA BalanceRead ==
  ASSUME Serial, IInv, BalanceInv, NEW r \in Requests, UNCHANGED balanceVars,
         NEW n, CurrentBalance(n), sess' = [sess EXCEPT ![r] = n]
  PROVE  BalanceInv'
<1>1. BalanceTables'
  BY TablesUnchanged DEF BalanceInv
<1>2. PICK m : m = sess'
  OBVIOUS
<1>3. \A q \in Requests : m[q] = n
  BY <1>2 DEF Serial, IInv, TInv, TypeOK
<1>4. \A q \in Requests : CurrentBalance(m[q])
  BY <1>3
<1>5. (\A q \in Requests : CurrentBalance(sess[q]))'
  BY <1>2, <1>4 DEF CurrentBalance, CurrentWallet, CurrentRedemption, FreeOf, MintedOf,
     balanceVars
<1> QED BY <1>1, <1>5 DEF BalanceInv

\* A step after which the request of r depends on no balance.
LEMMA BalanceOther ==
  ASSUME Serial, BalanceTables', NEW r \in Requests,
         sess'[r].pc \in {"idle", "settle", "sync", "syncTx"}
  PROVE  BalanceInv'
<1>1. \A q \in Requests : sess'[q].pc \in {"idle", "settle", "sync", "syncTx"}
  BY DEF Serial
<1>2. (\A q \in Requests : CurrentBalance(sess[q]))'
  BY <1>1 DEF CurrentBalance, CurrentWallet, CurrentRedemption
<1> QED BY <1>2 DEF BalanceInv

LEMMA BalanceEnd ==
  ASSUME Serial, IInv, BalanceTables', NEW r \in Requests, End(r)
  PROVE  BalanceInv'
<1>1. sess'[r].pc = "idle"
  BY DEF End, Idle, IInv, TInv, TypeOK
<1> QED BY <1>1, BalanceOther

-----------------------------------------------------------------------------
(* Balances: steps that only read *)

\* Requests that start by reading a wallet.
LEMMA BalanceFirstReads ==
  ASSUME Serial, IInv, BalanceInv, NEW r \in Requests,
         TopUpRead(r) \/ OnlineRead(r) \/ PayRead(r) \/ CodeRead(r)
  PROVE  BalanceInv'
<1>1. CASE TopUpRead(r)
  <2>1. PICK w \in Wallets, b \in TopUpBodies :
          sess' = [sess EXCEPT ![r] = [Idle EXCEPT !.pc = "topup", !.w = w, !.on = online[w],
                     !.off = offline[w], !.amount = b.amount, !.alloc = b.alloc]]
    BY <1>1 DEF TopUpRead
  <2> DEFINE n == [Idle EXCEPT !.pc = "topup", !.w = w, !.on = online[w],
                     !.off = offline[w], !.amount = b.amount, !.alloc = b.alloc]
  <2>2. /\ n.pc = "topup" /\ n.w = w /\ n.on = online[w] /\ n.off = offline[w]
        /\ n.amount = b.amount /\ n.alloc = b.alloc
    BY DEF Idle
  <2>3. b.alloc <= b.amount
    BY TopUpAssumption
  <2>4. CurrentBalance(n)
    <3> HIDE DEF n
    <3> QED BY <2>2, <2>3 DEF CurrentBalance, CurrentWallet, CurrentRedemption
  <2> QED BY BalanceRead, <1>1, <2>1, <2>4 DEF TopUpRead, balanceVars, walletVars, topupVars, tokenVars
<1>2. CASE OnlineRead(r)
  <2>1. PICK w \in Wallets, a \in Amounts :
          sess' = [sess EXCEPT ![r] = [Idle EXCEPT !.pc = "online", !.w = w, !.on = online[w], !.amount = a]]
    BY <1>2 DEF OnlineRead
  <2> DEFINE n == [Idle EXCEPT !.pc = "online", !.w = w, !.on = online[w], !.amount = a]
  <2>2. /\ n.pc = "online" /\ n.w = w /\ n.on = online[w]
    BY DEF Idle
  <2>3. CurrentBalance(n)
    <3> HIDE DEF n
    <3> QED BY <2>2 DEF CurrentBalance, CurrentWallet, CurrentRedemption
  <2> QED BY BalanceRead, <1>2, <2>1, <2>3 DEF OnlineRead, balanceVars, walletVars, topupVars, tokenVars
<1>3. CASE PayRead(r)
  <2>1. PICK w \in Wallets, a \in Amounts :
          sess' = [sess EXCEPT ![r] = [Idle EXCEPT !.pc = "payWallet", !.w = w, !.off = offline[w], !.amount = a]]
    BY <1>3 DEF PayRead
  <2> DEFINE n == [Idle EXCEPT !.pc = "payWallet", !.w = w, !.off = offline[w], !.amount = a]
  <2>2. /\ n.pc = "payWallet" /\ n.w = w /\ n.off = offline[w]
    BY DEF Idle
  <2>3. CurrentBalance(n)
    <3> HIDE DEF n
    <3> QED BY <2>2 DEF CurrentBalance, CurrentWallet, CurrentRedemption
  <2> QED BY BalanceRead, <1>3, <2>1, <2>3 DEF PayRead, balanceVars, walletVars, topupVars, tokenVars
<1>4. CASE CodeRead(r)
  <2>1. PICK w \in Wallets, a \in Amounts :
          sess' = [sess EXCEPT ![r] = [Idle EXCEPT !.pc = "codeWallet", !.w = w, !.off = offline[w], !.amount = a]]
    BY <1>4 DEF CodeRead
  <2> DEFINE n == [Idle EXCEPT !.pc = "codeWallet", !.w = w, !.off = offline[w], !.amount = a]
  <2>2. /\ n.pc = "codeWallet" /\ n.w = w /\ n.off = offline[w] /\ n.amount = a
    BY DEF Idle
  <2>3. a > 0
    BY NumbersAssumption
  <2>4. CurrentBalance(n)
    <3> HIDE DEF n
    <3> QED BY <2>2, <2>3 DEF CurrentBalance, CurrentWallet, CurrentRedemption
  <2> QED BY BalanceRead, <1>4, <2>1, <2>4 DEF CodeRead, balanceVars, walletVars, topupVars, tokenVars
<1> QED BY <1>1, <1>2, <1>3, <1>4

\* Payments and code requests that select tokens, sign, flush and respond.
LEMMA BalancePaymentReads ==
  ASSUME Serial, IInv, BalanceInv, NEW r \in Requests,
         \/ PaySelect(r) \/ CodeSelect(r) \/ PayFlush(r)
         \/ \E k \in Workers : PaySign(r, k)
         \/ \E p \in TxIds : PayRespond(r, p)
  PROVE  BalanceInv'
<1> DEFINE s == sess[r]
<1>0. s \in Session /\ CurrentBalance(s) /\ sess \in [Requests -> Session]
  BY DEF IInv, TInv, TypeOK, BalanceInv
<1>1. CASE PaySelect(r)
  <2>1. PICK S \in Selections(MintedOf(s.w), s.amount) :
          sess' = [sess EXCEPT ![r].pc = "paySelected", ![r].toks = S]
    BY <1>1 DEF PaySelect
  <2> DEFINE n == [s EXCEPT !.pc = "paySelected", !.toks = S]
  <2>2. S \subseteq MintedOf(s.w)
    BY DEF Selections
  <2>3. /\ s.pc = "payWallet" /\ n.pc = "paySelected" /\ n.toks = S /\ n.w = s.w /\ n.off = s.off
    BY <1>0, <1>1 DEF PaySelect, Session
  <2>4. CurrentBalance(n)
    <3> HIDE DEF n, s
    <3> QED BY <1>0, <2>2, <2>3 DEF CurrentBalance, CurrentWallet, CurrentRedemption
  <2>5. sess' = [sess EXCEPT ![r] = n]
    BY <2>1
  <2> QED BY BalanceRead, <1>1, <2>4, <2>5 DEF PaySelect, balanceVars, walletVars, topupVars, tokenVars
<1>2. CASE CodeSelect(r)
  <2>1. PICK S \in LargestFirst(FreeOf(s.w), s.amount) :
          sess' = [sess EXCEPT ![r].pc = "codeTokens", ![r].toks = S]
    BY <1>2 DEF CodeSelect
  <2> DEFINE n == [s EXCEPT !.pc = "codeTokens", !.toks = S]
  <2>2. S \subseteq FreeOf(s.w)
    BY DEF LargestFirst, GreedyPrefixes
  <2>3. /\ s.pc = "codeWallet" /\ n.pc = "codeTokens" /\ n.toks = S /\ n.w = s.w
        /\ n.off = s.off /\ n.amount = s.amount
    BY <1>0, <1>2 DEF CodeSelect, Session
  <2>4. CurrentBalance(n)
    <3> HIDE DEF n, s
    <3> QED BY <1>0, <2>2, <2>3 DEF CurrentBalance, CurrentWallet, CurrentRedemption
  <2>5. sess' = [sess EXCEPT ![r] = n]
    BY <2>1
  <2> QED BY BalanceRead, <1>2, <2>4, <2>5 DEF CodeSelect, balanceVars, walletVars, topupVars, tokenVars
<1>3. CASE PayFlush(r)
  <2> DEFINE n == [s EXCEPT !.pc = "payFlushed"]
  <2>1. /\ s.pc = "paySigned" /\ n.pc = "payFlushed" /\ n.toks = s.toks /\ n.w = s.w
        /\ n.off = s.off
    BY <1>0, <1>3 DEF PayFlush, Session
  <2>2. CurrentBalance(n)
    <3> HIDE DEF n, s
    <3> QED BY <1>0, <2>1 DEF CurrentBalance, CurrentWallet, CurrentRedemption
  <2>3. sess' = [sess EXCEPT ![r] = n]
    BY <1>3 DEF PayFlush
  <2> QED BY BalanceRead, <1>3, <2>2, <2>3 DEF PayFlush, balanceVars, walletVars, topupVars, tokenVars
<1>4. ASSUME NEW k \in Workers, PaySign(r, k) PROVE BalanceInv'
  <2> DEFINE n == [s EXCEPT !.pc = "paySigned", !.worker = k]
  <2>1. /\ s.pc = "paySelected" /\ n.pc = "paySigned" /\ n.toks = s.toks /\ n.w = s.w
        /\ n.off = s.off
    BY <1>0, <1>4 DEF PaySign, Session
  <2>2. CurrentBalance(n)
    <3> HIDE DEF n, s
    <3> QED BY <1>0, <2>1 DEF CurrentBalance, CurrentWallet, CurrentRedemption
  <2>3. sess' = [sess EXCEPT ![r] = n]
    BY <1>4 DEF PaySign
  <2> QED BY BalanceRead, <1>4, <2>2, <2>3 DEF PaySign, balanceVars, walletVars, topupVars, tokenVars
<1>5. ASSUME NEW p \in TxIds, PayRespond(r, p) PROVE BalanceInv'
  <2> DEFINE n == [s EXCEPT !.pc = "payResponded", !.tx = p]
  <2>1. /\ s.pc = "payFlushed" /\ n.pc = "payResponded" /\ n.toks = s.toks /\ n.w = s.w
        /\ n.off = s.off
    BY <1>0, <1>5 DEF PayRespond, Session
  <2>2. CurrentBalance(n)
    <3> HIDE DEF n, s
    <3> QED BY <1>0, <2>1 DEF CurrentBalance, CurrentWallet, CurrentRedemption
  <2>3. sess' = [sess EXCEPT ![r] = n]
    BY <1>5 DEF PayRespond
  <2> QED BY BalanceRead, <1>5, <2>2, <2>3 DEF PayRespond, balanceVars, walletVars, topupVars, tokenVars
<1> QED BY <1>1, <1>2, <1>3, <1>4, <1>5

\* Redemptions of emergency codes.
LEMMA BalanceRedemptionReads ==
  ASSUME Serial, IInv, BalanceInv, NEW r \in Requests,
         \/ \E c \in Codes : EmergencyQuery(r, c)
         \/ EmergencyReadPayer(r) \/ EmergencyFlush(r) \/ EmergencyReadPayee(r)
  PROVE  BalanceInv'
<1> DEFINE s == sess[r]
<1>0. s \in Session /\ CurrentBalance(s) /\ sess \in [Requests -> Session]
  BY DEF IInv, TInv, TypeOK, BalanceInv
<1>1. ASSUME NEW c \in Codes, EmergencyQuery(r, c) PROVE BalanceInv'
  <2> DEFINE found == {t \in Tokens : otp[t] = c /\ tokStatus[t] = "minted"}
  <2>1. PICK a \in Amounts, payee \in Wallets \cup {None} :
          \E use \in SmallestFirst(found, a), first \in found :
            sess' = [sess EXCEPT ![r] =
              [Idle EXCEPT !.pc = IF use = found THEN "emReady" ELSE "emTokens",
                           !.w = owner[first], !.payee = payee, !.amount = a,
                           !.toks = found, !.use = use, !.code = c]]
    BY <1>1 DEF EmergencyQuery
  <2>2. PICK use \in SmallestFirst(found, a), first \in found :
          sess' = [sess EXCEPT ![r] =
            [Idle EXCEPT !.pc = IF use = found THEN "emReady" ELSE "emTokens",
                         !.w = owner[first], !.payee = payee, !.amount = a,
                         !.toks = found, !.use = use, !.code = c]]
    BY <2>1
  <2> DEFINE n == [Idle EXCEPT !.pc = IF use = found THEN "emReady" ELSE "emTokens",
                               !.w = owner[first], !.payee = payee, !.amount = a,
                               !.toks = found, !.use = use, !.code = c]
  <2>3. /\ n.pc = IF use = found THEN "emReady" ELSE "emTokens"
        /\ n.toks = found /\ n.use = use /\ n.code = c /\ n.w = owner[first]
    BY DEF Idle
  <2>4. \A t \in found : otp[t] = c /\ owner[t] = owner[first]
    BY DEF BalanceInv, BalanceTables, CodeInv
  <2>5. owner[first] \in Wallets
    BY DEF IInv, TInv, OwnerInv
  <2>6. CurrentBalance(n)
    <3> HIDE DEF n, found
    <3> QED BY <2>3, <2>4, <2>5 DEF CurrentBalance, CurrentWallet, CurrentRedemption
  <2> QED BY BalanceRead, <1>1, <2>2, <2>6
        DEF EmergencyQuery, balanceVars, walletVars, topupVars, tokenVars
<1>2. CASE EmergencyReadPayer(r)
  <2> DEFINE n == [s EXCEPT !.pc = "emReady", !.on = online[s.w], !.off = offline[s.w]]
  <2>1. /\ s.pc = "emTokens" /\ n.pc = "emReady" /\ n.toks = s.toks /\ n.use = s.use
        /\ n.w = s.w /\ n.code = s.code /\ n.on = online[s.w] /\ n.off = offline[s.w]
    BY <1>0, <1>2 DEF EmergencyReadPayer, Session
  <2>2. CurrentBalance(n)
    <3> HIDE DEF n, s
    <3> QED BY <1>0, <2>1 DEF CurrentBalance, CurrentWallet, CurrentRedemption
  <2>3. sess' = [sess EXCEPT ![r] = n]
    BY <1>2 DEF EmergencyReadPayer
  <2> QED BY BalanceRead, <1>2, <2>2, <2>3
        DEF EmergencyReadPayer, balanceVars, walletVars, topupVars, tokenVars
<1>3. CASE EmergencyFlush(r)
  <2> DEFINE n == [s EXCEPT !.pc = "emFlushed"]
  <2>1. /\ s.pc = "emReady" /\ n.pc = "emFlushed" /\ n.toks = s.toks /\ n.use = s.use
        /\ n.w = s.w /\ n.code = s.code /\ n.on = s.on /\ n.off = s.off
    BY <1>0, <1>3 DEF EmergencyFlush, Session
  <2>2. CurrentBalance(n)
    <3> HIDE DEF n, s
    <3> QED BY <1>0, <2>1 DEF CurrentBalance, CurrentWallet, CurrentRedemption
  <2>3. sess' = [sess EXCEPT ![r] = n]
    BY <1>3 DEF EmergencyFlush
  <2> QED BY BalanceRead, <1>3, <2>2, <2>3
        DEF EmergencyFlush, balanceVars, walletVars, topupVars, tokenVars
<1>4. CASE EmergencyReadPayee(r)
  <2> DEFINE n == [s EXCEPT !.pc = "emPayee",
                            !.on = IF s.payee = s.w /\ s.use # s.toks
                                   THEN @ ELSE online[s.payee]]
  <2>1. /\ s.pc = "emFlushed" /\ n.pc = "emPayee" /\ n.toks = s.toks /\ n.use = s.use
        /\ n.w = s.w /\ n.code = s.code /\ n.payee = s.payee /\ n.off = s.off
        /\ n.on = IF s.payee = s.w /\ s.use # s.toks THEN s.on ELSE online[s.payee]
    BY <1>0, <1>4 DEF EmergencyReadPayee, Session
  <2>2. s.payee \in Wallets
    BY <1>0, <1>4 DEF EmergencyReadPayee, Session
  <2>3. CurrentBalance(n)
    <3> HIDE DEF n, s
    <3> QED BY <1>0, <2>1, <2>2 DEF CurrentBalance, CurrentWallet, CurrentRedemption
  <2>4. sess' = [sess EXCEPT ![r] = n]
    BY <1>4 DEF EmergencyReadPayee
  <2> QED BY BalanceRead, <1>4, <2>3, <2>4
        DEF EmergencyReadPayee, balanceVars, walletVars, topupVars, tokenVars
<1> QED BY <1>1, <1>2, <1>3, <1>4

\* Sync, and the check of a proof, read no balance.
LEMMA BalanceOtherReads ==
  ASSUME Serial, IInv, BalanceInv, NEW r \in Requests,
         \/ \E p \in TxIds : SettleCheck(r, p) \/ SyncLoad(r, p)
         \/ \E w \in Wallets \cup {None} : SyncFetch(r, w)
         \/ SyncItemOk(r) \/ SyncItemFails(r)
  PROVE  BalanceInv'
<1>0. sess[r] \in Session /\ sess \in [Requests -> Session]
  BY DEF IInv, TInv, TypeOK
<1>1. UNCHANGED balanceVars
  BY DEF SettleCheck, SyncLoad, SyncFetch, SyncItemOk, SyncItemFails, balanceVars, walletVars,
     topupVars, tokenVars
<1>2. BalanceTables'
  BY <1>1, TablesUnchanged DEF BalanceInv
<1>3. sess'[r].pc \in {"idle", "settle", "sync", "syncTx"}
  <2>1. ASSUME NEW p \in TxIds, SettleCheck(r, p) PROVE sess'[r].pc = "settle"
    BY <1>0, <2>1 DEF SettleCheck, Idle
  <2>2. ASSUME NEW p \in TxIds, SyncLoad(r, p) PROVE sess'[r].pc \in {"sync", "syncTx"}
    BY <1>0, <2>2 DEF SyncLoad, Session
  <2>3. ASSUME NEW w \in Wallets \cup {None}, SyncFetch(r, w) PROVE sess'[r].pc = "sync"
    BY <1>0, <2>3 DEF SyncFetch, Idle
  <2>4. ASSUME SyncItemOk(r) \/ SyncItemFails(r) PROVE sess'[r].pc = "sync"
    <3>1. PICK T, o : Stage(r, T, o)
      BY <2>4 DEF SyncItemOk, SyncItemFails
    <3> QED BY <1>0, <3>1 DEF Stage, Session
  <2> QED BY <2>1, <2>2, <2>3, <2>4
<1> QED BY <1>2, <1>3, BalanceOther

-----------------------------------------------------------------------------
(* Balances: steps that write *)

\* The tokens of wallet w, and the type of the sets that Solvent values.
Owned(w) == {t \in Tokens : owner[t] = w}

LEMMA SolventTypes ==
  ASSUME IInv, NEW w \in Wallets
  PROVE  /\ FreeOf(w) \in SUBSET Tokens /\ Value(FreeOf(w)) \in Nat
         /\ Owned(w) \in SUBSET Tokens /\ Value(Owned(w)) \in Nat
         /\ offline[w] \in Nat /\ allocated[w] \in Nat
<1>1. FreeOf(w) \in SUBSET Tokens /\ Owned(w) \in SUBSET Tokens
  BY DEF FreeOf, MintedOf, Owned
<1>2. offline[w] \in Nat /\ allocated[w] \in Nat
  BY NumbersAssumption DEF IInv, TInv, TypeOK
<1> QED BY <1>1, <1>2, ValueType

LEMMA SolventAt ==
  ASSUME Solvent, NEW w \in Wallets
  PROVE  offline[w] <= Value(FreeOf(w)) + (allocated[w] - Value(Owned(w)))
  BY DEF Solvent, Owned

\* The tokens T of wallet w leave its free tokens, and their value its balance:
\* a payment spends them, or a code locks them.
LEMMA SolventSpend ==
  ASSUME IInv, Solvent, NEW w \in Wallets, NEW T \in SUBSET Tokens, T \subseteq MintedOf(w),
         offline' = [offline EXCEPT ![w] = offline[w] - Value(T)],
         UNCHANGED <<allocated, owner>>, \A v \in Wallets : FreeOf(v)' = FreeOf(v) \ T
  PROVE  Solvent'
<1> SUFFICES ASSUME NEW v \in Wallets
             PROVE  offline'[v] <= Value(FreeOf(v) \ T) + (allocated[v] - Value(Owned(v)))
  BY DEF Solvent, Owned
<1>1. offline[v] <= Value(FreeOf(v)) + (allocated[v] - Value(Owned(v)))
  BY SolventAt
<1>2. CASE v = w
  <2>1. offline'[v] = offline[v] - Value(T)
    BY <1>2 DEF IInv, TInv, TypeOK
  <2>2. Value(FreeOf(v)) <= Value(FreeOf(v) \ T) + Value(T)
    BY SolventTypes, ValueWithout
  <2>3. Value(T) \in Nat /\ Value(FreeOf(v) \ T) \in Nat
    BY SolventTypes, ValueType
  <2> QED BY <1>1, <2>1, <2>2, <2>3, SolventTypes
<1>3. CASE v # w
  <2>1. offline'[v] = offline[v]
    BY <1>3 DEF IInv, TInv, TypeOK
  <2>2. FreeOf(v) \ T = FreeOf(v)
    BY <1>3 DEF FreeOf, MintedOf
  <2> QED BY <1>1, <2>1, <2>2
<1> QED BY <1>2, <1>3

\* A top-up adds what it allocates to the balance, and the tokens it mints to
\* the free ones and to those of the wallet: TopUpCommit.
LEMMA BalanceTopUp ==
  ASSUME Serial, IInv, BalanceInv, NEW r \in Requests, TopUpCommit(r)
  PROVE  BalanceInv'
<1> DEFINE s == sess[r]
           w == s.w
<1>0. /\ w \in Wallets /\ s.off = offline[w] /\ s.alloc \in Nat
  BY DEF TopUpCommit, BalanceInv, CurrentBalance, CurrentWallet, IInv, TInv, TypeOK, Session
<1>1. PICK S \in MintSets(s.alloc) :
        /\ tokStatus' = [t \in Tokens |-> IF t \in S THEN "minted" ELSE tokStatus[t]]
        /\ owner' = [t \in Tokens |-> IF t \in S THEN w ELSE owner[t]]
  BY DEF TopUpCommit
<1>2. /\ offline' = [offline EXCEPT ![w] = IF s.alloc > 0 THEN s.off + s.alloc ELSE @]
      /\ allocated' = [allocated EXCEPT ![w] = @ + s.alloc]
      /\ UNCHANGED <<otp, codeAmt>> /\ End(r)
  BY DEF TopUpCommit
<1>3. S \in SUBSET Tokens /\ \A t \in S : tokStatus[t] = "none" /\ owner[t] = None /\ otp[t] = None
  BY DEF MintSets, BalanceInv, BalanceTables, CodeInv
<1>4. CodeInv'
  <2>1. \A t \in Tokens : otp[t] \in Codes => t \notin S
    BY <1>3, SetsAssumption
  <2> QED BY <1>1, <1>2, <2>1 DEF BalanceInv, BalanceTables, CodeInv
<1>5. Solvent'
  <2> SUFFICES ASSUME NEW v \in Wallets
               PROVE  offline'[v] <= Value(FreeOf(v)') + (allocated'[v] - Value(Owned(v)'))
    BY DEF Solvent, Owned
  <2>1. offline[v] <= Value(FreeOf(v)) + (allocated[v] - Value(Owned(v)))
    BY SolventAt DEF BalanceInv, BalanceTables
  <2>2. CASE v = w
    <3>1. offline'[v] = offline[v] + s.alloc /\ allocated'[v] = allocated[v] + s.alloc
      BY <1>0, <1>2, <2>2, SolventTypes DEF IInv, TInv, TypeOK
    <3>2. FreeOf(v)' = FreeOf(v) \cup S /\ Owned(v)' = Owned(v) \cup S
      BY <1>1, <1>2, <1>3, <2>2 DEF FreeOf, MintedOf, Owned
    <3>3. FreeOf(v) \cap S = {} /\ Owned(v) \cap S = {}
      BY <1>3, SetsAssumption DEF FreeOf, MintedOf, Owned
    <3>4. Value(FreeOf(v)') = Value(FreeOf(v)) + Value(S) /\ Value(Owned(v)') = Value(Owned(v)) + Value(S)
      BY <1>3, <3>2, <3>3, SolventTypes, ValueUnion
    <3>5. Value(S) \in Nat
      BY <1>3, ValueType
    <3> HIDE DEF s
    <3> QED BY <1>0, <2>1, <3>1, <3>4, <3>5, SolventTypes
  <2>3. CASE v # w
    <3>1. offline'[v] = offline[v] /\ allocated'[v] = allocated[v]
      BY <1>2, <2>3 DEF IInv, TInv, TypeOK
    <3>2. FreeOf(v)' = FreeOf(v) /\ Owned(v)' = Owned(v)
      BY <1>1, <1>2, <1>3, <2>3, SetsAssumption DEF FreeOf, MintedOf, Owned
    <3> QED BY <2>1, <3>1, <3>2
  <2> QED BY <2>2, <2>3
<1> QED BY <1>2, <1>4, <1>5, BalanceEnd DEF BalanceTables

\* Offline payments and code requests.
LEMMA BalanceSpends ==
  ASSUME Serial, IInv, BalanceInv, NEW r \in Requests,
         \/ \E p \in TxIds : sess[r].pc \in {"payFlushed", "payResponded"} /\ PayWrites(r, p)
         \/ \E c \in Codes : CodeCommit(r, c)
  PROVE  BalanceInv'
<1> DEFINE s == sess[r]
<1>0. s.toks \in SUBSET Tokens /\ CurrentWallet(s)
  BY DEF IInv, TInv, TypeOK, Session, BalanceInv, CurrentBalance
<1>1. ASSUME NEW p \in TxIds, s.pc \in {"payFlushed", "payResponded"}, PayWrites(r, p)
      PROVE  BalanceInv'
  <2>1. s.w \in Wallets /\ s.off = offline[s.w] /\ s.toks \subseteq MintedOf(s.w)
    BY <1>0, <1>1 DEF CurrentWallet
  <2>2. /\ offline' = [offline EXCEPT ![s.w] = offline[s.w] - Value(s.toks)]
        /\ tokStatus' = [t \in Tokens |-> IF t \in s.toks THEN "spent" ELSE tokStatus[t]]
        /\ UNCHANGED <<allocated, owner, otp, codeAmt>> /\ End(r)
    BY <1>1, <2>1 DEF PayWrites, topupVars
  <2> HIDE DEF s
  <2>3. \A v \in Wallets : FreeOf(v)' = FreeOf(v) \ s.toks
    BY <1>0, <2>2 DEF FreeOf, MintedOf
  <2>4. Solvent'
    BY <1>0, <2>1, <2>2, <2>3, SolventSpend DEF BalanceInv, BalanceTables
  <2>5. CodeInv'
    BY <2>2 DEF BalanceInv, BalanceTables, CodeInv
  <2> QED BY <2>2, <2>4, <2>5, BalanceEnd DEF BalanceTables
<1>2. ASSUME NEW c \in Codes, CodeCommit(r, c) PROVE BalanceInv'
  <2>1. /\ s.w \in Wallets /\ s.off = offline[s.w] /\ s.toks \subseteq FreeOf(s.w)
        /\ s.amount > 0 /\ codeAmt[c] = 0
    BY <1>0, <1>2 DEF CodeCommit, CurrentWallet
  <2>2. /\ offline' = [offline EXCEPT ![s.w] = offline[s.w] - Value(s.toks)]
        /\ otp' = [t \in Tokens |-> IF t \in s.toks THEN c ELSE otp[t]]
        /\ codeAmt' = [codeAmt EXCEPT ![c] = s.amount]
        /\ UNCHANGED <<allocated, owner, tokStatus>> /\ End(r)
    BY <1>2, <2>1 DEF CodeCommit, topupVars
  <2> HIDE DEF s
  <2>3. \A v \in Wallets : FreeOf(v)' = FreeOf(v) \ s.toks
    BY <1>0, <2>2, SetsAssumption DEF FreeOf, MintedOf
  <2>4. s.toks \subseteq MintedOf(s.w)
    BY <2>1 DEF FreeOf
  <2>5. Solvent'
    BY <1>0, <2>1, <2>2, <2>3, <2>4, SolventSpend DEF BalanceInv, BalanceTables
  <2>6. \A t \in Tokens : otp[t] # c
    BY <2>1 DEF BalanceInv, BalanceTables, CodeInv
  <2>7. \A t \in s.toks : tokStatus[t] = "minted" /\ owner[t] = s.w
    BY <2>4 DEF MintedOf
  <2>8. codeAmt'[c] > 0 /\ \A d \in Codes \ {c} : codeAmt'[d] = codeAmt[d]
    BY <2>1, <2>2 DEF IInv, TInv, TypeOK
  <2>9. CodeInv'
    BY <2>2, <2>6, <2>7, <2>8 DEF BalanceInv, BalanceTables, CodeInv
  <2> QED BY <2>2, <2>5, <2>9, BalanceEnd DEF BalanceTables
<1> QED BY <1>1, <1>2

\* A redemption gives the tokens it does not consume back: they were locked,
\* and their value returns to the balance.
LEMMA BalanceRedeem ==
  ASSUME Serial, IInv, SerialInv, BalanceInv, NEW r \in Requests, NEW p \in TxIds,
         EmergencyCommit(r, p)
  PROVE  BalanceInv'
<1> DEFINE s == sess[r]
           w == s.w
           back == s.toks \ s.use
<1>0. /\ s.toks \in SUBSET Tokens /\ s.use \subseteq s.toks
      /\ s.pc \in {"emFlushed", "emPayee"}
  BY DEF EmergencyCommit, IInv, TInv, TypeOK, Session, SessionInv, SessInv, EmergencyInv
<1>1. /\ w \in Wallets /\ s.code \in Codes /\ \A t \in s.toks : otp[t] = s.code /\ owner[t] = w
      /\ s.use # s.toks => s.off = offline[w]
  BY <1>0 DEF BalanceInv, CurrentBalance, CurrentRedemption
<1>2. \A t \in s.toks : tokStatus[t] = "minted"
  BY <1>0 DEF SerialInv, Current, CurrentTokens
<1>3. /\ tokStatus' = [t \in Tokens |-> IF t \in s.use THEN "settled" ELSE tokStatus[t]]
      /\ otp' = [t \in Tokens |-> IF t \in s.use THEN "spent"
                                  ELSE IF t \in s.toks THEN None ELSE otp[t]]
      /\ offline' = [offline EXCEPT ![w] = IF s.use # s.toks THEN s.off + Value(back) ELSE @]
      /\ UNCHANGED <<allocated, owner, codeAmt>> /\ End(r)
  BY DEF EmergencyCommit, Refund, topupVars
<1> HIDE DEF s
<1>4. CodeInv'
  BY <1>0, <1>2, <1>3, SetsAssumption DEF BalanceInv, BalanceTables, CodeInv
<1>5. ASSUME NEW v \in Wallets
      PROVE  FreeOf(v)' = IF v = w THEN FreeOf(v) \cup back ELSE FreeOf(v)
  BY <1>0, <1>1, <1>2, <1>3, SetsAssumption DEF FreeOf, MintedOf
<1>6. Solvent'
  <2> SUFFICES ASSUME NEW v \in Wallets
               PROVE  offline'[v] <= Value(FreeOf(v)') + (allocated[v] - Value(Owned(v)))
    BY <1>3 DEF Solvent, Owned
  <2>1. offline[v] <= Value(FreeOf(v)) + (allocated[v] - Value(Owned(v)))
    BY SolventAt DEF BalanceInv, BalanceTables
  <2>2. CASE v = w /\ s.use # s.toks
    <3>1. offline'[v] = offline[v] + Value(back)
      BY <1>1, <1>3, <2>2 DEF IInv, TInv, TypeOK
    <3>2. FreeOf(v) \cap back = {} /\ back \in SUBSET Tokens
      BY <1>0, <1>1, SetsAssumption DEF FreeOf
    <3>3. Value(FreeOf(v)') = Value(FreeOf(v)) + Value(back) /\ Value(back) \in Nat
      BY <1>5, <2>2, <3>2, SolventTypes, ValueUnion, ValueType
    <3> HIDE DEF back
    <3> QED BY <2>1, <3>1, <3>3, SolventTypes
  <2>3. CASE v # w \/ s.use = s.toks
    <3>1. offline'[v] = offline[v]
      BY <1>3, <2>3 DEF IInv, TInv, TypeOK
    <3>2. FreeOf(v)' = FreeOf(v)
      BY <1>0, <1>5, <2>3
    <3> QED BY <2>1, <3>1, <3>2
  <2> QED BY <2>2, <2>3
<1> QED BY <1>3, <1>4, <1>6, BalanceEnd DEF BalanceTables

\* Online payments, settlements and syncs leave the free tokens and the offline
\* balances alone: what a settlement marks was spent before.
LEMMA BalanceSettles ==
  ASSUME Serial, IInv, SerialInv, BalanceInv, NEW r \in Requests,
         \/ SettleCommit(r) \/ SyncCommit(r)
         \/ \E p \in TxIds : OnlineCommit(r, p)
  PROVE  BalanceInv'
<1>1. UNCHANGED <<offline, allocated, owner, otp, codeAmt>> /\ End(r)
  BY DEF SettleCommit, SyncCommit, OnlineCommit, walletVars, topupVars, tokenVars
<1>2. \A t \in Tokens : \/ tokStatus'[t] = tokStatus[t]
                        \/ tokStatus[t] \in Spent /\ tokStatus'[t] = "settled"
  <2>1. CASE SettleCommit(r)
    <3>1. /\ sess[r].tx \in TxIds /\ sess[r].toks = pay[sess[r].tx].toks
          /\ txStatus[sess[r].tx] # "none"
      BY <2>1 DEF SettleCommit, HasTransaction, IInv, SessionInv, SessInv, SettleInv
    <3>2. \A t \in sess[r].toks : tokStatus[t] \in Spent
      BY <3>1 DEF SerialInv, TokenInv, CommittedSpent
    <3>3. tokStatus' = [t \in Tokens |-> IF t \in sess[r].toks THEN "settled" ELSE tokStatus[t]]
      BY <2>1 DEF SettleCommit
    <3> QED BY <3>2, <3>3
  <2> QED BY <2>1 DEF SyncCommit, OnlineCommit, tokenVars
<1>3. \A w \in Wallets : FreeOf(w)' = FreeOf(w)
  BY <1>1, <1>2 DEF FreeOf, MintedOf, Spent
<1>4. Solvent'
  BY <1>1, <1>3 DEF BalanceInv, BalanceTables, Solvent
<1>5. CodeInv'
  BY <1>1, <1>2 DEF BalanceInv, BalanceTables, CodeInv, Spent
<1> QED BY <1>1, <1>4, <1>5, BalanceEnd DEF BalanceTables

\* Failed signatures, rollbacks, restarts and proofs that expire.
LEMMA BalanceEnds ==
  ASSUME Serial, IInv, BalanceInv,
         \/ \E r \in Requests : Rollback(r) \/ \E k \in Workers : PaySignFails(r, k)
         \/ \E p \in TxIds : ProofExpires(p)
         \/ \E k \in Workers : Restart(k)
         \/ UNCHANGED vars
  PROVE  BalanceInv'
<1>1. UNCHANGED balanceVars
  BY DEF Rollback, PaySignFails, ProofExpires, Restart, vars, balanceVars, walletVars, topupVars,
     tokenVars
<1>2. \A q \in Requests : sess'[q] \in {sess[q], Idle}
  BY DEF Rollback, PaySignFails, ProofExpires, Restart, vars, End, IInv, TInv, TypeOK
<1>3. BalanceTables'
  BY <1>1, TablesUnchanged DEF BalanceInv
<1>4. PICK m : m = sess'
  OBVIOUS
<1>5. CurrentBalance(Idle)
  BY DEF CurrentBalance, CurrentWallet, CurrentRedemption, Idle
<1>6. \A q \in Requests : CurrentBalance(m[q])
  BY <1>2, <1>4, <1>5 DEF BalanceInv
<1>7. (\A q \in Requests : CurrentBalance(sess[q]))'
  BY <1>1, <1>4, <1>6 DEF CurrentBalance, CurrentWallet, CurrentRedemption, FreeOf, MintedOf,
     balanceVars
<1> QED BY <1>3, <1>7 DEF BalanceInv

\* The invariant holds initially and is preserved by every step.
LEMMA BalanceInit == Init => BalanceInv
<1> SUFFICES ASSUME Init PROVE BalanceInv
  OBVIOUS
<1>1. CodeInv
  BY SetsAssumption DEF Init, CodeInv
<1>2. Solvent
  <2> SUFFICES ASSUME NEW w \in Wallets
               PROVE  offline[w] <= Value(FreeOf(w)) + (allocated[w] - Value(Owned(w)))
    BY DEF Solvent, Owned
  <2>1. FreeOf(w) = {} /\ Owned(w) = {}
    BY SetsAssumption DEF Init, FreeOf, MintedOf, Owned
  <2>2. Value({}) = 0
    BY SumEmpty DEF Value
  <2>3. offline[w] = 0 /\ allocated[w] = 0
    BY DEF Init
  <2> QED BY <2>1, <2>2, <2>3
<1>3. \A r \in Requests : CurrentBalance(sess[r])
  BY DEF Init, CurrentBalance, CurrentWallet, CurrentRedemption, Idle
<1> QED BY <1>1, <1>2, <1>3 DEF BalanceInv, BalanceTables

LEMMA BalanceNext ==
  ASSUME Serial
  PROVE  IInv /\ SerialInv /\ BalanceInv /\ [Next]_vars => BalanceInv'
<1> SUFFICES ASSUME IInv, SerialInv, BalanceInv, [Next]_vars PROVE BalanceInv'
  OBVIOUS
<1>1. ASSUME NEW r \in Requests, TopUpStep(r) PROVE BalanceInv'
  BY <1>1, BalanceFirstReads, BalanceTopUp DEF TopUpStep
<1>2. ASSUME NEW r \in Requests, PaymentStep(r) PROVE BalanceInv'
  <2>1. ASSUME NEW p \in TxIds, PayCommit(r, p) PROVE BalanceInv'
    BY <2>1, BalanceSpends DEF PayCommit
  <2>2. ASSUME PayCommitAfterResponse(r) PROVE BalanceInv'
    <3>1. sess[r].tx \in TxIds /\ sess[r].pc = "payResponded" /\ PayWrites(r, sess[r].tx)
      BY <2>2 DEF PayCommitAfterResponse, IInv, SessionInv, SessInv, PayInv
    <3> QED BY <3>1, BalanceSpends
  <2> QED BY <1>2, <2>1, <2>2, BalanceFirstReads, BalancePaymentReads, BalanceSpends,
          BalanceSettles, BalanceEnds DEF PaymentStep
<1>3. ASSUME NEW r \in Requests, SettlementStep(r) PROVE BalanceInv'
  BY <1>3, BalanceRedemptionReads, BalanceOtherReads, BalanceSettles, BalanceRedeem
     DEF SettlementStep
<1>4. ASSUME NEW r \in Requests, SyncStep(r) PROVE BalanceInv'
  BY <1>4, BalanceOtherReads, BalanceSettles DEF SyncStep
<1> QED BY <1>1, <1>2, <1>3, <1>4, BalanceEnds DEF Next

LEMMA BalanceInvariant ==
  ASSUME Serial
  PROVE  Spec => []BalanceInv
<1>1. IInv /\ SerialInv /\ BalanceInv /\ [Next]_vars => BalanceInv'
  BY BalanceNext
<1> QED BY <1>1, BalanceInit, SerialInvariant, Invariant, PTL DEF Spec

\* Served one at a time, create_topup, _create_offline_payment,
\* generate_emergency_code and settle_emergency_code keep the offline balance
\* covered by tokens the wallet can pay with.
THEOREM SolventHolds ==
  ASSUME Serial
  PROVE  Spec => []Solvent
<1>1. BalanceInv => Solvent
  BY DEF BalanceInv, BalanceTables
<1> QED BY <1>1, BalanceInvariant, PTL

-----------------------------------------------------------------------------
(* Money *)

\* The parts of NoMoneyCreated: tokens not yet cashed in, payments merchants were
\* paid for, and their amounts.
Live == {t \in Tokens : tokStatus[t] # "none" /\ gs[t] = None}
Paid == {p \in TxIds : pay[p].mode \in {"online", "offline"} /\ txStatus[p] = "succeeded"}
AmountOf == [p \in TxIds |-> pay[p].amount]

LEMMA MoneyDef ==
  NoMoneyCreated <=> SumOver(online, Wallets) + Value(Live) + SumOver(AmountOf, Paid)
                       <= SumOver(funded, Wallets)
  BY DEF NoMoneyCreated, Live, Paid, AmountOf

LEMMA MoneyTypes ==
  ASSUME IInv
  PROVE  /\ online \in [Wallets -> Nat] /\ funded \in [Wallets -> Nat]
         /\ SumOver(online, Wallets) \in Nat /\ SumOver(funded, Wallets) \in Nat
         /\ Live \in SUBSET Tokens /\ Value(Live) \in Nat
         /\ AmountOf \in [TxIds -> Nat] /\ Paid \in SUBSET TxIds /\ IsFiniteSet(Paid)
         /\ SumOver(AmountOf, Paid) \in Nat
<1>1. online \in [Wallets -> Nat] /\ funded \in [Wallets -> Nat]
  BY DEF IInv, TInv, TypeOK
<1>2. Live \in SUBSET Tokens /\ Paid \in SUBSET TxIds
  BY DEF Live, Paid
<1>3. AmountOf \in [TxIds -> Nat]
  BY DEF AmountOf, IInv, TInv, TypeOK, Payment
<1>4. IsFiniteSet(Paid)
  BY <1>2, FiniteAssumption, FS_Subset
<1>5. SumOver(online, Wallets) \in Nat /\ SumOver(funded, Wallets) \in Nat
  BY <1>1, FiniteAssumption, SumType
<1>6. Value(Live) \in Nat
  BY <1>2, ValueType
<1>7. SumOver(AmountOf, Paid) \in Nat
  BY <1>2, <1>3, <1>4, SumType
<1> QED BY <1>1, <1>2, <1>3, <1>4, <1>5, <1>6, <1>7

\* The same for the state after a step.
LEMMA MoneyDefNext ==
  NoMoneyCreated' <=> SumOver(online', Wallets) + Value(Live') + SumOver(AmountOf', Paid')
                        <= SumOver(funded', Wallets)
  BY DEF NoMoneyCreated, Live, Paid, AmountOf

LEMMA MoneyTypesNext ==
  ASSUME IInv'
  PROVE  /\ online' \in [Wallets -> Nat] /\ funded' \in [Wallets -> Nat]
         /\ SumOver(online', Wallets) \in Nat /\ SumOver(funded', Wallets) \in Nat
         /\ Live' \in SUBSET Tokens /\ Value(Live') \in Nat
         /\ AmountOf' \in [TxIds -> Nat] /\ Paid' \in SUBSET TxIds /\ IsFiniteSet(Paid')
         /\ SumOver(AmountOf', Paid') \in Nat
<1>1. online' \in [Wallets -> Nat] /\ funded' \in [Wallets -> Nat]
  BY DEF IInv, TInv, TypeOK
<1>2. Live' \in SUBSET Tokens /\ Paid' \in SUBSET TxIds
  BY DEF Live, Paid
<1>3. AmountOf' \in [TxIds -> Nat]
  BY DEF AmountOf, IInv, TInv, TypeOK, Payment
<1>4. IsFiniteSet(Paid')
  BY <1>2, FiniteAssumption, FS_Subset
<1>5. SumOver(online', Wallets) \in Nat /\ SumOver(funded', Wallets) \in Nat
  BY <1>1, FiniteAssumption, SumType
<1>6. Value(Live') \in Nat
  BY <1>2, ValueType
<1>7. SumOver(AmountOf', Paid') \in Nat
  BY <1>2, <1>3, <1>4, SumType
<1> QED BY <1>1, <1>2, <1>3, <1>4, <1>5, <1>6, <1>7

\* Payments that were paid keep their amounts, so paying the new ones in N adds
\* theirs.
LEMMA PaidGrows ==
  ASSUME IInv, IInv', NEW N \in SUBSET TxIds, Paid' = Paid \cup N, Paid \cap N = {},
         \A p \in Paid : pay'[p].amount = pay[p].amount
  PROVE  SumOver(AmountOf', Paid') = SumOver(AmountOf, Paid) + SumOver(AmountOf', N)
<1>1. IsFiniteSet(N)
  BY FiniteAssumption, FS_Subset
<1>2. SumOver(AmountOf', Paid \cup N) = SumOver(AmountOf', Paid) + SumOver(AmountOf', N)
  BY <1>1, MoneyTypes, MoneyTypesNext, SumUnion
<1>3. \A p \in Paid : AmountOf[p] = AmountOf'[p]
  BY DEF AmountOf, Paid
<1>4. SumOver(AmountOf, Paid) = SumOver(AmountOf', Paid)
  BY <1>3, MoneyTypes, MoneyTypesNext, SumAgree
<1> QED BY <1>2, <1>4

\* Steps that move no money.
LEMMA MoneySame ==
  ASSUME IInv, IInv', NoMoneyCreated, UNCHANGED <<online, funded>>, Live' = Live, Paid' = Paid,
         \A p \in Paid : pay'[p].amount = pay[p].amount
  PROVE  NoMoneyCreated'
<1>1. SumOver(AmountOf', {}) = 0 /\ Paid' = Paid \cup {} /\ Paid \cap {} = {} /\ {} \in SUBSET TxIds
  BY SumEmpty
<1>2. SumOver(AmountOf', Paid') = SumOver(AmountOf, Paid) + SumOver(AmountOf', {})
  BY <1>1, PaidGrows
<1>3. SumOver(AmountOf', Paid') = SumOver(AmountOf, Paid)
  BY <1>1, <1>2, MoneyTypes
<1> QED BY <1>3, MoneyDef, MoneyDefNext

\* What is not written by a request that only reads, fails or expires.
LEMMA MoneyReads ==
  ASSUME IInv, IInv', NoMoneyCreated, UNCHANGED <<online, funded, tokStatus, gs, txStatus>>,
         \A p \in TxIds : txStatus[p] # "none" => pay'[p] = pay[p]
  PROVE  NoMoneyCreated'
<1>1. Live' = Live
  BY DEF Live
<1>2. Paid' = Paid
  BY DEF Paid
<1>3. \A p \in Paid : pay'[p].amount = pay[p].amount
  BY DEF Paid
<1> QED BY <1>1, <1>2, <1>3, MoneySame

\* Offline payments: the merchant is paid later.
LEMMA MoneyPayment ==
  ASSUME IInv, IInv', SerialInv, NoMoneyCreated, NEW r \in Requests, NEW p \in TxIds,
         PayWrites(r, p), txStatus[p] = "none", sess[r].pc \in {"payFlushed", "payResponded"},
         \A q \in TxIds \ {p} : pay'[q] = pay[q]
  PROVE  NoMoneyCreated'
<1> DEFINE T == sess[r].toks
<1>1. \A t \in T : tokStatus[t] = "minted"
  BY DEF SerialInv, Current, CurrentTokens
<1>2. /\ tokStatus' = [t \in Tokens |-> IF t \in T THEN "spent" ELSE tokStatus[t]]
      /\ txStatus' = [txStatus EXCEPT ![p] = "pending"]
      /\ UNCHANGED <<online, funded, gs>>
  BY DEF PayWrites, topupVars
<1> HIDE DEF T
<1>3. Live' = Live
  BY <1>1, <1>2 DEF Live
<1>4. txStatus'[p] = "pending" /\ \A q \in TxIds \ {p} : txStatus'[q] = txStatus[q]
  BY <1>2 DEF IInv, TInv, TypeOK
<1>5. Paid' = Paid
  BY <1>4 DEF Paid
<1>6. \A q \in Paid : pay'[q].amount = pay[q].amount
  BY DEF Paid
<1> QED BY <1>2, <1>3, <1>5, <1>6, MoneySame

\* A top-up mints no more than it takes out of the amount.
LEMMA MoneyTopUp ==
  ASSUME IInv, IInv', BalanceInv, NoMoneyCreated, NEW r \in Requests, TopUpCommit(r)
  PROVE  NoMoneyCreated'
<1> DEFINE s == sess[r]
           w == s.w
<1>0. /\ w \in Wallets /\ s.on = online[w] /\ s.alloc \in Nat /\ s.amount \in Nat
      /\ s.alloc <= s.amount
  BY DEF TopUpCommit, BalanceInv, CurrentBalance, CurrentWallet, IInv, TInv, TypeOK, Session
<1>1. PICK S \in MintSets(s.alloc) :
        tokStatus' = [t \in Tokens |-> IF t \in S THEN "minted" ELSE tokStatus[t]]
  BY DEF TopUpCommit
<1>2. /\ online' = [online EXCEPT ![w] = IF s.amount > s.alloc THEN s.on + (s.amount - s.alloc) ELSE @]
      /\ funded' = [funded EXCEPT ![w] = @ + s.amount]
      /\ UNCHANGED <<gs, pay, txStatus>>
  BY DEF TopUpCommit, txVars
<1>3. S \in SUBSET Tokens /\ \A t \in S : tokStatus[t] = "none" /\ gs[t] = None
  BY DEF MintSets, IInv, RowInv, RegisteredNotSpendable
<1>4. Live' = Live \cup S /\ Live \cap S = {}
  BY <1>1, <1>2, <1>3 DEF Live
<1>5. Value(Live') = Value(Live) + Value(S) /\ Value(S) \in Nat /\ Value(S) <= s.alloc
  BY <1>0, <1>3, <1>4, MoneyTypes, ValueUnion, ValueType, MintValue
<1> HIDE DEF s
<1>6. online'[w] = online[w] + (s.amount - s.alloc) /\ funded'[w] = funded[w] + s.amount
  BY <1>0, <1>2, MoneyTypes
<1>7. \A v \in Wallets \ {w} : online[v] = online'[v] /\ funded[v] = funded'[v]
  BY <1>2, MoneyTypes
<1>8. /\ SumOver(online', Wallets) + online[w] = SumOver(online, Wallets) + online'[w]
      /\ SumOver(funded', Wallets) + funded[w] = SumOver(funded, Wallets) + funded'[w]
  BY <1>0, <1>7, MoneyTypes, MoneyTypesNext, FiniteAssumption, SumChange
<1>9. Paid' = Paid /\ AmountOf' = AmountOf
  BY <1>2 DEF Paid, AmountOf
<1>10. online[w] \in Nat /\ funded[w] \in Nat
  BY <1>0, MoneyTypes
<1>11. SumOver(AmountOf', Paid') = SumOver(AmountOf, Paid)
  BY <1>9
<1> QED BY <1>0, <1>5, <1>6, <1>8, <1>10, <1>11, MoneyDef, MoneyDefNext, MoneyTypes, MoneyTypesNext

\* An online payment: what leaves the balance, the merchant gets.
LEMMA MoneyOnline ==
  ASSUME IInv, IInv', BalanceInv, NoMoneyCreated, NEW r \in Requests, NEW p \in TxIds,
         OnlineCommit(r, p)
  PROVE  NoMoneyCreated'
<1> DEFINE s == sess[r]
           w == s.w
<1>0. /\ w \in Wallets /\ s.on = online[w] /\ s.amount \in Nat
  BY DEF OnlineCommit, BalanceInv, CurrentBalance, CurrentWallet, IInv, TInv, TypeOK, Session
<1>1. /\ online' = [online EXCEPT ![w] = s.on - s.amount]
      /\ pay' = [pay EXCEPT ![p] = [mode |-> "online", wallet |-> w, amount |-> s.amount, toks |-> {}]]
      /\ txStatus' = [txStatus EXCEPT ![p] = "succeeded"]
      /\ UNCHANGED <<funded, tokStatus, gs>> /\ Fresh(p)
  BY DEF OnlineCommit, topupVars, tokenVars
<1>2. txStatus[p] = "none"
  BY <1>1, FreshRows
<1> HIDE DEF s
<1>3. /\ pay'[p].mode = "online" /\ pay'[p].amount = s.amount /\ txStatus'[p] = "succeeded"
      /\ \A q \in TxIds \ {p} : pay'[q] = pay[q] /\ txStatus'[q] = txStatus[q]
  BY <1>1 DEF IInv, TInv, TypeOK
<1>4. Paid' = Paid \cup {p} /\ Paid \cap {p} = {}
  BY <1>2, <1>3 DEF Paid
<1>5. \A q \in Paid : pay'[q].amount = pay[q].amount
  BY <1>2, <1>3 DEF Paid
<1>6. SumOver(AmountOf', Paid') = SumOver(AmountOf, Paid) + SumOver(AmountOf', {p})
  BY <1>4, <1>5, PaidGrows
<1>7. SumOver(AmountOf', {p}) = s.amount
  <2>1. SumOver(AmountOf', {p}) = AmountOf'[p]
    BY MoneyTypesNext, SumSingle
  <2> QED BY <1>3, <2>1 DEF AmountOf
<1>8. online'[w] = online[w] - s.amount /\ \A v \in Wallets \ {w} : online[v] = online'[v]
  BY <1>0, <1>1, MoneyTypes
<1>9. SumOver(online', Wallets) + online[w] = SumOver(online, Wallets) + online'[w]
  BY <1>0, <1>8, MoneyTypes, MoneyTypesNext, FiniteAssumption, SumChange
<1>10. Live' = Live /\ online[w] \in Nat
  BY <1>0, <1>1, MoneyTypes DEF Live
<1>11. Value(Live') = Value(Live) /\ SumOver(funded', Wallets) = SumOver(funded, Wallets)
  BY <1>1, <1>10
<1> QED BY <1>0, <1>6, <1>7, <1>8, <1>9, <1>10, <1>11, MoneyDef, MoneyDefNext, MoneyTypes,
        MoneyTypesNext

\* A settlement pays the merchant no more than the tokens it cashes in.
LEMMA MoneySettle ==
  ASSUME IInv, IInv', SerialInv, NoMoneyCreated, NEW r \in Requests, SettleCommit(r)
  PROVE  NoMoneyCreated'
<1> DEFINE s == sess[r]
           p == s.tx
           T == pay[p].toks
<1>0. /\ p \in TxIds /\ s.toks = T /\ pay[p].mode = "offline" /\ txStatus[p] # "none"
      /\ T \in SUBSET Tokens /\ NotSpent(T)
  BY DEF SettleCommit, HasTransaction, IInv, SessionInv, SessInv, SettleInv, TInv, TypeOK, Payment
<1>1. s.seen
  BY <1>0 DEF SettleCommit, SerialInv, Current, CurrentTokens
<1>2. /\ gs' = [t \in Tokens |-> IF t \in T THEN p ELSE gs[t]]
      /\ tokStatus' = [t \in Tokens |-> IF t \in T THEN "settled" ELSE tokStatus[t]]
      /\ txStatus' = [txStatus EXCEPT ![p] = "succeeded"]
      /\ UNCHANGED <<online, funded, pay>>
  BY <1>0, <1>1 DEF SettleCommit, walletVars, topupVars
<1>3. T # {} /\ Value(T) >= pay[p].amount /\ \A t \in T : tokStatus[t] \in Spent
  BY <1>0 DEF IInv, RowInv, PaymentRows, SerialInv, TokenInv, CommittedSpent
<1>4. txStatus[p] # "succeeded"
  BY <1>0, <1>3, SetsAssumption DEF IInv, RowInv, GuaranteeBacked, NotSpent
<1> HIDE DEF T, p, s
<1>5. txStatus'[p] = "succeeded" /\ \A q \in TxIds \ {p} : txStatus'[q] = txStatus[q]
  BY <1>0, <1>2 DEF IInv, TInv, TypeOK
<1>6. Paid' = Paid \cup {p} /\ Paid \cap {p} = {}
  BY <1>0, <1>2, <1>4, <1>5 DEF Paid
<1>7. SumOver(AmountOf', Paid') = SumOver(AmountOf, Paid) + SumOver(AmountOf', {p})
  BY <1>0, <1>2, <1>6, PaidGrows
<1>8. SumOver(AmountOf', {p}) = pay[p].amount /\ pay[p].amount \in Nat
  <2>1. SumOver(AmountOf', {p}) = AmountOf'[p]
    BY <1>0, MoneyTypesNext, SumSingle
  <2> QED BY <1>0, <1>2, <2>1 DEF AmountOf, IInv, TInv, TypeOK, Payment
<1>9. T \subseteq Live
  BY <1>0, <1>3 DEF Live, NotSpent, Spent
<1>10. Live' = Live \ T
  BY <1>0, <1>2, SetsAssumption DEF Live
<1>11. Value(Live) = Value(T) + Value(Live')
  BY <1>9, <1>10, MoneyTypes, ValueSubset
<1>12. Value(T) \in Nat
  BY <1>0, ValueType
<1>13. /\ SumOver(online', Wallets) = SumOver(online, Wallets)
       /\ SumOver(funded', Wallets) = SumOver(funded, Wallets)
  BY <1>2
<1> QED BY <1>3, <1>7, <1>8, <1>11, <1>12, <1>13, MoneyDef, MoneyDefNext, MoneyTypes,
        MoneyTypesNext

\* A sync registers all tokens of the payments it completes, and no others.
LEMMA MoneySync ==
  ASSUME IInv, IInv', SerialInv, NoMoneyCreated, NEW r \in Requests, SyncCommit(r)
  PROVE  NoMoneyCreated'
<1> DEFINE s == sess[r]
           N == {p \in TxIds : s.staged[p] = "ok"}
           added == {t \in Tokens : s.gsNew[t] # None}
           toks == [p \in TxIds |-> pay[p].toks]
<1>0. /\ SyncInv(s) /\ CurrentSync(s) /\ s.gsNew \in [Tokens -> TxIds \cup {None}]
  BY DEF IInv, TInv, TypeOK, Session, SessionInv, SessInv, SerialInv, Current
<1>1. /\ gs' = [t \in Tokens |-> IF t \in added THEN s.gsNew[t] ELSE gs[t]]
      /\ txStatus' = [p \in TxIds |->
           CASE s.staged[p] = "ok" -> "succeeded"
             [] s.staged[p] = "failed" -> "failed"
             [] OTHER -> txStatus[p]]
      /\ NotSpent(added) /\ UNCHANGED <<online, funded, pay, tokStatus>>
  BY DEF SyncCommit, walletVars, topupVars, tokenVars
<1> HIDE DEF s
<1>2. ASSUME NEW p \in N
      PROVE  /\ p \in TxIds /\ pay[p].mode = "offline" /\ txStatus[p] # "none"
             /\ pay[p].toks # {} /\ Value(pay[p].toks) >= pay[p].amount
             /\ pay[p].toks \in SUBSET Tokens
             /\ \A t \in pay[p].toks : s.gsNew[t] = p /\ t \in added /\ tokStatus[t] \in Spent
  <2>1. p \in TxIds /\ queue[p] # "none" /\ \A t \in pay[p].toks : s.gsNew[t] = p
    BY <1>0 DEF SyncInv
  <2>2. pay[p].mode = "offline" /\ txStatus[p] # "none" /\ pay[p].toks \in SUBSET Tokens
    BY <2>1 DEF IInv, RowInv, PaymentRows, TInv, TypeOK, Payment
  <2>3. /\ pay[p].toks # {} /\ Value(pay[p].toks) >= pay[p].amount
        /\ \A t \in pay[p].toks : tokStatus[t] \in Spent
    BY <2>1, <2>2 DEF IInv, RowInv, PaymentRows
  <2>4. \A t \in pay[p].toks : t \in added
    BY <2>1, <2>2, SetsAssumption
  <2> QED BY <2>1, <2>2, <2>3, <2>4
<1>3. Paid \cap N = {}
  <2> SUFFICES ASSUME NEW p \in Paid, p \in N PROVE FALSE
    OBVIOUS
  <2>1. \A t \in pay[p].toks : gs[t] = p
    BY <1>2 DEF Paid, IInv, RowInv, GuaranteeBacked
  <2>2. \A t \in pay[p].toks : gs[t] = None
    BY <1>1, <1>2 DEF NotSpent
  <2>3. pay[p].toks # {} /\ p # None
    BY <1>2, SetsAssumption
  <2> QED BY <2>1, <2>2, <2>3
<1>4. \A p \in TxIds : txStatus'[p] = IF p \in N THEN "succeeded" ELSE txStatus[p]
  BY <1>0, <1>1 DEF CurrentSync
<1>5. Paid' = Paid \cup N
  BY <1>1, <1>2, <1>4 DEF Paid
<1>6. N \in SUBSET TxIds /\ IsFiniteSet(N)
  BY FiniteAssumption, FS_Subset
<1>7. added = UNION {toks[p] : p \in N}
  <2>1. ASSUME NEW t \in added PROVE \E p \in N : t \in toks[p]
    <3>1. s.gsNew[t] \in TxIds /\ t \in pay[s.gsNew[t]].toks /\ s.staged[s.gsNew[t]] = "ok"
      BY <1>0 DEF SyncInv, CurrentSync
    <3> QED BY <3>1
  <2>2. ASSUME NEW p \in N PROVE toks[p] \subseteq added
    BY <1>2
  <2> HIDE DEF N, added
  <2> QED BY <2>1, <2>2
<1>8. \A p \in N : Value(toks[p]) >= AmountOf'[p]
  BY <1>1, <1>2 DEF AmountOf
<1>9. \A p, q \in N : p # q => toks[p] \cap toks[q] = {}
  BY <1>2
<1>10. toks \in [TxIds -> SUBSET Tokens]
  BY DEF IInv, TInv, TypeOK, Payment
<1>11. added \in SUBSET Tokens /\ added \subseteq Live
  <2>1. added \in SUBSET Tokens
    OBVIOUS
  <2>2. ASSUME NEW t \in added PROVE tokStatus[t] \in Spent /\ gs[t] = None
    <3>1. PICK p \in N : t \in pay[p].toks
      BY <1>7, <1>2
    <3> QED BY <1>1, <1>2, <3>1 DEF NotSpent
  <2> HIDE DEF added
  <2> QED BY <2>1, <2>2 DEF Live, Spent
<1>12. Live' = Live \ added
  BY <1>0, <1>1 DEF Live
<1> HIDE DEF N, added, toks
<1>13. SumOver(AmountOf', N) <= Value(added)
  BY <1>6, <1>7, <1>8, <1>9, <1>10, MoneyTypesNext, ValueCovers
<1>14. SumOver(AmountOf', Paid') = SumOver(AmountOf, Paid) + SumOver(AmountOf', N)
  BY <1>1, <1>3, <1>5, <1>6, PaidGrows
<1>15. Value(Live) = Value(added) + Value(Live') /\ Value(added) \in Nat
  BY <1>11, <1>12, MoneyTypes, ValueSubset, ValueType
<1>16. SumOver(AmountOf', N) \in Nat
  BY <1>6, MoneyTypesNext, SumType
<1>17. /\ SumOver(online', Wallets) = SumOver(online, Wallets)
       /\ SumOver(funded', Wallets) = SumOver(funded, Wallets)
  BY <1>1
<1> QED BY <1>13, <1>14, <1>15, <1>16, <1>17, MoneyDef, MoneyDefNext, MoneyTypes, MoneyTypesNext

\* A redemption credits the payee with no more than the tokens it consumes.
LEMMA MoneyRedeem ==
  ASSUME IInv, IInv', SerialInv, BalanceInv, NoMoneyCreated, NEW r \in Requests,
         NEW p \in TxIds, EmergencyCommit(r, p)
  PROVE  NoMoneyCreated'
<1> DEFINE s == sess[r]
<1>0. /\ s.pc \in {"emFlushed", "emPayee"} /\ s.use \subseteq s.toks /\ s.use \in SUBSET Tokens
      /\ Value(s.use) >= s.amount /\ NotSpent(s.use) /\ s.amount \in Nat
      /\ s.payee \in Wallets \cup {None}
  BY DEF EmergencyCommit, IInv, SessionInv, SessInv, EmergencyInv, TInv, TypeOK, Session
<1>1. \A t \in s.use : tokStatus[t] = "minted"
  BY <1>0 DEF SerialInv, Current, CurrentTokens
<1>2. /\ gs' = [t \in Tokens |-> IF t \in s.use THEN p ELSE gs[t]]
      /\ tokStatus' = [t \in Tokens |-> IF t \in s.use THEN "settled" ELSE tokStatus[t]]
      /\ online' = [w \in Wallets |-> IF w = s.payee THEN s.on + Net(s.amount) ELSE online[w]]
      /\ pay' = [pay EXCEPT ![p] = EmergencyPayment(s)]
      /\ txStatus' = [txStatus EXCEPT ![p] = "succeeded"]
      /\ UNCHANGED funded /\ Fresh(p)
  BY DEF EmergencyCommit, topupVars
<1>3. s.payee \in Wallets => s.on = online[s.payee]
  BY SetsAssumption DEF EmergencyCommit, BalanceInv, CurrentBalance, CurrentRedemption
<1>4. txStatus[p] = "none"
  BY <1>2, FreshRows
<1>5. /\ pay'[p].mode = "emergency"
      /\ \A q \in TxIds \ {p} : pay'[q] = pay[q] /\ txStatus'[q] = txStatus[q]
  BY <1>2 DEF IInv, TInv, TypeOK, EmergencyPayment
<1> HIDE DEF s
<1>6. Paid' = Paid /\ \A q \in Paid : pay'[q].amount = pay[q].amount
  BY <1>4, <1>5 DEF Paid
<1>7. SumOver(AmountOf', Paid') = SumOver(AmountOf, Paid)
  <2>1. SumOver(AmountOf', {}) = 0 /\ Paid' = Paid \cup {} /\ Paid \cap {} = {}
        /\ {} \in SUBSET TxIds
    BY <1>6, SumEmpty
  <2>2. SumOver(AmountOf', Paid') = SumOver(AmountOf, Paid) + SumOver(AmountOf', {})
    BY <1>6, <2>1, PaidGrows
  <2> QED BY <2>1, <2>2, MoneyTypes
<1>8. s.use \subseteq Live /\ Live' = Live \ s.use
  BY <1>0, <1>1, <1>2, SetsAssumption DEF Live, NotSpent
<1>9. Value(Live) = Value(s.use) + Value(Live') /\ Value(s.use) \in Nat
  BY <1>0, <1>8, MoneyTypes, ValueSubset, ValueType
<1>10. Net(s.amount) \in Nat /\ Net(s.amount) <= s.amount
  BY <1>0, NetType DEF Net, Fee
<1>11. SumOver(online', Wallets) <= SumOver(online, Wallets) + Net(s.amount)
  <2>1. CASE s.payee \in Wallets
    <3>1. /\ online'[s.payee] = online[s.payee] + Net(s.amount)
          /\ \A v \in Wallets \ {s.payee} : online[v] = online'[v]
      BY <1>2, <1>3, <2>1
    <3>2. SumOver(online', Wallets) + online[s.payee] = SumOver(online, Wallets) + online'[s.payee]
      BY <2>1, <3>1, MoneyTypes, MoneyTypesNext, FiniteAssumption, SumChange
    <3>3. online[s.payee] \in Nat
      BY <2>1, MoneyTypes
    <3> QED BY <1>10, <3>1, <3>2, <3>3, MoneyTypes, MoneyTypesNext
  <2>2. CASE s.payee \notin Wallets
    <3>1. online' = online
      BY <1>2, <2>2, MoneyTypes
    <3> QED BY <1>10, <3>1, MoneyTypes
  <2> QED BY <2>1, <2>2
<1>12. SumOver(funded', Wallets) = SumOver(funded, Wallets)
  BY <1>2
<1> QED BY <1>0, <1>7, <1>9, <1>10, <1>11, <1>12, MoneyDef, MoneyDefNext, MoneyTypes,
        MoneyTypesNext

\* It holds initially and is preserved by every step.
LEMMA MoneyInit == Init => NoMoneyCreated
<1> SUFFICES ASSUME Init PROVE NoMoneyCreated
  OBVIOUS
<1>1. Live = {} /\ Paid = {} /\ online = funded
  BY DEF Init, Live, Paid
<1>2. Value(Live) = 0 /\ SumOver(AmountOf, Paid) = 0
  BY <1>1, SumEmpty DEF Value
<1>3. SumOver(online, Wallets) = SumOver(funded, Wallets) /\ SumOver(funded, Wallets) \in Nat
  BY <1>1, InitInv, MoneyTypes
<1> QED BY <1>2, <1>3, MoneyDef

LEMMA MoneyNext ==
  ASSUME IInv, IInv', SerialInv, BalanceInv, NoMoneyCreated, [Next]_vars
  PROVE  NoMoneyCreated'
<1> USE DEF walletVars, topupVars, tokenVars, txVars
<1>1. ASSUME NEW r \in Requests, TopUpStep(r) PROVE NoMoneyCreated'
  BY <1>1, MoneyReads, MoneyTopUp DEF TopUpStep, TopUpRead
<1>2. ASSUME NEW r \in Requests, PaymentStep(r) PROVE NoMoneyCreated'
  <2>1. CASE \/ OnlineRead(r) \/ PayRead(r) \/ PaySelect(r) \/ PayFlush(r)
             \/ CodeRead(r) \/ CodeSelect(r)
             \/ \E k \in Workers : PaySign(r, k) \/ PaySignFails(r, k)
             \/ \E c \in Codes : CodeCommit(r, c)
    <3>1. UNCHANGED <<online, funded, tokStatus, gs, txStatus, pay>>
      BY <2>1 DEF OnlineRead, PayRead, PaySelect, PayFlush, CodeRead, CodeSelect, PaySign,
         PaySignFails, CodeCommit
    <3> QED BY <3>1, MoneyReads
  <2>2. ASSUME NEW p \in TxIds, PayRespond(r, p) PROVE NoMoneyCreated'
    <3>1. UNCHANGED <<online, funded, tokStatus, gs, txStatus>>
      BY <2>2 DEF PayRespond
    <3>2. Fresh(p) /\ \A q \in TxIds \ {p} : pay'[q] = pay[q]
      BY <2>2 DEF PayRespond, IInv, TInv, TypeOK
    <3>3. txStatus[p] = "none"
      BY <3>2, FreshRows
    <3> QED BY <3>1, <3>2, <3>3, MoneyReads
  <2>3. ASSUME NEW p \in TxIds, PayCommit(r, p) PROVE NoMoneyCreated'
    <3>1. /\ PayWrites(r, p) /\ Fresh(p) /\ sess[r].pc = "payFlushed"
          /\ \A q \in TxIds \ {p} : pay'[q] = pay[q]
      BY <2>3 DEF PayCommit, IInv, TInv, TypeOK
    <3>2. txStatus[p] = "none"
      BY <3>1, FreshRows
    <3> QED BY <3>1, <3>2, MoneyPayment
  <2>4. ASSUME PayCommitAfterResponse(r) PROVE NoMoneyCreated'
    <3>1. /\ sess[r].tx \in TxIds /\ sess[r].pc = "payResponded" /\ PayWrites(r, sess[r].tx)
          /\ UNCHANGED pay
      BY <2>4 DEF PayCommitAfterResponse, IInv, SessionInv, SessInv, PayInv
    <3>2. txStatus[sess[r].tx] = "none"
      BY <3>1 DEF SerialInv, Current, CurrentTokens
    <3> QED BY <3>1, <3>2, MoneyPayment
  <2> QED BY <1>2, <2>1, <2>2, <2>3, <2>4, MoneyOnline DEF PaymentStep
<1>3. ASSUME NEW r \in Requests, SettlementStep(r) PROVE NoMoneyCreated'
  <2>1. CASE \/ EmergencyReadPayer(r) \/ EmergencyFlush(r) \/ EmergencyReadPayee(r)
             \/ \E p \in TxIds : SettleCheck(r, p)
             \/ \E c \in Codes : EmergencyQuery(r, c)
    <3>1. UNCHANGED <<online, funded, tokStatus, gs, txStatus, pay>>
      BY <2>1 DEF EmergencyReadPayer, EmergencyFlush, EmergencyReadPayee, SettleCheck,
         EmergencyQuery
    <3> QED BY <3>1, MoneyReads
  <2> QED BY <1>3, <2>1, MoneySettle, MoneyRedeem DEF SettlementStep
<1>4. ASSUME NEW r \in Requests, SyncStep(r) PROVE NoMoneyCreated'
  <2>1. CASE \/ \E w \in Wallets \cup {None} : SyncFetch(r, w)
             \/ SyncItemOk(r) \/ SyncItemFails(r)
             \/ \E p \in TxIds : SyncLoad(r, p)
    <3>1. UNCHANGED <<online, funded, tokStatus, gs, txStatus, pay>>
      BY <2>1 DEF SyncFetch, SyncItemOk, SyncItemFails, SyncLoad
    <3> QED BY <3>1, MoneyReads
  <2> QED BY <1>4, <2>1, MoneySync DEF SyncStep
<1>5. CASE \/ \E r \in Requests : Rollback(r)
           \/ \E p \in TxIds : ProofExpires(p)
           \/ \E k \in Workers : Restart(k)
           \/ UNCHANGED vars
  <2>1. UNCHANGED <<online, funded, tokStatus, gs, txStatus, pay>>
    BY <1>5 DEF Rollback, ProofExpires, Restart, vars
  <2> QED BY <2>1, MoneyReads
<1> QED BY <1>1, <1>2, <1>3, <1>4, <1>5 DEF Next

\* Served one at a time, no handler of the API creates money: balances, tokens
\* not yet cashed in and what merchants were paid are covered by the top-ups.
THEOREM NoMoneyCreatedHolds ==
  ASSUME Serial
  PROVE  Spec => []NoMoneyCreated
<1>1. IInv /\ IInv' /\ SerialInv /\ BalanceInv /\ NoMoneyCreated /\ [Next]_vars => NoMoneyCreated'
  BY MoneyNext
<1>2. Spec => []IInv /\ []SerialInv /\ []BalanceInv
  BY Invariant, SerialInvariant, BalanceInvariant, PTL
<1> QED BY <1>1, <1>2, MoneyInit, PTL DEF Spec
=============================================================================
