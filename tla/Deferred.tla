------------------------------ MODULE Deferred ------------------------------
(***************************************************************************)
(* The Deferred API: all services over the shared database, served by      *)
(* several worker processes, and the properties of the whole.              *)
(***************************************************************************)
EXTENDS TopUps, Payments, Settlements, Sync

TopUpStep(r) == TopUpRead(r) \/ TopUpCommit(r)

PaymentStep(r) ==
    \/ OnlineRead(r) \/ PayRead(r) \/ PaySelect(r) \/ PayFlush(r)
    \/ PayCommitAfterResponse(r)
    \/ CodeRead(r) \/ CodeSelect(r)
    \/ \E k \in Workers : PaySign(r, k) \/ PaySignFails(r, k)
    \/ \E p \in TxIds : OnlineCommit(r, p) \/ PayCommit(r, p) \/ PayRespond(r, p)
    \/ \E c \in Codes : CodeCommit(r, c)

SettlementStep(r) ==
    \/ SettleCommit(r)
    \/ EmergencyReadPayer(r) \/ EmergencyFlush(r) \/ EmergencyReadPayee(r)
    \/ \E p \in TxIds : SettleCheck(r, p) \/ EmergencyCommit(r, p)
    \/ \E c \in Codes : EmergencyQuery(r, c)

SyncStep(r) ==
    \/ \E w \in Wallets \cup {None} : SyncFetch(r, w)
    \/ SyncItemOk(r) \/ SyncItemFails(r) \/ SyncCommit(r)
    \/ \E p \in TxIds : SyncLoad(r, p)

Next ==
    \/ \E r \in Requests :
        TopUpStep(r) \/ PaymentStep(r) \/ SettlementStep(r) \/ SyncStep(r) \/ Rollback(r)
    \/ \E p \in TxIds : ProofExpires(p)
    \/ \E k \in Workers : Restart(k)

Spec == Init /\ [][Next]_vars

-----------------------------------------------------------------------------
(* Properties that hold whatever the number of concurrent requests, worker  *)
(* processes and restarts, for genuine proofs: settle_payment verifies no   *)
(* signature, and settles any payload that names free tokens.  The model    *)
(* presents only payloads that _create_offline_payment issued.              *)

\* For genuine proofs: settle_payment, settle_emergency_code and trigger_sync race
\* for the same tokens, and still no payment is settled twice, and no two settled
\* payments were paid with the same token.
NoDoubleSettlement ==
    \A p, q \in TxIds :
        /\ settlements[p] <= 1
        /\ p # q /\ settlements[p] > 0 /\ settlements[q] > 0
             => pay[p].toks \cap pay[q].toks = {}

\* For genuine proofs: a payment with a settlement, or marked succeeded by
\* settlement or sync, owns all its tokens in global_spends, and their value covers
\* what the merchant is guaranteed.  That amount is taken from the payload
\* (settlement_service.py, 97 and 157); only in a genuine one is it the amount the
\* tokens were selected for.
GuaranteeBacked ==
    \A p \in TxIds :
        /\ pay[p].mode \in {"offline", "emergency"}
        /\ settlements[p] > 0 \/ txStatus[p] = "succeeded"
        => /\ \A t \in pay[p].toks : gs[t] = p
           /\ Value(pay[p].toks) >= pay[p].amount

\* For genuine proofs: a token in global_spends is registered to a committed payment
\* that used it, and _create_offline_payment and generate_emergency_code can never select it
\* again: its row is not in status MINTED.
RegisteredNotSpendable ==
    \A t \in Tokens :
        gs[t] # None => /\ t \in pay[gs[t]].toks
                        /\ txStatus[gs[t]] # "none"
                        /\ tokStatus[t] \in {"spent", "settled"}

\* For genuine proofs: the registry keeps its promise (SpendRegistry) under every
\* interleaving of settle_payment, settle_emergency_code, trigger_sync, rollbacks and
\* restarts.
Registry == INSTANCE SpendRegistry WITH
    Payments <- TxIds, spentIn <- gs,
    guaranteed <- {p \in TxIds : settlements[p] > 0}
ImplementsRegistry == Registry!Spec

-----------------------------------------------------------------------------
(* What the secure elements of the workers add up to. *)

\* However payments race, fail half-way or are rolled back after their response
\* was sent, a token signs at most once in each start of each worker: the proofs
\* that left the API with it are no more than the workers that have destroyed its
\* key and the restarts that forgot they had.
SignedPerStart ==
    \A t \in Tokens :
        Cardinality({p \in TxIds : proofs[p] # "none" /\ t \in pay[p].toks})
          <= Cardinality({k \in Workers : t \in destroyed[k]}) + restarts

-----------------------------------------------------------------------------
(* Requests served one at a time. *)

\* The offline balance never promises more than the wallet can pay offline:
\* it is covered by tokens that are minted and not locked to a code, up to the
\* part of the allocations mint_tokens could not express in denominations.
Solvent ==
    \A w \in Wallets :
        offline[w] <= Value(FreeOf(w))
                      + (allocated[w] - Value({t \in Tokens : owner[t] = w}))

\* Everything the API owes - online balances, tokens not yet cashed in, and
\* what merchants were paid - is covered by what wallets were funded with.
NoMoneyCreated ==
    LET paid == {p \in TxIds : /\ pay[p].mode \in {"online", "offline"}
                               /\ txStatus[p] = "succeeded"}
        live == {t \in Tokens : tokStatus[t] # "none" /\ gs[t] = None}
    IN  SumOver(online, Wallets) + Value(live)
          + SumOver([p \in TxIds |-> pay[p].amount], paid)
        <= SumOver(funded, Wallets)

\* Two committed payments never use the same token: a token spent by an
\* offline payment or an emergency redemption is not selected again.
PaymentsDisjoint ==
    \A p, q \in TxIds :
        p # q /\ txStatus[p] # "none" /\ txStatus[q] # "none"
          => pay[p].toks \cap pay[q].toks = {}

\* trigger_sync never accuses an honest payer of a double spend.
NoFalseDoubleSpend == \A p \in TxIds : txStatus[p] # "failed"

-----------------------------------------------------------------------------
(* Progress of the sync queue *)

\* A sync request that commits, or that must roll back because another request
\* registered one of its tokens first.
SyncEnds(r) ==
    \/ SyncCommit(r)
    \/ ~NotSpent({t \in Tokens : sess[r].gsNew[t] # None})

\* Every request ends (no handler loops, every await on PostgreSQL returns or
\* raises); somebody keeps asking for a sync of all wallets; and from some
\* point on the database no longer fails under sync requests.
SyncFairness ==
    /\ SF_vars(\E r \in Requests : SyncFetch(r, None))
    /\ \A r \in Requests :
        /\ WF_vars(Rollback(r))
        /\ WF_vars(\/ \E p \in TxIds : SyncLoad(r, p)
                   \/ SyncItemOk(r) \/ SyncItemFails(r) \/ SyncCommit(r))
    /\ <>[][\A r \in Requests :
              sess[r].pc \in {"sync", "syncTx"} /\ sess'[r].pc = "idle" => SyncEnds(r)]_vars
FairSpec == Spec /\ SyncFairness

\* Every offline payment that was queued is eventually completed or failed.
QueueDrains ==
    \A p \in TxIds : queue[p] = "pending" ~> queue[p] \in {"completed", "failed"}

-----------------------------------------------------------------------------
(* What comments and documents of the repository say, and the code does not *)
(* do.                                                                      *)

\* payment_service.py calls the debit of an online payment atomic: the balance
\* falls by the amount of the payment.
OnlineDebitAtomic ==
    [][\A p \in TxIds :
         pay[p].mode = "unused" /\ pay'[p].mode = "online"
           => online'[pay'[p].wallet] = online[pay'[p].wallet] - pay'[p].amount]_vars

\* docs/adr/001: a token can only ever sign one transaction.
SignOnce ==
    \A p, q \in TxIds :
        p # q /\ proofs[p] # "none" /\ proofs[q] # "none"
          => pay[p].toks \cap pay[q].toks = {}

\* sync_service.py handles double-spend races: a payment the merchant holds a
\* settlement for is not failed as a double spend.
GuaranteedNotFailed ==
    \A p \in TxIds : settlements[p] > 0 => txStatus[p] # "failed"
=============================================================================
