# Deferred API: a verification project

Deferred is a payment API (FastAPI, PostgreSQL, Redis). A wallet is topped up;
part of the money becomes *tokens* of fixed denominations. While offline, the
wallet pays with tokens: a secure element signs with the key of each token and
destroys it. The merchant later turns the resulting *proof* into a guaranteed
*settlement*; a *sync* request clears the queue of offline payments. A table
`global_spends` with the token as primary key is what stands between the system
and a double spend.

The modules here model that core, at the level at which it can go wrong:
handlers of several worker processes that read, await, and write absolute
values, at READ COMMITTED isolation.

## 1. Inventory

| Part | State | Operations | Hard because |
|---|---|---|---|
| Database (`models.py`, `db.py`) | wallets, offline_tokens, global_spends, transactions, settlements, topups, sync_queue; one session per request | read, flush, commit, rollback | reads are stale when written back; only constraints serialize requests |
| Top-ups (`routers/topups.py`, `crypto/tokens.py`) | balances, topups, tokens | check allowance, credit, mint | allocation is not always a sum of denominations |
| Coin selection (`crypto/tokens.py`) | search state | `select_tokens`, `_try_exact_match` | pruning and ties |
| Payments (`payment_service.py`) | balances, tokens, transactions, queue | online, offline, emergency code | two workers, key destruction is not transactional, response may precede commit |
| Secure element (`secure_element.py`, `TokenManager`) | key pairs, destruction proofs, in memory of one worker | generate, sign, destroy, in a loop over the tokens of a payment | lost on restart, not shared between workers, not undone by a rollback; tokens are minted in another element than the one that signs |
| Settlements (`settlement_service.py`) | registry, tokens, transactions, settlements, balances | settle a proof, redeem a code | races with sync and with itself; refund and credit write balances |
| Sync (`sync_service.py`) | queue, registry, transactions | fetch a batch, check and register each item | partial failure inside a batch, stale reads, failed items are fetched again |
| Idempotency (`middleware.py`, `main.py`) | Redis entry per key; a Redis client per worker, or none | look up, replay, process, store; connect at start-up | nothing is reserved between look-up and store; Redis may fail or forget; a worker that started without Redis never asks |
| Wallet creation (`wallet_service.py`) | wallets of a customer | count, derive keys, insert | count is stale at the insert |
| Seed backup (`shamir.py`) | shares held by users | split, reconstruct, verify | arithmetic in GF(256) by tables; damaged or too few shares |
| Key derivation (`keys.py`), authentication, event bus, observability, other middleware | none the core reads | | |

The services share nothing but the database and, inside one worker process, the
secure element. They do not call each other; a merchant carries the proof from a
payment to a settlement, and a client carries the emergency code.

What makes them correct: no token is cashed in twice; every guarantee is backed
by tokens that are registered for it; a spent token cannot be selected again;
balances stay within their limits and are covered by tokens; money is not
created; a queued payment is eventually decided; a payment or top-up that is retried
is made, and made once; a token signs once; the coin selection is optimal; any k shares
give the seed back, and k - 1 are as likely for one seed as for another.

## 2. Modules

```
Coins ── Database ──┬─ TopUps ──────┐
   │                ├─ Payments ────┤
   │                ├─ Settlements ─┼─ Deferred ─┬─ MCDeferred
   │                └─ Sync ────────┘     │      └─ DeferredRegistry (proofs) ─────────┐
   │                                 SpendRegistry (abstract)                           │
   ├─ CoinsProofs ─────────────────────────────────────────────────── DeferredSerial ──┘
   │       └──────────────┐
   ├─ CoinSelection ─┬─ CoinSelectionProofs (proofs)
   │                 └─ MCCoinSelection
   └─ SecureElement ─┬─ MCSecureElement
          │          └─ SecureElementProofs (proofs)
        Signer (abstract: PaySign and PaySignFails of Payments)
Idempotency ─┬─ MCIdempotency            Shamir ─┬─ MCShamir
             └─ IdempotencyProofs                └─ ShamirProofs (proofs)
```

| Module | Models | State and actions |
|---|---|---|
| `Coins` | denominations, sums and choices of tokens | `SumOver` adds up a column, `Value` denominations; `Selections` is what `select_tokens` may return; `LargestFirst`, `SmallestFirst` are the greedy loops of emergency codes; `PrefixesBefore` what a loop has done when it stops at a bad token |
| `Database` | tables, constraints, sessions | one variable per column that matters, `sess[r]` for what request `r` has read or staged; `Rollback` |
| `TopUps` | `POST /topups` | `TopUpRead`, `TopUpCommit` |
| `Payments` | `POST /payments`, `POST /payments/emergency`, secure element | `OnlineRead`/`Commit`; `PayRead`, `PaySelect`, `PaySign` or `PaySignFails`, `PayFlush`, then `PayCommit`, or `PayRespond` and `PayCommitAfterResponse`; `CodeRead`, `CodeSelect`, `CodeCommit`; `ProofExpires`, `Restart` |
| `Settlements` | `POST /settlements`, `POST /settlements/emergency` | `SettleCheck`, `SettleCommit`; `EmergencyQuery`, `EmergencyReadPayer`, `EmergencyFlush`, `EmergencyReadPayee`, `EmergencyCommit` |
| `Sync` | `POST /sync` | `SyncFetch`, `SyncLoad`, `SyncItemOk` or `SyncItemFails`, `SyncCommit` |
| `Deferred` | the whole API | composition of the above, properties |
| `SpendRegistry` | what the registry promises, without requests | `Spend`, `Guarantee` |
| `CoinSelection` | `select_tokens` | the search tree walked node by node |
| `SecureElement` | `SoftwareSecureElement`, `TokenManager`, the signing loop | `keys`, `publicKeys`, `proofOf` are the three dictionaries; `MintElsewhere`, `MintHere`; `Start`, then per token `EnsureKey`, `Spend` or `KeyDestroyed`; `Finish`, `Restart` |
| `Signer` | what `Payments` assumes of it | `SignAll`, `SignSome`, `Finish`, `Restart` |
| `Idempotency` | `IdempotencyMiddleware`, the Redis part of `lifespan` | an *intent* is a key and the table the handler writes it to; `cache` is by key, `effects`, `runs`, `lost` by intent; `commitFirst` is whether the commit comes before the response; `client[w]` is whether worker `w` has a client; `Arrive`, `Replay`, `Miss`, `Handle` or `HandleFails`, `LateCommit`, `LateRollback`, `Store` or `StoreFails`; `Restart`, `Expire`, `RedisToggles` |
| `Shamir` | `shamir.py` | the tables (`Powers` of the generator, `ExpTable`, `LogTable`) and `GfMul`, `GfDiv`, `GfInv`; `EvalAt` and `LagrangeInterpolate` by the loops `Sum` and `Product`; `SplitShares`, `Reconstruct`, `VerifyShares`; `Split`, `Damage`, `Recover`, `Verify` |

`Mut_X` next to a definition `X` is X with a plausible bug; it is used by no
specification, and shows for a property which mistake it would catch.

### How a request is modelled

`get_db` opens one transaction per request and commits it when the handler
returned. At READ COMMITTED a read sees what is committed at that moment; the
ORM keeps the object and writes the new absolute value of the columns that
changed. So each handler is cut where it awaits the database and another request
can commit in between: after each read whose result is used later, and between
flush and commit where the handler awaits again or answers in between. Where
nothing happens between the flush and the commit, they are one step: a constraint
fails the same way at either point.

An UPDATE or INSERT that was flushed locks its row until the commit. `RowsFree`
says no other request holds such a lock; a request that must wait is one whose
step is not enabled yet.

A handler that rejects the request (unknown wallet, insufficient funds, double
spend, expired proof) has written nothing, so a rejection at the first read is a
guard that is false, and a later one is `Rollback`. `Rollback` also stands for
constraint violations, deadlock victims, lost connections and cancelled clients;
it may happen at every step of every request. Keys destroyed before a rollback
stay destroyed.

The repository requires FastAPI >= 0.109. Up to 0.117 the dependency commits
before the response is sent, from 0.118 on after it. Both orders are modelled
(`PayCommit`; `PayRespond`, `PayCommitAfterResponse`; `commitFirst` in
`Idempotency`, which never changes: one version is installed).

### What is abstracted

* Amounts are integers of cents. `int(a * 0.03)` is `3a div 100`; the two were
  compared for every amount below three million cents.
* Ids are drawn from finite sets and never collide (`Fresh`, an unused code). A
  payment id stands for its row and for the payload signed for it.
* Statuses the code never writes (REVOKED, HYBRID, PROCESSING) are left out;
  `none` stands for a row that does not exist. `mode` "emergency" tells the
  offline transactions made by a redemption from the others.
* The loops that check one token after the other against `global_spends` are one
  step in `SettleCheck` and `SyncItemOk`: what another request registers during
  the loop is caught by the primary key when the rows are flushed, with the same
  outcome as a registration just after the loop.
* Autoflush inside `trigger_sync` and `settle_payment` sends registry rows to the
  database earlier than the model does; a conflict then raises at that point
  instead of at the commit, and both roll back.
* The order of queue items: all have priority 5 and `created_at` comes from the
  clocks of the workers, so `Batches` takes any items up to the batch size.
* The `SyncError` branch needs a queue row without its transactions row, which
  the foreign key excludes. `attempts` and `next_retry_at` are otherwise unused.
* The merchant lock rejects a proof of another merchant before anything is read;
  merchants are therefore not told apart.
* `settle_payment` verifies no signature and takes tokens and amount from the payload
  as it is. The model presents only genuine payloads, those that
  `_create_offline_payment` issued; every property of the registry is about these.
* `topups` rows are represented by their sums per wallet (`funded`, `allocated`).
* Idempotency keys are left out of `Deferred` and have a module of their own.
  There a handler run is a number; a run succeeds or fails as a whole. Requests
  differ in the key and in the table behind the handler (a payment and a top-up may
  use the same key); the cache key leaves out customer and body as well, and so does
  the model: two payments with one key are one intent.
* A key pair in `SecureElement` is a number, and a signature verifies under the
  public key with the same number. The thread lock of the element is uncontended:
  its methods never await and run on one event loop. Payloads are left out; each
  loop signs one.
* In `Deferred` the whole signing loop is one step. `ImplementsSigner` is the
  justification: `SignAll` is `PaySign`, `SignSome` is `PaySignFails`.
* In `Shamir` the bytes are real bytes and the field is GF(256); in the run, seeds
  are one or two bytes long instead of 32. A wrong byte is always the first one, which
  is as good as any, because each byte is split and reconstructed by itself.

## 3. Runs

All runs of `Deferred` set `CHECK_DEADLOCK FALSE`: tokens, payment ids and codes
are finite pools, so a bounded instance comes to an end where the program would
draw program would
draw another id. `CoinSelection` and `Shamir` end by design. `Idempotency` and `SecureElement` never stop, and deadlock is checked.

| Run | Instance | Shows |
|---|---|---|
| `concurrent` | 2 requests, 2 workers, tokens 500 and 1000, 2 payments, 1 code | `TypeOK`, `NoDoubleSettlement`, `GuaranteeBacked`, `RegisteredNotSpendable`, `SignedPerStart`, and that the API implements `SpendRegistry`, under every interleaving of two requests |
| `serial` | 1 request, 2 wallets, 3 tokens, 1 restart, allocation 1700 (200 not mintable) | `Solvent`, `NoMoneyCreated`, `PaymentsDisjoint`, `NoFalseDoubleSpend`, `SignedPerStart` for requests that do not overlap |
| `liveness` | 2 requests, 2 workers, 1 token, 2 payments | `QueueDrains` |
| `coin_selection` | every subset of {5, 10, 20, 20, 20, 50} dollars, 13 amounts at the boundaries | `BestSoFar`, `ResultOptimal`, `SearchEnds` |
| `idempotency` | 2 requests in 2 workers, a payment and a top-up with the same key, 2 runs each, Redis outages, expiry, restarts, commit before or after the response | `EffectOnce`, `SuccessMeansEffect`, `RetryAnswered`, `RetryMade` |
| `secure_element` | tokens 500, 500, 1000, 6 key pairs | `SignsOnce`, `ProofsMatchKeys`, and that the loop implements `Signer` |
| `shamir` | every byte as a seed for 2 of 3; 3 of 5, 4 of 4, 2 of 6, and a seed of two bytes; coefficients 0 and 246; damages 1 and 128; guesses of the seed 0, 1, 83, 255 (202 for 3 of 5) | `RecoversSeed`, `BelowThresholdHides`, `VerifyFindsDamage`, `TablesAreField` |

Bounds. Every race in the code is between two requests that met on the same row:
two slots produce all of them, and finished slots are reused, so a behaviour has
many requests. Two tokens of different value make selections of one and of two
tokens, change, and a sync item that fails after its first token. Two payment ids
allow one pair of payments over the same token, and one code together with one
offline payment. The properties of `serial` are about sums and need two wallets
(payer and payee), three tokens and an allocation with a remainder. Two equal
tokens and a larger one give `secure_element` a tie in the order of the loop and a
failure after one or two tokens; six key pairs are three for the rows and three
for the worker. `MaxRuns` is 2 in `idempotency`: for each intent a run whose commit
is lost, and a retry; `LateRollback` and `Restart` spare the last run the bound allows,
so that the bound never keeps a retry from succeeding. The zero coefficient lets the degree
of a polynomial drop; six shares with threshold two are one more than the windows
of `verify_shares` reach. For `BelowThresholdHides` TLC tries every draw of
coefficients, 256 for threshold 2 and 65,536 for threshold 3, so it is given few
guesses, and none above; the theorem covers the rest. `TablesAreField` covers all pairs
of bytes, because every byte is a seed. The theorems below remove the bounds for every safety property
of every passing run.

Several properties hold only in the setting of their run, and that is what the run
says: `Solvent` and `NoMoneyCreated` fail with overlapping requests because
balances are overwritten (`lost_update`); `SignOnce` fails with two workers or a
restart (`sign_twice`), and `SignedPerStart` is what is left of it: one signature per
token and start of a worker, which for a single worker never restarted is `SignOnce`
(`SignOnceOneStart`); `NoFalseDoubleSpend` fails when sync and settlement overlap
(`guaranteed_failed`).

Fairness (`SyncFairness`, used by `liveness` and `starved`). Every request ends,
because no handler loops and every await of a database call returns or raises:
weak fairness of the steps of a sync request and of `Rollback`. Clients keep
asking for a sync of all wallets, and one of them gets its turn: strong fairness
of `SyncFetch(r, None)`, strong because a slot may be taken by other requests at
any given moment. From some point on the database does not fail under sync
requests for other reasons than a lost race; without it every sync could be rolled
back. In `Idempotency` every request and transaction ends (weak fairness), and of
the requests that clients keep sending for an intent not every one is cut off by a
restart, nor does Redis fail at every lookup it was reachable for, nor the database
at every payment it could have made (strong fairness of `Replay`, `Miss` and
`Handle` for the intent). That clients retry, through workers that reach Redis, is
the premise of `RetryAnswered` and `RetryMade`, not an assumption; that an entry is
not kept alive for ever is a premise of `RetryMade` (`WF_vars(Expire(k))`: the time to
live is 24 hours). `CoinSelection` has weak fairness of `Next`, a function that runs.

### Disagreements between documents and code

Runs that expect a violation. Each checks a sentence of the repository
(PROJECT.json quotes it) and finds a behaviour of the code that contradicts it.

| Run | Sentence | What happens |
|---|---|---|
| `lost_update` | the online debit is "atomic" | two payments read one balance; one debit is lost |
| `sign_twice` | a token signs one transaction | each worker has its own secure element |
| `guaranteed_failed` | sync handles double-spend races | a payment settled during its sync is marked failed |
| `starved` | failed payments move to a dead-letter queue | they stay in front of the queue and fill the batch |
| `proof_unverifiable` | token signatures are verified at settlement, and valid ones guarantee the payment | tokens are minted in an element that is dropped with `POST /topups`; the worker that pays signs with a new key, and `verify_spend_proof` would reject the proof, if `settle_payment` called it |

Other behaviours of the code that the models show and a reader of the documents
may not expect; no run is about them:

* a synced payment has no settlement and can no longer get one (`SyncCommit`
  registers its tokens, so `SettleCheck` refuses them), although
  `routers/sync.py:39` speaks of submitting to the settlement network;
* an offline payment of 450 takes a whole 500 token from the balance
  (`PayWrites`), where `DEMO.md:201` subtracts 450;
* the refund of an emergency code may exceed the allowance when the wallet was
  topped up in between; the redemption is then rolled back (`EmergencyFlush`);
* an offline payment may select tokens locked to an outstanding emergency code
  (`MintedOf` does not look at the code), although `payment_service.py:402` deducts
  the balance "to prevent reuse"; the redemption then finds fewer tokens, and
  `PaymentsDisjoint` and `NoDoubleSettlement` hold all the same;
* a payment that failed or was rolled back after signing leaves tokens that its
  worker can never sign with and keeps selecting (`KeyDestroyed`);
* `reconstruct` is not told the threshold and returns a wrong secret from fewer
  than k shares, where its docstring promises a ValueError; `verify_shares` looks at
  no share after the one with position k + 3, and cannot judge exactly k shares;
* `create_wallet` splits the seed and drops the shares: no route returns or stores
  them;
* a retry fails although the payment was made when there is no response to replay: it
  reaches a worker without a Redis client, or Redis is down, or the entry expired or
  was never stored. Of retries that reach Redis, only those fail for ever
  (`RetryAnswered`);
* with FastAPI from 0.118 on the response of a payment whose commit fails is cached and
  replayed to every retry, until it expires (`SuccessMeansEffect`, `RetryMade`);
* a top-up sent with the key of a payment is answered with the response of that payment
  and not made, as long as the entry lives (`Replay`); without Redis both are made, as
  the unique columns are in different tables;
* overlapping requests with the same idempotency key are both processed where the
  handler has no unique column (`Miss`, `KeyFree`);
* when Redis fails while a response is stored, the response has already lost its
  body (`StoreFails`);
* two overlapping creations can give a customer eleven wallets: the count at
  `wallet_service.py:73` is stale at the insert (not modelled).

In `starved` the counterexample keeps one order of the two items throughout, as
`created_at` would.

## 4. Proofs

Checked by TLAPS for all values of the constants that satisfy the assumptions
`DenomAssumption`, `DenominationsAssumption`, `TokensAssumption`, `SetsAssumption`,
`NumbersAssumption`, `FiniteAssumption`, `TopUpAssumption`, `TargetsAssumption`,
`MaxKeysAssumption`, `IdempotencyAssumption` and `ShamirAssumption` (amounts are
positive, tokens have one of the five denominations that `mint_tokens` creates, `None` is no id, an allocation is
part of its top-up, tables have finitely many rows, served by finitely many processes;
a secret that is split is not empty, as the seeds of `create_wallet` are not, and
2 <= k <= n <= 255, as `split` requires).

* `TypeCorrect == Spec => []TypeOK` (`DeferredRegistry`). The interesting conjunct is
  `offline \in [Wallets -> 0..Allowance]`. It is not inductive: a flushed request
  commits later, from a balance it read earlier. `SessionOK` records that the value
  it will write passed the check constraints; `OwnerInv` that a minted token has an
  owner, so that a redemption knows its payer. `TInv` is their conjunction.
* `NoDoubleSettlementHolds`, `GuaranteeBackedHolds`, `RegisteredNotSpendableHolds`
  (`DeferredRegistry`) follow from one inductive invariant `IInv`, which adds to
  `TInv`:
  - `RowInv`: the tables agree with each other (a payment id not drawn has no rows,
    a queued payment has a transaction, a settled one has its tokens registered);
  - `SessionInv`: what each request read or staged is still true when it commits.
    `StableSession` is the heart of it: other commits only add (`Grows`), and a
    flushed redemption keeps its tokens unregistered;
  - `LockInv`: flushed requests hold disjoint token rows. A redemption checks the
    primary key at its flush and commits later; without the locks another request
    could register the token in between.
  There is one step per action for each of the three parts it can disturb. Like
  `ImplementsRegistryHolds` they speak of genuine proofs only.
* `ImplementsRegistryHolds == Spec => ImplementsRegistry`: every step of the API is
  a `Spend`, a `Guarantee` or a stutter of `SpendRegistry` under
  `spentIn <- gs`, `guaranteed <- {p : settlements[p] > 0}`. It uses `IInv`:
  that a guarantee is new, and that none of its tokens was registered before.
* `SignedPerStartHolds` (`DeferredRegistry`), under any interleaving. The bound counts
  destroyed keys, but a key is destroyed before the proof leaves; if the request rolls
  back in between, the key is gone without a proof. `SigningInv` therefore counts the
  proofs of a token against the workers that have destroyed its key *and have no
  signature with it on its way* (`Done`), and says that requests of one worker have
  signed with different tokens (`SignersInv`). A restart forgets keys and adds one.
  `SignOnceOneStart`: with one worker and no restart the bound is one, which is what
  docs/adr/001 says.
* `PaymentsDisjointHolds`, `NoFalseDoubleSpendHolds`, `SolventHolds` and
  `NoMoneyCreatedHolds` (`DeferredSerial`) assume `Serial`: no two requests in flight.
  The runs `lost_update` and `guaranteed_failed` show why. Any number of requests
  follow each other, on any workers, with rollbacks, responses before the commit, and
  restarts at every step.
  - `SerialInv` adds to `IInv` that the tokens of committed payments are spent, that
    a registered token belongs to a succeeded payment, and `Current`: the tokens a
    request goes on to spend are still minted, and a sync has staged nothing for the
    items still to come.
  - `BalanceInv` adds that the balances a request read are current, that the tokens it
    selected are its wallet's, and that the tokens locked to one code belong to one
    wallet (`CodeInv`), without which a refund could reach the wrong balance. That
    `mint_tokens` never mints more than the allocation is `MintValue`, from the
    remainders of the denominations.
  - `NoMoneyCreated` is then preserved by each writing step on its own account: a
    top-up adds to both sides, a payment moves money, and a settlement or sync turns
    tokens into a payment that is worth no more than they are (`ValueCovers`).
* `BestSoFarHolds`, `ResultOptimalHolds` (`CoinSelectionProofs`), for any tokens of the
  five denominations and any targets. `SearchInv` holds the best selection of the
  explored part of the tree; `ReturnExplores` is the lemma that a call which returns
  leaves nothing below it: a set of tokens that departs from the path does so first at
  a skip, and was passed. An exact greedy match ends the function before any search;
  that it has the fewest tokens is not a matter of greed but of the denominations
  (with 100, 300 and 400, 600 is two tokens and greed takes three). `GreedyLoop` shows
  that a token was left out only if it is worth more than all that was taken after it;
  `FewestTokens` counts tokens by denomination and leaves an inequality in ten
  natural numbers to the SMT solver (`FewestCounts`).
* `SignsOnceHolds`, `ProofsMatchKeysHold`, `ImplementsSignerHolds`
  (`SecureElementProofs`), under `DenomAssumption` and `MaxKeysAssumption`. The
  invariant says that a token has signed exactly if its key is destroyed, and a held
  key never is (`KeyInv`); that key numbers are new, and a held key is the one in the
  row exactly if the token was minted here (`MintInv`); and that inside the loop what
  is destroyed is what was destroyed when it began and what it has signed with since,
  none of it smaller than what is still to come (`LoopInv`). The last part makes the
  rounds of the loop stutters and its end a `SignAll` or a `SignSome`.
  `ProofsMatchKeys` keeps the two guarantees there are: a destruction proof names the
  key that signed, and the proof of a token minted in the signing element verifies.
  That the others do not is the run `proof_unverifiable`.
* `EffectOnceHolds`, `SuccessMeansEffectHolds` (`IdempotencyProofs`), under
  `IdempotencyAssumption`. `OpenInv`: an open transaction of a payment or top-up has no
  rival, open or committed, which is what the unique column gives. `Reported` are the
  responses of runs that committed, are open, or were lost; `ReportInv` says that
  what is cached, about to be stored or told to a client is among them, which no step
  undoes (`ReportedGrows`). `CommitInv`: where the commit comes first nothing is lost.
  Together: a reported run that was not lost is committed or open, and by `OpenInv`
  and `EffectOnce` there is no other.
* `RecoversSeedHolds`, `BelowThresholdHidesHolds`, `VerifyFindsDamageHolds` and
  `TablesAreFieldHolds` (`ShamirProofs`), for every secret, threshold, number of shares,
  choice of coefficients, damage to the first byte, and choice of shares. The state
  machine needs little: `IInv` says that the shares are those of one split up to one
  damage, and that what a recovery or check returned is what these shares give, because
  nothing is damaged afterwards (`BackupInvariant`). The work is in the arithmetic:
  - The tables are those of a field. A byte is its eight bits (`BitsExist`), and the
    exclusive or adds them one by one, so addition is a group (`AddAssociates`,
    `AddZero`). The 255 powers of 3 are computed sixteen at a time (`Row0` to `Row15`);
    none but the first is 1, so they differ (`PowersDistinct`) and, there being 255
    of them, are all bytes but 0 (`PowersOnto`). Exponents modulo 255 then give
    the laws of multiplication, and multiplication distributes over addition because
    multiplication by 3 does (`MulDistributes`, by induction on the logarithm). With a
    generator of smaller order, such as 2, `PowersDistinct` would fail.
  - `TablesAreField`: a byte is the sum of its bits at their weights (`PartsOfByte`),
    and a product by a weight is a repeated `Times2`, so `GfMul` is the product of
    polynomials modulo 0x11B.
  - Interpolation. The weight of a share is the value of its basis polynomial at 0.
    `Moments`: the weights of any set of distinct indices sum to 1, and weighted with
    the d-th powers of the indices to 0, for every positive d below the size of the set.
    A power follows from the one before, with and without one of the indices
    (`MomentNext`), and the sum of the weights from two sets with one index less
    (`MomentOfTwo`), so that no division of polynomials is needed. Since `EvalAt` is
    a sum of k monomials, any k or more shares give the constant.
  - A wrong byte moves the result by the damage times the weight of its share, which is
    never 0 (`WeightOfAll`): the result is wrong.
  - `BelowThresholdHides`: n coefficients are determined by the values of their
    polynomial at n places (`ValuesDetermine`, from interpolation and `EvalHead`). So
    distinct vectors of coefficients have distinct vectors of values, and, both being
    as many, every vector of values is taken (`ValuesExist`; `VectorsFinite`). Given a
    guess of the constant, the k - 1 other coefficients are k - 1 such unknowns, and the
    k - 1 shares leave exactly one draw (`OneChoice`).
  - `verify_shares`: a wrong byte in the first k + 3 of more than k shares is in one
    compared window and not in another, or in both of the first two, where its share has
    different weights (`WindowChoice`, `WindowsDiffer`); a window with a short share raises.

Sums (`CoinsProofs`). `SumOver` and the greedy fold are recursive functions on the
subsets of a set. The induction theorems of the library cannot be used, because they
take an operator as parameter; instead, `Least` and `LeastNatural` say that a nonempty
set of counterexamples has a smallest member, and each proof refutes it. In this way
the recursive functions are shown to exist (`AddsExists`, `TakesExists`), and the sum
not to depend on the order in which elements are picked (`SumRemove`).

Only model-checked: liveness (`QueueDrains`, `SearchEnds`, `RetryAnswered`,
`RetryMade`), which needs fairness and ENABLED. Every safety property of a passing run is a theorem.

## 5. Not modelled

What is left has no state that another part reads, so that there is nothing an
interleaving or a failure could break:

* `keys.py`: a chain of HMAC-SHA512 calls. The wallet index in the path is a counter
  of the worker process that starts again with it, but every wallet has a fresh seed,
  so nothing depends on the index being unique.
* `auth.py`, `auth_routes.py`: tokens are validated from their own content and the
  clock; nothing is stored.
* `get_wallet` and the other GET routes: they only read. Three statements of
  `get_wallet` see three committed states, so the parts of its answer need not fit
  together; no code acts on the answer.
* The limit of ten wallets: one count before an insert, with nothing behind it.
* `event_bus.py`: connected at start-up, and no handler publishes.
* Metrics, logging, configuration, error layout, security headers, request ids; demo
  scripts and the load test.
* `schemas.py`: the limits it puts on requests are assumptions on the constants.
* Expiry of tokens: no code checks `expiry_time`.
* `to_hex` and `from_hex` of a share; `verify_attestation` and
  `verify_destruction_proof`, which nobody calls.

## 6. Plan

Done:

1. `Coins`, `Database` and the handlers; `Deferred`; registry properties.
2. Money properties for a serial service; signatures per worker; liveness.
3. `CoinSelection`, `Idempotency`.
4. Type correctness proved; then the registry invariant and the refinement.
5. `SecureElement` and `Signer`: the loop of `Payments` justified, and proved.
6. `Idempotency` with workers, restarts and start-up without Redis; retries;
   its safety properties proved.
7. `Shamir` over the real field.
8. Sums: `Solvent`, `NoMoneyCreated`, `PaymentsDisjoint` and `NoFalseDoubleSpend`
   proved for requests that do not overlap; `SignedPerStart` for those that do.
9. The coin selection proved optimal.
10. `Shamir` proved: the field, interpolation, what k - 1 shares leave open, and what
    `verify_shares` finds.
11. `Idempotency` with intents: one key for a payment and a top-up, and which success
    may be reported; `proof_unverifiable`.

Open:

12. The sync queue with its fixed order, to state exactly when a payment is starved.
