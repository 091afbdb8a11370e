------------------------------ MODULE Database ------------------------------
(***************************************************************************)
(* The tables every service of the Deferred API shares (app/models.py),    *)
(* the session a request holds on them (app/db.py), and the constraints    *)
(* PostgreSQL enforces.                                                    *)
(*                                                                         *)
(* A request is one database transaction at READ COMMITTED: each read sees *)
(* what is committed when it runs, the object read is kept in the session, *)
(* and the ORM later writes the new ABSOLUTE value of each column that     *)
(* changed.  So a handler is a few steps - reads, then a write - and other *)
(* requests may commit between them.  Where a handler awaits between the   *)
(* flush of its writes and the commit, the flush is a step of its own and  *)
(* the rows it wrote stay locked (RowsFree); otherwise flush and commit    *)
(* are one step, since a constraint fails the same way at either point.    *)
(***************************************************************************)
EXTENDS Coins

CONSTANTS
    Wallets,      \* wallet ids
    TxIds,        \* payment ids that can be drawn (bounds payments)
    Codes,        \* emergency codes that can be drawn (bounds code requests)
    Requests,     \* requests in flight at once; one element = serial service
    Workers,      \* uvicorn worker processes, each with its secure element
    None,         \* SQL NULL / Python None
    Amounts,      \* amounts that payment and settlement requests ask for
    Allowance,    \* offline_allowance_cents
    MaxRestarts,  \* bound on worker restarts
    BatchSize     \* batch_size of a sync request

ASSUME SetsAssumption ==
    /\ None \notin Wallets \cup TxIds \cup Codes
    /\ "spent" \notin Codes

\* Tables have finitely many rows, and there are finitely many processes.
ASSUME FiniteAssumption ==
    IsFiniteSet(Wallets) /\ IsFiniteSet(TxIds) /\ IsFiniteSet(Workers)

ASSUME NumbersAssumption ==
    /\ Amounts \subseteq Nat \ {0}
    /\ Allowance \in Nat \ {0}
    /\ MaxRestarts \in Nat
    /\ BatchSize \in Nat \ {0}

VARIABLES
    online, offline,    \* balances of each wallet
    funded, allocated,  \* sums over each wallet's topups rows
    tokStatus, owner, otp,   \* offline_tokens
    codeAmt,            \* amount each emergency code was issued for
    gs,                 \* global_spends: the payment each token is spent in
    pay,                \* what a payment id stands for (row and payload)
    txStatus,           \* transactions.status, "none" while no row exists
    settlements,        \* number of settlements rows of each payment
    queue,              \* sync_queue.status, "none" while no row exists
    proofs,             \* settlement payloads that reached the merchant
    destroyed,          \* per worker, tokens whose key its SE destroyed
    restarts,           \* worker restarts so far
    sess                \* the session of each request slot

walletVars == <<online, offline>>
topupVars  == <<funded, allocated>>
tokenVars  == <<tokStatus, owner, otp, codeAmt>>
txVars     == <<pay, txStatus, settlements, queue>>
seVars     == <<destroyed, restarts>>
vars == <<walletVars, topupVars, tokenVars, gs, txVars, proofs, seVars, sess>>

-----------------------------------------------------------------------------
(* Rows *)

TokenStatus == {"none", "minted", "spent", "settled"}
TxStatus    == {"none", "pending", "succeeded", "failed"}
SyncStatus  == {"none", "pending", "completed", "failed"}
TxMode      == {"unused", "online", "offline", "emergency"}

\* The part of a transactions row (and of the payload signed for it) that is
\* fixed when the payment id is drawn.
Payment == [mode : TxMode, wallet : Wallets \cup {None}, amount : Nat,
            toks : SUBSET Tokens]
Unused == [mode |-> "unused", wallet |-> None, amount |-> 0, toks |-> {}]

\* What a handler has read or staged so far; pc names its next step.
PCs == {"idle", "topup", "online", "payWallet", "paySelected", "paySigned",
        "payFlushed", "payResponded", "codeWallet", "codeTokens", "settle",
        "emTokens", "emReady", "emFlushed", "emPayee", "sync", "syncTx"}
Outcomes == {"none", "already", "ok", "failed"}
Session == [pc : PCs,
            worker : Workers \cup {None},
            w : Wallets \cup {None},        \* wallet loaded
            payee : Wallets \cup {None},
            on : Nat, off : Nat,            \* its balances as loaded
            amount : Nat, alloc : Nat,      \* request body
            toks : SUBSET Tokens,           \* tokens loaded or selected
            use : SUBSET Tokens,            \* those an emergency code consumes
            code : Codes \cup {None},
            tx : TxIds \cup {None},
            seen : BOOLEAN,                 \* the transactions row was found
            items : SUBSET TxIds,           \* sync items still to process
            staged : [TxIds -> Outcomes],   \* outcome of the processed ones
            gsNew : [Tokens -> TxIds \cup {None}]]  \* unflushed spends

Idle == [pc |-> "idle", worker |-> None, w |-> None, payee |-> None,
         on |-> 0, off |-> 0, amount |-> 0, alloc |-> 0, toks |-> {},
         use |-> {}, code |-> None, tx |-> None, seen |-> FALSE, items |-> {},
         staged |-> [p \in TxIds |-> "none"],
         gsNew |-> [t \in Tokens |-> None]]

TypeOK ==
    /\ online \in [Wallets -> Nat]
    /\ offline \in [Wallets -> 0..Allowance]
    /\ funded \in [Wallets -> Nat]
    /\ allocated \in [Wallets -> Nat]
    /\ tokStatus \in [Tokens -> TokenStatus]
    /\ owner \in [Tokens -> Wallets \cup {None}]
    /\ otp \in [Tokens -> Codes \cup {None, "spent"}]
    /\ codeAmt \in [Codes -> Nat]
    /\ gs \in [Tokens -> TxIds \cup {None}]
    /\ pay \in [TxIds -> Payment]
    /\ txStatus \in [TxIds -> TxStatus]
    /\ settlements \in [TxIds -> Nat]
    /\ queue \in [TxIds -> SyncStatus]
    /\ proofs \in [TxIds -> {"none", "live", "expired"}]
    /\ destroyed \in [Workers -> SUBSET Tokens]
    /\ restarts \in 0..MaxRestarts
    /\ sess \in [Requests -> Session]

\* Wallets exist and are empty; nothing was minted, paid or queued yet.
Init ==
    /\ online = [w \in Wallets |-> 0]
    /\ offline = [w \in Wallets |-> 0]
    /\ funded = [w \in Wallets |-> 0]
    /\ allocated = [w \in Wallets |-> 0]
    /\ tokStatus = [t \in Tokens |-> "none"]
    /\ owner = [t \in Tokens |-> None]
    /\ otp = [t \in Tokens |-> None]
    /\ codeAmt = [c \in Codes |-> 0]
    /\ gs = [t \in Tokens |-> None]
    /\ pay = [p \in TxIds |-> Unused]
    /\ txStatus = [p \in TxIds |-> "none"]
    /\ settlements = [p \in TxIds |-> 0]
    /\ queue = [p \in TxIds |-> "none"]
    /\ proofs = [p \in TxIds |-> "none"]
    /\ destroyed = [k \in Workers |-> {}]
    /\ restarts = 0
    /\ sess = [r \in Requests |-> Idle]

-----------------------------------------------------------------------------
(* Tokens of a wallet *)

\* Without the filter on status MINTED.
Mut_MintedOf(w) == {t \in Tokens : tokStatus[t] # "none" /\ owner[t] = w}

\* Tokens of wallet w a new payment may draw on, and those not locked to a code.
MintedOf(w) == {t \in Tokens : tokStatus[t] = "minted" /\ owner[t] = w}
FreeOf(w) == {t \in MintedOf(w) : otp[t] = None}

-----------------------------------------------------------------------------
(* Constraints *)

\* Without ck_offline_balance_positive.
Mut_OfflineOK(balance) == balance <= Allowance

\* ck_offline_balance_positive and ck_offline_within_allowance.
OfflineOK(balance) == balance \in 0..Allowance

\* ck_online_balance_positive.
OnlineOK(balance) == balance \in Nat

\* Without the primary key.
Mut_NotSpent(T) == TRUE

\* Primary key of global_spends: none of T has a row.
NotSpent(T) == \A t \in T : gs[t] = None

\* Requests that have flushed writes and not yet committed them: the wallet
\* and token rows they wrote are locked.
Flushed == {"payFlushed", "payResponded", "emFlushed", "emPayee"}
LockedWallets(q) ==
    IF sess[q].pc \in {"payFlushed", "payResponded"} \/ sess[q].use # sess[q].toks
    THEN {sess[q].w} ELSE {}
RowsFree(r, W, T) ==
    \A q \in Requests \ {r} :
        sess[q].pc \in Flushed => /\ LockedWallets(q) \cap W = {}
                                  /\ sess[q].toks \cap T = {}

-----------------------------------------------------------------------------
(* Sessions *)

\* generate_prefixed_id: an id nobody drew before.
Fresh(p) == pay[p].mode = "unused"

End(r) == sess' = [sess EXCEPT ![r] = Idle]

\* A request ends without a commit: a validation error, a constraint
\* violation, a deadlock victim, a lost connection, a cancelled client.
Rollback(r) ==
    /\ sess[r].pc # "idle"
    /\ End(r)
    /\ UNCHANGED <<walletVars, topupVars, tokenVars, gs, txVars, proofs, seVars>>
=============================================================================
