-------------------------------- MODULE Sync --------------------------------
(***************************************************************************)
(* POST /sync (sync_service.py): process the queue of offline payments.    *)
(* Each payment's tokens are entered in global_spends; a token that is     *)
(* already there makes the payment fail as a double spend.                 *)
(***************************************************************************)
EXTENDS Database

\* Queue items a request fetches: open ones, at most BatchSize, of one wallet
\* if the request names it.  All items have priority 5; created_at, taken
\* from the workers' clocks, may order them in any way.
Batches(w) ==
    LET open == {p \in TxIds : /\ queue[p] \in {"pending", "failed"}
                               /\ w \in {None, pay[p].wallet}}
    IN  {B \in SUBSET open :
            Cardinality(B) = Min({BatchSize, Cardinality(open)})} \ {{}}

SyncFetch(r, w) ==
    /\ sess[r].pc = "idle"
    /\ \E B \in Batches(w) :
        sess' = [sess EXCEPT ![r] = [Idle EXCEPT !.pc = "sync", !.items = B]]
    /\ UNCHANGED <<walletVars, topupVars, tokenVars, gs, txVars, proofs, seVars>>

\* The early return for settled transactions is missing.
Mut_AlreadySettled(p) == FALSE

AlreadySettled(p) == txStatus[p] = "succeeded"

\* _process_sync_item reads the transaction: settled already, or to be checked.
SyncLoad(r, p) ==
    LET s == sess[r]
        rest == s.items \ {p}
    IN  /\ s.pc = "sync"
        /\ p \in s.items
        /\ sess' = [sess EXCEPT ![r] =
             IF AlreadySettled(p)
             THEN [s EXCEPT !.items = rest, !.staged = [s.staged EXCEPT ![p] = "already"]]
             ELSE [s EXCEPT !.items = rest, !.pc = "syncTx", !.tx = p]]
        /\ UNCHANGED <<walletVars, topupVars, tokenVars, gs, txVars, proofs, seVars>>

\* Tokens with a registry row, committed or staged by this request.
Registered(s) == {t \in Tokens : gs[t] # None \/ s.gsNew[t] # None}

Stage(r, T, outcome) ==
    sess' = [sess EXCEPT ![r] =
        [@ EXCEPT !.pc = "sync", !.tx = None, !.staged[sess[r].tx] = outcome,
                  !.gsNew = [t \in Tokens |-> IF t \in T THEN sess[r].tx
                                              ELSE sess[r].gsNew[t]]]]

\* No token is registered: register them all.
SyncItemOk(r) ==
    LET toks == pay[sess[r].tx].toks
    IN  /\ sess[r].pc = "syncTx"
        /\ toks \cap Registered(sess[r]) = {}
        /\ Stage(r, toks, "ok")
        /\ UNCHANGED <<walletVars, topupVars, tokenVars, gs, txVars, proofs, seVars>>

\* DoubleSpendDetected at the first registered token; the registry rows of
\* the tokens before it stay in the session.
SyncItemFails(r) ==
    LET toks == pay[sess[r].tx].toks
    IN  /\ sess[r].pc = "syncTx"
        /\ \E P \in PrefixesBefore(toks, Registered(sess[r])) : Stage(r, P, "failed")
        /\ UNCHANGED <<walletVars, topupVars, tokenVars, gs, txVars, proofs, seVars>>

\* The early return leaves the queue item open.
Mut_ItemStatus(outcome, old) ==
    CASE outcome = "ok" -> "completed"
      [] outcome = "failed" -> "failed"
      [] OTHER -> old

\* Status of a queue item after the batch.
ItemStatus(outcome, old) ==
    CASE outcome \in {"ok", "already"} -> "completed"
      [] outcome = "failed" -> "failed"
      [] OTHER -> old

\* Flush and commit of the whole batch.
SyncCommit(r) ==
    LET s == sess[r]
        added == {t \in Tokens : s.gsNew[t] # None}
    IN  /\ s.pc = "sync"
        /\ s.items = {}
        /\ RowsFree(r, {}, added)
        /\ NotSpent(added)
        /\ gs' = [t \in Tokens |-> IF t \in added THEN s.gsNew[t] ELSE gs[t]]
        /\ txStatus' = [p \in TxIds |->
             CASE s.staged[p] = "ok" -> "succeeded"
               [] s.staged[p] = "failed" -> "failed"
               [] OTHER -> txStatus[p]]
        /\ queue' = [p \in TxIds |-> ItemStatus(s.staged[p], queue[p])]
        /\ End(r)
        /\ UNCHANGED <<walletVars, topupVars, tokenVars, pay, settlements, proofs, seVars>>
=============================================================================
