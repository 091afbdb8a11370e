--------------------------- MODULE SecureElement ----------------------------
(***************************************************************************)
(* The SoftwareSecureElement of a worker (app/crypto/secure_element.py)    *)
(* and the TokenManager on top of it (app/crypto/tokens.py), as the        *)
(* signing loop of _create_offline_payment uses them: has_key, perhaps     *)
(* generate_keypair, then spend_token, which signs and destroys the key.   *)
(*                                                                         *)
(* A key pair is a number, its public and its private half included.  The  *)
(* loop has no await, so one payment of the worker is in it at a time; the *)
(* process may die at any point of it.                                     *)
(***************************************************************************)
EXTENDS Coins

CONSTANT MaxKeys  \* bound on key pairs generated

ASSUME MaxKeysAssumption == MaxKeys \in Nat

NoKey == 0

VARIABLES
    rowKey,      \* offline_tokens.public_key, NoKey before the token is minted
    keys,        \* _keys: the private key held for each token
    publicKeys,  \* _public_keys
    proofOf,     \* _destroyed: the public key in each token's DestructionProof
    nextKey,     \* key pairs generated so far
    loop,        \* the payment being signed
    signatures,  \* signatures made with each token since the worker started
    held,        \* tokens minted in this secure element since it started
    proofs       \* SpendProofs made

seState == <<keys, publicKeys, proofOf>>
vars == <<rowKey, seState, nextKey, loop, signatures, held, proofs>>

Key == 0..MaxKeys
Loop == [pc : {"idle", "loop", "signed", "failed"},
         sel : SUBSET Tokens, todo : SUBSET Tokens, start : SUBSET Tokens]
SpendProof == [token : Tokens, signedWith : Key, publicKey : Key, destroyedKey : Key,
               held : BOOLEAN]
NoLoop == [pc |-> "idle", sel |-> {}, todo |-> {}, start |-> {}]

TypeOK ==
    /\ rowKey \in [Tokens -> Key]
    /\ keys \in [Tokens -> Key]
    /\ publicKeys \in [Tokens -> Key]
    /\ proofOf \in [Tokens -> Key]
    /\ nextKey \in Key
    /\ loop \in Loop
    /\ signatures \in [Tokens -> Nat]
    /\ held \in SUBSET Tokens
    /\ proofs \in SUBSET SpendProof

\* A secure element that has just started.
Empty ==
    /\ keys' = [t \in Tokens |-> NoKey]
    /\ publicKeys' = [t \in Tokens |-> NoKey]
    /\ proofOf' = [t \in Tokens |-> NoKey]

Init ==
    /\ rowKey = [t \in Tokens |-> NoKey]
    /\ keys = [t \in Tokens |-> NoKey]
    /\ publicKeys = [t \in Tokens |-> NoKey]
    /\ proofOf = [t \in Tokens |-> NoKey]
    /\ nextKey = 0
    /\ loop = NoLoop
    /\ signatures = [t \in Tokens |-> 0]
    /\ held = {}
    /\ proofs = {}

-----------------------------------------------------------------------------
(* SoftwareSecureElement *)

IsDestroyed(t) == proofOf[t] # NoKey

\* generate_keypair raises KeyDestroyedError otherwise.
MayGenerate(t) == ~IsDestroyed(t)

HasKey(t) == keys[t] # NoKey /\ ~IsDestroyed(t)

\* A new key pair replaces one that is held.
GenerateKeypair(t) ==
    /\ nextKey < MaxKeys
    /\ MayGenerate(t)
    /\ nextKey' = nextKey + 1
    /\ keys' = [keys EXCEPT ![t] = nextKey + 1]
    /\ publicKeys' = [publicKeys EXCEPT ![t] = nextKey + 1]
    /\ UNCHANGED proofOf

\* The key is forgotten, the proof kept.
DestroyKey(t) ==
    /\ keys' = [keys EXCEPT ![t] = NoKey]
    /\ proofOf' = [proofOf EXCEPT ![t] = publicKeys[t]]
    /\ UNCHANGED publicKeys

-----------------------------------------------------------------------------
(* TokenManager *)

\* create_topup mints with a secure element of its own, which is then dropped.
MintElsewhere(t) ==
    /\ rowKey[t] = NoKey /\ nextKey < MaxKeys
    /\ nextKey' = nextKey + 1
    /\ rowKey' = [rowKey EXCEPT ![t] = nextKey + 1]
    /\ UNCHANGED <<seState, loop, signatures, held, proofs>>

\* mint_tokens of a manager on this secure element, as the tests use it.
MintHere(t) ==
    /\ rowKey[t] = NoKey /\ loop.pc = "idle"
    /\ GenerateKeypair(t)
    /\ rowKey' = [rowKey EXCEPT ![t] = nextKey + 1]
    /\ held' = held \cup {t}
    /\ UNCHANGED <<loop, signatures, proofs>>

\* The key is kept for the next payment.
Mut_SpendToken(t) ==
    /\ HasKey(t)
    /\ signatures' = [signatures EXCEPT ![t] = @ + 1]
    /\ proofs' = proofs \cup {[token |-> t, signedWith |-> keys[t], publicKey |-> rowKey[t],
                               destroyedKey |-> publicKeys[t], held |-> t \in held]}
    /\ UNCHANGED seState

\* Sign, then destroy the key; the proof carries the public key of the row.
SpendToken(t) ==
    /\ HasKey(t)
    /\ signatures' = [signatures EXCEPT ![t] = @ + 1]
    /\ proofs' = proofs \cup {[token |-> t, signedWith |-> keys[t], publicKey |-> rowKey[t],
                               destroyedKey |-> publicKeys[t], held |-> t \in held]}
    /\ DestroyKey(t)

\* The signature verifies under the public key of the proof.
VerifySpendProof(p) == p.signedWith = p.publicKey

-----------------------------------------------------------------------------
(* The loop of _create_offline_payment *)

Destroyed == {t \in Tokens : IsDestroyed(t)}

\* Tokens were selected; rows that other payments left MINTED included.
Start(S) ==
    /\ loop.pc = "idle"
    /\ S # {} /\ \A t \in S : rowKey[t] # NoKey
    /\ loop' = [pc |-> "loop", sel |-> S, todo |-> S, start |-> Destroyed]
    /\ UNCHANGED <<rowKey, seState, nextKey, signatures, held, proofs>>

\* The selection is not sorted.
Mut_Current(t) == loop.pc = "loop" /\ t \in loop.todo

\* select_tokens returns the largest token first; the order of equal ones is open.
Current(t) ==
    /\ loop.pc = "loop" /\ t \in loop.todo
    /\ \A x \in loop.todo : Denom[x] <= Denom[t]

\* has_key is not asked.
Mut_EnsureKey(t) ==
    /\ Current(t)
    /\ GenerateKeypair(t)
    /\ UNCHANGED <<rowKey, loop, signatures, held, proofs>>

EnsureKey(t) ==
    /\ Current(t)
    /\ ~HasKey(t)
    /\ GenerateKeypair(t)
    /\ UNCHANGED <<rowKey, loop, signatures, held, proofs>>

\* KeyDestroyedError becomes a PaymentError.
KeyDestroyed(t) ==
    /\ Current(t)
    /\ ~HasKey(t) /\ ~MayGenerate(t)
    /\ loop' = [loop EXCEPT !.pc = "failed"]
    /\ UNCHANGED <<rowKey, seState, nextKey, signatures, held, proofs>>

Spend(t) ==
    /\ Current(t)
    /\ SpendToken(t)
    /\ loop' = [loop EXCEPT !.todo = @ \ {t},
                            !.pc = IF loop.todo = {t} THEN "signed" ELSE "loop"]
    /\ UNCHANGED <<rowKey, nextKey, held>>

\* The request ends; whether it commits makes no difference here.
Finish ==
    /\ loop.pc \in {"signed", "failed"}
    /\ loop' = NoLoop
    /\ UNCHANGED <<rowKey, seState, nextKey, signatures, held, proofs>>

Restart ==
    /\ Empty
    /\ loop' = NoLoop
    /\ signatures' = [t \in Tokens |-> 0]
    /\ held' = {}
    /\ UNCHANGED <<rowKey, nextKey, proofs>>

Next ==
    \/ \E t \in Tokens :
        \/ MintElsewhere(t) \/ MintHere(t)
        \/ EnsureKey(t) \/ KeyDestroyed(t) \/ Spend(t)
    \/ \E S \in SUBSET Tokens : Start(S)
    \/ Finish \/ Restart

Spec == Init /\ [][Next]_vars

-----------------------------------------------------------------------------

\* Until the worker restarts, no token signs twice: not when a payment fails
\* half-way or is rolled back after its keys were destroyed, leaving its tokens
\* MINTED, and is tried again.
SignsOnce == \A t \in Tokens : signatures[t] <= 1

\* A destruction proof names the key that signed, also after failed payments, keys
\* that were replaced and restarts; and verify_spend_proof accepts the proof of a token
\* that was minted in the secure element that signed it (as in the tests).
ProofsMatchKeys ==
    \A p \in proofs : /\ p.destroyedKey = p.signedWith
                      /\ p.held => VerifySpendProof(p)

\* What ADR 001 and the docstrings of settlement expect of a payment: verify_spend_proof
\* accepts its proofs.  It does not: the key of a token bought at POST /topups is gone
\* with that request, and the loop signs with another.
SpendProofsVerify == \A p \in proofs : VerifySpendProof(p)

\* To the rest of the worker the loop is one step that signs and destroys all,
\* or fails at a destroyed key and keeps what it destroyed before it.
Promise == INSTANCE Signer WITH
    destroyed <- IF loop.pc = "loop" THEN loop.start ELSE Destroyed,
    outcome <- IF loop.pc = "loop" THEN "idle" ELSE loop.pc
ImplementsSigner == Promise!Spec
=============================================================================
