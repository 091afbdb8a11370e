------------------------ MODULE SecureElementProofs -------------------------
(***************************************************************************)
(* The secure element for any set of tokens and any number of keys: it     *)
(* signs once per token, its proofs name the keys that signed, and the     *)
(* signing loop is one step of Signer.                                     *)
(***************************************************************************)
EXTENDS SecureElement, TLAPS

-----------------------------------------------------------------------------
(* The inductive invariant *)

\* A held key is not destroyed and has its public half; a token has signed
\* exactly if its key is destroyed.
KeyInv ==
    \A t \in Tokens :
        /\ keys[t] # NoKey => proofOf[t] = NoKey /\ publicKeys[t] = keys[t]
        /\ signatures[t] = IF proofOf[t] = NoKey THEN 0 ELSE 1

\* Key pairs are new, and the key of a token is the one in its row exactly if the
\* token was minted here.
MintInv ==
    \A t \in Tokens :
        /\ rowKey[t] <= nextKey /\ keys[t] <= nextKey
        /\ t \in held => rowKey[t] # NoKey /\ (proofOf[t] # NoKey \/ keys[t] # NoKey)
        /\ keys[t] # NoKey => (keys[t] = rowKey[t] <=> t \in held)

\* Inside the loop, what is destroyed is what was destroyed when it began and
\* what it has signed with since.
LoopInv ==
    LET done == loop.sel \ loop.todo
    IN  loop.pc = "loop" =>
            /\ loop.todo # {} /\ loop.todo \subseteq loop.sel
            /\ Destroyed = loop.start \cup done
            /\ done \cap loop.start = {}
            /\ \A d \in done, x \in loop.todo : Denom[x] <= Denom[d]

IInv == TypeOK /\ KeyInv /\ MintInv /\ LoopInv /\ ProofsMatchKeys

-----------------------------------------------------------------------------

USE MaxKeysAssumption, DenomAssumption

\* A worker starts with an empty secure element.
LEMMA InitInv == Init => IInv
  BY DEF Init, IInv, TypeOK, KeyInv, MintInv, LoopInv, ProofsMatchKeys, Key, Loop, NoLoop, NoKey

\* generate_keypair keeps every part that speaks of keys: the pair is new.
LEMMA MintSteps ==
  ASSUME NEW t \in Tokens, IInv, MintElsewhere(t) \/ MintHere(t) \/ EnsureKey(t)
  PROVE  IInv'
<1>1. CASE MintElsewhere(t)
  <2>1. TypeOK' /\ rowKey' = [rowKey EXCEPT ![t] = nextKey + 1] /\ rowKey[t] = NoKey
        /\ nextKey' = nextKey + 1 /\ UNCHANGED <<seState, loop, signatures, held, proofs>>
    BY <1>1 DEF IInv, TypeOK, MintElsewhere, Key, seState
  <2>2. KeyInv' /\ LoopInv' /\ ProofsMatchKeys'
    BY <2>1 DEF IInv, KeyInv, LoopInv, ProofsMatchKeys, VerifySpendProof, Destroyed, IsDestroyed, seState
  <2>3. MintInv'
    BY <2>1 DEF IInv, MintInv, TypeOK, Key, NoKey, seState
  <2> QED BY <2>1, <2>2, <2>3 DEF IInv
<1>2. CASE MintHere(t)
  <2>1. TypeOK' /\ rowKey' = [rowKey EXCEPT ![t] = nextKey + 1] /\ rowKey[t] = NoKey
        /\ nextKey' = nextKey + 1 /\ keys' = [keys EXCEPT ![t] = nextKey + 1]
        /\ publicKeys' = [publicKeys EXCEPT ![t] = nextKey + 1] /\ proofOf[t] = NoKey
        /\ held' = held \cup {t}
        /\ UNCHANGED <<proofOf, loop, signatures, proofs>> /\ loop.pc = "idle"
    BY <1>2 DEF IInv, TypeOK, MintHere, GenerateKeypair, MayGenerate, IsDestroyed, Key
  <2>2. KeyInv'
    BY <2>1 DEF IInv, KeyInv, TypeOK, Key, NoKey
  <2>3. LoopInv' /\ ProofsMatchKeys'
    BY <2>1 DEF IInv, LoopInv, ProofsMatchKeys, VerifySpendProof
  <2>4. MintInv'
    BY <2>1 DEF IInv, MintInv, TypeOK, Key, NoKey
  <2> QED BY <2>1, <2>2, <2>3, <2>4 DEF IInv
<1>3. CASE EnsureKey(t)
  <2>1. TypeOK' /\ keys[t] = NoKey
        /\ nextKey' = nextKey + 1 /\ keys' = [keys EXCEPT ![t] = nextKey + 1]
        /\ publicKeys' = [publicKeys EXCEPT ![t] = nextKey + 1] /\ proofOf[t] = NoKey
        /\ UNCHANGED <<rowKey, proofOf, loop, signatures, held, proofs>>
    BY <1>3 DEF IInv, TypeOK, EnsureKey, HasKey, GenerateKeypair, MayGenerate, IsDestroyed, Key
  <2>2. KeyInv'
    BY <2>1 DEF IInv, KeyInv, TypeOK, Key, NoKey
  <2>3. LoopInv' /\ ProofsMatchKeys'
    BY <2>1 DEF IInv, LoopInv, ProofsMatchKeys, VerifySpendProof, Destroyed, IsDestroyed
  <2>4. MintInv'
    BY <2>1 DEF IInv, MintInv, TypeOK, Key, NoKey
  <2> QED BY <2>1, <2>2, <2>3, <2>4 DEF IInv
<1> QED BY <1>1, <1>2, <1>3

\* What one round of the loop changes.
LEMMA SpendEffect ==
  ASSUME NEW t \in Tokens, IInv, Spend(t)
  PROVE  /\ loop.pc = "loop" /\ t \in loop.todo
         /\ \A x \in loop.todo : Denom[x] <= Denom[t]
         /\ keys[t] # NoKey /\ publicKeys[t] = keys[t] /\ proofOf[t] = NoKey
         /\ keys' = [keys EXCEPT ![t] = NoKey]
         /\ proofOf' = [proofOf EXCEPT ![t] = keys[t]]
         /\ signatures' = [signatures EXCEPT ![t] = 1]
         /\ loop' = [loop EXCEPT !.todo = loop.todo \ {t},
                                 !.pc = IF loop.todo = {t} THEN "signed" ELSE "loop"]
         /\ proofs' = proofs \cup
                {[token |-> t, signedWith |-> keys[t], publicKey |-> rowKey[t],
                  destroyedKey |-> keys[t], held |-> t \in held]}
         /\ UNCHANGED <<rowKey, publicKeys, nextKey, held>>
         /\ Destroyed' = Destroyed \cup {t}
<1>1. keys[t] # NoKey /\ proofOf[t] = NoKey
  BY DEF Spend, SpendToken, HasKey, IsDestroyed
<1>2. publicKeys[t] = keys[t] /\ signatures[t] = 0
  BY <1>1 DEF IInv, KeyInv
<1>3. proofOf' = [proofOf EXCEPT ![t] = keys[t]]
  BY <1>2 DEF Spend, SpendToken, DestroyKey
<1>4. Destroyed' = Destroyed \cup {t}
  BY <1>1, <1>3 DEF Destroyed, IsDestroyed, IInv, TypeOK
<1>5. signatures' = [signatures EXCEPT ![t] = 1]
  BY <1>2 DEF Spend, SpendToken, IInv, TypeOK
<1> QED BY <1>1, <1>2, <1>3, <1>4, <1>5 DEF Spend, SpendToken, DestroyKey, Current

\* A round of the loop signs with a key that was held and destroys it.
LEMMA SpendStep ==
  ASSUME NEW t \in Tokens, IInv, Spend(t)
  PROVE  IInv'
<1> DEFINE new == [token |-> t, signedWith |-> keys[t], publicKey |-> rowKey[t],
                   destroyedKey |-> keys[t], held |-> t \in held]
<1>0. /\ keys[t] # NoKey /\ publicKeys[t] = keys[t] /\ proofOf[t] = NoKey
      /\ keys' = [keys EXCEPT ![t] = NoKey]
      /\ proofOf' = [proofOf EXCEPT ![t] = keys[t]]
      /\ signatures' = [signatures EXCEPT ![t] = 1]
      /\ UNCHANGED <<rowKey, publicKeys, nextKey, held>>
  BY SpendEffect
<1>l. /\ loop.pc = "loop" /\ t \in loop.todo
      /\ \A x \in loop.todo : Denom[x] <= Denom[t]
      /\ loop' = [loop EXCEPT !.todo = loop.todo \ {t},
                              !.pc = IF loop.todo = {t} THEN "signed" ELSE "loop"]
      /\ Destroyed' = Destroyed \cup {t}
  BY SpendEffect
<1>p. proofs' = proofs \cup {new}
  BY SpendEffect
<1>1. TypeOK'
  <2>1. new \in SpendProof
    BY DEF IInv, TypeOK, SpendProof
  <2>2. loop \in Loop /\ loop.todo \ {t} \in SUBSET Tokens
    BY DEF IInv, TypeOK, Loop
  <2>3. loop' \in Loop
    BY <1>l, <2>2 DEF Loop
  <2>4. proofs' \in SUBSET SpendProof
    BY <1>p, <2>1 DEF IInv, TypeOK
  <2> HIDE DEF new
  <2> QED BY <1>0, <2>3, <2>4 DEF IInv, TypeOK, Key, NoKey
<1>2. KeyInv'
  BY <1>0 DEF IInv, TypeOK, KeyInv
<1>3. MintInv'
  BY <1>0 DEF IInv, TypeOK, MintInv, Key, NoKey
<1>4. LoopInv'
  <2> SUFFICES ASSUME loop'.pc = "loop" PROVE LoopInv'
    BY DEF LoopInv
  <2> DEFINE done == loop.sel \ loop.todo
             done1 == loop'.sel \ loop'.todo
  <2>0. loop \in Loop
    BY DEF IInv, TypeOK
  <2>1. loop.todo # {t} /\ loop.sel \subseteq Tokens
        /\ loop'.todo = loop.todo \ {t} /\ loop'.sel = loop.sel /\ loop'.start = loop.start
    BY <1>l, <2>0 DEF Loop
  <2>2. loop.todo \subseteq loop.sel /\ Destroyed = loop.start \cup done /\ done \cap loop.start = {}
        /\ \A d \in done, x \in loop.todo : Denom[x] <= Denom[d]
    BY <1>l DEF IInv, LoopInv
  <2>3. done1 = done \cup {t}
    BY <1>l, <2>1, <2>2
  <2>4. t \notin loop.start
    BY <1>0, <2>2 DEF Destroyed, IsDestroyed
  <2>5. Destroyed' = loop'.start \cup done1 /\ done1 \cap loop'.start = {}
    BY <1>l, <2>1, <2>2, <2>3, <2>4
  <2>6. \A d \in done1, x \in loop'.todo : Denom[x] <= Denom[d]
    BY <1>l, <2>1, <2>2, <2>3
  <2>7. loop'.todo # {} /\ loop'.todo \subseteq loop'.sel
    BY <1>l, <2>1, <2>2
  <2> QED BY <2>5, <2>6, <2>7 DEF LoopInv
<1>5. ProofsMatchKeys'
  <2>1. keys[t] = rowKey[t] <=> t \in held
    BY <1>0 DEF IInv, MintInv
  <2>2. new.destroyedKey = new.signedWith /\ (new.held => VerifySpendProof(new))
    BY <2>1 DEF VerifySpendProof
  <2> HIDE DEF new
  <2>3. \A p \in proofs : p.destroyedKey = p.signedWith /\ (p.held => VerifySpendProof(p))
    BY DEF IInv, ProofsMatchKeys
  <2> QED BY <1>p, <2>2, <2>3 DEF ProofsMatchKeys, VerifySpendProof
<1> QED BY <1>1, <1>2, <1>3, <1>4, <1>5 DEF IInv

\* The steps that only move the loop, and the loss of everything at a restart.
LEMMA LoopSteps ==
  ASSUME IInv
  PROVE  /\ \A S \in SUBSET Tokens : Start(S) => IInv'
         /\ \A t \in Tokens : KeyDestroyed(t) => IInv'
         /\ Finish => IInv'
         /\ Restart => IInv'
         /\ UNCHANGED vars => IInv'
<1>0. ASSUME loop' \in Loop, UNCHANGED <<rowKey, seState, nextKey, signatures, held, proofs>>
      PROVE  TypeOK' /\ KeyInv' /\ MintInv' /\ ProofsMatchKeys' /\ Destroyed' = Destroyed
  BY <1>0 DEF IInv, TypeOK, KeyInv, MintInv, ProofsMatchKeys, VerifySpendProof, Destroyed,
              IsDestroyed, seState
<1>1. ASSUME NEW S \in SUBSET Tokens, Start(S) PROVE IInv'
  <2>1. loop' = [pc |-> "loop", sel |-> S, todo |-> S, start |-> Destroyed] /\ S # {}
    BY <1>1 DEF Start
  <2>2. loop' \in Loop
    BY <2>1 DEF Loop, Destroyed
  <2>3. TypeOK' /\ KeyInv' /\ MintInv' /\ ProofsMatchKeys' /\ Destroyed' = Destroyed
    BY <1>0, <1>1, <2>2 DEF Start
  <2>4. LoopInv'
    BY <2>1, <2>3 DEF LoopInv
  <2> QED BY <2>3, <2>4 DEF IInv
<1>2. ASSUME NEW t \in Tokens, KeyDestroyed(t) PROVE IInv'
  <2>1. loop' \in Loop /\ loop'.pc # "loop"
    BY <1>2 DEF KeyDestroyed, IInv, TypeOK, Loop
  <2> QED BY <1>0, <1>2, <2>1 DEF KeyDestroyed, IInv, LoopInv
<1>3. ASSUME Finish PROVE IInv'
  <2>1. loop' \in Loop /\ loop'.pc # "loop"
    BY <1>3 DEF Finish, NoLoop, Loop
  <2> QED BY <1>0, <1>3, <2>1 DEF Finish, IInv, LoopInv
<1>4. ASSUME Restart PROVE IInv'
  <2>1. loop' \in Loop /\ loop'.pc # "loop"
    BY <1>4 DEF Restart, NoLoop, Loop
  <2>2. TypeOK'
    BY <1>4, <2>1 DEF Restart, Empty, IInv, TypeOK, Key, NoKey
  <2>3. KeyInv' /\ MintInv'
    BY <1>4 DEF Restart, Empty, IInv, TypeOK, KeyInv, MintInv, Key, NoKey
  <2>4. ProofsMatchKeys' /\ LoopInv'
    BY <1>4, <2>1 DEF Restart, IInv, ProofsMatchKeys, VerifySpendProof, LoopInv
  <2> QED BY <2>2, <2>3, <2>4 DEF IInv
<1>5. ASSUME UNCHANGED vars PROVE IInv'
  <2>1. TypeOK' /\ KeyInv' /\ MintInv' /\ ProofsMatchKeys' /\ Destroyed' = Destroyed
    BY <1>0, <1>5 DEF vars, IInv, TypeOK
  <2> QED BY <1>5, <2>1 DEF vars, IInv, LoopInv
<1> QED BY <1>1, <1>2, <1>3, <1>4, <1>5

\* Every step preserves the invariant.
LEMMA NextInv == IInv /\ [Next]_vars => IInv'
  BY MintSteps, SpendStep, LoopSteps DEF Next

\* The invariant holds in every state of every behaviour.
LEMMA InvHolds == Spec => []IInv
  BY InitInv, NextInv, PTL DEF Spec

-----------------------------------------------------------------------------

\* The dictionaries of the secure element, the loop and the proofs have their
\* types throughout.
THEOREM TypeCorrect == Spec => []TypeOK
<1>1. IInv => TypeOK
  BY DEF IInv
<1> QED BY <1>1, InvHolds, PTL

\* Between two starts of a worker no token signs twice, whatever fails or is tried
\* again: sign refuses, and generate_keypair does not replace, a destroyed key.
THEOREM SignsOnceHolds == Spec => []SignsOnce
<1>1. IInv => SignsOnce
  BY DEF IInv, KeyInv, SignsOnce
<1> QED BY <1>1, InvHolds, PTL

\* spend_token destroys the key it signed with, and verify_spend_proof accepts its
\* proof if the token was minted in this secure element since it started - which
\* no route of the deployed API does (SpendProofsVerify).
THEOREM ProofsMatchKeysHold == Spec => []ProofsMatchKeys
<1>1. IInv => ProofsMatchKeys
  BY DEF IInv
<1> QED BY <1>1, InvHolds, PTL

-----------------------------------------------------------------------------
(* The loop is one step of Signer *)

\* The round that finishes the loop is SignAll; the others are not seen.
LEMMA SpendRefines ==
  ASSUME NEW t \in Tokens, IInv, Spend(t)
  PROVE  Promise!Next \/ UNCHANGED Promise!vars
<1>0. loop.pc = "loop" /\ t \in loop.todo /\ Destroyed' = Destroyed \cup {t}
  BY SpendEffect
<1>1. loop.todo \subseteq loop.sel /\ Destroyed = loop.start \cup (loop.sel \ loop.todo)
      /\ (loop.sel \ loop.todo) \cap loop.start = {} /\ loop.sel \subseteq Tokens
  BY <1>0 DEF IInv, LoopInv, TypeOK, Loop
<1>2. CASE loop.todo = {t}
  <2>1. loop'.pc = "signed"
    BY <1>2, SpendEffect DEF IInv, TypeOK, Loop
  <2>2. t \notin loop.start
    BY <1>1, SpendEffect DEF Destroyed, IsDestroyed
  <2>3. Destroyed' = loop.start \cup loop.sel /\ loop.sel \cap loop.start = {}
    BY <1>0, <1>1, <1>2, <2>2
  <2>4. Promise!SignAll(loop.sel)
    BY <1>0, <2>1, <2>3 DEF Promise!SignAll
  <2> QED BY <1>1, <2>4 DEF Promise!Next
<1>3. CASE loop.todo # {t}
  <2>1. loop'.pc = "loop" /\ loop'.start = loop.start
    BY <1>3, SpendEffect DEF IInv, TypeOK, Loop
  <2> QED BY <1>0, <2>1 DEF Promise!vars
<1> QED BY <1>2, <1>3

\* A destroyed key ends the loop as SignSome: what was signed before it is a prefix.
LEMMA FailureRefines ==
  ASSUME NEW t \in Tokens, IInv, KeyDestroyed(t)
  PROVE  Promise!Next
<1> DEFINE done == loop.sel \ loop.todo
<1>0. loop.pc = "loop" /\ t \in loop.todo /\ (\A x \in loop.todo : Denom[x] <= Denom[t])
      /\ t \in Destroyed /\ Destroyed' = Destroyed /\ loop'.pc = "failed"
  BY DEF KeyDestroyed, Current, MayGenerate, Destroyed, IsDestroyed, seState, IInv, TypeOK, Loop
<1>1. loop.todo \subseteq loop.sel /\ Destroyed = loop.start \cup done
      /\ done \cap loop.start = {} /\ loop.sel \subseteq Tokens
      /\ (\A d \in done, x \in loop.todo : Denom[x] <= Denom[d])
  BY <1>0 DEF IInv, LoopInv, TypeOK, Loop
<1>2. t \in loop.start /\ t \in loop.sel
  BY <1>0, <1>1
<1>3. done \in Promise!PrefixesBefore(loop.sel, loop.start)
  <2>1. \A p \in done : Denom[p] >= Denom[t]
    BY <1>0, <1>1
  <2>2. \A x \in (loop.sel \ done) \ {t} : Denom[x] <= Denom[t]
    BY <1>0, <1>1
  <2> QED BY <1>1, <1>2, <2>1, <2>2 DEF Promise!PrefixesBefore
<1>4. Promise!SignSome(loop.sel)
  BY <1>0, <1>1, <1>2, <1>3 DEF Promise!SignSome
<1> QED BY <1>1, <1>4 DEF Promise!Next

\* The signing loop of an offline payment is atomic to the rest of the worker:
\* Payments may treat it as one step (PaySign, PaySignFails).
THEOREM ImplementsSignerHolds == Spec => ImplementsSigner
<1>1. Init => Promise!Init
  BY DEF Init, Promise!Init, NoLoop, Destroyed, IsDestroyed, NoKey
<1>2. IInv /\ [Next]_vars => [Promise!Next]_(Promise!vars)
  <2> SUFFICES ASSUME IInv, [Next]_vars PROVE Promise!Next \/ UNCHANGED Promise!vars
    OBVIOUS
  <2>1. ASSUME NEW t \in Tokens, MintElsewhere(t) \/ MintHere(t) \/ EnsureKey(t)
        PROVE  UNCHANGED Promise!vars
    BY <2>1 DEF MintElsewhere, MintHere, EnsureKey, GenerateKeypair, seState, Promise!vars,
                Destroyed, IsDestroyed
  <2>2. ASSUME NEW S \in SUBSET Tokens, Start(S) PROVE UNCHANGED Promise!vars
    BY <2>2 DEF Start, Promise!vars, Destroyed, IsDestroyed, seState
  <2>3. ASSUME Finish PROVE Promise!Next
    <3>1. Destroyed' = Destroyed
      BY <2>3 DEF Finish, Destroyed, IsDestroyed, seState
    <3> QED BY <2>3, <3>1 DEF Finish, NoLoop, Promise!Next, Promise!Finish
  <2>4. ASSUME Restart PROVE Promise!Next
    <3>1. Destroyed' = {} /\ loop'.pc = "idle"
      BY <2>4 DEF Restart, Empty, Destroyed, IsDestroyed, NoLoop
    <3> QED BY <3>1 DEF Promise!Next, Promise!Restart
  <2>5. ASSUME UNCHANGED vars PROVE UNCHANGED Promise!vars
    BY <2>5 DEF vars, seState, Promise!vars, Destroyed, IsDestroyed
  <2> QED BY <2>1, <2>2, <2>3, <2>4, <2>5, SpendRefines, FailureRefines DEF Next
<1> QED BY <1>1, <1>2, InvHolds, PTL DEF Spec, ImplementsSigner, Promise!Spec
=============================================================================
