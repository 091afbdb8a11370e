--------------------------- MODULE MCIdempotency ----------------------------
(* An instance of Idempotency for TLC: a request in each of two workers, a  *)
(* payment and a top-up sent with the same key.                             *)
EXTENDS Idempotency, TLC

CONSTANTS r1, r2, w1, w2, k1, payment, topup

MCWorkerOf == (r1 :> w1 @@ r2 :> w2)
MCKeyOf == [i \in Intents |-> k1]
=============================================================================
