-------------------------- MODULE MCCoinSelection ---------------------------
(* Instances of CoinSelection for TLC. *)
EXTENDS CoinSelection

CONSTANTS t5, t10, t20, t20b, t20c, t50

MCDenom == (t5 :> 500 @@ t10 :> 1000 @@ t20 :> 2000 @@ t20b :> 2000
             @@ t20c :> 2000 @@ t50 :> 5000)
=============================================================================
