------------------------------ MODULE MCShamir ------------------------------
(* Instances of Shamir for TLC. *)
EXTENDS Shamir

\* Every one-byte secret with the least threshold; the default 3 of 5; as many
\* shares as the threshold; more shares than verify_shares compares; two bytes.
MCSplits ==
    {[secret |-> <<b>>, k |-> 2, n |-> 3] : b \in Byte}
    \cup {[secret |-> <<b>>, k |-> 3, n |-> 5] : b \in {0, 83}}
    \cup {[secret |-> <<83, 202>>, k |-> 2, n |-> 4],
          [secret |-> <<254>>, k |-> 2, n |-> 6],
          [secret |-> <<7>>, k |-> 4, n |-> 4]}
MCCoeffs == {0, 246}
MCDamages == {1, 128}

\* All draws are tried for a guess: 256 for threshold 2, 65536 for threshold 3.
MCGuesses == [t \in 2..255 |-> IF t = 2 THEN {0, 1, 83, 255} ELSE IF t = 3 THEN {202} ELSE {}]
=============================================================================
