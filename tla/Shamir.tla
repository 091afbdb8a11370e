------------------------------- MODULE Shamir -------------------------------
(***************************************************************************)
(* Backup of a wallet's master seed (app/crypto/shamir.py): k-of-n secret  *)
(* sharing over GF(2^8), byte by byte.                                     *)
(*                                                                         *)
(* create_wallet splits the seed; the rest of a backup's life - shares     *)
(* typed in wrongly, a recovery, a check of the shares - follows the       *)
(* functions of the module and its tests.                                  *)
(***************************************************************************)
EXTENDS Integers, FiniteSets, FiniteSetsExt, Sequences

CONSTANTS
    Splits,   \* what is split, and how: secret (a sequence of bytes), k and n
    Coeffs,   \* bytes the random generator may draw
    Damages,  \* differences a byte of a share may come back with
    Guesses   \* for each threshold, what a byte of the secret is guessed to be

Byte == 0..255

ASSUME ShamirAssumption ==
    /\ Coeffs \subseteq Byte
    /\ Damages \subseteq Byte \ {0}
    /\ Guesses \in [2..255 -> SUBSET Byte]
    /\ \A s \in Splits : /\ s \in [secret : Seq(Byte), k : 2..255, n : 2..255]
                         /\ s.k <= s.n /\ s.secret # <<>>

\* Exclusive or of two bytes, bit by bit.
Xor(a, b) ==
    LET bit(p) == p * ((a \div p + b \div p) % 2)
    IN  bit(1) + bit(2) + bit(4) + bit(8) + bit(16) + bit(32) + bit(64) + bit(128)

\* It is tabulated once.
AddTable == [a \in Byte |-> [b \in Byte |-> Xor(a, b)]]
GfAdd(a, b) == AddTable[a][b]

-----------------------------------------------------------------------------
(* Field arithmetic by exponent and logarithm tables *)

\* Shift left; the bit that falls out is replaced by 0x1B.
Times2(x) == GfAdd((2 * x) % 256, IF x >= 128 THEN 27 ELSE 0)

\* Generator 2, whose order is 51.
Mut_Times3 == [x \in Byte |-> Times2(x)]

\* Multiplication by the generator 3.
Times3 == [x \in Byte |-> GfAdd(Times2(x), x)]

\* The powers of the generator.
Powers[i \in 0..254] == IF i = 0 THEN 1 ELSE Times3[Powers[i - 1]]

\* They are entered twice.
ExpTable == [i \in 0..511 |-> Powers[i % 255]]

\* The last exponent that was entered for x; 0 where none was.
LogTable ==
    LET entered(x) == {i \in 0..254 : ExpTable[i] = x}
    IN  [x \in Byte |-> IF entered(x) = {} THEN 0 ELSE Max(entered(x))]

GfMul(a, b) ==
    IF a = 0 \/ b = 0 THEN 0
    ELSE ExpTable[(LogTable[a] + LogTable[b]) % 255]

\* Only called with b # 0 (ZeroDivisionError otherwise).
GfDiv(a, b) ==
    IF a = 0 THEN 0 ELSE ExpTable[(LogTable[a] - LogTable[b]) % 255]

GfInv(a) == ExpTable[255 - LogTable[a]]

-----------------------------------------------------------------------------
(* Shares *)

\* The sum of xs.
Sum(xs) ==
    LET sum[i \in 0..Len(xs)] ==
            IF i = 0 THEN 0 ELSE GfAdd(sum[i - 1], xs[i])
    IN  sum[Len(xs)]

\* The product of xs over the positions in S, the others are skipped.
Product(xs, S) ==
    LET product[i \in 0..Len(xs)] ==
            IF i = 0 THEN 1
            ELSE IF i \in S THEN GfMul(product[i - 1], xs[i]) ELSE product[i - 1]
    IN  product[Len(xs)]

Power(x, d) == Product([j \in 1..d |-> x], 1..d)

\* The power of x is advanced before it is used.
Mut_EvalAt(coeffs, x) == Sum([i \in 1..Len(coeffs) |-> GfMul(coeffs[i], Power(x, i))])

\* The value at x of the polynomial with these coefficients, constant first.
EvalAt(coeffs, x) == Sum([i \in 1..Len(coeffs) |-> GfMul(coeffs[i], Power(x, i - 1))])

\* The value at 0 of the polynomial through the points (xs[i], ys[i]).
LagrangeInterpolate(xs, ys) ==
    LET basis(i) ==
            GfDiv(Product(xs, DOMAIN xs \ {i}),
                  Product([j \in DOMAIN xs |-> GfAdd(xs[i], xs[j])], DOMAIN xs \ {i}))
    IN  Sum([i \in DOMAIN xs |-> GfMul(ys[i], basis(i))])

\* Indices start at 0, where the polynomial is the secret.
Mut_SplitShares(secret, coeffs, n) ==
    [i \in 1..n |->
        [x |-> i - 1,
         y |-> [b \in DOMAIN secret |-> EvalAt(<<secret[b]>> \o coeffs[b], i - 1)]]]

\* One polynomial per byte of the secret, evaluated at 1, ..., n.
SplitShares(secret, coeffs, n) ==
    [i \in 1..n |->
        [x |-> i,
         y |-> [b \in DOMAIN secret |-> EvalAt(<<secret[b]>> \o coeffs[b], i)]]]

\* What a call ends with: an exception, or the bytes it returns.
ValueError == [error |-> TRUE, bytes |-> <<>>]
Returns(bytes) == [error |-> FALSE, bytes |-> bytes]

\* The shares are not counted against k, which reconstruct does not know.
Reconstruct(shares) ==
    LET same == \A i, j \in DOMAIN shares : Len(shares[i].y) = Len(shares[j].y)
        unique == \A i, j \in DOMAIN shares : shares[i].x = shares[j].x => i = j
        xs == [i \in DOMAIN shares |-> shares[i].x]
        ys(b) == [i \in DOMAIN shares |-> shares[i].y[b]]
    IN  IF Len(shares) < 2 \/ ~same \/ ~unique THEN ValueError
        ELSE Returns([b \in DOMAIN shares[1].y |-> LagrangeInterpolate(xs, ys(b))])

\* Only the first window is looked at.
Mut_Windows(len, k) == {0}

\* The windows of k shares that are compared: the first and up to three more.
Windows(len, k) == 0..Min({len - k, 3})

VerifyShares(shares, k) ==
    LET of(i) == Reconstruct(SubSeq(shares, i + 1, i + k))
        odd == {i \in Windows(Len(shares), k) : of(i) # of(0)}
        last == IF odd = {} THEN 0 ELSE Min(odd)
    IN  IF Len(shares) >= k /\ (of(0).error \/ of(last).error) THEN "raised"
        ELSE IF Len(shares) >= k /\ odd = {} THEN "accepted" ELSE "rejected"

-----------------------------------------------------------------------------
(* The life of a backup *)

VARIABLES
    secret,   \* the seed, <<>> before it is split
    k,        \* threshold
    shares,   \* the shares as they are held
    damaged,  \* the share that is not as it was handed out (0: none), and how
    picked,   \* indices of the shares used for a recovery, {} before one
    result,   \* what the recovery returned
    verdict   \* what verify_shares returned, "none" before it is called

vars == <<secret, k, shares, damaged, picked, result, verdict>>

Init ==
    /\ secret = <<>> /\ k = 0 /\ shares = <<>> /\ damaged = [at |-> 0, how |-> "none"]
    /\ picked = {} /\ result = ValueError /\ verdict = "none"

Split(s) ==
    /\ secret = <<>>
    /\ secret' = s.secret
    /\ k' = s.k
    /\ \E coeffs \in [1..Len(s.secret) -> [1..(s.k - 1) -> Coeffs]] :
         shares' = SplitShares(s.secret, coeffs, s.n)
    /\ UNCHANGED <<damaged, picked, result, verdict>>

\* A share comes back with a wrong byte, a byte short, or with the index of
\* another share.
Damage(i) ==
    /\ damaged.at = 0 /\ picked = {} /\ verdict = "none"
    /\ \/ /\ \E d \in Damages : shares' = [shares EXCEPT ![i].y[1] = GfAdd(@, d)]
          /\ damaged' = [at |-> i, how |-> "byte"]
       \/ /\ shares' = [shares EXCEPT ![i].y = Tail(@)]
          /\ damaged' = [at |-> i, how |-> "short"]
       \/ /\ \E j \in DOMAIN shares \ {i} : shares' = [shares EXCEPT ![i].x = shares[j].x]
          /\ damaged' = [at |-> i, how |-> "index"]
    /\ UNCHANGED <<secret, k, picked, result, verdict>>

\* The shares with these indices, in ascending order.
Held(S) ==
    [i \in 1..Cardinality(S) |->
        shares[CHOOSE j \in S : Cardinality({m \in S : m <= j}) = i]]

Recover(S) ==
    /\ picked = {} /\ verdict = "none"
    /\ picked' = S
    /\ result' = Reconstruct(Held(S))
    /\ UNCHANGED <<secret, k, shares, damaged, verdict>>

Verify ==
    /\ secret # <<>> /\ picked = {} /\ verdict = "none"
    /\ verdict' = VerifyShares(shares, k)
    /\ UNCHANGED <<secret, k, shares, damaged, picked, result>>

Next ==
    \/ \E s \in Splits : Split(s)
    \/ \E i \in DOMAIN shares : Damage(i)
    \/ \E S \in (SUBSET DOMAIN shares) \ {{}} : Recover(S)
    \/ Verify

Spec == Init /\ [][Next]_vars

-----------------------------------------------------------------------------

\* reconstruct returns the seed from any k or more shares as they were handed
\* out, whichever they are and whatever coefficients split drew; when one of
\* them has a wrong byte or is short it does not return the seed.
RecoversSeed ==
    picked # {} /\ Cardinality(picked) >= k =>
        /\ damaged.at \notin picked => result = Returns(secret)
        /\ damaged.at \in picked /\ damaged.how # "index" => result # Returns(secret)

\* What randbelow(256) may have drawn for byte b, given the shares that were picked,
\* if that byte of the secret is v.
Explanations(b, v) ==
    {c \in [1..(k - 1) -> Byte] :
        \A i \in picked :
            SplitShares(<<v>>, <<c>>, Len(shares))[i] = [shares[i] EXCEPT !.y = <<@[b]>>]}

\* "Fewer than k shares reveal zero information about the secret": whatever a byte of
\* it is guessed to be, k - 1 shares are explained by exactly one draw of coefficients.
\* The draws being equally likely, the shares are as likely under one secret as under
\* any other.
BelowThresholdHides ==
    Cardinality(picked) = k - 1 /\ damaged.at = 0 =>
        \A b \in DOMAIN secret : \A v \in Guesses[k] : Cardinality(Explanations(b, v)) = 1

\* verify_shares accepts untouched shares, and never a share with a wrong or a
\* missing byte when there is a further share to compare it with; its windows
\* reach k + 3 shares.
VerifyFindsDamage ==
    verdict # "none" =>
        /\ damaged.at = 0 => verdict = "accepted"
        /\ damaged.how \in {"byte", "short"} /\ Len(shares) > k /\ damaged.at <= k + 3
             => verdict # "accepted"

\* The product of polynomials over GF(2) modulo x^8 + x^4 + x^3 + x + 1.
PolyMul(a, b) ==
    LET weight == <<1, 2, 4, 8, 16, 32, 64, 128>>
        shifted[i \in 1..8] == IF i = 1 THEN a ELSE Times2(shifted[i - 1])
    IN  Sum([i \in 1..8 |-> IF (b \div weight[i]) % 2 = 1 THEN shifted[i] ELSE 0])

\* The tables compute in the field: _gf_mul is the product of polynomials, and
\* _gf_div and _gf_inv undo it, at every byte and at the ends of the tables.
TablesAreField ==
    secret # <<>> /\ damaged.at = 0 /\ picked = {} /\ verdict = "none" =>
        LET a == secret[1]
        IN  \A b \in Byte :
              /\ GfMul(a, b) = PolyMul(a, b)
              /\ b # 0 => /\ GfDiv(GfMul(a, b), b) = a
                          /\ GfMul(a, GfInv(b)) = GfDiv(a, b)
=============================================================================
