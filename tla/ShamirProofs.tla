---------------------------- MODULE ShamirProofs ----------------------------
(***************************************************************************)
(* Proofs that the backup of a seed keeps its promises for every secret,   *)
(* threshold, number of shares, choice of coefficients and damage.         *)
(*                                                                         *)
(* The tables are those of a field: addition is bitwise, the first 255     *)
(* powers of the generator 3 differ, so that multiplication is addition of *)
(* exponents, and it distributes because multiplication by 3 does.  In a   *)
(* field the weights of any k indices recover the constant of a polynomial *)
(* below degree k (Moments, by adding an index at a time), which gives     *)
(* what reconstruct and verify_shares return.  The state machine adds      *)
(* little: the invariant says that the shares are those of one split, up   *)
(* to one damage, and that the outcomes are those of the shares.           *)
(***************************************************************************)
EXTENDS Shamir, FiniteSetTheorems, SequenceTheorems,
        WellFoundedInduction, TLAPS

-----------------------------------------------------------------------------
(* Induction and recursion over an initial segment of the naturals *)

\* A non-empty set of naturals has a least element.
LEMMA LeastNatural ==
    ASSUME NEW S \in SUBSET Nat, S # {}
    PROVE  \E m \in S : \A j \in S : m <= j
<1>1. PICK m \in S : \A j \in S : ~ (<<j, m>> \in OpToRel(<, Nat))
  BY NatLessThanWellFounded, WFMin, Zenon
<1>2. \A j \in S : ~ (j < m)
  BY <1>1 DEF OpToRel
<1> QED
  BY <1>2

\* Induction up to n, for a set instead of a predicate.
LEMMA UpTo ==
    ASSUME NEW n \in Nat, NEW S, 0 \in S, \A i \in 1..n : i - 1 \in S => i \in S
    PROVE  \A i \in 0..n : i \in S
<1> DEFINE C == {i \in 0..n : i \notin S}
<1> SUFFICES ASSUME C # {} PROVE FALSE
  OBVIOUS
<1>1. PICK m \in C : \A j \in C : m <= j
  <2>1. C \in SUBSET Nat
    OBVIOUS
  <2> HIDE DEF C
  <2> QED
    BY <2>1, LeastNatural
<1>2. m \in 1..n
  BY <1>1
<1>3. m - 1 \in 0..n /\ m - 1 \notin C
  BY <1>1, <1>2
<1> QED
  BY <1>1, <1>2, <1>3

\* r is the run of a loop that starts at b and takes step[i] in its i-th round.
IsRun(r, n, b, step) ==
    r[0] = b /\ \A i \in 1..n : r[i] = step[i][r[i - 1]]

\* A loop over values of T has a run.
LEMMA RunExists ==
    ASSUME NEW n \in Nat, NEW T, NEW b \in T, NEW step \in [1..n -> [T -> T]]
    PROVE  \E r \in [0..n -> T] : IsRun(r, n, b, step)
<1> DEFINE S == {m \in 0..n : \E r \in [0..m -> T] : IsRun(r, m, b, step)}
<1>1. 0 \in S
  <2> DEFINE r == [i \in 0..0 |-> b]
  <2>1. r \in [0..0 -> T] /\ IsRun(r, 0, b, step)
    BY DEF IsRun
  <2> QED
    BY <2>1
<1>2. ASSUME NEW m \in 1..n, m - 1 \in S PROVE m \in S
  <2>1. PICK r \in [0..(m - 1) -> T] : IsRun(r, m - 1, b, step)
    BY <1>2
  <2> DEFINE q == [i \in 0..m |-> IF i = m THEN step[m][r[m - 1]] ELSE r[i]]
  <2>2. r[m - 1] \in T /\ step[m] \in [T -> T]
    OBVIOUS
  <2>3. \A i \in 0..m : i # m => i \in 0..(m - 1)
    OBVIOUS
  <2>4. q \in [0..m -> T]
    BY <2>2, <2>3
  <2>5. q[0] = b /\ q[m] = step[m][q[m - 1]]
    BY <2>1 DEF IsRun
  <2>6. ASSUME NEW i \in 1..m, i # m PROVE q[i] = step[i][q[i - 1]]
    <3>1. i \in 1..(m - 1) /\ q[i] = r[i] /\ q[i - 1] = r[i - 1]
      BY <2>6
    <3> QED
      BY <2>1, <3>1 DEF IsRun
  <2>7. IsRun(q, m, b, step)
    BY <2>5, <2>6 DEF IsRun
  <2> QED
    BY <2>4, <2>7
<1>3. \A i \in 0..n : i \in S
  <2> HIDE DEF S
  <2> QED
    BY <1>1, <1>2, UpTo
<1> QED
  BY <1>3

-----------------------------------------------------------------------------
(* Bytes under exclusive or *)

BitSeqs == [1..8 -> {0, 1}]

\* The byte a has the bits c, the least significant one first.
HasBits(a, c) ==
    a = c[1] + 2 * c[2] + 4 * c[3] + 8 * c[4] + 16 * c[5] + 32 * c[6] + 64 * c[7] + 128 * c[8]

XorBits(c, d) == [i \in 1..8 |-> (c[i] + d[i]) % 2]

\* Every bit can be read off by shifting.
LEMMA ShiftedBits ==
    ASSUME NEW a, NEW c \in BitSeqs, HasBits(a, c)
    PROVE  /\ a \in Byte
           /\ \A i \in 1..8 : c[i] \in {0, 1}
           /\ (a \div 1) % 2 = c[1] /\ (a \div 2) % 2 = c[2]
           /\ (a \div 4) % 2 = c[3] /\ (a \div 8) % 2 = c[4]
           /\ (a \div 16) % 2 = c[5] /\ (a \div 32) % 2 = c[6]
           /\ (a \div 64) % 2 = c[7] /\ (a \div 128) % 2 = c[8]
<1>1. /\ c[1] \in {0, 1} /\ c[2] \in {0, 1} /\ c[3] \in {0, 1} /\ c[4] \in {0, 1}
      /\ c[5] \in {0, 1} /\ c[6] \in {0, 1} /\ c[7] \in {0, 1} /\ c[8] \in {0, 1}
      /\ \A i \in 1..8 : c[i] \in {0, 1}
  BY DEF BitSeqs
<1>2. a = c[1] + 2 * c[2] + 4 * c[3] + 8 * c[4] + 16 * c[5] + 32 * c[6] + 64 * c[7] + 128 * c[8]
  BY DEF HasBits
<1>3. /\ a \in Byte
      /\ (a \div 1) % 2 = c[1] /\ (a \div 2) % 2 = c[2]
      /\ (a \div 4) % 2 = c[3] /\ (a \div 8) % 2 = c[4]
      /\ (a \div 16) % 2 = c[5] /\ (a \div 32) % 2 = c[6]
      /\ (a \div 64) % 2 = c[7] /\ (a \div 128) % 2 = c[8]
  <2>1. PICK c1 \in {0, 1}, c2 \in {0, 1}, c3 \in {0, 1}, c4 \in {0, 1}, c5 \in {0, 1},
             c6 \in {0, 1}, c7 \in {0, 1}, c8 \in {0, 1} :
               /\ c1 = c[1] /\ c2 = c[2] /\ c3 = c[3] /\ c4 = c[4]
               /\ c5 = c[5] /\ c6 = c[6] /\ c7 = c[7] /\ c8 = c[8]
    BY <1>1
  <2>2. a = c1 + 2 * c2 + 4 * c3 + 8 * c4 + 16 * c5 + 32 * c6 + 64 * c7 + 128 * c8
    BY <1>2, <2>1
  <2>3. /\ a \in Byte
        /\ (a \div 1) % 2 = c1 /\ (a \div 2) % 2 = c2
        /\ (a \div 4) % 2 = c3 /\ (a \div 8) % 2 = c4
        /\ (a \div 16) % 2 = c5 /\ (a \div 32) % 2 = c6
        /\ (a \div 64) % 2 = c7 /\ (a \div 128) % 2 = c8
    BY ONLY <2>2, c1 \in {0, 1}, c2 \in {0, 1}, c3 \in {0, 1}, c4 \in {0, 1}, c5 \in {0, 1},
            c6 \in {0, 1}, c7 \in {0, 1}, c8 \in {0, 1} DEF Byte
  <2> QED
    BY <2>1, <2>3
<1> QED
  BY <1>1, <1>3

\* The parity of a sum is that of the parities.
LEMMA SumParity ==
    ASSUME NEW a \in Nat, NEW b \in Nat, NEW p \in 1..128, NEW u, NEW v,
           (a \div p) % 2 = u, (b \div p) % 2 = v
    PROVE  (a \div p + b \div p) % 2 = (u + v) % 2
<1>1. PICK x, y : x = a \div p /\ y = b \div p /\ x \in Nat /\ y \in Nat
  OBVIOUS
<1>2. (x + y) % 2 = ((x % 2) + (y % 2)) % 2
  BY <1>1
<1> QED
  BY <1>1, <1>2

\* Every byte has bits.
LEMMA BitsExist ==
    ASSUME NEW a \in Byte
    PROVE  \E c \in BitSeqs : HasBits(a, c)
<1> DEFINE c == <<a % 2, (a \div 2) % 2, (a \div 4) % 2, (a \div 8) % 2, (a \div 16) % 2,
                  (a \div 32) % 2, (a \div 64) % 2, (a \div 128) % 2>>
<1>1. c \in BitSeqs
  BY DEF BitSeqs, Byte
<1>2. HasBits(a, c)
  BY DEF HasBits, Byte
<1> QED
  BY <1>1, <1>2

\* The bits of Xor are the sums of the bits modulo 2.
LEMMA BitsOfXor ==
    ASSUME NEW a, NEW b, NEW c \in BitSeqs, NEW d \in BitSeqs, HasBits(a, c), HasBits(b, d)
    PROVE  /\ XorBits(c, d) \in BitSeqs
           /\ HasBits(Xor(a, b), XorBits(c, d))
<1>1. \A i \in 1..8 : c[i] \in {0, 1} /\ d[i] \in {0, 1}
  BY DEF BitSeqs
<1>2. XorBits(c, d) \in BitSeqs
  BY <1>1 DEF BitSeqs, XorBits
<1>3. /\ (a \div 1 + b \div 1) % 2 = (c[1] + d[1]) % 2
      /\ (a \div 2 + b \div 2) % 2 = (c[2] + d[2]) % 2
      /\ (a \div 4 + b \div 4) % 2 = (c[3] + d[3]) % 2
      /\ (a \div 8 + b \div 8) % 2 = (c[4] + d[4]) % 2
      /\ (a \div 16 + b \div 16) % 2 = (c[5] + d[5]) % 2
      /\ (a \div 32 + b \div 32) % 2 = (c[6] + d[6]) % 2
      /\ (a \div 64 + b \div 64) % 2 = (c[7] + d[7]) % 2
      /\ (a \div 128 + b \div 128) % 2 = (c[8] + d[8]) % 2
  <2>1. a \in Nat /\ b \in Nat
    BY ShiftedBits DEF Byte
  <2>2. /\ (a \div 1) % 2 = c[1] /\ (a \div 2) % 2 = c[2]
        /\ (a \div 4) % 2 = c[3] /\ (a \div 8) % 2 = c[4]
        /\ (a \div 16) % 2 = c[5] /\ (a \div 32) % 2 = c[6]
        /\ (a \div 64) % 2 = c[7] /\ (a \div 128) % 2 = c[8]
    BY ShiftedBits
  <2>3. /\ (b \div 1) % 2 = d[1] /\ (b \div 2) % 2 = d[2]
        /\ (b \div 4) % 2 = d[3] /\ (b \div 8) % 2 = d[4]
        /\ (b \div 16) % 2 = d[5] /\ (b \div 32) % 2 = d[6]
        /\ (b \div 64) % 2 = d[7] /\ (b \div 128) % 2 = d[8]
    BY ShiftedBits
  <2>4. (a \div 1 + b \div 1) % 2 = (c[1] + d[1]) % 2
    BY <2>1, <2>2, <2>3, SumParity
  <2>5. (a \div 2 + b \div 2) % 2 = (c[2] + d[2]) % 2
    BY <2>1, <2>2, <2>3, SumParity
  <2>6. (a \div 4 + b \div 4) % 2 = (c[3] + d[3]) % 2
    BY <2>1, <2>2, <2>3, SumParity
  <2>7. (a \div 8 + b \div 8) % 2 = (c[4] + d[4]) % 2
    BY <2>1, <2>2, <2>3, SumParity
  <2>8. (a \div 16 + b \div 16) % 2 = (c[5] + d[5]) % 2
    BY <2>1, <2>2, <2>3, SumParity
  <2>9. (a \div 32 + b \div 32) % 2 = (c[6] + d[6]) % 2
    BY <2>1, <2>2, <2>3, SumParity
  <2>10. (a \div 64 + b \div 64) % 2 = (c[7] + d[7]) % 2
    BY <2>1, <2>2, <2>3, SumParity
  <2>11. (a \div 128 + b \div 128) % 2 = (c[8] + d[8]) % 2
    BY <2>1, <2>2, <2>3, SumParity
  <2> QED
    BY <2>4, <2>5, <2>6, <2>7, <2>8, <2>9, <2>10, <2>11
<1>4. HasBits(Xor(a, b), XorBits(c, d))
  BY <1>3 DEF HasBits, XorBits, Xor
<1> QED
  BY <1>2, <1>4

\* The table of sums holds the exclusive or.
LEMMA AddType ==
    ASSUME NEW a \in Byte, NEW b \in Byte
    PROVE  GfAdd(a, b) \in Byte /\ GfAdd(a, b) = Xor(a, b)
<1>1. GfAdd(a, b) = Xor(a, b)
  BY DEF GfAdd, AddTable
<1>2. PICK c \in BitSeqs, d \in BitSeqs : HasBits(a, c) /\ HasBits(b, d)
  BY BitsExist
<1>3. Xor(a, b) \in Byte
  BY <1>2, BitsOfXor, ShiftedBits
<1> QED
  BY <1>1, <1>3

\* So do the bits of a sum in the table.
LEMMA AddBits ==
    ASSUME NEW a, NEW b, NEW c \in BitSeqs, NEW d \in BitSeqs, HasBits(a, c), HasBits(b, d)
    PROVE  XorBits(c, d) \in BitSeqs /\ HasBits(GfAdd(a, b), XorBits(c, d))
  BY BitsOfXor, ShiftedBits, AddType

\* A byte is determined by its bits.
LEMMA SameBits ==
    ASSUME NEW a, NEW b, NEW c, HasBits(a, c), HasBits(b, c)
    PROVE  a = b
  BY DEF HasBits

\* Addition commutes.
LEMMA AddCommutes ==
    ASSUME NEW a \in Byte, NEW b \in Byte
    PROVE  GfAdd(a, b) = GfAdd(b, a)
<1>1. PICK c \in BitSeqs, d \in BitSeqs : HasBits(a, c) /\ HasBits(b, d)
  BY BitsExist
<1>2. XorBits(c, d) = XorBits(d, c)
  BY DEF XorBits, BitSeqs
<1> QED
  BY <1>1, <1>2, AddBits, SameBits

\* Addition is associative.
LEMMA AddAssociates ==
    ASSUME NEW a \in Byte, NEW b \in Byte, NEW c \in Byte
    PROVE  GfAdd(GfAdd(a, b), c) = GfAdd(a, GfAdd(b, c))
<1>1. PICK s \in BitSeqs, t \in BitSeqs, u \in BitSeqs :
         HasBits(a, s) /\ HasBits(b, t) /\ HasBits(c, u)
  BY BitsExist
<1>2. XorBits(XorBits(s, t), u) = XorBits(s, XorBits(t, u))
  <2>1. PICK v, w : v = XorBits(s, t) /\ w = XorBits(t, u)
    OBVIOUS
  <2>3. \A i \in 1..8 : v[i] = (s[i] + t[i]) % 2 /\ w[i] = (t[i] + u[i]) % 2
    BY <2>1 DEF XorBits
  <2>4. ASSUME NEW i \in 1..8
        PROVE  (v[i] + u[i]) % 2 = (s[i] + w[i]) % 2
    <3>1. s[i] \in {0, 1} /\ t[i] \in {0, 1} /\ u[i] \in {0, 1}
      BY DEF BitSeqs
    <3>2. v[i] = (s[i] + t[i]) % 2 /\ w[i] = (t[i] + u[i]) % 2
      BY <2>3
    <3> QED
      BY <3>1, <3>2
  <2>5. XorBits(v, u) = XorBits(s, w)
    BY <2>4 DEF XorBits
  <2> QED
    BY <2>1, <2>5
<1>3. /\ XorBits(s, t) \in BitSeqs /\ HasBits(GfAdd(a, b), XorBits(s, t))
      /\ XorBits(t, u) \in BitSeqs /\ HasBits(GfAdd(b, c), XorBits(t, u))
  BY <1>1, AddBits
<1>4. /\ HasBits(GfAdd(GfAdd(a, b), c), XorBits(XorBits(s, t), u))
      /\ HasBits(GfAdd(a, GfAdd(b, c)), XorBits(s, XorBits(t, u)))
  BY <1>1, <1>3, AddBits
<1> QED
  BY <1>2, <1>4, SameBits

\* 0 is neutral, and every byte is its own inverse.
LEMMA AddZero ==
    ASSUME NEW a \in Byte
    PROVE  GfAdd(a, 0) = a /\ GfAdd(0, a) = a /\ GfAdd(a, a) = 0
<1> DEFINE z == [i \in 1..8 |-> 0]
<1>1. PICK c \in BitSeqs : HasBits(a, c)
  BY BitsExist
<1>2. z \in BitSeqs /\ HasBits(0, z)
  BY DEF BitSeqs, HasBits
<1>3. \A i \in 1..8 : c[i] \in {0, 1}
  BY DEF BitSeqs
<1>4. c = [i \in 1..8 |-> c[i]]
  BY DEF BitSeqs
<1>5. XorBits(c, z) = c /\ XorBits(z, c) = c
  BY <1>3, <1>4 DEF XorBits
<1>6. XorBits(c, c) = z
  BY <1>3 DEF XorBits
<1> HIDE DEF z
<1> QED
  BY <1>1, <1>2, <1>5, <1>6, AddBits, SameBits

\* A summand can be taken away again.
LEMMA AddCancels ==
    ASSUME NEW a \in Byte, NEW b \in Byte
    PROVE  /\ GfAdd(GfAdd(a, b), b) = a
           /\ GfAdd(a, b) = 0 => a = b
<1>1. GfAdd(GfAdd(a, b), b) = a
  BY AddAssociates, AddZero
<1> QED
  BY <1>1, AddZero

\* The order in which four bytes are added is irrelevant.
LEMMA AddSwaps ==
    ASSUME NEW a \in Byte, NEW b \in Byte, NEW c \in Byte, NEW d \in Byte
    PROVE  GfAdd(GfAdd(a, b), GfAdd(c, d)) = GfAdd(GfAdd(a, c), GfAdd(b, d))
<1>1. /\ GfAdd(a, b) \in Byte /\ GfAdd(c, d) \in Byte /\ GfAdd(a, c) \in Byte
      /\ GfAdd(b, d) \in Byte /\ GfAdd(b, c) \in Byte
  BY AddType
<1>2. GfAdd(GfAdd(a, b), GfAdd(c, d)) = GfAdd(a, GfAdd(GfAdd(b, c), d))
  BY <1>1, AddAssociates
<1>3. GfAdd(GfAdd(b, c), d) = GfAdd(c, GfAdd(b, d))
  BY <1>1, AddAssociates, AddCommutes
<1>4. GfAdd(a, GfAdd(c, GfAdd(b, d))) = GfAdd(GfAdd(a, c), GfAdd(b, d))
  BY <1>1, AddAssociates
<1> QED
  BY <1>2, <1>3, <1>4

-----------------------------------------------------------------------------
(* Multiplication by the generator *)

\* _build_tables stays within bytes.
LEMMA Times2Type ==
    ASSUME NEW x \in Byte
    PROVE  Times2(x) \in Byte /\ (2 * x) % 256 \in Byte
<1>1. (2 * x) % 256 \in Byte /\ 27 \in Byte /\ 0 \in Byte
  BY DEF Byte
<1> QED
  BY <1>1, AddType DEF Times2

\* Multiplication by 3 stays within bytes.
LEMMA Times3Type ==
    /\ Times3 \in [Byte -> Byte]
    /\ \A x \in Byte : Times3[x] = GfAdd(Times2(x), x)
  BY Times2Type, AddType DEF Times3

\* f holds the values of g iterated from b, up to n times.
Iterates(f, n, T, b, g) ==
    /\ f \in [0..n -> T]
    /\ f[0] = b
    /\ \A i \in 1..n : f[i] = g[f[i - 1]]

\* The values of a recursive function that iterates g up to n.
LEMMA IteratesType ==
    ASSUME NEW n \in Nat, NEW T, NEW b \in T, NEW g \in [T -> T],
           NEW P, P = CHOOSE f : f = [i \in 0..n |-> IF i = 0 THEN b ELSE g[f[i - 1]]]
    PROVE  Iterates(P, n, T, b, g)
<1> DEFINE step == [i \in 1..n |-> g]
           F(f) == [i \in 0..n |-> IF i = 0 THEN b ELSE g[f[i - 1]]]
<1>1. PICK r \in [0..n -> T] : IsRun(r, n, b, step)
  <2>1. step \in [1..n -> [T -> T]]
    OBVIOUS
  <2> HIDE DEF step
  <2> QED
    BY <2>1, RunExists, Zenon
<1>2. r = F(r)
  <2>1. \A i \in 0..n : r[i] = IF i = 0 THEN b ELSE g[r[i - 1]]
    BY <1>1 DEF IsRun
  <2> QED
    BY <2>1
<1>3. P = F(P)
  <2> HIDE DEF F
  <2>1. P = CHOOSE f : f = F(f)
    BY DEF F
  <2> QED
    BY <1>2, <2>1
<1>4. P[0] = b /\ \A i \in 1..n : P[i] = g[P[i - 1]]
  <2>1. 0 \in 0..n /\ \A i \in 1..n : i \in 0..n /\ i # 0
    OBVIOUS
  <2> QED
    BY <1>3, <2>1
<1>5. \A i \in 0..n : P[i] \in T
  <2> DEFINE S == {i \in 0..n : P[i] \in T}
  <2>1. 0 \in S
    BY <1>4
  <2>2. ASSUME NEW i \in 1..n, i - 1 \in S PROVE i \in S
    <3>1. P[i - 1] \in T /\ P[i] = g[P[i - 1]]
      BY <1>4, <2>2
    <3> QED
      BY <3>1
  <2>3. \A i \in 0..n : i \in S
    <3> HIDE DEF S
    <3> QED
      BY <2>1, <2>2, UpTo
  <2> QED
    BY <2>3
<1> QED
  BY <1>3, <1>4, <1>5 DEF Iterates

\* The recursion of the powers, unfolded.
LEMMA PowersDef ==
    /\ Powers \in [0..254 -> Byte]
    /\ Powers[0] = 1
    /\ \A i \in 1..254 : Powers[i] = Times3[Powers[i - 1]]
<1>1. 1 \in Byte /\ 254 \in Nat
  BY DEF Byte
<1>2. Times3 \in [Byte -> Byte]
  BY Times3Type
<1>3. Powers = CHOOSE f : f = [i \in 0..254 |-> IF i = 0 THEN 1 ELSE Times3[f[i - 1]]]
  BY Zenon DEF Powers
<1>4. Iterates(Powers, 254, Byte, 1, Times3)
  BY <1>1, <1>2, <1>3, IteratesType, Zenon
<1> QED
  BY <1>4, Zenon DEF Iterates

\* Multiplication by 3 without the table of sums.
LEMMA Times3Value ==
    ASSUME NEW x \in Byte
    PROVE  Times3[x] = Xor(Xor((2 * x) % 256, IF x >= 128 THEN 27 ELSE 0), x)
<1>1. (2 * x) % 256 \in Byte /\ 27 \in Byte /\ 0 \in Byte
  BY DEF Byte
<1>2. Times2(x) = Xor((2 * x) % 256, IF x >= 128 THEN 27 ELSE 0)
  BY <1>1, AddType DEF Times2
<1> QED
  BY <1>2, Times3Type, Times2Type, AddType

(* The table of powers, sixteen to a lemma. *)

\* The powers of 3, one after the other, sixteen at a time.
LEMMA Row0 ==
    /\ Powers[0] = 1 /\ Powers[1] = 3 /\ Powers[2] = 5 /\ Powers[3] = 15
    /\ Powers[4] = 17 /\ Powers[5] = 51 /\ Powers[6] = 85 /\ Powers[7] = 255
    /\ Powers[8] = 26 /\ Powers[9] = 46 /\ Powers[10] = 114 /\ Powers[11] = 150
    /\ Powers[12] = 161 /\ Powers[13] = 248 /\ Powers[14] = 19 /\ Powers[15] = 53
<1>1. /\ Times3[1] = 3 /\ Times3[3] = 5 /\ Times3[5] = 15 /\ Times3[15] = 17
      /\ Times3[17] = 51 /\ Times3[51] = 85 /\ Times3[85] = 255 /\ Times3[255] = 26
      /\ Times3[26] = 46 /\ Times3[46] = 114 /\ Times3[114] = 150 /\ Times3[150] = 161
      /\ Times3[161] = 248 /\ Times3[248] = 19 /\ Times3[19] = 53
  BY Times3Value DEF Xor, Byte
<1> QED
  BY <1>1, PowersDef

\* Powers 16 to 31.
LEMMA Row1 ==
    /\ Powers[16] = 95 /\ Powers[17] = 225 /\ Powers[18] = 56 /\ Powers[19] = 72
    /\ Powers[20] = 216 /\ Powers[21] = 115 /\ Powers[22] = 149 /\ Powers[23] = 164
    /\ Powers[24] = 247 /\ Powers[25] = 2 /\ Powers[26] = 6 /\ Powers[27] = 10
    /\ Powers[28] = 30 /\ Powers[29] = 34 /\ Powers[30] = 102 /\ Powers[31] = 170
<1>1. /\ Times3[53] = 95 /\ Times3[95] = 225 /\ Times3[225] = 56 /\ Times3[56] = 72
      /\ Times3[72] = 216 /\ Times3[216] = 115 /\ Times3[115] = 149 /\ Times3[149] = 164
      /\ Times3[164] = 247 /\ Times3[247] = 2 /\ Times3[2] = 6 /\ Times3[6] = 10
      /\ Times3[10] = 30 /\ Times3[30] = 34 /\ Times3[34] = 102 /\ Times3[102] = 170
  BY Times3Value DEF Xor, Byte
<1> QED
  BY <1>1, PowersDef, Row0

\* Powers 32 to 47.
LEMMA Row2 ==
    /\ Powers[32] = 229 /\ Powers[33] = 52 /\ Powers[34] = 92 /\ Powers[35] = 228
    /\ Powers[36] = 55 /\ Powers[37] = 89 /\ Powers[38] = 235 /\ Powers[39] = 38
    /\ Powers[40] = 106 /\ Powers[41] = 190 /\ Powers[42] = 217 /\ Powers[43] = 112
    /\ Powers[44] = 144 /\ Powers[45] = 171 /\ Powers[46] = 230 /\ Powers[47] = 49
<1>1. /\ Times3[170] = 229 /\ Times3[229] = 52 /\ Times3[52] = 92 /\ Times3[92] = 228
      /\ Times3[228] = 55 /\ Times3[55] = 89 /\ Times3[89] = 235 /\ Times3[235] = 38
      /\ Times3[38] = 106 /\ Times3[106] = 190 /\ Times3[190] = 217 /\ Times3[217] = 112
      /\ Times3[112] = 144 /\ Times3[144] = 171 /\ Times3[171] = 230 /\ Times3[230] = 49
  BY Times3Value DEF Xor, Byte
<1> QED
  BY <1>1, PowersDef, Row1

\* Powers 48 to 63.
LEMMA Row3 ==
    /\ Powers[48] = 83 /\ Powers[49] = 245 /\ Powers[50] = 4 /\ Powers[51] = 12
    /\ Powers[52] = 20 /\ Powers[53] = 60 /\ Powers[54] = 68 /\ Powers[55] = 204
    /\ Powers[56] = 79 /\ Powers[57] = 209 /\ Powers[58] = 104 /\ Powers[59] = 184
    /\ Powers[60] = 211 /\ Powers[61] = 110 /\ Powers[62] = 178 /\ Powers[63] = 205
<1>1. /\ Times3[49] = 83 /\ Times3[83] = 245 /\ Times3[245] = 4 /\ Times3[4] = 12
      /\ Times3[12] = 20 /\ Times3[20] = 60 /\ Times3[60] = 68 /\ Times3[68] = 204
      /\ Times3[204] = 79 /\ Times3[79] = 209 /\ Times3[209] = 104 /\ Times3[104] = 184
      /\ Times3[184] = 211 /\ Times3[211] = 110 /\ Times3[110] = 178 /\ Times3[178] = 205
  BY Times3Value DEF Xor, Byte
<1> QED
  BY <1>1, PowersDef, Row2

\* Powers 64 to 79.
LEMMA Row4 ==
    /\ Powers[64] = 76 /\ Powers[65] = 212 /\ Powers[66] = 103 /\ Powers[67] = 169
    /\ Powers[68] = 224 /\ Powers[69] = 59 /\ Powers[70] = 77 /\ Powers[71] = 215
    /\ Powers[72] = 98 /\ Powers[73] = 166 /\ Powers[74] = 241 /\ Powers[75] = 8
    /\ Powers[76] = 24 /\ Powers[77] = 40 /\ Powers[78] = 120 /\ Powers[79] = 136
<1>1. /\ Times3[205] = 76 /\ Times3[76] = 212 /\ Times3[212] = 103 /\ Times3[103] = 169
      /\ Times3[169] = 224 /\ Times3[224] = 59 /\ Times3[59] = 77 /\ Times3[77] = 215
      /\ Times3[215] = 98 /\ Times3[98] = 166 /\ Times3[166] = 241 /\ Times3[241] = 8
      /\ Times3[8] = 24 /\ Times3[24] = 40 /\ Times3[40] = 120 /\ Times3[120] = 136
  BY Times3Value DEF Xor, Byte
<1> QED
  BY <1>1, PowersDef, Row3

\* Powers 80 to 95.
LEMMA Row5 ==
    /\ Powers[80] = 131 /\ Powers[81] = 158 /\ Powers[82] = 185 /\ Powers[83] = 208
    /\ Powers[84] = 107 /\ Powers[85] = 189 /\ Powers[86] = 220 /\ Powers[87] = 127
    /\ Powers[88] = 129 /\ Powers[89] = 152 /\ Powers[90] = 179 /\ Powers[91] = 206
    /\ Powers[92] = 73 /\ Powers[93] = 219 /\ Powers[94] = 118 /\ Powers[95] = 154
<1>1. /\ Times3[136] = 131 /\ Times3[131] = 158 /\ Times3[158] = 185 /\ Times3[185] = 208
      /\ Times3[208] = 107 /\ Times3[107] = 189 /\ Times3[189] = 220 /\ Times3[220] = 127
      /\ Times3[127] = 129 /\ Times3[129] = 152 /\ Times3[152] = 179 /\ Times3[179] = 206
      /\ Times3[206] = 73 /\ Times3[73] = 219 /\ Times3[219] = 118 /\ Times3[118] = 154
  BY Times3Value DEF Xor, Byte
<1> QED
  BY <1>1, PowersDef, Row4

\* Powers 96 to 111.
LEMMA Row6 ==
    /\ Powers[96] = 181 /\ Powers[97] = 196 /\ Powers[98] = 87 /\ Powers[99] = 249
    /\ Powers[100] = 16 /\ Powers[101] = 48 /\ Powers[102] = 80 /\ Powers[103] = 240
    /\ Powers[104] = 11 /\ Powers[105] = 29 /\ Powers[106] = 39 /\ Powers[107] = 105
    /\ Powers[108] = 187 /\ Powers[109] = 214 /\ Powers[110] = 97 /\ Powers[111] = 163
<1>1. /\ Times3[154] = 181 /\ Times3[181] = 196 /\ Times3[196] = 87 /\ Times3[87] = 249
      /\ Times3[249] = 16 /\ Times3[16] = 48 /\ Times3[48] = 80 /\ Times3[80] = 240
      /\ Times3[240] = 11 /\ Times3[11] = 29 /\ Times3[29] = 39 /\ Times3[39] = 105
      /\ Times3[105] = 187 /\ Times3[187] = 214 /\ Times3[214] = 97 /\ Times3[97] = 163
  BY Times3Value DEF Xor, Byte
<1> QED
  BY <1>1, PowersDef, Row5

\* Powers 112 to 127.
LEMMA Row7 ==
    /\ Powers[112] = 254 /\ Powers[113] = 25 /\ Powers[114] = 43 /\ Powers[115] = 125
    /\ Powers[116] = 135 /\ Powers[117] = 146 /\ Powers[118] = 173 /\ Powers[119] = 236
    /\ Powers[120] = 47 /\ Powers[121] = 113 /\ Powers[122] = 147 /\ Powers[123] = 174
    /\ Powers[124] = 233 /\ Powers[125] = 32 /\ Powers[126] = 96 /\ Powers[127] = 160
<1>1. /\ Times3[163] = 254 /\ Times3[254] = 25 /\ Times3[25] = 43 /\ Times3[43] = 125
      /\ Times3[125] = 135 /\ Times3[135] = 146 /\ Times3[146] = 173 /\ Times3[173] = 236
      /\ Times3[236] = 47 /\ Times3[47] = 113 /\ Times3[113] = 147 /\ Times3[147] = 174
      /\ Times3[174] = 233 /\ Times3[233] = 32 /\ Times3[32] = 96 /\ Times3[96] = 160
  BY Times3Value DEF Xor, Byte
<1> QED
  BY <1>1, PowersDef, Row6

\* Powers 128 to 143.
LEMMA Row8 ==
    /\ Powers[128] = 251 /\ Powers[129] = 22 /\ Powers[130] = 58 /\ Powers[131] = 78
    /\ Powers[132] = 210 /\ Powers[133] = 109 /\ Powers[134] = 183 /\ Powers[135] = 194
    /\ Powers[136] = 93 /\ Powers[137] = 231 /\ Powers[138] = 50 /\ Powers[139] = 86
    /\ Powers[140] = 250 /\ Powers[141] = 21 /\ Powers[142] = 63 /\ Powers[143] = 65
<1>1. /\ Times3[160] = 251 /\ Times3[251] = 22 /\ Times3[22] = 58 /\ Times3[58] = 78
      /\ Times3[78] = 210 /\ Times3[210] = 109 /\ Times3[109] = 183 /\ Times3[183] = 194
      /\ Times3[194] = 93 /\ Times3[93] = 231 /\ Times3[231] = 50 /\ Times3[50] = 86
      /\ Times3[86] = 250 /\ Times3[250] = 21 /\ Times3[21] = 63 /\ Times3[63] = 65
  BY Times3Value DEF Xor, Byte
<1> QED
  BY <1>1, PowersDef, Row7

\* Powers 144 to 159.
LEMMA Row9 ==
    /\ Powers[144] = 195 /\ Powers[145] = 94 /\ Powers[146] = 226 /\ Powers[147] = 61
    /\ Powers[148] = 71 /\ Powers[149] = 201 /\ Powers[150] = 64 /\ Powers[151] = 192
    /\ Powers[152] = 91 /\ Powers[153] = 237 /\ Powers[154] = 44 /\ Powers[155] = 116
    /\ Powers[156] = 156 /\ Powers[157] = 191 /\ Powers[158] = 218 /\ Powers[159] = 117
<1>1. /\ Times3[65] = 195 /\ Times3[195] = 94 /\ Times3[94] = 226 /\ Times3[226] = 61
      /\ Times3[61] = 71 /\ Times3[71] = 201 /\ Times3[201] = 64 /\ Times3[64] = 192
      /\ Times3[192] = 91 /\ Times3[91] = 237 /\ Times3[237] = 44 /\ Times3[44] = 116
      /\ Times3[116] = 156 /\ Times3[156] = 191 /\ Times3[191] = 218 /\ Times3[218] = 117
  BY Times3Value DEF Xor, Byte
<1> QED
  BY <1>1, PowersDef, Row8

\* Powers 160 to 175.
LEMMA Row10 ==
    /\ Powers[160] = 159 /\ Powers[161] = 186 /\ Powers[162] = 213 /\ Powers[163] = 100
    /\ Powers[164] = 172 /\ Powers[165] = 239 /\ Powers[166] = 42 /\ Powers[167] = 126
    /\ Powers[168] = 130 /\ Powers[169] = 157 /\ Powers[170] = 188 /\ Powers[171] = 223
    /\ Powers[172] = 122 /\ Powers[173] = 142 /\ Powers[174] = 137 /\ Powers[175] = 128
<1>1. /\ Times3[117] = 159 /\ Times3[159] = 186 /\ Times3[186] = 213 /\ Times3[213] = 100
      /\ Times3[100] = 172 /\ Times3[172] = 239 /\ Times3[239] = 42 /\ Times3[42] = 126
      /\ Times3[126] = 130 /\ Times3[130] = 157 /\ Times3[157] = 188 /\ Times3[188] = 223
      /\ Times3[223] = 122 /\ Times3[122] = 142 /\ Times3[142] = 137 /\ Times3[137] = 128
  BY Times3Value DEF Xor, Byte
<1> QED
  BY <1>1, PowersDef, Row9

\* Powers 176 to 191.
LEMMA Row11 ==
    /\ Powers[176] = 155 /\ Powers[177] = 182 /\ Powers[178] = 193 /\ Powers[179] = 88
    /\ Powers[180] = 232 /\ Powers[181] = 35 /\ Powers[182] = 101 /\ Powers[183] = 175
    /\ Powers[184] = 234 /\ Powers[185] = 37 /\ Powers[186] = 111 /\ Powers[187] = 177
    /\ Powers[188] = 200 /\ Powers[189] = 67 /\ Powers[190] = 197 /\ Powers[191] = 84
<1>1. /\ Times3[128] = 155 /\ Times3[155] = 182 /\ Times3[182] = 193 /\ Times3[193] = 88
      /\ Times3[88] = 232 /\ Times3[232] = 35 /\ Times3[35] = 101 /\ Times3[101] = 175
      /\ Times3[175] = 234 /\ Times3[234] = 37 /\ Times3[37] = 111 /\ Times3[111] = 177
      /\ Times3[177] = 200 /\ Times3[200] = 67 /\ Times3[67] = 197 /\ Times3[197] = 84
  BY Times3Value DEF Xor, Byte
<1> QED
  BY <1>1, PowersDef, Row10

\* Powers 192 to 207.
LEMMA Row12 ==
    /\ Powers[192] = 252 /\ Powers[193] = 31 /\ Powers[194] = 33 /\ Powers[195] = 99
    /\ Powers[196] = 165 /\ Powers[197] = 244 /\ Powers[198] = 7 /\ Powers[199] = 9
    /\ Powers[200] = 27 /\ Powers[201] = 45 /\ Powers[202] = 119 /\ Powers[203] = 153
    /\ Powers[204] = 176 /\ Powers[205] = 203 /\ Powers[206] = 70 /\ Powers[207] = 202
<1>1. /\ Times3[84] = 252 /\ Times3[252] = 31 /\ Times3[31] = 33 /\ Times3[33] = 99
      /\ Times3[99] = 165 /\ Times3[165] = 244 /\ Times3[244] = 7 /\ Times3[7] = 9
      /\ Times3[9] = 27 /\ Times3[27] = 45 /\ Times3[45] = 119 /\ Times3[119] = 153
      /\ Times3[153] = 176 /\ Times3[176] = 203 /\ Times3[203] = 70 /\ Times3[70] = 202
  BY Times3Value DEF Xor, Byte
<1> QED
  BY <1>1, PowersDef, Row11

\* Powers 208 to 223.
LEMMA Row13 ==
    /\ Powers[208] = 69 /\ Powers[209] = 207 /\ Powers[210] = 74 /\ Powers[211] = 222
    /\ Powers[212] = 121 /\ Powers[213] = 139 /\ Powers[214] = 134 /\ Powers[215] = 145
    /\ Powers[216] = 168 /\ Powers[217] = 227 /\ Powers[218] = 62 /\ Powers[219] = 66
    /\ Powers[220] = 198 /\ Powers[221] = 81 /\ Powers[222] = 243 /\ Powers[223] = 14
<1>1. /\ Times3[202] = 69 /\ Times3[69] = 207 /\ Times3[207] = 74 /\ Times3[74] = 222
      /\ Times3[222] = 121 /\ Times3[121] = 139 /\ Times3[139] = 134 /\ Times3[134] = 145
      /\ Times3[145] = 168 /\ Times3[168] = 227 /\ Times3[227] = 62 /\ Times3[62] = 66
      /\ Times3[66] = 198 /\ Times3[198] = 81 /\ Times3[81] = 243 /\ Times3[243] = 14
  BY Times3Value DEF Xor, Byte
<1> QED
  BY <1>1, PowersDef, Row12

\* Powers 224 to 239.
LEMMA Row14 ==
    /\ Powers[224] = 18 /\ Powers[225] = 54 /\ Powers[226] = 90 /\ Powers[227] = 238
    /\ Powers[228] = 41 /\ Powers[229] = 123 /\ Powers[230] = 141 /\ Powers[231] = 140
    /\ Powers[232] = 143 /\ Powers[233] = 138 /\ Powers[234] = 133 /\ Powers[235] = 148
    /\ Powers[236] = 167 /\ Powers[237] = 242 /\ Powers[238] = 13 /\ Powers[239] = 23
<1>1. /\ Times3[14] = 18 /\ Times3[18] = 54 /\ Times3[54] = 90 /\ Times3[90] = 238
      /\ Times3[238] = 41 /\ Times3[41] = 123 /\ Times3[123] = 141 /\ Times3[141] = 140
      /\ Times3[140] = 143 /\ Times3[143] = 138 /\ Times3[138] = 133 /\ Times3[133] = 148
      /\ Times3[148] = 167 /\ Times3[167] = 242 /\ Times3[242] = 13 /\ Times3[13] = 23
  BY Times3Value DEF Xor, Byte
<1> QED
  BY <1>1, PowersDef, Row13

\* Powers 240 to 254.
LEMMA Row15 ==
    /\ Powers[240] = 57 /\ Powers[241] = 75 /\ Powers[242] = 221 /\ Powers[243] = 124
    /\ Powers[244] = 132 /\ Powers[245] = 151 /\ Powers[246] = 162 /\ Powers[247] = 253
    /\ Powers[248] = 28 /\ Powers[249] = 36 /\ Powers[250] = 108 /\ Powers[251] = 180
    /\ Powers[252] = 199 /\ Powers[253] = 82 /\ Powers[254] = 246
<1>1. /\ Times3[23] = 57 /\ Times3[57] = 75 /\ Times3[75] = 221 /\ Times3[221] = 124
      /\ Times3[124] = 132 /\ Times3[132] = 151 /\ Times3[151] = 162 /\ Times3[162] = 253
      /\ Times3[253] = 28 /\ Times3[28] = 36 /\ Times3[36] = 108 /\ Times3[108] = 180
      /\ Times3[180] = 199 /\ Times3[199] = 82 /\ Times3[82] = 246
  BY Times3Value DEF Xor, Byte
<1> QED
  BY <1>1, PowersDef, Row14

\* No power of 3 below the 255th is 1, and none is 0.
LEMMA PowersNotOne == \A i \in 1..254 : Powers[i] \notin {0, 1}
<1>1. \A i \in 1..15 : Powers[i] \notin {0, 1}
  BY Row0
<1>2. \A i \in 16..31 : Powers[i] \notin {0, 1}
  BY Row1
<1>3. \A i \in 32..47 : Powers[i] \notin {0, 1}
  BY Row2
<1>4. \A i \in 48..63 : Powers[i] \notin {0, 1}
  BY Row3
<1>5. \A i \in 64..79 : Powers[i] \notin {0, 1}
  BY Row4
<1>6. \A i \in 80..95 : Powers[i] \notin {0, 1}
  BY Row5
<1>7. \A i \in 96..111 : Powers[i] \notin {0, 1}
  BY Row6
<1>8. \A i \in 112..127 : Powers[i] \notin {0, 1}
  BY Row7
<1>9. \A i \in 128..143 : Powers[i] \notin {0, 1}
  BY Row8
<1>10. \A i \in 144..159 : Powers[i] \notin {0, 1}
  BY Row9
<1>11. \A i \in 160..175 : Powers[i] \notin {0, 1}
  BY Row10
<1>12. \A i \in 176..191 : Powers[i] \notin {0, 1}
  BY Row11
<1>13. \A i \in 192..207 : Powers[i] \notin {0, 1}
  BY Row12
<1>14. \A i \in 208..223 : Powers[i] \notin {0, 1}
  BY Row13
<1>15. \A i \in 224..239 : Powers[i] \notin {0, 1}
  BY Row14
<1>16. \A i \in 240..254 : Powers[i] \notin {0, 1}
  BY Row15
<1> QED
  BY <1>1, <1>2, <1>3, <1>4, <1>5, <1>6, <1>7, <1>8,
     <1>9, <1>10, <1>11, <1>12, <1>13, <1>14, <1>15, <1>16

\* After 255 rounds the table would start over.
LEMMA PowersNext ==
    ASSUME NEW i \in 0..254
    PROVE  Times3[Powers[i]] = Powers[(i + 1) % 255]
<1>1. Times3[246] = 1 /\ Powers[254] = 246
  BY Times3Value, Row15 DEF Xor, Byte
<1>2. CASE i = 254
  <2>1. (i + 1) % 255 = 0
    BY <1>2
  <2> QED
    BY <1>1, <1>2, <2>1, PowersDef
<1>3. CASE i # 254
  <2>1. (i + 1) % 255 = i + 1 /\ i + 1 \in 1..254 /\ (i + 1) - 1 = i
    BY <1>3
  <2> QED
    BY <2>1, PowersDef
<1> QED
  BY <1>2, <1>3

\* The first 255 powers of 3 differ.
LEMMA PowersDistinct ==
    ASSUME NEW i \in 0..254, NEW j \in 0..254, i < j
    PROVE  Powers[i] # Powers[j]
<1> SUFFICES ASSUME Powers[i] = Powers[j] PROVE FALSE
  OBVIOUS
<1> DEFINE S == {t \in 0..(254 - j) : Powers[i + t] = Powers[j + t]}
<1>1. 254 - j \in Nat
  OBVIOUS
<1>2. 0 \in S
  OBVIOUS
<1>3. ASSUME NEW t \in 1..(254 - j), t - 1 \in S PROVE t \in S
  <2>1. Powers[i + (t - 1)] = Powers[j + (t - 1)]
    BY <1>3
  <2>2. i + t \in 1..254 /\ j + t \in 1..254
    OBVIOUS
  <2>3. (i + t) - 1 = i + (t - 1) /\ (j + t) - 1 = j + (t - 1)
    OBVIOUS
  <2>4. Powers[i + t] = Times3[Powers[i + (t - 1)]] /\ Powers[j + t] = Times3[Powers[j + (t - 1)]]
    BY <2>2, <2>3, PowersDef
  <2>5. Powers[i + t] = Powers[j + t]
    BY <2>1, <2>4
  <2> QED
    BY <2>5
<1>4. \A t \in 0..(254 - j) : t \in S
  <2> HIDE DEF S
  <2> QED
    BY <1>1, <1>2, <1>3, UpTo
<1>5. Powers[i + (254 - j)] = Powers[254]
  <2>1. 254 - j \in 0..(254 - j) /\ j + (254 - j) = 254
    OBVIOUS
  <2> QED
    BY <1>4, <2>1
<1> DEFINE m == i + (254 - j)
<1>6. m \in 0..253 /\ (m + 1) % 255 = m + 1 /\ m + 1 \in 1..254 /\ (254 + 1) % 255 = 0
  OBVIOUS
<1> HIDE DEF m
<1>7. Powers[m + 1] = Powers[0]
  <2>1. m \in 0..254 /\ 254 \in 0..254
    BY <1>6
  <2>2. Times3[Powers[m]] = Powers[m + 1]
    BY <1>6, <2>1, PowersNext
  <2>3. Times3[Powers[254]] = Powers[0]
    BY <1>6, <2>1, PowersNext
  <2>4. Powers[m] = Powers[254]
    BY <1>5 DEF m
  <2> QED
    BY <2>2, <2>3, <2>4
<1> QED
  BY <1>6, <1>7, PowersNotOne, PowersDef

\* The powers of the generator are the bytes other than 0.
LEMMA PowersOnto ==
    /\ \A i \in 0..254 : Powers[i] \in 1..255
    /\ \A x \in 1..255 : \E i \in 0..254 : Powers[i] = x
<1>1. \A i \in 0..254 : Powers[i] \in 1..255
  <2>1. Powers[0] = 1 /\ \A i \in 0..254 : Powers[i] \in Byte
    BY PowersDef
  <2>2. \A i \in 1..254 : Powers[i] # 0
    BY PowersNotOne
  <2>3. \A i \in 0..254 : Powers[i] # 0
    BY <2>1, <2>2
  <2>4. \A x \in Byte : x # 0 => x \in 1..255
    BY DEF Byte
  <2> QED
    BY <2>1, <2>3, <2>4
<1>2. Powers \in [0..254 -> 1..255]
  <2>1. Powers = [i \in 0..254 |-> Powers[i]]
    BY PowersDef
  <2> QED
    BY <1>1, <2>1
<1>3. \A i, j \in 0..254 : Powers[i] = Powers[j] => i = j
  <2> SUFFICES ASSUME NEW i \in 0..254, NEW j \in 0..254, i # j PROVE Powers[i] # Powers[j]
    OBVIOUS
  <2>1. i < j \/ j < i
    OBVIOUS
  <2> QED
    BY <2>1, PowersDistinct
<1>4. Powers \in Injection(0..254, 1..255)
  BY <1>2, <1>3 DEF Injection, IsInjective
<1>5. /\ IsFiniteSet(1..255) /\ Cardinality(1..255) = 255
      /\ Cardinality(0..254) = 255
  <2>1. 1 \in Int /\ 255 \in Int /\ 0 \in Int /\ 254 \in Int
    OBVIOUS
  <2>2. IsFiniteSet(1..255) /\ Cardinality(1..255) = IF 1 > 255 THEN 0 ELSE 255 - 1 + 1
    BY <2>1, FS_Interval
  <2>3. Cardinality(0..254) = IF 0 > 254 THEN 0 ELSE 254 - 0 + 1
    BY <2>1, FS_Interval
  <2> QED
    BY <2>2, <2>3
<1>6. Powers \in Surjection(0..254, 1..255)
  BY <1>4, <1>5, FS_Injection
<1> QED
  BY <1>1, <1>6 DEF Surjection

-----------------------------------------------------------------------------
(* The field *)

NonZero == 1..255
Exponent == 0..254

\* A byte is 0 or one of the 255 others.
LEMMA ByteSplit ==
    /\ 0 \in Byte /\ 1 \in Byte /\ 1 \in NonZero /\ 0 \notin NonZero
    /\ \A x \in Byte : x # 0 => x \in NonZero
    /\ \A x \in NonZero : x \in Byte /\ x # 0
  BY DEF Byte, NonZero

\* The table of exponents holds the powers; the 255th is 1 again.
LEMMA ExpType ==
    /\ \A i \in Exponent : ExpTable[i] = Powers[i] /\ ExpTable[i] \in NonZero
    /\ ExpTable[0] = 1 /\ ExpTable[255] = 1
<1>1. \A i \in Exponent : i \in 0..511 /\ i % 255 = i
  BY DEF Exponent
<1>2. \A i \in Exponent : ExpTable[i] = Powers[i]
  BY <1>1 DEF ExpTable
<1>3. ExpTable[255] = Powers[255 % 255] /\ ExpTable[0] = Powers[0 % 255]
  BY DEF ExpTable
<1>4. 255 % 255 = 0 /\ 0 % 255 = 0
  OBVIOUS
<1> QED
  BY <1>2, <1>3, <1>4, PowersOnto, PowersDef, ZenonT(40) DEF NonZero, Exponent

\* The table of logarithms inverts it: every byte but 0 is a power of 3.
LEMMA LogType ==
    /\ \A x \in NonZero : LogTable[x] \in Exponent /\ ExpTable[LogTable[x]] = x
    /\ \A i \in Exponent : LogTable[ExpTable[i]] = i
<1> DEFINE entered(x) == {i \in 0..254 : ExpTable[i] = x}
<1>1. ASSUME NEW x \in NonZero, NEW i \in Exponent, ExpTable[i] = x
      PROVE  LogTable[x] = i
  <2>1. \A j \in Exponent : ExpTable[j] = x => j = i
    <3> SUFFICES ASSUME NEW j \in Exponent, ExpTable[j] = x, j # i PROVE FALSE
      OBVIOUS
    <3>1. Powers[i] = Powers[j]
      BY <1>1, ExpType
    <3>2. i < j \/ j < i
      BY DEF Exponent
    <3> QED
      BY <3>1, <3>2, PowersDistinct DEF Exponent
  <2>2. entered(x) = {i}
    BY <1>1, <2>1 DEF Exponent
  <2>3. Max({i}) = i
    <3>1. i \in Int
      BY DEF Exponent
    <3> QED
      BY <3>1 DEF Max
  <2>4. LogTable[x] = IF entered(x) = {} THEN 0 ELSE Max(entered(x))
    BY ByteSplit DEF LogTable
  <2> HIDE DEF entered
  <2> QED
    BY <2>2, <2>3, <2>4
<1>2. \A x \in NonZero : \E i \in Exponent : ExpTable[i] = x
  BY PowersOnto, ExpType, ZenonT(40) DEF NonZero, Exponent
<1> QED
  BY <1>1, <1>2, ExpType

\* How exponents are added and subtracted.
Plus(i, j) == (i + j) % 255
Minus(i, j) == (i - j) % 255

\* The exponents form a group under addition modulo 255.
LEMMA PlusLaws ==
    ASSUME NEW i \in Exponent, NEW j \in Exponent, NEW m \in Exponent
    PROVE  /\ Plus(i, j) \in Exponent /\ Minus(i, j) \in Exponent
           /\ Plus(i, j) = Plus(j, i)
           /\ Plus(Plus(i, j), m) = Plus(i, Plus(j, m))
           /\ Plus(Minus(i, j), j) = i
           /\ Plus(i, 0) = i
<1>1. Plus(i, j) \in Exponent /\ Plus(Plus(i, j), m) = Plus(i, Plus(j, m))
  BY DEF Exponent, Plus
<1>2. Minus(i, j) \in Exponent
  BY DEF Exponent, Minus
<1>3. Plus(i, j) = Plus(j, i) /\ Plus(i, 0) = i
  BY DEF Exponent, Plus
<1>4. Plus(Minus(i, j), j) = i
  BY DEF Exponent, Plus, Minus
<1> QED
  BY <1>1, <1>2, <1>3, <1>4

\* Multiplication adds logarithms.
LEMMA MulLogs ==
    ASSUME NEW a \in NonZero, NEW b \in NonZero
    PROVE  /\ LogTable[a] \in Exponent /\ LogTable[b] \in Exponent
           /\ GfMul(a, b) \in NonZero
           /\ GfMul(a, b) = ExpTable[Plus(LogTable[a], LogTable[b])]
           /\ LogTable[GfMul(a, b)] = Plus(LogTable[a], LogTable[b])
<1>1. LogTable[a] \in Exponent /\ LogTable[b] \in Exponent
  BY LogType
<1>2. Plus(LogTable[a], LogTable[b]) \in Exponent
  BY <1>1, PlusLaws
<1>3. GfMul(a, b) = ExpTable[Plus(LogTable[a], LogTable[b])]
  BY ByteSplit DEF GfMul, Plus
<1> QED
  BY <1>1, <1>2, <1>3, ExpType, LogType

\* The product of bytes is a byte, 0 only where a factor is.
LEMMA MulType ==
    ASSUME NEW a \in Byte, NEW b \in Byte
    PROVE  /\ GfMul(a, b) \in Byte
           /\ GfMul(a, 0) = 0 /\ GfMul(0, a) = 0
           /\ a # 0 /\ b # 0 => GfMul(a, b) # 0
<1>1. GfMul(a, 0) = 0 /\ GfMul(0, a) = 0
  BY DEF GfMul
<1>2. CASE a = 0 \/ b = 0
  BY <1>2, ByteSplit DEF GfMul
<1>3. CASE a # 0 /\ b # 0
  BY <1>1, <1>3, MulLogs, ByteSplit
<1> QED
  BY <1>1, <1>2, <1>3

\* Multiplication commutes.
LEMMA MulCommutes ==
    ASSUME NEW a \in Byte, NEW b \in Byte
    PROVE  GfMul(a, b) = GfMul(b, a)
<1>1. CASE a = 0 \/ b = 0
  BY <1>1, MulType
<1>2. CASE a # 0 /\ b # 0
  <2>1. a \in NonZero /\ b \in NonZero
    BY <1>2, ByteSplit
  <2> QED
    BY <2>1, PlusLaws, MulLogs
<1> QED
  BY <1>1, <1>2

\* Multiplication is associative.
LEMMA MulAssociates ==
    ASSUME NEW a \in Byte, NEW b \in Byte, NEW c \in Byte
    PROVE  GfMul(GfMul(a, b), c) = GfMul(a, GfMul(b, c))
<1>1. CASE a = 0 \/ b = 0 \/ c = 0
  BY <1>1, MulType
<1>2. CASE a # 0 /\ b # 0 /\ c # 0
  <2>1. a \in NonZero /\ b \in NonZero /\ c \in NonZero
    BY <1>2, ByteSplit
  <2>2. GfMul(a, b) \in NonZero /\ GfMul(b, c) \in NonZero
    BY <2>1, MulLogs
  <2>3. /\ GfMul(GfMul(a, b), c) = ExpTable[Plus(Plus(LogTable[a], LogTable[b]), LogTable[c])]
        /\ GfMul(a, GfMul(b, c)) = ExpTable[Plus(LogTable[a], Plus(LogTable[b], LogTable[c]))]
    BY <2>1, <2>2, MulLogs
  <2> QED
    BY <2>1, <2>3, MulLogs, PlusLaws, SMTT(30)
<1> QED
  BY <1>1, <1>2

\* 1 is neutral.
LEMMA MulOne ==
    ASSUME NEW a \in Byte
    PROVE  GfMul(a, 1) = a /\ GfMul(1, a) = a
<1>1. LogTable[1] = 0
  <2>1. 0 \in Exponent
    BY DEF Exponent
  <2> QED
    BY <2>1, ExpType, LogType
<1>2. CASE a = 0
  BY <1>2, MulType, ByteSplit
<1>3. CASE a # 0
  <2>1. a \in NonZero /\ 1 \in NonZero
    BY <1>3, ByteSplit
  <2>2. GfMul(a, 1) = ExpTable[Plus(LogTable[a], 0)]
    BY <1>1, <2>1, MulLogs
  <2>3. GfMul(a, 1) = a
    BY <2>1, <2>2, PlusLaws, LogType
  <2> QED
    BY <2>3, MulCommutes, ByteSplit
<1> QED
  BY <1>2, <1>3

\* Division is the inverse of multiplication.
LEMMA DivType ==
    ASSUME NEW a \in Byte, NEW b \in NonZero
    PROVE  /\ GfDiv(a, b) \in Byte
           /\ GfMul(GfDiv(a, b), b) = a
           /\ a # 0 => GfDiv(a, b) # 0
<1>1. CASE a = 0
  BY <1>1, MulType, ByteSplit DEF GfDiv
<1>2. CASE a # 0
  <2>1. a \in NonZero
    BY <1>2, ByteSplit
  <2> DEFINE d == Minus(LogTable[a], LogTable[b])
  <2>2. LogTable[a] \in Exponent /\ LogTable[b] \in Exponent
    BY <2>1, LogType
  <2>3. d \in Exponent /\ Plus(d, LogTable[b]) = LogTable[a]
    BY <2>2, PlusLaws
  <2>4. GfDiv(a, b) = ExpTable[d]
    BY <1>2 DEF GfDiv, Minus
  <2> HIDE DEF d
  <2>5. GfDiv(a, b) \in NonZero /\ LogTable[GfDiv(a, b)] = d
    BY <2>3, <2>4, ExpType, LogType
  <2>6. GfMul(GfDiv(a, b), b) = ExpTable[LogTable[a]]
    BY <2>3, <2>5, MulLogs
  <2> QED
    BY <2>1, <2>5, <2>6, LogType, ByteSplit
<1> QED
  BY <1>1, <1>2

\* A factor other than 0 can be cancelled.
LEMMA MulCancels ==
    ASSUME NEW a \in Byte, NEW b \in Byte, NEW c \in NonZero, GfMul(a, c) = GfMul(b, c)
    PROVE  a = b
<1> DEFINE i == GfDiv(1, c)
<1>1. i \in Byte /\ GfMul(i, c) = 1
  BY DivType, ByteSplit
<1> HIDE DEF i
<1>2. c \in Byte /\ GfMul(c, i) = 1
  BY <1>1, MulCommutes, ByteSplit
<1>3. GfMul(GfMul(a, c), i) = a /\ GfMul(GfMul(b, c), i) = b
  BY <1>1, <1>2, MulAssociates, MulOne
<1> QED
  BY <1>3

-----------------------------------------------------------------------------
(* Multiplication distributes over addition *)

\* The bits shifted to the left, the last one lost.
Up(c) == [i \in 1..8 |-> IF i = 1 THEN 0 ELSE c[i - 1]]

\* A shift to the left moves the bits up.
LEMMA ShiftBits ==
    ASSUME NEW x, NEW c \in BitSeqs, HasBits(x, c)
    PROVE  /\ x \in Byte /\ Up(c) \in BitSeqs
           /\ HasBits((2 * x) % 256, Up(c))
           /\ x >= 128 <=> c[8] = 1
<1>1. /\ c[1] \in {0, 1} /\ c[2] \in {0, 1} /\ c[3] \in {0, 1} /\ c[4] \in {0, 1}
      /\ c[5] \in {0, 1} /\ c[6] \in {0, 1} /\ c[7] \in {0, 1} /\ c[8] \in {0, 1}
  BY DEF BitSeqs
<1>2. Up(c) \in BitSeqs
  BY DEF Up, BitSeqs
<1>3. /\ Up(c)[1] = 0 /\ Up(c)[2] = c[1] /\ Up(c)[3] = c[2] /\ Up(c)[4] = c[3]
      /\ Up(c)[5] = c[4] /\ Up(c)[6] = c[5] /\ Up(c)[7] = c[6] /\ Up(c)[8] = c[7]
  BY DEF Up
<1>4. PICK c1 \in {0, 1}, c2 \in {0, 1}, c3 \in {0, 1}, c4 \in {0, 1}, c5 \in {0, 1},
           c6 \in {0, 1}, c7 \in {0, 1}, c8 \in {0, 1} :
             /\ c1 = c[1] /\ c2 = c[2] /\ c3 = c[3] /\ c4 = c[4]
             /\ c5 = c[5] /\ c6 = c[6] /\ c7 = c[7] /\ c8 = c[8]
  BY <1>1
<1>5. x = c1 + 2 * c2 + 4 * c3 + 8 * c4 + 16 * c5 + 32 * c6 + 64 * c7 + 128 * c8
  BY <1>4 DEF HasBits
<1>6. /\ (2 * x) % 256 = 0 + 2 * c1 + 4 * c2 + 8 * c3 + 16 * c4 + 32 * c5 + 64 * c6 + 128 * c7
      /\ x >= 128 <=> c8 = 1
  BY ONLY <1>5, c1 \in {0, 1}, c2 \in {0, 1}, c3 \in {0, 1}, c4 \in {0, 1}, c5 \in {0, 1},
          c6 \in {0, 1}, c7 \in {0, 1}, c8 \in {0, 1}
<1>7. HasBits((2 * x) % 256, Up(c))
  BY <1>3, <1>4, <1>6 DEF HasBits
<1> QED
  BY <1>2, <1>4, <1>6, <1>7, ShiftedBits

\* Multiplication by 2 distributes over addition.
LEMMA Times2Adds ==
    ASSUME NEW x \in Byte, NEW y \in Byte
    PROVE  Times2(GfAdd(x, y)) = GfAdd(Times2(x), Times2(y))
<1> DEFINE low(z) == (2 * z) % 256
           high(z) == IF z >= 128 THEN 27 ELSE 0
<1>1. PICK c \in BitSeqs, d \in BitSeqs : HasBits(x, c) /\ HasBits(y, d)
  BY BitsExist
<1> DEFINE e == XorBits(c, d)
<1>2. e \in BitSeqs /\ HasBits(GfAdd(x, y), e)
  BY <1>1, AddBits
<1>3. low(GfAdd(x, y)) = GfAdd(low(x), low(y))
  <2>1. /\ Up(c) \in BitSeqs /\ HasBits(low(x), Up(c))
        /\ Up(d) \in BitSeqs /\ HasBits(low(y), Up(d))
    BY <1>1, ShiftBits
  <2>2. HasBits(low(GfAdd(x, y)), Up(e))
    <3> HIDE DEF e
    <3> QED
      BY <1>2, ShiftBits
  <2> HIDE DEF low
  <2>3. HasBits(GfAdd(low(x), low(y)), XorBits(Up(c), Up(d)))
    BY <2>1, AddBits
  <2>4. Up(e) = XorBits(Up(c), Up(d))
    <3>1. PICK u, v : u = Up(c) /\ v = Up(d)
      OBVIOUS
    <3>2. ASSUME NEW i \in 1..8
          PROVE  (IF i = 1 THEN 0 ELSE e[i - 1]) = (u[i] + v[i]) % 2
      <4>1. CASE i = 1
        BY <4>1, <3>1 DEF Up
      <4>2. CASE i # 1
        <5>1. u[i] = c[i - 1] /\ v[i] = d[i - 1] /\ i - 1 \in 1..8
          BY <3>1, <4>2 DEF Up
        <5>2. e[i - 1] = (c[i - 1] + d[i - 1]) % 2
          BY <5>1 DEF XorBits
        <5> QED
          BY <4>2, <5>1, <5>2
      <4> QED
        BY <4>1, <4>2
    <3> HIDE DEF e
    <3>3. Up(e) = XorBits(u, v)
      BY <3>2 DEF Up, XorBits
    <3> QED
      BY <3>1, <3>3
  <2> QED
    BY <2>2, <2>3, <2>4, SameBits
<1>4. high(GfAdd(x, y)) = GfAdd(high(x), high(y))
  <2>1. (x >= 128 <=> c[8] = 1) /\ (y >= 128 <=> d[8] = 1)
    BY <1>1, ShiftBits
  <2>2. GfAdd(x, y) >= 128 <=> e[8] = 1
    <3> HIDE DEF e
    <3> QED
      BY <1>2, ShiftBits
  <2>3. e[8] = (c[8] + d[8]) % 2 /\ c[8] \in {0, 1} /\ d[8] \in {0, 1}
    BY DEF XorBits, BitSeqs
  <2>4. GfAdd(x, y) >= 128 <=> ~ (x >= 128 <=> y >= 128)
    <3>1. e[8] = 1 <=> ~ (c[8] = 1 <=> d[8] = 1)
      <4> HIDE DEF e
      <4> QED
        BY <2>3
    <3> QED
      BY <2>1, <2>2, <3>1
  <2>5. 27 \in Byte /\ 0 \in Byte
    BY DEF Byte
  <2>6. GfAdd(27, 27) = 0 /\ GfAdd(27, 0) = 27 /\ GfAdd(0, 27) = 27 /\ GfAdd(0, 0) = 0
    BY <2>5, AddZero
  <2> QED
    BY <2>4, <2>6
<1>5. /\ low(x) \in Byte /\ low(y) \in Byte /\ high(x) \in Byte /\ high(y) \in Byte
  BY Times2Type, SMTT(30) DEF Byte
<1>6. \A z : Times2(z) = GfAdd(low(z), high(z))
  BY DEF Times2
<1> HIDE DEF low, high
<1> QED
  BY <1>3, <1>4, <1>5, <1>6, AddSwaps

\* Multiplication by 3 distributes over addition.
LEMMA Times3Adds ==
    ASSUME NEW x \in Byte, NEW y \in Byte
    PROVE  Times3[GfAdd(x, y)] = GfAdd(Times3[x], Times3[y])
<1>1. GfAdd(x, y) \in Byte /\ Times2(x) \in Byte /\ Times2(y) \in Byte
  BY AddType, Times2Type
<1>2. Times3[GfAdd(x, y)] = GfAdd(GfAdd(Times2(x), Times2(y)), GfAdd(x, y))
  BY <1>1, Times3Type, Times2Adds
<1> QED
  BY <1>1, <1>2, AddSwaps, Times3Type

\* Multiplying by the next power is multiplying by the generator once more.
LEMMA MulNextPower ==
    ASSUME NEW i \in 1..254, NEW b \in Byte
    PROVE  GfMul(Powers[i], b) = Times3[GfMul(Powers[i - 1], b)]
<1>1. /\ i \in Exponent /\ i - 1 \in Exponent
      /\ Powers[i] \in NonZero /\ Powers[i - 1] \in NonZero
      /\ LogTable[Powers[i]] = i /\ LogTable[Powers[i - 1]] = i - 1
  <2>1. i \in Exponent /\ i - 1 \in Exponent
    BY DEF Exponent
  <2> QED
    BY <2>1, ExpType, LogType
<1>2. CASE b = 0
  <2>1. GfMul(Powers[i], b) = 0 /\ GfMul(Powers[i - 1], b) = 0
    BY <1>1, <1>2, MulType, ByteSplit
  <2>2. Times3[0] = 0
    BY Times3Value DEF Xor, Byte
  <2> QED
    BY <2>1, <2>2
<1>3. CASE b # 0
  <2>1. b \in NonZero
    BY <1>3, ByteSplit
  <2>2. PICK l \in Exponent : l = LogTable[b]
    BY <2>1, LogType
  <2>3. /\ GfMul(Powers[i], b) = ExpTable[Plus(i, l)]
        /\ GfMul(Powers[i - 1], b) = ExpTable[Plus(i - 1, l)]
    BY <1>1, <2>1, <2>2, MulLogs
  <2>4. PICK m \in Exponent : m = Plus(i - 1, l)
    BY <1>1, PlusLaws
  <2>5. Plus(i, l) = Plus(m, 1)
    BY <2>4 DEF Plus, Exponent
  <2>6. Plus(m, 1) \in Exponent
    BY DEF Plus, Exponent
  <2>7. Times3[Powers[m]] = Powers[Plus(m, 1)]
    BY PowersNext DEF Plus, Exponent
  <2> QED
    BY <2>3, <2>4, <2>5, <2>6, <2>7, ExpType
<1> QED
  BY <1>2, <1>3

\* Multiplication distributes over addition: by induction on the logarithm.
LEMMA MulDistributes ==
    ASSUME NEW a \in Byte, NEW b \in Byte, NEW c \in Byte
    PROVE  /\ GfMul(a, GfAdd(b, c)) = GfAdd(GfMul(a, b), GfMul(a, c))
           /\ GfMul(GfAdd(b, c), a) = GfAdd(GfMul(b, a), GfMul(c, a))
<1> DEFINE S == {i \in 0..254 : GfMul(Powers[i], GfAdd(b, c)) = GfAdd(GfMul(Powers[i], b), GfMul(Powers[i], c))}
<1>0. GfAdd(b, c) \in Byte
  BY AddType
<1>1. 0 \in S
  BY <1>0, PowersDef, MulOne
<1>2. ASSUME NEW i \in 1..254, i - 1 \in S PROVE i \in S
  <2>1. Powers[i - 1] \in Byte
    BY PowersDef
  <2>2. GfMul(Powers[i - 1], b) \in Byte /\ GfMul(Powers[i - 1], c) \in Byte
    BY <2>1, MulType
  <2>3. GfMul(Powers[i], GfAdd(b, c)) = Times3[GfAdd(GfMul(Powers[i - 1], b), GfMul(Powers[i - 1], c))]
    BY <1>0, <1>2, MulNextPower
  <2>4. GfMul(Powers[i], GfAdd(b, c)) = GfAdd(GfMul(Powers[i], b), GfMul(Powers[i], c))
    <3>1. /\ GfMul(Powers[i], b) = Times3[GfMul(Powers[i - 1], b)]
          /\ GfMul(Powers[i], c) = Times3[GfMul(Powers[i - 1], c)]
      BY MulNextPower
    <3>2. Times3[GfAdd(GfMul(Powers[i - 1], b), GfMul(Powers[i - 1], c))]
            = GfAdd(Times3[GfMul(Powers[i - 1], b)], Times3[GfMul(Powers[i - 1], c)])
      BY <2>2, Times3Adds
    <3> QED
      BY <2>3, <3>1, <3>2
  <2> QED
    BY <2>4
<1>3. \A i \in 0..254 : i \in S
  <2>1. 254 \in Nat
    OBVIOUS
  <2> HIDE DEF S
  <2> QED
    BY <1>1, <1>2, <2>1, UpTo
<1>4. GfMul(a, GfAdd(b, c)) = GfAdd(GfMul(a, b), GfMul(a, c))
  <2>1. CASE a = 0
    BY <2>1, <1>0, MulType, AddZero, ByteSplit
  <2>2. CASE a # 0
    <3>1. PICK i \in 0..254 : Powers[i] = a
      BY <2>2, PowersOnto, ByteSplit DEF NonZero
    <3> QED
      BY <1>3, <3>1
  <2> QED
    BY <2>1, <2>2
<1> QED
  BY <1>0, <1>4, MulCommutes

-----------------------------------------------------------------------------
(* Sums and products of vectors *)

Vector(n) == [1..n -> Byte]

\* A function on 1..n is a sequence of length n.
LEMMA VectorLen ==
    ASSUME NEW n \in Nat, NEW T, NEW f \in [1..n -> T]
    PROVE  f \in Seq(T) /\ Len(f) = n /\ DOMAIN f = 1..n
<1>1. f \in Seq(T)
  BY SeqDef
<1>2. Len(f) \in Nat /\ DOMAIN f = 1..Len(f)
  BY <1>1, LenProperties
<1>3. \A m \in Nat : 1..m = 1..n => m = n
  <2> SUFFICES ASSUME NEW m \in Nat, 1..m = 1..n, m # n PROVE FALSE
    OBVIOUS
  <2>1. m < n \/ n < m
    OBVIOUS
  <2>2. CASE m < n
    <3>1. n \in 1..n /\ n \notin 1..m
      BY <2>2
    <3> QED
      BY <3>1
  <2>3. CASE n < m
    <3>1. m \in 1..m /\ m \notin 1..n
      BY <2>3
    <3> QED
      BY <3>1
  <2> QED
    BY <2>1, <2>2, <2>3
<1> QED
  BY <1>1, <1>2, <1>3

\* The running sums of f.
IsSumRun(r, f, n) ==
    /\ r \in [0..n -> Byte] /\ r[0] = 0
    /\ \A i \in 1..n : r[i] = GfAdd(r[i - 1], f[i])

\* Sum is the result of its loop.
LEMMA SumRun ==
    ASSUME NEW n \in Nat, NEW f \in Vector(n)
    PROVE  \E r : IsSumRun(r, f, n) /\ Sum(f) = r[n]
<1> DEFINE step == [i \in 1..n |-> [s \in Byte |-> GfAdd(s, f[i])]]
           F(r) == [i \in 0..n |-> IF i = 0 THEN 0 ELSE GfAdd(r[i - 1], f[i])]
<1>0. Len(f) = n /\ \A i \in 1..n : f[i] \in Byte
  BY VectorLen DEF Vector
<1>1. PICK r \in [0..n -> Byte] : IsRun(r, n, 0, step)
  <2>1. step \in [1..n -> [Byte -> Byte]] /\ 0 \in Byte
    BY <1>0, AddType, ByteSplit
  <2> HIDE DEF step
  <2> QED
    BY <2>1, RunExists
<1>2. r[0] = 0 /\ \A i \in 1..n : r[i] = GfAdd(r[i - 1], f[i])
  <2>1. \A i \in 1..n, s \in Byte : step[i][s] = GfAdd(s, f[i])
    OBVIOUS
  <2>2. \A i \in 1..n : r[i - 1] \in Byte
    BY <1>1
  <2> HIDE DEF step
  <2> QED
    BY <1>1, <2>1, <2>2 DEF IsRun
<1>3. r = F(r)
  <2>1. \A i \in 0..n : r[i] = IF i = 0 THEN 0 ELSE GfAdd(r[i - 1], f[i])
    BY <1>2
  <2> QED
    BY <2>1
<1>4. Sum(f) = (CHOOSE q : q = F(q))[n]
  BY <1>0 DEF Sum
<1> DEFINE q == CHOOSE q : q = F(q)
<1>5. q = F(q)
  BY <1>3
<1> HIDE DEF q
<1>6. q[0] = 0 /\ \A i \in 1..n : q[i] = GfAdd(q[i - 1], f[i])
  BY <1>5
<1> HIDE DEF F, step
<1>7. \A i \in 0..n : q[i] = r[i]
  <2> DEFINE S == {i \in 0..n : q[i] = r[i]}
  <2>1. 0 \in S
    BY <1>2, <1>6
  <2>2. \A i \in 1..n : i - 1 \in S => i \in S
    BY <1>2, <1>6
  <2>3. \A i \in 0..n : i \in S
    <3> HIDE DEF S
    <3> QED
      BY <2>1, <2>2, UpTo
  <2> QED
    BY <2>3
<1>8. Sum(f) = r[n]
  BY <1>4, <1>7 DEF q
<1> QED
  BY <1>2, <1>8 DEF IsSumRun

\* A sum of bytes is a byte.
LEMMA SumType ==
    ASSUME NEW n \in Nat, NEW f \in Vector(n)
    PROVE  Sum(f) \in Byte
  BY SumRun DEF IsSumRun

\* The sum of vectors adds up componentwise.
LEMMA SumAdds ==
    ASSUME NEW n \in Nat, NEW f \in Vector(n), NEW g \in Vector(n), NEW h \in Vector(n),
           \A i \in 1..n : h[i] = GfAdd(f[i], g[i])
    PROVE  Sum(h) = GfAdd(Sum(f), Sum(g))
<1>1. PICK p, q, r : /\ IsSumRun(p, f, n) /\ Sum(f) = p[n]
                     /\ IsSumRun(q, g, n) /\ Sum(g) = q[n]
                     /\ IsSumRun(r, h, n) /\ Sum(h) = r[n]
  BY SumRun
<1> DEFINE S == {i \in 0..n : r[i] = GfAdd(p[i], q[i])}
<1>2. 0 \in S
  BY <1>1, AddZero, ByteSplit DEF IsSumRun
<1>3. ASSUME NEW i \in 1..n, i - 1 \in S PROVE i \in S
  <2>1. /\ p[i - 1] \in Byte /\ q[i - 1] \in Byte /\ f[i] \in Byte /\ g[i] \in Byte
    BY <1>1 DEF IsSumRun, Vector
  <2>2. r[i] = GfAdd(GfAdd(p[i - 1], q[i - 1]), GfAdd(f[i], g[i]))
    BY <1>1, <1>3 DEF IsSumRun
  <2>3. r[i] = GfAdd(GfAdd(p[i - 1], f[i]), GfAdd(q[i - 1], g[i]))
    BY <2>1, <2>2, AddSwaps
  <2>4. r[i] = GfAdd(p[i], q[i])
    BY <1>1, <2>3 DEF IsSumRun
  <2> QED
    BY <2>4
<1>4. \A i \in 0..n : i \in S
  <2> HIDE DEF S
  <2> QED
    BY <1>2, <1>3, UpTo
<1> QED
  BY <1>1, <1>4

\* A constant factor can be taken out of a sum.
LEMMA SumScales ==
    ASSUME NEW n \in Nat, NEW f \in Vector(n), NEW h \in Vector(n), NEW c \in Byte,
           \A i \in 1..n : h[i] = GfMul(c, f[i])
    PROVE  Sum(h) = GfMul(c, Sum(f))
<1>1. PICK p, r : /\ IsSumRun(p, f, n) /\ Sum(f) = p[n]
                  /\ IsSumRun(r, h, n) /\ Sum(h) = r[n]
  BY SumRun
<1> DEFINE S == {i \in 0..n : r[i] = GfMul(c, p[i])}
<1>2. 0 \in S
  BY <1>1, MulType, ByteSplit DEF IsSumRun
<1>3. ASSUME NEW i \in 1..n, i - 1 \in S PROVE i \in S
  <2>1. /\ p[i - 1] \in Byte /\ f[i] \in Byte
    BY <1>1 DEF IsSumRun, Vector
  <2>2. r[i] = GfAdd(GfMul(c, p[i - 1]), GfMul(c, f[i]))
    BY <1>1, <1>3 DEF IsSumRun
  <2>3. r[i] = GfMul(c, GfAdd(p[i - 1], f[i]))
    BY <2>1, <2>2, MulDistributes
  <2>4. r[i] = GfMul(c, p[i])
    BY <1>1, <2>3 DEF IsSumRun
  <2> QED
    BY <2>4
<1>4. \A i \in 0..n : i \in S
  <2> HIDE DEF S
  <2> QED
    BY <1>2, <1>3, UpTo
<1> QED
  BY <1>1, <1>4

\* A sum with one term.
LEMMA SumSingle ==
    ASSUME NEW n \in Nat, NEW f \in Vector(n), NEW m \in 1..n,
           \A i \in 1..n : i # m => f[i] = 0
    PROVE  Sum(f) = f[m]
<1>1. PICK r : IsSumRun(r, f, n) /\ Sum(f) = r[n]
  BY SumRun
<1> DEFINE S == {i \in 0..n : r[i] = IF i < m THEN 0 ELSE f[m]}
<1>2. 0 \in S
  BY <1>1 DEF IsSumRun
<1>3. ASSUME NEW i \in 1..n, i - 1 \in S PROVE i \in S
  <2>1. r[i] = GfAdd(r[i - 1], f[i]) /\ f[m] \in Byte /\ 0 \in Byte
    BY <1>1, ByteSplit DEF IsSumRun, Vector
  <2>2. CASE i < m
    <3>1. r[i - 1] = 0 /\ f[i] = 0
      BY <1>3, <2>2
    <3> QED
      BY <2>1, <2>2, <3>1, AddZero
  <2>3. CASE i = m
    <3>1. r[i - 1] = 0
      BY <1>3, <2>3
    <3> QED
      BY <2>1, <2>3, <3>1, AddZero
  <2>4. CASE i > m
    <3>1. r[i - 1] = f[m] /\ f[i] = 0
      BY <1>3, <2>4
    <3> QED
      BY <2>1, <2>4, <3>1, AddZero
  <2> QED
    BY <2>2, <2>3, <2>4
<1>4. \A i \in 0..n : i \in S
  <2> HIDE DEF S
  <2> QED
    BY <1>2, <1>3, UpTo
<1> QED
  BY <1>1, <1>4

\* A sum is its first term and the sum of the others.
LEMMA SumHead ==
    ASSUME NEW n \in Nat, NEW f \in Vector(n + 1), NEW g \in Vector(n),
           \A i \in 1..n : g[i] = f[i + 1]
    PROVE  Sum(f) = GfAdd(f[1], Sum(g))
<1>0. n + 1 \in Nat
  OBVIOUS
<1>1. PICK r, q : /\ IsSumRun(r, f, n + 1) /\ Sum(f) = r[n + 1]
                  /\ IsSumRun(q, g, n) /\ Sum(g) = q[n]
  BY <1>0, SumRun
<1> DEFINE S == {i \in 0..n : r[i + 1] = GfAdd(f[1], q[i])}
<1>2. 0 \in S
  <2>1. 1 \in 1..(n + 1) /\ f[1] \in Byte
    BY DEF Vector
  <2>2. r[0] = 0 /\ r[1] = GfAdd(r[1 - 1], f[1]) /\ q[0] = 0
    BY <1>1, <2>1 DEF IsSumRun
  <2>3. r[1] = GfAdd(f[1], q[0])
    BY <2>1, <2>2, AddZero
  <2> QED
    BY <2>3
<1>3. ASSUME NEW i \in 1..n, i - 1 \in S PROVE i \in S
  <2>1. i + 1 \in 1..(n + 1) /\ (i + 1) - 1 = i /\ (i - 1) + 1 = i /\ 1 \in 1..(n + 1) /\ i - 1 \in 0..n
    OBVIOUS
  <2>2. f[1] \in Byte /\ q[i - 1] \in Byte /\ g[i] \in Byte
    BY <1>1, <2>1 DEF IsSumRun, Vector
  <2>3. r[i + 1] = GfAdd(r[i], g[i]) /\ r[i] = GfAdd(f[1], q[i - 1])
        /\ q[i] = GfAdd(q[i - 1], g[i])
    BY <1>1, <1>3, <2>1 DEF IsSumRun
  <2>4. r[i + 1] = GfAdd(f[1], q[i])
    BY <2>2, <2>3, AddAssociates
  <2> QED
    BY <2>4
<1>4. \A i \in 0..n : i \in S
  <2> HIDE DEF S
  <2> QED
    BY <1>2, <1>3, UpTo
<1> QED
  BY <1>1, <1>4

\* The running products of f over the positions in S.
IsProductRun(r, f, n, S) ==
    /\ r \in [0..n -> Byte] /\ r[0] = 1
    /\ \A i \in 1..n : r[i] = IF i \in S THEN GfMul(r[i - 1], f[i]) ELSE r[i - 1]

\* Product is the result of its loop.
LEMMA ProductRun ==
    ASSUME NEW n \in Nat, NEW f \in Vector(n), NEW S
    PROVE  \E r : IsProductRun(r, f, n, S) /\ Product(f, S) = r[n]
<1> DEFINE step == [i \in 1..n |-> [s \in Byte |-> IF i \in S THEN GfMul(s, f[i]) ELSE s]]
           F(r) == [i \in 0..n |-> IF i = 0 THEN 1
                                   ELSE IF i \in S THEN GfMul(r[i - 1], f[i]) ELSE r[i - 1]]
<1>0. Len(f) = n /\ \A i \in 1..n : f[i] \in Byte
  BY VectorLen DEF Vector
<1>1. PICK r \in [0..n -> Byte] : IsRun(r, n, 1, step)
  <2>1. step \in [1..n -> [Byte -> Byte]] /\ 1 \in Byte
    BY <1>0, MulType, ByteSplit
  <2> HIDE DEF step
  <2> QED
    BY <2>1, RunExists
<1>2. r[0] = 1 /\ \A i \in 1..n : r[i] = IF i \in S THEN GfMul(r[i - 1], f[i]) ELSE r[i - 1]
  <2>1. \A i \in 1..n, s \in Byte : step[i][s] = IF i \in S THEN GfMul(s, f[i]) ELSE s
    OBVIOUS
  <2>2. \A i \in 1..n : r[i - 1] \in Byte
    BY <1>1
  <2> HIDE DEF step
  <2> QED
    BY <1>1, <2>1, <2>2 DEF IsRun
<1>3. r = F(r)
  <2>1. \A i \in 0..n : r[i] = IF i = 0 THEN 1
                               ELSE IF i \in S THEN GfMul(r[i - 1], f[i]) ELSE r[i - 1]
    BY <1>2
  <2> QED
    BY <2>1
<1>4. Product(f, S) = (CHOOSE q : q = F(q))[n]
  BY <1>0 DEF Product
<1> DEFINE q == CHOOSE q : q = F(q)
<1>5. q = F(q)
  BY <1>3
<1> HIDE DEF q
<1>6. q[0] = 1 /\ \A i \in 1..n : q[i] = IF i \in S THEN GfMul(q[i - 1], f[i]) ELSE q[i - 1]
  BY <1>5
<1> HIDE DEF F, step
<1>7. \A i \in 0..n : q[i] = r[i]
  <2> DEFINE U == {i \in 0..n : q[i] = r[i]}
  <2>1. 0 \in U
    BY <1>2, <1>6
  <2>2. \A i \in 1..n : i - 1 \in U => i \in U
    BY <1>2, <1>6
  <2>3. \A i \in 0..n : i \in U
    <3> HIDE DEF U
    <3> QED
      BY <2>1, <2>2, UpTo
  <2> QED
    BY <2>3
<1>8. Product(f, S) = r[n]
  BY <1>4, <1>7 DEF q
<1> QED
  BY <1>2, <1>8 DEF IsProductRun

\* A product of bytes is a byte.
LEMMA ProductType ==
    ASSUME NEW n \in Nat, NEW f \in Vector(n), NEW S
    PROVE  Product(f, S) \in Byte
  BY ProductRun DEF IsProductRun

\* The product over no position is 1.
LEMMA ProductEmpty ==
    ASSUME NEW n \in Nat, NEW f \in Vector(n)
    PROVE  Product(f, {}) = 1
<1>1. PICK r : IsProductRun(r, f, n, {}) /\ Product(f, {}) = r[n]
  BY ProductRun
<1> DEFINE U == {i \in 0..n : r[i] = 1}
<1>2. 0 \in U
  BY <1>1 DEF IsProductRun
<1>3. \A i \in 1..n : i - 1 \in U => i \in U
  BY <1>1 DEF IsProductRun
<1>4. \A i \in 0..n : i \in U
  <2> HIDE DEF U
  <2> QED
    BY <1>2, <1>3, UpTo
<1> QED
  BY <1>1, <1>4

\* A product without a factor 0 is not 0.
LEMMA ProductNonZero ==
    ASSUME NEW n \in Nat, NEW f \in Vector(n), NEW S, \A i \in S : f[i] # 0
    PROVE  Product(f, S) \in NonZero
<1>1. PICK r : IsProductRun(r, f, n, S) /\ Product(f, S) = r[n]
  BY ProductRun
<1> DEFINE U == {i \in 0..n : r[i] # 0}
<1>2. 0 \in U
  BY <1>1 DEF IsProductRun
<1>3. ASSUME NEW i \in 1..n, i - 1 \in U PROVE i \in U
  <2>1. r[i - 1] \in Byte /\ r[i - 1] # 0 /\ f[i] \in Byte
    BY <1>1, <1>3 DEF IsProductRun, Vector
  <2>2. r[i] # 0
    BY <1>1, <2>1, MulType DEF IsProductRun
  <2> QED
    BY <2>2
<1>4. \A i \in 0..n : i \in U
  <2> HIDE DEF U
  <2> QED
    BY <1>2, <1>3, UpTo
<1>5. r[n] \in Byte /\ r[n] # 0
  BY <1>1, <1>4 DEF IsProductRun
<1> QED
  BY <1>1, <1>5, ByteSplit

\* Any factor can be taken out.
LEMMA ProductRemove ==
    ASSUME NEW n \in Nat, NEW f \in Vector(n), NEW S, NEW e \in 1..n, e \in S
    PROVE  Product(f, S) = GfMul(f[e], Product(f, S \ {e}))
<1>1. PICK r, q : /\ IsProductRun(r, f, n, S) /\ Product(f, S) = r[n]
                  /\ IsProductRun(q, f, n, S \ {e}) /\ Product(f, S \ {e}) = q[n]
  BY ProductRun
<1> DEFINE U == {i \in 0..n : r[i] = IF i < e THEN q[i] ELSE GfMul(f[e], q[i])}
<1>2. 0 \in U
  BY <1>1 DEF IsProductRun
<1>3. ASSUME NEW i \in 1..n, i - 1 \in U PROVE i \in U
  <2>1. q[i - 1] \in Byte /\ f[i] \in Byte /\ f[e] \in Byte
    BY <1>1 DEF IsProductRun, Vector
  <2>2. /\ r[i] = IF i \in S THEN GfMul(r[i - 1], f[i]) ELSE r[i - 1]
        /\ q[i] = IF i \in S \ {e} THEN GfMul(q[i - 1], f[i]) ELSE q[i - 1]
    BY <1>1 DEF IsProductRun
  <2>3. CASE i < e
    <3>1. r[i - 1] = q[i - 1]
      BY <1>3, <2>3
    <3> QED
      BY <2>2, <2>3, <3>1
  <2>4. CASE i = e
    <3>1. r[i - 1] = q[i - 1]
      BY <1>3, <2>4
    <3>2. r[i] = GfMul(q[i], f[e])
      BY <2>2, <2>4, <3>1
    <3>3. q[i] \in Byte
      BY <2>1, <2>2, <2>4
    <3>4. r[i] = GfMul(f[e], q[i])
      BY <2>1, <3>2, <3>3, MulCommutes
    <3> QED
      BY <2>4, <3>4
  <2>5. CASE i > e
    <3>1. r[i - 1] = GfMul(f[e], q[i - 1])
      BY <1>3, <2>5
    <3>2. i \in S <=> i \in S \ {e}
      BY <2>5
    <3>3. r[i] = GfMul(f[e], q[i])
      BY <2>1, <2>2, <3>1, <3>2, MulAssociates
    <3> QED
      BY <2>5, <3>3
  <2> QED
    BY <2>3, <2>4, <2>5
<1>4. \A i \in 0..n : i \in U
  <2> HIDE DEF U
  <2> QED
    BY <1>2, <1>3, UpTo
<1> QED
  BY <1>1, <1>4

\* Powers of x: the zeroth is 1, each further one has one more factor x.
LEMMA PowerNext ==
    ASSUME NEW x \in Byte, NEW d \in Nat
    PROVE  Power(x, 0) = 1 /\ Power(x, d) \in Byte /\ Power(x, d + 1) = GfMul(x, Power(x, d))
<1> DEFINE v(m) == [j \in 1..m |-> x]
<1>1. \A m \in Nat : v(m) \in Vector(m) /\ Power(x, m) = Product(v(m), 1..m)
  BY DEF Vector, Power
<1>2. Power(x, 0) = 1
  <2>1. 1..0 = {}
    OBVIOUS
  <2>2. Product(v(0), {}) = 1
    <3>1. 0 \in Nat /\ v(0) \in Vector(0)
      BY <1>1
    <3> HIDE DEF v
    <3> QED
      BY <3>1, ProductEmpty
  <2> QED
    BY <1>1, <2>1, <2>2
<1>3. Power(x, d) \in Byte
  <2> HIDE DEF v
  <2> QED
    BY <1>1, ProductType
<1>4. PICK r, q : /\ IsProductRun(r, v(d + 1), d + 1, 1..(d + 1)) /\ Power(x, d + 1) = r[d + 1]
                  /\ IsProductRun(q, v(d), d, 1..d) /\ Power(x, d) = q[d]
  <2>1. d + 1 \in Nat
    OBVIOUS
  <2> HIDE DEF v
  <2> QED
    BY <1>1, <2>1, ProductRun
<1>5. /\ r[0] = 1 /\ \A i \in 1..(d + 1) : r[i] = GfMul(r[i - 1], x)
      /\ q[0] = 1 /\ \A i \in 1..d : q[i] = GfMul(q[i - 1], x)
  BY <1>4 DEF IsProductRun
<1> DEFINE U == {i \in 0..d : r[i] = q[i]}
<1>6. 0 \in U
  BY <1>5
<1>7. ASSUME NEW i \in 1..d, i - 1 \in U PROVE i \in U
  <2>1. i \in 1..(d + 1) /\ r[i - 1] = q[i - 1]
    BY <1>7
  <2> QED
    BY <1>5, <2>1
<1>8. \A i \in 0..d : i \in U
  <2> HIDE DEF U
  <2> QED
    BY <1>6, <1>7, UpTo
<1>9. r[d + 1] = GfMul(q[d], x)
  <2>1. d + 1 \in 1..(d + 1) /\ (d + 1) - 1 = d /\ d \in 0..d
    OBVIOUS
  <2> QED
    BY <1>5, <1>8, <2>1
<1>10. Power(x, d + 1) = GfMul(Power(x, d), x)
  BY <1>4, <1>9
<1> QED
  BY <1>2, <1>3, <1>10, MulCommutes

-----------------------------------------------------------------------------
(* Lagrange interpolation *)

\* The indices of n different shares.
Indices(n) == {xs \in Vector(n) : /\ \A i \in 1..n : xs[i] # 0
                                  /\ \A i, j \in 1..n : xs[i] = xs[j] => i = j}

Differences(xs, i) == [j \in DOMAIN xs |-> GfAdd(xs[i], xs[j])]

\* What the i-th share counts when the shares at the positions in S are used.
Weight(xs, S, i) ==
    IF i \in S THEN GfDiv(Product(xs, S \ {i}), Product(Differences(xs, i), S \ {i})) ELSE 0

\* The differences to another index are not 0.
LEMMA DifferencesType ==
    ASSUME NEW n \in Nat, NEW xs \in Indices(n), NEW i \in 1..n
    PROVE  /\ xs \in Vector(n) /\ DOMAIN xs = 1..n
           /\ \A j \in 1..n : xs[j] \in Byte /\ xs[j] \in NonZero
           /\ Differences(xs, i) \in Vector(n)
           /\ \A j \in 1..n : Differences(xs, i)[j] = GfAdd(xs[i], xs[j])
           /\ \A j \in 1..n : j # i => GfAdd(xs[i], xs[j]) \in NonZero
<1>1. xs \in Vector(n) /\ DOMAIN xs = 1..n /\ \A j \in 1..n : xs[j] \in Byte /\ xs[j] # 0
  BY DEF Indices, Vector
<1>2. \A j \in 1..n : GfAdd(xs[i], xs[j]) \in Byte
  BY <1>1, AddType
<1>3. /\ Differences(xs, i) \in Vector(n)
      /\ \A j \in 1..n : Differences(xs, i)[j] = GfAdd(xs[i], xs[j])
  BY <1>1, <1>2 DEF Differences, Vector
<1>4. \A j \in 1..n : j # i => GfAdd(xs[i], xs[j]) # 0
  BY <1>1, AddCancels DEF Indices
<1> QED
  BY <1>1, <1>2, <1>3, <1>4, ByteSplit

\* The weight of an index: the value of its basis polynomial at 0.
LEMMA WeightType ==
    ASSUME NEW n \in Nat, NEW xs \in Indices(n), NEW S \in SUBSET (1..n), NEW i \in 1..n
    PROVE  /\ Weight(xs, S, i) \in Byte
           /\ i \notin S => Weight(xs, S, i) = 0
           /\ i \in S => /\ Weight(xs, S, i) # 0
                         /\ Product(Differences(xs, i), S \ {i}) \in NonZero
                         /\ Product(xs, S \ {i}) \in NonZero
                         /\ GfMul(Weight(xs, S, i), Product(Differences(xs, i), S \ {i}))
                              = Product(xs, S \ {i})
<1>1. CASE i \notin S
  BY <1>1, ByteSplit DEF Weight
<1>2. CASE i \in S
  <2>1. Product(xs, S \ {i}) \in NonZero
    BY DifferencesType, ProductNonZero, ByteSplit
  <2>2. Product(Differences(xs, i), S \ {i}) \in NonZero
    <3>1. \A j \in S \ {i} : Differences(xs, i)[j] # 0
      BY DifferencesType, ByteSplit
    <3> QED
      BY <3>1, DifferencesType, ProductNonZero
  <2>3. Weight(xs, S, i) = GfDiv(Product(xs, S \ {i}), Product(Differences(xs, i), S \ {i}))
    BY <1>2 DEF Weight
  <2> QED
    BY <1>2, <2>1, <2>2, <2>3, DivType, ByteSplit
<1> QED
  BY <1>1, <1>2

\* How the weights change when the share at e is left out.
LEMMA WeightRemove ==
    ASSUME NEW n \in Nat, NEW xs \in Indices(n), NEW S \in SUBSET (1..n),
           NEW e \in S, NEW i \in 1..n
    PROVE  GfMul(GfAdd(xs[i], xs[e]), Weight(xs, S, i)) = GfMul(xs[e], Weight(xs, S \ {e}, i))
<1>0. e \in 1..n /\ S \ {e} \in SUBSET (1..n)
  OBVIOUS
<1>1. xs[i] \in Byte /\ xs[e] \in Byte /\ GfAdd(xs[i], xs[e]) \in Byte
  BY <1>0, DifferencesType, AddType
<1>2. CASE i \notin S
  <2>1. Weight(xs, S, i) = 0
    BY <1>2, WeightType
  <2>2. Weight(xs, S \ {e}, i) = 0
    BY <1>0, <1>2, WeightType
  <2> QED
    BY <1>1, <2>1, <2>2, MulType
<1>3. CASE i = e
  <2>1. GfAdd(xs[i], xs[e]) = 0
    BY <1>1, <1>3, AddZero
  <2>2. Weight(xs, S \ {e}, i) = 0
    BY <1>0, <1>3, WeightType
  <2>3. Weight(xs, S, i) \in Byte
    BY WeightType
  <2> QED
    BY <1>1, <2>1, <2>2, <2>3, MulType
<1>4. CASE i \in S /\ i # e
  <2> DEFINE R == S \ {e}
             d == GfAdd(xs[i], xs[e])
             P == Product(xs, S \ {i})
             Q == Product(Differences(xs, i), S \ {i})
             p == Product(xs, R \ {i})
             q == Product(Differences(xs, i), R \ {i})
             w == Weight(xs, S, i)
             u == Weight(xs, R, i)
  <2>1. (S \ {i}) \ {e} = R \ {i} /\ e \in S \ {i} /\ i \in R
    BY <1>4
  <2>2. P = GfMul(xs[e], p)
    <3>1. xs \in Vector(n)
      BY DifferencesType
    <3>2. P = GfMul(xs[e], Product(xs, (S \ {i}) \ {e}))
      BY <1>0, <2>1, <3>1, ProductRemove
    <3> QED
      BY <2>1, <3>2
  <2>3. Q = GfMul(d, q)
    <3>1. Differences(xs, i)[e] = d
      BY <1>0, DifferencesType
    <3>2. Differences(xs, i) \in Vector(n)
      BY DifferencesType
    <3>3. Q = GfMul(d, Product(Differences(xs, i), (S \ {i}) \ {e}))
      BY <1>0, <2>1, <3>1, <3>2, ProductRemove
    <3> QED
      BY <2>1, <3>3
  <2>4. w \in Byte /\ GfMul(w, Q) = P
    BY <1>4, WeightType
  <2>5. u \in Byte /\ GfMul(u, q) = p /\ q \in NonZero
    <3> HIDE DEF R
    <3>1. R \in SUBSET (1..n) /\ i \in R
      BY <1>0, <2>1 DEF R
    <3> QED
      BY <3>1, WeightType
  <2>6. d \in Byte /\ xs[e] \in Byte /\ q \in Byte
    BY <1>1, <2>5, ByteSplit
  <2> HIDE DEF R, d, P, Q, p, q, w, u
  <2>7. GfMul(GfMul(d, w), q) = GfMul(w, GfMul(d, q))
    BY <2>4, <2>6, MulCommutes, MulAssociates
  <2>8. GfMul(GfMul(xs[e], u), q) = GfMul(xs[e], p)
    BY <2>5, <2>6, MulAssociates
  <2>9. GfMul(GfMul(d, w), q) = GfMul(GfMul(xs[e], u), q)
    BY <2>2, <2>3, <2>4, <2>7, <2>8
  <2>10. GfMul(d, w) \in Byte /\ GfMul(xs[e], u) \in Byte
    BY <2>4, <2>5, <2>6, MulType
  <2>11. GfMul(d, w) = GfMul(xs[e], u)
    BY <2>5, <2>9, <2>10, MulCancels
  <2> QED
    BY <2>11 DEF d, w, u, R
<1> QED
  BY <1>2, <1>3, <1>4

\* The interpolated value at 0 of the d-th power.
Terms(xs, n, S, d) == [i \in 1..n |-> GfMul(Power(xs[i], d), Weight(xs, S, i))]
Moment(xs, n, S, d) == Sum(Terms(xs, n, S, d))

\* The moments are bytes.
LEMMA TermsType ==
    ASSUME NEW n \in Nat, NEW xs \in Indices(n), NEW S \in SUBSET (1..n), NEW d \in Nat
    PROVE  Terms(xs, n, S, d) \in Vector(n) /\ Moment(xs, n, S, d) \in Byte
<1>1. \A i \in 1..n : xs[i] \in Byte
  BY DifferencesType
<1>2. \A i \in 1..n : GfMul(Power(xs[i], d), Weight(xs, S, i)) \in Byte
  BY <1>1, PowerNext, WeightType, MulType
<1>3. Terms(xs, n, S, d) \in Vector(n)
  BY <1>2 DEF Terms, Vector
<1> QED
  BY <1>3, SumType DEF Moment

\* The next power, from this one with and without the share at e.
LEMMA MomentNext ==
    ASSUME NEW n \in Nat, NEW xs \in Indices(n), NEW S \in SUBSET (1..n), NEW e \in S, NEW d \in Nat
    PROVE  Moment(xs, n, S, d + 1)
             = GfMul(xs[e], GfAdd(Moment(xs, n, S \ {e}, d), Moment(xs, n, S, d)))
<1> DEFINE R == S \ {e}
           f == Terms(xs, n, R, d)
           g == Terms(xs, n, S, d)
           s == [i \in 1..n |-> GfAdd(f[i], g[i])]
           h == Terms(xs, n, S, d + 1)
<1>1. e \in 1..n /\ R \in SUBSET (1..n) /\ d + 1 \in Nat /\ xs[e] \in Byte
  BY DifferencesType
<1>2. f \in Vector(n) /\ g \in Vector(n) /\ h \in Vector(n)
  BY <1>1, TermsType
<1>3. s \in Vector(n)
  BY <1>2, AddType DEF Vector
<1>4. ASSUME NEW i \in 1..n PROVE h[i] = GfMul(xs[e], s[i])
  <2> DEFINE x == xs[i]
             y == xs[e]
             p == Power(x, d)
             w == Weight(xs, S, i)
             u == Weight(xs, R, i)
  <2>1. /\ f[i] = GfMul(p, u) /\ g[i] = GfMul(p, w) /\ h[i] = GfMul(GfMul(x, p), w)
        /\ s[i] = GfAdd(GfMul(p, u), GfMul(p, w))
    <3>1. Power(x, d + 1) = GfMul(x, p)
      BY DifferencesType, PowerNext
    <3> QED
      BY <3>1 DEF Terms
  <2>2. x \in Byte /\ y \in Byte /\ p \in Byte /\ w \in Byte /\ u \in Byte
    BY <1>1, DifferencesType, PowerNext, WeightType, ZenonT(40)
  <2>3. GfMul(GfAdd(x, y), w) = GfMul(y, u)
    BY WeightRemove
  <2> HIDE DEF x, y, p, w, u, R
  <2>4. GfMul(x, w) \in Byte /\ GfMul(y, w) \in Byte /\ GfMul(y, u) \in Byte
    BY <2>2, MulType
  <2>5. GfMul(x, w) = GfAdd(GfMul(y, u), GfMul(y, w))
    <3>1. GfMul(GfAdd(x, y), w) = GfAdd(GfMul(x, w), GfMul(y, w))
      BY <2>2, MulDistributes
    <3> QED
      BY <2>3, <2>4, <3>1, AddCancels
  <2>6. GfMul(GfMul(x, p), w) = GfMul(p, GfMul(x, w))
    BY <2>2, MulCommutes, MulAssociates
  <2>7. GfAdd(u, w) \in Byte /\ GfAdd(GfMul(y, u), GfMul(y, w)) = GfMul(y, GfAdd(u, w))
    BY <2>2, AddType, MulDistributes
  <2>8. GfMul(p, GfMul(y, GfAdd(u, w))) = GfMul(y, GfMul(p, GfAdd(u, w)))
    BY <2>2, <2>7, MulCommutes, MulAssociates
  <2>9. GfMul(p, GfAdd(u, w)) = GfAdd(GfMul(p, u), GfMul(p, w))
    BY <2>2, MulDistributes
  <2>10. h[i] = GfMul(y, s[i])
    BY <2>1, <2>5, <2>6, <2>7, <2>8, <2>9
  <2> QED
    BY <2>10 DEF y
<1>5. \A i \in 1..n : s[i] = GfAdd(f[i], g[i])
  OBVIOUS
<1> HIDE DEF f, g, s, h, R
<1>6. Sum(s) = GfAdd(Sum(f), Sum(g))
  BY <1>2, <1>3, <1>5, SumAdds
<1>7. Sum(h) = GfMul(xs[e], Sum(s))
  BY <1>1, <1>2, <1>3, <1>4, SumScales
<1> QED
  BY <1>6, <1>7 DEF Moment, f, g, h, R

\* With one share only, it counts once.
LEMMA MomentOfOne ==
    ASSUME NEW n \in Nat, NEW xs \in Indices(n), NEW e \in 1..n
    PROVE  Moment(xs, n, {e}, 0) = 1
<1> DEFINE f == Terms(xs, n, {e}, 0)
<1>1. {e} \in SUBSET (1..n) /\ 0 \in Nat
  OBVIOUS
<1>2. Weight(xs, {e}, e) = 1
  <2>1. {e} \ {e} = {}
    OBVIOUS
  <2>2. Product(xs, {}) = 1 /\ Product(Differences(xs, e), {}) = 1
    BY DifferencesType, ProductEmpty
  <2>3. Weight(xs, {e}, e) \in Byte /\ GfMul(Weight(xs, {e}, e), 1) = 1
    <3>1. e \in {e}
      OBVIOUS
    <3> QED
      BY <1>1, <2>1, <2>2, <3>1, WeightType
  <2> QED
    BY <2>3, MulOne
<1>3. \A i \in 1..n : i # e => Weight(xs, {e}, i) = 0
  BY <1>1, WeightType
<1>4. \A i \in 1..n : xs[i] \in Byte /\ Power(xs[i], 0) = 1
  BY <1>1, DifferencesType, PowerNext
<1>5. f[e] = 1
  BY <1>2, <1>4, MulOne, ByteSplit DEF Terms
<1>6. \A i \in 1..n : i # e => f[i] = 0
  BY <1>3, <1>4, MulOne, ByteSplit DEF Terms
<1>7. f \in Vector(n)
  BY <1>1, TermsType
<1> HIDE DEF f
<1>8. Sum(f) = f[e]
  BY <1>6, <1>7, SumSingle
<1> QED
  BY <1>5, <1>8 DEF Moment, f

\* Neville's recurrence: the weights of S from those without a and without b.
LEMMA MomentOfTwo ==
    ASSUME NEW n \in Nat, NEW xs \in Indices(n), NEW S \in SUBSET (1..n),
           NEW a \in S, NEW b \in S, a # b,
           Moment(xs, n, S \ {a}, 0) = 1, Moment(xs, n, S \ {b}, 0) = 1
    PROVE  Moment(xs, n, S, 0) = 1
<1> DEFINE A == S \ {a}
           B == S \ {b}
           x == xs[a]
           y == xs[b]
           f == Terms(xs, n, S, 0)
           g == Terms(xs, n, A, 0)
           h == Terms(xs, n, B, 0)
           p == [i \in 1..n |-> GfMul(x, g[i])]
           q == [i \in 1..n |-> GfMul(y, h[i])]
           r == [i \in 1..n |-> GfMul(GfAdd(x, y), f[i])]
<1>1. /\ a \in 1..n /\ b \in 1..n /\ A \in SUBSET (1..n) /\ B \in SUBSET (1..n) /\ 0 \in Nat
  OBVIOUS
<1>2. x \in Byte /\ y \in Byte /\ GfAdd(x, y) \in NonZero /\ GfAdd(x, y) \in Byte
  BY <1>1, DifferencesType, ByteSplit
<1>3. f \in Vector(n) /\ g \in Vector(n) /\ h \in Vector(n)
  BY <1>1, TermsType
<1>4. p \in Vector(n) /\ q \in Vector(n) /\ r \in Vector(n)
  BY <1>2, <1>3, MulType DEF Vector
<1>5. ASSUME NEW i \in 1..n PROVE r[i] = GfAdd(p[i], q[i])
  <2> DEFINE w == Weight(xs, S, i)
             u == Weight(xs, A, i)
             v == Weight(xs, B, i)
             z == xs[i]
  <2>1. f[i] = w /\ g[i] = u /\ h[i] = v
    <3>1. z \in Byte /\ Power(z, 0) = 1
      BY <1>1, DifferencesType, PowerNext
    <3>2. w \in Byte /\ u \in Byte /\ v \in Byte
      BY <1>1, WeightType
    <3> QED
      BY <3>1, <3>2, MulOne DEF Terms
  <2>2. /\ GfMul(GfAdd(z, x), w) = GfMul(x, u)
        /\ GfMul(GfAdd(z, y), w) = GfMul(y, v)
    BY WeightRemove
  <2>3. z \in Byte /\ w \in Byte
    BY DifferencesType, WeightType
  <2> HIDE DEF w, u, v, z, f, g, h, x, y
  <2>4. GfAdd(z, x) \in Byte /\ GfAdd(z, y) \in Byte
    BY <1>2, <2>3, AddType
  <2>5. GfAdd(GfAdd(z, x), GfAdd(z, y)) = GfAdd(x, y)
    <3>1. GfAdd(GfAdd(z, x), GfAdd(z, y)) = GfAdd(GfAdd(z, z), GfAdd(x, y))
      BY <1>2, <2>3, AddSwaps
    <3> QED
      BY <1>2, <2>3, <3>1, AddZero
  <2>6. GfMul(GfAdd(x, y), w) = GfAdd(GfMul(x, u), GfMul(y, v))
    BY <2>2, <2>3, <2>4, <2>5, MulDistributes
  <2> QED
    BY <2>1, <2>6
<1>6. /\ \A i \in 1..n : p[i] = GfMul(x, g[i])
      /\ \A i \in 1..n : q[i] = GfMul(y, h[i])
      /\ \A i \in 1..n : r[i] = GfMul(GfAdd(x, y), f[i])
  OBVIOUS
<1>7. Sum(g) = 1 /\ Sum(h) = 1
  BY DEF Moment
<1> HIDE DEF f, g, h, p, q, r, x, y
<1>8. Sum(r) = GfAdd(Sum(p), Sum(q))
  BY <1>4, <1>5, SumAdds
<1>9. Sum(p) = GfMul(x, 1) /\ Sum(q) = GfMul(y, 1) /\ Sum(r) = GfMul(GfAdd(x, y), Sum(f))
  BY <1>2, <1>3, <1>4, <1>6, <1>7, SumScales
<1>10. Sum(f) \in Byte
  BY <1>3, SumType
<1>11. GfMul(Sum(f), GfAdd(x, y)) = GfMul(1, GfAdd(x, y))
  BY <1>2, <1>8, <1>9, <1>10, MulOne, MulCommutes
<1>12. Sum(f) = 1
  BY <1>2, <1>10, <1>11, MulCancels, ByteSplit
<1> QED
  BY <1>12 DEF Moment, f

\* Interpolation through the shares at S recovers the constant 1, and gives 0
\* for every higher power below the number of shares.
Recovers(xs, n, S) ==
    \A d \in 0..(Cardinality(S) - 1) : Moment(xs, n, S, d) = IF d = 0 THEN 1 ELSE 0

\* The weights of any set of indices recover a constant, and nothing of the
\* powers below its size.
LEMMA Moments ==
    ASSUME NEW n \in Nat, NEW xs \in Indices(n), NEW S \in SUBSET (1..n)
    PROVE  Recovers(xs, n, S)
<1> DEFINE U == {m \in 0..n : \A T \in SUBSET (1..n) : Cardinality(T) = m => Recovers(xs, n, T)}
<1>0. \A T \in SUBSET (1..n) : /\ IsFiniteSet(T) /\ Cardinality(T) \in 0..n
                               /\ Cardinality(T) = 0 <=> T = {}
  <2>1. IsFiniteSet(1..n) /\ Cardinality(1..n) = n
    BY FS_Interval
  <2>2. ASSUME NEW T \in SUBSET (1..n)
        PROVE  IsFiniteSet(T) /\ Cardinality(T) <= n /\ Cardinality(T) \in Nat
    BY <2>1, FS_Subset, FS_CardinalityType
  <2>3. \A T : IsFiniteSet(T) => (Cardinality(T) = 0 <=> T = {})
    BY FS_EmptySet
  <2>4. \A T \in SUBSET (1..n) : Cardinality(T) \in 0..n
    BY <2>2
  <2> QED
    BY <2>2, <2>3, <2>4
<1>1. 0 \in U
  BY DEF Recovers
<1>2. ASSUME NEW m \in 1..n, m - 1 \in U PROVE m \in U
  <2> SUFFICES ASSUME NEW T \in SUBSET (1..n), Cardinality(T) = m PROVE Recovers(xs, n, T)
    OBVIOUS
  <2>1. ASSUME NEW e \in T
        PROVE  /\ e \in 1..n /\ T \ {e} \in SUBSET (1..n) /\ Cardinality(T \ {e}) = m - 1
               /\ Recovers(xs, n, T \ {e})
    <3>1. Cardinality(T \ {e}) = m - 1
      BY <1>0, FS_RemoveElement
    <3>2. T \ {e} \in SUBSET (1..n)
      OBVIOUS
    <3> QED
      BY <1>2, <3>1, <3>2
  <2>2. PICK a \in T : TRUE
    BY <1>0
  <2>3. Moment(xs, n, T, 0) = 1
    <3>1. CASE m = 1
      <4>1. T \ {a} = {}
        <5>1. Cardinality(T \ {a}) = 0 /\ T \ {a} \in SUBSET (1..n)
          BY <2>1, <2>2, <3>1
        <5> QED
          BY <1>0, <5>1
      <4>2. T = {a} /\ a \in 1..n
        BY <2>2, <4>1
      <4> QED
        BY <4>2, MomentOfOne
    <3>2. CASE m # 1
      <4>1. PICK b \in T : b # a
        <5>1. T \ {a} # {}
          <6>1. Cardinality(T \ {a}) # 0 /\ T \ {a} \in SUBSET (1..n)
            BY <2>1, <2>2, <3>2
          <6> QED
            BY <1>0, <6>1
        <5> QED
          BY <5>1
      <4>2. Moment(xs, n, T \ {a}, 0) = 1 /\ Moment(xs, n, T \ {b}, 0) = 1
        <5>1. 0 \in 0..((m - 1) - 1)
          BY <3>2
        <5> QED
          BY <2>1, <2>2, <4>1, <5>1 DEF Recovers
      <4> QED
        BY <2>2, <4>1, <4>2, MomentOfTwo
    <3> QED
      BY <3>1, <3>2
  <2> DEFINE V == {d \in 0..(m - 1) : Moment(xs, n, T, d) = IF d = 0 THEN 1 ELSE 0}
  <2>4. 0 \in V
    BY <2>3
  <2>5. ASSUME NEW d \in 1..(m - 1), d - 1 \in V PROVE d \in V
    <3>1. d - 1 \in 0..((m - 1) - 1) /\ d - 1 \in Nat /\ (d - 1) + 1 = d
      OBVIOUS
    <3>2. Moment(xs, n, T \ {a}, d - 1) = Moment(xs, n, T, d - 1)
      BY <2>1, <2>2, <2>5, <3>1 DEF Recovers
    <3>3. Moment(xs, n, T, d) = GfMul(xs[a], GfAdd(Moment(xs, n, T \ {a}, d - 1), Moment(xs, n, T, d - 1)))
      <4>1. Moment(xs, n, T, (d - 1) + 1) = GfMul(xs[a], GfAdd(Moment(xs, n, T \ {a}, d - 1), Moment(xs, n, T, d - 1)))
        BY <2>2, <3>1, MomentNext
      <4> QED
        BY <3>1, <4>1
    <3>4. Moment(xs, n, T, d - 1) \in Byte /\ xs[a] \in Byte
      BY <2>1, <2>2, <3>1, TermsType, DifferencesType
    <3>5. Moment(xs, n, T, d) = 0
      BY <3>2, <3>3, <3>4, AddZero, MulType
    <3> QED
      BY <3>5
  <2>6. \A d \in 0..(m - 1) : d \in V
    <3>1. m - 1 \in Nat
      OBVIOUS
    <3> HIDE DEF V
    <3> QED
      BY <2>4, <2>5, <3>1, UpTo
  <2> QED
    BY <2>6 DEF Recovers
<1>3. \A m \in 0..n : m \in U
  <2> HIDE DEF U
  <2> QED
    BY <1>1, <1>2, UpTo
<1> QED
  BY <1>0, <1>3

\* The summands of the interpolation.
Weighted(xs, ys, n) == [i \in 1..n |-> GfMul(ys[i], Weight(xs, 1..n, i))]

\* The interpolation is the sum of the weighted values.
LEMMA InterpolateDef ==
    ASSUME NEW n \in Nat, NEW xs \in Indices(n), NEW ys \in Vector(n)
    PROVE  /\ LagrangeInterpolate(xs, ys) = Sum(Weighted(xs, ys, n))
           /\ Weighted(xs, ys, n) \in Vector(n)
           /\ LagrangeInterpolate(xs, ys) \in Byte
<1>1. DOMAIN xs = 1..n
  BY DEF Indices, Vector
<1>2. \A i \in 1..n : Weight(xs, 1..n, i)
        = GfDiv(Product(xs, (1..n) \ {i}), Product(Differences(xs, i), (1..n) \ {i}))
  BY DEF Weight
<1>3. Weighted(xs, ys, n)
        = [i \in 1..n |-> GfMul(ys[i], GfDiv(Product(xs, (1..n) \ {i}),
                                             Product(Differences(xs, i), (1..n) \ {i})))]
  BY <1>2 DEF Weighted
<1>4. LagrangeInterpolate(xs, ys)
        = Sum([i \in 1..n |-> GfMul(ys[i], GfDiv(Product(xs, (1..n) \ {i}),
                                                 Product(Differences(xs, i), (1..n) \ {i})))])
  BY <1>1 DEF LagrangeInterpolate, Differences
<1>5. Weighted(xs, ys, n) \in Vector(n)
  <2>1. ASSUME NEW i \in 1..n PROVE GfMul(ys[i], Weight(xs, 1..n, i)) \in Byte
    <3>1. ys[i] \in Byte /\ 1..n \in SUBSET (1..n)
      BY DEF Vector
    <3> QED
      BY <3>1, WeightType, MulType
  <2> QED
    BY <2>1 DEF Weighted, Vector
<1>6. LagrangeInterpolate(xs, ys) = Sum(Weighted(xs, ys, n))
  BY <1>3, <1>4
<1> QED
  BY <1>5, <1>6, SumType

\* The summands of the value at x of the polynomial with coefficients cs.
Monomials(cs, m, x) == [j \in 1..m |-> GfMul(cs[j], Power(x, j - 1))]

\* The evaluation is the sum of the monomials.
LEMMA EvalDef ==
    ASSUME NEW m \in Nat, NEW cs \in Vector(m), NEW x \in Byte
    PROVE  /\ Monomials(cs, m, x) \in Vector(m)
           /\ EvalAt(cs, x) = Sum(Monomials(cs, m, x))
           /\ EvalAt(cs, x) \in Byte
<1>1. Len(cs) = m
  BY VectorLen DEF Vector
<1>2. ASSUME NEW j \in 1..m PROVE GfMul(cs[j], Power(x, j - 1)) \in Byte
  <2>1. cs[j] \in Byte /\ j - 1 \in Nat
    BY DEF Vector
  <2> QED
    BY <2>1, PowerNext, MulType
<1>3. Monomials(cs, m, x) \in Vector(m)
  BY <1>2 DEF Monomials, Vector
<1>4. EvalAt(cs, x) = Sum(Monomials(cs, m, x))
  BY <1>1 DEF EvalAt, Monomials
<1> QED
  BY <1>3, <1>4, SumType

\* The constant coefficient of a polynomial is recovered from its values at as
\* many points as it has coefficients, or more.
LEMMA Interpolates ==
    ASSUME NEW n \in Nat, NEW xs \in Indices(n), NEW m \in 1..n, NEW cs \in Vector(m),
           NEW ys \in Vector(n), \A i \in 1..n : ys[i] = EvalAt(cs, xs[i])
    PROVE  LagrangeInterpolate(xs, ys) = cs[1]
<1> DEFINE w == [i \in 1..n |-> Weight(xs, 1..n, i)]
           R(i) == CHOOSE r : IsSumRun(r, Monomials(cs, m, xs[i]), m)
                              /\ Sum(Monomials(cs, m, xs[i])) = r[m]
           E(j) == [i \in 1..n |-> GfMul(R(i)[j], w[i])]
<1>1. m \in Nat /\ 1..n \in SUBSET (1..n) /\ \A j \in 1..m : cs[j] \in Byte
  BY DEF Vector
<1>2. \A i \in 1..n : xs[i] \in Byte /\ w[i] \in Byte
  BY <1>1, DifferencesType, WeightType
<1>3. ASSUME NEW i \in 1..n
      PROVE  IsSumRun(R(i), Monomials(cs, m, xs[i]), m) /\ ys[i] = R(i)[m]
  <2>1. \E r : IsSumRun(r, Monomials(cs, m, xs[i]), m) /\ Sum(Monomials(cs, m, xs[i])) = r[m]
    BY <1>1, <1>2, EvalDef, SumRun
  <2>2. IsSumRun(R(i), Monomials(cs, m, xs[i]), m) /\ Sum(Monomials(cs, m, xs[i])) = R(i)[m]
    BY <2>1
  <2> QED
    BY <1>1, <1>2, <2>2, EvalDef
<1> HIDE DEF R
<1>4. \A i \in 1..n : /\ \A j \in 0..m : R(i)[j] \in Byte
                      /\ R(i)[0] = 0
                      /\ \A j \in 1..m : R(i)[j] = GfAdd(R(i)[j - 1], GfMul(cs[j], Power(xs[i], j - 1)))
  BY <1>3 DEF IsSumRun, Monomials
<1>5. \A j \in 0..m : E(j) \in Vector(n)
  BY <1>2, <1>4, MulType DEF Vector
<1> DEFINE U == {j \in 0..m : Sum(E(j)) = IF j = 0 THEN 0 ELSE cs[1]}
<1>6. 0 \in U
  <2>1. ASSUME NEW i \in 1..n PROVE E(0)[i] = 0
    <3>1. E(0)[i] = GfMul(R(i)[0], w[i])
      OBVIOUS
    <3>2. R(i)[0] = 0 /\ w[i] \in Byte
      BY <1>2, <1>4
    <3> HIDE DEF E, w
    <3> QED
      BY <3>1, <3>2, MulType
  <2>2. E(0) \in Vector(n) /\ n \in 1..n
    BY <1>1, <1>5
  <2> HIDE DEF E
  <2>3. Sum(E(0)) = 0
    BY <2>1, <2>2, SumSingle
  <2> QED
    BY <2>3
<1>7. ASSUME NEW j \in 1..m, j - 1 \in U PROVE j \in U
  <2> DEFINE t == Terms(xs, n, 1..n, j - 1)
             h == [i \in 1..n |-> GfMul(cs[j], t[i])]
  <2>1. j - 1 \in Nat /\ j - 1 \in 0..m /\ j \in 0..m /\ cs[j] \in Byte
    BY <1>1
  <2>2. t \in Vector(n)
    BY <1>1, <2>1, TermsType
  <2>3. h \in Vector(n)
    BY <2>1, <2>2, MulType DEF Vector
  <2>4. ASSUME NEW i \in 1..n PROVE E(j)[i] = GfAdd(E(j - 1)[i], h[i])
    <3> DEFINE p == Power(xs[i], j - 1)
    <3>1. p \in Byte /\ w[i] \in Byte /\ R(i)[j - 1] \in Byte
      BY <1>2, <1>4, <2>1, PowerNext
    <3>2. h[i] = GfMul(cs[j], GfMul(p, w[i]))
      BY DEF Terms
    <3>3. R(i)[j] = GfAdd(R(i)[j - 1], GfMul(cs[j], p))
      BY <1>4
    <3>4. E(j)[i] = GfMul(R(i)[j], w[i]) /\ E(j - 1)[i] = GfMul(R(i)[j - 1], w[i])
      OBVIOUS
    <3> HIDE DEF p, w, h, E
    <3>5. GfMul(cs[j], p) \in Byte
      BY <2>1, <3>1, MulType
    <3>6. E(j)[i] = GfAdd(GfMul(R(i)[j - 1], w[i]), GfMul(GfMul(cs[j], p), w[i]))
      BY <3>1, <3>3, <3>4, <3>5, MulDistributes
    <3>7. GfMul(GfMul(cs[j], p), w[i]) = h[i]
      BY <2>1, <3>1, <3>2, MulAssociates
    <3> QED
      BY <3>4, <3>6, <3>7
  <2>5. E(j) \in Vector(n) /\ E(j - 1) \in Vector(n)
    BY <1>5, <2>1
  <2>6. \A i \in 1..n : h[i] = GfMul(cs[j], t[i])
    OBVIOUS
  <2>7. Sum(t) = IF j - 1 = 0 THEN 1 ELSE 0
    <3>1. Cardinality(1..n) = n
      BY FS_Interval
    <3>2. j - 1 \in 0..(n - 1)
      OBVIOUS
    <3>3. Moment(xs, n, 1..n, j - 1) = IF j - 1 = 0 THEN 1 ELSE 0
      BY <1>1, <3>1, <3>2, Moments DEF Recovers
    <3> QED
      BY <3>3 DEF Moment
  <2>8. Sum(E(j - 1)) = IF j - 1 = 0 THEN 0 ELSE cs[1]
    BY <1>7
  <2> HIDE DEF E, t, h
  <2>9. Sum(E(j)) = GfAdd(Sum(E(j - 1)), Sum(h))
    BY <2>3, <2>4, <2>5, SumAdds
  <2>10. Sum(h) = GfMul(cs[j], Sum(t))
    BY <2>1, <2>2, <2>3, <2>6, SumScales
  <2>11. cs[1] \in Byte
    BY <1>1
  <2>12. Sum(E(j)) = cs[1]
    <3>1. CASE j = 1
      <4>1. Sum(t) = 1 /\ Sum(E(j - 1)) = 0
        BY <2>7, <2>8, <3>1
      <4> QED
        BY <2>1, <2>9, <2>10, <3>1, <4>1, MulOne, AddZero
    <3>2. CASE j # 1
      <4>1. Sum(t) = 0 /\ Sum(E(j - 1)) = cs[1]
        BY <2>7, <2>8, <3>2
      <4> QED
        BY <2>1, <2>9, <2>10, <2>11, <4>1, MulType, AddZero
    <3> QED
      BY <3>1, <3>2
  <2> QED
    BY <2>12
<1>8. \A j \in 0..m : j \in U
  <2> HIDE DEF U
  <2> QED
    BY <1>1, <1>6, <1>7, UpTo
<1>9. Sum(E(m)) = cs[1]
  BY <1>8
<1>10. E(m) = Weighted(xs, ys, n)
  BY <1>3 DEF Weighted
<1> QED
  BY <1>9, <1>10, InterpolateDef

\* A change of one value changes what is interpolated, in proportion to the
\* weight of its share.
LEMMA InterpolateChange ==
    ASSUME NEW n \in Nat, NEW xs \in Indices(n), NEW ys \in Vector(n), NEW zs \in Vector(n),
           NEW e \in 1..n, \A i \in 1..n : i # e => ys[i] = zs[i]
    PROVE  LagrangeInterpolate(xs, zs)
             = GfAdd(LagrangeInterpolate(xs, ys), GfMul(GfAdd(ys[e], zs[e]), Weight(xs, 1..n, e)))
<1> DEFINE f == Weighted(xs, ys, n)
           g == Weighted(xs, zs, n)
           h == [i \in 1..n |-> IF i = e THEN GfMul(GfAdd(ys[e], zs[e]), Weight(xs, 1..n, e)) ELSE 0]
<1>1. f \in Vector(n) /\ g \in Vector(n)
  BY InterpolateDef
<1>2. /\ ys[e] \in Byte /\ zs[e] \in Byte /\ GfAdd(ys[e], zs[e]) \in Byte
      /\ Weight(xs, 1..n, e) \in Byte
  <2>1. ys[e] \in Byte /\ zs[e] \in Byte /\ 1..n \in SUBSET (1..n)
    BY DEF Vector
  <2> QED
    BY <2>1, AddType, WeightType
<1>3. h \in Vector(n)
  BY <1>2, MulType, ByteSplit DEF Vector
<1>4. ASSUME NEW i \in 1..n PROVE g[i] = GfAdd(f[i], h[i])
  <2>1. CASE i # e
    <3>1. g[i] = f[i] /\ h[i] = 0
      BY <2>1 DEF Weighted
    <3>2. f[i] \in Byte
      BY <1>1 DEF Vector
    <3> QED
      BY <3>1, <3>2, AddZero
  <2>2. CASE i = e
    <3> DEFINE w == Weight(xs, 1..n, e)
    <3>1. f[i] = GfMul(ys[e], w) /\ g[i] = GfMul(zs[e], w) /\ h[i] = GfMul(GfAdd(ys[e], zs[e]), w)
      BY <2>2 DEF Weighted
    <3>2. w \in Byte
      BY <1>2
    <3> HIDE DEF w, f, g, h
    <3>3. GfMul(ys[e], w) \in Byte /\ GfMul(zs[e], w) \in Byte
      BY <1>2, <3>2, MulType
    <3>4. h[i] = GfAdd(GfMul(zs[e], w), GfMul(ys[e], w))
      BY <1>2, <3>1, <3>2, <3>3, MulDistributes, AddCommutes
    <3>5. GfAdd(h[i], f[i]) = g[i]
      BY <3>1, <3>3, <3>4, AddCancels
    <3>6. h[i] \in Byte
      BY <3>3, <3>4, AddType
    <3> QED
      BY <3>1, <3>3, <3>5, <3>6, AddCommutes
  <2> QED
    BY <2>1, <2>2
<1>5. h[e] = GfMul(GfAdd(ys[e], zs[e]), Weight(xs, 1..n, e)) /\ \A i \in 1..n : i # e => h[i] = 0
  OBVIOUS
<1> HIDE DEF f, g, h
<1>6. Sum(h) = h[e]
  BY <1>3, <1>5, SumSingle
<1>7. Sum(g) = GfAdd(Sum(f), Sum(h))
  BY <1>1, <1>3, <1>4, SumAdds
<1> QED
  BY <1>5, <1>6, <1>7, InterpolateDef DEF f, g

-----------------------------------------------------------------------------
(* The tables and the product of polynomials *)

\* Multiplication by 2 is the shift of _build_tables.
LEMMA MulTwo ==
    ASSUME NEW a \in Byte
    PROVE  GfMul(a, 2) = Times2(a)
<1>1. 1 \in Byte /\ 2 \in Byte /\ 3 \in Byte /\ 1 \in 1..254
  BY DEF Byte
<1>2. GfMul(3, a) = GfAdd(Times2(a), a)
  <2>1. Powers[1] = 3 /\ Powers[0] = 1
    BY Row0
  <2>2. GfMul(Powers[1], a) = Times3[GfMul(Powers[1 - 1], a)]
    BY <1>1, MulNextPower
  <2>3. GfMul(3, a) = Times3[GfMul(1, a)]
    BY <2>1, <2>2
  <2> QED
    BY <2>3, MulOne, Times3Type
<1>3. GfAdd(2, 1) = 3
  <2>1. GfAdd(2, 1) = Xor(2, 1)
    BY <1>1, AddType
  <2> QED
    BY <2>1 DEF Xor
<1>4. GfMul(3, a) = GfAdd(GfMul(2, a), GfMul(1, a))
  BY <1>1, <1>3, MulDistributes
<1>5. GfMul(2, a) \in Byte /\ Times2(a) \in Byte
  BY <1>1, MulType, Times2Type
<1>6. GfAdd(GfMul(2, a), a) = GfAdd(Times2(a), a)
  BY <1>2, <1>4, MulOne
<1>7. GfMul(2, a) = Times2(a)
  BY <1>5, <1>6, AddCancels
<1> QED
  BY <1>1, <1>7, MulCommutes

\* The bits of a byte by their weight.
BitWeight == <<1, 2, 4, 8, 16, 32, 64, 128>>

\* The powers of 2 are the products by 2.
LEMMA BitWeights ==
    /\ \A i \in 1..8 : BitWeight[i] \in Byte
    /\ BitWeight[1] = 1
    /\ \A i \in 2..8 : GfMul(BitWeight[i - 1], 2) = BitWeight[i]
<1>1. \A i \in 1..8 : BitWeight[i] \in Byte
  BY DEF BitWeight, Byte
<1>2. ASSUME NEW x \in Byte, x < 128 PROVE GfMul(x, 2) = 2 * x
  <2>1. Times2(x) = GfAdd(2 * x, 0) /\ 2 * x \in Byte
    BY <1>2 DEF Times2, Byte
  <2> QED
    BY <2>1, MulTwo, AddZero
<1>3. ASSUME NEW i \in 2..8 PROVE GfMul(BitWeight[i - 1], 2) = BitWeight[i]
  <2>1. BitWeight[i - 1] \in Byte /\ BitWeight[i - 1] < 128 /\ 2 * BitWeight[i - 1] = BitWeight[i]
    BY DEF BitWeight, Byte
  <2> QED
    BY <1>2, <2>1
<1> QED
  BY <1>1, <1>3 DEF BitWeight

\* The weights of the bits that b has, 0 for the others.
Parts(b) == [i \in 1..8 |-> IF (b \div BitWeight[i]) % 2 = 1 THEN BitWeight[i] ELSE 0]

\* A byte is the sum of its bits at their weights.
LEMMA PartsOfByte ==
    ASSUME NEW b \in Byte
    PROVE  Parts(b) \in Vector(8) /\ Sum(Parts(b)) = b
<1>1. PICK c \in BitSeqs : HasBits(b, c)
  BY BitsExist
<1> DEFINE Low(i) == [j \in 1..8 |-> IF j <= i THEN c[j] ELSE 0]
           One(i) == [j \in 1..8 |-> IF j = i THEN c[j] ELSE 0]
<1>2. Parts(b) \in Vector(8)
  BY BitWeights, ByteSplit DEF Parts, Vector
<1>3. \A i \in 1..8 : c[i] \in {0, 1}
  BY DEF BitSeqs
<1>4. \A i \in 0..8 : Low(i) \in BitSeqs /\ One(i) \in BitSeqs
  BY <1>3 DEF BitSeqs
<1>5. \A i \in 1..8 : Parts(b)[i] = BitWeight[i] * c[i]
  <2>1. /\ (b \div 1) % 2 = c[1] /\ (b \div 2) % 2 = c[2]
        /\ (b \div 4) % 2 = c[3] /\ (b \div 8) % 2 = c[4]
        /\ (b \div 16) % 2 = c[5] /\ (b \div 32) % 2 = c[6]
        /\ (b \div 64) % 2 = c[7] /\ (b \div 128) % 2 = c[8]
    BY <1>1, ShiftedBits
  <2>2. \A i \in 1..8 : (b \div BitWeight[i]) % 2 = c[i]
    BY <2>1 DEF BitWeight
  <2>3. \A i \in 1..8 : BitWeight[i] \in Nat
    BY DEF BitWeight
  <2>4. ASSUME NEW i \in 1..8 PROVE Parts(b)[i] = BitWeight[i] * c[i]
    <3>1. Parts(b)[i] = IF c[i] = 1 THEN BitWeight[i] ELSE 0
      BY <2>2 DEF Parts
    <3>2. CASE c[i] = 0
      BY <2>3, <3>1, <3>2
    <3>3. CASE c[i] = 1
      BY <2>3, <3>1, <3>3
    <3> QED
      BY <1>3, <3>2, <3>3
  <2> QED
    BY <2>4
<1>6. ASSUME NEW i \in 1..8 PROVE HasBits(Parts(b)[i], One(i))
  <2>1. Parts(b)[i] = BitWeight[i] * c[i] /\ c[i] \in {0, 1}
    BY <1>3, <1>5
  <2>2. /\ \A j \in 1..8 : j # i => One(i)[j] = 0
        /\ One(i)[i] = c[i]
    OBVIOUS
  <2> HIDE DEF One
  <2> QED
    BY <2>1, <2>2 DEF HasBits, BitWeight
<1>7. PICK r : IsSumRun(r, Parts(b), 8) /\ Sum(Parts(b)) = r[8]
  <2>1. 8 \in Nat
    OBVIOUS
  <2> QED
    BY <1>2, <2>1, SumRun
<1> DEFINE U == {i \in 0..8 : HasBits(r[i], Low(i))}
<1>8. 0 \in U
  <2>1. r[0] = 0 /\ \A j \in 1..8 : Low(0)[j] = 0
    BY <1>7 DEF IsSumRun
  <2> QED
    BY <2>1 DEF HasBits
<1>9. ASSUME NEW i \in 1..8, i - 1 \in U PROVE i \in U
  <2>1. r[i] = GfAdd(r[i - 1], Parts(b)[i]) /\ HasBits(r[i - 1], Low(i - 1))
    BY <1>7, <1>9 DEF IsSumRun
  <2>2. XorBits(Low(i - 1), One(i)) = Low(i)
    <3>1. ASSUME NEW j \in 1..8 PROVE (Low(i - 1)[j] + One(i)[j]) % 2 = Low(i)[j]
      <4>1. c[j] \in {0, 1}
        BY <1>3
      <4>2. CASE j < i
        BY <4>1, <4>2
      <4>3. CASE j = i
        BY <4>1, <4>3
      <4>4. CASE j > i
        BY <4>1, <4>4
      <4> QED
        BY <4>2, <4>3, <4>4
    <3> QED
      BY <3>1 DEF XorBits
  <2>3. Low(i - 1) \in BitSeqs /\ One(i) \in BitSeqs /\ HasBits(Parts(b)[i], One(i))
    BY <1>4, <1>6, SMTT(30)
  <2> HIDE DEF Low, One
  <2>4. HasBits(r[i], Low(i))
    BY <2>1, <2>2, <2>3, AddBits
  <2> QED
    BY <2>4
<1>10. \A i \in 0..8 : i \in U
  <2>1. 8 \in Nat
    OBVIOUS
  <2> HIDE DEF U
  <2> QED
    BY <1>8, <1>9, <2>1, UpTo
<1>11. HasBits(r[8], Low(8))
  BY <1>10
<1>12. Low(8) = c
  BY DEF BitSeqs
<1> HIDE DEF Low
<1>13. r[8] = b
  BY <1>1, <1>11, <1>12, SameBits
<1> QED
  BY <1>2, <1>7, <1>13

\* _gf_mul computes the product of polynomials that its tables stand for.
LEMMA MulIsPolyMul ==
    ASSUME NEW a \in Byte, NEW b \in Byte
    PROVE  GfMul(a, b) = PolyMul(a, b)
<1> DEFINE g == [i \in 1..8 |-> GfMul(a, BitWeight[i])]
           F(s) == [i \in 1..8 |-> IF i = 1 THEN a ELSE Times2(s[i - 1])]
           q == CHOOSE s : s = F(s)
           t == [i \in 1..8 |-> IF (b \div BitWeight[i]) % 2 = 1 THEN q[i] ELSE 0]
<1>1. PolyMul(a, b) = Sum(t)
  BY DEF PolyMul, BitWeight
<1>2. \A i \in 1..8 : g[i] \in Byte
  BY BitWeights, MulType
<1>3. g = F(g)
  <2>1. g[1] = a
    BY BitWeights, MulOne
  <2>2. ASSUME NEW i \in 2..8 PROVE g[i] = Times2(g[i - 1])
    <3>1. i \in 1..8 /\ i - 1 \in 1..8 /\ 2 \in Byte
      BY DEF Byte
    <3>2. g[i] = GfMul(a, GfMul(BitWeight[i - 1], 2)) /\ g[i - 1] = GfMul(a, BitWeight[i - 1])
      BY <3>1, BitWeights
    <3>3. BitWeight[i - 1] \in Byte /\ g[i - 1] \in Byte
      BY <1>2, <3>1, BitWeights
    <3> HIDE DEF g
    <3>4. g[i] = GfMul(g[i - 1], 2)
      BY <3>1, <3>2, <3>3, MulAssociates
    <3> QED
      BY <3>3, <3>4, MulTwo
  <2>3. \A i \in 1..8 : g[i] = IF i = 1 THEN a ELSE Times2(g[i - 1])
    <3> HIDE DEF g
    <3> QED
      BY <2>1, <2>2
  <2> QED
    BY <2>3
<1>4. q = F(q)
  <2> HIDE DEF g
  <2> QED
    BY <1>3
<1>5. \A i \in 1..8 : q[i] = IF i = 1 THEN a ELSE Times2(q[i - 1])
  <2> HIDE DEF q
  <2> QED
    BY <1>4
<1>6. \A i \in 1..8 : g[i] = IF i = 1 THEN a ELSE Times2(g[i - 1])
  <2> HIDE DEF g
  <2> QED
    BY <1>3
<1>7. \A i \in 1..8 : q[i] = g[i]
  <2> HIDE DEF q, g
  <2>1. q[1] = g[1] /\ \A i \in 2..8 : q[i - 1] = g[i - 1] => q[i] = g[i]
    BY <1>5, <1>6
  <2>2. \A i \in 0..7 : i \in {j \in 0..7 : q[j + 1] = g[j + 1]}
    <3> DEFINE S == {j \in 0..7 : q[j + 1] = g[j + 1]}
    <3>1. 7 \in Nat /\ 0 \in S
      BY <2>1
    <3>2. ASSUME NEW i \in 1..7, i - 1 \in S PROVE i \in S
      BY <2>1, <3>2
    <3> HIDE DEF S
    <3>3. \A i \in 0..7 : i \in S
      BY <3>1, <3>2, UpTo
    <3> QED
      BY <3>3 DEF S
  <2>3. ASSUME NEW i \in 1..8 PROVE q[i] = g[i]
    <3>1. i - 1 \in 0..7 /\ (i - 1) + 1 = i
      OBVIOUS
    <3> QED
      BY <2>2, <3>1
  <2> QED
    BY <2>3
<1>8. ASSUME NEW i \in 1..8 PROVE t[i] = GfMul(a, Parts(b)[i]) /\ t[i] \in Byte
  <2>1. t[i] = IF (b \div BitWeight[i]) % 2 = 1 THEN g[i] ELSE 0
    BY <1>7
  <2>2. g[i] = GfMul(a, BitWeight[i]) /\ g[i] \in Byte
    BY <1>2
  <2>3. Parts(b)[i] = IF (b \div BitWeight[i]) % 2 = 1 THEN BitWeight[i] ELSE 0
    BY DEF Parts
  <2> HIDE DEF t, g
  <2> QED
    BY <2>1, <2>2, <2>3, MulType, ByteSplit
<1>9. t \in Vector(8)
  BY <1>8 DEF Vector
<1>10. 8 \in Nat /\ Parts(b) \in Vector(8)
  BY PartsOfByte
<1> HIDE DEF t
<1>11. Sum(t) = GfMul(a, Sum(Parts(b)))
  BY <1>8, <1>9, <1>10, SumScales
<1> QED
  BY <1>1, <1>11, PartsOfByte

\* _gf_div and _gf_inv undo _gf_mul.
LEMMA DivUndoesMul ==
    ASSUME NEW a \in Byte, NEW b \in NonZero
    PROVE  /\ GfDiv(GfMul(a, b), b) = a
           /\ GfMul(a, GfInv(b)) = GfDiv(a, b)
<1>1. b \in Byte /\ GfMul(a, b) \in Byte
  BY ByteSplit, MulType
<1>2. GfDiv(GfMul(a, b), b) = a
  <2>1. GfDiv(GfMul(a, b), b) \in Byte /\ GfMul(GfDiv(GfMul(a, b), b), b) = GfMul(a, b)
    BY <1>1, DivType
  <2> QED
    BY <2>1, MulCancels
<1>3. GfInv(b) \in NonZero /\ GfMul(GfInv(b), b) = 1
  <2> DEFINE l == LogTable[b]
  <2>1. l \in Exponent /\ ExpTable[l] = b
    BY LogType
  <2>2. CASE l = 0
    <3>1. b = 1 /\ GfInv(b) = 1
      BY <2>1, <2>2, ExpType DEF GfInv
    <3> QED
      BY <3>1, ByteSplit, MulOne
  <2>3. CASE l # 0
    <3>1. 255 - l \in Exponent /\ Plus(255 - l, l) = 0
      BY <2>1, <2>3 DEF Exponent, Plus
    <3>2. GfInv(b) = ExpTable[255 - l] /\ GfInv(b) \in NonZero /\ LogTable[GfInv(b)] = 255 - l
      BY <3>1, ExpType, LogType DEF GfInv
    <3>3. GfMul(GfInv(b), b) = ExpTable[Plus(LogTable[GfInv(b)], l)]
      BY <3>2, MulLogs
    <3> QED
      BY <3>1, <3>2, <3>3, ExpType
  <2> QED
    BY <2>2, <2>3
<1>4. GfInv(b) \in Byte /\ GfMul(a, GfInv(b)) \in Byte /\ GfDiv(a, b) \in Byte
  BY <1>3, ByteSplit, MulType, DivType
<1>5. GfMul(GfMul(a, GfInv(b)), b) = a
  BY <1>1, <1>3, <1>4, MulAssociates, MulOne
<1>6. GfMul(GfDiv(a, b), b) = a
  BY DivType
<1>7. GfMul(a, GfInv(b)) = GfDiv(a, b)
  BY <1>4, <1>5, <1>6, MulCancels
<1> QED
  BY <1>2, <1>7

-----------------------------------------------------------------------------
(* Shares that are used together *)

\* The positions, among n shares, of m different ones.
Places(n, m) == {p \in [1..m -> 1..n] : \A i, j \in 1..m : p[i] = p[j] => i = j}

\* How many members of S are not above j.
Rank(S, j) == Cardinality({m \in S : m <= j})

\* The ranks of the elements of a set of positions.
LEMMA RankType ==
    ASSUME NEW n \in Nat, NEW S \in SUBSET (1..n)
    PROVE  /\ IsFiniteSet(S) /\ Cardinality(S) \in Nat
           /\ \A j \in S : Rank(S, j) \in 1..Cardinality(S)
           /\ \A i, j \in S : i < j => Rank(S, i) < Rank(S, j)
<1>1. IsFiniteSet(1..n)
  BY FS_Interval
<1>2. IsFiniteSet(S) /\ Cardinality(S) \in Nat
  BY <1>1, FS_Subset, FS_CardinalityType
<1> DEFINE below(j) == {m \in S : m <= j}
<1>3. ASSUME NEW j \in S
      PROVE  IsFiniteSet(below(j)) /\ Cardinality(below(j)) \in 1..Cardinality(S) /\ j \in below(j)
  <2>1. j \in below(j) /\ below(j) \in SUBSET S /\ below(j) # {}
    OBVIOUS
  <2> HIDE DEF below
  <2>2. IsFiniteSet(below(j)) /\ Cardinality(below(j)) <= Cardinality(S)
    BY <1>2, <2>1, FS_Subset
  <2>3. Cardinality(below(j)) \in Nat /\ Cardinality(below(j)) # 0
    BY <2>1, <2>2, FS_CardinalityType, FS_EmptySet
  <2> QED
    BY <1>2, <2>1, <2>2, <2>3
<1>4. ASSUME NEW i \in S, NEW j \in S, i < j
      PROVE  Cardinality(below(i)) < Cardinality(below(j))
  <2>1. below(i) \in SUBSET (below(j) \ {j})
    <3>1. i \in Int /\ j \in Int /\ \A m \in S : m \in Int
      OBVIOUS
    <3>2. \A m \in S : m <= i => m <= j /\ m # j
      BY <1>4, <3>1
    <3> QED
      BY <3>2
  <2> HIDE DEF below
  <2>2. IsFiniteSet(below(j) \ {j}) /\ Cardinality(below(j) \ {j}) = Cardinality(below(j)) - 1
    BY <1>3, FS_RemoveElement
  <2>3. Cardinality(below(i)) <= Cardinality(below(j) \ {j})
    BY <2>1, <2>2, FS_Subset
  <2>4. Cardinality(below(i)) \in Int /\ Cardinality(below(j)) \in Int
    BY <1>2, <1>3
  <2> QED
    BY <2>2, <2>3, <2>4
<1> QED
  BY <1>2, <1>3, <1>4 DEF Rank

\* The i-th smallest member of S.
Nth(S) == [i \in 1..Cardinality(S) |-> CHOOSE j \in S : Rank(S, j) = i]

\* The positions in ascending order are distinct and are those of the set.
LEMMA NthPlaces ==
    ASSUME NEW n \in Nat, NEW S \in SUBSET (1..n)
    PROVE  /\ Nth(S) \in Places(n, Cardinality(S))
           /\ \A i \in 1..Cardinality(S) : Nth(S)[i] \in S
           /\ \A j \in S : \E i \in 1..Cardinality(S) : Nth(S)[i] = j
<1> DEFINE c == Cardinality(S)
           rank == [j \in S |-> Rank(S, j)]
<1>1. IsFiniteSet(S) /\ c \in Nat /\ rank \in [S -> 1..c]
  BY RankType
<1>2. ASSUME NEW i \in S, NEW j \in S, rank[i] = rank[j] PROVE i = j
  <2>1. Rank(S, i) = Rank(S, j) /\ Rank(S, i) \in Int
    BY <1>2, <1>1, RankType
  <2>2. i \in Int /\ j \in Int
    OBVIOUS
  <2>3. (i < j => Rank(S, i) < Rank(S, j)) /\ (j < i => Rank(S, j) < Rank(S, i))
    BY RankType
  <2>4. ~ (Rank(S, i) < Rank(S, j)) /\ ~ (Rank(S, j) < Rank(S, i))
    BY <2>1
  <2> QED
    BY <2>2, <2>3, <2>4
<1>3. IsFiniteSet(1..c) /\ Cardinality(1..c) = c
  BY <1>1, FS_Interval
<1> HIDE DEF rank
<1>4. rank \in Injection(S, 1..c)
  BY <1>1, <1>2 DEF Injection, IsInjective
<1>5. rank \in Surjection(S, 1..c)
  BY <1>3, <1>4, FS_Injection
<1>6. \A i \in 1..c : \E j \in S : Rank(S, j) = i
  BY <1>5 DEF Surjection, rank
<1>7. ASSUME NEW i \in 1..c PROVE Nth(S)[i] \in S /\ Rank(S, Nth(S)[i]) = i
  BY <1>6 DEF Nth
<1>8. Nth(S) \in [1..c -> 1..n]
  <2>1. Nth(S) = [i \in 1..c |-> Nth(S)[i]]
    BY DEF Nth
  <2>2. \A i \in 1..c : Nth(S)[i] \in 1..n
    BY <1>7
  <2> QED
    BY <2>1, <2>2
<1>9. \A i, j \in 1..c : Nth(S)[i] = Nth(S)[j] => i = j
  BY <1>7
<1>10. ASSUME NEW j \in S PROVE \E i \in 1..c : Nth(S)[i] = j
  <2>1. Rank(S, j) \in 1..c
    BY RankType
  <2>2. Nth(S)[Rank(S, j)] \in S /\ Rank(S, Nth(S)[Rank(S, j)]) = Rank(S, j)
    BY <1>7, <2>1
  <2>3. Nth(S)[Rank(S, j)] = j
    BY <1>2, <2>2 DEF rank
  <2> QED
    BY <2>1, <2>3
<1> QED
  BY <1>7, <1>8, <1>9, <1>10 DEF Places

\* Held lists the shares in the order of their positions.
LEMMA HeldIsNth ==
    ASSUME NEW S
    PROVE  Held(S) = [i \in 1..Cardinality(S) |-> shares[Nth(S)[i]]]
  BY DEF Held, Nth, Rank

\* The shares h have the indices xs and len bytes each.
HasShape(h, m, xs, len) ==
    /\ DOMAIN h = 1..m /\ Len(h) = m
    /\ \A i \in 1..m : h[i].x = xs[i] /\ Len(h[i].y) = len /\ DOMAIN h[i].y = 1..len

\* What reconstruct returns for shares of equal length and distinct indices.
LEMMA ReconstructDef ==
    ASSUME NEW m \in Nat, m >= 2, NEW len \in Nat, NEW xs \in Indices(m),
           NEW h, HasShape(h, m, xs, len)
    PROVE  Reconstruct(h)
             = Returns([b \in 1..len |-> LagrangeInterpolate(xs, [i \in 1..m |-> h[i].y[b]])])
<1>0. /\ DOMAIN h = 1..m /\ Len(h) = m
      /\ \A i \in 1..m : h[i].x = xs[i] /\ Len(h[i].y) = len /\ DOMAIN h[i].y = 1..len
  BY DEF HasShape
<1>1. \A i, j \in DOMAIN h : Len(h[i].y) = Len(h[j].y)
  BY <1>0
<1>2. \A i, j \in DOMAIN h : h[i].x = h[j].x => i = j
  BY <1>0 DEF Indices
<1>3. [i \in DOMAIN h |-> h[i].x] = xs
  BY <1>0 DEF Indices, Vector
<1>4. ~ (Len(h) < 2) /\ DOMAIN h[1].y = 1..len
  BY <1>0
<1> QED
  BY <1>0, <1>1, <1>2, <1>3, <1>4 DEF Reconstruct

\* It refuses shares of different lengths.
LEMMA ReconstructShort ==
    ASSUME NEW h, NEW i \in DOMAIN h, NEW j \in DOMAIN h, Len(h[i].y) # Len(h[j].y)
    PROVE  Reconstruct(h) = ValueError
  BY DEF Reconstruct

-----------------------------------------------------------------------------
(* The shares as split hands them out *)

Seed(s) == s.secret
Threshold(s) == s.k
Total(s) == s.n

\* What split may draw for s.
Draws(s) == [1..Len(Seed(s)) -> [1..(Threshold(s) - 1) -> Coeffs]]

\* The polynomial for byte b.
Poly(s, cs, b) == <<Seed(s)[b]>> \o cs[b]

Dealt(s, cs) == SplitShares(Seed(s), cs, Total(s))

\* The bounds of an interval.
LEMMA IntervalBounds ==
    ASSUME NEW a \in Nat, NEW b \in Nat, NEW i \in a..b
    PROVE  i \in Nat /\ a <= i /\ i <= b
  OBVIOUS

\* What create_wallet splits, by the assumption on the constants.
LEMMA SplitType ==
    ASSUME NEW s \in Splits
    PROVE  /\ Threshold(s) \in Nat /\ Threshold(s) >= 2
           /\ Total(s) \in Nat /\ Threshold(s) <= Total(s) /\ Total(s) <= 255
           /\ Len(Seed(s)) \in Nat \ {0} /\ Seed(s) # <<>>
           /\ Seed(s) \in [1..Len(Seed(s)) -> Byte]
<1>1. /\ s \in [secret : Seq(Byte), k : 2..255, n : 2..255]
      /\ s.k <= s.n /\ s.secret # <<>>
  BY ShamirAssumption
<1>2. s.secret \in Seq(Byte) /\ s.k \in 2..255 /\ s.n \in 2..255
  BY <1>1
<1>3. /\ Seed(s) \in Seq(Byte) /\ Threshold(s) \in 2..255 /\ Total(s) \in 2..255
      /\ Threshold(s) <= Total(s) /\ Seed(s) # <<>>
  BY <1>1, <1>2 DEF Seed, Threshold, Total
<1>4. Len(Seed(s)) \in Nat \ {0} /\ Seed(s) \in [1..Len(Seed(s)) -> Byte]
  BY <1>3, LenProperties, EmptySeq
<1>5. /\ Threshold(s) \in Nat /\ 2 <= Threshold(s)
      /\ Total(s) \in Nat /\ Total(s) <= 255
  <2>1. 2 \in Nat /\ 255 \in Nat
    OBVIOUS
  <2> QED
    BY <1>3, <2>1, IntervalBounds
<1> QED
  BY <1>3, <1>4, <1>5

\* The polynomials that split draws have the secret's bytes as constants.
LEMMA PolyType ==
    ASSUME NEW s \in Splits, NEW cs \in Draws(s), NEW b \in 1..Len(Seed(s))
    PROVE  Poly(s, cs, b) \in Vector(Threshold(s)) /\ Poly(s, cs, b)[1] = Seed(s)[b]
<1>1. Threshold(s) \in Nat /\ Threshold(s) >= 2 /\ Seed(s)[b] \in Byte
  BY SplitType
<1>2. Threshold(s) - 1 \in Nat /\ cs[b] \in [1..(Threshold(s) - 1) -> Byte]
  <2>1. cs[b] \in [1..(Threshold(s) - 1) -> Coeffs]
    BY DEF Draws
  <2>2. Coeffs \subseteq Byte
    BY ShamirAssumption
  <2>3. Threshold(s) - 1 \in Nat
    BY <1>1
  <2> QED
    BY <2>1, <2>2, <2>3
<1>3. cs[b] \in Seq(Byte) /\ Len(cs[b]) = Threshold(s) - 1
  BY <1>2, VectorLen
<1>4. <<Seed(s)[b]>> \in Seq(Byte) /\ Len(<<Seed(s)[b]>>) = 1
  BY <1>1
<1>5. Poly(s, cs, b) \in Seq(Byte) /\ Len(Poly(s, cs, b)) = Threshold(s) /\ Poly(s, cs, b)[1] = Seed(s)[b]
  <2> DEFINE u == <<Seed(s)[b]>>
  <2>1. u[1] = Seed(s)[b]
    OBVIOUS
  <2> HIDE DEF u
  <2>2. /\ u \o cs[b] \in Seq(Byte) /\ Len(u \o cs[b]) = Len(u) + Len(cs[b])
        /\ \A i \in 1..(Len(u) + Len(cs[b])) :
             (u \o cs[b])[i] = IF i <= Len(u) THEN u[i] ELSE cs[b][i - Len(u)]
    BY <1>3, <1>4, ConcatProperties DEF u
  <2>3. Len(u) = 1
    BY DEF u
  <2>4. Len(u) + Len(cs[b]) = Threshold(s) /\ 1 \in 1..Threshold(s)
    BY <1>1, <1>3, <2>3
  <2>5. (u \o cs[b])[1] = u[1]
    BY <2>2, <2>3, <2>4
  <2> QED
    BY <2>1, <2>2, <2>4, <2>5 DEF Poly, u
<1> QED
  BY <1>5, LenProperties DEF Vector

\* The shares have the indices 1, ..., n and the values of the polynomials.
LEMMA DealtShares ==
    ASSUME NEW s \in Splits, NEW cs \in Draws(s)
    PROVE  /\ DOMAIN Dealt(s, cs) = 1..Total(s) /\ Len(Dealt(s, cs)) = Total(s)
           /\ \A i \in 1..Total(s) :
                /\ Dealt(s, cs)[i] = [x |-> i, y |-> Dealt(s, cs)[i].y]
                /\ Dealt(s, cs)[i].x = i
                /\ Dealt(s, cs)[i].y \in [1..Len(Seed(s)) -> Byte]
                /\ Dealt(s, cs)[i].y \in Seq(Byte)
                /\ Len(Dealt(s, cs)[i].y) = Len(Seed(s))
                /\ \A b \in 1..Len(Seed(s)) : Dealt(s, cs)[i].y[b] = EvalAt(Poly(s, cs, b), i)
           /\ Dealt(s, cs) = [i \in 1..Total(s) |-> Dealt(s, cs)[i]]
<1>1. DOMAIN Seed(s) = 1..Len(Seed(s)) /\ Total(s) \in Nat /\ Len(Seed(s)) \in Nat
  BY SplitType
<1>2. Dealt(s, cs)
        = [i \in 1..Total(s) |-> [x |-> i, y |-> [b \in 1..Len(Seed(s)) |-> EvalAt(Poly(s, cs, b), i)]]]
  BY <1>1 DEF Dealt, SplitShares, Poly
<1>3. ASSUME NEW i \in 1..Total(s), NEW b \in 1..Len(Seed(s)) PROVE EvalAt(Poly(s, cs, b), i) \in Byte
  <2>1. i \in Byte /\ Threshold(s) \in Nat
    <3>1. Threshold(s) \in Nat /\ Total(s) \in Nat /\ Total(s) <= 255
      BY SplitType
    <3> QED
      BY <3>1 DEF Byte
  <2> QED
    BY <2>1, PolyType, EvalDef
<1> DEFINE D == Dealt(s, cs)
           point(i) == [b \in 1..Len(Seed(s)) |-> EvalAt(Poly(s, cs, b), i)]
<1>4. \A i \in 1..Total(s) : point(i) \in [1..Len(Seed(s)) -> Byte]
  BY <1>3
<1>5. \A i \in 1..Total(s) : point(i) \in Seq(Byte) /\ Len(point(i)) = Len(Seed(s))
  <2> HIDE DEF point
  <2> QED
    BY <1>1, <1>4, VectorLen
<1>6. D = [i \in 1..Total(s) |-> [x |-> i, y |-> point(i)]]
  BY <1>2
<1>7. \A i \in 1..Total(s) : \A b \in 1..Len(Seed(s)) : point(i)[b] = EvalAt(Poly(s, cs, b), i)
  OBVIOUS
<1> HIDE DEF D, point
<1>8. Len(D) = Total(s)
  BY <1>1, <1>6
<1>9. /\ DOMAIN D = 1..Total(s)
      /\ \A i \in 1..Total(s) : D[i] = [x |-> i, y |-> point(i)] /\ D[i].y = point(i) /\ D[i].x = i
      /\ D = [i \in 1..Total(s) |-> D[i]]
  BY <1>6
<1> QED
  BY <1>4, <1>5, <1>7, <1>8, <1>9 DEF D

\* Positions serve as the indices of the shares.
LEMMA PlacesAreIndices ==
    ASSUME NEW s \in Splits, NEW m \in Nat, NEW p \in Places(Total(s), m)
    PROVE  p \in Indices(m) /\ \A i \in 1..m : p[i] \in 1..Total(s)
<1>1. \A i \in 1..m : p[i] \in 1..Total(s)
  BY DEF Places
<1>2. \A x \in 1..Total(s) : x \in Byte /\ x # 0
  BY SplitType DEF Byte
<1>3. p \in Vector(m)
  BY <1>1, <1>2 DEF Places, Vector
<1> QED
  BY <1>1, <1>2, <1>3 DEF Places, Indices

\* h lists the shares of sh at the positions p.
Listed(h, sh, p, m) == DOMAIN h = 1..m /\ Len(h) = m /\ \A i \in 1..m : h[i] = sh[p[i]]

\* Any k or more shares as they were handed out give the seed.
LEMMA UntouchedReconstruct ==
    ASSUME NEW s \in Splits, NEW cs \in Draws(s), NEW m \in Nat, m >= Threshold(s),
           NEW p \in Places(Total(s), m), NEW h, Listed(h, Dealt(s, cs), p, m)
    PROVE  Reconstruct(h) = Returns(Seed(s))
<1> DEFINE len == Len(Seed(s))
<1>0. DOMAIN h = 1..m /\ Len(h) = m /\ \A i \in 1..m : h[i] = Dealt(s, cs)[p[i]]
  BY DEF Listed
<1>1. len \in Nat /\ Threshold(s) \in 1..m /\ m >= 2 /\ Seed(s) \in [1..len -> Byte]
  <2>1. Threshold(s) \in Nat /\ Threshold(s) >= 2 /\ len \in Nat /\ Seed(s) \in [1..len -> Byte]
    BY SplitType
  <2> QED
    BY <2>1
<1>2. p \in Indices(m) /\ \A i \in 1..m : p[i] \in 1..Total(s) /\ p[i] \in Byte
  BY PlacesAreIndices DEF Indices, Vector
<1>3. \A i \in 1..m : /\ h[i].x = p[i] /\ Len(h[i].y) = len /\ DOMAIN h[i].y = 1..len
                      /\ \A b \in 1..len : h[i].y[b] \in Byte /\ h[i].y[b] = EvalAt(Poly(s, cs, b), p[i])
  <2> DEFINE D == Dealt(s, cs)
  <2>1. \A j \in 1..Total(s) :
          /\ D[j].x = j /\ Len(D[j].y) = len /\ D[j].y \in [1..len -> Byte]
          /\ \A b \in 1..len : D[j].y[b] = EvalAt(Poly(s, cs, b), j)
    <3>1. \A j \in 1..Total(s) : D[j].x = j /\ Len(D[j].y) = len /\ D[j].y \in [1..len -> Byte]
      BY DealtShares, ZenonT(40)
    <3>2. \A j \in 1..Total(s) : \A b \in 1..len : D[j].y[b] = EvalAt(Poly(s, cs, b), j)
      BY DealtShares
    <3> HIDE DEF D, len
    <3> QED
      BY <3>1, <3>2
  <2>2. \A i \in 1..m : h[i] = D[p[i]]
    BY <1>0
  <2> HIDE DEF D, len
  <2> QED
    BY <1>2, <2>1, <2>2
<1>4. Reconstruct(h)
        = Returns([b \in 1..len |-> LagrangeInterpolate(p, [i \in 1..m |-> h[i].y[b]])])
  <2> HIDE DEF len
  <2>1. HasShape(h, m, p, len)
    BY <1>0, <1>3 DEF HasShape
  <2> QED
    BY <1>1, <1>2, <2>1, ReconstructDef
<1>5. ASSUME NEW b \in 1..len
      PROVE  LagrangeInterpolate(p, [i \in 1..m |-> h[i].y[b]]) = Seed(s)[b]
  <2> DEFINE ys == [i \in 1..m |-> h[i].y[b]]
  <2>1. ys \in Vector(m) /\ \A i \in 1..m : ys[i] = EvalAt(Poly(s, cs, b), p[i])
    BY <1>3 DEF Vector
  <2>2. Poly(s, cs, b) \in Vector(Threshold(s)) /\ Poly(s, cs, b)[1] = Seed(s)[b]
    BY PolyType
  <2> HIDE DEF ys
  <2>3. LagrangeInterpolate(p, ys) = Poly(s, cs, b)[1]
    BY <1>1, <1>2, <2>1, <2>2, Interpolates
  <2> QED
    BY <2>2, <2>3 DEF ys
<1>6. [b \in 1..len |-> LagrangeInterpolate(p, [i \in 1..m |-> h[i].y[b]])] = Seed(s)
  BY <1>1, <1>5
<1> QED
  BY <1>4, <1>6

-----------------------------------------------------------------------------
(* Shares that are not as they were handed out *)

\* A byte of share e is wrong.
WithByte(D, e, d) == [D EXCEPT ![e].y[1] = GfAdd(@, d)]

\* Share e is a byte short.
WithShort(D, e) == [D EXCEPT ![e].y = Tail(@)]

\* Share e has the index of share j.
WithIndex(D, e, j) == [D EXCEPT ![e].x = D[j].x]

\* A sum differs from its first term by its second.
LEMMA AddDiffers ==
    ASSUME NEW a \in Byte, NEW b \in Byte
    PROVE  /\ GfAdd(a, GfAdd(a, b)) = b
           /\ b # 0 => GfAdd(a, b) # a
<1>1. GfAdd(a, GfAdd(a, b)) = GfAdd(GfAdd(a, a), b)
  BY AddAssociates
<1>2. GfAdd(a, GfAdd(a, b)) = b
  BY <1>1, AddZero
<1>3. GfAdd(a, b) = a => b = 0
  BY <1>2, AddZero
<1> QED
  BY <1>2, <1>3

\* A wrong byte changes one share at its first byte.
LEMMA WithByteShares ==
    ASSUME NEW s \in Splits, NEW cs \in Draws(s), NEW e \in 1..Total(s), NEW d \in Byte,
           NEW sh, sh = WithByte(Dealt(s, cs), e, d)
    PROVE  /\ DOMAIN sh = 1..Total(s) /\ Len(sh) = Total(s)
           /\ \A j \in 1..Total(s) : j # e => sh[j] = Dealt(s, cs)[j]
           /\ sh[e].x = e /\ Len(sh[e].y) = Len(Seed(s))
           /\ sh[e].y \in [1..Len(Seed(s)) -> Byte]
           /\ sh[e].y[1] = GfAdd(Dealt(s, cs)[e].y[1], d)
<1> DEFINE D == Dealt(s, cs)
           len == Len(Seed(s))
           z == [D[e].y EXCEPT ![1] = GfAdd(@, d)]
<1>1. /\ DOMAIN D = 1..Total(s) /\ D[e] = [x |-> e, y |-> D[e].y]
      /\ D[e].y \in [1..len -> Byte] /\ D = [i \in 1..Total(s) |-> D[i]]
  BY DealtShares
<1>2. len \in Nat /\ 1 \in 1..len /\ Total(s) \in Nat
  BY SplitType
<1> HIDE DEF D, len
<1>3. D[e].y[1] \in Byte /\ GfAdd(D[e].y[1], d) \in Byte
  BY <1>1, <1>2, AddType
<1>4. z \in [1..len -> Byte] /\ z[1] = GfAdd(D[e].y[1], d)
  BY <1>1, <1>2, <1>3
<1>5. Len(z) = len
  <2> HIDE DEF z
  <2> QED
    BY <1>2, <1>4, VectorLen
<1>6. sh = [D EXCEPT ![e] = [x |-> e, y |-> z]]
  <2>1. sh = [D EXCEPT ![e] = [D[e] EXCEPT !.y = z]]
    BY DEF WithByte, D
  <2>2. [D[e] EXCEPT !.y = z] = [x |-> e, y |-> z]
    <3> DEFINE u == D[e].y
    <3>1. D[e] = [x |-> e, y |-> u]
      BY <1>1
    <3> HIDE DEF u, z
    <3> QED
      BY <3>1
  <2> QED
    BY <2>1, <2>2
<1> HIDE DEF z
<1>7. sh[e] = [x |-> e, y |-> z]
  BY <1>1, <1>6
<1>8. DOMAIN sh = 1..Total(s) /\ \A j \in 1..Total(s) : j # e => sh[j] = D[j]
  BY <1>1, <1>6
<1>9. sh \in [1..Total(s) -> {sh[i] : i \in 1..Total(s)}]
  <2>1. sh = [i \in 1..Total(s) |-> sh[i]]
    BY <1>1, <1>6
  <2> QED
    BY <2>1
<1>10. Len(sh) = Total(s)
  BY <1>2, <1>9, VectorLen
<1>11. sh[e].x = e /\ sh[e].y = z
  BY <1>7
<1> QED
  BY <1>4, <1>5, <1>8, <1>10, <1>11 DEF D, len

\* A lost byte shortens one share.
LEMMA WithShortShares ==
    ASSUME NEW s \in Splits, NEW cs \in Draws(s), NEW e \in 1..Total(s),
           NEW sh, sh = WithShort(Dealt(s, cs), e)
    PROVE  /\ DOMAIN sh = 1..Total(s) /\ Len(sh) = Total(s)
           /\ \A j \in 1..Total(s) : j # e => sh[j] = Dealt(s, cs)[j]
           /\ Len(sh[e].y) = Len(Seed(s)) - 1
<1> DEFINE D == Dealt(s, cs)
           len == Len(Seed(s))
           z == Tail(D[e].y)
<1>1. /\ DOMAIN D = 1..Total(s) /\ D[e] = [x |-> e, y |-> D[e].y]
      /\ D[e].y \in Seq(Byte) /\ Len(D[e].y) = len /\ D = [i \in 1..Total(s) |-> D[i]]
  BY DealtShares
<1>2. len \in Nat \ {0} /\ Total(s) \in Nat
  BY SplitType
<1> HIDE DEF D, len
<1>3. D[e].y # <<>>
  BY <1>1, <1>2, EmptySeq
<1>4. Len(z) = len - 1
  BY <1>1, <1>3, HeadTailProperties
<1> HIDE DEF z
<1>6. sh = [D EXCEPT ![e] = [x |-> e, y |-> z]]
  <2>1. sh = [D EXCEPT ![e] = [D[e] EXCEPT !.y = z]]
    BY DEF WithShort, D, z
  <2>2. [D[e] EXCEPT !.y = z] = [x |-> e, y |-> z]
    <3> DEFINE u == D[e].y
    <3>1. D[e] = [x |-> e, y |-> u]
      BY <1>1
    <3> HIDE DEF u
    <3> QED
      BY <3>1
  <2> QED
    BY <2>1, <2>2
<1>7. sh[e] = [x |-> e, y |-> z]
  BY <1>1, <1>6
<1>8. DOMAIN sh = 1..Total(s) /\ \A j \in 1..Total(s) : j # e => sh[j] = D[j]
  BY <1>1, <1>6
<1>9. sh \in [1..Total(s) -> {sh[i] : i \in 1..Total(s)}]
  <2>1. sh = [i \in 1..Total(s) |-> sh[i]]
    BY <1>1, <1>6
  <2> QED
    BY <2>1
<1>10. Len(sh) = Total(s)
  BY <1>2, <1>9, VectorLen
<1>11. sh[e].y = z
  BY <1>7
<1> QED
  BY <1>4, <1>8, <1>10, <1>11 DEF D, len

\* Interpolation gives back a byte of the seed from its values in k shares.
LEMMA DealtInterpolate ==
    ASSUME NEW s \in Splits, NEW cs \in Draws(s), NEW m \in Nat, m >= Threshold(s),
           NEW p \in Places(Total(s), m), NEW b \in 1..Len(Seed(s)), NEW ys \in Vector(m),
           \A i \in 1..m : ys[i] = Dealt(s, cs)[p[i]].y[b]
    PROVE  LagrangeInterpolate(p, ys) = Seed(s)[b]
<1>1. Threshold(s) \in 1..m
  <2>1. Threshold(s) \in Nat /\ Threshold(s) >= 2
    BY SplitType
  <2> QED
    BY <2>1
<1>2. p \in Indices(m) /\ \A i \in 1..m : p[i] \in 1..Total(s)
  BY PlacesAreIndices
<1>3. \A i \in 1..Total(s) : Dealt(s, cs)[i].y[b] = EvalAt(Poly(s, cs, b), i)
  BY DealtShares
<1>4. \A i \in 1..m : ys[i] = EvalAt(Poly(s, cs, b), p[i])
  BY <1>2, <1>3
<1>5. Poly(s, cs, b) \in Vector(Threshold(s)) /\ Poly(s, cs, b)[1] = Seed(s)[b]
  BY PolyType
<1>6. LagrangeInterpolate(p, ys) = Poly(s, cs, b)[1]
  BY <1>1, <1>2, <1>4, <1>5, Interpolates
<1> QED
  BY <1>5, <1>6

\* No share's weight is 0.
LEMMA WeightOfAll ==
    ASSUME NEW m \in Nat, NEW xs \in Indices(m), NEW a \in 1..m
    PROVE  Weight(xs, 1..m, a) \in Byte /\ Weight(xs, 1..m, a) # 0
<1> DEFINE S == 1..m
<1>1. S \in SUBSET (1..m) /\ a \in S
  OBVIOUS
<1> HIDE DEF S
<1>2. Weight(xs, S, a) \in Byte /\ Weight(xs, S, a) # 0
  BY <1>1, WeightType
<1> QED
  BY <1>2 DEF S

\* A wrong byte in one of k or more shares shows in the seed.
LEMMA WrongByteReconstruct ==
    ASSUME NEW s \in Splits, NEW cs \in Draws(s), NEW e \in 1..Total(s), NEW d \in Byte, d # 0,
           NEW m \in Nat, m >= Threshold(s), NEW p \in Places(Total(s), m),
           NEW a \in 1..m, p[a] = e, NEW h, Listed(h, WithByte(Dealt(s, cs), e, d), p, m)
    PROVE  /\ \E r : /\ Reconstruct(h) = Returns(r)
                     /\ r[1] = GfAdd(Seed(s)[1], GfMul(d, Weight(p, 1..m, a)))
           /\ Reconstruct(h) # Returns(Seed(s)) /\ ~ Reconstruct(h).error
<1> DEFINE D == Dealt(s, cs)
           sh == WithByte(D, e, d)
           len == Len(Seed(s))
           w == Weight(p, 1..m, a)
<1>1. len \in Nat /\ 1 \in 1..len /\ m >= 2 /\ Seed(s)[1] \in Byte
  <2>1. /\ Threshold(s) \in Nat /\ Threshold(s) >= 2 /\ len \in Nat \ {0}
        /\ Seed(s) \in [1..len -> Byte]
    BY SplitType
  <2> QED
    BY <2>1
<1>2. p \in Indices(m) /\ \A i \in 1..m : p[i] \in 1..Total(s)
  BY PlacesAreIndices
<1>3. \A i \in 1..m : i # a => p[i] # e
  BY DEF Places
<1>4. \A j \in 1..Total(s) : D[j].x = j /\ Len(D[j].y) = len /\ D[j].y \in [1..len -> Byte]
  BY DealtShares, ZenonT(40)
<1>5. /\ \A j \in 1..Total(s) : j # e => sh[j] = D[j]
      /\ sh[e].x = e /\ Len(sh[e].y) = len /\ sh[e].y \in [1..len -> Byte]
      /\ sh[e].y[1] = GfAdd(D[e].y[1], d)
  BY WithByteShares
<1>6. DOMAIN h = 1..m /\ Len(h) = m /\ \A i \in 1..m : h[i] = sh[p[i]]
  BY DEF Listed
<1> HIDE DEF D, sh, len
<1>7. \A j \in 1..Total(s) : sh[j].x = j /\ Len(sh[j].y) = len /\ sh[j].y \in [1..len -> Byte]
  BY <1>4, <1>5
<1>8. HasShape(h, m, p, len)
  BY <1>2, <1>6, <1>7 DEF HasShape
<1>9. Reconstruct(h)
        = Returns([b \in 1..len |-> LagrangeInterpolate(p, [i \in 1..m |-> h[i].y[b]])])
  <2>1. m >= 2 /\ len \in Nat /\ p \in Indices(m)
    BY <1>1, <1>2
  <2> QED
    BY <1>8, <2>1, ReconstructDef
<1> DEFINE ys == [i \in 1..m |-> D[p[i]].y[1]]
           zs == [i \in 1..m |-> h[i].y[1]]
<1>10. ys \in Vector(m) /\ zs \in Vector(m)
  BY <1>1, <1>2, <1>4, <1>6, <1>7 DEF Vector
<1>11. \A i \in 1..m : i # a => ys[i] = zs[i]
  BY <1>2, <1>3, <1>5, <1>6
<1>12. ys[a] \in Byte /\ zs[a] = GfAdd(ys[a], d)
  <2>1. D[e].y[1] \in Byte
    BY <1>1, <1>4
  <2> QED
    BY <1>5, <1>6, <2>1
<1>13. \A i \in 1..m : ys[i] = D[p[i]].y[1]
  OBVIOUS
<1> HIDE DEF ys
<1>14. LagrangeInterpolate(p, ys) = Seed(s)[1]
  BY <1>1, <1>10, <1>13, DealtInterpolate DEF D, len
<1> HIDE DEF zs
<1>15. LagrangeInterpolate(p, zs) = GfAdd(LagrangeInterpolate(p, ys), GfMul(GfAdd(ys[a], zs[a]), w))
  BY <1>2, <1>10, <1>11, InterpolateChange
<1>16. GfAdd(ys[a], zs[a]) = d
  BY <1>12, AddDiffers
<1>17. LagrangeInterpolate(p, zs) = GfAdd(Seed(s)[1], GfMul(d, w))
  BY <1>14, <1>15, <1>16
<1>18. GfMul(d, w) \in Byte /\ GfMul(d, w) # 0
  <2>1. p \in Indices(m)
    BY <1>2
  <2>3. w \in Byte /\ w # 0
    BY <2>1, WeightOfAll
  <2> HIDE DEF w
  <2> QED
    BY <2>3, MulType
<1> HIDE DEF w
<1>19. LagrangeInterpolate(p, zs) # Seed(s)[1]
  BY <1>1, <1>17, <1>18, AddDiffers
<1> DEFINE r == [b \in 1..len |-> LagrangeInterpolate(p, [i \in 1..m |-> h[i].y[b]])]
<1>20. r[1] = LagrangeInterpolate(p, zs)
  BY <1>1 DEF zs
<1>21. Reconstruct(h) = Returns(r)
  BY <1>9
<1> HIDE DEF r
<1>22. Reconstruct(h) # Returns(Seed(s)) /\ ~ Reconstruct(h).error
  BY <1>19, <1>20, <1>21 DEF Returns
<1> QED
  BY <1>17, <1>20, <1>21, <1>22 DEF w

\* A short share among others cannot be used.
LEMMA ShortReconstruct ==
    ASSUME NEW s \in Splits, NEW cs \in Draws(s), NEW e \in 1..Total(s),
           NEW m \in Nat, m >= 2, NEW p \in Places(Total(s), m),
           NEW a \in 1..m, p[a] = e, NEW h, Listed(h, WithShort(Dealt(s, cs), e), p, m)
    PROVE  Reconstruct(h) = ValueError
<1> DEFINE D == Dealt(s, cs)
           sh == WithShort(D, e)
           len == Len(Seed(s))
<1>1. PICK j \in 1..m : j # a
  <2>1. 1 \in 1..m /\ 2 \in 1..m
    OBVIOUS
  <2> QED
    BY <2>1
<1>2. p[j] \in 1..Total(s) /\ p[j] # e
  BY <1>1 DEF Places
<1>3. \A i \in 1..Total(s) : Len(D[i].y) = len
  BY DealtShares
<1>4. (\A i \in 1..Total(s) : i # e => sh[i] = D[i]) /\ Len(sh[e].y) = len - 1
  BY WithShortShares
<1>5. /\ h[j] = sh[p[j]] /\ h[a] = sh[e] /\ len \in Nat
      /\ j \in DOMAIN h /\ a \in DOMAIN h
  BY <1>1, SplitType DEF Listed
<1> HIDE DEF D, sh, len
<1>6. Len(h[j].y) # Len(h[a].y)
  BY <1>2, <1>3, <1>4, <1>5
<1> QED
  BY <1>5, <1>6, ReconstructShort

-----------------------------------------------------------------------------
(* Windows of shares *)

\* g is the part of f that follows position c.
IsWindow(f, g, m, c) == \A i \in 1..m : g[i] = f[i + c]

\* The positions S, of n, are the positions T of that part.
SamePositions(S, T, n, m, c) ==
    /\ \A i \in 1..n : i \in S => c < i /\ i <= c + m
    /\ \A i \in 1..m : i \in T <=> i + c \in S

\* A product whose positions lie in a window is the product over the window.
LEMMA ProductWindow ==
    ASSUME NEW n \in Nat, NEW m \in Nat, NEW c \in Nat, c + m <= n,
           NEW f \in Vector(n), NEW g \in Vector(m), IsWindow(f, g, m, c),
           NEW S, NEW T, SamePositions(S, T, n, m, c)
    PROVE  Product(f, S) = Product(g, T)
<1>0. /\ \A i \in 1..m : g[i] = f[i + c]
      /\ \A i \in 1..n : i \in S => c < i /\ i <= c + m
      /\ \A i \in 1..m : i \in T <=> i + c \in S
  BY DEF IsWindow, SamePositions
<1>1. PICK r : IsProductRun(r, f, n, S) /\ Product(f, S) = r[n]
  BY ProductRun
<1>2. PICK q : IsProductRun(q, g, m, T) /\ Product(g, T) = q[m]
  BY ProductRun
<1>3. /\ r[0] = 1
      /\ \A i \in 1..n : r[i] = IF i \in S THEN GfMul(r[i - 1], f[i]) ELSE r[i - 1]
  BY <1>1 DEF IsProductRun
<1>4. /\ q[0] = 1
      /\ \A i \in 1..m : q[i] = IF i \in T THEN GfMul(q[i - 1], g[i]) ELSE q[i - 1]
  BY <1>2 DEF IsProductRun
<1> DEFINE A == {i \in 0..c : r[i] = 1}
<1>5. \A i \in 0..c : i \in A
  <2>1. 0 \in A
    BY <1>3
  <2>2. ASSUME NEW i \in 1..c, i - 1 \in A PROVE i \in A
    <3>1. i \in 1..n /\ i \notin S
      BY <1>0
    <3>2. r[i] = r[i - 1]
      BY <1>3, <3>1
    <3> QED
      BY <2>2, <3>2
  <2> HIDE DEF A
  <2> QED
    BY <2>1, <2>2, UpTo
<1>6. r[c] = 1
  BY <1>5
<1> HIDE DEF A
<1> DEFINE B == {i \in 0..m : r[i + c] = q[i]}
<1>7. \A i \in 0..m : i \in B
  <2>1. 0 \in B
    BY <1>4, <1>6
  <2>2. ASSUME NEW i \in 1..m, i - 1 \in B PROVE i \in B
    <3>1. i + c \in 1..n /\ (i + c) - 1 = (i - 1) + c
      OBVIOUS
    <3>2. r[i + c] = IF i + c \in S THEN GfMul(r[(i - 1) + c], f[i + c]) ELSE r[(i - 1) + c]
      BY <1>3, <3>1
    <3>3. q[i] = IF i \in T THEN GfMul(q[i - 1], g[i]) ELSE q[i - 1]
      BY <1>4
    <3>4. r[(i - 1) + c] = q[i - 1] /\ g[i] = f[i + c] /\ (i \in T <=> i + c \in S)
      BY <1>0, <2>2
    <3>5. r[i + c] = q[i]
      BY <3>2, <3>3, <3>4
    <3> QED
      BY <3>5
  <2> HIDE DEF B
  <2> QED
    BY <2>1, <2>2, UpTo
<1>8. r[c + m] = q[m]
  <2>1. r[m + c] = q[m] /\ m + c = c + m
    BY <1>7
  <2> QED
    BY <2>1
<1> HIDE DEF B
<1> DEFINE C == {i \in 0..(n - c - m) : r[c + m + i] = q[m]}
<1>9. \A i \in 0..(n - c - m) : i \in C
  <2>1. n - c - m \in Nat /\ 0 \in C
    BY <1>8
  <2>2. ASSUME NEW i \in 1..(n - c - m), i - 1 \in C PROVE i \in C
    <3>1. c + m + i \in 1..n /\ (c + m + i) - 1 = c + m + (i - 1)
      OBVIOUS
    <3>2. c + m + i \notin S
      BY <1>0, <3>1
    <3>3. r[c + m + i] = r[c + m + (i - 1)]
      BY <1>3, <3>1, <3>2
    <3> QED
      BY <2>2, <3>3
  <2> HIDE DEF C
  <2> QED
    BY <2>1, <2>2, UpTo
<1>10. r[n] = q[m]
  <2>1. n - c - m \in 0..(n - c - m) /\ c + m + (n - c - m) = n
    OBVIOUS
  <2> QED
    BY <1>9, <2>1
<1> QED
  BY <1>1, <1>2, <1>10

\* The weights within a window are those of the window.
LEMMA WeightWindow ==
    ASSUME NEW n \in Nat, NEW m \in Nat, NEW c \in Nat, c + m <= n,
           NEW xs \in Indices(n), NEW ys \in Indices(m), IsWindow(xs, ys, m, c), NEW i \in 1..m
    PROVE  Weight(xs, (c + 1)..(c + m), i + c) = Weight(ys, 1..m, i)
<1> DEFINE S == ((c + 1)..(c + m)) \ {i + c}
           T == (1..m) \ {i}
           f == Differences(xs, i + c)
           g == Differences(ys, i)
<1>1. i + c \in (c + 1)..(c + m) /\ i + c \in 1..n
  OBVIOUS
<1>0. SamePositions(S, T, n, m, c)
  BY DEF SamePositions
<1>2. xs \in Vector(n) /\ ys \in Vector(m)
  BY DifferencesType
<1>3. f \in Vector(n) /\ g \in Vector(m) /\ IsWindow(f, g, m, c)
  <2>1. f \in Vector(n) /\ \A j \in 1..n : f[j] = GfAdd(xs[i + c], xs[j])
    BY <1>1, DifferencesType
  <2>2. g \in Vector(m) /\ \A j \in 1..m : g[j] = GfAdd(ys[i], ys[j])
    BY DifferencesType
  <2>3. \A j \in 1..m : j + c \in 1..n
    OBVIOUS
  <2> HIDE DEF f, g
  <2> QED
    BY <2>1, <2>2, <2>3 DEF IsWindow
<1> HIDE DEF S, T, f, g
<1>4. Product(xs, S) = Product(ys, T)
  BY <1>0, <1>2, ProductWindow
<1>5. Product(f, S) = Product(g, T)
  BY <1>0, <1>3, ProductWindow
<1>6. Weight(xs, (c + 1)..(c + m), i + c) = GfDiv(Product(xs, S), Product(f, S))
  BY <1>1 DEF Weight, S, f
<1>7. Weight(ys, 1..m, i) = GfDiv(Product(ys, T), Product(g, T))
  BY DEF Weight, T, g
<1> QED
  BY <1>4, <1>5, <1>6, <1>7

\* A share has different weights in the window before it ends and in the next.
LEMMA WindowsDiffer ==
    ASSUME NEW m \in Nat, NEW xs \in Indices(m + 1), NEW ys \in Indices(m), NEW zs \in Indices(m),
           IsWindow(xs, ys, m, 0), IsWindow(xs, zs, m, 1),
           NEW e \in 2..m
    PROVE  Weight(ys, 1..m, e) # Weight(zs, 1..m, e - 1)
<1> DEFINE n == m + 1
           S == 1..n
           w == Weight(xs, S, e)
           u == Weight(ys, 1..m, e)
<1> SUFFICES ASSUME Weight(ys, 1..m, e) = Weight(zs, 1..m, e - 1)
             PROVE  FALSE
  OBVIOUS
<1>1. /\ n \in Nat /\ S \in SUBSET (1..n) /\ n \in S /\ 1 \in S /\ e \in 1..n /\ e # 1 /\ e # n
      /\ S \ {n} = 1..m /\ S \ {1} = 2..n /\ e \in S /\ 1 # n
  OBVIOUS
<1>2. Weight(xs, 1..m, e) = u
  <2> DEFINE c == 0
  <2>1. /\ c \in Nat /\ c + m <= n /\ e \in 1..m /\ IsWindow(xs, ys, m, c)
        /\ (c + 1)..(c + m) = 1..m /\ e + c = e
    OBVIOUS
  <2> HIDE DEF c
  <2>2. Weight(xs, (c + 1)..(c + m), e + c) = Weight(ys, 1..m, e)
    BY <1>1, <2>1, WeightWindow
  <2> QED
    BY <2>1, <2>2
<1>3. Weight(xs, 2..n, e) = u
  <2>1. /\ 1 \in Nat /\ 1 + m <= n /\ e - 1 \in 1..m /\ (1 + 1)..(1 + m) = 2..n /\ (e - 1) + 1 = e
    OBVIOUS
  <2>2. Weight(xs, (1 + 1)..(1 + m), (e - 1) + 1) = Weight(zs, 1..m, e - 1)
    BY <1>1, <2>1, WeightWindow
  <2> QED
    BY <2>1, <2>2
<1>4. u # 0 /\ u \in Byte
  <2>1. e \in 1..m
    OBVIOUS
  <2> QED
    BY <2>1, WeightOfAll
<1>5. /\ xs[1] \in Byte /\ xs[n] \in Byte /\ xs[e] \in Byte
      /\ xs[1] # 0 /\ xs[n] # 0 /\ xs[e] # 0 /\ xs[1] # xs[n]
  <2>1. \A i \in 1..n : xs[i] \in Byte /\ xs[i] # 0
    BY DEF Indices, Vector
  <2>2. \A i, j \in 1..n : xs[i] = xs[j] => i = j
    BY DEF Indices
  <2> HIDE DEF n
  <2> QED
    BY <1>1, <2>1, <2>2
<1>6. w \in Byte
  <2> HIDE DEF n, S
  <2>1. xs \in Indices(n)
    BY DEF n
  <2> QED
    BY <1>1, <2>1, WeightType
<1>7. /\ GfMul(GfAdd(xs[e], xs[n]), w) = GfMul(xs[n], u)
      /\ GfMul(GfAdd(xs[e], xs[1]), w) = GfMul(xs[1], u)
  <2> HIDE DEF n, S
  <2>1. xs \in Indices(n)
    BY DEF n
  <2>2. GfMul(GfAdd(xs[e], xs[n]), w) = GfMul(xs[n], Weight(xs, S \ {n}, e))
    BY <1>1, <2>1, WeightRemove
  <2>3. GfMul(GfAdd(xs[e], xs[1]), w) = GfMul(xs[1], Weight(xs, S \ {1}, e))
    BY <1>1, <2>1, WeightRemove
  <2> QED
    BY <1>1, <1>2, <1>3, <2>2, <2>3
<1> DEFINE a == xs[1]
           b == xs[n]
           x == xs[e]
<1>8. a \in Byte /\ b \in Byte /\ x \in Byte /\ a # 0 /\ b # 0 /\ x # 0 /\ a # b
  BY <1>5
<1>9. GfMul(GfAdd(x, b), w) = GfMul(b, u) /\ GfMul(GfAdd(x, a), w) = GfMul(a, u)
  BY <1>7
<1> HIDE DEF a, b, x, w, u
\* Both equations, multiplied by a and by b, have a * b * u on the right.
<1>10. GfMul(a, GfMul(GfAdd(x, b), w)) = GfMul(b, GfMul(GfAdd(x, a), w))
  <2>1. GfMul(a, GfMul(b, u)) = GfMul(GfMul(a, b), u)
    BY <1>4, <1>8, MulAssociates
  <2>2. GfMul(b, GfMul(a, u)) = GfMul(GfMul(b, a), u)
    BY <1>4, <1>8, MulAssociates
  <2>3. GfMul(a, b) = GfMul(b, a)
    BY <1>8, MulCommutes
  <2> QED
    BY <1>9, <2>1, <2>2, <2>3
<1>11. GfAdd(x, b) \in Byte /\ GfAdd(x, a) \in Byte
  BY <1>8, AddType
<1>12. w # 0
  <2>1. GfMul(b, u) # 0 /\ GfMul(GfAdd(x, b), 0) = 0
    BY <1>4, <1>8, <1>11, MulType, ByteSplit
  <2> QED
    BY <1>9, <2>1
<1>13. GfMul(a, GfAdd(x, b)) = GfMul(b, GfAdd(x, a))
  <2>1. GfMul(GfMul(a, GfAdd(x, b)), w) = GfMul(GfMul(b, GfAdd(x, a)), w)
    BY <1>6, <1>8, <1>10, <1>11, MulAssociates
  <2>2. GfMul(a, GfAdd(x, b)) \in Byte /\ GfMul(b, GfAdd(x, a)) \in Byte /\ w \in NonZero
    BY <1>6, <1>8, <1>11, <1>12, MulType, ByteSplit
  <2> QED
    BY <2>1, <2>2, MulCancels
<1>14. GfAdd(GfMul(a, x), GfMul(a, b)) = GfAdd(GfMul(b, x), GfMul(a, b))
  BY <1>8, <1>13, MulDistributes, MulCommutes
<1>15. GfMul(a, x) \in Byte /\ GfMul(b, x) \in Byte /\ GfMul(a, b) \in Byte
  BY <1>8, MulType
<1>16. GfMul(a, x) = GfMul(b, x)
  BY <1>14, <1>15, AddCancels
<1>17. a = b
  BY <1>8, <1>16, MulCancels, ByteSplit
<1> QED
  BY <1>8, <1>17

-----------------------------------------------------------------------------
(* What verify_shares finds *)

\* The least of two integers.
LEMMA LesserOfTwo ==
    ASSUME NEW a \in Int, NEW b \in Int
    PROVE  Min({a, b}) = IF a <= b THEN a ELSE b
<1> DEFINE c == IF a <= b THEN a ELSE b
<1>1. c \in {a, b} /\ \A y \in {a, b} : c <= y
  OBVIOUS
<1>2. \A x \in {a, b} : (\A y \in {a, b} : x <= y) => x = c
  OBVIOUS
<1> HIDE DEF c
<1>3. Min({a, b}) = c
  BY <1>1, <1>2 DEF Min
<1> QED
  BY <1>3 DEF c

\* The windows that verify_shares looks at: up to four, while they fit.
LEMMA WindowsDef ==
    ASSUME NEW n \in Nat, NEW m \in Nat, m <= n
    PROVE  \A i \in Nat : i \in Windows(n, m) <=> i + m <= n /\ i <= 3
<1>1. n - m \in Int /\ 3 \in Int
  OBVIOUS
<1>2. Min({n - m, 3}) = IF n - m <= 3 THEN n - m ELSE 3
  BY <1>1, LesserOfTwo
<1> DEFINE c == Min({n - m, 3})
<1>3. c = IF n - m <= 3 THEN n - m ELSE 3
  BY <1>2
<1>4. Windows(n, m) = 0..c
  BY DEF Windows
<1> HIDE DEF c
<1> QED
  BY <1>3, <1>4

\* What is reconstructed from the m shares after position i.
Slice(sh, m, i) == SubSeq(sh, i + 1, i + m)
Window(sh, m, i) == Reconstruct(Slice(sh, m, i))

\* All windows of m shares give the same result as the first, and no error.
Agree(sh, m) ==
    /\ \A i \in Windows(Len(sh), m) : Window(sh, m, i) = Window(sh, m, 0)
    /\ ~ Window(sh, m, 0).error

\* verify_shares accepts when the windows agree.
LEMMA AcceptedDef ==
    ASSUME NEW sh, NEW m \in Nat, Len(sh) \in Nat, Len(sh) >= m
    PROVE  VerifyShares(sh, m) = "accepted" <=> Agree(sh, m)
<1> DEFINE odd == {i \in Windows(Len(sh), m) : Window(sh, m, i) # Window(sh, m, 0)}
           last == IF odd = {} THEN 0 ELSE Min(odd)
<1>1. VerifyShares(sh, m)
        = IF Len(sh) >= m /\ (Window(sh, m, 0).error \/ Window(sh, m, last).error) THEN "raised"
          ELSE IF Len(sh) >= m /\ odd = {} THEN "accepted" ELSE "rejected"
  BY DEF VerifyShares, Window, Slice
<1>2. odd = {} <=> \A i \in Windows(Len(sh), m) : Window(sh, m, i) = Window(sh, m, 0)
  OBVIOUS
<1>3. odd = {} => last = 0
  OBVIOUS
<1> HIDE DEF odd, last
<1>4. CASE odd = {}
  BY <1>1, <1>2, <1>3, <1>4 DEF Agree
<1>5. CASE odd # {}
  BY <1>1, <1>2, <1>5 DEF Agree
<1> QED
  BY <1>4, <1>5

\* A window of m shares after i ends within the n shares.
Fits(i, m, n) == i + m <= n

\* The positions in the window after i.
WindowPlaces(m, i) == [j \in 1..m |-> i + j]

\* A window lists consecutive shares.
LEMMA WindowShares ==
    ASSUME NEW n \in Nat, NEW m \in Nat, NEW i \in Nat, Fits(i, m, n),
           NEW sh, DOMAIN sh = 1..n
    PROVE  /\ WindowPlaces(m, i) \in Places(n, m)
           /\ Listed(Slice(sh, m, i), sh, WindowPlaces(m, i), m)
<1> DEFINE T == {sh[j] : j \in 1..n}
           h == Slice(sh, m, i)
<1>0. i + m <= n
  BY DEF Fits
<1>1. i + 1 \in Int /\ i + m \in Int /\ \A j \in (i + 1)..(i + m) : sh[j] \in T
  BY <1>0
<1> HIDE DEF T
<1>2. /\ h \in Seq(T)
      /\ Len(h) = IF i + 1 <= i + m THEN (i + m) - (i + 1) + 1 ELSE 0
      /\ \A j \in 1..((i + m) - (i + 1) + 1) : h[j] = sh[(i + 1) + j - 1]
  BY <1>1, SubSeqProperties DEF Slice
<1> HIDE DEF h
<1>3. Len(h) = m
  BY <1>2
<1>4. DOMAIN h = 1..m
  BY <1>2, <1>3, LenProperties
<1>5. \A j \in 1..m : h[j] = sh[i + j]
  <2>1. \A j \in 1..m : j \in 1..((i + m) - (i + 1) + 1) /\ (i + 1) + j - 1 = i + j
    OBVIOUS
  <2> QED
    BY <1>2, <2>1
<1>6. WindowPlaces(m, i) \in Places(n, m) /\ \A j \in 1..m : WindowPlaces(m, i)[j] = i + j
  BY <1>0 DEF WindowPlaces, Places
<1> QED
  BY <1>3, <1>4, <1>5, <1>6 DEF h, Listed

\* sh and D differ in share e at most.
SameBut(e, sh, D) == DOMAIN sh = DOMAIN D /\ \A j \in DOMAIN D : j # e => sh[j] = D[j]

\* A window without the share that is not as it was handed out gives the seed.
LEMMA WindowWithout ==
    ASSUME NEW s \in Splits, NEW cs \in Draws(s), NEW i \in Nat,
           Fits(i, Threshold(s), Total(s)), NEW sh, NEW e \in Int, SameBut(e, sh, Dealt(s, cs)),
           ~ (i < e /\ e <= i + Threshold(s))
    PROVE  Window(sh, Threshold(s), i) = Returns(Seed(s))
<1> DEFINE m == Threshold(s)
           p == WindowPlaces(m, i)
           h == Slice(sh, m, i)
<1>1. m \in Nat /\ Total(s) \in Nat /\ m >= Threshold(s) /\ DOMAIN sh = 1..Total(s)
  BY SplitType, DealtShares DEF SameBut
<1>2. p \in Places(Total(s), m) /\ Listed(h, sh, p, m)
  BY <1>1, WindowShares
<1>3. \A j \in 1..m : p[j] = i + j
  BY DEF WindowPlaces
<1>4. \A j \in 1..m : p[j] \in 1..Total(s)
  BY <1>2 DEF Places
<1>5. \A j \in 1..m : p[j] # e
  BY <1>1, <1>3
<1> HIDE DEF p, h
<1>6. Listed(h, Dealt(s, cs), p, m)
  BY <1>2, <1>4, <1>5, DealtShares DEF SameBut, Listed
<1>7. Reconstruct(h) = Returns(Seed(s))
  BY <1>1, <1>2, <1>6, UntouchedReconstruct
<1> QED
  BY <1>7 DEF Window, h, m

\* verify_shares accepts the shares that were handed out.
LEMMA DealtAccepted ==
    ASSUME NEW s \in Splits, NEW cs \in Draws(s)
    PROVE  VerifyShares(Dealt(s, cs), Threshold(s)) = "accepted"
<1> DEFINE m == Threshold(s)
           n == Total(s)
           D == Dealt(s, cs)
<1>1. m \in Nat /\ n \in Nat /\ m <= n /\ DOMAIN D = 1..n /\ Len(D) = n
  BY SplitType, DealtShares
<1>2. ASSUME NEW i \in Nat, i + m <= n PROVE Window(D, m, i) = Returns(Seed(s))
  <2>1. ~ (i < 0 /\ 0 <= i + m)
    BY <1>1
  <2>2. SameBut(0, D, Dealt(s, cs))
    BY DEF SameBut
  <2>3. Fits(i, Threshold(s), Total(s)) /\ 0 \in Int
    BY <1>1, <1>2 DEF Fits
  <2> QED
    BY <2>1, <2>2, <2>3, WindowWithout
<1> HIDE DEF m, n, D
<1>3. \A i \in Windows(n, m) : i \in Nat /\ i + m <= n
  <2>1. Windows(n, m) \in SUBSET Nat
    <3>1. \A c : 0..c \in SUBSET Nat
      OBVIOUS
    <3> QED
      BY <3>1 DEF Windows
  <2> QED
    BY <1>1, <2>1, WindowsDef
<1>4. Window(D, m, 0) = Returns(Seed(s))
  <2>1. 0 \in Nat /\ 0 + m <= n
    BY <1>1
  <2> QED
    BY <1>2, <2>1
<1>5. Agree(D, m)
  <2>1. ~ Window(D, m, 0).error
    BY <1>4 DEF Returns
  <2>2. ASSUME NEW i \in Windows(n, m) PROVE Window(D, m, i) = Window(D, m, 0)
    BY <1>2, <1>3, <1>4
  <2> QED
    BY <1>1, <2>1, <2>2 DEF Agree
<1>6. VerifyShares(D, m) = "accepted"
  BY <1>1, <1>5, AcceptedDef
<1> QED
  BY <1>6 DEF D, m

\* A window with the wrong byte is off by that byte times the weight of its
\* share in the window.
LEMMA WindowWithByte ==
    ASSUME NEW s \in Splits, NEW cs \in Draws(s), NEW i \in Nat,
           Fits(i, Threshold(s), Total(s)), NEW e \in 1..Total(s), NEW d \in Byte, d # 0,
           NEW sh, sh = WithByte(Dealt(s, cs), e, d), i < e, e <= i + Threshold(s)
    PROVE  /\ \E r : /\ Window(sh, Threshold(s), i) = Returns(r)
                     /\ r[1] = GfAdd(Seed(s)[1],
                                     GfMul(d, Weight(WindowPlaces(Threshold(s), i),
                                                     1..Threshold(s), e - i)))
           /\ Window(sh, Threshold(s), i) # Returns(Seed(s))
<1> DEFINE m == Threshold(s)
           p == WindowPlaces(m, i)
           h == Slice(sh, m, i)
           a == e - i
<1>1. m \in Nat /\ Total(s) \in Nat /\ m >= Threshold(s) /\ DOMAIN sh = 1..Total(s)
  BY SplitType, WithByteShares
<1>2. p \in Places(Total(s), m) /\ Listed(h, sh, p, m)
  BY <1>1, WindowShares
<1>3. a \in 1..m /\ p[a] = e
  BY <1>1 DEF WindowPlaces
<1> HIDE DEF p, h, a
<1>4. Listed(h, WithByte(Dealt(s, cs), e, d), p, m)
  BY <1>2
<1>5. /\ \E r : /\ Reconstruct(h) = Returns(r)
                /\ r[1] = GfAdd(Seed(s)[1], GfMul(d, Weight(p, 1..m, a)))
      /\ Reconstruct(h) # Returns(Seed(s))
  BY <1>1, <1>2, <1>3, <1>4, WrongByteReconstruct
<1> QED
  BY <1>5 DEF Window, h, m, p, a

\* A window with the short share raises.
LEMMA WindowWithShort ==
    ASSUME NEW s \in Splits, NEW cs \in Draws(s), NEW i \in Nat,
           Fits(i, Threshold(s), Total(s)), NEW e \in 1..Total(s),
           NEW sh, sh = WithShort(Dealt(s, cs), e), i < e, e <= i + Threshold(s)
    PROVE  Window(sh, Threshold(s), i) = ValueError
<1> DEFINE m == Threshold(s)
           p == WindowPlaces(m, i)
           h == Slice(sh, m, i)
           a == e - i
<1>1. m \in Nat /\ Total(s) \in Nat /\ m >= 2 /\ DOMAIN sh = 1..Total(s)
  BY SplitType, WithShortShares
<1>2. p \in Places(Total(s), m) /\ Listed(h, sh, p, m)
  BY <1>1, WindowShares
<1>3. a \in 1..m /\ p[a] = e
  BY <1>1 DEF WindowPlaces
<1> HIDE DEF p, h, a
<1>4. Listed(h, WithShort(Dealt(s, cs), e), p, m)
  BY <1>2
<1>5. Reconstruct(h) = ValueError
  BY <1>1, <1>2, <1>3, <1>4, ShortReconstruct
<1> QED
  BY <1>5 DEF Window, h, m

\* A window that holds share e and one that does not exist among those that
\* verify_shares compares, or both of the first two hold it.
LEMMA WindowChoice ==
    ASSUME NEW m \in Nat, m >= 2, NEW n \in Nat, m < n, NEW e \in 1..n, e <= m + 3
    PROVE  /\ 0 \in Windows(n, m) /\ 1 \in Windows(n, m)
           /\ Fits(0, m, n) /\ Fits(1, m, n)
           /\ \/ e = 1
              \/ e \in 2..m
              \/ e - m \in Nat /\ e - m \in Windows(n, m) /\ Fits(e - m, m, n) /\ m < e
<1>1. \A i \in Nat : i \in Windows(n, m) <=> i + m <= n /\ i <= 3
  BY WindowsDef
<1>2. 0 \in Nat /\ 1 \in Nat
  OBVIOUS
<1>3. 0 \in Windows(n, m) /\ 1 \in Windows(n, m) /\ Fits(0, m, n) /\ Fits(1, m, n)
  BY <1>1, <1>2 DEF Fits
<1>4. CASE m < e
  <2>1. e - m \in Nat /\ (e - m) + m <= n /\ e - m <= 3
    BY <1>4
  <2>2. e - m \in Windows(n, m)
    BY <1>1, <2>1
  <2> QED
    BY <1>3, <1>4, <2>1, <2>2 DEF Fits
<1>5. CASE ~ (m < e)
  BY <1>3, <1>5
<1> QED
  BY <1>4, <1>5

\* verify_shares does not accept a wrong byte in a share it compares.
LEMMA WrongByteNotAccepted ==
    ASSUME NEW s \in Splits, NEW cs \in Draws(s), NEW e \in 1..Total(s),
           NEW d \in Byte, d # 0, NEW sh, sh = WithByte(Dealt(s, cs), e, d),
           Threshold(s) < Total(s), e <= Threshold(s) + 3
    PROVE  VerifyShares(sh, Threshold(s)) # "accepted"
<1> DEFINE m == Threshold(s)
           n == Total(s)
<1>1. m \in Nat /\ m >= 2 /\ n \in Nat /\ n <= 255 /\ Len(sh) = n /\ m < n
  BY SplitType, WithByteShares
<1>2. SameBut(e, sh, Dealt(s, cs)) /\ e \in Int
  BY DealtShares, WithByteShares DEF SameBut
<1> SUFFICES ASSUME Agree(sh, m) PROVE FALSE
  BY <1>1, AcceptedDef
<1>3. \A i \in Windows(n, m) : Window(sh, m, i) = Window(sh, m, 0)
  BY <1>1 DEF Agree
<1>4. /\ 0 \in Windows(n, m) /\ 1 \in Windows(n, m)
      /\ Fits(0, m, n) /\ Fits(1, m, n)
      /\ \/ e = 1
         \/ e \in 2..m
         \/ e - m \in Nat /\ e - m \in Windows(n, m) /\ Fits(e - m, m, n) /\ m < e
  BY <1>1, WindowChoice
<1>5. ASSUME NEW i \in Nat, Fits(i, m, n), i < e, e <= i + m
      PROVE  Window(sh, m, i) # Returns(Seed(s))
  BY <1>5, WindowWithByte
<1>6. ASSUME NEW i \in Nat, Fits(i, m, n), ~ (i < e /\ e <= i + m)
      PROVE  Window(sh, m, i) = Returns(Seed(s))
  BY <1>2, <1>6, WindowWithout
<1>7. CASE e = 1
  <2>1. 0 \in Nat /\ 1 \in Nat /\ 0 < e /\ e <= 0 + m /\ ~ (1 < e /\ e <= 1 + m)
    BY <1>1, <1>7
  <2>2. Window(sh, m, 0) # Returns(Seed(s)) /\ Window(sh, m, 1) = Returns(Seed(s))
    BY <1>4, <1>5, <1>6, <2>1
  <2> QED
    BY <1>3, <1>4, <2>2
<1>8. CASE m < e /\ e - m \in Nat /\ e - m \in Windows(n, m) /\ Fits(e - m, m, n)
  <2>1. 0 \in Nat /\ ~ (0 < e /\ e <= 0 + m) /\ e - m < e /\ e <= (e - m) + m
    BY <1>1, <1>8
  <2>2. Window(sh, m, e - m) # Returns(Seed(s))
    BY <1>5, <1>8, <2>1
  <2>3. Window(sh, m, 0) = Returns(Seed(s))
    BY <1>4, <1>6, <2>1
  <2> QED
    BY <1>3, <1>8, <2>2, <2>3
<1>9. CASE e \in 2..m
  <2> DEFINE ys == WindowPlaces(m, 0)
             zs == WindowPlaces(m, 1)
             xs == WindowPlaces(m + 1, 0)
             v == Weight(ys, 1..m, e - 0)
             w == Weight(zs, 1..m, e - 1)
             z == Seed(s)[1]
  <2>1. 0 \in Nat /\ 1 \in Nat /\ 0 < e /\ e <= 0 + m /\ 1 < e /\ e <= 1 + m
    BY <1>1, <1>9
  <2>2. PICK r : Window(sh, m, 0) = Returns(r) /\ r[1] = GfAdd(z, GfMul(d, v))
    BY <1>4, <2>1, WindowWithByte
  <2>3. PICK q : Window(sh, m, 1) = Returns(q) /\ q[1] = GfAdd(z, GfMul(d, w))
    BY <1>4, <2>1, WindowWithByte
  <2>4. Returns(r) = Returns(q)
    BY <1>3, <1>4, <2>2, <2>3
  <2>5. r = q
    BY <2>4 DEF Returns
  <2>6. GfAdd(z, GfMul(d, v)) = GfAdd(z, GfMul(d, w))
    BY <2>2, <2>3, <2>5
  <2>7. xs \in Places(n, m + 1) /\ ys \in Places(n, m) /\ zs \in Places(n, m)
    BY <1>1 DEF WindowPlaces, Places
  <2>8. xs \in Indices(m + 1) /\ ys \in Indices(m) /\ zs \in Indices(m)
    <3>1. m + 1 \in Nat
      BY <1>1
    <3> HIDE DEF xs, ys, zs, m
    <3> QED
      BY <1>1, <2>7, <3>1, PlacesAreIndices
  <2>9. IsWindow(xs, ys, m, 0) /\ IsWindow(xs, zs, m, 1)
    BY <1>1 DEF IsWindow, WindowPlaces
  <2>10. e - 0 = e /\ e - 0 \in 1..m /\ e - 1 \in 1..m
    BY <1>1, <1>9
  <2>11. v # w
    <3>1. Weight(ys, 1..m, e) # Weight(zs, 1..m, e - 1)
      <4> HIDE DEF xs, ys, zs
      <4> QED
        BY <1>1, <1>9, <2>8, <2>9, WindowsDiffer
    <3> QED
      BY <2>10, <3>1
  <2>12. v \in Byte /\ w \in Byte
    <3> HIDE DEF ys, zs
    <3>1. Weight(ys, 1..m, e - 0) \in Byte
      BY <1>1, <2>8, <2>10, WeightOfAll
    <3>2. Weight(zs, 1..m, e - 1) \in Byte
      BY <1>1, <2>8, <2>10, WeightOfAll
    <3> QED
      BY <3>1, <3>2
  <2>13. z \in Byte
    <3>1. Seed(s) \in [1..Len(Seed(s)) -> Byte] /\ 1 \in 1..Len(Seed(s))
      BY SplitType
    <3> QED
      BY <3>1
  <2> HIDE DEF v, w, z
  <2>14. GfMul(d, v) \in Byte /\ GfMul(d, w) \in Byte
    BY <2>12, MulType
  <2>15. GfMul(d, v) = GfMul(d, w)
    <3>1. GfAdd(z, GfAdd(z, GfMul(d, v))) = GfMul(d, v)
      BY <2>13, <2>14, AddDiffers
    <3>2. GfAdd(z, GfAdd(z, GfMul(d, w))) = GfMul(d, w)
      BY <2>13, <2>14, AddDiffers
    <3> QED
      BY <2>6, <3>1, <3>2
  <2>16. GfMul(v, d) = GfMul(w, d) /\ d \in NonZero
    BY <2>12, <2>15, MulCommutes, ByteSplit
  <2>17. v = w
    BY <2>12, <2>16, MulCancels
  <2> QED
    BY <2>11, <2>17
<1> QED
  BY <1>4, <1>7, <1>8, <1>9

\* Nor does it accept a short share.
LEMMA ShortNotAccepted ==
    ASSUME NEW s \in Splits, NEW cs \in Draws(s), NEW e \in 1..Total(s),
           NEW sh, sh = WithShort(Dealt(s, cs), e),
           Threshold(s) < Total(s), e <= Threshold(s) + 3
    PROVE  VerifyShares(sh, Threshold(s)) # "accepted"
<1> DEFINE m == Threshold(s)
           n == Total(s)
<1>1. m \in Nat /\ m >= 2 /\ n \in Nat /\ Len(sh) = n /\ m < n
  BY SplitType, WithShortShares
<1>2. SameBut(e, sh, Dealt(s, cs)) /\ e \in Int
  BY DealtShares, WithShortShares DEF SameBut
<1> SUFFICES ASSUME Agree(sh, m) PROVE FALSE
  BY <1>1, AcceptedDef
<1>3. \A i \in Windows(n, m) : Window(sh, m, i) = Window(sh, m, 0) /\ ~ Window(sh, m, 0).error
  BY <1>1 DEF Agree
<1>4. /\ 0 \in Windows(n, m) /\ 1 \in Windows(n, m)
      /\ Fits(0, m, n) /\ Fits(1, m, n)
      /\ \/ e = 1
         \/ e \in 2..m
         \/ e - m \in Nat /\ e - m \in Windows(n, m) /\ Fits(e - m, m, n) /\ m < e
  BY <1>1, WindowChoice
<1>5. CASE e <= m
  <2>1. 0 \in Nat /\ 0 < e /\ e <= 0 + m
    BY <1>1, <1>5
  <2>2. Window(sh, m, 0) = ValueError
    BY <1>4, <2>1, WindowWithShort
  <2> QED
    BY <1>3, <1>4, <2>2 DEF ValueError
<1>6. CASE m < e /\ e - m \in Nat /\ e - m \in Windows(n, m) /\ Fits(e - m, m, n)
  <2>1. e - m < e /\ e <= (e - m) + m
    BY <1>1, <1>6
  <2>2. Window(sh, m, e - m) = ValueError
    BY <1>6, <2>1, WindowWithShort
  <2> QED
    BY <1>3, <1>6, <2>2 DEF ValueError
<1> QED
  BY <1>1, <1>4, <1>5, <1>6

-----------------------------------------------------------------------------
(* Fewer shares than the threshold *)

\* A polynomial is its constant and x times the polynomial of the other coefficients.
LEMMA EvalHead ==
    ASSUME NEW m \in Nat, NEW cs \in Vector(m + 1), NEW t \in Vector(m),
           \A i \in 1..m : t[i] = cs[i + 1], NEW x \in Byte
    PROVE  EvalAt(cs, x) = GfAdd(cs[1], GfMul(x, EvalAt(t, x)))
<1> DEFINE f == Monomials(cs, m + 1, x)
           h == Monomials(t, m, x)
           g == [i \in 1..m |-> GfMul(x, h[i])]
<1>1. /\ m + 1 \in Nat /\ 1 \in 1..(m + 1) /\ cs[1] \in Byte
      /\ \A i \in 1..m : i + 1 \in 1..(m + 1) /\ t[i] \in Byte
  BY DEF Vector
<1>2. /\ f \in Vector(m + 1) /\ EvalAt(cs, x) = Sum(f)
      /\ h \in Vector(m) /\ EvalAt(t, x) = Sum(h)
  BY <1>1, EvalDef
<1>3. f[1] = cs[1]
  <2>1. f[1] = GfMul(cs[1], Power(x, 0))
    BY <1>1 DEF Monomials
  <2>2. Power(x, 0) = 1
    BY PowerNext
  <2> QED
    BY <1>1, <2>1, <2>2, MulOne
<1>4. ASSUME NEW i \in 1..m PROVE g[i] = f[i + 1]
  <2> DEFINE p == Power(x, i - 1)
  <2>1. i - 1 \in Nat /\ (i - 1) + 1 = i /\ (i + 1) - 1 = i
    OBVIOUS
  <2>2. p \in Byte /\ Power(x, i) = GfMul(x, p)
    BY <2>1, PowerNext
  <2>3. f[i + 1] = GfMul(t[i], Power(x, i))
    BY <1>1, <2>1 DEF Monomials
  <2>4. g[i] = GfMul(x, GfMul(t[i], p))
    BY DEF Monomials
  <2> HIDE DEF p, f, g
  <2>5. t[i] \in Byte
    BY <1>1
  <2>6. GfMul(x, GfMul(t[i], p)) = GfMul(GfMul(x, t[i]), p)
    BY <2>2, <2>5, MulAssociates
  <2>7. GfMul(x, t[i]) = GfMul(t[i], x)
    BY <2>5, MulCommutes
  <2>8. GfMul(GfMul(t[i], x), p) = GfMul(t[i], GfMul(x, p))
    BY <2>2, <2>5, MulAssociates
  <2> QED
    BY <2>2, <2>3, <2>4, <2>6, <2>7, <2>8
<1>5. g \in Vector(m) /\ \A i \in 1..m : g[i] = GfMul(x, h[i])
  <2>1. \A i \in 1..m : h[i] \in Byte
    BY <1>2 DEF Vector
  <2> HIDE DEF h
  <2>2. \A i \in 1..m : GfMul(x, h[i]) \in Byte
    BY <2>1, MulType
  <2> QED
    BY <2>2 DEF Vector
<1> HIDE DEF f, g, h
<1>6. Sum(g) = GfMul(x, Sum(h))
  BY <1>2, <1>5, SumScales
<1>7. Sum(f) = GfAdd(f[1], Sum(g))
  BY <1>2, <1>4, <1>5, SumHead
<1> QED
  BY <1>2, <1>3, <1>6, <1>7

\* The polynomials have the same value at all indices.
SameValues(c, d, xs, n) == \A i \in 1..n : EvalAt(c, xs[i]) = EvalAt(d, xs[i])

\* A polynomial is determined by its values at as many points as it has coefficients.
LEMMA ValuesDetermine ==
    ASSUME NEW n \in Nat, NEW xs \in Indices(n), NEW c \in Vector(n), NEW d \in Vector(n),
           SameValues(c, d, xs, n)
    PROVE  c = d
<1> DEFINE Same(l) == \A u, v \in Vector(l) : SameValues(u, v, xs, n) => u = v
           S == {l \in 0..n : Same(l)}
<1>1. \A i \in 1..n : xs[i] \in Byte /\ xs[i] \in NonZero
  BY ByteSplit DEF Indices, Vector
<1>2. 0 \in S
  <2>1. \A u, v \in Vector(0) : u = v
    BY DEF Vector
  <2> QED
    BY <2>1
<1>3. ASSUME NEW l \in 1..n, l - 1 \in S PROVE l \in S
  <2> SUFFICES ASSUME NEW u \in Vector(l), NEW v \in Vector(l), SameValues(u, v, xs, n)
               PROVE  u = v
    OBVIOUS
  <2> DEFINE a == [i \in 1..(l - 1) |-> u[i + 1]]
             b == [i \in 1..(l - 1) |-> v[i + 1]]
  <2>0. /\ l \in Nat /\ l - 1 \in Nat /\ (l - 1) + 1 = l /\ 1 \in 1..l
        /\ \A i \in 1..(l - 1) : i + 1 \in 1..l
        /\ \A i \in 1..l : i # 1 => i - 1 \in 1..(l - 1) /\ (i - 1) + 1 = i
    OBVIOUS
  <2>1. \A i \in 1..l : u[i] \in Byte /\ v[i] \in Byte
    BY DEF Vector
  <2>2. a \in Vector(l - 1) /\ b \in Vector(l - 1)
    BY <2>0, <2>1 DEF Vector
  <2>3. \A i \in 1..(l - 1) : a[i] = u[i + 1] /\ b[i] = v[i + 1]
    OBVIOUS
  <2> HIDE DEF a, b
  <2>4. u[1] = v[1]
    <3> DEFINE ys == [i \in 1..n |-> EvalAt(u, xs[i])]
    <3>1. ys \in Vector(n)
      <4>1. \A i \in 1..n : EvalAt(u, xs[i]) \in Byte
        BY <1>1, <2>0, EvalDef
      <4> QED
        BY <4>1 DEF Vector
    <3>2. \A i \in 1..n : ys[i] = EvalAt(u, xs[i]) /\ ys[i] = EvalAt(v, xs[i])
      BY DEF SameValues
    <3> HIDE DEF ys
    <3> QED
      BY <3>1, <3>2, Interpolates
  <2>5. ASSUME NEW i \in 1..n PROVE EvalAt(a, xs[i]) = EvalAt(b, xs[i])
    <3> DEFINE x == xs[i]
    <3>1. x \in Byte /\ x \in NonZero
      BY <1>1
    <3> HIDE DEF x
    <3>2. EvalAt(a, x) \in Byte /\ EvalAt(b, x) \in Byte
      BY <2>0, <2>2, <3>1, EvalDef
    <3>3. EvalAt(u, x) = GfAdd(u[1], GfMul(x, EvalAt(a, x)))
      BY <2>0, <2>2, <2>3, <3>1, EvalHead
    <3>4. EvalAt(v, x) = GfAdd(v[1], GfMul(x, EvalAt(b, x)))
      BY <2>0, <2>2, <2>3, <3>1, EvalHead
    <3>5. EvalAt(u, x) = EvalAt(v, x)
      BY DEF SameValues, x
    <3> DEFINE p == GfMul(x, EvalAt(a, x))
               q == GfMul(x, EvalAt(b, x))
    <3>6. p \in Byte /\ q \in Byte /\ u[1] \in Byte
      BY <2>0, <2>1, <3>1, <3>2, MulType
    <3>7. GfAdd(u[1], p) = GfAdd(u[1], q)
      BY <2>4, <3>3, <3>4, <3>5
    <3>8. p = q
      <4> HIDE DEF p, q
      <4>1. GfAdd(u[1], GfAdd(u[1], p)) = p /\ GfAdd(u[1], GfAdd(u[1], q)) = q
        BY <3>6, AddDiffers
      <4> QED
        BY <3>7, <4>1
    <3>9. GfMul(EvalAt(a, x), x) = GfMul(EvalAt(b, x), x)
      BY <3>1, <3>2, <3>8, MulCommutes
    <3> QED
      BY <3>1, <3>2, <3>9, MulCancels DEF x
  <2>6. a = b
    <3>1. SameValues(a, b, xs, n)
      BY <2>5 DEF SameValues
    <3>2. Same(l - 1)
      BY <1>3
    <3> QED
      BY <2>2, <3>1, <3>2
  <2>7. ASSUME NEW i \in 1..l PROVE u[i] = v[i]
    <3>1. CASE i = 1
      BY <2>4, <3>1
    <3>2. CASE i # 1
      BY <2>0, <2>3, <2>6, <3>2
    <3> QED
      BY <3>1, <3>2
  <2> QED
    BY <2>7 DEF Vector
<1>4. \A l \in 0..n : l \in S
  <2> HIDE DEF S
  <2> QED
    BY <1>2, <1>3, UpTo
<1>5. Same(n)
  BY <1>4
<1> QED
  BY <1>5

\* There are finitely many vectors.
LEMMA VectorsFinite ==
    ASSUME NEW n \in Nat
    PROVE  IsFiniteSet(Vector(n))
<1> DEFINE S == {i \in 0..n : IsFiniteSet(Vector(i))}
<1>0. IsFiniteSet(Byte)
  <2> DEFINE lo == 0
             hi == 255
  <2>1. lo \in Int /\ hi \in Int
    OBVIOUS
  <2> HIDE DEF lo, hi
  <2>2. IsFiniteSet(lo..hi)
    BY <2>1, FS_Interval
  <2> QED
    BY <2>2 DEF Byte, lo, hi
<1>1. 0 \in S
  <2>1. \E v : Vector(0) = {v}
    <3> DEFINE z == [i \in 1..0 |-> 0]
    <3>1. 1..0 = {}
      OBVIOUS
    <3>2. z \in Vector(0) /\ \A v \in Vector(0) : v = z
      BY <3>1 DEF Vector
    <3> HIDE DEF z
    <3>3. Vector(0) = {z}
      BY <3>2
    <3> QED
      BY <3>3
  <2>2. IsFiniteSet(Vector(0))
    BY <2>1, FS_Singleton
  <2> QED
    BY <2>2
<1>2. ASSUME NEW i \in 1..n, i - 1 \in S PROVE i \in S
  <2> DEFINE P == Vector(i - 1) \X Byte
             F == [t \in P |-> [j \in 1..i |-> IF j = i THEN t[2] ELSE t[1][j]]]
  <2>0. /\ i \in 1..i /\ \A j \in 1..i : j # i => j \in 1..(i - 1)
        /\ \A j \in 1..(i - 1) : j \in 1..i /\ j # i
    OBVIOUS
  <2>1. IsFiniteSet(P)
    BY <1>0, <1>2, FS_Product
  <2>2. ASSUME NEW t \in P PROVE F[t] \in Vector(i)
    BY <2>0 DEF Vector
  <2>3. ASSUME NEW v \in Vector(i) PROVE \E t \in P : F[t] = v
    <3> DEFINE u == [j \in 1..(i - 1) |-> v[j]]
    <3>1. u \in Vector(i - 1) /\ v[i] \in Byte
      BY <2>0 DEF Vector
    <3>2. <<u, v[i]>> \in P
      BY <3>1
    <3>3. F[<<u, v[i]>>] = [j \in 1..i |-> IF j = i THEN v[i] ELSE u[j]]
      BY <3>2
    <3>4. \A j \in 1..i : (IF j = i THEN v[i] ELSE u[j]) = v[j]
      BY <2>0
    <3>5. F[<<u, v[i]>>] = v
      BY <3>3, <3>4 DEF Vector
    <3> QED
      BY <3>2, <3>5
  <2>4. F \in [P -> Vector(i)]
    BY <2>2
  <2> HIDE DEF F, P
  <2>5. F \in Surjection(P, Vector(i))
    BY <2>3, <2>4 DEF Surjection
  <2>6. IsFiniteSet(Vector(i))
    BY <2>1, <2>5, FS_Surjection
  <2> QED
    BY <2>6
<1>3. \A i \in 0..n : i \in S
  <2> HIDE DEF S
  <2> QED
    BY <1>1, <1>2, UpTo
<1> QED
  BY <1>3

\* c has the values ys at the indices xs.
HasValues(c, xs, ys, n) == \A i \in 1..n : EvalAt(c, xs[i]) = ys[i]

\* n coefficients can be chosen to have any n values at n indices: as different choices
\* have different values, and there are as many values as choices, none is left out.
LEMMA ValuesExist ==
    ASSUME NEW n \in Nat, NEW xs \in Indices(n), NEW ys \in Vector(n)
    PROVE  \E c \in Vector(n) : HasValues(c, xs, ys, n)
<1> DEFINE V == Vector(n)
           F == [c \in V |-> [i \in 1..n |-> EvalAt(c, xs[i])]]
<1>1. \A i \in 1..n : xs[i] \in Byte
  BY DEF Indices, Vector
<1>2. ASSUME NEW c \in V PROVE F[c] \in V /\ \A i \in 1..n : F[c][i] = EvalAt(c, xs[i])
  <2>1. \A i \in 1..n : EvalAt(c, xs[i]) \in Byte
    BY <1>1, EvalDef
  <2> QED
    BY <2>1 DEF Vector
<1>3. F \in [V -> V]
  BY <1>2
<1>4. ASSUME NEW c \in V, NEW d \in V, F[c] = F[d] PROVE c = d
  <2>1. SameValues(c, d, xs, n)
    <3> HIDE DEF F
    <3> QED
      BY <1>2, <1>4 DEF SameValues
  <2> QED
    BY <2>1, ValuesDetermine
<1>5. IsFiniteSet(V)
  BY VectorsFinite
<1> HIDE DEF F, V
<1>6. F \in Injection(V, V)
  BY <1>3, <1>4 DEF Injection, IsInjective
<1>7. F \in Surjection(V, V)
  BY <1>5, <1>6, FS_Injection
<1>8. PICK c \in V : F[c] = ys
  <2>1. ys \in V
    BY DEF V
  <2> QED
    BY <1>7, <2>1 DEF Surjection
<1> QED
  BY <1>2, <1>8 DEF HasValues, V

\* A polynomial with a given constant.
WithConstant(v, c) == <<v>> \o c

\* It has one more coefficient.
LEMMA WithConstantType ==
    ASSUME NEW m \in Nat, NEW v \in Byte, NEW c \in Vector(m)
    PROVE  /\ WithConstant(v, c) \in Vector(m + 1)
           /\ WithConstant(v, c)[1] = v
           /\ \A i \in 1..m : WithConstant(v, c)[i + 1] = c[i]
<1> DEFINE u == <<v>>
           f == u \o c
<1>1. c \in Seq(Byte) /\ Len(c) = m
  BY VectorLen DEF Vector
<1>2. u \in Seq(Byte) /\ Len(u) = 1 /\ u[1] = v
  OBVIOUS
<1> HIDE DEF u
<1>3. /\ f \in Seq(Byte) /\ Len(f) = 1 + m
      /\ \A i \in 1..(1 + m) : f[i] = IF i <= 1 THEN u[i] ELSE c[i - 1]
  <2>1. /\ u \o c \in Seq(Byte) /\ Len(u \o c) = Len(u) + Len(c)
        /\ \A i \in 1..(Len(u) + Len(c)) :
             (u \o c)[i] = IF i <= Len(u) THEN u[i] ELSE c[i - Len(u)]
    BY <1>1, <1>2, ConcatProperties
  <2> QED
    BY <1>1, <1>2, <2>1
<1>4. 1 \in 1..(1 + m) /\ \A i \in 1..m : i + 1 \in 1..(1 + m) /\ ~(i + 1 <= 1) /\ (i + 1) - 1 = i
  OBVIOUS
<1> HIDE DEF f
<1>5. f[1] = v /\ \A i \in 1..m : f[i + 1] = c[i]
  BY <1>2, <1>3, <1>4
<1>6. f \in Vector(m + 1)
  BY <1>3, LenProperties DEF Vector
<1> QED
  BY <1>5, <1>6 DEF WithConstant, f, u

\* With a given constant, exactly one choice of n further coefficients has given values
\* at n indices.
LEMMA OneChoice ==
    ASSUME NEW n \in Nat, NEW xs \in Indices(n), NEW ys \in Vector(n), NEW v \in Byte
    PROVE  \E c \in Vector(n) : \A d \in Vector(n) :
             HasValues(WithConstant(v, d), xs, ys, n) <=> d = c
<1> DEFINE ts == [i \in 1..n |-> GfDiv(GfAdd(v, ys[i]), xs[i])]
<1>1. \A i \in 1..n : xs[i] \in Byte /\ xs[i] \in NonZero /\ ys[i] \in Byte
  BY ByteSplit DEF Indices, Vector
<1>2. \A i \in 1..n : ts[i] \in Byte /\ GfMul(xs[i], ts[i]) = GfAdd(v, ys[i])
  <2> SUFFICES ASSUME NEW i \in 1..n
               PROVE  ts[i] \in Byte /\ GfMul(xs[i], ts[i]) = GfAdd(v, ys[i])
    OBVIOUS
  <2>1. GfAdd(v, ys[i]) \in Byte
    BY <1>1, AddType
  <2>2. ts[i] \in Byte /\ GfMul(ts[i], xs[i]) = GfAdd(v, ys[i])
    BY <1>1, <2>1, DivType
  <2> HIDE DEF ts
  <2> QED
    BY <1>1, <2>2, MulCommutes
<1>3. ts \in Vector(n)
  BY <1>2 DEF Vector
<1> HIDE DEF ts
<1>4. PICK c \in Vector(n) : HasValues(c, xs, ts, n)
  BY <1>3, ValuesExist
<1>5. ASSUME NEW d \in Vector(n), NEW i \in 1..n
      PROVE  EvalAt(WithConstant(v, d), xs[i]) = ys[i] <=> EvalAt(d, xs[i]) = ts[i]
  <2> DEFINE x == xs[i]
             t == EvalAt(d, x)
             p == GfMul(x, t)
  <2>1. x \in Byte /\ x \in NonZero /\ ys[i] \in Byte /\ ts[i] \in Byte
        /\ GfMul(x, ts[i]) = GfAdd(v, ys[i])
    BY <1>1, <1>2
  <2>2. EvalAt(WithConstant(v, d), x) = GfAdd(v, p)
    <3> HIDE DEF x
    <3>1. /\ WithConstant(v, d) \in Vector(n + 1) /\ WithConstant(v, d)[1] = v
          /\ \A j \in 1..n : d[j] = WithConstant(v, d)[j + 1]
      BY WithConstantType
    <3> QED
      BY <2>1, <3>1, EvalHead
  <2>3. t \in Byte
    BY <2>1, EvalDef
  <2> HIDE DEF x, t
  <2>4. p \in Byte
    BY <2>1, <2>3, MulType
  <2>5. ASSUME t = ts[i] PROVE GfAdd(v, p) = ys[i]
    <3>1. p = GfAdd(v, ys[i])
      BY <2>1, <2>5
    <3> QED
      BY <2>1, <3>1, AddDiffers
  <2>6. ASSUME GfAdd(v, p) = ys[i] PROVE t = ts[i]
    <3>1. p = GfAdd(v, ys[i])
      <4> HIDE DEF p
      <4> QED
        BY <2>4, <2>6, AddDiffers
    <3>2. GfMul(t, x) = GfMul(ts[i], x)
      BY <2>1, <2>3, <3>1, MulCommutes
    <3> QED
      BY <2>1, <2>3, <3>2, MulCancels
  <2> QED
    BY <2>2, <2>5, <2>6 DEF t, x
<1>6. ASSUME NEW d \in Vector(n)
      PROVE  HasValues(WithConstant(v, d), xs, ys, n) <=> HasValues(d, xs, ts, n)
  BY <1>5 DEF HasValues
<1>7. ASSUME NEW d \in Vector(n), HasValues(d, xs, ts, n) PROVE d = c
  <2>1. SameValues(d, c, xs, n)
    BY <1>4, <1>7 DEF HasValues, SameValues
  <2> QED
    BY <2>1, ValuesDetermine
<1> QED
  BY <1>4, <1>6, <1>7

-----------------------------------------------------------------------------
(* The inductive invariant *)

\* Before the seed is split.
Fresh ==
    /\ secret = <<>> /\ k = 0 /\ shares = <<>> /\ damaged = [at |-> 0, how |-> "none"]
    /\ picked = {} /\ verdict = "none"

\* The shares D are held, one of them as Damage left it.
HeldFrom(D) ==
    \/ damaged = [at |-> 0, how |-> "none"] /\ shares = D
    \/ \E e \in DOMAIN D, d \in Damages :
         damaged = [at |-> e, how |-> "byte"] /\ shares = WithByte(D, e, d)
    \/ \E e \in DOMAIN D : damaged = [at |-> e, how |-> "short"] /\ shares = WithShort(D, e)
    \/ \E e \in DOMAIN D : \E j \in DOMAIN D \ {e} :
         damaged = [at |-> e, how |-> "index"] /\ shares = WithIndex(D, e, j)

\* The shares come from one split of the secret.
Backup ==
    /\ \E s \in Splits : \E cs \in Draws(s) :
         secret = Seed(s) /\ k = Threshold(s) /\ HeldFrom(Dealt(s, cs))
    /\ picked \in SUBSET DOMAIN shares

\* What was returned is still what the shares would give.
Outcome ==
    /\ picked # {} => result = Reconstruct(Held(picked))
    /\ verdict # "none" => verdict = VerifyShares(shares, k)

\* The invariant that every step preserves: the shares are those of one split,
\* up to one damage, and the outcomes are those of the shares.
IInv == (Fresh \/ Backup) /\ Outcome

\* The initial states satisfy the invariant.
LEMMA InitIInv == Init => IInv
<1> SUFFICES ASSUME Init PROVE IInv
  OBVIOUS
<1>1. Fresh
  BY DEF Init, Fresh
<1>2. Outcome
  BY DEF Init, Outcome
<1> QED
  BY <1>1, <1>2 DEF IInv

\* What a backup's damage says of its shares.
LEMMA HeldFromType ==
    ASSUME NEW s \in Splits, NEW cs \in Draws(s), HeldFrom(Dealt(s, cs))
    PROVE  /\ damaged.at = 0 <=> damaged = [at |-> 0, how |-> "none"]
           /\ damaged.at = 0 => shares = Dealt(s, cs)
           /\ damaged.how \notin {"byte", "short", "index"} => damaged.at = 0
           /\ damaged.at # 0 => damaged.at \in 1..Total(s)
           /\ SameBut(damaged.at, shares, Dealt(s, cs))
           /\ damaged.how = "byte" =>
                \E d \in Byte : d # 0 /\ shares = WithByte(Dealt(s, cs), damaged.at, d)
           /\ damaged.how = "short" => shares = WithShort(Dealt(s, cs), damaged.at)
<1> DEFINE D == Dealt(s, cs)
<1>1. DOMAIN D = 1..Total(s) /\ 0 \notin DOMAIN D
  BY DealtShares
<1>2. \A d \in Damages : d \in Byte /\ d # 0
  BY ShamirAssumption
<1> HIDE DEF D
<1>3. CASE damaged = [at |-> 0, how |-> "none"] /\ shares = D
  BY <1>3 DEF D, SameBut
<1>4. ASSUME NEW e \in DOMAIN D, NEW d \in Damages,
             damaged = [at |-> e, how |-> "byte"], shares = WithByte(D, e, d)
      PROVE  /\ damaged.at = e /\ damaged.how = "byte" /\ e # 0 /\ e \in 1..Total(s)
             /\ SameBut(damaged.at, shares, D) /\ d \in Byte /\ d # 0
  <2>1. damaged.at = e /\ damaged.how = "byte" /\ e # 0 /\ e \in 1..Total(s) /\ d \in Byte /\ d # 0
    BY <1>1, <1>2, <1>4
  <2>2. DOMAIN shares = 1..Total(s) /\ \A j \in 1..Total(s) : j # e => shares[j] = D[j]
    BY <1>4, <2>1, WithByteShares DEF D
  <2> QED
    BY <1>1, <2>1, <2>2 DEF SameBut
<1>5. ASSUME NEW e \in DOMAIN D, damaged = [at |-> e, how |-> "short"], shares = WithShort(D, e)
      PROVE  /\ damaged.at = e /\ damaged.how = "short" /\ e # 0 /\ e \in 1..Total(s)
             /\ SameBut(damaged.at, shares, D)
  <2>1. damaged.at = e /\ damaged.how = "short" /\ e # 0 /\ e \in 1..Total(s)
    BY <1>1, <1>5
  <2>2. DOMAIN shares = 1..Total(s) /\ \A j \in 1..Total(s) : j # e => shares[j] = D[j]
    BY <1>5, <2>1, WithShortShares DEF D
  <2> QED
    BY <1>1, <2>1, <2>2 DEF SameBut
<1>6. ASSUME NEW e \in DOMAIN D, NEW j \in DOMAIN D \ {e},
             damaged = [at |-> e, how |-> "index"], shares = WithIndex(D, e, j)
      PROVE  /\ damaged.at = e /\ damaged.how = "index" /\ e # 0 /\ e \in 1..Total(s)
             /\ SameBut(damaged.at, shares, D)
  <2>1. damaged.at = e /\ damaged.how = "index" /\ e # 0 /\ e \in 1..Total(s)
    BY <1>1, <1>6
  <2>2. DOMAIN shares = DOMAIN D /\ \A i \in DOMAIN D : i # e => shares[i] = D[i]
    BY <1>6 DEF WithIndex
  <2> QED
    BY <2>1, <2>2 DEF SameBut
<1>7. \/ damaged = [at |-> 0, how |-> "none"] /\ shares = D
      \/ \E e \in DOMAIN D, d \in Damages :
           damaged = [at |-> e, how |-> "byte"] /\ shares = WithByte(D, e, d)
      \/ \E e \in DOMAIN D : damaged = [at |-> e, how |-> "short"] /\ shares = WithShort(D, e)
      \/ \E e \in DOMAIN D : \E j \in DOMAIN D \ {e} :
           damaged = [at |-> e, how |-> "index"] /\ shares = WithIndex(D, e, j)
  BY DEF HeldFrom, D
<1>8. CASE \E e \in DOMAIN D, d \in Damages :
             damaged = [at |-> e, how |-> "byte"] /\ shares = WithByte(D, e, d)
  <2>1. PICK e \in DOMAIN D, d \in Damages :
          damaged = [at |-> e, how |-> "byte"] /\ shares = WithByte(D, e, d)
    BY <1>8
  <2>2. /\ damaged.at = e /\ damaged.how = "byte" /\ e # 0 /\ e \in 1..Total(s)
        /\ SameBut(damaged.at, shares, D) /\ d \in Byte /\ d # 0
    BY <1>4, <2>1
  <2> QED
    BY <2>1, <2>2 DEF D
<1>9. CASE \E e \in DOMAIN D : damaged = [at |-> e, how |-> "short"] /\ shares = WithShort(D, e)
  <2>1. PICK e \in DOMAIN D : damaged = [at |-> e, how |-> "short"] /\ shares = WithShort(D, e)
    BY <1>9
  <2>2. /\ damaged.at = e /\ damaged.how = "short" /\ e # 0 /\ e \in 1..Total(s)
        /\ SameBut(damaged.at, shares, D)
    BY <1>5, <2>1
  <2> QED
    BY <2>1, <2>2 DEF D
<1>10. CASE \E e \in DOMAIN D : \E j \in DOMAIN D \ {e} :
              damaged = [at |-> e, how |-> "index"] /\ shares = WithIndex(D, e, j)
  <2>1. PICK e \in DOMAIN D : \E j \in DOMAIN D \ {e} :
          damaged = [at |-> e, how |-> "index"] /\ shares = WithIndex(D, e, j)
    BY <1>10
  <2>2. /\ damaged.at = e /\ damaged.how = "index" /\ e # 0 /\ e \in 1..Total(s)
        /\ SameBut(damaged.at, shares, D)
    BY <1>6, <2>1
  <2> QED
    BY <2>2 DEF D
<1> QED
  BY <1>3, <1>7, <1>8, <1>9, <1>10

\* Every step of a backup's life preserves the invariant.
LEMMA NextIInv == IInv /\ [Next]_vars => IInv'
<1> SUFFICES ASSUME IInv, [Next]_vars PROVE IInv'
  OBVIOUS
<1>1. Fresh => DOMAIN shares = {}
  BY DEF Fresh
<1>2. Backup => secret # <<>>
  BY SplitType DEF Backup
<1>3. ASSUME NEW s \in Splits, Split(s) PROVE IInv'
  <2>1. Fresh
    BY <1>2, <1>3 DEF IInv, Split
  <2>2. PICK cs \in Draws(s) : shares' = Dealt(s, cs)
    BY <1>3 DEF Split, Draws, Dealt, Seed, Threshold, Total
  <2>3. /\ secret' = Seed(s) /\ k' = Threshold(s) /\ damaged' = [at |-> 0, how |-> "none"]
        /\ picked' = {} /\ verdict' = "none"
    BY <1>3, <2>1 DEF Split, Fresh, Seed, Threshold
  <2>4. Backup'
    BY <2>2, <2>3 DEF Backup, HeldFrom
  <2>5. Outcome'
    BY <2>3 DEF Outcome
  <2> QED
    BY <2>4, <2>5 DEF IInv
<1>4. ASSUME NEW i \in DOMAIN shares, Damage(i) PROVE IInv'
  <2>1. Backup /\ i \in DOMAIN shares
    BY <1>1 DEF IInv
  <2>2. PICK s \in Splits : \E cs \in Draws(s) :
          secret = Seed(s) /\ k = Threshold(s) /\ HeldFrom(Dealt(s, cs))
    BY <2>1 DEF Backup
  <2>3. PICK cs \in Draws(s) : secret = Seed(s) /\ k = Threshold(s) /\ HeldFrom(Dealt(s, cs))
    BY <2>2
  <2>4. damaged.at = 0 /\ picked = {} /\ verdict = "none"
    BY <1>4 DEF Damage
  <2> DEFINE D == Dealt(s, cs)
  <2>5. shares = D
    BY <2>3, <2>4, HeldFromType
  <2> HIDE DEF D
  <2>6. HeldFrom(D)'
    <3>1. CASE /\ \E d \in Damages : shares' = [shares EXCEPT ![i].y[1] = GfAdd(@, d)]
               /\ damaged' = [at |-> i, how |-> "byte"]
      <4>1. PICK d \in Damages : shares' = WithByte(D, i, d)
        BY <2>5, <3>1 DEF WithByte
      <4>2. i \in DOMAIN D
        BY <2>1, <2>5
      <4> QED
        BY <3>1, <4>1, <4>2 DEF HeldFrom
    <3>2. CASE /\ shares' = [shares EXCEPT ![i].y = Tail(@)]
               /\ damaged' = [at |-> i, how |-> "short"]
      <4>1. shares' = WithShort(D, i) /\ i \in DOMAIN D
        BY <2>1, <2>5, <3>2 DEF WithShort
      <4> QED
        BY <3>2, <4>1 DEF HeldFrom
    <3>3. CASE /\ \E j \in DOMAIN shares \ {i} : shares' = [shares EXCEPT ![i].x = shares[j].x]
               /\ damaged' = [at |-> i, how |-> "index"]
      <4>1. PICK j \in DOMAIN D \ {i} : shares' = WithIndex(D, i, j)
        BY <2>5, <3>3 DEF WithIndex
      <4>2. i \in DOMAIN D
        BY <2>1, <2>5
      <4> QED
        BY <3>3, <4>1, <4>2 DEF HeldFrom
    <3> QED
      BY <1>4, <3>1, <3>2, <3>3 DEF Damage
  <2>7. /\ secret' = secret /\ k' = k /\ picked' = {} /\ verdict' = "none"
    BY <1>4, <2>4 DEF Damage
  <2>8. Backup'
    BY <2>3, <2>6, <2>7 DEF Backup, D
  <2>9. Outcome'
    BY <2>7 DEF Outcome
  <2> QED
    BY <2>8, <2>9 DEF IInv
<1>5. ASSUME NEW S \in (SUBSET DOMAIN shares) \ {{}}, Recover(S) PROVE IInv'
  <2>1. Backup
    BY <1>1 DEF IInv
  <2>2. /\ picked' = S /\ result' = Reconstruct(Held(S)) /\ verdict = "none"
        /\ secret' = secret /\ k' = k /\ shares' = shares /\ damaged' = damaged
        /\ verdict' = verdict
    BY <1>5 DEF Recover
  <2>3. Backup'
    BY <2>1, <2>2 DEF Backup, HeldFrom
  <2>4. Held(picked)' = Held(S)
    BY <2>2 DEF Held
  <2>5. Outcome'
    BY <2>2, <2>4 DEF Outcome
  <2> QED
    BY <2>3, <2>5 DEF IInv
<1>6. ASSUME Verify PROVE IInv'
  <2>1. Backup
    BY <1>6 DEF IInv, Fresh, Verify
  <2>2. /\ picked = {} /\ picked' = picked /\ verdict' = VerifyShares(shares, k)
        /\ secret' = secret /\ k' = k /\ shares' = shares /\ damaged' = damaged
    BY <1>6 DEF Verify
  <2>3. Backup'
    BY <2>1, <2>2 DEF Backup, HeldFrom
  <2>4. Outcome'
    BY <2>2 DEF Outcome
  <2> QED
    BY <2>3, <2>4 DEF IInv
<1>7. ASSUME UNCHANGED vars PROVE IInv'
  <2>1. Fresh' <=> Fresh
    BY <1>7 DEF vars, Fresh
  <2>2. Backup' <=> Backup
    BY <1>7 DEF vars, Backup, HeldFrom
  <2>3. Held(picked)' = Held(picked)
    BY <1>7 DEF vars, Held
  <2>4. Outcome' <=> Outcome
    BY <1>7, <2>3 DEF vars, Outcome
  <2> QED
    BY <2>1, <2>2, <2>4 DEF IInv
<1> QED
  BY <1>3, <1>4, <1>5, <1>6, <1>7 DEF Next

\* The invariant holds throughout.
THEOREM BackupInvariant == Spec => []IInv
<1>1. Init => IInv
  BY InitIInv
<1>2. IInv /\ [Next]_vars => IInv'
  BY NextIInv
<1> QED
  BY <1>1, <1>2, PTL DEF Spec

-----------------------------------------------------------------------------
(* What the invariant implies *)

\* A backup that is used is one split's.
LEMMA UsedBackup ==
    ASSUME IInv, picked # {} \/ verdict # "none" \/ secret # <<>> \/ k # 0
    PROVE  Backup
  BY DEF IInv, Fresh

\* The shares of a recovery.
LEMMA HeldListed ==
    ASSUME NEW n \in Nat, DOMAIN shares = 1..n, NEW S \in SUBSET (1..n)
    PROVE  Listed(Held(S), shares, Nth(S), Cardinality(S))
<1> DEFINE T == {shares[Nth(S)[i]] : i \in 1..Cardinality(S)}
<1>1. Cardinality(S) \in Nat
  BY RankType
<1>2. Held(S) = [i \in 1..Cardinality(S) |-> shares[Nth(S)[i]]]
  BY HeldIsNth
<1>3. Held(S) \in [1..Cardinality(S) -> T]
  BY <1>2
<1> HIDE DEF T
<1>4. Len(Held(S)) = Cardinality(S)
  BY <1>1, <1>3, VectorLen
<1> QED
  BY <1>2, <1>4 DEF Listed

\* RecoversSeed follows from the invariant.
LEMMA RecoversSeedLemma == IInv => RecoversSeed
<1> SUFFICES ASSUME IInv, picked # {}, Cardinality(picked) >= k
             PROVE  /\ damaged.at \notin picked => result = Returns(secret)
                    /\ damaged.at \in picked /\ damaged.how # "index" => result # Returns(secret)
  BY DEF RecoversSeed
<1>1. Backup /\ result = Reconstruct(Held(picked))
  BY UsedBackup DEF IInv, Outcome
<1>2. PICK s \in Splits : \E cs \in Draws(s) :
        secret = Seed(s) /\ k = Threshold(s) /\ HeldFrom(Dealt(s, cs))
  BY <1>1 DEF Backup
<1>3. PICK cs \in Draws(s) : secret = Seed(s) /\ k = Threshold(s) /\ HeldFrom(Dealt(s, cs))
  BY <1>2
<1> DEFINE n == Total(s)
           m == Cardinality(picked)
           p == Nth(picked)
           h == Held(picked)
           D == Dealt(s, cs)
           e == damaged.at
<1>4. /\ SameBut(e, shares, D)
      /\ damaged.how \notin {"byte", "short", "index"} => e = 0
      /\ e # 0 => e \in 1..n
      /\ damaged.how = "byte" => \E d \in Byte : d # 0 /\ shares = WithByte(D, e, d)
      /\ damaged.how = "short" => shares = WithShort(D, e)
  BY <1>3, HeldFromType
<1>5. n \in Nat /\ Threshold(s) \in Nat /\ Threshold(s) >= 2 /\ DOMAIN D = 1..n
  BY SplitType, DealtShares
<1>6. DOMAIN shares = 1..n /\ picked \in SUBSET (1..n)
  BY <1>1, <1>4, <1>5 DEF SameBut, Backup
<1> HIDE DEF n, D, e
<1>7. /\ m \in Nat /\ p \in Places(n, m) /\ Listed(h, shares, p, m)
      /\ \A i \in 1..m : p[i] \in picked
      /\ \A j \in picked : \E i \in 1..m : p[i] = j
  BY <1>5, <1>6, RankType, NthPlaces, HeldListed
<1> HIDE DEF m, p, h
<1>8. m >= Threshold(s)
  BY <1>3 DEF m
<1>9. ASSUME e \notin picked PROVE result = Returns(secret)
  <2>1. \A i \in 1..m : p[i] \in DOMAIN D /\ p[i] # e
    BY <1>5, <1>6, <1>7, <1>9
  <2>2. Listed(h, D, p, m)
    BY <1>4, <1>7, <2>1 DEF Listed, SameBut
  <2>3. Reconstruct(h) = Returns(Seed(s))
    BY <1>7, <1>8, <2>2, UntouchedReconstruct DEF D, n
  <2> QED
    BY <1>1, <1>3, <2>3 DEF h
<1>10. ASSUME e \in picked, damaged.how # "index" PROVE result # Returns(secret)
  <2>1. e \in 1..n /\ (damaged.how = "byte" \/ damaged.how = "short")
    BY <1>4, <1>6, <1>10
  <2>2. PICK a \in 1..m : p[a] = e
    BY <1>7, <1>10
  <2>3. CASE damaged.how = "byte"
    <3>1. PICK d \in Byte : d # 0 /\ shares = WithByte(D, e, d)
      BY <1>4, <2>3
    <3>2. Listed(h, WithByte(D, e, d), p, m)
      BY <1>7, <3>1
    <3>3. Reconstruct(h) # Returns(Seed(s))
      BY <1>7, <1>8, <2>1, <2>2, <3>1, <3>2, WrongByteReconstruct DEF D, n
    <3> QED
      BY <1>1, <1>3, <3>3 DEF h
  <2>4. CASE damaged.how = "short"
    <3>1. Listed(h, WithShort(D, e), p, m)
      BY <1>4, <1>7, <2>4
    <3>2. m >= 2
      BY <1>5, <1>7, <1>8
    <3>3. Reconstruct(h) = ValueError
      BY <1>7, <2>1, <2>2, <3>1, <3>2, ShortReconstruct DEF D, n
    <3> QED
      BY <1>1, <3>3 DEF h, ValueError, Returns
  <2> QED
    BY <2>1, <2>3, <2>4
<1> QED
  BY <1>9, <1>10 DEF e

\* BelowThresholdHides follows from the invariant: the shares that were picked are
\* places of one split, and one choice of coefficients has their values.
LEMMA BelowThresholdLemma == IInv => BelowThresholdHides
<1> SUFFICES ASSUME IInv, Cardinality(picked) = k - 1, damaged.at = 0,
                    NEW b \in DOMAIN secret, NEW v \in Guesses[k]
             PROVE  Cardinality(Explanations(b, v)) = 1
  BY DEF BelowThresholdHides
<1>1. Backup
  <2>1. DOMAIN secret # {}
    OBVIOUS
  <2> QED
    BY <2>1 DEF IInv, Fresh
<1>2. PICK s \in Splits : \E cs \in Draws(s) :
        secret = Seed(s) /\ k = Threshold(s) /\ HeldFrom(Dealt(s, cs))
  BY <1>1 DEF Backup
<1>3. PICK cs \in Draws(s) : secret = Seed(s) /\ k = Threshold(s) /\ HeldFrom(Dealt(s, cs))
  BY <1>2
<1> DEFINE n == Total(s)
           m == Cardinality(picked)
           p == Nth(picked)
           D == Dealt(s, cs)
           ys == [a \in 1..m |-> D[p[a]].y[b]]
<1>4. shares = D /\ n \in Nat /\ Threshold(s) \in Nat /\ DOMAIN D = 1..n /\ Len(D) = n
  <2>1. shares = D
    BY <1>3, HeldFromType
  <2>2. n \in Nat /\ Threshold(s) \in Nat
    BY SplitType
  <2>3. DOMAIN D = 1..n /\ Len(D) = n
    BY DealtShares
  <2> QED
    BY <2>1, <2>2, <2>3
<1>5. b \in 1..Len(Seed(s)) /\ v \in Byte
  <2>1. DOMAIN Seed(s) = 1..Len(Seed(s))
    BY SplitType
  <2>2. Threshold(s) \in 2..255
    BY ShamirAssumption DEF Threshold
  <2>3. Guesses[k] \in SUBSET Byte
    BY <1>3, <2>2, ShamirAssumption
  <2> QED
    BY <1>3, <2>1, <2>3
<1>6. \A i \in 1..n : /\ D[i] = [x |-> i, y |-> D[i].y]
                      /\ D[i].y \in [1..Len(Seed(s)) -> Byte]
  BY DealtShares
<1>7. picked \in SUBSET (1..n)
  BY <1>1, <1>4 DEF Backup
<1> HIDE DEF n, D
<1>8. /\ m \in Nat /\ p \in Places(n, m) /\ \A a \in 1..m : p[a] \in picked
      /\ \A i \in picked : \E a \in 1..m : p[a] = i
  <2>1. m \in Nat
    BY <1>4, <1>7, RankType
  <2>2. /\ Nth(picked) \in Places(n, Cardinality(picked))
        /\ \A i \in 1..Cardinality(picked) : Nth(picked)[i] \in picked
        /\ \A j \in picked : \E i \in 1..Cardinality(picked) : Nth(picked)[i] = j
    BY <1>4, <1>7, NthPlaces
  <2> QED
    BY <2>1, <2>2
<1> HIDE DEF p
<1>9. p \in Indices(m) /\ \A a \in 1..m : p[a] \in 1..n
  BY <1>8, PlacesAreIndices DEF n
<1>10. ys \in Vector(m) /\ \A a \in 1..m : ys[a] = D[p[a]].y[b]
  BY <1>5, <1>6, <1>9 DEF Vector
<1> HIDE DEF ys
<1>11. ASSUME NEW c \in Vector(m), NEW i \in 1..n
       PROVE  SplitShares(<<v>>, <<c>>, Len(shares))[i] = [shares[i] EXCEPT !.y = <<@[b]>>]
                <=> EvalAt(WithConstant(v, c), i) = D[i].y[b]
  <2> DEFINE t == EvalAt(WithConstant(v, c), i)
             u == D[i].y[b]
  <2>1. SplitShares(<<v>>, <<c>>, Len(shares))[i] = [x |-> i, y |-> <<t>>]
    <3>1. DOMAIN <<v>> = 1..1 /\ <<v>>[1] = v /\ <<c>>[1] = c
      OBVIOUS
    <3>2. SplitShares(<<v>>, <<c>>, n)[i]
            = [x |-> i, y |-> [j \in 1..1 |-> EvalAt(<<<<v>>[j]>> \o <<c>>[j], i)]]
      BY <3>1 DEF SplitShares
    <3>3. \A j \in 1..1 : EvalAt(<<<<v>>[j]>> \o <<c>>[j], i) = t
      BY <3>1 DEF WithConstant
    <3>4. [j \in 1..1 |-> EvalAt(<<<<v>>[j]>> \o <<c>>[j], i)] = [j \in 1..1 |-> t]
      BY <3>3, Zenon
    <3>5. \A w : [j \in 1..1 |-> w] = <<w>>
      OBVIOUS
    <3> HIDE DEF t
    <3>6. [j \in 1..1 |-> EvalAt(<<<<v>>[j]>> \o <<c>>[j], i)] = <<t>>
      BY <3>4, <3>5, Zenon
    <3>7. SplitShares(<<v>>, <<c>>, n)[i] = [x |-> i, y |-> <<t>>]
      BY <3>2, <3>6, Zenon
    <3> QED
      BY <1>4, <3>7
  <2>2. [shares[i] EXCEPT !.y = <<@[b]>>] = [x |-> i, y |-> <<u>>]
    BY <1>4, <1>6
  <2>3. \A a, e : [x |-> i, y |-> <<a>>] = [x |-> i, y |-> <<e>>] <=> a = e
    <3>1. \A a, e : <<a>> = <<e>> <=> a = e
      OBVIOUS
    <3>2. \A a, e : [x |-> i, y |-> a] = [x |-> i, y |-> e] <=> a = e
      OBVIOUS
    <3> QED
      BY <3>1, <3>2, Zenon
  <2> HIDE DEF t, u
  <2>4. SplitShares(<<v>>, <<c>>, Len(shares))[i] = [shares[i] EXCEPT !.y = <<@[b]>>] <=> t = u
    BY <2>1, <2>2, <2>3, Zenon
  <2> QED
    BY <2>4 DEF t, u
<1>12. PICK c \in Vector(m) : \A d \in Vector(m) :
         HasValues(WithConstant(v, d), p, ys, m) <=> d = c
  BY <1>5, <1>8, <1>9, <1>10, OneChoice
<1>13. ASSUME NEW d \in Vector(m)
       PROVE  (\A i \in picked : SplitShares(<<v>>, <<d>>, Len(shares))[i]
                                   = [shares[i] EXCEPT !.y = <<@[b]>>])
                <=> HasValues(WithConstant(v, d), p, ys, m)
  <2> DEFINE Fits1(i) == EvalAt(WithConstant(v, d), i) = D[i].y[b]
  <2>1. (\A i \in picked : SplitShares(<<v>>, <<d>>, Len(shares))[i]
                             = [shares[i] EXCEPT !.y = <<@[b]>>])
          <=> \A i \in picked : Fits1(i)
    BY <1>7, <1>11
  <2>2. HasValues(WithConstant(v, d), p, ys, m) <=> \A a \in 1..m : Fits1(p[a])
    BY <1>10 DEF HasValues
  <2> HIDE DEF Fits1
  <2>3. (\A i \in picked : Fits1(i)) <=> \A a \in 1..m : Fits1(p[a])
    BY <1>8
  <2> QED
    BY <2>1, <2>2, <2>3
<1>14. Explanations(b, v) = {c}
  <2>1. [1..(k - 1) -> Byte] = Vector(m)
    BY DEF Vector
  <2> QED
    BY <1>12, <1>13, <2>1 DEF Explanations
<1> QED
  BY <1>14, FS_Singleton

\* VerifyFindsDamage follows from the invariant.
LEMMA VerifyFindsDamageLemma == IInv => VerifyFindsDamage
<1> SUFFICES ASSUME IInv, verdict # "none"
             PROVE  /\ damaged.at = 0 => verdict = "accepted"
                    /\ damaged.how \in {"byte", "short"} /\ Len(shares) > k /\ damaged.at <= k + 3
                         => verdict # "accepted"
  BY DEF VerifyFindsDamage
<1>1. Backup /\ verdict = VerifyShares(shares, k)
  BY UsedBackup DEF IInv, Outcome
<1>2. PICK s \in Splits : \E cs \in Draws(s) :
        secret = Seed(s) /\ k = Threshold(s) /\ HeldFrom(Dealt(s, cs))
  BY <1>1 DEF Backup
<1>3. PICK cs \in Draws(s) : secret = Seed(s) /\ k = Threshold(s) /\ HeldFrom(Dealt(s, cs))
  BY <1>2
<1> DEFINE D == Dealt(s, cs)
           e == damaged.at
<1>4. CASE e = 0
  <2>1. shares = D /\ damaged = [at |-> 0, how |-> "none"]
    BY <1>3, <1>4, HeldFromType
  <2>2. verdict = "accepted"
    BY <1>1, <1>3, <2>1, DealtAccepted
  <2> QED
    BY <2>1, <2>2
<1>5. ASSUME e # 0, damaged.how = "byte", Len(shares) > k, e <= k + 3
      PROVE  verdict # "accepted"
  <2>1. e \in 1..Total(s) /\ \E d \in Byte : d # 0 /\ shares = WithByte(D, e, d)
    BY <1>3, <1>5, HeldFromType
  <2>2. PICK d \in Byte : d # 0 /\ shares = WithByte(D, e, d)
    BY <2>1
  <2> HIDE DEF e
  <2>3. Len(shares) = Total(s)
    BY <2>1, <2>2, WithByteShares
  <2>4. Threshold(s) < Total(s) /\ e <= Threshold(s) + 3
    <3>1. Threshold(s) \in Nat /\ Total(s) \in Nat
      BY SplitType
    <3> QED
      BY <1>3, <1>5, <2>3, <3>1
  <2>5. VerifyShares(shares, Threshold(s)) # "accepted"
    BY <2>1, <2>2, <2>4, WrongByteNotAccepted
  <2> QED
    BY <1>1, <1>3, <2>5
<1>6. ASSUME e # 0, damaged.how = "short", Len(shares) > k, e <= k + 3
      PROVE  verdict # "accepted"
  <2>1. e \in 1..Total(s) /\ shares = WithShort(D, e)
    BY <1>3, <1>6, HeldFromType
  <2> HIDE DEF e
  <2>2. Len(shares) = Total(s)
    BY <2>1, WithShortShares
  <2>3. Threshold(s) < Total(s) /\ e <= Threshold(s) + 3
    <3>1. Threshold(s) \in Nat /\ Total(s) \in Nat
      BY SplitType
    <3> QED
      BY <1>3, <1>6, <2>2, <3>1
  <2>4. VerifyShares(shares, Threshold(s)) # "accepted"
    BY <2>1, <2>3, ShortNotAccepted
  <2> QED
    BY <1>1, <1>3, <2>4
<1>7. e = 0 => damaged.how = "none"
  BY <1>3, HeldFromType
<1> QED
  BY <1>4, <1>5, <1>6, <1>7

\* TablesAreField follows from the invariant.
LEMMA TablesAreFieldLemma == IInv => TablesAreField
<1> SUFFICES ASSUME IInv, secret # <<>>, NEW b \in Byte
             PROVE  /\ GfMul(secret[1], b) = PolyMul(secret[1], b)
                    /\ b # 0 => /\ GfDiv(GfMul(secret[1], b), b) = secret[1]
                                /\ GfMul(secret[1], GfInv(b)) = GfDiv(secret[1], b)
  BY DEF TablesAreField
<1>1. PICK s \in Splits : secret = Seed(s)
  BY UsedBackup DEF Backup
<1>2. secret[1] \in Byte
  <2>1. Seed(s) \in [1..Len(Seed(s)) -> Byte] /\ 1 \in 1..Len(Seed(s))
    BY SplitType
  <2> QED
    BY <1>1, <2>1
<1> QED
  BY <1>2, MulIsPolyMul, DivUndoesMul, ByteSplit

-----------------------------------------------------------------------------

\* For any seed, threshold, number of shares, coefficients and choice of k or
\* more shares, reconstruct returns the seed from shares as they were handed
\* out, and never when one of them has a wrong byte or is short.
THEOREM RecoversSeedHolds == Spec => []RecoversSeed
  BY BackupInvariant, RecoversSeedLemma, PTL

\* For every threshold, number of shares and secret, and every value a byte of the
\* secret is guessed to be, k - 1 shares are explained by exactly one draw of split.
THEOREM BelowThresholdHidesHolds == Spec => []BelowThresholdHides
  BY BackupInvariant, BelowThresholdLemma, PTL

\* verify_shares accepts untouched shares and no wrong or missing byte among
\* the first k + 3 of more than k shares.
THEOREM VerifyFindsDamageHolds == Spec => []VerifyFindsDamage
  BY BackupInvariant, VerifyFindsDamageLemma, PTL

\* Exponent and logarithm tables compute the product, quotient and inverse of
\* GF(2^8) at every pair of bytes.
THEOREM TablesAreFieldHolds == Spec => []TablesAreField
  BY BackupInvariant, TablesAreFieldLemma, PTL
=============================================================================
