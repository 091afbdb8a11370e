---------------------------- MODULE CoinsProofs -----------------------------
(***************************************************************************)
(* Sums over finite sets, and what they say about the value of tokens.     *)
(*                                                                         *)
(* SumOver is defined by a recursive function on the subsets of its        *)
(* argument.  That such a function exists, and that the sum does not       *)
(* depend on the order in which elements are picked, is shown by induction *)
(* on finite sets in the form of Least: a nonempty set of counterexamples  *)
(* has a smallest one.                                                     *)
(***************************************************************************)
EXTENDS Coins, FiniteSetTheorems, WellFoundedInduction, TLAPS

\* A nonempty collection of subsets of a finite set has a minimal member.
LEMMA Least ==
  ASSUME NEW S, IsFiniteSet(S), NEW C \in SUBSET (SUBSET S), C # {}
  PROVE  \E s \in C : \A u \in C : ~(u \subseteq s /\ u # s)
<1>1. IsWellFoundedOn(StrictSubsetOrdering(S), SUBSET S)
  BY FS_StrictSubsetOrderingWellFounded, FS_FiniteSubsetsOfFinite
<1>2. \E s \in C : \A u \in C : ~ (<<u, s>> \in StrictSubsetOrdering(S))
  BY <1>1, WFMin
<1> QED BY <1>2 DEF StrictSubsetOrdering

-----------------------------------------------------------------------------
(* The recursive function behind a sum *)

\* The element MapThenSumSet takes from s next.
First(s) == CHOOSE x \in s : TRUE

\* g adds up f over every subset of S.
Adds(f, g, S) ==
    g = [s \in SUBSET S |-> IF s = {} THEN 0 ELSE f[First(s)] + g[s \ {First(s)}]]

LEMMA SumDef == \A f, S : SumOver(f, S) = (CHOOSE g : Adds(f, g, S))[S]
  BY DEF SumOver, MapThenSumSet, MapThenFoldSet, Adds, First

LEMMA FirstType == \A s : s # {} => First(s) \in s
  BY DEF First

\* At most one function adds up f over the subsets of S, and so does its
\* restriction to the subsets of a smaller set.
LEMMA AddsUnique ==
  ASSUME NEW f, NEW S, IsFiniteSet(S), NEW g, NEW h, Adds(f, g, S), Adds(f, h, S)
  PROVE  g = h
<1> DEFINE C == {s \in SUBSET S : g[s] # h[s]}
<1>1. C = {}
  <2> SUFFICES ASSUME C # {} PROVE FALSE
    OBVIOUS
  <2>1. PICK s \in C : \A u \in C : ~(u \subseteq s /\ u # s)
    <3>1. C \in SUBSET (SUBSET S)
      OBVIOUS
    <3> HIDE DEF C
    <3> QED BY <3>1, Least
  <2>2. /\ g[s] = IF s = {} THEN 0 ELSE f[First(s)] + g[s \ {First(s)}]
        /\ h[s] = IF s = {} THEN 0 ELSE f[First(s)] + h[s \ {First(s)}]
    BY <2>1 DEF Adds
  <2>3. s # {} => g[s \ {First(s)}] = h[s \ {First(s)}]
    BY <2>1, FirstType
  <2> QED BY <2>1, <2>2, <2>3
<1>2. g = [s \in SUBSET S |-> g[s]] /\ h = [s \in SUBSET S |-> h[s]]
  BY DEF Adds
<1> QED BY <1>1, <1>2

LEMMA AddsRestricted ==
  ASSUME NEW f, NEW S, NEW g, Adds(f, g, S), NEW T \in SUBSET S
  PROVE  Adds(f, [s \in SUBSET T |-> g[s]], T)
<1> DEFINE h == [s \in SUBSET T |-> g[s]]
<1>1. ASSUME NEW s \in SUBSET T
      PROVE  h[s] = IF s = {} THEN 0 ELSE f[First(s)] + h[s \ {First(s)}]
  <2>1. g[s] = IF s = {} THEN 0 ELSE f[First(s)] + g[s \ {First(s)}]
    BY DEF Adds
  <2>2. h[s] = g[s] /\ h[s \ {First(s)}] = g[s \ {First(s)}]
    OBVIOUS
  <2> QED BY <2>1, <2>2
<1> QED BY <1>1 DEF Adds

\* There is such a function for every finite set.
LEMMA AddsExists ==
  ASSUME NEW f, NEW S, IsFiniteSet(S)
  PROVE  \E g : Adds(f, g, S)
<1> DEFINE C == {T \in SUBSET S : ~ \E g : Adds(f, g, T)}
           G(T) == CHOOSE g : Adds(f, g, T)
<1>1. C = {}
  <2> SUFFICES ASSUME C # {} PROVE FALSE
    OBVIOUS
  <2>1. PICK T \in C : \A u \in C : ~(u \subseteq T /\ u # T)
    <3>1. C \in SUBSET (SUBSET S)
      OBVIOUS
    <3> HIDE DEF C
    <3> QED BY <3>1, Least
  <2>2. ASSUME NEW u \in SUBSET T, u # T PROVE Adds(f, G(u), u)
    BY <2>1, <2>2
  <2>3. ASSUME NEW u \in SUBSET T, u # T, NEW v \in SUBSET u PROVE G(u)[v] = G(v)[v]
    <3>1. Adds(f, [s \in SUBSET v |-> G(u)[s]], v)
      BY <2>2, <2>3, AddsRestricted
    <3>2. Adds(f, G(v), v) /\ IsFiniteSet(v)
      BY <2>2, <2>3, FS_Subset
    <3>3. G(v) = [s \in SUBSET v |-> G(u)[s]]
      BY <3>1, <3>2, AddsUnique
    <3> QED BY <3>3
  <2> HIDE DEF G
  <2> DEFINE low(s) == IF s = {} THEN 0 ELSE f[First(s)] + G(s \ {First(s)})[s \ {First(s)}]
             h == [s \in SUBSET T |-> low(s)]
  <2>4. ASSUME NEW s \in SUBSET T, s # T PROVE h[s] = G(s)[s]
    <3>1. G(s)[s] = IF s = {} THEN 0 ELSE f[First(s)] + G(s)[s \ {First(s)}]
      BY <2>2, <2>4 DEF Adds
    <3>2. G(s)[s \ {First(s)}] = G(s \ {First(s)})[s \ {First(s)}]
      BY <2>3, <2>4
    <3> QED BY <3>1, <3>2
  <2>5. ASSUME NEW s \in SUBSET T
        PROVE  h[s] = IF s = {} THEN 0 ELSE f[First(s)] + h[s \ {First(s)}]
    <3>1. s # {} => s \ {First(s)} # T /\ s \ {First(s)} \in SUBSET T
      BY FirstType
    <3>2. s # {} => h[s \ {First(s)}] = G(s \ {First(s)})[s \ {First(s)}]
      BY <2>4, <3>1
    <3> QED BY <3>2
  <2>6. Adds(f, h, T)
    <3> HIDE DEF low
    <3> QED BY <2>5 DEF Adds
  <2> QED BY <2>1, <2>6
<1> QED BY <1>1

-----------------------------------------------------------------------------
(* Sums *)

\* A sum, one element at a time in the order in which elements are picked.
LEMMA SumFirst ==
  ASSUME NEW f, NEW S, IsFiniteSet(S)
  PROVE  SumOver(f, S) = IF S = {} THEN 0
                         ELSE f[First(S)] + SumOver(f, S \ {First(S)})
<1> DEFINE G(T) == CHOOSE g : Adds(f, g, T)
<1>1. ASSUME NEW T \in SUBSET S PROVE Adds(f, G(T), T) /\ SumOver(f, T) = G(T)[T]
  <2>1. IsFiniteSet(T)
    BY FS_Subset
  <2> QED BY <2>1, AddsExists, SumDef
<1> HIDE DEF G
<1> DEFINE U == S \ {First(S)}
<1>2. G(S)[S] = IF S = {} THEN 0 ELSE f[First(S)] + G(S)[U]
  BY <1>1 DEF Adds
<1>3. G(S)[U] = G(U)[U]
  <2>1. Adds(f, [s \in SUBSET U |-> G(S)[s]], U)
    BY <1>1, AddsRestricted
  <2>2. IsFiniteSet(U)
    BY FS_Subset
  <2>3. G(U) = [s \in SUBSET U |-> G(S)[s]]
    BY <1>1, <2>1, <2>2, AddsUnique
  <2> QED BY <2>3
<1> QED BY <1>1, <1>2, <1>3

\* The empty sum, and the type of a sum of natural numbers.
LEMMA SumEmpty == \A f : SumOver(f, {}) = 0
  BY SumFirst, FS_EmptySet

LEMMA SumType ==
  ASSUME NEW D, NEW f \in [D -> Nat], NEW S \in SUBSET D, IsFiniteSet(S)
  PROVE  SumOver(f, S) \in Nat
<1> DEFINE C == {s \in SUBSET S : SumOver(f, s) \notin Nat}
<1>1. C = {}
  <2> SUFFICES ASSUME C # {} PROVE FALSE
    OBVIOUS
  <2>1. PICK s \in C : \A u \in C : ~(u \subseteq s /\ u # s)
    <3>1. C \in SUBSET (SUBSET S)
      OBVIOUS
    <3> HIDE DEF C
    <3> QED BY <3>1, Least
  <2>2. SumOver(f, s) = IF s = {} THEN 0 ELSE f[First(s)] + SumOver(f, s \ {First(s)})
    <3>1. IsFiniteSet(s)
      BY FS_Subset
    <3> QED BY <3>1, SumFirst
  <2>3. s # {} => f[First(s)] \in Nat /\ SumOver(f, s \ {First(s)}) \in Nat
    BY <2>1, FirstType
  <2> QED BY <2>2, <2>3
<1> QED BY <1>1

\* Any element of the set can be split off.
LEMMA SumRemove ==
  ASSUME NEW D, NEW f \in [D -> Nat], NEW S \in SUBSET D, IsFiniteSet(S), NEW x \in S
  PROVE  SumOver(f, S) = f[x] + SumOver(f, S \ {x})
<1> DEFINE C == {s \in SUBSET S : \E y \in s : SumOver(f, s) # f[y] + SumOver(f, s \ {y})}
<1>1. C = {}
  <2> SUFFICES ASSUME C # {} PROVE FALSE
    OBVIOUS
  <2>1. PICK s \in C : \A u \in C : ~(u \subseteq s /\ u # s)
    <3>1. C \in SUBSET (SUBSET S)
      OBVIOUS
    <3> HIDE DEF C
    <3> QED BY <3>1, Least
  <2>2. PICK y \in s : SumOver(f, s) # f[y] + SumOver(f, s \ {y})
    BY <2>1
  <2>3. PICK z \in s : z = First(s) /\ SumOver(f, s) = f[z] + SumOver(f, s \ {z})
    <3>1. IsFiniteSet(s)
      BY FS_Subset
    <3> QED BY <3>1, SumFirst, FirstType
  <2>4. y # z
    BY <2>2, <2>3
  <2>5. SumOver(f, s \ {z}) = f[y] + SumOver(f, (s \ {z}) \ {y})
    <3>1. s \ {z} \notin C /\ s \ {z} \in SUBSET S /\ y \in s \ {z}
      BY <2>1, <2>3, <2>4
    <3> QED BY <3>1
  <2>6. SumOver(f, s \ {y}) = f[z] + SumOver(f, (s \ {y}) \ {z})
    <3>1. s \ {y} \notin C /\ s \ {y} \in SUBSET S /\ z \in s \ {y}
      BY <2>1, <2>3, <2>4
    <3> QED BY <3>1
  <2>7. (s \ {z}) \ {y} = (s \ {y}) \ {z}
    OBVIOUS
  <2>8. /\ f[y] \in Nat /\ f[z] \in Nat /\ SumOver(f, (s \ {y}) \ {z}) \in Nat
    <3>1. IsFiniteSet((s \ {y}) \ {z}) /\ (s \ {y}) \ {z} \in SUBSET D
      BY FS_Subset
    <3> QED BY <3>1, SumType
  <2> QED BY <2>2, <2>3, <2>5, <2>6, <2>7, <2>8
<1> QED BY <1>1

LEMMA SumSingle ==
  ASSUME NEW D, NEW f \in [D -> Nat], NEW x \in D
  PROVE  SumOver(f, {x}) = f[x]
<1>1. {x} \in SUBSET D /\ IsFiniteSet({x}) /\ x \in {x}
  BY FS_Singleton
<1>2. SumOver(f, {x}) = f[x] + SumOver(f, {x} \ {x})
  BY <1>1, SumRemove
<1>3. {x} \ {x} = {}
  OBVIOUS
<1>4. SumOver(f, {x} \ {x}) = 0
  BY <1>3, SumEmpty
<1> QED BY <1>2, <1>4

\* Sums over disjoint sets add up.
LEMMA SumUnion ==
  ASSUME NEW D, NEW f \in [D -> Nat], NEW S \in SUBSET D, IsFiniteSet(S),
         NEW T \in SUBSET D, IsFiniteSet(T), S \cap T = {}
  PROVE  SumOver(f, S \cup T) = SumOver(f, S) + SumOver(f, T)
<1> DEFINE C == {u \in SUBSET T : SumOver(f, S \cup u) # SumOver(f, S) + SumOver(f, u)}
<1>1. C = {}
  <2> SUFFICES ASSUME C # {} PROVE FALSE
    OBVIOUS
  <2>1. PICK u \in C : \A v \in C : ~(v \subseteq u /\ v # u)
    <3>1. C \in SUBSET (SUBSET T)
      OBVIOUS
    <3> HIDE DEF C
    <3> QED BY <3>1, Least
  <2>2. u # {}
    BY SumEmpty, SumType
  <2>3. PICK x : x \in u
    BY <2>2
  <2> DEFINE v == u \ {x}
  <2>4. SumOver(f, S \cup v) = SumOver(f, S) + SumOver(f, v)
    BY <2>1, <2>3
  <2>5. IsFiniteSet(u) /\ IsFiniteSet(v) /\ IsFiniteSet(S \cup u)
    BY FS_Subset, FS_Union
  <2>6. (S \cup u) \ {x} = S \cup v
    BY <2>3
  <2>7. /\ SumOver(f, u) = f[x] + SumOver(f, v)
        /\ SumOver(f, S \cup u) = f[x] + SumOver(f, S \cup v)
    BY <2>3, <2>5, <2>6, SumRemove
  <2>8. f[x] \in Nat /\ SumOver(f, S) \in Nat /\ SumOver(f, v) \in Nat
    BY <2>3, <2>5, SumType
  <2> QED BY <2>1, <2>4, <2>7, <2>8
<1> QED BY <1>1

\* What is left after a part is taken out.
LEMMA SumSubset ==
  ASSUME NEW D, NEW f \in [D -> Nat], NEW S \in SUBSET D, IsFiniteSet(S), NEW T \in SUBSET S
  PROVE  /\ SumOver(f, S) = SumOver(f, T) + SumOver(f, S \ T)
         /\ SumOver(f, T) <= SumOver(f, S)
<1>1. IsFiniteSet(T) /\ IsFiniteSet(S \ T)
  BY FS_Subset
<1>2. T \cup (S \ T) = S /\ T \cap (S \ T) = {} /\ T \in SUBSET D /\ S \ T \in SUBSET D
  OBVIOUS
<1>3. SumOver(f, T \cup (S \ T)) = SumOver(f, T) + SumOver(f, S \ T)
  BY <1>1, <1>2, SumUnion
<1>4. SumOver(f, T) \in Nat /\ SumOver(f, S \ T) \in Nat
  BY <1>1, <1>2, SumType
<1>5. SumOver(f, S) = SumOver(f, T) + SumOver(f, S \ T)
  BY <1>2, <1>3, Zenon
<1> QED BY <1>4, <1>5

\* A sum depends only on the values of the elements of the set.
LEMMA SumAgree ==
  ASSUME NEW D, NEW f \in [D -> Nat], NEW g \in [D -> Nat], NEW S \in SUBSET D,
         IsFiniteSet(S), \A x \in S : f[x] = g[x]
  PROVE  SumOver(f, S) = SumOver(g, S)
<1> DEFINE C == {s \in SUBSET S : SumOver(f, s) # SumOver(g, s)}
<1>1. C = {}
  <2> SUFFICES ASSUME C # {} PROVE FALSE
    OBVIOUS
  <2>1. PICK s \in C : \A u \in C : ~(u \subseteq s /\ u # s)
    <3>1. C \in SUBSET (SUBSET S)
      OBVIOUS
    <3> HIDE DEF C
    <3> QED BY <3>1, Least
  <2>2. PICK x : x \in s
    BY SumEmpty
  <2>3. SumOver(f, s \ {x}) = SumOver(g, s \ {x})
    BY <2>1, <2>2
  <2>4. IsFiniteSet(s) /\ s \in SUBSET D
    BY FS_Subset
  <2>5. SumOver(f, s) = f[x] + SumOver(f, s \ {x}) /\ SumOver(g, s) = g[x] + SumOver(g, s \ {x})
    BY <2>2, <2>4, SumRemove
  <2> QED BY <2>2, <2>3, <2>5
<1> QED BY <1>1

\* Changing one value changes the sum by the difference.
LEMMA SumChange ==
  ASSUME NEW D, NEW f \in [D -> Nat], NEW g \in [D -> Nat], NEW S \in SUBSET D,
         IsFiniteSet(S), NEW x \in S, \A y \in S \ {x} : f[y] = g[y]
  PROVE  SumOver(g, S) + f[x] = SumOver(f, S) + g[x]
<1>1. IsFiniteSet(S \ {x}) /\ S \ {x} \in SUBSET D
  BY FS_Subset
<1>2. SumOver(f, S \ {x}) = SumOver(g, S \ {x}) /\ SumOver(f, S \ {x}) \in Nat
  BY <1>1, SumAgree, SumType
<1>3. SumOver(f, S) = f[x] + SumOver(f, S \ {x}) /\ SumOver(g, S) = g[x] + SumOver(g, S \ {x})
  BY SumRemove
<1>4. f[x] \in Nat /\ g[x] \in Nat
  OBVIOUS
<1> QED BY <1>2, <1>3, <1>4

\* A sum of equal values.
LEMMA SumConstant ==
  ASSUME NEW D, NEW f \in [D -> Nat], NEW S \in SUBSET D, IsFiniteSet(S),
         NEW c \in Nat, \A x \in S : f[x] = c
  PROVE  SumOver(f, S) = c * Cardinality(S)
<1> DEFINE C == {s \in SUBSET S : SumOver(f, s) # c * Cardinality(s)}
<1>1. C = {}
  <2> SUFFICES ASSUME C # {} PROVE FALSE
    OBVIOUS
  <2>1. PICK s \in C : \A u \in C : ~(u \subseteq s /\ u # s)
    <3>1. C \in SUBSET (SUBSET S)
      OBVIOUS
    <3> HIDE DEF C
    <3> QED BY <3>1, Least
  <2>2. PICK x : x \in s
    <3>1. Cardinality({}) = 0 /\ SumOver(f, {}) = 0 /\ c * 0 = 0
      BY SumEmpty, FS_EmptySet
    <3>2. s # {}
      BY <3>1
    <3> QED BY <3>2
  <2>3. IsFiniteSet(s) /\ IsFiniteSet(s \ {x}) /\ s \in SUBSET D
    BY FS_Subset
  <2>4. /\ Cardinality(s \ {x}) \in Nat
        /\ Cardinality(s) = Cardinality(s \ {x}) + 1
    <3>1. Cardinality(s \ {x}) = Cardinality(s) - 1 /\ Cardinality(s) \in Nat
      BY <2>2, <2>3, FS_RemoveElement, FS_CardinalityType
    <3>2. Cardinality(s \ {x}) \in Nat
      BY <2>3, FS_CardinalityType
    <3> QED BY <3>1, <3>2
  <2>5. SumOver(f, s \ {x}) = c * Cardinality(s \ {x})
    BY <2>1, <2>2
  <2>6. SumOver(f, s) = f[x] + SumOver(f, s \ {x})
    BY <2>2, <2>3, SumRemove
  <2>7. f[x] = c
    BY <2>2
  <2>8. \A n \in Nat : c + c * n = c * (n + 1)
    OBVIOUS
  <2> QED BY <2>1, <2>4, <2>5, <2>6, <2>7, <2>8
<1> QED BY <1>1

-----------------------------------------------------------------------------
(* The value of tokens *)

LEMMA ValueType == \A S \in SUBSET Tokens : IsFiniteSet(S) /\ Value(S) \in Nat
<1>1. Denom \in [Tokens -> Nat]
  BY DenomAssumption
<1> SUFFICES ASSUME NEW S \in SUBSET Tokens PROVE IsFiniteSet(S) /\ Value(S) \in Nat
  OBVIOUS
<1>2. IsFiniteSet(S)
  BY TokensAssumption, FS_Subset
<1> QED BY <1>1, <1>2, SumType DEF Value

LEMMA ValueUnion ==
  ASSUME NEW S \in SUBSET Tokens, NEW T \in SUBSET Tokens, S \cap T = {}
  PROVE  Value(S \cup T) = Value(S) + Value(T)
<1>1. Denom \in [Tokens -> Nat]
  BY DenomAssumption
<1> QED BY <1>1, ValueType, SumUnion DEF Value

LEMMA ValueSubset ==
  ASSUME NEW S \in SUBSET Tokens, NEW T \in SUBSET S
  PROVE  Value(S) = Value(T) + Value(S \ T) /\ Value(T) <= Value(S)
<1>1. Denom \in [Tokens -> Nat]
  BY DenomAssumption
<1> QED BY <1>1, ValueType, SumSubset DEF Value

LEMMA ValueWithout ==
  ASSUME NEW S \in SUBSET Tokens, NEW T \in SUBSET Tokens
  PROVE  Value(S) <= Value(S \ T) + Value(T)
<1>1. Value(S) = Value(S \cap T) + Value(S \ (S \cap T)) /\ Value(S \cap T) <= Value(T)
  BY ValueSubset
<1>2. S \ (S \cap T) = S \ T
  OBVIOUS
<1>3. Value(S \cap T) \in Nat /\ Value(S \ T) \in Nat /\ Value(T) \in Nat
  BY ValueType
<1>4. Value(S) = Value(S \cap T) + Value(S \ T)
  BY <1>1, <1>2, Zenon
<1> QED BY <1>1, <1>3, <1>4

\* Disjoint sets of tokens, each worth what it stands for, are together worth
\* all they stand for.
LEMMA ValueCovers ==
  ASSUME NEW D, NEW a \in [D -> Nat], NEW P \in SUBSET D, IsFiniteSet(P),
         NEW T \in [D -> SUBSET Tokens], \A p \in P : Value(T[p]) >= a[p],
         \A p, q \in P : p # q => T[p] \cap T[q] = {}
  PROVE  SumOver(a, P) <= Value(UNION {T[p] : p \in P})
<1> DEFINE U(Q) == UNION {T[p] : p \in Q}
           C == {Q \in SUBSET P : ~(SumOver(a, Q) <= Value(U(Q)))}
<1>1. C = {}
  <2> SUFFICES ASSUME C # {} PROVE FALSE
    OBVIOUS
  <2>1. PICK Q \in C : \A V \in C : ~(V \subseteq Q /\ V # Q)
    <3>1. C \in SUBSET (SUBSET P)
      OBVIOUS
    <3> HIDE DEF C
    <3> QED BY <3>1, Least
  <2>2. Q # {}
    <3>1. U({}) = {}
      OBVIOUS
    <3>2. SumOver(a, {}) <= Value(U({}))
      <4>1. SumOver(a, {}) = 0 /\ Value({}) = 0
        BY SumEmpty DEF Value
      <4>2. Value(U({})) = 0
        BY <3>1, <4>1, Zenon
      <4> HIDE DEF U
      <4> QED BY <4>1, <4>2
    <3>3. {} \notin C
      BY <3>2, Zenon
    <3> HIDE DEF C
    <3> QED BY <3>3
  <2>3. PICK p : p \in Q
    BY <2>2
  <2> DEFINE R == Q \ {p}
  <2>4. SumOver(a, R) <= Value(U(R))
    <3>1. R \in SUBSET P /\ R \notin C
      BY <2>1, <2>3
    <3> HIDE DEF R, U
    <3> QED BY <3>1
  <2>5. U(Q) = U(R) \cup T[p] /\ U(R) \cap T[p] = {}
    BY <2>3
  <2>6. U(R) \in SUBSET Tokens /\ T[p] \in SUBSET Tokens /\ p \in P /\ p \in D
    BY <2>3
  <2> HIDE DEF U
  <2>7. Value(U(Q)) = Value(U(R)) + Value(T[p])
    BY <2>5, <2>6, ValueUnion
  <2>8. IsFiniteSet(Q) /\ IsFiniteSet(R) /\ Q \in SUBSET D /\ R \in SUBSET D
    BY FS_Subset
  <2>9. SumOver(a, Q) = a[p] + SumOver(a, R) /\ SumOver(a, R) \in Nat /\ a[p] \in Nat
    BY <2>3, <2>6, <2>8, SumRemove, SumType
  <2>10. Value(U(R)) \in Nat /\ Value(T[p]) \in Nat /\ Value(T[p]) >= a[p]
    BY <2>6, ValueType
  <2>11. ~(SumOver(a, Q) <= Value(U(Q)))
    BY <2>1
  <2> HIDE DEF R
  <2> QED BY <2>4, <2>7, <2>9, <2>10, <2>11
<1> QED BY <1>1
=============================================================================
