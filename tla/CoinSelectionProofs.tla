------------------------ MODULE CoinSelectionProofs -------------------------
(***************************************************************************)
(* Proofs that select_tokens returns an optimal selection, for any tokens  *)
(* of the denominations of the code and any targets.                       *)
(*                                                                         *)
(* The inductive invariant SearchInv says of the search that no covering   *)
(* selection in the explored part of the tree beats best_selection; a call *)
(* that returns leaves nothing below it unexplored (ReturnExplores).  The  *)
(* greedy attempt leaves out a token only if it is worth more than all     *)
(* that is taken after it and what remains (GreedyLoop); of the sets of    *)
(* the same value, such a set is the smallest (FewestTokens).              *)
(***************************************************************************)
EXTENDS CoinSelection, CoinsProofs, SequenceTheorems

-----------------------------------------------------------------------------
(* Least and greatest numbers *)

LEMMA LeastNatural ==
  ASSUME NEW S \in SUBSET Nat, S # {}
  PROVE  \E m \in S : \A k \in S : m <= k
<1>1. PICK m \in S : \A k \in S : ~ (<<k, m>> \in OpToRel(<, Nat))
  BY NatLessThanWellFounded, WFMin, Zenon
<1>2. \A k \in S : ~ (k < m)
  BY <1>1 DEF OpToRel
<1> QED BY <1>2

LEMMA MaxType ==
  ASSUME NEW n \in Nat, NEW S \in SUBSET (1..n), S # {}
  PROVE  Max(S) \in S /\ \A k \in S : k <= Max(S)
<1> DEFINE C == {n - k : k \in S}
<1>1. \A k \in S : n - k \in Nat
  OBVIOUS
<1>2. PICK c \in C : \A d \in C : c <= d
  <2>1. C \in SUBSET Nat
    BY <1>1
  <2>2. C # {}
    OBVIOUS
  <2> HIDE DEF C
  <2> QED BY <2>1, <2>2, LeastNatural
<1>3. PICK m \in S : c = n - m
  BY <1>2
<1>4. \A k \in S : m >= k
  BY <1>2, <1>3
<1> QED BY <1>3, <1>4 DEF Max

-----------------------------------------------------------------------------
(* The inductive invariant *)

\* U is as good as T: less change, or the same with no more tokens.
AsGood(U, T) ==
    \/ Value(U) < Value(T)
    \/ Value(U) = Value(T) /\ Cardinality(U) <= Cardinality(T)

\* best_selection is as good as every covering selection in C.
BestOf(C) == \A T \in C : Value(T) >= target => best # {} /\ AsGood(best, T)

\* The tokens are listed once each; path decides on a prefix of them.
Shape ==
    /\ order \in Seq(Tokens)
    /\ \A i, j \in 1..Len(order) : i # j => order[i] # order[j]
    /\ Descending(order)
    /\ target \in Targets
    /\ path \in Seq(BOOLEAN) /\ Len(path) <= Len(order)
    /\ best \subseteq ToSet(order)

\* What is known at each point of select_tokens.
Progress ==
    /\ pc \in {"start", "search", "done", "rejected"}
    /\ pc = "start" => path = <<>> /\ best = {}
    /\ pc = "rejected" => Insufficient
    /\ pc \in {"search", "done"} => ~Insufficient
    /\ pc = "search" => Greedy.remaining # 0 /\ BestOf(Passed)
    /\ pc = "done" => IF Greedy.remaining = 0 THEN best = Greedy.selected
                                             ELSE BestOf(SUBSET ToSet(order))
    /\ best # {} => Value(best) >= target

SearchInv == Shape /\ Progress

LEMMA OrderTypes ==
  ASSUME Shape
  PROVE  /\ Len(order) \in Nat /\ DOMAIN order = 1..Len(order)
         /\ \A i \in 1..Len(order) : order[i] \in Tokens
         /\ ToSet(order) = {order[i] : i \in 1..Len(order)}
         /\ ToSet(order) \in SUBSET Tokens
         /\ Len(path) \in Nat /\ \A i \in 1..Len(path) : path[i] \in BOOLEAN
         /\ target \in Nat /\ target > 0
<1>1. order \in [1..Len(order) -> Tokens] /\ Len(order) \in Nat /\ DOMAIN order = 1..Len(order)
  BY LenProperties DEF Shape
<1>2. ToSet(order) = {order[i] : i \in 1..Len(order)}
  BY <1>1 DEF ToSet
<1>3. Len(path) \in Nat /\ path \in [1..Len(path) -> BOOLEAN]
  BY LenProperties DEF Shape
<1>4. target \in Nat /\ target > 0
  BY TargetsAssumption DEF Shape
<1> QED BY <1>1, <1>2, <1>3, <1>4

-----------------------------------------------------------------------------
(* The search *)

\* The selections below the current call.
Below ==
    {T \in SUBSET ToSet(order) : \A j \in 1..Len(path) : path[j] <=> order[j] \in T}

\* A selection that follows the path down to its last include decision was
\* passed, or is below the current call.
LEMMA Explored ==
  ASSUME Shape, NEW m \in 0..Len(path), \A j \in m + 1..Len(path) : ~path[j],
         NEW T \in SUBSET ToSet(order), \A j \in 1..m : path[j] <=> order[j] \in T
  PROVE  T \in Passed \cup Below
<1> DEFINE D == {j \in 1..Len(path) : ~(path[j] <=> order[j] \in T)}
<1>0. Len(path) \in Nat
  BY OrderTypes
<1>1. CASE D = {}
  BY <1>1 DEF Below
<1>2. CASE D # {}
  <2>1. D \in SUBSET Nat
    BY <1>0
  <2>2. PICK i \in D : \A k \in D : i <= k
    <3> HIDE DEF D
    <3> QED BY <1>2, <2>1, LeastNatural
  <2>3. i \in 1..Len(path) /\ i \in Nat /\ ~(path[i] <=> order[i] \in T)
    BY <1>0, <2>2
  <2>4. i \in m + 1..Len(path)
    <3>1. i \notin 1..m
      BY <2>3
    <3> HIDE DEF D
    <3> QED BY <1>0, <2>3, <3>1
  <2>5. ~path[i] /\ order[i] \in T
    BY <2>3, <2>4
  <2>6. ASSUME NEW j \in 1..i - 1 PROVE path[j] <=> order[j] \in T
    <3>1. j \in 1..Len(path) /\ ~(i <= j)
      BY <1>0, <2>3
    <3>2. j \notin D
      <4> HIDE DEF D
      <4> QED BY <2>2, <3>1
    <3> QED BY <3>1, <3>2
  <2> QED BY <2>3, <2>5, <2>6 DEF Passed
<1> QED BY <1>1, <1>2

\* A call that returns leaves nothing below it to explore.
LEMMA ReturnExplores ==
  ASSUME Shape, pc = "search", Return, order' = order, target' = target,
         best' \subseteq ToSet(order)
  PROVE  /\ Shape'
         /\ pc' = "search" => Passed' \subseteq Passed \cup Below
         /\ pc' = "done" => SUBSET ToSet(order) = Passed \cup Below
         /\ pc' \in {"search", "done"}
<1> DEFINE open == {i \in 1..Len(path) : path[i]}
           m == Max(open)
           before == SubSeq(path, 1, m - 1)
<1>0. /\ Len(path) \in Nat /\ Len(order) \in Nat /\ Len(path) <= Len(order)
      /\ \A i \in 1..Len(path) : path[i] \in BOOLEAN
  BY OrderTypes DEF Shape
<1>1. CASE open = {}
  <2>1. pc' = "done" /\ path' = path
    BY <1>1 DEF Return
  <2>2. \A T \in SUBSET ToSet(order) : T \in Passed \cup Below
    <3>1. 0 \in 0..Len(path) /\ \A j \in 0 + 1..Len(path) : ~path[j]
      BY <1>0, <1>1
    <3> SUFFICES ASSUME NEW T \in SUBSET ToSet(order) PROVE T \in Passed \cup Below
      OBVIOUS
    <3>2. \A j \in 1..0 : path[j] <=> order[j] \in T
      OBVIOUS
    <3> HIDE DEF open
    <3> QED BY <3>1, <3>2, Explored
  <2>3. Passed \cup Below \subseteq SUBSET ToSet(order)
    BY DEF Passed, Below
  <2>4. Shape'
    BY <2>1 DEF Shape
  <2> QED BY <2>1, <2>2, <2>3, <2>4
<1>2. CASE open # {}
  <2>1. pc' = "search" /\ path' = Append(before, FALSE)
    BY <1>2 DEF Return
  <2>2. m \in open /\ \A k \in open : k <= m
    <3>1. open \in SUBSET (1..Len(path))
      OBVIOUS
    <3> HIDE DEF open
    <3> QED BY <1>0, <1>2, <3>1, MaxType
  <2>3. m \in 1..Len(path) /\ m \in Nat /\ path[m]
    BY <1>0, <2>2
  <2>4. \A j \in m + 1..Len(path) : ~path[j]
    <3>1. \A j \in m + 1..Len(path) : j \in 1..Len(path) /\ ~(j <= m)
      <4> HIDE DEF m
      <4> QED BY <1>0, <2>3
    <3> HIDE DEF m
    <3> QED BY <2>2, <3>1
  <2> HIDE DEF m, open
  <2>5. /\ before \in Seq(BOOLEAN) /\ Len(before) = m - 1
        /\ \A j \in 1..m - 1 : before[j] = path[j]
    <3>1. m - 1 \in Int /\ \A j \in 1..m - 1 : path[j] \in BOOLEAN
      BY <1>0, <2>3
    <3>2. /\ SubSeq(path, 1, m - 1) \in Seq(BOOLEAN)
          /\ Len(SubSeq(path, 1, m - 1)) = IF 1 <= m - 1 THEN m - 1 - 1 + 1 ELSE 0
          /\ \A j \in 1..m - 1 - 1 + 1 : SubSeq(path, 1, m - 1)[j] = path[1 + j - 1]
      BY <3>1, SubSeqProperties
    <3>3. \A j \in 1..m - 1 : j \in 1..m - 1 - 1 + 1 /\ 1 + j - 1 = j
      BY <2>3
    <3>4. Len(before) = m - 1
      BY <2>3, <3>2
    <3> QED BY <3>2, <3>3, <3>4
  <2> HIDE DEF before
  <2>6. /\ path' \in Seq(BOOLEAN) /\ Len(path') = m /\ ~path'[m]
        /\ \A j \in 1..m - 1 : path'[j] = path[j]
    <3>1. /\ Append(before, FALSE) \in Seq(BOOLEAN)
          /\ Len(Append(before, FALSE)) = Len(before) + 1
          /\ \A j \in 1..Len(before) : Append(before, FALSE)[j] = before[j]
          /\ Append(before, FALSE)[Len(before) + 1] = FALSE
      <4>1. FALSE \in BOOLEAN
        OBVIOUS
      <4> QED BY <2>5, <4>1, AppendProperties, ZenonT(40)
    <3>2. Len(before) + 1 = m
      BY <2>3, <2>5
    <3> QED BY <2>1, <2>5, <3>1, <3>2
  <2>7. Shape'
    BY <1>0, <2>3, <2>6 DEF Shape
  <2>8. ASSUME NEW T \in Passed' PROVE T \in Passed \cup Below
    <3>1. /\ T \in SUBSET ToSet(order)
          /\ \E i \in 1..m : /\ ~path'[i] /\ order[i] \in T
                              /\ \A j \in 1..i - 1 : path'[j] <=> order[j] \in T
      BY <2>6 DEF Passed
    <3>2. PICK i \in 1..m : /\ ~path'[i] /\ order[i] \in T
                            /\ \A j \in 1..i - 1 : path'[j] <=> order[j] \in T
      BY <3>1
    <3>3. \A j \in 1..i - 1 : j \in 1..m - 1
      BY <2>3
    <3>4. \A j \in 1..i - 1 : path[j] <=> order[j] \in T
      BY <2>6, <3>2, <3>3
    <3>5. CASE i = m
      <4>1. \A j \in 1..m : j \in 1..m - 1 \/ j = m
        BY <2>3
      <4>2. \A j \in 1..m : path[j] <=> order[j] \in T
        BY <2>3, <3>2, <3>4, <3>5, <4>1
      <4>3. m \in 0..Len(path)
        BY <1>0, <2>3
      <4> QED BY <2>4, <3>1, <4>2, <4>3, Explored
    <3>6. CASE i # m
      <4>1. i \in 1..m - 1 /\ i \in 1..Len(path)
        BY <1>0, <2>3, <3>6
      <4>2. ~path[i]
        BY <2>6, <3>2, <4>1
      <4>3. T \in Passed
        BY <3>1, <3>2, <3>4, <4>1, <4>2 DEF Passed
      <4> QED BY <4>3
    <3> QED BY <3>5, <3>6
  <2> QED BY <2>1, <2>7, <2>8
<1> QED BY <1>1, <1>2

\* What is selected on the path, and what is below it.
LEMMA BelowTypes ==
  ASSUME Shape
  PROVE  /\ Selected \in SUBSET ToSet(order) /\ Undecided \in SUBSET ToSet(order)
         /\ Selected \in SUBSET Tokens /\ Undecided \in SUBSET Tokens
         /\ Value(Selected) \in Nat /\ Value(Undecided) \in Nat
         /\ \A T \in Below : Selected \subseteq T /\ T \subseteq Selected \cup Undecided
<1>1. /\ Len(path) \in Nat /\ Len(order) \in Nat /\ Len(path) <= Len(order)
      /\ ToSet(order) = {order[i] : i \in 1..Len(order)}
      /\ ToSet(order) \in SUBSET Tokens
  BY OrderTypes DEF Shape
<1>2. /\ \A i \in 1..Len(path) : i \in 1..Len(order)
      /\ \A i \in Len(path) + 1..Len(order) : i \in 1..Len(order)
      /\ \A i \in 1..Len(order) : i \in 1..Len(path) \/ i \in Len(path) + 1..Len(order)
  BY <1>1
<1>3. Selected \in SUBSET ToSet(order) /\ Undecided \in SUBSET ToSet(order)
  BY <1>1, <1>2 DEF Selected, Undecided
<1>4. Selected \in SUBSET Tokens /\ Undecided \in SUBSET Tokens
  BY <1>1, <1>3
<1>5. Value(Selected) \in Nat /\ Value(Undecided) \in Nat
  BY <1>4, ValueType
<1>6. ASSUME NEW T \in Below
      PROVE  Selected \subseteq T /\ T \subseteq Selected \cup Undecided
  <2>1. T \in SUBSET ToSet(order) /\ \A j \in 1..Len(path) : path[j] <=> order[j] \in T
    BY DEF Below
  <2>2. Selected \subseteq T
    BY <2>1 DEF Selected
  <2>3. ASSUME NEW x \in T PROVE x \in Selected \cup Undecided
    <3>1. PICK i \in 1..Len(order) : x = order[i]
      BY <1>1, <2>1
    <3>2. CASE i \in 1..Len(path)
      BY <2>1, <3>1, <3>2 DEF Selected
    <3>3. CASE i \in Len(path) + 1..Len(order)
      BY <3>1, <3>3 DEF Undecided
    <3> QED BY <1>2, <3>2, <3>3
  <2> QED BY <2>2, <2>3
<1> QED BY <1>3, <1>4, <1>5, <1>6

LEMMA AsGoodTransitive ==
  ASSUME NEW S \in SUBSET Tokens, NEW T \in SUBSET Tokens, NEW U \in SUBSET Tokens,
         AsGood(S, T), AsGood(T, U)
  PROVE  AsGood(S, U)
<1>1. /\ Value(S) \in Nat /\ Value(T) \in Nat /\ Value(U) \in Nat
      /\ Cardinality(S) \in Nat /\ Cardinality(T) \in Nat /\ Cardinality(U) \in Nat
  BY ValueType, FS_CardinalityType
<1> QED BY <1>1 DEF AsGood

\* A covering path is as good as everything below it.
LEMMA CoverIsBest ==
  ASSUME Shape, NEW T \in Below
  PROVE  AsGood(Selected, T)
<1>1. T \in SUBSET Tokens /\ Selected \in SUBSET T
  BY BelowTypes, OrderTypes DEF Below
<1>2. Value(T) \in Nat /\ Value(Selected) \in Nat /\ Value(Selected) <= Value(T)
  BY <1>1, ValueSubset, ValueType, BelowTypes
<1>3. Cardinality(Selected) <= Cardinality(T)
  BY <1>1, ValueType, FS_Subset
<1> QED BY <1>2, <1>3 DEF AsGood

\* Nothing below a pruned path covers the target.
LEMMA PrunedFallsShort ==
  ASSUME Shape, Value(Selected) < target, Undecided = {} \/ CannotReach, NEW T \in Below
  PROVE  ~(Value(T) >= target)
<1>0. T \in SUBSET Tokens /\ Selected \subseteq T /\ T \subseteq Selected \cup Undecided
  BY BelowTypes, OrderTypes DEF Below
<1>1. Value(T) \in Nat /\ Value(Selected) \in Nat /\ Value(Undecided) \in Nat /\ target \in Nat
  BY <1>0, ValueType, BelowTypes, OrderTypes
<1>2. CASE Undecided = {}
  <2>1. T = Selected
    BY <1>0, <1>2
  <2> QED BY <1>1, <2>1
<1>3. CASE CannotReach
  <2>1. Value(T) = Value(Selected) + Value(T \ Selected)
    BY <1>0, ValueSubset
  <2>2. T \ Selected \in SUBSET Undecided /\ Undecided \in SUBSET Tokens
    BY <1>0, BelowTypes
  <2>3. Value(T \ Selected) <= Value(Undecided)
    BY <2>2, ValueSubset
  <2>4. Value(T \ Selected) \in Nat
    BY <2>2, ValueType
  <2> QED BY <1>1, <1>3, <2>1, <2>3, <2>4 DEF CannotReach
<1> QED BY <1>2, <1>3

-----------------------------------------------------------------------------
(* The greedy attempt *)

\* One turn of the loop of _try_exact_match, with the token at position i of o.
Turn(o, acc, i) ==
    IF Denom[o[i]] <= acc.remaining
    THEN [selected |-> acc.selected \cup {o[i]}, remaining |-> acc.remaining - Denom[o[i]]]
    ELSE acc

\* g gives what the loop has taken after the positions of s, for all s in S.
Takes(o, a, g, S) ==
    g = [s \in SUBSET S |-> IF s = {} THEN [selected |-> {}, remaining |-> a]
                            ELSE Turn(o, g[s \ {Max(s)}], Max(s))]

GreedyOf(o, a) == (CHOOSE g : Takes(o, a, g, DOMAIN o))[DOMAIN o]

LEMMA GreedyDef == Greedy = GreedyOf(order, target)
  BY DEF Greedy, FoldLeft, MapThenFoldSet, GreedyOf, Takes, Turn

LEMMA GreedyNext == Greedy' = GreedyOf(order', target')
  BY DEF Greedy, FoldLeft, MapThenFoldSet, GreedyOf, Takes, Turn

\* The positions of a sequence are finitely many, and have a last one.
LEMMA LastPosition ==
  ASSUME NEW n \in Nat, NEW S \in SUBSET (1..n)
  PROVE  IsFiniteSet(S) /\ (S # {} => Max(S) \in S)
<1>1. IsFiniteSet(1..n)
  BY FS_Interval
<1>2. IsFiniteSet(S)
  BY <1>1, FS_Subset
<1>3. S # {} => Max(S) \in S
  BY MaxType
<1> QED BY <1>2, <1>3

\* At most one function follows the loop over the subsets of S, and so does its
\* restriction to the subsets of a smaller set.
LEMMA TakesUnique ==
  ASSUME NEW n \in Nat, NEW S \in SUBSET (1..n), NEW o, NEW a, NEW g, NEW h,
         Takes(o, a, g, S), Takes(o, a, h, S)
  PROVE  g = h
<1> DEFINE C == {s \in SUBSET S : g[s] # h[s]}
<1>1. C = {}
  <2> SUFFICES ASSUME C # {} PROVE FALSE
    OBVIOUS
  <2>1. PICK s \in C : \A u \in C : ~(u \subseteq s /\ u # s)
    <3>1. C \in SUBSET (SUBSET S)
      OBVIOUS
    <3> HIDE DEF C
    <3> QED BY <3>1, LastPosition, Least
  <2>2. /\ g[s] = IF s = {} THEN [selected |-> {}, remaining |-> a]
                            ELSE Turn(o, g[s \ {Max(s)}], Max(s))
        /\ h[s] = IF s = {} THEN [selected |-> {}, remaining |-> a]
                            ELSE Turn(o, h[s \ {Max(s)}], Max(s))
    BY <2>1 DEF Takes
  <2>3. s \in SUBSET (1..n)
    BY <2>1
  <2>4. s # {} => Max(s) \in s
    BY <2>3, LastPosition
  <2>5. s # {} => g[s \ {Max(s)}] = h[s \ {Max(s)}]
    BY <2>1, <2>4
  <2> QED BY <2>1, <2>2, <2>5
<1>2. g = [s \in SUBSET S |-> g[s]] /\ h = [s \in SUBSET S |-> h[s]]
  BY DEF Takes
<1> QED BY <1>1, <1>2

LEMMA TakesRestricted ==
  ASSUME NEW S, NEW o, NEW a, NEW g, Takes(o, a, g, S), NEW T \in SUBSET S
  PROVE  Takes(o, a, [s \in SUBSET T |-> g[s]], T)
<1> DEFINE h == [s \in SUBSET T |-> g[s]]
<1>1. ASSUME NEW s \in SUBSET T
      PROVE  h[s] = IF s = {} THEN [selected |-> {}, remaining |-> a]
                              ELSE Turn(o, h[s \ {Max(s)}], Max(s))
  <2>1. g[s] = IF s = {} THEN [selected |-> {}, remaining |-> a]
                         ELSE Turn(o, g[s \ {Max(s)}], Max(s))
    BY DEF Takes
  <2>2. h[s] = g[s] /\ h[s \ {Max(s)}] = g[s \ {Max(s)}]
    OBVIOUS
  <2> QED BY <2>1, <2>2
<1> QED BY <1>1 DEF Takes

\* There is such a function.
LEMMA TakesExists ==
  ASSUME NEW n \in Nat, NEW S \in SUBSET (1..n), NEW o, NEW a
  PROVE  \E g : Takes(o, a, g, S)
<1> DEFINE C == {T \in SUBSET S : ~ \E g : Takes(o, a, g, T)}
           G(T) == CHOOSE g : Takes(o, a, g, T)
           base == [selected |-> {}, remaining |-> a]
<1>1. C = {}
  <2> SUFFICES ASSUME C # {} PROVE FALSE
    OBVIOUS
  <2>1. PICK T \in C : \A u \in C : ~(u \subseteq T /\ u # T)
    <3>1. C \in SUBSET (SUBSET S)
      OBVIOUS
    <3> HIDE DEF C
    <3> QED BY <3>1, LastPosition, Least
  <2>2. ASSUME NEW u \in SUBSET T, u # T PROVE Takes(o, a, G(u), u)
    BY <2>1, <2>2
  <2>3. ASSUME NEW u \in SUBSET T, u # T, NEW v \in SUBSET u PROVE G(u)[v] = G(v)[v]
    <3>1. Takes(o, a, [s \in SUBSET v |-> G(u)[s]], v)
      <4>1. Takes(o, a, G(u), u)
        BY <2>2, <2>3
      <4> HIDE DEF G
      <4> QED BY <4>1, TakesRestricted
    <3>2. Takes(o, a, G(v), v) /\ v \in SUBSET (1..n)
      BY <2>1, <2>2, <2>3
    <3> HIDE DEF G
    <3>3. G(v) = [s \in SUBSET v |-> G(u)[s]]
      BY <3>1, <3>2, TakesUnique
    <3> QED BY <3>3
  <2>4. \A s \in SUBSET T : s # {} => Max(s) \in s
    BY <2>1, LastPosition
  <2> HIDE DEF G
  <2> DEFINE low(s) == IF s = {} THEN base
                       ELSE Turn(o, G(s \ {Max(s)})[s \ {Max(s)}], Max(s))
             h == [s \in SUBSET T |-> low(s)]
  <2>5. ASSUME NEW s \in SUBSET T, s # T PROVE h[s] = G(s)[s]
    <3>1. G(s)[s] = IF s = {} THEN base ELSE Turn(o, G(s)[s \ {Max(s)}], Max(s))
      BY <2>2, <2>5 DEF Takes
    <3>2. G(s)[s \ {Max(s)}] = G(s \ {Max(s)})[s \ {Max(s)}]
      BY <2>3, <2>5
    <3> HIDE DEF base
    <3> QED BY <3>1, <3>2
  <2>6. ASSUME NEW s \in SUBSET T
        PROVE  h[s] = IF s = {} THEN base ELSE Turn(o, h[s \ {Max(s)}], Max(s))
    <3>1. s # {} => s \ {Max(s)} # T /\ s \ {Max(s)} \in SUBSET T
      BY <2>4
    <3>2. s # {} => h[s \ {Max(s)}] = G(s \ {Max(s)})[s \ {Max(s)}]
      BY <2>5, <3>1
    <3> HIDE DEF base
    <3> QED BY <3>2
  <2>7. Takes(o, a, h, T)
    <3> HIDE DEF low
    <3> QED BY <2>6 DEF Takes
  <2> QED BY <2>1, <2>7
<1> QED BY <1>1

\* The states of the loop, position by position.
LEMMA GreedyRun ==
  ASSUME Shape
  PROVE  \E r : /\ r[0] = [selected |-> {}, remaining |-> target]
               /\ r[Len(order)] = Greedy
               /\ \A k \in 0..Len(order) - 1 : r[k + 1] = Turn(order, r[k], k + 1)
<1> DEFINE n == Len(order)
           base == [selected |-> {}, remaining |-> target]
           g == CHOOSE h : Takes(order, target, h, 1..n)
           r == [k \in 0..n |-> g[1..k]]
<1>0. n \in Nat /\ DOMAIN order = 1..n
  BY OrderTypes
<1>1. Takes(order, target, g, 1..n)
  <2>1. 1..n \in SUBSET (1..n)
    OBVIOUS
  <2> QED BY <1>0, <2>1, TakesExists
<1>2. Greedy = g[1..n]
  BY <1>0, GreedyDef DEF GreedyOf
<1> HIDE DEF g, n, base
<1>3. \A s \in SUBSET (1..n) :
        g[s] = IF s = {} THEN base ELSE Turn(order, g[s \ {Max(s)}], Max(s))
  BY <1>1 DEF Takes, base
<1>4. r[0] = base
  <2>1. 1..0 = {} /\ 0 \in 0..n
    BY <1>0
  <2> QED BY <1>3, <2>1
<1>5. r[n] = Greedy
  BY <1>0, <1>2
<1>6. ASSUME NEW k \in 0..n - 1 PROVE r[k + 1] = Turn(order, r[k], k + 1)
  <2>1. k \in 0..n /\ k + 1 \in 0..n /\ k \in Nat
    BY <1>0
  <2>2. 1..k + 1 \in SUBSET (1..n) /\ 1..k + 1 # {} /\ k + 1 \in 1..k + 1
    <3>1. k + 1 \in 1..k + 1
      BY <2>1
    <3>2. \A j \in 1..k + 1 : j \in 1..n
      BY <1>0, <2>1
    <3> QED BY <3>1, <3>2
  <2>3. Max(1..k + 1) = k + 1
    <3>1. Max(1..k + 1) \in 1..k + 1 /\ \A j \in 1..k + 1 : j <= Max(1..k + 1)
      BY <1>0, <2>2, MaxType
    <3> QED BY <2>1, <2>2, <3>1
  <2>4. (1..k + 1) \ {k + 1} = 1..k
    BY <2>1
  <2>5. g[1..k + 1] = Turn(order, g[1..k], k + 1)
    BY <1>3, <2>2, <2>3, <2>4
  <2> QED BY <2>1, <2>5
<1>7. /\ r[0] = base /\ r[n] = Greedy
      /\ \A k \in 0..n - 1 : r[k + 1] = Turn(order, r[k], k + 1)
  BY <1>4, <1>5, <1>6
<1> HIDE DEF r
<1> QED BY <1>7 DEF base, n

\* The loop invariant: what was taken and what remains make up the target, and
\* what is taken after a token was left, with what remains, is worth less than it.
LEMMA GreedyLoop ==
  ASSUME Shape
  PROVE  /\ Greedy.selected \in SUBSET ToSet(order) /\ Greedy.remaining \in Nat
         /\ Value(Greedy.selected) + Greedy.remaining = target
         /\ \A j \in 1..Len(order) : order[j] \notin Greedy.selected =>
              Value(Greedy.selected \cap {order[i] : i \in j + 1..Len(order)})
                + Greedy.remaining < Denom[order[j]]
<1>1. PICK r : /\ r[0] = [selected |-> {}, remaining |-> target]
               /\ r[Len(order)] = Greedy
               /\ \A k \in 0..Len(order) - 1 : r[k + 1] = Turn(order, r[k], k + 1)
  BY GreedyRun
<1> DEFINE n == Len(order)
           at(i, j) == {order[m] : m \in i..j}
           Sum(k) == Value(r[k].selected) + r[k].remaining = target
           Left(k, j) == order[j] \notin r[k].selected =>
             Value(r[k].selected \cap at(j + 1, k)) + r[k].remaining < Denom[order[j]]
           Inv(k) == /\ r[k].selected \in SUBSET at(1, k) /\ r[k].remaining \in Nat
                     /\ Sum(k) /\ \A j \in 1..k : Left(k, j)
           C == {k \in 0..n : ~Inv(k)}
<1>0. /\ n \in Nat /\ \A i \in 1..n : order[i] \in Tokens
      /\ ToSet(order) = at(1, n) /\ target \in Nat
  BY OrderTypes
<1>2. Value({}) = 0
  BY SumEmpty DEF Value
<1>3. Inv(0)
  <2>1. r[0].selected = {} /\ r[0].remaining = target
    BY <1>1
  <2>2. \A j \in 1..0 : FALSE
    OBVIOUS
  <2> QED BY <1>0, <1>2, <2>1, <2>2
<1>4. ASSUME NEW k \in 0..n - 1, Inv(k) PROVE Inv(k + 1)
  <2> DEFINE t == order[k + 1]
             sel == r[k].selected
             rem == r[k].remaining
  <2>1. k \in Nat /\ k + 1 \in 1..n /\ t \in Tokens /\ Denom[t] \in Nat
    BY <1>0, DenomAssumption
  <2>2. r[k + 1] = Turn(order, r[k], k + 1)
    BY <1>1
  <2>3. sel \in SUBSET at(1, k) /\ rem \in Nat /\ Sum(k) /\ \A j \in 1..k : Left(k, j)
    BY <1>4
  <2>4. t \notin at(1, k) /\ at(1, k) \in SUBSET Tokens
    <3>1. \A m \in 1..k : m \in 1..n /\ m # k + 1
      BY <1>0, <2>1
    <3> QED BY <1>0, <2>1, <3>1 DEF Shape
  <2>5. at(1, k + 1) = at(1, k) \cup {t}
    <3>1. \A m : m \in 1..k + 1 <=> m \in 1..k \/ m = k + 1
      BY <2>1
    <3> QED BY <3>1
  <2>6. ASSUME NEW j \in 1..k PROVE at(j + 1, k + 1) = at(j + 1, k) \cup {t}
    <3>1. \A m : m \in j + 1..k + 1 <=> m \in j + 1..k \/ m = k + 1
      BY <2>1
    <3> QED BY <3>1
  <2>7. at(k + 1 + 1, k + 1) = {}
    <3>1. \A m : m \notin k + 1 + 1..k + 1
      BY <2>1
    <3> QED BY <3>1
  <2>8. \A j \in 1..k + 1 : j \in 1..k \/ j = k + 1
    BY <2>1
  <2>9. sel \in SUBSET Tokens /\ {t} \in SUBSET Tokens /\ t \notin sel
    BY <2>1, <2>3, <2>4
  <2>10. Value({t}) = Denom[t]
    <3>1. Denom \in [Tokens -> Nat]
      BY DenomAssumption
    <3> QED BY <2>1, <3>1, SumSingle DEF Value
  <2>11. CASE Denom[t] <= rem
    <3>1. r[k + 1].selected = sel \cup {t} /\ r[k + 1].remaining = rem - Denom[t]
      BY <2>2, <2>11 DEF Turn
    <3>2. Value(sel \cup {t}) = Value(sel) + Denom[t] /\ Value(sel) \in Nat
      <4>1. sel \cap {t} = {}
        BY <2>9
      <4>2. Value(sel \cup {t}) = Value(sel) + Value({t})
        BY <2>9, <4>1, ValueUnion
      <4> QED BY <2>9, <2>10, <4>2, ValueType
    <3>3. Sum(k + 1)
      <4>1. Value(sel) + rem = target
        BY <2>3
      <4> HIDE DEF sel, rem
      <4> QED BY <2>1, <2>3, <3>1, <3>2, <4>1
    <3>4. ASSUME NEW j \in 1..k PROVE Left(k + 1, j)
      <4> DEFINE A == sel \cap at(j + 1, k)
      <4> SUFFICES ASSUME order[j] \notin sel \cup {t}
                   PROVE  Value((sel \cup {t}) \cap at(j + 1, k + 1)) + (rem - Denom[t])
                            < Denom[order[j]]
        BY <3>1
      <4>1. Value(A) + rem < Denom[order[j]]
        BY <2>3
      <4>2. (sel \cup {t}) \cap at(j + 1, k + 1) = A \cup {t}
        BY <2>6
      <4>3. A \in SUBSET Tokens /\ A \cap {t} = {}
        BY <2>9
      <4>4. Value(A \cup {t}) = Value(A) + Denom[t] /\ Value(A) \in Nat
        <5> HIDE DEF A
        <5>1. Value(A \cup {t}) = Value(A) + Value({t})
          BY <2>9, <4>3, ValueUnion
        <5> QED BY <2>10, <4>3, <5>1, ValueType
      <4>5. Denom[order[j]] \in Nat
        <5>1. j \in 1..n
          BY <1>0, <2>1
        <5> QED BY <1>0, <5>1, DenomAssumption
      <4>6. rem \in Nat
        BY <2>3
      <4> DEFINE B == (sel \cup {t}) \cap at(j + 1, k + 1)
      <4>7. Value(B) = Value(A) + Denom[t]
        <5>1. B = A \cup {t}
          BY <4>2
        <5> HIDE DEF A, B
        <5> QED BY <4>4, <5>1
      <4>8. Value(B) + (rem - Denom[t]) < Denom[order[j]]
        <5> HIDE DEF A, B, rem
        <5> QED BY <2>1, <4>1, <4>4, <4>5, <4>6, <4>7
      <4> QED BY <4>8
    <3>5. Left(k + 1, k + 1)
      BY <3>1
    <3>6. r[k + 1].selected \in SUBSET at(1, k + 1)
      BY <2>3, <2>5, <3>1
    <3>7. r[k + 1].remaining \in Nat
      BY <2>1, <2>3, <2>11, <3>1
    <3> HIDE DEF Left, Sum, at
    <3> QED BY <2>8, <3>3, <3>4, <3>5, <3>6, <3>7
  <2>12. CASE ~(Denom[t] <= rem)
    <3>1. r[k + 1].selected = sel /\ r[k + 1].remaining = rem
      BY <2>2, <2>12 DEF Turn
    <3>2. Sum(k + 1)
      BY <2>3, <3>1
    <3>3. ASSUME NEW j \in 1..k PROVE Left(k + 1, j)
      <4>1. sel \cap at(j + 1, k + 1) = sel \cap at(j + 1, k)
        BY <2>6, <2>9
      <4> QED BY <2>3, <3>1, <4>1
    <3>4. Left(k + 1, k + 1)
      <4>1. sel \cap at(k + 1 + 1, k + 1) = {}
        BY <2>7
      <4>2. Value(sel \cap at(k + 1 + 1, k + 1)) = 0
        BY <1>2, <4>1
      <4> HIDE DEF sel, rem, at
      <4> QED BY <2>1, <2>3, <2>12, <3>1, <4>2
    <3>5. r[k + 1].selected \in SUBSET at(1, k + 1)
      BY <2>3, <2>5, <3>1
    <3>6. r[k + 1].remaining \in Nat
      BY <2>3, <3>1
    <3> HIDE DEF Left, Sum, at
    <3> QED BY <2>8, <3>2, <3>3, <3>4, <3>5, <3>6
  <2> QED BY <2>11, <2>12
<1> HIDE DEF Inv
<1>5. C = {}
  <2> SUFFICES ASSUME C # {} PROVE FALSE
    OBVIOUS
  <2>1. PICK k \in C : \A j \in C : k <= j
    <3>1. C \in SUBSET Nat
      BY <1>0
    <3> HIDE DEF C
    <3> QED BY <3>1, LeastNatural
  <2>2. k \in 0..n /\ ~Inv(k) /\ k # 0
    BY <1>3, <2>1
  <2>3. k - 1 \in 0..n - 1 /\ k - 1 \in 0..n /\ ~(k <= k - 1) /\ k - 1 + 1 = k
    BY <1>0, <2>2
  <2>4. Inv(k - 1)
    BY <2>1, <2>3
  <2>5. Inv(k - 1 + 1)
    BY <1>4, <2>3, <2>4
  <2> QED BY <2>2, <2>3, <2>5
<1>6. Inv(n)
  BY <1>0, <1>5
<1> QED BY <1>0, <1>1, <1>6 DEF Inv

-----------------------------------------------------------------------------
(* The fewest tokens *)

\* The number of tokens of denomination d in S.
Count(S, d) == Cardinality({x \in S : Denom[x] = d})

\* Their value.
Worth(S, d) == d * Count(S, d)

\* R is S without its tokens of denomination d.
Rest(R, S, d) == S \in SUBSET Tokens /\ d \in Nat /\ R = {x \in S : Denom[x] # d}

LEMMA WithoutDenomination ==
  ASSUME NEW S, NEW d, NEW R, Rest(R, S, d)
  PROVE  /\ Count(S, d) \in Nat /\ Worth(S, d) \in Nat
         /\ Cardinality(R) \in Nat /\ Value(R) \in Nat
         /\ Value(S) = Worth(S, d) + Value(R)
         /\ Cardinality(S) = Count(S, d) + Cardinality(R)
<1> DEFINE E == {x \in S : Denom[x] = d}
<1>1. /\ R \in SUBSET Tokens /\ E \in SUBSET Tokens /\ E \cap R = {} /\ E \cup R = S
      /\ S \in SUBSET Tokens /\ d \in Nat
  BY DEF Rest
<1>2. \A x \in E : Denom[x] = d
  OBVIOUS
<1>3. Count(S, d) = Cardinality(E)
  BY DEF Count
<1> HIDE DEF E
<1>4. IsFiniteSet(E) /\ IsFiniteSet(R) /\ Value(E) \in Nat /\ Value(R) \in Nat
  BY <1>1, ValueType
<1>5. Cardinality(E) \in Nat /\ Cardinality(R) \in Nat
  BY <1>4, FS_CardinalityType
<1>6. Value(E) = d * Cardinality(E)
  <2>1. Denom \in [Tokens -> Nat]
    BY DenomAssumption
  <2> QED BY <1>1, <1>2, <1>4, <2>1, SumConstant DEF Value
<1>7. Value(E \cup R) = Value(E) + Value(R)
  BY <1>1, ValueUnion
<1>8. Cardinality(E \cup R) = Cardinality(E) + Cardinality(R)
  <2>1. Cardinality(E \cup R) = Cardinality(E) + Cardinality(R) - Cardinality(E \cap R)
    BY <1>4, FS_Union
  <2>2. Cardinality(E \cap R) = 0
    BY <1>1, FS_EmptySet
  <2> QED BY <1>5, <2>1, <2>2
<1>9. Value(S) = Worth(S, d) + Value(R) /\ Cardinality(S) = Count(S, d) + Cardinality(R)
  BY <1>1, <1>3, <1>6, <1>7, <1>8 DEF Worth
<1>10. Worth(S, d) \in Nat
  BY <1>1, <1>3, <1>5 DEF Worth
<1> QED BY <1>3, <1>4, <1>5, <1>9, <1>10

LEMMA RestCounts ==
  ASSUME NEW S, NEW d, NEW R, Rest(R, S, d), NEW e, e # d
  PROVE  Count(R, e) = Count(S, e)
<1>1. {x \in R : Denom[x] = e} = {x \in S : Denom[x] = e}
  BY DEF Rest
<1> QED BY <1>1, Zenon DEF Count

\* Value and number of tokens, denomination by denomination.
TotalValue(S) ==
    500 * Count(S, 500) + 1000 * Count(S, 1000) + 2000 * Count(S, 2000)
      + 5000 * Count(S, 5000) + 10000 * Count(S, 10000)
TotalCount(S) ==
    Count(S, 500) + Count(S, 1000) + Count(S, 2000) + Count(S, 5000) + Count(S, 10000)

LEMMA ByDenomination ==
  ASSUME NEW S \in SUBSET Tokens
  PROVE  /\ \A d \in Denominations : Count(S, d) \in Nat
         /\ Value(S) = TotalValue(S) /\ Cardinality(S) = TotalCount(S)
<1>1. PICK a \in Nat, b \in Nat, c \in Nat, d \in Nat, e \in Nat :
        a = 500 /\ b = 1000 /\ c = 2000 /\ d = 5000 /\ e = 10000
  OBVIOUS
<1> DEFINE A == {x \in S : Denom[x] # a}
           B == {x \in A : Denom[x] # b}
           C == {x \in B : Denom[x] # c}
           D == {x \in C : Denom[x] # d}
           E == {x \in D : Denom[x] # e}
<1>2. E = {}
  BY <1>1, DenominationsAssumption DEF Denominations
<1>3. Rest(A, S, a) /\ Rest(B, A, b) /\ Rest(C, B, c) /\ Rest(D, C, d) /\ Rest(E, D, e)
  BY DEF Rest
<1> HIDE DEF A, B, C, D, E
<1>4. Value(E) = 0 /\ Cardinality(E) = 0
  BY <1>2, SumEmpty, FS_EmptySet DEF Value
<1>5. /\ Count(S, a) \in Nat /\ Worth(S, a) \in Nat
      /\ Cardinality(A) \in Nat /\ Value(A) \in Nat
      /\ Value(S) = Worth(S, a) + Value(A)
      /\ Cardinality(S) = Count(S, a) + Cardinality(A)
  BY <1>3, WithoutDenomination
<1>6. /\ Count(A, b) \in Nat /\ Worth(A, b) \in Nat
      /\ Cardinality(B) \in Nat /\ Value(B) \in Nat
      /\ Value(A) = Worth(A, b) + Value(B)
      /\ Cardinality(A) = Count(A, b) + Cardinality(B)
  BY <1>3, WithoutDenomination
<1>7. /\ Count(B, c) \in Nat /\ Worth(B, c) \in Nat
      /\ Cardinality(C) \in Nat /\ Value(C) \in Nat
      /\ Value(B) = Worth(B, c) + Value(C)
      /\ Cardinality(B) = Count(B, c) + Cardinality(C)
  BY <1>3, WithoutDenomination
<1>8. /\ Count(C, d) \in Nat /\ Worth(C, d) \in Nat
      /\ Cardinality(D) \in Nat /\ Value(D) \in Nat
      /\ Value(C) = Worth(C, d) + Value(D)
      /\ Cardinality(C) = Count(C, d) + Cardinality(D)
  BY <1>3, WithoutDenomination
<1>9. /\ Count(D, e) \in Nat /\ Worth(D, e) \in Nat
      /\ Cardinality(E) \in Nat /\ Value(E) \in Nat
      /\ Value(D) = Worth(D, e) + Value(E)
      /\ Cardinality(D) = Count(D, e) + Cardinality(E)
  BY <1>3, WithoutDenomination
<1>10. /\ Count(A, b) = Count(S, b) /\ Count(B, c) = Count(S, c)
       /\ Count(C, d) = Count(S, d) /\ Count(D, e) = Count(S, e)
  <2>1. /\ b # a /\ c # a /\ c # b /\ d # a /\ d # b /\ d # c
        /\ e # a /\ e # b /\ e # c /\ e # d
    BY <1>1
  <2> QED BY <1>3, <2>1, RestCounts
<1>11. \A z \in {a, b, c, d, e} : Count(S, z) \in Nat
  BY <1>5, <1>6, <1>7, <1>8, <1>9, <1>10
<1>12. Cardinality(S) = Count(S, a) + Count(S, b) + Count(S, c) + Count(S, d) + Count(S, e)
  BY <1>4, <1>5, <1>6, <1>7, <1>8, <1>9, <1>10
<1>13. Value(S) = Worth(S, a) + Worth(A, b) + Worth(B, c) + Worth(C, d) + Worth(D, e)
  BY <1>4, <1>5, <1>6, <1>7, <1>8, <1>9
<1>14. /\ Worth(S, a) = 500 * Count(S, a) /\ Worth(A, b) = 1000 * Count(S, b)
       /\ Worth(B, c) = 2000 * Count(S, c) /\ Worth(C, d) = 5000 * Count(S, d)
       /\ Worth(D, e) = 10000 * Count(S, e)
  BY <1>1, <1>10 DEF Worth
<1>15. Value(S) = 500 * Count(S, a) + 1000 * Count(S, b) + 2000 * Count(S, c)
                   + 5000 * Count(S, d) + 10000 * Count(S, e)
  BY <1>13, <1>14
<1> QED BY <1>1, <1>11, <1>12, <1>15 DEF Denominations, TotalValue, TotalCount

\* The arithmetic of FewestTokens, with a to e tokens of each denomination in the
\* one set and p to t in the other.
LEMMA FewestCounts ==
  ASSUME NEW a \in Nat, NEW b \in Nat, NEW c \in Nat, NEW d \in Nat, NEW e \in Nat,
         NEW p \in Nat, NEW q \in Nat, NEW r \in Nat, NEW s \in Nat, NEW t \in Nat,
         500 * a + 1000 * b + 2000 * c + 5000 * d + 10000 * e
           = 500 * p + 1000 * q + 2000 * r + 5000 * s + 10000 * t,
         q <= b \/ 500 * a < 1000,
         r <= c \/ 500 * a + 1000 * b < 2000,
         s <= d \/ 500 * a + 1000 * b + 2000 * c < 5000,
         t <= e \/ 500 * a + 1000 * b + 2000 * c + 5000 * d < 10000
  PROVE  a + b + c + d + e <= p + q + r + s + t
  OBVIOUS

\* A set that leaves out a token only if its smaller tokens are worth less than it
\* is the smallest of its value.  This is a property of these denominations: with
\* 300, 400 and 100 it fails for 600.
LEMMA FewestTokens ==
  ASSUME NEW G \in SUBSET Tokens, NEW T \in SUBSET Tokens, Value(G) = Value(T),
         \A t \in T \ G : Value({x \in G : Denom[x] < Denom[t]}) < Denom[t]
  PROVE  Cardinality(G) <= Cardinality(T)
<1> DEFINE Low(d) == {x \in G : Denom[x] < d}
           low(d) == Value(Low(d))
<1>1. /\ \A d \in Denominations : Count(G, d) \in Nat /\ Count(T, d) \in Nat
      /\ Value(G) = TotalValue(G) /\ Cardinality(G) = TotalCount(G)
      /\ Value(T) = TotalValue(T) /\ Cardinality(T) = TotalCount(T)
  BY ByDenomination
<1>2. ASSUME NEW d \in Denominations, NEW e \in Denominations
      PROVE  Count(Low(d), e) = IF e < d THEN Count(G, e) ELSE 0
  <2>1. CASE e < d
    <3>1. {x \in Low(d) : Denom[x] = e} = {x \in G : Denom[x] = e}
      BY <2>1
    <3>2. Count(Low(d), e) = Count(G, e)
      BY <3>1, Zenon DEF Count
    <3> QED BY <2>1, <3>2
  <2>2. CASE ~(e < d)
    <3>1. {x \in Low(d) : Denom[x] = e} = {}
      BY <2>2
    <3>2. Count(Low(d), e) = 0
      BY <3>1, FS_EmptySet, Zenon DEF Count
    <3> QED BY <2>2, <3>2
  <2> QED BY <2>1, <2>2
<1>3. ASSUME NEW d \in Denominations PROVE low(d) = TotalValue(Low(d))
  BY ByDenomination
<1>4. ASSUME NEW d \in Denominations PROVE Count(T, d) <= Count(G, d) \/ low(d) < d
  <2> DEFINE X == {x \in T : Denom[x] = d}
             Y == {x \in G : Denom[x] = d}
  <2>1. CASE X \subseteq Y
    <3>1. Y \in SUBSET Tokens
      OBVIOUS
    <3> HIDE DEF X, Y
    <3>2. Cardinality(X) <= Cardinality(Y)
      BY <2>1, <3>1, ValueType, FS_Subset
    <3> QED BY <3>2 DEF Count, X, Y
  <2>2. CASE ~(X \subseteq Y)
    <3>1. PICK t \in T \ G : Denom[t] = d
      BY <2>2
    <3> QED BY <3>1
  <2> QED BY <2>1, <2>2
<1> HIDE DEF Low, low
<1>5. /\ low(1000) = 500 * Count(G, 500)
      /\ low(2000) = 500 * Count(G, 500) + 1000 * Count(G, 1000)
      /\ low(5000) = 500 * Count(G, 500) + 1000 * Count(G, 1000) + 2000 * Count(G, 2000)
      /\ low(10000) = 500 * Count(G, 500) + 1000 * Count(G, 1000) + 2000 * Count(G, 2000)
                        + 5000 * Count(G, 5000)
  BY <1>1, <1>2, <1>3 DEF Denominations, TotalValue
<1>6. /\ Count(T, 1000) <= Count(G, 1000) \/ low(1000) < 1000
      /\ Count(T, 2000) <= Count(G, 2000) \/ low(2000) < 2000
      /\ Count(T, 5000) <= Count(G, 5000) \/ low(5000) < 5000
      /\ Count(T, 10000) <= Count(G, 10000) \/ low(10000) < 10000
  BY <1>4 DEF Denominations
<1>7. /\ Count(G, 500) \in Nat /\ Count(G, 1000) \in Nat /\ Count(G, 2000) \in Nat
      /\ Count(G, 5000) \in Nat /\ Count(G, 10000) \in Nat
      /\ Count(T, 500) \in Nat /\ Count(T, 1000) \in Nat /\ Count(T, 2000) \in Nat
      /\ Count(T, 5000) \in Nat /\ Count(T, 10000) \in Nat
  BY <1>1 DEF Denominations
<1>8. /\ Count(T, 1000) <= Count(G, 1000) \/ 500 * Count(G, 500) < 1000
      /\ Count(T, 2000) <= Count(G, 2000)
           \/ 500 * Count(G, 500) + 1000 * Count(G, 1000) < 2000
      /\ Count(T, 5000) <= Count(G, 5000)
           \/ 500 * Count(G, 500) + 1000 * Count(G, 1000) + 2000 * Count(G, 2000) < 5000
      /\ Count(T, 10000) <= Count(G, 10000)
           \/ 500 * Count(G, 500) + 1000 * Count(G, 1000) + 2000 * Count(G, 2000)
                + 5000 * Count(G, 5000) < 10000
  BY <1>5, <1>6
<1>9. TotalValue(G) = TotalValue(T)
  BY <1>1
<1>10. TotalCount(G) <= TotalCount(T)
  BY <1>7, <1>8, <1>9, FewestCounts DEF TotalValue, TotalCount
<1> QED BY <1>1, <1>10

\* Larger denominations come first.
LEMMA LargestFirstOrder ==
  ASSUME Shape, NEW i \in 1..Len(order), NEW j \in 1..Len(order), i <= j
  PROVE  Denom[order[i]] >= Denom[order[j]]
<1> DEFINE n == Len(order)
           v(k) == Denom[order[k]]
           C == {k \in i..n : ~(v(i) >= v(k))}
<1>1. n \in Nat /\ \A k \in 1..n : v(k) \in Nat
  BY OrderTypes, DenomAssumption
<1>2. \A k \in 1..n - 1 : v(k) >= v(k + 1)
  BY DEF Shape, Descending
<1> HIDE DEF v, n
<1>3. C = {}
  <2> SUFFICES ASSUME C # {} PROVE FALSE
    OBVIOUS
  <2>1. PICK k \in C : \A m \in C : k <= m
    <3>1. C \in SUBSET Nat
      BY <1>1 DEF n
    <3> HIDE DEF C
    <3> QED BY <3>1, LeastNatural
  <2>2. k \in i..n /\ ~(v(i) >= v(k)) /\ i \in 1..n /\ k \in 1..n
    BY <1>1, <2>1 DEF n
  <2>3. k # i
    BY <1>1, <2>2
  <2>4. k - 1 \in i..n /\ k - 1 \in 1..n - 1 /\ k - 1 \in 1..n /\ k - 1 + 1 = k /\ ~(k <= k - 1)
    BY <1>1, <2>2, <2>3
  <2>5. v(i) >= v(k - 1)
    BY <2>1, <2>4
  <2>6. v(k - 1) >= v(k)
    BY <1>2, <2>4
  <2> QED BY <1>1, <2>2, <2>4, <2>5, <2>6
<1>4. j \in i..n
  BY <1>1 DEF n
<1> QED BY <1>3, <1>4 DEF v

\* An exact greedy match uses the fewest tokens.
LEMMA GreedyFewest ==
  ASSUME Shape, Greedy.remaining = 0, NEW T \in SUBSET ToSet(order), Value(T) = target
  PROVE  Cardinality(Greedy.selected) <= Cardinality(T)
<1> DEFINE G == Greedy.selected
<1>1. /\ Len(order) \in Nat /\ ToSet(order) = {order[i] : i \in 1..Len(order)}
      /\ ToSet(order) \in SUBSET Tokens /\ target \in Nat
  BY OrderTypes
<1>2. /\ G \in SUBSET ToSet(order) /\ Value(G) + Greedy.remaining = target
      /\ \A j \in 1..Len(order) : order[j] \notin G =>
           Value(G \cap {order[i] : i \in j + 1..Len(order)}) + Greedy.remaining
             < Denom[order[j]]
  BY GreedyLoop
<1> HIDE DEF G
<1>3. G \in SUBSET Tokens /\ T \in SUBSET Tokens /\ Value(G) \in Nat
  BY <1>1, <1>2, ValueType
<1>4. Value(G) = Value(T)
  BY <1>2, <1>3
<1>5. ASSUME NEW t \in T \ G PROVE Value({x \in G : Denom[x] < Denom[t]}) < Denom[t]
  <2> DEFINE L == {x \in G : Denom[x] < Denom[t]}
  <2>1. PICK j \in 1..Len(order) : t = order[j]
    BY <1>1
  <2> DEFINE R == G \cap {order[i] : i \in j + 1..Len(order)}
  <2>2. Value(R) + Greedy.remaining < Denom[t]
    BY <1>2, <2>1
  <2>3. ASSUME NEW x \in L PROVE x \in R
    <3>1. PICK i \in 1..Len(order) : x = order[i]
      BY <1>1, <1>2
    <3>2. x \in Tokens /\ t \in Tokens /\ Denom[x] \in Nat /\ Denom[t] \in Nat
      BY <1>3, DenomAssumption
    <3>3. ~(i <= j)
      <4>1. i <= j => Denom[order[i]] >= Denom[order[j]]
        BY LargestFirstOrder
      <4>2. Denom[x] < Denom[t]
        OBVIOUS
      <4> QED BY <2>1, <3>1, <3>2, <4>1, <4>2
    <3>4. i \in j + 1..Len(order)
      BY <1>1, <3>3
    <3> QED BY <3>1, <3>4
  <2>4. L \in SUBSET R /\ R \in SUBSET Tokens
    BY <1>3, <2>3
  <2> HIDE DEF R, L
  <2>5. Value(L) <= Value(R) /\ Value(L) \in Nat /\ Value(R) \in Nat
    <3>1. L \in SUBSET Tokens
      BY <2>4
    <3> QED BY <2>4, <3>1, ValueSubset, ValueType
  <2>6. Denom[t] \in Nat
    BY <1>3, DenomAssumption
  <2>7. Value(L) < Denom[t]
    BY <2>2, <2>5, <2>6
  <2> QED BY <2>7 DEF L
<1>6. Cardinality(G) <= Cardinality(T)
  BY <1>3, <1>4, <1>5, FewestTokens
<1> QED BY <1>6 DEF G

-----------------------------------------------------------------------------
(* Steps *)

LEMMA InitShape == Init => Shape
<1> SUFFICES ASSUME Init PROVE Shape
  OBVIOUS
<1>1. PICK S \in SUBSET Tokens : order \in SetToSeqs(S) /\ Descending(order)
  BY DEF Init
<1> DEFINE n == Cardinality(S)
<1>2. n \in Nat
  BY ValueType, FS_CardinalityType
<1>3. order \in [1..n -> S] /\ \A i, j \in 1..n : i # j => order[i] # order[j]
  BY <1>1 DEF SetToSeqs
<1> HIDE DEF n
<1>4. order \in Seq(Tokens) /\ Len(order) = n
  BY <1>2, <1>3
<1>5. path = <<>> /\ best = {} /\ target \in Targets
  BY DEF Init
<1>6. path \in Seq(BOOLEAN) /\ Len(path) <= Len(order)
  BY <1>2, <1>4, <1>5
<1> QED BY <1>1, <1>3, <1>4, <1>5, <1>6 DEF Shape

LEMMA InitSearch == Init => SearchInv
<1> SUFFICES ASSUME Init PROVE Progress
  BY InitShape DEF SearchInv
<1> QED BY DEF Init, Progress

\* Steps that keep the tokens and the target.
LEMMA GreedyUnchanged ==
  ASSUME UNCHANGED <<order, target>>
  PROVE  /\ Greedy' = Greedy /\ (Insufficient' <=> Insufficient)
         /\ ToSet(order)' = ToSet(order)
<1>1. Greedy' = GreedyOf(order', target') /\ Greedy = GreedyOf(order, target)
  BY GreedyNext, GreedyDef
<1> QED BY <1>1 DEF Insufficient

\* A call returns, having kept the best of what was explored.
LEMMA ReturnStep ==
  ASSUME SearchInv, pc = "search", Return, UNCHANGED <<order, target>>,
         best' \subseteq ToSet(order), best' # {} => Value(best') >= target,
         \A T \in Passed \cup Below : Value(T) >= target => best' # {} /\ AsGood(best', T)
  PROVE  SearchInv'
<1>1. /\ Shape'
      /\ pc' = "search" => Passed' \subseteq Passed \cup Below
      /\ pc' = "done" => SUBSET ToSet(order) = Passed \cup Below
      /\ pc' \in {"search", "done"}
  BY ReturnExplores DEF SearchInv
<1>2. Greedy' = Greedy /\ (Insufficient' <=> Insufficient) /\ ToSet(order)' = ToSet(order)
  BY GreedyUnchanged
<1>3. Greedy.remaining # 0 /\ ~Insufficient
  BY DEF SearchInv, Progress
<1>4. (Greedy.remaining)' # 0 /\ ~(Insufficient')
  BY <1>2, <1>3
<1>5. pc' = "search" => BestOf(Passed)'
  BY <1>1 DEF BestOf, AsGood
<1>6. pc' = "done" => BestOf(SUBSET ToSet(order))'
  BY <1>1, <1>2 DEF BestOf, AsGood
<1>7. Progress'
  BY <1>1, <1>4, <1>5, <1>6 DEF Progress
<1> QED BY <1>1, <1>7 DEF SearchInv

LEMMA CoveredStep ==
  ASSUME SearchInv, Covered
  PROVE  SearchInv'
<1>1. /\ pc = "search" /\ Value(Selected) >= target /\ Return /\ UNCHANGED <<order, target>>
      /\ best' = IF Better(Selected, best) THEN Selected ELSE best
      /\ Shape /\ best \subseteq ToSet(order) /\ BestOf(Passed)
      /\ best # {} => Value(best) >= target
  BY DEF Covered, SearchInv, Shape, Progress
<1>2. /\ Selected \in SUBSET ToSet(order) /\ ToSet(order) \in SUBSET Tokens
      /\ Selected \in SUBSET Tokens /\ best \in SUBSET Tokens
      /\ target \in Nat /\ target > 0
  BY <1>1, BelowTypes, OrderTypes
<1>3. Value(Selected) \in Nat /\ Value(best) \in Nat
      /\ Cardinality(Selected) \in Nat /\ Cardinality(best) \in Nat
  BY <1>2, ValueType, FS_CardinalityType
<1>4. Selected # {}
  <2>1. Value({}) = 0
    BY SumEmpty DEF Value
  <2> QED BY <1>1, <1>2, <1>3, <2>1
<1>5. /\ best' \subseteq ToSet(order) /\ best' # {} /\ best' \in SUBSET Tokens
      /\ Value(best') >= target
  BY <1>1, <1>2, <1>4 DEF Better
<1>6. AsGood(best', Selected)
  BY <1>1, <1>3 DEF Better, AsGood
<1>7. best # {} => AsGood(best', best)
  BY <1>1, <1>3 DEF Better, AsGood
<1>8. ASSUME NEW T \in Passed \cup Below, Value(T) >= target PROVE AsGood(best', T)
  <2>1. T \in SUBSET Tokens
    BY <1>2 DEF Passed, Below
  <2>2. CASE T \in Passed
    <3>1. best # {} /\ AsGood(best, T)
      BY <1>1, <1>8, <2>2 DEF BestOf
    <3> QED BY <1>2, <1>5, <1>7, <2>1, <3>1, AsGoodTransitive
  <2>3. CASE T \in Below
    <3>1. AsGood(Selected, T)
      BY <1>1, <2>3, CoverIsBest
    <3> QED BY <1>2, <1>5, <1>6, <2>1, <3>1, AsGoodTransitive
  <2> QED BY <2>2, <2>3
<1> QED BY <1>1, <1>5, <1>8, ReturnStep

LEMMA PruneStep ==
  ASSUME SearchInv, Prune
  PROVE  SearchInv'
<1>1. /\ pc = "search" /\ Value(Selected) < target
      /\ Undecided = {} \/ CannotReach
      /\ Return /\ UNCHANGED <<order, target>> /\ best' = best
      /\ Shape /\ best \subseteq ToSet(order) /\ BestOf(Passed)
      /\ best # {} => Value(best) >= target
  BY DEF Prune, SearchInv, Shape, Progress
<1>2. ASSUME NEW T \in Passed \cup Below, Value(T) >= target
      PROVE  best' # {} /\ AsGood(best', T)
  <2>1. T \notin Below
    BY <1>1, <1>2, PrunedFallsShort
  <2> QED BY <1>1, <1>2, <2>1 DEF BestOf
<1> QED BY <1>1, <1>2, ReturnStep

LEMMA IncludeStep ==
  ASSUME SearchInv, Include
  PROVE  SearchInv'
<1>1. /\ pc = "search" /\ Undecided # {} /\ path' = Append(path, TRUE)
      /\ UNCHANGED <<order, target, pc, best>> /\ Shape /\ Progress
  BY DEF Include, SearchInv
<1>2. Len(path) \in Nat /\ Len(order) \in Nat /\ path \in Seq(BOOLEAN)
  BY <1>1, OrderTypes DEF Shape
<1>3. /\ path' \in Seq(BOOLEAN) /\ Len(path') = Len(path) + 1
      /\ \A i \in 1..Len(path) : path'[i] = path[i]
      /\ path'[Len(path) + 1] = TRUE
  <2>1. TRUE \in BOOLEAN
    OBVIOUS
  <2>2. /\ Append(path, TRUE) \in Seq(BOOLEAN) /\ Len(Append(path, TRUE)) = Len(path) + 1
        /\ \A i \in 1..Len(path) : Append(path, TRUE)[i] = path[i]
        /\ Append(path, TRUE)[Len(path) + 1] = TRUE
    BY <1>2, <2>1, AppendProperties, ZenonT(40)
  <2> QED BY <1>1, <2>2, Zenon
<1>4. Len(path) + 1 <= Len(order)
  <2>1. PICK i \in Len(path) + 1..Len(order) : TRUE
    BY <1>1 DEF Undecided
  <2> QED BY <1>2, <2>1
<1>5. Shape'
  BY <1>1, <1>3, <1>4 DEF Shape
<1>6. ASSUME NEW T \in Passed' PROVE T \in Passed
  <2>1. /\ T \in SUBSET ToSet(order)
        /\ \E i \in 1..Len(path) + 1 : /\ ~path'[i] /\ order[i] \in T
                                        /\ \A j \in 1..i - 1 : path'[j] <=> order[j] \in T
    BY <1>1, <1>3 DEF Passed
  <2>2. PICK i \in 1..Len(path) + 1 : /\ ~path'[i] /\ order[i] \in T
                                      /\ \A j \in 1..i - 1 : path'[j] <=> order[j] \in T
    BY <2>1
  <2>3. i # Len(path) + 1
    BY <1>3, <2>2
  <2>4. i \in 1..Len(path) /\ \A j \in 1..i - 1 : j \in 1..Len(path)
    BY <1>2, <2>3
  <2>5. ~path[i] /\ \A j \in 1..i - 1 : path[j] <=> order[j] \in T
    BY <1>3, <2>2, <2>4
  <2> QED BY <2>1, <2>2, <2>4, <2>5 DEF Passed
<1>7. Greedy' = Greedy /\ (Insufficient' <=> Insufficient)
  BY <1>1, GreedyUnchanged
<1>8. BestOf(Passed)'
  BY <1>1, <1>6 DEF Progress, BestOf, AsGood
<1>9. /\ (Greedy.remaining)' # 0 /\ ~(Insufficient') /\ pc' = "search"
      /\ best' # {} => Value(best') >= target'
  BY <1>1, <1>7 DEF Progress
<1>10. Progress'
  BY <1>8, <1>9 DEF Progress
<1> QED BY <1>5, <1>10 DEF SearchInv

\* The steps before the search.
LEMMA StartStep ==
  ASSUME SearchInv, Reject \/ ExactMatch \/ StartSearch
  PROVE  SearchInv'
<1>1. pc = "start" /\ UNCHANGED <<order, target, path>> /\ Shape /\ path = <<>> /\ best = {}
  BY DEF Reject, ExactMatch, StartSearch, SearchInv, Progress
<1>2. Greedy' = Greedy /\ (Insufficient' <=> Insufficient)
  BY <1>1, GreedyUnchanged
<1>3. /\ Greedy.selected \in SUBSET ToSet(order)
      /\ Value(Greedy.selected) + Greedy.remaining = target
      /\ target \in Nat /\ Value(Greedy.selected) \in Nat
  <2>1. /\ Greedy.selected \in SUBSET ToSet(order)
        /\ Value(Greedy.selected) + Greedy.remaining = target
    BY <1>1, GreedyLoop
  <2>2. ToSet(order) \in SUBSET Tokens /\ target \in Nat
    BY <1>1, OrderTypes
  <2> QED BY <2>1, <2>2, ValueType
<1>4. CASE Reject
  <2>1. pc' = "rejected" /\ Insufficient /\ best' = {}
    BY <1>1, <1>4 DEF Reject
  <2>2. Shape'
    BY <1>1, <2>1 DEF Shape
  <2>3. Progress'
    BY <1>2, <2>1 DEF Progress
  <2> QED BY <2>2, <2>3 DEF SearchInv
<1>5. CASE ExactMatch
  <2>1. /\ pc' = "done" /\ ~Insufficient /\ Greedy.remaining = 0
        /\ best' = Greedy.selected
    BY <1>5 DEF ExactMatch
  <2>2. Shape'
    BY <1>1, <1>3, <2>1 DEF Shape
  <2>3. Value(best') >= target'
    BY <1>1, <1>3, <2>1
  <2>4. (Greedy.remaining)' = 0 /\ best' = (Greedy.selected)' /\ ~(Insufficient')
    BY <1>2, <2>1
  <2>5. Progress'
    BY <2>1, <2>3, <2>4 DEF Progress
  <2> QED BY <2>2, <2>5 DEF SearchInv
<1>6. CASE StartSearch
  <2>1. pc' = "search" /\ ~Insufficient /\ Greedy.remaining # 0 /\ best' = {}
    BY <1>1, <1>6 DEF StartSearch
  <2>2. Shape'
    BY <1>1, <2>1 DEF Shape
  <2>3. Passed' = {}
    <3>1. \A k \in 1..Len(path') : FALSE
      BY <1>1
    <3> QED BY <3>1 DEF Passed
  <2>4. BestOf(Passed)'
    BY <2>3 DEF BestOf
  <2>5. (Greedy.remaining)' # 0 /\ ~(Insufficient')
    BY <1>2, <2>1
  <2>6. Progress'
    BY <2>1, <2>4, <2>5 DEF Progress
  <2> QED BY <2>2, <2>6 DEF SearchInv
<1> QED BY <1>4, <1>5, <1>6

LEMMA SearchStep == SearchInv /\ [Next]_vars => SearchInv'
<1> SUFFICES ASSUME SearchInv, [Next]_vars PROVE SearchInv'
  OBVIOUS
<1>1. CASE UNCHANGED vars
  <2>1. UNCHANGED <<order, target>> /\ path' = path /\ best' = best /\ pc' = pc
    BY <1>1 DEF vars
  <2>2. Greedy' = Greedy /\ (Insufficient' <=> Insufficient)
    BY <2>1, GreedyUnchanged
  <2>3. Shape' /\ (BestOf(Passed)' <=> BestOf(Passed))
        /\ (BestOf(SUBSET ToSet(order))' <=> BestOf(SUBSET ToSet(order)))
    BY <2>1 DEF SearchInv, Shape, BestOf, Passed, AsGood
  <2>4. Progress'
    BY <2>1, <2>2, <2>3 DEF SearchInv, Progress
  <2> QED BY <2>3, <2>4 DEF SearchInv
<1>2. CASE Next
  BY <1>2, StartStep, CoveredStep, PruneStep, IncludeStep DEF Next
<1> QED BY <1>1, <1>2

-----------------------------------------------------------------------------
(* Theorems *)

LEMMA SearchInvHolds == Spec => []SearchInv
<1> QED BY InitSearch, SearchStep, PTL DEF Spec

\* Pruning and stopping at the first cover of a branch lose nothing: at every
\* moment of the search of select_tokens, whatever tokens the wallet holds, no
\* covering selection in the explored part of the tree beats best_selection.
THEOREM BestSoFarHolds == Spec => []BestSoFar
<1>1. SearchInv => BestSoFar
  BY DEF SearchInv, Progress, BestSoFar, BestOf, AsGood
<1> QED BY <1>1, SearchInvHolds, PTL

LEMMA ResultFromInv == SearchInv => ResultOptimal
<1> SUFFICES ASSUME SearchInv PROVE ResultOptimal
  OBVIOUS
<1> DEFINE S == ToSet(order)
           covering == {T \in (SUBSET S) \ {{}} : Value(T) >= target}
<1>0. /\ S \in SUBSET Tokens /\ target \in Nat /\ target > 0 /\ Shape
      /\ S = {order[i] : i \in 1..Len(order)}
  BY OrderTypes DEF SearchInv
<1>1. \A T \in SUBSET S : Value(T) \in Nat /\ Value(T) <= Value(S)
  BY <1>0, ValueSubset, ValueType
<1>2. ASSUME pc = "rejected" PROVE Selections(S, target) = {}
  <2>1. order = <<>> \/ Value(S) < target
    BY <1>2 DEF SearchInv, Progress, Insufficient
  <2>2. order = <<>> => S = {}
    BY DEF ToSet
  <2>3. Value(S) \in Nat
    BY <1>0, ValueType
  <2>4. covering = {}
    <3> SUFFICES ASSUME NEW T \in (SUBSET S) \ {{}}, Value(T) >= target PROVE FALSE
      OBVIOUS
    <3> QED BY <1>0, <1>1, <2>1, <2>2, <2>3
  <2> QED BY <2>4 DEF Selections
<1>3. ASSUME pc = "done" PROVE best \in Selections(S, target)
  <2>1. ~Insufficient /\ best \in SUBSET S /\ (best # {} => Value(best) >= target)
    BY <1>3 DEF SearchInv, Shape, Progress
  <2>2. Value(S) >= target /\ Value(S) \in Nat
    BY <1>0, <1>1, <2>1 DEF Insufficient
  <2>3. Value({}) = 0
    BY SumEmpty DEF Value
  <2>4. best # {} /\ \A T \in covering : AsGood(best, T)
    <3>1. CASE Greedy.remaining = 0
      <4>1. best = Greedy.selected
        BY <1>3, <3>1 DEF SearchInv, Progress
      <4>2. Value(best) = target
        <5>1. Value(Greedy.selected) + Greedy.remaining = target
          BY <1>0, GreedyLoop
        <5>2. Value(best) \in Nat
          BY <1>1, <2>1
        <5> QED BY <3>1, <4>1, <5>1, <5>2
      <4>3. best # {}
        <5>1. best = {} => Value(best) = 0
          BY <2>3
        <5> QED BY <1>0, <4>2, <5>1
      <4>4. ASSUME NEW T \in covering PROVE AsGood(best, T)
        <5>1. T \in SUBSET S /\ Value(T) >= target /\ Value(T) \in Nat
          BY <1>1
        <5>2. CASE Value(T) = target
          BY <1>0, <3>1, <4>1, <4>2, <5>1, <5>2, GreedyFewest DEF AsGood
        <5>3. CASE Value(T) # target
          BY <1>0, <4>2, <5>1, <5>3 DEF AsGood
        <5> QED BY <5>2, <5>3
      <4> QED BY <4>3, <4>4
    <3>2. CASE Greedy.remaining # 0
      <4>1. \A T \in SUBSET S : Value(T) >= target => best # {} /\ AsGood(best, T)
        BY <1>3, <3>2 DEF SearchInv, Progress, BestOf
      <4>2. best # {}
        <5>1. S \in SUBSET S
          OBVIOUS
        <5> HIDE DEF S
        <5> QED BY <2>2, <4>1, <5>1
      <4> QED BY <4>1, <4>2
    <3> QED BY <3>1, <3>2
  <2>5. best \in covering
    BY <2>1, <2>4
  <2> QED BY <2>4, <2>5 DEF Selections, AsGood
<1> QED BY <1>2, <1>3 DEF ResultOptimal

\* select_tokens returns a selection with the least change and, among those, the
\* fewest tokens, and raises ValueError exactly when no selection covers the
\* target, whatever tokens of VALID_DENOMINATIONS the wallet holds: neither the
\* greedy shortcut nor the pruning costs the payer anything.
THEOREM ResultOptimalHolds == Spec => []ResultOptimal
<1> QED BY ResultFromInv, SearchInvHolds, PTL
=============================================================================
