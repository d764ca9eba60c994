---------------------------- MODULE FoldTheorems ----------------------------
(* Folds over sequences, for proofs: what FoldLeft and FlattenSeq of the      *)
(* community modules define exists, so that they may be computed step by      *)
(* step. The provers do not take a theorem about an operator, so the lemmas   *)
(* speak of functions, and the modules that fold an operator of their own     *)
(* apply them to it.                                                          *)
EXTENDS Integers, SequencesExt, WellFoundedInduction, TLAPS

-----------------------------------------------------------------------------
(* Induction over the naturals, as a fact about a set.                        *)

Below == {pair \in Nat \X Nat : pair[1] < pair[2]}

LEMMA BelowIsWellFounded == IsWellFoundedOn(Below, Nat)
BY NatLessThanWellFounded DEF OpToRel, Below

\* A set of naturals that has 0 and the successors of its members has them all.
THEOREM NatSets ==
    ASSUME NEW S, 0 \in S, \A n \in Nat : n \in S => n + 1 \in S
    PROVE  Nat \subseteq S
<1> DEFINE T == Nat \ S
<1>1. SUFFICES ASSUME T # {} PROVE FALSE
  OBVIOUS
<1>2. T \subseteq Nat
  OBVIOUS
<1> HIDE DEF T
<1>3. PICK least \in T : \A n \in T : <<n, least>> \notin Below
  BY BelowIsWellFounded, <1>1, <1>2, WFMin
<1>4. least \in Nat /\ least # 0 /\ least \notin S
  BY <1>3 DEF T
<1>5. least - 1 \in Nat /\ least - 1 < least
  BY <1>4
<1>6. least - 1 \notin T
  BY <1>3, <1>4, <1>5 DEF Below
<1>7. least - 1 \in S
  BY <1>5, <1>6 DEF T
<1> QED BY <1>4, <1>5, <1>7

\* The same up to a bound.
THEOREM UpTo ==
    ASSUME NEW n \in Nat, NEW S, 0 \in S,
           \A m \in 0..(n-1) : m \in S => m + 1 \in S
    PROVE  0..n \subseteq S
<1> DEFINE T == {m \in Nat : m <= n => m \in S}
<1>1. 0 \in T
  OBVIOUS
<1>2. ASSUME NEW m \in Nat, m \in T PROVE m + 1 \in T
  BY <1>2
<1> HIDE DEF T
<1>3. Nat \subseteq T
  BY <1>1, <1>2, NatSets
<1> QED BY <1>3 DEF T

-----------------------------------------------------------------------------
(* Recursive definitions that have a solution.                                *)

LEMMA MaxUpTo ==
    ASSUME NEW n \in Nat, NEW s \in SUBSET (1..n), n \in s
    PROVE  Max(s) = n
<1>1. \A m \in s : m \in Nat /\ n >= m
  OBVIOUS
<1>2. \A m \in s : (\A k \in s : m >= k) => m = n
  BY <1>1
<1> QED BY <1>1, <1>2 DEF Max

LEMMA MaxIsMember ==
    ASSUME NEW n \in Nat, NEW s \in SUBSET (1..n), s # {}
    PROVE  Max(s) \in s
<1> DEFINE T == {m \in Nat : s \cap (0..m) = {} \/ \E k \in s : k <= m /\ \A j \in s : j <= m => k >= j}
<1>1. 0 \in T
  OBVIOUS
<1>2. ASSUME NEW m \in Nat, m \in T PROVE m + 1 \in T
  <2>1. CASE m + 1 \in s
    <3>1. m + 1 <= m + 1 /\ \A j \in s : j <= m + 1 => m + 1 >= j
      BY <2>1
    <3> QED BY <2>1, <3>1
  <2>2. CASE m + 1 \notin s
    <3>1. \A j \in s : j <= m + 1 <=> j <= m
      BY <2>2
    <3>2. s \cap (0..m) = {} => s \cap (0..(m+1)) = {}
      BY <3>1
    <3> QED BY <1>2, <3>1, <3>2
  <2> QED BY <2>1, <2>2
<1> HIDE DEF T
<1>3. n \in T
  BY <1>1, <1>2, NatSets
<1>4. \E k \in s : \A j \in s : k >= j
  <2>1. s \cap (0..n) # {} /\ \A j \in s : j <= n
    <3>1. PICK j \in s : TRUE
      OBVIOUS
    <3>2. \A i \in s : i \in 0..n /\ i <= n
      OBVIOUS
    <3> QED BY <3>1, <3>2
  <2>2. \E k \in s : k <= n /\ \A j \in s : j <= n => k >= j
    BY <1>3, <2>1 DEF T
  <2> QED BY <2>1, <2>2
<1> QED BY <1>4 DEF Max

\* The least of some naturals is one of them.
LEMMA MinIsMember ==
    ASSUME NEW n \in Nat, NEW s \in SUBSET (1..n), s # {}
    PROVE  Min(s) \in s
<1>1. s \subseteq Nat
  OBVIOUS
<1>2. PICK least \in s : \A m \in s : <<m, least>> \notin Below
  BY <1>1, BelowIsWellFounded, WFMin
<1>3. ASSUME NEW m \in s PROVE least =< m
  <2>1. m \in Nat /\ least \in Nat
    BY <1>1
  <2>2. <<m, least>> \notin Below
    BY <1>2
  <2>3. ~(m < least)
    BY <2>1, <2>2 DEF Below
  <2> QED BY <2>1, <2>3
<1> QED BY <1>3 DEF Min

\* The prefixes of a sequence are what the iterator of FoldLeft goes through.
LEMMA FirstPlaces ==
    ASSUME NEW k \in Nat \ {0}
    PROVE  1..k # {} /\ Max(1..k) = k /\ (1..k) \ {k} = 1..(k-1)
<1>1. 1..k \in SUBSET (1..k) /\ k \in 1..k
  OBVIOUS
<1>2. Max(1..k) = k
  BY <1>1, MaxUpTo
<1>3. (1..k) \ {k} = 1..(k-1)
  OBVIOUS
<1>4. 1..k # {}
  BY <1>1
<1> QED BY <1>2, <1>3, <1>4

Iterates(it, n, base, F) == \A s \in SUBSET (1..n) :
    it[s] = IF s = {} THEN base ELSE F[<<it[s \ {Max(s)}], Max(s)>>]

\* The iterator of FoldLeft, over the sets of positions of a sequence of n.
THEOREM FoldExists ==
    ASSUME NEW V, NEW base \in V, NEW n \in Nat, NEW F \in [V \X (1..n) -> V]
    PROVE  \E it \in [SUBSET (1..n) -> V] : Iterates(it, n, base, F)
<1> DEFINE Good(it, m) == \A s \in SUBSET (1..m) :
               it[s] = IF s = {} THEN base ELSE F[<<it[s \ {Max(s)}], Max(s)>>]
           Has(m) == \E it \in [SUBSET (1..m) -> V] : Good(it, m)
           S == {m \in 0..n : Has(m)}
<1>1. 0 \in S
  <2> DEFINE only == [s \in SUBSET (1..0) |-> base]
  <2>1. 1..0 = {} /\ SUBSET (1..0) = {{}}
    OBVIOUS
  <2>2. only \in [SUBSET (1..0) -> V]
    OBVIOUS
  <2>3. Good(only, 0)
    BY <2>1
  <2> HIDE DEF only, Good
  <2>4. Has(0)
    BY <2>2, <2>3
  <2> HIDE DEF Has
  <2> QED BY <2>4
<1>2. ASSUME NEW m \in 0..(n-1), m \in S
      PROVE  m + 1 \in S
  <2>1. PICK it \in [SUBSET (1..m) -> V] : Good(it, m)
    BY <1>2
  <2> DEFINE next == [s \in SUBSET (1..(m+1)) |->
                          IF m + 1 \in s THEN F[<<it[s \ {m+1}], m + 1>>] ELSE it[s]]
  <2>2. next \in [SUBSET (1..(m+1)) -> V]
    <3> SUFFICES ASSUME NEW s \in SUBSET (1..(m+1)) PROVE next[s] \in V
      OBVIOUS
    <3>1. CASE m + 1 \in s
      <4>1. s \ {m+1} \in SUBSET (1..m)
        OBVIOUS
      <4>2. <<it[s \ {m+1}], m + 1>> \in V \X (1..n)
        BY <4>1
      <4> QED BY <3>1, <4>2
    <3>2. CASE m + 1 \notin s
      <4>1. s \in SUBSET (1..m)
        BY <3>2
      <4> QED BY <3>2, <4>1
    <3> QED BY <3>1, <3>2
  <2>3. ASSUME NEW s \in SUBSET (1..m) PROVE next[s] = it[s]
    <3>1. s \in SUBSET (1..(m+1)) /\ m + 1 \notin s
      OBVIOUS
    <3> QED BY <3>1
  <2>4. ASSUME NEW s \in SUBSET (1..(m+1))
        PROVE  next[s] = IF s = {} THEN base ELSE F[<<next[s \ {Max(s)}], Max(s)>>]
    <3>1. CASE m + 1 \in s
      <4>1. Max(s) = m + 1
        BY <3>1, MaxUpTo
      <4>2. s \ {m+1} \in SUBSET (1..m)
        OBVIOUS
      <4>3. next[s \ {m+1}] = it[s \ {m+1}]
        BY <2>3, <4>2
      <4>4. next[s] = F[<<it[s \ {m+1}], m + 1>>]
        BY <3>1
      <4>5. s # {}
        BY <3>1
      <4> HIDE DEF next
      <4> QED BY <4>1, <4>3, <4>4, <4>5
    <3>2. CASE m + 1 \notin s
      <4>1. s \in SUBSET (1..m) /\ s \ {Max(s)} \in SUBSET (1..m)
        <5>1. \A k \in s : k \in 1..m
          BY <3>2
        <5> QED BY <5>1
      <4>2. next[s] = it[s] /\ next[s \ {Max(s)}] = it[s \ {Max(s)}]
        BY <2>3, <4>1
      <4> HIDE DEF next
      <4>3. it[s] = IF s = {} THEN base ELSE F[<<it[s \ {Max(s)}], Max(s)>>]
        BY <2>1, <4>1
      <4> QED BY <4>2, <4>3
    <3> QED BY <3>1, <3>2
  <2>5. Good(next, m + 1)
    BY <2>4
  <2>6. m + 1 \in 0..n
    OBVIOUS
  <2> HIDE DEF next, Good
  <2> QED BY <2>2, <2>5, <2>6
<1> HIDE DEF S
<1>3. 0..n \subseteq S
  BY <1>1, <1>2, UpTo
<1>4. n \in S
  BY <1>3
<1> QED BY <1>4 DEF S, Iterates

Recurs(f, n, first, F) == \A i \in 1..n :
    f[i] = IF i = 1 THEN first ELSE F[<<f[i-1], i>>]

\* A recursive function on 1..n that begins with its first value.
THEOREM RecursionExists ==
    ASSUME NEW V, NEW n \in Nat, NEW first \in V, NEW F \in [V \X (1..n) -> V]
    PROVE  \E f \in [1..n -> V] : Recurs(f, n, first, F)
<1> DEFINE Good(f, m) == \A i \in 1..m : f[i] = IF i = 1 THEN first ELSE F[<<f[i-1], i>>]
           Has(m) == \E f \in [1..m -> V] : Good(f, m)
           S == {m \in 0..n : Has(m)}
<1>1. 0 \in S
  <2> DEFINE none == [i \in 1..0 |-> first]
  <2>1. none \in [1..0 -> V] /\ Good(none, 0)
    OBVIOUS
  <2> HIDE DEF none, Good
  <2>2. Has(0)
    BY <2>1
  <2> HIDE DEF Has
  <2> QED BY <2>2
<1>2. ASSUME NEW m \in 0..(n-1), m \in S
      PROVE  m + 1 \in S
  <2>1. PICK f \in [1..m -> V] : Good(f, m)
    BY <1>2
  <2> DEFINE v == IF m = 0 THEN first ELSE F[<<f[m], m + 1>>]
             next == [i \in 1..(m+1) |-> IF i = m + 1 THEN v ELSE f[i]]
  <2>2. v \in V
    <3>1. CASE m = 0
      BY <3>1
    <3>2. CASE m # 0
      <4>1. <<f[m], m + 1>> \in V \X (1..n)
        BY <3>2
      <4> QED BY <3>2, <4>1
    <3> QED BY <3>1, <3>2
  <2>3. next \in [1..(m+1) -> V]
    BY <2>2
  <2>4. Good(next, m + 1)
    <3> SUFFICES ASSUME NEW i \in 1..(m+1)
                 PROVE  next[i] = IF i = 1 THEN first ELSE F[<<next[i-1], i>>]
      OBVIOUS
    <3>1. CASE i = m + 1
      <4>1. next[i] = v
        BY <3>1
      <4>2. m # 0 => next[i-1] = f[m]
        BY <3>1
      <4>3. (i = 1) <=> (m = 0)
        BY <3>1
      <4>4. next[i] = IF m = 0 THEN first ELSE F[<<f[m], m + 1>>]
        BY <4>1
      <4> HIDE DEF next, v
      <4> QED BY <3>1, <4>2, <4>3, <4>4
    <3>2. CASE i # m + 1
      <4>1. i \in 1..m /\ next[i] = f[i]
        BY <3>2
      <4>2. i # 1 => next[i-1] = f[i-1]
        BY <4>1
      <4>3. f[i] = IF i = 1 THEN first ELSE F[<<f[i-1], i>>]
        BY <2>1, <4>1
      <4> HIDE DEF next
      <4> QED BY <4>1, <4>2, <4>3
    <3> QED BY <3>1, <3>2
  <2>5. m + 1 \in 0..n
    OBVIOUS
  <2> HIDE DEF next, Good
  <2> QED BY <2>3, <2>4, <2>5
<1> HIDE DEF S
<1>3. 0..n \subseteq S
  BY <1>1, <1>2, UpTo
<1>4. n \in S
  BY <1>3
<1> QED BY <1>4 DEF S, Recurs

-----------------------------------------------------------------------------
(* Operators of the community modules.                                        *)

\* Sequences of V joined to one are a sequence of V.
THEOREM FlattenType ==
    ASSUME NEW V, NEW seqs \in Seq(Seq(V))
    PROVE  FlattenSeq(seqs) \in Seq(V)
<1>1. CASE Len(seqs) = 0
  <2>1. seqs = <<>>
    BY <1>1
  <2> QED BY <1>1, <2>1 DEF FlattenSeq
<1>2. CASE Len(seqs) # 0
  <2> DEFINE n == Len(seqs)
             F == [vi \in Seq(V) \X (1..n) |-> vi[1] \o seqs[vi[2]]]
             Solves(f) == f = [i \in 1..n |-> IF i = 1 THEN seqs[i] ELSE f[i-1] \o seqs[i]]
             flat == CHOOSE f : Solves(f)
  <2>1. n \in Nat /\ n > 0 /\ \A i \in 1..n : seqs[i] \in Seq(V)
    BY <1>2
  <2>2. F \in [Seq(V) \X (1..n) -> Seq(V)]
    <3> SUFFICES ASSUME NEW vi \in Seq(V) \X (1..n) PROVE vi[1] \o seqs[vi[2]] \in Seq(V)
      OBVIOUS
    <3>1. vi[1] \in Seq(V) /\ seqs[vi[2]] \in Seq(V)
      BY <2>1
    <3> QED BY <3>1
  <2> HIDE DEF F, n
  <2>3. PICK f \in [1..n -> Seq(V)] : \A i \in 1..n :
            f[i] = IF i = 1 THEN seqs[1] ELSE F[<<f[i-1], i>>]
    <3>1. seqs[1] \in Seq(V)
      BY <2>1
    <3> DEFINE V2 == Seq(V)
               first == seqs[1]
    <3> HIDE DEF V2, first
    <3>2. first \in V2 /\ n \in Nat /\ F \in [V2 \X (1..n) -> V2]
      BY <2>1, <2>2, <3>1 DEF V2, first
    <3>3. \E f \in [1..n -> V2] : Recurs(f, n, first, F)
      BY <3>2, RecursionExists
    <3> QED BY <3>3 DEF V2, first, Recurs
  <2>4. Solves(f)
    <3> SUFFICES ASSUME NEW i \in 1..n
                 PROVE  f[i] = IF i = 1 THEN seqs[i] ELSE f[i-1] \o seqs[i]
      OBVIOUS
    <3>1. CASE i = 1
      BY <2>3, <3>1
    <3>2. CASE i # 1
      <4>1. i - 1 \in 1..n
        BY <2>1, <3>2
      <4>2. <<f[i-1], i>> \in Seq(V) \X (1..n)
        BY <4>1
      <4>3. F[<<f[i-1], i>>] = f[i-1] \o seqs[i]
        BY <4>2 DEF F
      <4> QED BY <2>3, <3>2, <4>3
    <3> QED BY <3>1, <3>2
  <2>5. Solves(flat)
    <3> HIDE DEF Solves
    <3> QED BY <2>4
  <2>6. \A i \in 1..n : flat[i] = IF i = 1 THEN seqs[i] ELSE flat[i-1] \o seqs[i]
    <3> HIDE DEF flat
    <3> QED BY <2>5
  <2> DEFINE S == {m \in 0..n : m # 0 => flat[m] \in Seq(V)}
  <2> HIDE DEF flat
  <2>7. 0 \in S
    BY <2>1
  <2>8. ASSUME NEW m \in 0..(n-1), m \in S PROVE m + 1 \in S
    <3>1. m + 1 \in 1..n /\ seqs[m+1] \in Seq(V)
      BY <2>1
    <3>2. flat[m+1] = IF m + 1 = 1 THEN seqs[m+1] ELSE flat[m] \o seqs[m+1]
      BY <2>6, <3>1
    <3>3. m # 0 => flat[m] \in Seq(V)
      BY <2>8
    <3>4. flat[m+1] \in Seq(V)
      <4>1. CASE m = 0
        BY <3>1, <3>2, <4>1
      <4>2. CASE m # 0
        BY <3>1, <3>2, <3>3, <4>2
      <4> QED BY <4>1, <4>2
    <3>5. m + 1 \in 0..n
      BY <2>1
    <3> QED BY <3>4, <3>5
  <2> HIDE DEF S
  <2>9. 0..n \subseteq S
    BY <2>1, <2>7, <2>8, UpTo
  <2>10. flat[n] \in Seq(V)
    BY <2>1, <2>9 DEF S
  <2>11. FlattenSeq(seqs) = flat[n]
    BY <1>2 DEF FlattenSeq, flat, n
  <2> QED BY <2>10, <2>11
<1> QED BY <1>1, <1>2
=============================================================================
