------------------------------- MODULE Totals -------------------------------
(* Facts that the proofs of several modules need: induction over the natural *)
(* numbers, and sums of numbers over a finite set.                           *)
EXTENDS Integers, FiniteSets, FiniteSetTheorems, WellFoundedInduction, TLAPS

-----------------------------------------------------------------------------
(* Induction over the numbers, with a set in place of a predicate.          *)
Below == OpToRel(<, Nat)

LEMMA LeastOf ==
  ASSUME NEW T, T \subseteq Nat, T # {}
  PROVE  \E x \in T : \A y \in T : x <= y
<1>1. IsWellFoundedOn(Below, Nat)
  BY NatLessThanWellFounded, Zenon DEF Below
<1> HIDE DEF Below
<1>2. PICK x \in T : \A y \in T : ~(<<y, x>> \in Below)
  BY <1>1, WFMin
<1>3. ASSUME NEW y \in T PROVE x <= y
  <2>1. y \in Nat /\ x \in Nat
    OBVIOUS
  <2>2. y < x => <<y, x>> \in Below
    BY <2>1 DEF Below, OpToRel
  <2> QED BY <1>2, <2>1, <2>2
<1> QED BY <1>3

LEMMA Induct ==
  ASSUME NEW S, 0 \in S, \A n \in Nat : n \in S => n + 1 \in S
  PROVE  Nat \subseteq S
<1> SUFFICES ASSUME Nat \ S # {} PROVE FALSE
  OBVIOUS
<1>1. PICK x \in Nat \ S : \A y \in Nat \ S : x <= y
  <2> DEFINE T == Nat \ S
  <2>1. T \subseteq Nat /\ T # {}
    OBVIOUS
  <2> HIDE DEF T
  <2>2. \E x \in T : \A y \in T : x <= y
    BY <2>1, LeastOf
  <2> QED BY <2>2 DEF T
<1>2. x # 0 /\ x - 1 \in Nat
  OBVIOUS
<1>3. x - 1 \in S
  BY <1>1, <1>2
<1> QED BY <1>2, <1>3

-----------------------------------------------------------------------------
(* Sums of numbers b[k] over a finite set, as MapThenSumSet takes them.     *)
Pick(s) == CHOOSE x \in s : TRUE
Sums(f, D, b) == f = [s \in D |-> IF s = {} THEN 0 ELSE b[Pick(s)] + f[s \ {Pick(s)}]]
Total(b, V) == (CHOOSE f : Sums(f, SUBSET V, b))[V]

LEMMA PickIsOne == ASSUME NEW s, s # {} PROVE Pick(s) \in s
BY DEF Pick

LEMMA OneLess ==
  ASSUME NEW s, IsFiniteSet(s), NEW n \in Nat, Cardinality(s) = n + 1, NEW x \in s
  PROVE  IsFiniteSet(s \ {x}) /\ Cardinality(s \ {x}) = n
BY FS_RemoveElement

LEMMA SumsExist ==
  ASSUME NEW V, IsFiniteSet(V), NEW b
  PROVE  \E f : Sums(f, SUBSET V, b)
<1> DEFINE Upto(n) == {s \in SUBSET V : Cardinality(s) <= n}
           S == {n \in Nat : \E f : Sums(f, Upto(n), b)}
<1>0. \A s \in SUBSET V : IsFiniteSet(s) /\ Cardinality(s) \in Nat /\ (Cardinality(s) = 0 <=> s = {})
  BY FS_Subset, FS_CardinalityType, FS_EmptySet
<1>1. 0 \in S
  <2> DEFINE f == [s \in Upto(0) |-> 0]
  <2>1. \A s \in Upto(0) : s = {}
    BY <1>0
  <2>2. Sums(f, Upto(0), b)
    BY <2>1 DEF Sums
  <2> QED BY <2>2
<1>2. ASSUME NEW n \in Nat, n \in S PROVE n + 1 \in S
  <2>1. PICK f : Sums(f, Upto(n), b)
    BY <1>2
  <2> DEFINE g == [s \in Upto(n + 1) |-> IF s = {} THEN 0 ELSE b[Pick(s)] + f[s \ {Pick(s)}]]
  <2>2. \A s \in Upto(n) : f[s] = IF s = {} THEN 0 ELSE b[Pick(s)] + f[s \ {Pick(s)}]
    BY <2>1 DEF Sums
  <2>3. \A s \in Upto(n) : s \in Upto(n + 1) /\ g[s] = f[s]
    <3>1. \A s \in Upto(n) : s \in Upto(n + 1)
      BY <1>0
    <3> HIDE DEF Upto
    <3> QED BY <2>2, <3>1
  <2>4. ASSUME NEW s \in Upto(n + 1), s # {} PROVE s \ {Pick(s)} \in Upto(n)
    <3>1. PICK m \in Nat : Cardinality(s) = m + 1
      <4>1. Cardinality(s) \in Nat /\ Cardinality(s) # 0
        BY <1>0, <2>4
      <4> QED BY <4>1
    <3>2. IsFiniteSet(s) /\ Pick(s) \in s
      BY <1>0, <2>4, PickIsOne
    <3>3. Cardinality(s \ {Pick(s)}) = m /\ m <= n
      BY <3>1, <3>2, OneLess
    <3> QED BY <3>3
  <2>5. \A s \in Upto(n + 1) : g[s] = IF s = {} THEN 0 ELSE b[Pick(s)] + g[s \ {Pick(s)}]
    <3> HIDE DEF Upto
    <3> QED BY <2>3, <2>4
  <2>6. g = [s \in Upto(n + 1) |-> g[s]]
    OBVIOUS
  <2> HIDE DEF g, Upto
  <2>7. Sums(g, Upto(n + 1), b)
    BY <2>5, <2>6 DEF Sums
  <2> QED BY <2>7
<1> HIDE DEF S
<1>3. Nat \subseteq S
  BY <1>1, <1>2, Induct
<1>4. PICK n \in Nat : n = Cardinality(V)
  BY FS_CardinalityType
<1>5. Upto(n) = SUBSET V
  BY <1>0, <1>4, FS_Subset
<1>6. n \in S
  BY <1>3
<1> QED BY <1>5, <1>6 DEF S

(* A sum depends on the numbers of its own set only.                        *)
SameOn(W, b, c) == \A k \in W : b[k] = c[k]

LEMMA TotalAgrees ==
  ASSUME NEW V, IsFiniteSet(V), NEW W, W \subseteq V, NEW b, NEW c, SameOn(W, b, c), NEW f, Sums(f, SUBSET V, b)
  PROVE  f[W] = Total(c, W)
<1>0. /\ \A s \in SUBSET W : IsFiniteSet(s) /\ Cardinality(s) \in Nat /\ (Cardinality(s) = 0 <=> s = {})
      /\ IsFiniteSet(W)
  BY FS_Subset, FS_CardinalityType, FS_EmptySet
<1>1. \E h : Sums(h, SUBSET W, c)
  BY <1>0, SumsExist
<1>2. PICK g : Sums(g, SUBSET W, c) /\ Total(c, W) = g[W]
  <2> DEFINE h == CHOOSE h : Sums(h, SUBSET W, c)
  <2>1. Sums(h, SUBSET W, c)
    BY <1>1
  <2>2. Total(c, W) = h[W]
    BY DEF Total
  <2> QED BY <2>1, <2>2
<1> DEFINE S == {n \in Nat : \A s \in SUBSET W : Cardinality(s) = n => f[s] = g[s]}
<1>3. /\ \A s \in SUBSET W : f[s] = IF s = {} THEN 0 ELSE b[Pick(s)] + f[s \ {Pick(s)}]
      /\ \A s \in SUBSET W : g[s] = IF s = {} THEN 0 ELSE c[Pick(s)] + g[s \ {Pick(s)}]
  BY <1>2 DEF Sums
<1>4. 0 \in S
  BY <1>0, <1>3
<1>5. ASSUME NEW n \in Nat, n \in S PROVE n + 1 \in S
  <2> SUFFICES ASSUME NEW s \in SUBSET W, Cardinality(s) = n + 1 PROVE f[s] = g[s]
    OBVIOUS
  <2>1. IsFiniteSet(s) /\ s # {}
    BY <1>0
  <2>2. Pick(s) \in s /\ Cardinality(s \ {Pick(s)}) = n
    BY <2>1, PickIsOne, OneLess
  <2>3. f[s \ {Pick(s)}] = g[s \ {Pick(s)}]
    BY <1>5, <2>2
  <2> QED BY <1>3, <2>1, <2>2, <2>3 DEF SameOn
<1> HIDE DEF S
<1>6. Nat \subseteq S
  BY <1>4, <1>5, Induct
<1>7. Cardinality(W) \in S
  BY <1>0, <1>6
<1> QED BY <1>2, <1>7 DEF S

LEMMA TotalIs ==
  ASSUME NEW V, IsFiniteSet(V), NEW b
  PROVE  /\ Total(b, {}) = 0
         /\ V # {} => Total(b, V) = b[Pick(V)] + Total(b, V \ {Pick(V)})
<1>1. PICK f : Sums(f, SUBSET V, b)
  BY SumsExist
<1>2. \A s \in SUBSET V : f[s] = IF s = {} THEN 0 ELSE b[Pick(s)] + f[s \ {Pick(s)}]
  BY <1>1 DEF Sums
<1>3. ASSUME NEW s \in SUBSET V PROVE f[s] = Total(b, s)
  <2>1. SameOn(s, b, b) /\ s \subseteq V
    BY DEF SameOn
  <2> QED BY <1>1, <2>1, TotalAgrees
<1>4. V \in SUBSET V /\ V \ {Pick(V)} \in SUBSET V /\ {} \in SUBSET V
  OBVIOUS
<1>5. Total(b, {}) = 0
  BY <1>2, <1>3, <1>4
<1>6. ASSUME V # {} PROVE Total(b, V) = b[Pick(V)] + Total(b, V \ {Pick(V)})
  <2>1. f[V] = b[Pick(V)] + f[V \ {Pick(V)}]
    BY <1>2, <1>4, <1>6
  <2>2. f[V] = Total(b, V) /\ f[V \ {Pick(V)}] = Total(b, V \ {Pick(V)})
    BY <1>3, <1>4
  <2> QED BY <2>1, <2>2
<1> QED BY <1>5, <1>6

LEMMA TotalType ==
  ASSUME NEW V, IsFiniteSet(V), NEW b, \A k \in V : b[k] \in Nat
  PROVE  Total(b, V) \in Nat
<1> DEFINE S == {n \in Nat : \A s \in SUBSET V : Cardinality(s) = n => Total(b, s) \in Nat}
<1>0. \A s \in SUBSET V : IsFiniteSet(s) /\ Cardinality(s) \in Nat /\ (Cardinality(s) = 0 <=> s = {})
  BY FS_Subset, FS_CardinalityType, FS_EmptySet
<1>1. 0 \in S
  BY <1>0, TotalIs
<1>2. ASSUME NEW n \in Nat, n \in S PROVE n + 1 \in S
  <2> SUFFICES ASSUME NEW s \in SUBSET V, Cardinality(s) = n + 1 PROVE Total(b, s) \in Nat
    OBVIOUS
  <2>1. IsFiniteSet(s) /\ s # {} /\ Pick(s) \in s
    BY <1>0, PickIsOne
  <2>2. Cardinality(s \ {Pick(s)}) = n /\ s \ {Pick(s)} \in SUBSET V
    BY <2>1, OneLess
  <2>3. Total(b, s) = b[Pick(s)] + Total(b, s \ {Pick(s)}) /\ Total(b, s \ {Pick(s)}) \in Nat
    BY <1>2, <2>1, <2>2, TotalIs
  <2> QED BY <2>1, <2>3
<1> HIDE DEF S
<1>3. Nat \subseteq S
  BY <1>1, <1>2, Induct
<1>4. Cardinality(V) \in S
  BY <1>0, <1>3
<1> QED BY <1>4 DEF S

LEMMA TotalIsNat ==
  ASSUME NEW V, IsFiniteSet(V), NEW b, \A k \in V : b[k] \in Nat
  PROVE  Total(b, V) \in Nat /\ \A x \in V : Total(b, V) = b[x] + Total(b, V \ {x})
<1> DEFINE Takes(s) == \A x \in s : Total(b, s) = b[x] + Total(b, s \ {x})
           S == {n \in Nat : \A s \in SUBSET V : Cardinality(s) = n => Takes(s)}
<1>0. \A s \in SUBSET V : IsFiniteSet(s) /\ Cardinality(s) \in Nat /\ (Cardinality(s) = 0 <=> s = {})
  BY FS_Subset, FS_CardinalityType, FS_EmptySet
<1>t. ASSUME NEW s \in SUBSET V PROVE Total(b, s) \in Nat
  <2>1. IsFiniteSet(s) /\ \A k \in s : b[k] \in Nat
    BY <1>0
  <2> QED BY <2>1, TotalType
<1>1. 0 \in S
  BY <1>0
<1>2. ASSUME NEW n \in Nat, n \in S PROVE n + 1 \in S
  <2> SUFFICES ASSUME NEW s \in SUBSET V, Cardinality(s) = n + 1, NEW x \in s
               PROVE  Total(b, s) = b[x] + Total(b, s \ {x})
    OBVIOUS
  <2>1. IsFiniteSet(s) /\ s # {} /\ Pick(s) \in s
    BY <1>0, PickIsOne
  <2>2. PICK p \in s : p = Pick(s)
    BY <2>1
  <2>3. Cardinality(s \ {p}) = n /\ s \ {p} \in SUBSET V
    BY <2>1, OneLess
  <2>4. Total(b, s) = b[p] + Total(b, s \ {p})
    BY <2>1, <2>2, TotalIs
  <2>5. CASE x = p
    BY <2>4, <2>5
  <2>6. CASE x # p
    <3>1. Total(b, s \ {p}) = b[x] + Total(b, (s \ {p}) \ {x})
      BY <1>2, <2>3, <2>6
    <3>2. Cardinality(s \ {x}) = n /\ s \ {x} \in SUBSET V
      BY <2>1, OneLess
    <3>3. Total(b, s \ {x}) = b[p] + Total(b, (s \ {x}) \ {p})
      BY <1>2, <2>6, <3>2
    <3>4. (s \ {x}) \ {p} = (s \ {p}) \ {x} /\ (s \ {p}) \ {x} \in SUBSET V
      OBVIOUS
    <3>5. PICK t \in Nat : t = Total(b, (s \ {p}) \ {x})
      BY <1>t, <3>4
    <3>6. PICK m \in Nat, l \in Nat : m = b[x] /\ l = b[p]
      OBVIOUS
    <3>7. Total(b, s) = l + (m + t) /\ Total(b, s \ {x}) = l + t
      BY <2>4, <3>1, <3>3, <3>4, <3>5, <3>6
    <3> QED BY <3>6, <3>7
  <2> QED BY <2>5, <2>6
<1> HIDE DEF S
<1>3. Nat \subseteq S
  BY <1>1, <1>2, Induct
<1>4. Cardinality(V) \in S
  BY <1>0, <1>3
<1> QED BY <1>t, <1>4 DEF S

LEMMA TotalSplits ==
  ASSUME NEW V, IsFiniteSet(V), NEW b, \A k \in V : b[k] \in Nat, NEW W \in SUBSET V
  PROVE  Total(b, V) = Total(b, W) + Total(b, V \ W)
<1> DEFINE Splits(s) == Total(b, V) = Total(b, s) + Total(b, V \ s)
           S == {n \in Nat : \A s \in SUBSET V : Cardinality(s) = n => Splits(s)}
<1>0. \A s \in SUBSET V : IsFiniteSet(s) /\ Cardinality(s) \in Nat /\ (Cardinality(s) = 0 <=> s = {}) /\ Total(b, s) \in Nat
  BY FS_Subset, FS_CardinalityType, FS_EmptySet, TotalIsNat
<1>1. 0 \in S
  <2>1. Total(b, {}) = 0 /\ V \ {} = V /\ Total(b, V) \in Nat
    BY <1>0, TotalIs
  <2> QED BY <1>0, <2>1
<1>2. ASSUME NEW n \in Nat, n \in S PROVE n + 1 \in S
  <2> SUFFICES ASSUME NEW s \in SUBSET V, Cardinality(s) = n + 1 PROVE Splits(s)
    OBVIOUS
  <2>1. PICK x \in s : IsFiniteSet(s)
    BY <1>0
  <2>2. Cardinality(s \ {x}) = n /\ s \ {x} \in SUBSET V /\ V \ s \in SUBSET V
    BY <2>1, OneLess
  <2>3. Total(b, V) = Total(b, s \ {x}) + Total(b, V \ (s \ {x}))
    BY <1>2, <2>2
  <2>4. Total(b, s) = b[x] + Total(b, s \ {x}) /\ b[x] \in Nat
    BY <2>1, TotalIsNat
  <2>5. Total(b, V \ (s \ {x})) = b[x] + Total(b, V \ s)
    <3> DEFINE u == V \ (s \ {x})
    <3>1. u \in SUBSET V /\ x \in u /\ u \ {x} = V \ s
      OBVIOUS
    <3> HIDE DEF u
    <3>2. IsFiniteSet(u) /\ \A k \in u : b[k] \in Nat
      BY <1>0, <3>1
    <3>3. Total(b, u) = b[x] + Total(b, u \ {x})
      BY <3>1, <3>2, TotalIsNat
    <3> QED BY <3>1, <3>3 DEF u
  <2>6. Total(b, s \ {x}) \in Nat /\ Total(b, V \ s) \in Nat
    BY <1>0, <2>2
  <2> QED BY <2>3, <2>4, <2>5, <2>6
<1> HIDE DEF S
<1>3. Nat \subseteq S
  BY <1>1, <1>2, Induct
<1>4. Cardinality(W) \in S
  BY <1>0, <1>3
<1> QED BY <1>4 DEF S

LEMMA TotalSame ==
  ASSUME NEW V, IsFiniteSet(V), NEW b, NEW c, SameOn(V, b, c)
  PROVE  Total(b, V) = Total(c, V)
<1>1. PICK f : Sums(f, SUBSET V, b)
  BY SumsExist
<1>2. SameOn(V, b, b) /\ V \subseteq V
  BY DEF SameOn
<1>3. f[V] = Total(b, V)
  BY <1>1, <1>2, TotalAgrees
<1>4. f[V] = Total(c, V)
  BY <1>1, <1>2, TotalAgrees
<1> QED BY <1>3, <1>4
=============================================================================
