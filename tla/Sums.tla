-------------------------------- MODULE Sums --------------------------------
(***************************************************************************)
(* What a sum of SumFunctionOnSet becomes when its terms change: lemmas    *)
(* for the memory a timeline holds (Timeline) and for the depth of calls   *)
(* (ReverseSearch).  Induction up to a number, and what FlattenSeq is made *)
(* of: lemmas for whatever is computed along a sequence.                   *)
(***************************************************************************)
EXTENDS Integers, FiniteSets, Functions, SequencesExt, FiniteSetTheorems, SequenceTheorems,
        WellFoundedInduction, TLAPS

\* The term taken first.
Some(s) == CHOOSE x \in s : TRUE

\* What the sums of the subsets of S are.
SumsOf(h, g, S) ==
  h = [s \in SUBSET S |-> IF s = {} THEN 0 ELSE g[Some(s)] + h[s \ {Some(s)}]]

LEMMA SumIs ==
  ASSUME NEW g, NEW S
  PROVE  SumFunctionOnSet(g, S) = (CHOOSE h : SumsOf(h, g, S))[S]
BY DEF SumFunctionOnSet, FoldFunctionOnSet, MapThenFoldSet, SumsOf, Some

LEMMA SomeIs == ASSUME NEW s, s # {} PROVE Some(s) \in s
BY DEF Some
\* A set of numbers that has an element has a least one.
LEMMA LeastOf ==
  ASSUME NEW X \in SUBSET Nat, X # {}
  PROVE  \E u \in X : \A v \in X : u <= v
<1>1. PICK u \in X : \A v \in X : ~ (<<v, u>> \in OpToRel(<, Nat))
  BY NatLessThanWellFounded, WFMin
<1>2. \A v \in X : ~ (v < u)
  BY <1>1 DEF OpToRel
<1> QED
  BY <1>2

\* The subsets of S that have no more than n elements.
NoLarger(n, S) == {s \in SUBSET S : Cardinality(s) <= n}

LEMMA SmallerIs ==
  ASSUME NEW S, IsFiniteSet(S), NEW s \in SUBSET S
  PROVE  /\ IsFiniteSet(s) /\ Cardinality(s) \in Nat
         /\ Cardinality(s) = 0 <=> s = {}
         /\ \A x \in s : s \ {x} \in SUBSET S /\ Cardinality(s \ {x}) = Cardinality(s) - 1
<1>1. IsFiniteSet(s) /\ Cardinality(s) \in Nat
  BY FS_Subset, FS_CardinalityType
<1>2. Cardinality(s) = 0 <=> s = {}
  BY <1>1, FS_EmptySet
<1>3. ASSUME NEW x \in s PROVE s \ {x} \in SUBSET S /\ Cardinality(s \ {x}) = Cardinality(s) - 1
  BY <1>1, FS_RemoveElement
<1> QED
  BY <1>1, <1>2, <1>3

\* The sums of small subsets exist, then those of larger ones.
HaveSums(g, n, S) ==
  \E h \in [NoLarger(n, S) -> Int] : \A s \in NoLarger(n, S) :
    h[s] = IF s = {} THEN 0 ELSE g[Some(s)] + h[s \ {Some(s)}]

LEMMA SumsUpTo ==
  ASSUME NEW S, IsFiniteSet(S), NEW g \in [S -> Int], NEW n \in Nat
  PROVE  HaveSums(g, n, S)
<1> DEFINE Exist(m) == \E h \in [NoLarger(m, S) -> Int] : \A s \in NoLarger(m, S) :
             h[s] = IF s = {} THEN 0 ELSE g[Some(s)] + h[s \ {Some(s)}]
           Bad == {m \in Nat : ~ Exist(m)}
<1>1. SUFFICES ASSUME Bad # {} PROVE FALSE
  BY DEF HaveSums
<1>2. PICK m \in Bad : \A v \in Bad : m <= v
  <2>1. Bad \in SUBSET Nat
    OBVIOUS
  <2> HIDE DEF Bad
  <2> QED BY <1>1, <2>1, LeastOf
<1>3. CASE m = 0
  <2>1. \A s \in NoLarger(0, S) : s = {}
    BY SmallerIs DEF NoLarger
  <2>2. [s \in NoLarger(0, S) |-> 0] \in [NoLarger(0, S) -> Int]
    OBVIOUS
  <2>3. Exist(0)
    BY <2>1, <2>2
  <2> QED BY <1>3, <2>3
<1>4. CASE m # 0
  <2>1. m \in Nat /\ m - 1 \in Nat
    BY <1>4
  <2>2. Exist(m - 1)
    <3>1. m - 1 \notin Bad
      <4> HIDE DEF Bad
      <4> QED BY <2>1, <1>2
    <3> HIDE DEF Exist
    <3> QED BY <3>1, <2>1
  <2>3. PICK h \in [NoLarger(m - 1, S) -> Int] : \A s \in NoLarger(m - 1, S) :
             h[s] = IF s = {} THEN 0 ELSE g[Some(s)] + h[s \ {Some(s)}]
    BY <2>2
  <2> DEFINE larger == [s \in NoLarger(m, S) |->
                          IF s = {} THEN 0 ELSE g[Some(s)] + h[s \ {Some(s)}]]
  <2>4. ASSUME NEW s \in NoLarger(m, S), s # {}
        PROVE  /\ Some(s) \in s /\ Some(s) \in S
               /\ s \ {Some(s)} \in NoLarger(m - 1, S) /\ s \ {Some(s)} \in NoLarger(m, S)
    <3>1. s \in SUBSET S /\ Cardinality(s) <= m /\ Cardinality(s) \in Nat
      BY SmallerIs DEF NoLarger
    <3>2. Some(s) \in s /\ Some(s) \in S
      BY <2>4, <3>1, SomeIs
    <3>3. s \ {Some(s)} \in SUBSET S /\ Cardinality(s \ {Some(s)}) = Cardinality(s) - 1
      BY <3>1, <3>2, SmallerIs
    <3> QED BY <3>1, <3>2, <3>3, <2>1 DEF NoLarger
  <2>5. larger \in [NoLarger(m, S) -> Int]
    BY <2>4
  <2>6. \A s \in NoLarger(m - 1, S) : s \in NoLarger(m, S) /\ larger[s] = h[s]
    <3>1. \A s \in NoLarger(m - 1, S) : s \in NoLarger(m, S)
      BY <2>1, SmallerIs DEF NoLarger
    <3> QED BY <3>1, <2>3
  <2>7. ASSUME NEW s \in NoLarger(m, S)
        PROVE  larger[s] = IF s = {} THEN 0 ELSE g[Some(s)] + larger[s \ {Some(s)}]
    <3>1. CASE s = {}
      BY <3>1
    <3>2. CASE s # {}
      <4>1. larger[s] = g[Some(s)] + h[s \ {Some(s)}]
        BY <3>2
      <4>2. larger[s \ {Some(s)}] = h[s \ {Some(s)}]
        BY <2>4, <2>6, <3>2
      <4> HIDE DEF larger
      <4> QED BY <3>2, <4>1, <4>2
    <3> QED BY <3>1, <3>2
  <2>8. Exist(m)
    <3> HIDE DEF larger
    <3> QED BY <2>5, <2>7
  <2> QED BY <2>8
<1> QED
  BY <1>3, <1>4

LEMMA SumsExist ==
  ASSUME NEW S, IsFiniteSet(S), NEW g \in [S -> Int]
  PROVE  \E h \in [SUBSET S -> Int] : SumsOf(h, g, S)
<1>1. Cardinality(S) \in Nat
  BY FS_CardinalityType
<1>2. NoLarger(Cardinality(S), S) = SUBSET S
  BY FS_Subset DEF NoLarger
<1>3. PICK h \in [SUBSET S -> Int] : \A s \in SUBSET S :
           h[s] = IF s = {} THEN 0 ELSE g[Some(s)] + h[s \ {Some(s)}]
  <2>1. HaveSums(g, Cardinality(S), S)
    BY <1>1, SumsUpTo
  <2> QED BY <2>1, <1>2 DEF HaveSums
<1>4. SumsOf(h, g, S)
  BY <1>3 DEF SumsOf
<1> QED
  BY <1>4

\* There is one such function.
LEMMA SumsUnique ==
  ASSUME NEW S, IsFiniteSet(S), NEW R \in SUBSET S, NEW g \in [S -> Int],
         NEW h \in [SUBSET S -> Int], SumsOf(h, g, S), NEW k, SumsOf(k, g, R),
         NEW s \in SUBSET R
  PROVE  k[s] = h[s]
<1> DEFINE Bad == {m \in Nat : \E u \in SUBSET R : Cardinality(u) = m /\ k[u] # h[u]}
<1>1. SUFFICES ASSUME k[s] # h[s] PROVE FALSE
  OBVIOUS
<1>2. IsFiniteSet(R)
  BY FS_Subset
<1>3. Cardinality(s) \in Bad
  BY <1>1, <1>2, SmallerIs
<1>4. PICK m \in Bad : \A v \in Bad : m <= v
  <2>1. Bad \in SUBSET Nat /\ Bad # {}
    BY <1>3
  <2> HIDE DEF Bad
  <2> QED BY <2>1, LeastOf
<1>5. PICK u \in SUBSET R : Cardinality(u) = m /\ k[u] # h[u]
  OBVIOUS
<1>6. u # {}
  <2>1. h[{}] = 0 /\ k[{}] = 0
    BY DEF SumsOf
  <2> QED BY <2>1, <1>5
<1>7. Some(u) \in u
  BY <1>6, SomeIs
<1>8. /\ u \ {Some(u)} \in SUBSET R /\ Cardinality(u \ {Some(u)}) = m - 1
      /\ m \in Nat /\ m - 1 \in Nat
  <2>1. Cardinality(u \ {Some(u)}) = m - 1 /\ u \ {Some(u)} \in SUBSET R
    BY <1>2, <1>5, <1>7, SmallerIs
  <2>2. Cardinality(u \ {Some(u)}) \in Nat
    BY <1>2, <2>1, SmallerIs
  <2> QED BY <2>1, <2>2
<1>9. k[u \ {Some(u)}] = h[u \ {Some(u)}]
  <2>1. m - 1 \notin Bad
    <3> HIDE DEF Bad
    <3> QED BY <1>4, <1>8
  <2> QED BY <2>1, <1>8
<1>10. h[u] = g[Some(u)] + h[u \ {Some(u)}]
  BY <1>6 DEF SumsOf
<1>11. k[u] = g[Some(u)] + k[u \ {Some(u)}]
  BY <1>6 DEF SumsOf
<1> QED
  BY <1>5, <1>9, <1>10, <1>11

\* All sums of subsets of S are in one function.
LEMMA SumAt ==
  ASSUME NEW S, IsFiniteSet(S), NEW g \in [S -> Int]
  PROVE  \E h \in [SUBSET S -> Int] :
           SumsOf(h, g, S) /\ \A R \in SUBSET S : SumFunctionOnSet(g, R) = h[R]
<1>1. PICK h \in [SUBSET S -> Int] : SumsOf(h, g, S)
  BY SumsExist
<1>2. ASSUME NEW R \in SUBSET S PROVE SumFunctionOnSet(g, R) = h[R]
  <2> DEFINE part == [s \in SUBSET R |-> h[s]]
  <2>1. SumsOf(part, g, R)
    <3>1. ASSUME NEW s \in SUBSET R
          PROVE  part[s] = IF s = {} THEN 0 ELSE g[Some(s)] + part[s \ {Some(s)}]
      <4>1. s \in SUBSET S /\ s \ {Some(s)} \in SUBSET R
        OBVIOUS
      <4>2. h[s] = IF s = {} THEN 0 ELSE g[Some(s)] + h[s \ {Some(s)}]
        BY <4>1, <1>1 DEF SumsOf
      <4> QED BY <4>1, <4>2
    <3> QED BY <3>1 DEF SumsOf
  <2> HIDE DEF part
  <2>2. SumsOf(CHOOSE k : SumsOf(k, g, R), g, R)
    BY <2>1
  <2>3. (CHOOSE k : SumsOf(k, g, R))[R] = h[R]
    BY <2>2, <1>1, SumsUnique
  <2> QED BY <2>3, SumIs
<1> QED
  BY <1>1, <1>2

LEMMA SumType ==
  ASSUME NEW S, IsFiniteSet(S), NEW g \in [S -> Int], NEW R \in SUBSET S
  PROVE  SumFunctionOnSet(g, R) \in Int /\ SumFunctionOnSet(g, {}) = 0
<1>1. PICK h \in [SUBSET S -> Int] :
        SumsOf(h, g, S) /\ \A U \in SUBSET S : SumFunctionOnSet(g, U) = h[U]
  BY SumAt
<1>2. h[{}] = 0
  BY <1>1 DEF SumsOf
<1> QED
  BY <1>1, <1>2

\* Any term can be the first.
LEMMA SumWithout ==
  ASSUME NEW S, IsFiniteSet(S), NEW g \in [S -> Int], NEW R \in SUBSET S, NEW x \in R
  PROVE  SumFunctionOnSet(g, R) = g[x] + SumFunctionOnSet(g, R \ {x})
<1>1. PICK h \in [SUBSET S -> Int] :
        SumsOf(h, g, S) /\ \A U \in SUBSET S : SumFunctionOnSet(g, U) = h[U]
  BY SumAt
<1> DEFINE Odd(u) == \E y \in u : h[u] # g[y] + h[u \ {y}]
           Bad == {m \in Nat : \E u \in SUBSET S : Cardinality(u) = m /\ Odd(u)}
<1>2. SUFFICES ASSUME Odd(R) PROVE FALSE
  <2>1. R \ {x} \in SUBSET S
    OBVIOUS
  <2> QED BY <1>1, <2>1
<1>3. PICK m \in Bad : \A v \in Bad : m <= v
  <2>1. Cardinality(R) \in Bad
    <3> HIDE DEF Odd
    <3> QED BY <1>2, SmallerIs
  <2>2. Bad \in SUBSET Nat /\ Bad # {}
    BY <2>1
  <2> HIDE DEF Bad
  <2> QED BY <2>2, LeastOf
<1>4. PICK u \in SUBSET S : Cardinality(u) = m /\ Odd(u)
  <2> HIDE DEF Odd
  <2> QED OBVIOUS
<1>5. PICK y \in u : h[u] # g[y] + h[u \ {y}]
  BY <1>4
<1> DEFINE z == Some(u)
<1>6. z \in u /\ h[u] = g[z] + h[u \ {z}]
  <2>1. z \in u
    BY <1>5, SomeIs
  <2> QED BY <2>1, <1>1 DEF SumsOf
<1> HIDE DEF z
<1>7. z # y
  BY <1>5, <1>6
<1>8. /\ u \ {z} \in SUBSET S /\ u \ {y} \in SUBSET S /\ (u \ {z}) \ {y} = (u \ {y}) \ {z}
      /\ y \in u \ {z} /\ z \in u \ {y} /\ (u \ {z}) \ {y} \in SUBSET S
  BY <1>6, <1>7
<1>9. m \in Nat /\ m - 1 \in Nat /\ Cardinality(u \ {z}) = m - 1 /\ Cardinality(u \ {y}) = m - 1
  <2>1. Cardinality(u \ {z}) = m - 1 /\ Cardinality(u \ {y}) = m - 1
    BY <1>4, <1>6, SmallerIs
  <2>2. Cardinality(u \ {z}) \in Nat
    BY <1>8, SmallerIs
  <2> QED BY <2>1, <2>2
<1>10. ~ Odd(u \ {z}) /\ ~ Odd(u \ {y})
  <2>1. m - 1 \notin Bad
    <3> HIDE DEF Bad
    <3> QED BY <1>3, <1>9
  <2> HIDE DEF Odd
  <2> QED BY <2>1, <1>8, <1>9
<1>11. h[u \ {z}] = g[y] + h[(u \ {z}) \ {y}] /\ h[u \ {y}] = g[z] + h[(u \ {z}) \ {y}]
  BY <1>8, <1>10
<1>12. g[y] \in Int /\ g[z] \in Int /\ h[(u \ {z}) \ {y}] \in Int
  BY <1>6, <1>8
<1> QED
  BY <1>5, <1>6, <1>11, <1>12

\* A sum of natural numbers is one, and grows with what is summed.
LEMMA SumGrows ==
  ASSUME NEW S, IsFiniteSet(S), NEW g \in [S -> Nat], NEW Q \in SUBSET S, NEW R \in SUBSET Q
  PROVE  /\ SumFunctionOnSet(g, R) \in Nat /\ SumFunctionOnSet(g, Q) \in Nat
         /\ SumFunctionOnSet(g, R) <= SumFunctionOnSet(g, Q)
<1> DEFINE sum(U) == SumFunctionOnSet(g, U)
           Fine(U) == sum(U) \in Nat /\ \A V \in SUBSET U : sum(V) \in Nat /\ sum(V) <= sum(U)
           Bad == {m \in Nat : \E U \in SUBSET S : Cardinality(U) = m /\ ~ Fine(U)}
<1>1. g \in [S -> Int]
  OBVIOUS
<1>2. SUFFICES ASSUME ~ Fine(Q) PROVE FALSE
  OBVIOUS
<1>3. PICK m \in Bad : \A v \in Bad : m <= v
  <2>1. Cardinality(Q) \in Bad
    <3> HIDE DEF Fine
    <3> QED BY <1>2, SmallerIs
  <2>2. Bad \in SUBSET Nat /\ Bad # {}
    BY <2>1
  <2> HIDE DEF Bad
  <2> QED BY <2>2, LeastOf
<1>4. PICK U \in SUBSET S : Cardinality(U) = m /\ ~ Fine(U)
  <2> HIDE DEF Fine
  <2> QED OBVIOUS
<1> HIDE DEF sum
<1>5. sum({}) = 0
  BY <1>1, SumType DEF sum
<1>6. U # {}
  BY <1>4, <1>5
<1>7. ASSUME NEW x \in U
      PROVE  Fine(U \ {x}) /\ sum(U) = g[x] + sum(U \ {x}) /\ g[x] \in Nat
  <2>1. m \in Nat /\ Cardinality(U \ {x}) = m - 1 /\ m - 1 \in Nat /\ U \ {x} \in SUBSET S
    <3>1. Cardinality(U \ {x}) = m - 1 /\ U \ {x} \in SUBSET S
      BY <1>4, SmallerIs
    <3>2. Cardinality(U \ {x}) \in Nat
      BY <3>1, SmallerIs
    <3> QED BY <3>1, <3>2
  <2>2. m - 1 \notin Bad
    <3> HIDE DEF Bad
    <3> QED BY <1>3, <2>1
  <2>3. Fine(U \ {x})
    <3> HIDE DEF Fine
    <3> QED BY <2>1, <2>2
  <2>4. sum(U) = g[x] + sum(U \ {x})
    BY <1>1, SumWithout DEF sum
  <2> QED BY <2>3, <2>4
<1>8. sum(U) \in Nat
  <2>1. PICK x \in U : TRUE
    BY <1>6
  <2>2. sum(U \ {x}) \in Nat /\ sum(U) = g[x] + sum(U \ {x}) /\ g[x] \in Nat
    BY <1>7
  <2> QED BY <2>2
<1>9. ASSUME NEW V \in SUBSET U PROVE sum(V) \in Nat /\ sum(V) <= sum(U)
  <2>1. CASE V = U
    BY <2>1, <1>8
  <2>2. CASE V # U
    <3>1. PICK x \in U : x \notin V
      BY <2>2
    <3>2. Fine(U \ {x}) /\ sum(U) = g[x] + sum(U \ {x}) /\ g[x] \in Nat
      BY <1>7
    <3>3. V \in SUBSET (U \ {x})
      BY <3>1
    <3>4. sum(V) \in Nat /\ sum(V) <= sum(U \ {x}) /\ sum(U \ {x}) \in Nat
      BY <3>2, <3>3
    <3> QED BY <3>2, <3>4, <1>8
  <2> QED BY <2>1, <2>2
<1> QED
  BY <1>4, <1>8, <1>9

\* What holds of no terms, and of one more if it holds of some, holds of all.
LEMMA UpwardFrom ==
  ASSUME NEW n \in Nat, NEW Good, 0 \in Good, \A m \in 0..(n - 1) : m \in Good => m + 1 \in Good
  PROVE  n \in Good
<1> DEFINE Bad == {m \in 0..n : m \notin Good}
<1>1. SUFFICES ASSUME n \notin Good PROVE FALSE
  OBVIOUS
<1>2. PICK m \in Bad : \A v \in Bad : m <= v
  <2>1. Bad \in SUBSET Nat /\ n \in Bad
    BY <1>1
  <2> HIDE DEF Bad
  <2> QED BY <2>1, LeastOf
<1>3. m \in 0..n /\ m # 0 /\ m \notin Good
  OBVIOUS
<1>4. m - 1 \in 0..(n - 1) /\ m - 1 \in 0..n
  BY <1>3
<1>5. m - 1 \notin Bad
  <2> HIDE DEF Bad
  <2> QED BY <1>2, <1>3, <1>4
<1>6. m - 1 \in Good /\ (m - 1) + 1 = m
  BY <1>3, <1>4, <1>5
<1> QED
  BY <1>3, <1>4, <1>6

\* The terms of an interval may be numbered anew.
Renumbered(g, S, k, T, f, n) ==
  /\ IsFiniteSet(S) /\ g \in [S -> Int] /\ IsFiniteSet(T) /\ k \in [T -> Int]
  /\ f \in Int /\ n \in Nat /\ 1..n \subseteq S /\ (f + 1)..(f + n) \subseteq T
  /\ \A i \in 1..n : g[i] = k[f + i]

LEMMA SumRenumbered ==
  ASSUME NEW g, NEW S, NEW k, NEW T, NEW f, NEW n, Renumbered(g, S, k, T, f, n)
  PROVE  SumFunctionOnSet(g, 1..n) = SumFunctionOnSet(k, (f + 1)..(f + n))
<1>0. /\ IsFiniteSet(S) /\ g \in [S -> Int] /\ IsFiniteSet(T) /\ k \in [T -> Int]
      /\ f \in Int /\ n \in Nat /\ 1..n \subseteq S /\ (f + 1)..(f + n) \subseteq T
      /\ \A i \in 1..n : g[i] = k[f + i]
  BY DEF Renumbered
<1> DEFINE Good == {m \in 0..n : SumFunctionOnSet(g, 1..m) = SumFunctionOnSet(k, (f + 1)..(f + m))}
<1>1. 0 \in Good
  <2>1. 1..0 = {} /\ (f + 1)..(f + 0) = {} /\ 0 \in 0..n
    BY <1>0
  <2>2. SumFunctionOnSet(g, {}) = 0 /\ SumFunctionOnSet(k, {}) = 0
    BY <1>0, SumType
  <2> QED BY <2>1, <2>2
<1>2. ASSUME NEW m \in 0..(n - 1), m \in Good PROVE m + 1 \in Good
  <2>1. /\ m + 1 \in 1..(m + 1) /\ 1..(m + 1) \subseteq S /\ (1..(m + 1)) \ {m + 1} = 1..m
    <3>1. \A i \in 1..(m + 1) : i \in 1..n
      BY <1>0
    <3> QED BY <1>0, <3>1
  <2>2. /\ f + (m + 1) \in (f + 1)..(f + (m + 1)) /\ (f + 1)..(f + (m + 1)) \subseteq T
        /\ ((f + 1)..(f + (m + 1))) \ {f + (m + 1)} = (f + 1)..(f + m)
    <3>1. \A i \in (f + 1)..(f + (m + 1)) : i \in (f + 1)..(f + n)
      BY <1>0
    <3>2. ((f + 1)..(f + (m + 1))) \ {f + (m + 1)} = (f + 1)..(f + m)
      BY <1>0
    <3> QED BY <1>0, <3>1, <3>2
  <2>3. SumFunctionOnSet(g, 1..(m + 1)) = g[m + 1] + SumFunctionOnSet(g, 1..m)
    <3> DEFINE R == 1..(m + 1)
    <3>1. R \in SUBSET S /\ m + 1 \in R /\ R \ {m + 1} = 1..m
      BY <2>1
    <3> HIDE DEF R
    <3>2. SumFunctionOnSet(g, R) = g[m + 1] + SumFunctionOnSet(g, R \ {m + 1})
      BY <1>0, <3>1, SumWithout
    <3> QED BY <3>1, <3>2 DEF R
  <2>4. SumFunctionOnSet(k, (f + 1)..(f + (m + 1)))
          = k[f + (m + 1)] + SumFunctionOnSet(k, (f + 1)..(f + m))
    <3> DEFINE R == (f + 1)..(f + (m + 1))
    <3>1. R \in SUBSET T /\ f + (m + 1) \in R /\ R \ {f + (m + 1)} = (f + 1)..(f + m)
      BY <2>2
    <3> HIDE DEF R
    <3>2. SumFunctionOnSet(k, R) = k[f + (m + 1)] + SumFunctionOnSet(k, R \ {f + (m + 1)})
      BY <1>0, <3>1, SumWithout
    <3> QED BY <3>1, <3>2 DEF R
  <2>5. m + 1 \in 1..n /\ m + 1 \in 0..n /\ g[m + 1] = k[f + (m + 1)]
    BY <1>0
  <2> QED BY <2>3, <2>4, <2>5, <1>2
<1>3. n \in Good
  <2> HIDE DEF Good
  <2> QED BY <1>0, <1>1, <1>2, UpwardFrom
<1> QED
  BY <1>3

\* The changes from one instruction to the next add up to the whole change.
Telescoped(g, S, d, lo, n) ==
  /\ IsFiniteSet(S) /\ g \in [S -> Int] /\ lo \in Int /\ n \in Nat /\ lo..(lo + n - 1) \subseteq S
  /\ \A i \in lo..(lo + n) : d[i] \in Int
  /\ \A i \in lo..(lo + n - 1) : g[i] = d[i] - d[i + 1]

LEMMA SumTelescopes ==
  ASSUME NEW g, NEW S, NEW d, NEW lo, NEW n, Telescoped(g, S, d, lo, n)
  PROVE  SumFunctionOnSet(g, lo..(lo + n - 1)) = d[lo] - d[lo + n]
<1>0. /\ IsFiniteSet(S) /\ g \in [S -> Int] /\ lo \in Int /\ n \in Nat /\ lo..(lo + n - 1) \subseteq S
      /\ \A i \in lo..(lo + n) : d[i] \in Int
      /\ \A i \in lo..(lo + n - 1) : g[i] = d[i] - d[i + 1]
  BY DEF Telescoped
<1> DEFINE Good == {m \in 0..n : SumFunctionOnSet(g, lo..(lo + m - 1)) = d[lo] - d[lo + m]}
<1>1. 0 \in Good
  <2>1. lo..(lo + 0 - 1) = {} /\ lo + 0 = lo /\ d[lo] \in Int /\ 0 \in 0..n
    BY <1>0
  <2>2. SumFunctionOnSet(g, {}) = 0
    BY <1>0, SumType
  <2>3. d[lo] - d[lo + 0] = 0
    BY <1>0, <2>1
  <2>4. SumFunctionOnSet(g, lo..(lo + 0 - 1)) = 0
    <3> DEFINE R == lo..(lo + 0 - 1)
    <3>1. R = {}
      BY <2>1
    <3> HIDE DEF R
    <3>2. SumFunctionOnSet(g, R) = 0
      BY <2>2, <3>1
    <3> QED BY <3>2 DEF R
  <2> QED BY <2>1, <2>3, <2>4
<1>2. ASSUME NEW m \in 0..(n - 1), m \in Good PROVE m + 1 \in Good
  <2>1. /\ lo + (m + 1) - 1 = lo + m
        /\ lo + m \in lo..(lo + m) /\ lo..(lo + m) \subseteq S
        /\ (lo..(lo + m)) \ {lo + m} = lo..(lo + m - 1)
    <3>1. \A i \in lo..(lo + m) : i \in lo..(lo + n - 1)
      BY <1>0
    <3>2. (lo..(lo + m)) \ {lo + m} = lo..(lo + m - 1)
      BY <1>0
    <3> QED BY <1>0, <3>1, <3>2
  <2>2. SumFunctionOnSet(g, lo..(lo + m)) = g[lo + m] + SumFunctionOnSet(g, lo..(lo + m - 1))
    <3> DEFINE R == lo..(lo + m)
    <3>1. R \in SUBSET S /\ lo + m \in R /\ R \ {lo + m} = lo..(lo + m - 1)
      BY <2>1
    <3> HIDE DEF R
    <3>2. SumFunctionOnSet(g, R) = g[lo + m] + SumFunctionOnSet(g, R \ {lo + m})
      BY <1>0, <3>1, SumWithout
    <3> QED BY <3>1, <3>2 DEF R
  <2>3. /\ lo + m \in lo..(lo + n - 1) /\ (lo + m) + 1 = lo + (m + 1) /\ m + 1 \in 0..n
        /\ lo + m \in lo..(lo + n) /\ lo + (m + 1) \in lo..(lo + n) /\ lo \in lo..(lo + n)
    BY <1>0
  <2>4. g[lo + m] = d[lo + m] - d[lo + (m + 1)] /\ d[lo + m] \in Int /\ d[lo + (m + 1)] \in Int
        /\ d[lo] \in Int
    BY <1>0, <2>3
  <2>5. SumFunctionOnSet(g, lo..(lo + (m + 1) - 1)) = d[lo] - d[lo + (m + 1)]
    BY <2>1, <2>2, <2>4, <1>2
  <2> QED BY <2>3, <2>5
<1>3. n \in Good
  <2> HIDE DEF Good
  <2> QED BY <1>0, <1>1, <1>2, UpwardFrom
<1> QED
  BY <1>3

----------------------------------------------------------------------------
(* Sequences put one behind the other. *)

Flattening(f, seqs) ==
  f = [i \in 1..Len(seqs) |-> IF i = 1 THEN seqs[i] ELSE f[i - 1] \o seqs[i]]

LEMMA FlattenIs ==
  ASSUME NEW seqs, Len(seqs) # 0
  PROVE  FlattenSeq(seqs) = (CHOOSE f : Flattening(f, seqs))[Len(seqs)]
BY DEF FlattenSeq, Flattening

\* The first n of them can be put one behind the other.
Flattens(f, seqs, n, S) ==
  /\ f \in [1..n -> Seq(S)]
  /\ \A i \in 1..n : f[i] = IF i = 1 THEN seqs[i] ELSE f[i - 1] \o seqs[i]

\* And then one more.
LEMMA FlattensMore ==
  ASSUME NEW S, NEW seqs \in Seq(Seq(S)), NEW m \in 0..(Len(seqs) - 1),
         NEW f, Flattens(f, seqs, m, S)
  PROVE  \E g : /\ Flattens(g, seqs, m + 1, S)
                /\ g[m + 1] = IF m = 0 THEN seqs[m + 1] ELSE f[m] \o seqs[m + 1]
<1> DEFINE next == IF m = 0 THEN seqs[m + 1] ELSE f[m] \o seqs[m + 1]
           g == [i \in 1..(m + 1) |-> IF i = m + 1 THEN next ELSE f[i]]
<1>0. Len(seqs) \in Nat /\ \A i \in 1..Len(seqs) : seqs[i] \in Seq(S)
  OBVIOUS
<1>1. m \in Nat /\ m + 1 \in 1..Len(seqs) /\ (m + 1) - 1 = m /\ (m # 0 => m \in 1..m)
  BY <1>0
<1>2. next \in Seq(S)
  BY <1>0, <1>1 DEF Flattens
<1>3. \A i \in 1..m : i \in 1..(m + 1) /\ i # m + 1
  BY <1>1
<1> HIDE DEF next
<1>4. g[m + 1] = next /\ \A i \in 1..m : g[i] = f[i]
  BY <1>1, <1>3
<1>5. ASSUME NEW i \in 1..(m + 1)
      PROVE  g[i] = (IF i = 1 THEN seqs[i] ELSE g[i - 1] \o seqs[i]) /\ g[i] \in Seq(S)
  <2>1. CASE i = m + 1
    <3>1. (i = 1 <=> m = 0) /\ g[i] = next /\ (m # 0 => g[i - 1] = f[m])
      BY <1>1, <1>4, <2>1
    <3> HIDE DEF g
    <3> QED BY <1>2, <2>1, <3>1 DEF next
  <2>2. CASE i # m + 1
    <3>1. i \in 1..m /\ (i # 1 => i - 1 \in 1..m)
      BY <1>1, <2>2
    <3> HIDE DEF g
    <3> QED BY <1>4, <3>1 DEF Flattens
  <2> QED BY <2>1, <2>2
<1>6. Flattens(g, seqs, m + 1, S)
  BY <1>5 DEF Flattens
<1> HIDE DEF g
<1> QED
  BY <1>4, <1>6 DEF next

\* What all of them put together are.
LEMMA FlattenAt ==
  ASSUME NEW S, NEW seqs \in Seq(Seq(S)), Len(seqs) # 0,
         NEW g, Flattens(g, seqs, Len(seqs), S)
  PROVE  FlattenSeq(seqs) = g[Len(seqs)]
<1>1. PICK n \in Nat \ {0} : n = Len(seqs)
  OBVIOUS
<1>2. Flattening(g, seqs)
  <2>1. g = [i \in 1..n |-> g[i]]
    BY <1>1 DEF Flattens
  <2> QED BY <1>1, <2>1 DEF Flattens, Flattening
<1>3. PICK f : f = (CHOOSE h : Flattening(h, seqs)) /\ Flattening(f, seqs)
  BY <1>2
<1>4. \A i \in 1..n : f[i] = IF i = 1 THEN seqs[i] ELSE f[i - 1] \o seqs[i]
  BY <1>1, <1>3 DEF Flattening
<1> DEFINE Same == {m \in 0..n : m = 0 \/ f[m] = g[m]}
<1>5. 0 \in Same
  BY <1>1
<1>6. ASSUME NEW m \in 0..(n - 1), m \in Same PROVE m + 1 \in Same
  <2>1. m + 1 \in 0..n /\ m + 1 \in 1..n /\ (m + 1 = 1 <=> m = 0) /\ (m + 1) - 1 = m
    BY <1>1
  <2>2. /\ f[m + 1] = IF m = 0 THEN seqs[m + 1] ELSE f[m] \o seqs[m + 1]
        /\ g[m + 1] = IF m = 0 THEN seqs[m + 1] ELSE g[m] \o seqs[m + 1]
    BY <1>1, <1>4, <2>1 DEF Flattens
  <2> QED BY <1>6, <2>1, <2>2
<1>7. n \in Same
  <2> HIDE DEF Same
  <2> QED BY <1>1, <1>5, <1>6, UpwardFrom
<1> QED
  BY <1>1, <1>3, <1>7, FlattenIs

LEMMA FlattensAll ==
  ASSUME NEW S, NEW seqs \in Seq(Seq(S))
  PROVE  \E g : Flattens(g, seqs, Len(seqs), S)
<1>1. PICK n \in Nat : n = Len(seqs)
  OBVIOUS
<1> DEFINE Good == {m \in 0..n : \E f : Flattens(f, seqs, m, S)}
<1>2. 0 \in Good
  <2> DEFINE f == [i \in 1..0 |-> seqs[i]]
  <2>1. 1..0 = {} /\ 0 \in 0..n
    BY <1>1
  <2>2. Flattens(f, seqs, 0, S)
    BY <2>1 DEF Flattens
  <2> QED BY <2>1, <2>2
<1>3. ASSUME NEW m \in 0..(n - 1), m \in Good PROVE m + 1 \in Good
  <2>1. m + 1 \in 0..n
    BY <1>1
  <2> QED BY <1>1, <1>3, <2>1, FlattensMore
<1>4. n \in Good
  <2> HIDE DEF Good
  <2> QED BY <1>1, <1>2, <1>3, UpwardFrom
<1> QED
  BY <1>1, <1>4

\* What is put together from sequences over a set is one.
LEMMA FlattenTyped ==
  ASSUME NEW S, NEW seqs \in Seq(Seq(S))
  PROVE  FlattenSeq(seqs) \in Seq(S)
<1>1. CASE Len(seqs) = 0
  BY <1>1 DEF FlattenSeq
<1>2. CASE Len(seqs) # 0
  <2>1. PICK g : Flattens(g, seqs, Len(seqs), S)
    BY FlattensAll
  <2>2. Len(seqs) \in 1..Len(seqs)
    BY <1>2
  <2>3. FlattenSeq(seqs) = g[Len(seqs)]
    BY <1>2, <2>1, FlattenAt
  <2>4. g[Len(seqs)] \in Seq(S)
    BY <2>1, <2>2 DEF Flattens
  <2> QED BY <2>3, <2>4
<1> QED
  BY <1>1, <1>2

\* One more at the end comes to the end.
LEMMA FlattenAppend ==
  ASSUME NEW S, NEW seqs \in Seq(Seq(S)), NEW s \in Seq(S)
  PROVE  FlattenSeq(Append(seqs, s)) = FlattenSeq(seqs) \o s
<1>1. PICK n \in Nat : n = Len(seqs)
  OBVIOUS
<1>2. PICK more : more = Append(seqs, s)
  OBVIOUS
<1>3. /\ more \in Seq(Seq(S)) /\ Len(more) = n + 1 /\ more[n + 1] = s
      /\ \A i \in 1..n : more[i] = seqs[i]
  BY <1>1, <1>2
<1>4. PICK f : Flattens(f, seqs, n, S)
  BY <1>1, FlattensAll
<1>5. Flattens(f, more, n, S)
  BY <1>3, <1>4 DEF Flattens
<1>6. n \in 0..(Len(more) - 1)
  BY <1>1, <1>3
<1>7. PICK g : /\ Flattens(g, more, n + 1, S)
               /\ g[n + 1] = IF n = 0 THEN more[n + 1] ELSE f[n] \o more[n + 1]
  <2>1. more \in Seq(Seq(S))
    BY <1>3
  <2> QED BY <1>5, <1>6, <2>1, FlattensMore
<1>8. FlattenSeq(more) = g[n + 1]
  <2>1. Len(more) # 0
    BY <1>1, <1>3
  <2> QED BY <1>3, <1>7, <2>1, FlattenAt
<1>9. CASE n = 0
  <2>1. FlattenSeq(seqs) = seqs
    BY <1>1, <1>9 DEF FlattenSeq
  <2>a. seqs = <<>>
    <3>1. PICK T : T = Seq(S)
      OBVIOUS
    <3>2. seqs \in Seq(T) /\ Len(seqs) = 0
      BY <1>1, <1>9, <3>1
    <3> HIDE <3>1
    <3> QED BY <3>2
  <2>2. <<>> \o s = s
    OBVIOUS
  <2> QED BY <1>2, <1>3, <1>7, <1>8, <1>9, <2>1, <2>a, <2>2
<1>10. CASE n # 0
  <2>1. FlattenSeq(seqs) = f[n]
    BY <1>1, <1>4, <1>10, FlattenAt
  <2> QED BY <1>2, <1>3, <1>7, <1>8, <1>10, <2>1
<1> QED
  BY <1>9, <1>10

\* A sequence of what is in it.
IsSequence(x) == x \in Seq({x[i] : i \in DOMAIN x})

LEMMA IsSequenceIs ==
  ASSUME NEW S, NEW x \in Seq(S)
  PROVE  IsSequence(x)
<1> DEFINE R == {x[i] : i \in DOMAIN x}
<1>1. PICK n \in Nat : n = Len(x) /\ DOMAIN x = 1..n /\ x = [i \in 1..n |-> x[i]]
  BY LenProperties
<1>2. \A i \in 1..n : x[i] \in R
  BY <1>1
<1> HIDE DEF R
<1>3. x \in [1..n -> R]
  BY <1>1, <1>2
<1>4. x \in Seq(R)
  BY <1>3, SeqDef
<1> QED
  BY <1>4 DEF IsSequence, R

\* Part of a sequence.
LEMMA PartIs ==
  ASSUME NEW S, NEW x \in Seq(S), NEW from \in Nat, NEW to \in from..Len(x)
  PROVE  /\ SubSeq(x, from + 1, to) \in Seq(S) /\ Len(SubSeq(x, from + 1, to)) = to - from
         /\ \A i \in 1..(to - from) : SubSeq(x, from + 1, to)[i] = x[from + i]
<1>1. Len(x) \in Nat /\ \A i \in 1..Len(x) : x[i] \in S
  OBVIOUS
<1>2. from + 1 \in Int /\ to \in Int /\ \A i \in (from + 1)..to : x[i] \in S
  BY <1>1
<1>3. to - (from + 1) + 1 = to - from /\ (~ (from + 1 <= to) => to - from = 0)
      /\ \A i \in 1..(to - from) : (from + 1) + i - 1 = from + i
  BY <1>1
<1>4. PICK part : part = SubSeq(x, from + 1, to)
  OBVIOUS
<1>5. /\ part \in Seq(S) /\ Len(part) = IF from + 1 <= to THEN to - (from + 1) + 1 ELSE 0
      /\ \A i \in 1..(to - (from + 1) + 1) : part[i] = x[(from + 1) + i - 1]
  BY <1>2, <1>4, SubSeqProperties
<1> QED
  BY <1>3, <1>4, <1>5
=============================================================================
