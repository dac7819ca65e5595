--------------------------- MODULE ReverseProofs ---------------------------
(***************************************************************************)
(* Of breakpoints (Breakpoints): that hits and ignore counts are conserved,*)
(* that no hit lies ahead, and that a run passes neither an enabled        *)
(* breakpoint nor the end.  Of running backwards (ReverseSearch): that it  *)
(* arrives at the newest stop, wherever the checkpoints are; that arriving *)
(* counts once, forwards and backwards; that a watchpoint stops right      *)
(* after what it watches for; and that stepping back over calls goes back  *)
(* over whole ones.  For every program and every set of breakpoints.       *)
(***************************************************************************)
EXTENDS ReverseSearch, Sums, FiniteSetTheorems, WellFoundedInduction, TLAPS

HitEntry == [icount : Nat, num : Nums, ignored : BOOLEAN]

----------------------------------------------------------------------------
(* Logs, and how many entries of a kind are in them. *)

Tally(log, X) == Cardinality({i \in DOMAIN log : log[i] \in X})
OfNum(n) == {h \in HitEntry : h.num = n}
Ignored(n) == {h \in HitEntry : h.num = n /\ h.ignored}

\* One log after another.
Joined(whole, old, new) ==
  /\ Len(whole) = Len(old) + Len(new)
  /\ \A i \in 1..Len(old) : whole[i] = old[i]
  /\ \A i \in 1..Len(new) : whole[Len(old) + i] = new[i]

LEMMA Numbers == MaxICount \in Nat /\ MaxBps \in Nat /\ MaxIgnore \in Nat /\ None \notin Nat
BY ProgramAssumption

LEMMA TallyType ==
  ASSUME NEW log \in Seq(HitEntry), NEW X PROVE Tally(log, X) \in Nat
<1>1. IsFiniteSet(1..Len(log))
  BY FS_Interval
<1>2. {i \in DOMAIN log : log[i] \in X} \in SUBSET (1..Len(log))
  OBVIOUS
<1> QED
  BY <1>1, <1>2, FS_Subset, FS_CardinalityType DEF Tally

LEMMA TallyJoined ==
  ASSUME NEW old \in Seq(HitEntry), NEW new \in Seq(HitEntry), NEW whole \in Seq(HitEntry),
         Joined(whole, old, new), NEW X
  PROVE  Tally(whole, X) = Tally(old, X) + Tally(new, X)
<1> DEFINE A == {i \in 1..Len(old) : old[i] \in X}
           B == {i \in 1..Len(new) : new[i] \in X}
           C == {i \in (Len(old) + 1)..(Len(old) + Len(new)) : whole[i] \in X}
           shift == [i \in B |-> Len(old) + i]
<1>0. Len(old) \in Nat /\ Len(new) \in Nat
  OBVIOUS
<1>1. IsFiniteSet(A) /\ IsFiniteSet(B)
  <2>1. IsFiniteSet(1..Len(old)) /\ IsFiniteSet(1..Len(new))
    BY <1>0, FS_Interval
  <2> QED BY <2>1, FS_Subset
<1>2. shift \in Bijection(B, C)
  <2>1. \A i \in B : Len(old) + i \in C
    BY <1>0 DEF Joined
  <2>2. \A j \in C : j - Len(old) \in B /\ j = Len(old) + (j - Len(old))
    <3> SUFFICES ASSUME NEW j \in C PROVE j - Len(old) \in 1..Len(new) /\ new[j - Len(old)] = whole[j] /\ j = Len(old) + (j - Len(old))
      OBVIOUS
    <3>1. j - Len(old) \in 1..Len(new) /\ j = Len(old) + (j - Len(old))
      BY <1>0
    <3> QED BY <3>1 DEF Joined
  <2>3. shift \in [B -> C]
    BY <2>1
  <2>4. \A i, j \in B : shift[i] = shift[j] => i = j
    BY <1>0
  <2>5. \A j \in C : \E i \in B : shift[i] = j
    <3> SUFFICES ASSUME NEW j \in C PROVE \E i \in B : shift[i] = j
      OBVIOUS
    <3>1. shift[j - Len(old)] = Len(old) + (j - Len(old))
      BY <2>2
    <3> QED BY <3>1, <2>2
  <2> QED BY <2>3, <2>4, <2>5 DEF Bijection, Injection, Surjection, IsInjective
<1>3. IsFiniteSet(C) /\ Cardinality(C) = Cardinality(B)
  BY <1>1, <1>2, FS_Bijection DEF ExistsBijection
<1>4. A \cap C = {} /\ {i \in DOMAIN whole : whole[i] \in X} = A \cup C
  BY <1>0 DEF Joined
<1>5. Cardinality(A) \in Nat /\ Cardinality(C) \in Nat /\ Cardinality({}) = 0
  BY <1>1, <1>3, FS_CardinalityType, FS_EmptySet
<1>6. Cardinality({i \in DOMAIN whole : whole[i] \in X}) = Cardinality(A) + Cardinality(B)
  <2> HIDE DEF A, B, C, shift
  <2>1. Cardinality(A \cup C) = Cardinality(A) + Cardinality(C) - Cardinality(A \cap C)
    BY <1>1, <1>3, FS_Union
  <2>2. Cardinality(A \cap C) = 0
    BY <1>4, <1>5
  <2>3. Cardinality(A \cup C) = Cardinality(A) + Cardinality(B)
    BY <2>1, <2>2, <1>3, <1>5
  <2> QED BY <2>3, <1>4, Zenon
<1>7. A = {i \in DOMAIN old : old[i] \in X} /\ B = {i \in DOMAIN new : new[i] \in X}
  OBVIOUS
<1> QED
  BY <1>6, <1>7 DEF Tally

\* Logged and LetPass are tallies.
LEMMA TalliesAre ==
  ASSUME NEW log \in Seq(HitEntry), NEW n \in Nums
  PROVE  /\ Logged(log, n) = Tally(log, OfNum(n))
         /\ LetPass(log, n) = Tally(log, Ignored(n))
<1>1. {i \in DOMAIN log : log[i].num = n} = {i \in DOMAIN log : log[i] \in OfNum(n)}
  BY DEF OfNum
<1>2. {i \in DOMAIN log : log[i].num = n /\ log[i].ignored} = {i \in DOMAIN log : log[i] \in Ignored(n)}
  BY DEF Ignored
<1> QED
  BY <1>1, <1>2 DEF Logged, LetPass, Tally

LEMMA LoggedJoined ==
  ASSUME NEW old \in Seq(HitEntry), NEW new \in Seq(HitEntry), NEW whole \in Seq(HitEntry),
         Joined(whole, old, new), NEW n \in Nums
  PROVE  /\ Logged(whole, n) = Logged(old, n) + Logged(new, n)
         /\ LetPass(whole, n) = LetPass(old, n) + LetPass(new, n)
         /\ Logged(old, n) \in Nat /\ Logged(new, n) \in Nat
         /\ LetPass(old, n) \in Nat /\ LetPass(new, n) \in Nat
BY TalliesAre, TallyJoined, TallyType

\* A log cut in two.
LEMMA CutInTwo ==
  ASSUME NEW log \in Seq(HitEntry), NEW m \in 0..Len(log)
  PROVE  /\ SubSeq(log, 1, m) \in Seq(HitEntry) /\ Len(SubSeq(log, 1, m)) = m
         /\ SubSeq(log, m + 1, Len(log)) \in Seq(HitEntry)
         /\ Len(SubSeq(log, m + 1, Len(log))) = Len(log) - m
         /\ \A i \in 1..m : SubSeq(log, 1, m)[i] = log[i]
         /\ \A i \in 1..(Len(log) - m) : SubSeq(log, m + 1, Len(log))[i] = log[m + i]
         /\ Joined(log, SubSeq(log, 1, m), SubSeq(log, m + 1, Len(log)))
<1>0. m \in Nat /\ Len(log) \in Nat /\ \A i \in 1..Len(log) : log[i] \in HitEntry
  OBVIOUS
<1>1. /\ SubSeq(log, 1, m) \in Seq(HitEntry) /\ Len(SubSeq(log, 1, m)) = m
      /\ \A i \in 1..m : SubSeq(log, 1, m)[i] = log[i]
  BY <1>0
<1>2. /\ SubSeq(log, m + 1, Len(log)) \in Seq(HitEntry)
      /\ Len(SubSeq(log, m + 1, Len(log))) = Len(log) - m
      /\ \A i \in 1..(Len(log) - m) : SubSeq(log, m + 1, Len(log))[i] = log[m + i]
  BY <1>0
<1>3. Joined(log, SubSeq(log, 1, m), SubSeq(log, m + 1, Len(log)))
  <2> DEFINE u == SubSeq(log, 1, m)
             v == SubSeq(log, m + 1, Len(log))
  <2>1. Len(u) = m /\ Len(v) = Len(log) - m
    BY <1>1, <1>2
  <2>2. \A i \in 1..m : log[i] = u[i]
    BY <1>1
  <2>3. \A i \in 1..(Len(log) - m) : log[m + i] = v[i]
    BY <1>2
  <2> HIDE DEF u, v
  <2>4. Len(log) = Len(u) + Len(v)
    BY <1>0, <2>1
  <2>5. Joined(log, u, v)
    BY <2>1, <2>2, <2>3, <2>4 DEF Joined
  <2> QED BY <2>5 DEF u, v
<1> QED
  BY <1>1, <1>2, <1>3

\* A set of breakpoints has a sequence of all of them, each once.
LEMMA SetInSequence ==
  ASSUME NEW S, IsFiniteSet(S)
  PROVE  /\ Cardinality(S) \in Nat
         /\ SetToSeq(S) \in [1..Cardinality(S) -> S]
         /\ \A i, j \in 1..Cardinality(S) : SetToSeq(S)[i] = SetToSeq(S)[j] => i = j
         /\ \A x \in S : \E i \in 1..Cardinality(S) : SetToSeq(S)[i] = x
<1>1. Cardinality(S) \in Nat /\ ExistsBijection(1..Cardinality(S), S)
  BY FS_CardinalityType
<1>2. PICK f \in Bijection(1..Cardinality(S), S) : TRUE
  BY <1>1 DEF ExistsBijection
<1>3. f \in [1..Cardinality(S) -> S] /\ IsInjective(f)
  BY <1>2 DEF Bijection, Injection, IsInjective
<1>4. SetToSeq(S) \in [1..Cardinality(S) -> S] /\ IsInjective(SetToSeq(S))
  BY <1>3 DEF SetToSeq
<1>5. SetToSeq(S) \in Injection(1..Cardinality(S), S)
  BY <1>4 DEF Injection, IsInjective
<1>6. Cardinality(1..Cardinality(S)) = Cardinality(S)
  <2> DEFINE c == Cardinality(S)
  <2>1. c \in Nat
    BY <1>1
  <2> HIDE DEF c
  <2>2. Cardinality(1..c) = c
    <3>1. Cardinality(1..c) = IF 1 > c THEN 0 ELSE c - 1 + 1
      BY <2>1, FS_Interval
    <3> QED BY <2>1, <3>1
  <2> QED BY <2>2 DEF c
<1>7. SetToSeq(S) \in Surjection(1..Cardinality(S), S)
  BY <1>5, <1>6, FS_Injection
<1> QED
  BY <1>1, <1>4, <1>7 DEF Surjection, IsInjective

\* One entry for each breakpoint that was hit.
OneEach(e, bps, H, at) ==
  /\ e \in Seq(HitEntry) /\ Len(e) \in Nat
  /\ \A i \in 1..Len(e) : e[i].icount = at /\ e[i].num \in H
  /\ \A n \in Nums :
       /\ Logged(e, n) = (IF n \in H THEN 1 ELSE 0)
       /\ LetPass(e, n) = (IF n \in H /\ bps[n].ignore > 0 THEN 1 ELSE 0)

LEMMA EntriesOf ==
  ASSUME NEW r, NEW H \in SUBSET Nums, \A n \in H : r.bps[n].ignore \in Nat, NEW at \in Nat
  PROVE  OneEach(Entries(r, H, at), r.bps, H, at)
<1> DEFINE c == Cardinality(H)
           s == SetToSeq(H)
           e == Entries(r, H, at)
           Entry(n) == [icount |-> at, num |-> n, ignored |-> r.bps[n].ignore > 0]
<1>1. IsFiniteSet(H)
  <2>1. IsFiniteSet(Nums)
    BY Numbers, FS_Interval DEF Nums
  <2> QED BY <2>1, FS_Subset
<1>2. /\ c \in Nat /\ s \in [1..c -> H]
      /\ \A i, j \in 1..c : s[i] = s[j] => i = j
      /\ \A x \in H : \E i \in 1..c : s[i] = x
  BY <1>1, SetInSequence
<1>3. \A n \in H : Entry(n) \in HitEntry
  <2> SUFFICES ASSUME NEW n \in H PROVE Entry(n) \in HitEntry
    OBVIOUS
  <2>1. (r.bps[n].ignore > 0) \in BOOLEAN
    OBVIOUS
  <2> QED BY <2>1 DEF HitEntry
<1>4. e = [i \in 1..c |-> Entry(s[i])]
  BY DEF Entries
<1> HIDE DEF c, s
<1>5. /\ e \in Seq(HitEntry) /\ Len(e) = c /\ DOMAIN e = 1..c
      /\ \A i \in 1..c : e[i] = Entry(s[i])
  <2>1. \A i \in 1..c : Entry(s[i]) \in HitEntry
    BY <1>2, <1>3
  <2> HIDE DEF Entry, e
  <2>2. e \in [1..c -> HitEntry]
    BY <2>1, <1>4
  <2>3. e \in Seq(HitEntry) /\ Len(e) = c
    BY <2>2, <1>2
  <2> QED BY <2>2, <2>3, <1>4
<1>6. \A i \in 1..c : /\ e[i].icount = at /\ e[i].num = s[i] /\ s[i] \in H
                      /\ e[i].ignored <=> r.bps[s[i]].ignore > 0
  <2> SUFFICES ASSUME NEW i \in 1..c
               PROVE  /\ e[i].icount = at /\ e[i].num = s[i] /\ s[i] \in H
                      /\ e[i].ignored <=> r.bps[s[i]].ignore > 0
    OBVIOUS
  <2>1. s[i] \in H /\ e[i] = Entry(s[i])
    BY <1>2, <1>5
  <2>2. \A n : /\ Entry(n).icount = at /\ Entry(n).num = n
               /\ Entry(n).ignored <=> r.bps[n].ignore > 0
    OBVIOUS
  <2> HIDE DEF e, Entry
  <2> QED BY <2>1, <2>2
<1> HIDE DEF e, Entry
<1>7. ASSUME NEW n \in Nums
      PROVE  /\ Logged(e, n) = (IF n \in H THEN 1 ELSE 0)
             /\ LetPass(e, n) = (IF n \in H /\ r.bps[n].ignore > 0 THEN 1 ELSE 0)
  <2> DEFINE A == {i \in DOMAIN e : e[i].num = n}
             B == {i \in DOMAIN e : e[i].num = n /\ e[i].ignored}
  <2>0. Cardinality({}) = 0 /\ \A x : Cardinality({x}) = 1
    BY FS_EmptySet, FS_Singleton
  <2>1. CASE n \notin H
    <3>1. A = {} /\ B = {}
      BY <2>1, <1>5, <1>6
    <3> HIDE DEF A, B
    <3>2. Cardinality(A) = 0 /\ Cardinality(B) = 0
      BY <3>1, <2>0
    <3> QED BY <3>2, <2>1 DEF Logged, LetPass, A, B
  <2>2. CASE n \in H
    <3>1. PICK k \in 1..c : s[k] = n
      BY <2>2, <1>2
    <3>2. \A i \in 1..c : s[i] = n <=> i = k
      BY <3>1, <1>2
    <3>3. A = {k}
      BY <3>1, <3>2, <1>5, <1>6
    <3>4. B = IF r.bps[n].ignore > 0 THEN {k} ELSE {}
      BY <3>1, <3>2, <1>5, <1>6
    <3> HIDE DEF A, B
    <3>5. Cardinality(A) = 1
      BY <3>3, <2>0
    <3>6. Cardinality(B) = IF r.bps[n].ignore > 0 THEN 1 ELSE 0
      BY <3>4, <2>0
    <3> QED BY <3>5, <3>6, <2>2 DEF Logged, LetPass, A, B
  <2> QED BY <2>1, <2>2
<1>8. \A i \in 1..Len(e) : e[i].icount = at /\ e[i].num \in H
  BY <1>5, <1>6
<1>9. e \in Seq(HitEntry) /\ Len(e) \in Nat
  BY <1>2, <1>5
<1>10. OneEach(e, r.bps, H, at)
  BY <1>7, <1>8, <1>9 DEF OneEach
<1> QED
  BY <1>10 DEF e

----------------------------------------------------------------------------
(* What asking breakpoints does to them and to the log. *)

\* Numbers are given once, and what has not been set has not been hit.
BpTypes ==
  /\ TypeOK
  /\ nextBp \in 1..(MaxBps + 1) /\ byAddr \in [Addrs -> Nums \cup {None}]
  /\ \A i \in 1..Len(hits) : hits[i].num < nextBp
  /\ counted \in [Nums -> [hits : Nat, ignore : Int]]
  /\ \A n \in Nums : n >= nextBp => counted[n].hits = 0 /\ counted[n].ignore = 0

\* What a hook may be asked of.
Typed(r) ==
  /\ DOMAIN r.bps = Set /\ \A n \in Set : r.bps[n] \in Bp
  /\ r.hits \in Seq(HitEntry) /\ \A i \in 1..Len(r.hits) : r.hits[i].num < nextBp

Balanced(bps, log, cnt) ==
  \A n \in DOMAIN bps :
    /\ bps[n].hits = cnt[n].hits + Logged(log, n)
    /\ bps[n].ignore = cnt[n].ignore - LetPass(log, n)

\* Of a breakpoint, all but its counts.
SameBreakpoint(b, c) ==
  /\ b.kind = c.kind /\ b.at = c.at /\ b.cond = c.cond
  /\ b.temporary = c.temporary /\ b.enabled = c.enabled

\* A log with some entries of one instruction added.
Grown(new, old, at) ==
  /\ Len(new) >= Len(old) /\ \A i \in 1..Len(old) : new[i] = old[i]
  /\ \A i \in (Len(old) + 1)..Len(new) : new[i].icount = at

\* The smallest of a set of numbers.
LEMMA SmallestExists ==
  ASSUME NEW T \in SUBSET Nat, T # {}
  PROVE  Min(T) \in T /\ \A i \in T : Min(T) <= i
<1>1. PICK u \in T : \A v \in T : ~ (<<v, u>> \in OpToRel(<, Nat))
  BY NatLessThanWellFounded, WFMin
<1>2. \A v \in T : u <= v
  <2>1. \A v \in T : ~ (v < u)
    BY <1>1 DEF OpToRel
  <2> QED BY <2>1
<1> QED
  BY <1>2 DEF Min

\* And the greatest of a bounded one.
LEMMA GreatestExists ==
  ASSUME NEW n \in Nat, NEW T \in SUBSET (0..n), T # {}
  PROVE  Max(T) \in T /\ \A i \in T : i <= Max(T)
<1> DEFINE U == {n - j : j \in T}
<1>1. U \in SUBSET Nat /\ U # {}
  <2>1. \A j \in T : n - j \in Nat
    OBVIOUS
  <2>2. PICK j \in T : TRUE
    OBVIOUS
  <2>3. n - j \in U
    OBVIOUS
  <2> QED BY <2>1, <2>3
<1> HIDE DEF U
<1>2. Min(U) \in U /\ \A i \in U : Min(U) <= i
  BY <1>1, SmallestExists
<1>3. PICK j \in T : Min(U) = n - j
  BY <1>2 DEF U
<1>4. \A i \in T : i <= j
  <2> SUFFICES ASSUME NEW i \in T PROVE i <= j
    OBVIOUS
  <2>1. n - i \in U
    BY DEF U
  <2>2. n - j <= n - i
    BY <1>2, <1>3, <2>1
  <2> QED BY <2>2
<1> QED
  BY <1>4 DEF Max

LEMMA SetOfNums == ASSUME BpTypes PROVE Set \subseteq Nums /\ \A n \in Set : n < nextBp /\ n \in Nat
BY Numbers DEF BpTypes, TypeOK, Nums

\* A breakpoint that is hit is still one.
LEMMA HitType ==
  ASSUME NEW b \in Bp
  PROVE  /\ Hit(b) \in Bp /\ SameBreakpoint(Hit(b), b) /\ Hit(b).previous = b.previous
         /\ Hit(b).hits = b.hits + 1
         /\ Hit(b).ignore = b.ignore - (IF b.ignore > 0 THEN 1 ELSE 0)
<1>1. b.hits \in Nat /\ b.ignore \in Nat
  BY DEF Bp
<1>2. b.hits + 1 \in Nat /\ (IF b.ignore > 0 THEN b.ignore - 1 ELSE 0) \in Nat
  BY <1>1
<1>3. Hit(b) = [b EXCEPT !.hits = b.hits + 1, !.ignore = IF b.ignore > 0 THEN b.ignore - 1 ELSE 0]
  BY DEF Hit, Bp
<1>4. Hit(b) \in Bp /\ Hit(b).hits = b.hits + 1
      /\ Hit(b).ignore = (IF b.ignore > 0 THEN b.ignore - 1 ELSE 0)
  BY <1>2, <1>3 DEF Bp
<1>5. SameBreakpoint(Hit(b), b) /\ Hit(b).previous = b.previous
  BY <1>3 DEF Bp, SameBreakpoint
<1> QED
  BY <1>1, <1>4, <1>5

\* Whoever stops the run is one that was asked and does stop; when none does,
\* everyone asked lets it pass.
LEMMA WhoFires ==
  ASSUME BpTypes, NEW r, Typed(r), NEW S \in SUBSET Set, NEW at
  PROVE  /\ Count(r, S, at).fired = None => Fires(r, S) = {} /\ Met(r, S) = S
         /\ Count(r, S, at).fired # None =>
              Count(r, S, at).fired \in S /\ Count(r, S, at).fired \in Fires(r, S)
<1>1. S \in SUBSET Nat
  BY SetOfNums
<1>2. Fires(r, S) \in SUBSET Nat /\ Fires(r, S) \subseteq S
  BY <1>1 DEF Fires
<1>3. Fires(r, S) = {} => Count(r, S, at).fired = None /\ Met(r, S) = S
  BY DEF Count, Met
<1>4. Fires(r, S) # {} => Count(r, S, at).fired = Min(Fires(r, S))
  BY DEF Count
<1>5. Fires(r, S) # {} => Min(Fires(r, S)) \in Fires(r, S)
  BY <1>2, SmallestExists
<1> QED
  BY <1>2, <1>3, <1>4, <1>5, Numbers

\* Each that is hit counts one more and has one more entry.
LEMMA CountKeeps ==
  ASSUME BpTypes, NEW r, Typed(r), NEW S \in SUBSET Set, NEW at \in Nat
  PROVE  /\ Typed(Count(r, S, at))
         /\ Balanced(r.bps, r.hits, counted)
              => Balanced(Count(r, S, at).bps, Count(r, S, at).hits, counted)
         /\ Grown(Count(r, S, at).hits, r.hits, at)
         /\ S = {} => Len(Count(r, S, at).hits) = Len(r.hits)
         /\ \A n \in Set : /\ SameBreakpoint(Count(r, S, at).bps[n], r.bps[n])
                           /\ Count(r, S, at).bps[n].previous = r.bps[n].previous
<1> DEFINE H == {n \in Met(r, S) : Now \in r.bps[n].cond}
           e == Entries(r, H, at)
           c == Count(r, S, at)
<1>1. c.bps = [n \in Set |-> IF n \in H THEN Hit(r.bps[n]) ELSE r.bps[n]] /\ c.hits = r.hits \o e
  BY DEF Count, Typed
<1>2. H \in SUBSET Nums /\ H \in SUBSET Set /\ (S = {} => H = {})
  BY SetOfNums DEF Met
<1>3. \A n \in Set : r.bps[n] \in Bp /\ r.bps[n].ignore \in Nat /\ r.bps[n].hits \in Nat
  BY DEF Typed, Bp
<1> HIDE DEF H
<1>4. /\ e \in Seq(HitEntry) /\ Len(e) \in Nat
      /\ \A i \in 1..Len(e) : e[i].icount = at /\ e[i].num \in H
      /\ \A n \in Nums :
           /\ Logged(e, n) = (IF n \in H THEN 1 ELSE 0)
           /\ LetPass(e, n) = (IF n \in H /\ r.bps[n].ignore > 0 THEN 1 ELSE 0)
  <2>1. \A n \in H : r.bps[n].ignore \in Nat
    BY <1>2, <1>3
  <2>2. OneEach(e, r.bps, H, at)
    BY <1>2, <2>1, EntriesOf
  <2> HIDE DEF e, c
  <2> QED BY <2>2 DEF OneEach
<1>5. S = {} => Len(e) = 0
  <2> SUFFICES ASSUME S = {}, Len(e) # 0 PROVE FALSE
    OBVIOUS
  <2>1. 1 \in 1..Len(e)
    BY <1>4
  <2> QED BY <2>1, <1>2, <1>4
<1> HIDE DEF e
<1>6. r.hits \in Seq(HitEntry) /\ Len(r.hits) \in Nat
  BY DEF Typed
<1>7. /\ c.hits \in Seq(HitEntry) /\ Len(c.hits) = Len(r.hits) + Len(e)
      /\ \A i \in 1..Len(r.hits) : c.hits[i] = r.hits[i]
      /\ \A i \in 1..Len(e) : c.hits[Len(r.hits) + i] = e[i]
  BY <1>1, <1>4, <1>6
<1>8. \A n \in Set : c.bps[n] = IF n \in H THEN Hit(r.bps[n]) ELSE r.bps[n]
  BY <1>1
<1>9. DOMAIN c.bps = Set
  BY <1>1
<1> HIDE DEF c
<1>10. \A i \in 1..Len(c.hits) :
         i \in 1..Len(r.hits) \/ (i - Len(r.hits) \in 1..Len(e) /\ c.hits[i] = e[i - Len(r.hits)])
  <2> SUFFICES ASSUME NEW i \in 1..Len(c.hits), i \notin 1..Len(r.hits)
               PROVE  i - Len(r.hits) \in 1..Len(e) /\ c.hits[i] = e[i - Len(r.hits)]
    OBVIOUS
  <2>1. i - Len(r.hits) \in 1..Len(e) /\ Len(r.hits) + (i - Len(r.hits)) = i
    BY <1>4, <1>6, <1>7
  <2> QED BY <2>1, <1>7
<1>11. Typed(c)
  <2>1. \A n \in Set : c.bps[n] \in Bp
    BY <1>3, <1>8, HitType
  <2>2. \A i \in 1..Len(c.hits) : c.hits[i].num < nextBp
    BY <1>2, <1>4, <1>7, <1>10, SetOfNums DEF Typed
  <2> QED BY <2>1, <2>2, <1>7, <1>9 DEF Typed
<1>12. Grown(c.hits, r.hits, at)
  <2>1. Len(c.hits) >= Len(r.hits) /\ Len(c.hits) \in Nat
    BY <1>4, <1>6, <1>7
  <2>2. \A i \in (Len(r.hits) + 1)..Len(c.hits) : c.hits[i].icount = at
    <3> SUFFICES ASSUME NEW i \in (Len(r.hits) + 1)..Len(c.hits) PROVE c.hits[i].icount = at
      OBVIOUS
    <3>1. i \in 1..Len(c.hits) /\ i \notin 1..Len(r.hits)
      BY <1>6, <2>1
    <3>2. i - Len(r.hits) \in 1..Len(e) /\ c.hits[i] = e[i - Len(r.hits)]
      BY <3>1, <1>10
    <3> QED BY <3>2, <1>4
  <2> QED BY <2>1, <2>2, <1>7 DEF Grown
<1>13. Balanced(r.bps, r.hits, counted) => Balanced(c.bps, c.hits, counted)
  <2> SUFFICES ASSUME Balanced(r.bps, r.hits, counted), NEW n \in Set
               PROVE  /\ c.bps[n].hits = counted[n].hits + Logged(c.hits, n)
                      /\ c.bps[n].ignore = counted[n].ignore - LetPass(c.hits, n)
    BY <1>9 DEF Balanced
  <2>1. Joined(c.hits, r.hits, e)
    BY <1>7 DEF Joined
  <2>2. n \in Nums
    BY SetOfNums
  <2>3. /\ Logged(c.hits, n) = Logged(r.hits, n) + Logged(e, n)
        /\ LetPass(c.hits, n) = LetPass(r.hits, n) + LetPass(e, n)
        /\ Logged(r.hits, n) \in Nat /\ LetPass(r.hits, n) \in Nat
    BY <2>1, <2>2, <1>4, <1>6, <1>7, LoggedJoined
  <2>4. /\ r.bps[n].hits = counted[n].hits + Logged(r.hits, n)
        /\ r.bps[n].ignore = counted[n].ignore - LetPass(r.hits, n)
    BY DEF Balanced, Typed
  <2>5. counted[n].hits \in Nat /\ counted[n].ignore \in Int
    BY <2>2 DEF BpTypes
  <2>6. CASE n \notin H
    BY <2>2, <2>3, <2>4, <2>5, <2>6, <1>4, <1>8
  <2>7. CASE n \in H
    <3>1. c.bps[n].hits = r.bps[n].hits + 1
          /\ c.bps[n].ignore = r.bps[n].ignore - (IF r.bps[n].ignore > 0 THEN 1 ELSE 0)
      BY <2>7, <1>3, <1>8, HitType
    <3>2. Logged(e, n) = 1 /\ LetPass(e, n) = (IF r.bps[n].ignore > 0 THEN 1 ELSE 0)
      BY <2>2, <2>7, <1>4
    <3> QED BY <3>1, <3>2, <2>3, <2>4, <2>5, <1>3
  <2> QED BY <2>6, <2>7
<1>14. \A n \in Set : SameBreakpoint(c.bps[n], r.bps[n]) /\ c.bps[n].previous = r.bps[n].previous
  BY <1>3, <1>8, HitType DEF SameBreakpoint
<1>15. S = {} => Len(c.hits) = Len(r.hits)
  BY <1>5, <1>6, <1>7
<1> QED
  BY <1>11, <1>12, <1>13, <1>14, <1>15 DEF c

----------------------------------------------------------------------------
(* Nothing is lost and nothing is made up. *)

CountInv == BpTypes /\ Conserved

\* What a hook answers with.
Answer(r) ==
  /\ Typed(r) /\ Balanced(r.bps, r.hits, counted)
  /\ \A n \in Set : SameBreakpoint(r.bps[n], breakpoints[n])

LEMMA PastIs ==
  ASSUME BpTypes
  PROVE  /\ past \in Seq(State) /\ Len(past) \in Nat \ {0} /\ icount \in Nat /\ earliest \in 0..icount
         /\ \A i \in 1..Len(past) : past[i] \in State
         /\ Now \in State /\ Step[Now] \in State /\ PC[Now] \in Addrs
<1>1. past \in Seq(State) /\ Len(past) \in Nat \ {0} /\ earliest \in 0..icount
  BY DEF BpTypes, TypeOK
<1>2. icount \in Nat /\ \A i \in 1..Len(past) : past[i] \in State
  BY <1>1 DEF icount
<1>3. Now \in State
  BY <1>1, <1>2 DEF Now
<1> QED
  BY <1>1, <1>2, <1>3, ProgramAssumption

LEMMA AsIsAnswer == ASSUME CountInv PROVE Answer(AsIs)
<1>1. AsIs.bps = breakpoints /\ AsIs.hits = hits
  BY DEF AsIs
<1>2. Typed(AsIs)
  BY <1>1 DEF CountInv, BpTypes, TypeOK, Typed, HitEntry, Set
<1>3. Balanced(AsIs.bps, AsIs.hits, counted)
  BY <1>1 DEF CountInv, Conserved, Balanced, Set
<1> QED
  BY <1>1, <1>2, <1>3 DEF Answer, SameBreakpoint

LEMMA CountAnswer ==
  ASSUME CountInv, NEW r, Answer(r), NEW S \in SUBSET Set, NEW at \in Nat
  PROVE  Answer(Count(r, S, at))
<1>1. /\ Typed(Count(r, S, at)) /\ Balanced(Count(r, S, at).bps, Count(r, S, at).hits, counted)
      /\ \A n \in Set : SameBreakpoint(Count(r, S, at).bps[n], r.bps[n])
  BY CountKeeps DEF CountInv, Answer
<1> QED
  BY <1>1 DEF Answer, SameBreakpoint

\* A register watch that has looked.
LEMMA SeenType ==
  ASSUME BpTypes, NEW b \in Bp
  PROVE  /\ Seen(b) \in Bp /\ SameBreakpoint(Seen(b), b)
         /\ Seen(b).hits = b.hits /\ Seen(b).ignore = b.ignore
         /\ Seen(b).previous = Reg[Now]
<1>1. Reg[Now] \in {Reg[s] : s \in State} \cup {None}
  BY PastIs
<1> QED
  BY <1>1 DEF Seen, Bp, SameBreakpoint

LEMMA RegistersAre ==
  ASSUME CountInv
  PROVE  LET c == Count(AsIs, Changed, icount) IN
         /\ Answer(c) /\ Registers.hits = c.hits /\ Registers.fired = c.fired
         /\ DOMAIN Registers.bps = Set
         /\ \A n \in Set : Registers.bps[n]
              = IF n \in Met(AsIs, Changed) THEN Seen(c.bps[n]) ELSE c.bps[n]
<1> DEFINE c == Count(AsIs, Changed, icount)
<1>1. Changed \in SUBSET Set /\ icount \in Nat
  BY PastIs DEF Changed, Enabled, CountInv
<1>2. Answer(c)
  BY <1>1, AsIsAnswer, CountAnswer
<1>3. Registers = [c EXCEPT !.bps = [n \in Set |-> IF n \in Met(AsIs, Changed)
                                                   THEN Seen(c.bps[n]) ELSE c.bps[n]]]
  BY DEF Registers
<1>4. c = [bps |-> c.bps, hits |-> c.hits, fired |-> c.fired]
  BY DEF Count
<1> HIDE DEF c
<1>5. /\ Registers.hits = c.hits /\ Registers.fired = c.fired
      /\ Registers.bps = [n \in Set |-> IF n \in Met(AsIs, Changed) THEN Seen(c.bps[n]) ELSE c.bps[n]]
  BY <1>3, <1>4
<1> QED
  BY <1>2, <1>5 DEF c

LEMMA RegistersAnswer == ASSUME CountInv PROVE Answer(Registers)
<1> DEFINE c == Count(AsIs, Changed, icount)
<1>1. /\ Answer(c) /\ Registers.hits = c.hits /\ DOMAIN Registers.bps = Set
      /\ \A n \in Set : Registers.bps[n] = c.bps[n] \/ Registers.bps[n] = Seen(c.bps[n])
  BY RegistersAre
<1> HIDE DEF c
<1>2. DOMAIN c.bps = Set /\ \A n \in Set : c.bps[n] \in Bp
  BY <1>1 DEF Answer, Typed
<1>3. \A n \in Set : /\ Registers.bps[n] \in Bp /\ SameBreakpoint(Registers.bps[n], c.bps[n])
                     /\ Registers.bps[n].hits = c.bps[n].hits
                     /\ Registers.bps[n].ignore = c.bps[n].ignore
  BY <1>1, <1>2, SeenType DEF CountInv, SameBreakpoint
<1>4. Typed(Registers)
  BY <1>1, <1>3 DEF Answer, Typed
<1>5. Balanced(Registers.bps, Registers.hits, counted)
  BY <1>1, <1>2, <1>3 DEF Answer, Balanced
<1>6. \A n \in Set : SameBreakpoint(Registers.bps[n], breakpoints[n])
  BY <1>1, <1>3 DEF Answer, SameBreakpoint
<1> QED
  BY <1>4, <1>5, <1>6 DEF Answer

LEMMA ExecuteAnswer == ASSUME CountInv, NEW r, Answer(r) PROVE Answer(Execute(r))
<1>1. {n \in Set : byAddr[PC[Now]] = n /\ r.bps[n].enabled} \in SUBSET Set /\ icount \in Nat
  BY PastIs DEF CountInv
<1> QED
  BY <1>1, CountAnswer DEF Execute

LEMMA AccessesAnswer == ASSUME CountInv, NEW r, Answer(r) PROVE Answer(Accesses(r))
<1>1. {n \in Enabled(ACCESS) : breakpoints[n].at \in Touches[Now]} \in SUBSET Set /\ icount + 1 \in Nat
  BY PastIs DEF CountInv, Enabled
<1> QED
  BY <1>1, CountAnswer DEF Accesses

\* What the log loses when the history does.
LEMMA ReachableIs ==
  ASSUME NEW log \in Seq(HitEntry), NEW oldest \in Nat
  PROVE  /\ Reachable(log, oldest) \in 1..(Len(log) + 1)
         /\ Reachable(log, oldest) - 1 \in 0..Len(log)
         /\ Forget(log, oldest) = SubSeq(log, (Reachable(log, oldest) - 1) + 1, Len(log))
<1> DEFINE T == {i \in DOMAIN log : log[i].icount >= oldest} \cup {Len(log) + 1}
<1>1. T \in SUBSET Nat /\ T # {} /\ T \subseteq 1..(Len(log) + 1)
  OBVIOUS
<1>2. Min(T) \in T
  BY <1>1, SmallestExists
<1>3. Reachable(log, oldest) = Min(T)
  BY DEF Reachable
<1> HIDE DEF T
<1>4. Reachable(log, oldest) \in 1..(Len(log) + 1)
  BY <1>1, <1>2, <1>3
<1>5. Reachable(log, oldest) - 1 \in 0..Len(log) /\ Reachable(log, oldest) = (Reachable(log, oldest) - 1) + 1
  BY <1>4
<1> QED
  BY <1>4, <1>5 DEF Forget

LEMMA SettleKeeps ==
  ASSUME CountInv, NEW bps, DOMAIN bps \subseteq Nums, NEW log \in Seq(HitEntry), NEW oldest \in Nat,
         \A i \in 1..Len(log) : log[i].num < nextBp,
         Balanced(bps, log, counted), Settle(log, oldest)
  PROVE  /\ Balanced(bps, Forget(log, oldest), counted')
         /\ counted' \in [Nums -> [hits : Nat, ignore : Int]]
         /\ \A n \in Nums : n >= nextBp => counted'[n].hits = 0 /\ counted'[n].ignore = 0
         /\ Forget(log, oldest) \in Seq(HitEntry)
         /\ \A i \in 1..Len(Forget(log, oldest)) :
              \E j \in 1..Len(log) : Forget(log, oldest)[i] = log[j]
<1> DEFINE m == Reachable(log, oldest) - 1
           gone == SubSeq(log, 1, m)
           kept == SubSeq(log, m + 1, Len(log))
<1>1. m \in 0..Len(log) /\ Forget(log, oldest) = kept
  BY ReachableIs
<1>2. counted' = [n \in Nums |-> [hits |-> counted[n].hits + Logged(gone, n),
                                  ignore |-> counted[n].ignore - LetPass(gone, n)]]
  BY DEF Settle
<1> HIDE DEF m
<1>3. /\ gone \in Seq(HitEntry) /\ kept \in Seq(HitEntry) /\ Joined(log, gone, kept)
      /\ Len(gone) = m /\ \A i \in 1..m : gone[i] = log[i]
      /\ Len(kept) = Len(log) - m /\ \A i \in 1..(Len(log) - m) : kept[i] = log[m + i]
  BY <1>1, CutInTwo
<1> HIDE DEF gone, kept
<1>4. \A n \in Nums : /\ Logged(log, n) = Logged(gone, n) + Logged(kept, n)
                      /\ LetPass(log, n) = LetPass(gone, n) + LetPass(kept, n)
                      /\ Logged(gone, n) \in Nat /\ LetPass(gone, n) \in Nat
                      /\ Logged(kept, n) \in Nat /\ LetPass(kept, n) \in Nat
  BY <1>3, LoggedJoined
<1>5. \A n \in Nums : counted[n].hits \in Nat /\ counted[n].ignore \in Int
  BY DEF CountInv, BpTypes
<1>6. \A n \in Nums : /\ counted'[n].hits = counted[n].hits + Logged(gone, n)
                      /\ counted'[n].ignore = counted[n].ignore - LetPass(gone, n)
  BY <1>2
<1>7. Balanced(bps, kept, counted')
  <2> SUFFICES ASSUME NEW n \in DOMAIN bps
               PROVE  /\ bps[n].hits = counted'[n].hits + Logged(kept, n)
                      /\ bps[n].ignore = counted'[n].ignore - LetPass(kept, n)
    BY DEF Balanced
  <2>1. n \in Nums
    OBVIOUS
  <2>2. /\ bps[n].hits = counted[n].hits + Logged(log, n)
        /\ bps[n].ignore = counted[n].ignore - LetPass(log, n)
    BY DEF Balanced
  <2>3. /\ Logged(log, n) = Logged(gone, n) + Logged(kept, n)
        /\ Logged(gone, n) \in Nat /\ Logged(kept, n) \in Nat /\ counted[n].hits \in Nat
        /\ counted'[n].hits = counted[n].hits + Logged(gone, n)
    BY <2>1, <1>4, <1>5, <1>6
  <2>4. /\ LetPass(log, n) = LetPass(gone, n) + LetPass(kept, n)
        /\ LetPass(gone, n) \in Nat /\ LetPass(kept, n) \in Nat /\ counted[n].ignore \in Int
        /\ counted'[n].ignore = counted[n].ignore - LetPass(gone, n)
    BY <2>1, <1>4, <1>5, <1>6
  <2>5. bps[n].hits = counted'[n].hits + Logged(kept, n)
    BY <2>2, <2>3
  <2>6. bps[n].ignore = counted'[n].ignore - LetPass(kept, n)
    BY <2>2, <2>4
  <2> QED BY <2>5, <2>6
<1>8. counted' \in [Nums -> [hits : Nat, ignore : Int]]
  <2>1. ASSUME NEW n \in Nums
        PROVE  counted[n].hits + Logged(gone, n) \in Nat /\ counted[n].ignore - LetPass(gone, n) \in Int
    <3>1. counted[n].hits \in Nat /\ counted[n].ignore \in Int
      BY <1>4, <1>5
    <3>2. Logged(gone, n) \in Nat /\ LetPass(gone, n) \in Nat
      BY <1>4, <1>5
    <3> QED BY <3>1, <3>2
  <2> QED BY <2>1, <1>2
<1>9. ASSUME NEW n \in Nums, n >= nextBp PROVE counted'[n].hits = 0 /\ counted'[n].ignore = 0
  <2>1. \A i \in 1..Len(gone) : gone[i].num # n
    <3> SUFFICES ASSUME NEW i \in 1..Len(gone) PROVE gone[i].num # n
      OBVIOUS
    <3>1. i \in 1..Len(log) /\ gone[i] = log[i]
      BY <1>1, <1>3
    <3>2. log[i] \in HitEntry /\ log[i].num < nextBp
      BY <3>1
    <3>3. log[i].num \in Nums
      BY <3>2 DEF HitEntry
    <3>4. nextBp \in Nat
      BY Numbers DEF CountInv, BpTypes
    <3>5. n \in Nat /\ log[i].num \in Nat
      BY <3>3 DEF Nums
    <3> QED BY <3>1, <3>2, <3>4, <3>5, <1>9
  <2>2. Logged(gone, n) = 0 /\ LetPass(gone, n) = 0
    <3>1. {i \in DOMAIN gone : gone[i].num = n} = {}
          /\ {i \in DOMAIN gone : gone[i].num = n /\ gone[i].ignored} = {}
      BY <2>1, <1>3
    <3> QED BY <3>1, FS_EmptySet DEF Logged, LetPass
  <2>3. counted[n].hits = 0 /\ counted[n].ignore = 0
    BY <1>9 DEF CountInv, BpTypes
  <2> QED BY <2>2, <2>3, <1>6
<1>10. \A i \in 1..Len(kept) : \E j \in 1..Len(log) : kept[i] = log[j]
  <2> SUFFICES ASSUME NEW i \in 1..Len(kept) PROVE \E j \in 1..Len(log) : kept[i] = log[j]
    OBVIOUS
  <2>1. m + i \in 1..Len(log) /\ kept[i] = log[m + i]
    BY <1>1, <1>3
  <2> QED BY <2>1
<1> QED
  BY <1>1, <1>3, <1>7, <1>8, <1>9, <1>10

\* The entries a rewind takes off are those after where it goes.
LEMMA UndoneIs ==
  ASSUME NEW log \in Seq(HitEntry), NEW k \in Nat
  PROVE  \E m \in 0..Len(log) :
           /\ Undone(log, k) = SubSeq(log, 1, m)
           /\ \A i \in (m + 1)..Len(log) : log[i].icount > k
           /\ m > 0 => log[m].icount <= k
<1> DEFINE T == {i \in DOMAIN log : log[i].icount <= k} \cup {0}
           m == Max(T)
<1>1. T \in SUBSET (0..Len(log)) /\ T # {} /\ Len(log) \in Nat
  OBVIOUS
<1>2. m \in T /\ \A i \in T : i <= m
  BY <1>1, GreatestExists
<1>3. Undone(log, k) = SubSeq(log, 1, m)
  BY DEF Undone
<1> HIDE DEF m
<1>4. m \in 0..Len(log)
  BY <1>1, <1>2
<1>5. m > 0 => log[m].icount <= k
  BY <1>2, <1>4
<1>6. ASSUME NEW i \in (m + 1)..Len(log) PROVE log[i].icount > k
  <2>1. i \in DOMAIN log /\ ~(i <= m) /\ log[i] \in HitEntry
    BY <1>4
  <2>2. log[i].icount \in Nat
    BY <2>1 DEF HitEntry
  <2>3. ~(log[i].icount <= k)
    BY <2>1, <1>2
  <2> QED BY <2>2, <2>3
<1> QED
  BY <1>3, <1>4, <1>5, <1>6

\* Taking hits back keeps the balance.
LEMMA UndoKeeps ==
  ASSUME CountInv, NEW k \in Nat
  PROVE  /\ Answer(UndoHits(k))
         /\ UndoHits(k).hits = Undone(hits, k)
<1> DEFINE log == Undone(hits, k)
           r == UndoHits(k)
           less(n) == Logged(hits, n) - Logged(log, n)
<1>1. hits \in Seq(HitEntry) /\ \A i \in 1..Len(hits) : hits[i].num < nextBp
  BY DEF CountInv, BpTypes, TypeOK, HitEntry
<1>2. PICK m \in 0..Len(hits) : log = SubSeq(hits, 1, m)
  BY <1>1, UndoneIs
<1>3. r.hits = log /\ r.bps = [n \in Set |->
        [breakpoints[n] EXCEPT !.hits = IF breakpoints[n].hits < less(n) THEN 0 ELSE breakpoints[n].hits - less(n),
                               !.ignore = breakpoints[n].ignore + LetPass(hits, n) - LetPass(log, n)]]
  <2>1. \A n \in Set : breakpoints[n] \in Bp
    BY DEF CountInv, BpTypes, TypeOK
  <2> QED BY <2>1 DEF UndoHits, Bp
<1> DEFINE rest == SubSeq(hits, m + 1, Len(hits))
<1>4. /\ log \in Seq(HitEntry) /\ rest \in Seq(HitEntry) /\ Joined(hits, log, rest)
      /\ Len(log) = m /\ \A i \in 1..m : log[i] = hits[i]
  BY <1>1, <1>2, CutInTwo
<1> HIDE DEF rest, log, r
<1>5. \A n \in Set : n \in Nums /\ breakpoints[n] \in Bp
  BY SetOfNums DEF CountInv, BpTypes, TypeOK
<1>6. ASSUME NEW n \in Set
      PROVE  /\ r.bps[n] \in Bp /\ SameBreakpoint(r.bps[n], breakpoints[n])
             /\ r.bps[n].hits = counted[n].hits + Logged(log, n)
             /\ r.bps[n].ignore = counted[n].ignore - LetPass(log, n)
  <2>1. /\ Logged(hits, n) = Logged(log, n) + Logged(rest, n)
        /\ LetPass(hits, n) = LetPass(log, n) + LetPass(rest, n)
        /\ Logged(log, n) \in Nat /\ LetPass(log, n) \in Nat
        /\ Logged(rest, n) \in Nat /\ LetPass(rest, n) \in Nat
    BY <1>1, <1>4, <1>5, LoggedJoined
  <2>2. /\ breakpoints[n].hits = counted[n].hits + Logged(hits, n)
        /\ breakpoints[n].ignore = counted[n].ignore - LetPass(hits, n)
    BY DEF CountInv, Conserved
  <2>3. counted[n].hits \in Nat /\ counted[n].ignore \in Int
    BY <1>5 DEF CountInv, BpTypes
  <2>4. breakpoints[n].ignore \in Nat /\ breakpoints[n].hits \in Nat
    BY <1>5 DEF Bp
  <2> DEFINE h == IF breakpoints[n].hits < less(n) THEN 0 ELSE breakpoints[n].hits - less(n)
             g == breakpoints[n].ignore + LetPass(hits, n) - LetPass(log, n)
  <2>5. h = counted[n].hits + Logged(log, n)
    BY <2>1, <2>2, <2>3
  <2>6. g = counted[n].ignore - LetPass(log, n)
    BY <2>1, <2>2, <2>3
  <2>7. h \in Nat
    BY <2>1, <2>3, <2>5
  <2>8. g \in Nat
    BY <2>1, <2>4
  <2>9. r.bps[n] = [breakpoints[n] EXCEPT !.hits = h, !.ignore = g]
    BY <1>3
  <2> HIDE DEF h, g
  <2>10. /\ r.bps[n] \in Bp /\ SameBreakpoint(r.bps[n], breakpoints[n])
         /\ r.bps[n].hits = h /\ r.bps[n].ignore = g
    BY <2>7, <2>8, <2>9, <1>5 DEF Bp, SameBreakpoint
  <2> QED BY <2>5, <2>6, <2>10
<1>7. DOMAIN r.bps = Set
  BY <1>3
<1>8. \A i \in 1..Len(log) : log[i].num < nextBp
  BY <1>1, <1>4
<1>9. Answer(r)
  BY <1>3, <1>4, <1>6, <1>7, <1>8 DEF Answer, Typed, Balanced
<1> QED
  BY <1>3, <1>9 DEF r, log

----------------------------------------------------------------------------
(* Step by step. *)

\* Where the state these speak of is as it was.
LEMMA CountSame ==
  ASSUME CountInv, UNCHANGED <<past, earliest, breakpoints, byAddr, nextBp, hits, counted>>
  PROVE  CountInv'
BY DEF CountInv, BpTypes, TypeOK, Conserved, Set, icount

\* A run that goes on or stops with what a hook answers.
LEMMA AnswerTaken ==
  ASSUME CountInv, NEW r, Answer(r), breakpoints' = r.bps, hits' \in Seq(HitEntry),
         \A i \in 1..Len(hits') : \E j \in 1..Len(r.hits) : hits'[i] = r.hits[j],
         Balanced(r.bps, hits', counted'), UNCHANGED <<byAddr, nextBp>>,
         counted' \in [Nums -> [hits : Nat, ignore : Int]],
         \A n \in Nums : n >= nextBp => counted'[n].hits = 0 /\ counted'[n].ignore = 0,
         past' \in Seq(State), past' # <<>>, earliest' \in 0..icount'
  PROVE  CountInv'
<1>1. Set' = Set /\ \A n \in Set : breakpoints'[n] \in Bp
  BY DEF Answer, Typed, Set
<1>2. TypeOK'
  <2>1. Set \subseteq 1..(nextBp - 1) /\ \A a \in Addrs : byAddr[a] # None => byAddr[a] \in Set
    BY DEF CountInv, BpTypes, TypeOK
  <2>2. hits' \in Seq([icount : Nat, num : Nums, ignored : BOOLEAN])
    BY DEF HitEntry
  <2> QED BY <1>1, <2>1, <2>2 DEF TypeOK, Bp
<1>3. \A i \in 1..Len(hits') : hits'[i].num < nextBp
  BY DEF Answer, Typed
<1>4. BpTypes'
  BY <1>2, <1>3 DEF CountInv, BpTypes, Nums
<1>5. Conserved'
  BY <1>1 DEF Conserved, Balanced, Answer, Typed
<1> QED
  BY <1>4, <1>5 DEF CountInv

\* A breakpoint that is new has counted nothing, whatever had its place before.
LEMMA NewBreakpoint ==
  ASSUME CountInv, NEW kind \in Kinds \cup {EXECUTE}, NEW at \in Addrs \cup Data \cup {None},
         kind = EXECUTE => at \in Addrs, NEW temporary \in BOOLEAN,
         nextBp <= MaxBps, nextBp' = nextBp + 1,
         breakpoints' = [n \in Set \cup {nextBp} |->
                           IF n = nextBp THEN Fresh(kind, at, temporary) ELSE breakpoints[n]],
         byAddr' = IF kind = EXECUTE THEN [byAddr EXCEPT ![at] = nextBp] ELSE byAddr,
         UNCHANGED <<past, earliest, hits, counted>>
  PROVE  CountInv'
<1> DEFINE bp == Fresh(kind, at, temporary)
<1>1. bp \in Bp /\ bp.hits = 0 /\ bp.ignore = 0
  <2>1. (IF kind = REGISTER THEN Reg[Now] ELSE None) \in {Reg[s] : s \in State} \cup {None}
    BY PastIs DEF CountInv
  <2> QED BY <2>1 DEF Fresh, Bp
<1> HIDE DEF bp
<1>2. Set' = Set \cup {nextBp} /\ breakpoints'[nextBp] = bp /\ nextBp \in Nums /\ nextBp \notin Set
      /\ \A n \in Set : breakpoints'[n] = breakpoints[n] /\ n \in Nums
  BY SetOfNums, Numbers DEF CountInv, BpTypes, Nums, Set, bp
<1>3. TypeOK'
  <2>1. Set' \subseteq 1..(nextBp' - 1)
    BY <1>2, Numbers DEF CountInv, BpTypes, TypeOK
  <2>2. \A n \in Set' : breakpoints'[n] \in Bp
    BY <1>1, <1>2 DEF CountInv, BpTypes, TypeOK
  <2>3. \A a \in Addrs : byAddr'[a] # None => byAddr'[a] \in Set'
    BY <1>2 DEF CountInv, BpTypes, TypeOK
  <2> QED BY <2>1, <2>2, <2>3 DEF CountInv, BpTypes, TypeOK, icount, Bp
<1>4. BpTypes'
  <2>1. nextBp' \in 1..(MaxBps + 1)
    BY Numbers DEF CountInv, BpTypes
  <2>2. byAddr' \in [Addrs -> Nums \cup {None}]
    BY <1>2 DEF CountInv, BpTypes
  <2>3. hits' = hits /\ counted' = counted /\ hits \in Seq(HitEntry)
    BY DEF CountInv, BpTypes, TypeOK, HitEntry
  <2>4. \A i \in 1..Len(hits) : hits[i].num < nextBp'
    <3> SUFFICES ASSUME NEW i \in 1..Len(hits) PROVE hits[i].num < nextBp'
      OBVIOUS
    <3>1. hits[i] \in HitEntry
      BY <2>3
    <3>2. hits[i].num \in Nat /\ nextBp \in Nat /\ hits[i].num < nextBp
      BY <3>1, <1>2 DEF HitEntry, Nums, CountInv, BpTypes
    <3> QED BY <3>2
  <2>5. \A n \in Nums : n >= nextBp' => counted[n].hits = 0 /\ counted[n].ignore = 0
    <3> SUFFICES ASSUME NEW n \in Nums, n >= nextBp'
                 PROVE  counted[n].hits = 0 /\ counted[n].ignore = 0
      OBVIOUS
    <3>1. n >= nextBp
      BY <1>2 DEF Nums
    <3> QED BY <3>1 DEF CountInv, BpTypes
  <2> QED BY <1>3, <2>1, <2>2, <2>3, <2>4, <2>5 DEF CountInv, BpTypes, Nums
<1>5. Logged(hits, nextBp) = 0 /\ LetPass(hits, nextBp) = 0
  <2>1. \A i \in 1..Len(hits) : hits[i].num # nextBp
    BY <1>2 DEF CountInv, BpTypes, Nums
  <2>2. {i \in DOMAIN hits : hits[i].num = nextBp} = {}
        /\ {i \in DOMAIN hits : hits[i].num = nextBp /\ hits[i].ignored} = {}
    BY <2>1 DEF CountInv, BpTypes, TypeOK
  <2> QED BY <2>2, FS_EmptySet DEF Logged, LetPass
<1>6. counted[nextBp].hits = 0 /\ counted[nextBp].ignore = 0
  BY <1>2 DEF CountInv, BpTypes, Nums
<1>7. Conserved'
  <2> SUFFICES ASSUME NEW n \in Set'
               PROVE  /\ breakpoints'[n].hits = counted[n].hits + Logged(hits, n)
                      /\ breakpoints'[n].ignore = counted[n].ignore - LetPass(hits, n)
    BY DEF Conserved
  <2>1. CASE n \in Set
    BY <2>1, <1>2 DEF CountInv, Conserved
  <2>2. CASE n = nextBp
    BY <2>2, <1>1, <1>2, <1>5, <1>6
  <2> QED BY <2>1, <2>2, <1>2
<1> QED
  BY <1>4, <1>7 DEF CountInv

LEMMA WithoutCounts ==
  ASSUME CountInv, NEW num, Without(num), UNCHANGED <<past, earliest, nextBp, hits, counted>>
  PROVE  CountInv'
<1>1. Set' = Set \ {num} /\ \A n \in Set' : breakpoints'[n] = breakpoints[n]
  BY DEF Without, Set
<1>2. \A a \in Addrs : byAddr'[a] = IF byAddr[a] = num THEN None ELSE byAddr[a]
  BY DEF Without
<1>3. byAddr' \in [Addrs -> Nums \cup {None}]
  BY DEF Without, CountInv, BpTypes
<1>4. TypeOK'
  BY <1>1, <1>2 DEF CountInv, BpTypes, TypeOK, icount, Bp
<1>5. BpTypes'
  BY <1>3, <1>4 DEF CountInv, BpTypes, Nums
<1>6. Conserved'
  BY <1>1 DEF CountInv, Conserved
<1> QED
  BY <1>5, <1>6 DEF CountInv

\* A breakpoint changed in what is not counted.
LEMMA ChangedCounts ==
  ASSUME CountInv, Set' = Set, \A n \in Set : breakpoints'[n] \in Bp
           /\ breakpoints'[n].hits = breakpoints[n].hits
           /\ breakpoints'[n].ignore = breakpoints[n].ignore,
         UNCHANGED <<past, earliest, byAddr, nextBp, hits, counted>>
  PROVE  CountInv'
<1>1. TypeOK'
  BY DEF CountInv, BpTypes, TypeOK, icount, Bp
<1>2. BpTypes'
  BY <1>1 DEF CountInv, BpTypes, Nums
<1>3. Conserved'
  BY DEF CountInv, Conserved
<1> QED
  BY <1>2, <1>3 DEF CountInv

LEMMA AddCounts == ASSUME CountInv, Add PROVE CountInv'
<1>1. UNCHANGED <<past, earliest>>
  BY DEF Add, Idle
<1>2. PICK kind \in Kinds \cup {EXECUTE}, at \in Addrs \cup Data \cup {None} :
        (kind = EXECUTE => at \in Addrs) /\ Extend(Fresh(kind, at, FALSE))
  <2>1. CASE \E a \in Addrs : Extend(Fresh(EXECUTE, a, FALSE))
    BY <2>1
  <2>2. CASE ACCESS \in Kinds /\ \E d \in Data : Extend(Fresh(ACCESS, d, FALSE))
    BY <2>2 DEF ACCESS, EXECUTE
  <2>3. CASE REGISTER \in Kinds /\ Extend(Fresh(REGISTER, None, FALSE))
    BY <2>3 DEF REGISTER, EXECUTE
  <2> QED BY <2>1, <2>2, <2>3 DEF Add
<1>3. Fresh(kind, at, FALSE).kind = kind /\ Fresh(kind, at, FALSE).at = at
  BY DEF Fresh
<1>4. /\ nextBp <= MaxBps /\ nextBp' = nextBp + 1
      /\ breakpoints' = [n \in Set \cup {nextBp} |->
                           IF n = nextBp THEN Fresh(kind, at, FALSE) ELSE breakpoints[n]]
      /\ byAddr' = IF kind = EXECUTE THEN [byAddr EXCEPT ![at] = nextBp] ELSE byAddr
      /\ UNCHANGED <<hits, counted>>
  BY <1>2, <1>3 DEF Extend
<1> QED
  BY <1>1, <1>2, <1>4, NewBreakpoint

LEMMA AdvanceCounts == ASSUME CountInv, NEW a \in Addrs, Advance(a) PROVE CountInv'
<1>1. /\ nextBp <= MaxBps /\ nextBp' = nextBp + 1
      /\ breakpoints' = [n \in Set \cup {nextBp} |->
                           IF n = nextBp THEN Fresh(EXECUTE, a, TRUE) ELSE breakpoints[n]]
      /\ byAddr' = [byAddr EXCEPT ![a] = nextBp]
      /\ UNCHANGED <<past, earliest, hits, counted>>
  BY DEF Advance, Started
<1> QED
  BY <1>1, NewBreakpoint

LEMMA SetIgnoreCounts ==
  ASSUME CountInv, NEW num \in Set, NEW g \in 0..MaxIgnore, SetIgnore(num, g) PROVE CountInv'
<1>1. /\ breakpoints' = [breakpoints EXCEPT ![num].ignore = g]
      /\ counted' = [counted EXCEPT ![num].ignore = g + LetPass(hits, num)]
      /\ UNCHANGED <<past, earliest, byAddr, nextBp, hits>>
  BY DEF SetIgnore, Idle
<1>2. g \in Nat /\ num \in Nums /\ num < nextBp /\ \A n \in Set : n \in Nums /\ breakpoints[n] \in Bp
  BY Numbers, SetOfNums DEF CountInv, BpTypes, TypeOK
<1>3. hits \in Seq(HitEntry)
  BY DEF CountInv, BpTypes, TypeOK, HitEntry
<1>4. LetPass(hits, num) \in Nat
  BY <1>2, <1>3, TalliesAre, TallyType
<1>5. Set' = Set
  BY <1>1 DEF Set
<1>6. \A n \in Set : /\ breakpoints'[n] \in Bp /\ breakpoints'[n].hits = breakpoints[n].hits
                     /\ n # num => breakpoints'[n].ignore = breakpoints[n].ignore
  BY <1>1, <1>2 DEF Bp, Set
<1>7. breakpoints'[num].ignore = g
  BY <1>1, <1>2 DEF Bp, Set
<1>8. /\ counted' \in [Nums -> [hits : Nat, ignore : Int]]
      /\ \A n \in Nums : /\ counted'[n].hits = counted[n].hits
                         /\ n # num => counted'[n].ignore = counted[n].ignore
      /\ counted'[num].ignore = g + LetPass(hits, num)
  <2>1. counted \in [Nums -> [hits : Nat, ignore : Int]]
    BY DEF CountInv, BpTypes
  <2>2. g + LetPass(hits, num) \in Int
    BY <1>2, <1>4
  <2> QED BY <2>1, <2>2, <1>1, <1>2
<1>9. TypeOK'
  BY <1>1, <1>5, <1>6 DEF CountInv, BpTypes, TypeOK, icount, Bp
<1>10. BpTypes'
  <2>1. \A n \in Nums : n >= nextBp => n # num
    <3>1. num \in Nat /\ nextBp \in Nat
      BY <1>2, Numbers DEF Nums, CountInv, BpTypes
    <3> QED BY <3>1, <1>2 DEF Nums
  <2>2. nextBp' = nextBp /\ hits' = hits /\ byAddr' = byAddr
    BY <1>1
  <2>3. \A n \in Nums : n >= nextBp => counted'[n].hits = 0 /\ counted'[n].ignore = 0
    BY <1>8, <2>1 DEF CountInv, BpTypes
  <2> QED BY <1>8, <1>9, <2>2, <2>3 DEF CountInv, BpTypes, Nums
<1>11. Conserved'
  <2> SUFFICES ASSUME NEW n \in Set
               PROVE  /\ breakpoints'[n].hits = counted'[n].hits + Logged(hits, n)
                      /\ breakpoints'[n].ignore = counted'[n].ignore - LetPass(hits, n)
    BY <1>1, <1>5 DEF Conserved
  <2>1. /\ breakpoints[n].hits = counted[n].hits + Logged(hits, n)
        /\ breakpoints[n].ignore = counted[n].ignore - LetPass(hits, n)
    BY DEF CountInv, Conserved
  <2>2. CASE n = num
    BY <2>1, <2>2, <1>2, <1>4, <1>6, <1>7, <1>8
  <2>3. CASE n # num
    BY <2>1, <2>3, <1>2, <1>6, <1>8
  <2> QED BY <2>2, <2>3
<1> QED
  BY <1>10, <1>11 DEF CountInv

LEMMA HaltCounts ==
  ASSUME CountInv, NEW r, Answer(r), NEW why, Halt(why, r), UNCHANGED <<byAddr, nextBp>>
  PROVE  CountInv'
<1>1. breakpoints' = r.bps /\ hits' = r.hits /\ UNCHANGED <<past, earliest, counted>>
  BY DEF Halt
<1>2. hits' \in Seq(HitEntry) /\ Balanced(r.bps, hits', counted')
  BY <1>1 DEF Answer, Typed
<1>3. past' \in Seq(State) /\ past' # <<>> /\ earliest' \in 0..icount'
  BY <1>1 DEF CountInv, BpTypes, TypeOK, icount
<1>4. counted' \in [Nums -> [hits : Nat, ignore : Int]]
      /\ \A n \in Nums : n >= nextBp => counted'[n].hits = 0 /\ counted'[n].ignore = 0
  BY <1>1 DEF CountInv, BpTypes
<1>5. \A i \in 1..Len(hits') : \E j \in 1..Len(r.hits) : hits'[i] = r.hits[j]
  BY <1>1
<1> QED
  BY <1>1, <1>2, <1>3, <1>4, <1>5, AnswerTaken

LEMMA RetireCounts ==
  ASSUME CountInv, NEW r, Answer(r), Retire(r), UNCHANGED <<byAddr, nextBp>>
  PROVE  CountInv'
<1>1. PICK oldest \in earliest..icount, m \in {r, Accesses(r)} :
        /\ earliest' = oldest /\ breakpoints' = m.bps /\ hits' = Forget(m.hits, oldest)
        /\ Settle(m.hits, oldest)
  BY DEF Retire
<1>2. Answer(m)
  BY AccessesAnswer
<1>3. oldest \in Nat /\ past \in Seq(State) /\ Step[Now] \in State /\ oldest <= icount /\ Len(past) \in Nat
  BY PastIs DEF CountInv
<1>4. past' = past \/ past' = Append(past, Step[Now])
  BY DEF Retire
<1>5. past' \in Seq(State) /\ past' # <<>> /\ earliest' \in 0..icount'
  <2>1. past' \in Seq(State) /\ Len(past') >= Len(past) /\ Len(past') \in Nat
    BY <1>3, <1>4
  <2>2. past' # <<>>
    BY <2>1, PastIs DEF CountInv
  <2> QED BY <2>1, <2>2, <1>1, <1>3 DEF icount
<1>6. m.hits \in Seq(HitEntry) /\ DOMAIN m.bps \subseteq Nums /\ Balanced(m.bps, m.hits, counted)
      /\ \A i \in 1..Len(m.hits) : m.hits[i].num < nextBp
  BY <1>2, SetOfNums DEF Answer, Typed, CountInv
<1>7. /\ Balanced(m.bps, Forget(m.hits, oldest), counted')
      /\ counted' \in [Nums -> [hits : Nat, ignore : Int]]
      /\ \A n \in Nums : n >= nextBp => counted'[n].hits = 0 /\ counted'[n].ignore = 0
      /\ Forget(m.hits, oldest) \in Seq(HitEntry)
      /\ \A i \in 1..Len(Forget(m.hits, oldest)) :
           \E j \in 1..Len(m.hits) : Forget(m.hits, oldest)[i] = m.hits[j]
  BY <1>1, <1>3, <1>6, SettleKeeps
<1> QED
  BY <1>1, <1>2, <1>5, <1>7, AnswerTaken

LEMMA HookCounts == ASSUME CountInv, Hook PROVE CountInv'
<1>1. Answer(AsIs) /\ Answer(Registers) /\ Answer(Execute(Registers))
  BY AsIsAnswer, RegistersAnswer, ExecuteAnswer
<1>2. UNCHANGED <<byAddr, nextBp>>
  BY DEF Hook
<1>3. PICK r \in {AsIs, Registers, Execute(Registers)} : Retire(r) \/ \E why : Halt(why, r)
  BY DEF Hook
<1> QED
  BY <1>1, <1>2, <1>3, HaltCounts, RetireCounts

\* Going back, with hits taken back, or counted where it arrives.
LEMMA RewindCounts ==
  ASSUME CountInv, NEW k \in earliest..icount, NEW r, Answer(r), Rewind(k, r)
  PROVE  CountInv'
<1>1. /\ past' = SubSeq(past, 1, k + 1) /\ hits' = r.hits
      /\ breakpoints' = [n \in Set |->
           [r.bps[n] EXCEPT !.previous = IF r.bps[n].kind = REGISTER THEN Reg[past[k + 1]] ELSE None]]
      /\ UNCHANGED <<earliest, byAddr, nextBp, counted>>
  BY DEF Rewind
<1>2. k \in Nat /\ k + 1 \in 1..Len(past) /\ past[k + 1] \in State /\ earliest <= k /\ earliest \in Nat
  BY PastIs DEF CountInv, icount
<1>3. Set' = Set
  BY <1>1 DEF Set
<1>4. \A n \in Set : r.bps[n] \in Bp
  BY DEF Answer, Typed
<1>5. \A n \in Set : /\ breakpoints'[n] \in Bp
                     /\ breakpoints'[n].hits = r.bps[n].hits
                     /\ breakpoints'[n].ignore = r.bps[n].ignore
  <2> SUFFICES ASSUME NEW n \in Set
               PROVE  /\ breakpoints'[n] \in Bp
                      /\ breakpoints'[n].hits = r.bps[n].hits
                      /\ breakpoints'[n].ignore = r.bps[n].ignore
    OBVIOUS
  <2>1. (IF r.bps[n].kind = REGISTER THEN Reg[past[k + 1]] ELSE None)
          \in {Reg[s] : s \in State} \cup {None}
    BY <1>2
  <2> QED BY <2>1, <1>1, <1>4 DEF Bp
<1>6. past' \in Seq(State) /\ Len(past') = k + 1
  BY <1>1, <1>2, PastIs DEF CountInv
<1>7. past' # <<>> /\ earliest' \in 0..icount'
  BY <1>1, <1>2, <1>6 DEF icount
<1>8. hits' \in Seq([icount : Nat, num : Nums, ignored : BOOLEAN])
      /\ \A i \in 1..Len(hits') : hits'[i].num < nextBp
  BY <1>1 DEF Answer, Typed, HitEntry
<1>9. TypeOK'
  BY <1>1, <1>3, <1>5, <1>6, <1>7, <1>8 DEF CountInv, BpTypes, TypeOK, Bp
<1>10. BpTypes'
  BY <1>1, <1>8, <1>9 DEF CountInv, BpTypes, Nums
<1>11. Conserved'
  BY <1>1, <1>3, <1>5 DEF Conserved, Answer, Balanced, Typed
<1> QED
  BY <1>10, <1>11 DEF CountInv

LEMMA NextCounts == ASSUME CountInv, [Next]_vars PROVE CountInv'
<1>1. CASE Add
  BY <1>1, AddCounts
<1>2. ASSUME NEW num \in Set, Delete(num) PROVE CountInv'
  BY <1>2, WithoutCounts DEF Delete, Idle
<1>3. ASSUME NEW num \in Set, Toggle(num) PROVE CountInv'
  <2>1. breakpoints' = [breakpoints EXCEPT ![num].enabled = ~@]
        /\ UNCHANGED <<past, earliest, byAddr, nextBp, hits, counted>>
    BY <1>3 DEF Toggle, Idle
  <2>2. Set' = Set /\ \A n \in Set : breakpoints[n] \in Bp
    BY <2>1 DEF Set, CountInv, BpTypes, TypeOK
  <2>3. \A n \in Set : breakpoints'[n] \in Bp /\ breakpoints'[n].hits = breakpoints[n].hits
                       /\ breakpoints'[n].ignore = breakpoints[n].ignore
    BY <2>1, <2>2 DEF Bp, Set
  <2> QED BY <2>1, <2>2, <2>3, ChangedCounts
<1>4. ASSUME NEW num \in Set, NEW cond \in Conds, SetCondition(num, cond) PROVE CountInv'
  <2>1. breakpoints' = [breakpoints EXCEPT ![num].cond = cond]
        /\ UNCHANGED <<past, earliest, byAddr, nextBp, hits, counted>>
    BY <1>4 DEF SetCondition, Idle
  <2>2. Set' = Set /\ \A n \in Set : breakpoints[n] \in Bp
    BY <2>1 DEF Set, CountInv, BpTypes, TypeOK
  <2>3. \A n \in Set : breakpoints'[n] \in Bp /\ breakpoints'[n].hits = breakpoints[n].hits
                       /\ breakpoints'[n].ignore = breakpoints[n].ignore
    BY <2>1, <2>2 DEF Bp, Set
  <2> QED BY <2>1, <2>2, <2>3, ChangedCounts
<1>5. ASSUME NEW num \in Set, NEW n \in 0..MaxIgnore, SetIgnore(num, n) PROVE CountInv'
  BY <1>5, SetIgnoreCounts
<1>6. CASE Run \/ StepOne
  BY <1>6, CountSame DEF Run, StepOne, Started
<1>7. ASSUME NEW a \in Addrs, Advance(a) PROVE CountInv'
  BY <1>7, AdvanceCounts
<1>8. CASE Hook
  BY <1>8, HookCounts
<1>9. CASE Return
  <2>1. UNCHANGED <<past, earliest, nextBp, hits, counted>>
        /\ (UNCHANGED <<breakpoints, byAddr>> \/ Without(event'.num))
    BY <1>9 DEF Return
  <2> QED BY <2>1, CountSame, WithoutCounts
<1>10. ASSUME NEW k \in 0..MaxICount, Goto(k) PROVE CountInv'
  <2>1. k \in Nat /\ k \in earliest..icount /\ Rewind(k, UndoHits(k))
    BY <1>10, PastIs, Numbers DEF Goto, Reversible, CountInv
  <2>2. Answer(UndoHits(k))
    BY <2>1, UndoKeeps
  <2> QED BY <2>1, <2>2, RewindCounts
<1>11. CASE UNCHANGED vars
  BY <1>11, CountSame DEF vars
<1> QED
  BY <1>1, <1>2, <1>3, <1>4, <1>5, <1>6, <1>7, <1>8, <1>9, <1>10, <1>11 DEF Next

LEMMA InitCounts == Init => CountInv
<1> SUFFICES ASSUME Init PROVE CountInv
  OBVIOUS
<1>1. PICK s \in State : past = <<s>>
  BY DEF Init
<1>2. past \in Seq(State) /\ Len(past) = 1 /\ past # <<>> /\ icount = 0
  BY <1>1 DEF icount
<1>3. Set = {}
  BY DEF Init, Set
<1>4. hits = <<>> /\ Len(hits) = 0 /\ nextBp = 1 /\ earliest = 0
      /\ byAddr = [a \in Addrs |-> None] /\ counted = [num \in Nums |-> [hits |-> 0, ignore |-> 0]]
  BY DEF Init
<1>5. TypeOK
  BY <1>2, <1>3, <1>4 DEF TypeOK
<1>6. BpTypes
  BY <1>4, <1>5, Numbers DEF BpTypes
<1> QED
  BY <1>3, <1>6 DEF CountInv, Conserved

\* Hits and ignore counts are neither lost nor made up (target.py, _triggers,
\* _undo_hits, _on_history_forgotten), whatever is set, deleted and met in
\* whatever order, and wherever the target goes back to.
THEOREM HitsConserved == Spec => []Conserved
<1>1. Init => CountInv
  BY InitCounts
<1>2. CountInv /\ [Next]_vars => CountInv'
  BY NextCounts
<1>3. CountInv => Conserved
  BY DEF CountInv
<1> QED
  BY <1>1, <1>2, <1>3, PTL DEF Spec

----------------------------------------------------------------------------
(* No hit lies ahead. *)

\* Instructions that fault touch nothing that is watched.
QuietFaults == ACCESS \notin Kinds \/ \A s \in Faulting : Touches[s] = {}

Behind(log, at) ==
  /\ \A i \in 1..Len(log) : log[i].icount <= at
  /\ \A i, j \in 1..Len(log) : i < j => log[i].icount <= log[j].icount

OrderInv == CountInv /\ Behind(hits, icount)

LEMMA EntryICount == ASSUME NEW log \in Seq(HitEntry), NEW i \in 1..Len(log) PROVE log[i].icount \in Nat
<1>1. log[i] \in HitEntry
  OBVIOUS
<1> QED BY <1>1 DEF HitEntry

LEMMA GrownBehind ==
  ASSUME NEW old \in Seq(HitEntry), NEW new \in Seq(HitEntry), NEW at \in Nat,
         Grown(new, old, at), Behind(old, at)
  PROVE  Behind(new, at)
<1>1. \A i \in 1..Len(new) : \/ i \in 1..Len(old) /\ new[i] = old[i] /\ old[i].icount <= at
                             \/ i > Len(old) /\ new[i].icount = at
  <2> SUFFICES ASSUME NEW i \in 1..Len(new), i \notin 1..Len(old)
               PROVE  i > Len(old) /\ new[i].icount = at
    BY DEF Grown, Behind
  <2>1. i \in (Len(old) + 1)..Len(new) /\ i > Len(old)
    BY DEF Grown
  <2> QED BY <2>1 DEF Grown
<1>2. \A i \in 1..Len(new) : new[i].icount <= at
  BY <1>1
<1>3. ASSUME NEW i \in 1..Len(new), NEW j \in 1..Len(new), i < j
      PROVE  new[i].icount <= new[j].icount
  <2>1. CASE j > Len(old) /\ new[j].icount = at
    BY <2>1, <1>2
  <2>2. CASE j \in 1..Len(old) /\ new[j] = old[j]
    <3>1. i \in 1..Len(old)
      BY <2>2, <1>3
    <3>2. new[i] = old[i]
      BY <3>1, <1>1
    <3> QED BY <2>2, <3>1, <3>2, <1>3 DEF Behind
  <2> QED BY <2>1, <2>2, <1>1
<1> QED
  BY <1>2, <1>3 DEF Behind

LEMMA BehindMore ==
  ASSUME NEW log \in Seq(HitEntry), NEW a \in Nat, NEW b \in Nat, a <= b, Behind(log, a)
  PROVE  Behind(log, b)
<1>1. \A i \in 1..Len(log) : log[i].icount <= b
  <2> SUFFICES ASSUME NEW i \in 1..Len(log) PROVE log[i].icount <= b
    OBVIOUS
  <2>1. log[i].icount <= a /\ log[i].icount \in Nat
    BY EntryICount DEF Behind
  <2> QED BY <2>1
<1> QED
  BY <1>1 DEF Behind

LEMMA CountBehind ==
  ASSUME CountInv, NEW r, Answer(r), NEW S \in SUBSET Set, NEW at \in Nat, Behind(r.hits, at)
  PROVE  Behind(Count(r, S, at).hits, at)
<1>1. /\ Grown(Count(r, S, at).hits, r.hits, at)
      /\ Count(r, S, at).hits \in Seq(HitEntry) /\ r.hits \in Seq(HitEntry)
  BY CountKeeps DEF CountInv, Answer, Typed
<1> QED
  BY <1>1, GrownBehind

LEMMA RegistersBehind == ASSUME OrderInv PROVE Behind(Registers.hits, icount)
<1>1. Changed \in SUBSET Set /\ icount \in Nat
  BY PastIs DEF Changed, Enabled, OrderInv, CountInv
<1>2. Answer(AsIs) /\ AsIs.hits = hits
  BY AsIsAnswer DEF OrderInv, AsIs
<1>3. Behind(Count(AsIs, Changed, icount).hits, icount)
  BY <1>1, <1>2, CountBehind DEF OrderInv
<1>4. Registers.hits = Count(AsIs, Changed, icount).hits
  BY RegistersAre DEF OrderInv
<1> QED
  BY <1>3, <1>4

LEMMA ExecuteBehind ==
  ASSUME OrderInv, NEW r, Answer(r), Behind(r.hits, icount)
  PROVE  Behind(Execute(r).hits, icount)
<1>1. {n \in Set : byAddr[PC[Now]] = n /\ r.bps[n].enabled} \in SUBSET Set /\ icount \in Nat
  BY PastIs DEF OrderInv, CountInv
<1> QED
  BY <1>1, CountBehind DEF Execute, OrderInv

LEMMA ForgetBehind ==
  ASSUME NEW log \in Seq(HitEntry), NEW oldest \in Nat, NEW at \in Nat, Behind(log, at)
  PROVE  Behind(Forget(log, oldest), at)
<1> DEFINE m == Reachable(log, oldest) - 1
           kept == SubSeq(log, m + 1, Len(log))
<1>1. m \in 0..Len(log) /\ Forget(log, oldest) = kept
  BY ReachableIs
<1> HIDE DEF m
<1>2. Len(kept) = Len(log) - m /\ \A i \in 1..(Len(log) - m) : kept[i] = log[m + i]
  BY <1>1, CutInTwo
<1> HIDE DEF kept
<1>3. \A i \in 1..Len(kept) : m + i \in 1..Len(log) /\ kept[i] = log[m + i]
  BY <1>1, <1>2
<1>4. \A i \in 1..Len(kept) : kept[i].icount <= at
  BY <1>3 DEF Behind
<1>5. \A i, j \in 1..Len(kept) : i < j => kept[i].icount <= kept[j].icount
  <2> SUFFICES ASSUME NEW i \in 1..Len(kept), NEW j \in 1..Len(kept), i < j
               PROVE  kept[i].icount <= kept[j].icount
    OBVIOUS
  <2>1. m + i < m + j
    BY <1>1
  <2> QED BY <2>1, <1>3 DEF Behind
<1>6. Behind(kept, at)
  BY <1>4, <1>5 DEF Behind
<1> QED
  BY <1>1, <1>6

\* In a log in order, what is not after k is what a rewind to k leaves.
LEMMA UndoneBehind ==
  ASSUME NEW log \in Seq(HitEntry), NEW at \in Nat, Behind(log, at), NEW k \in Nat
  PROVE  Behind(Undone(log, k), k)
<1>1. PICK m \in 0..Len(log) : Undone(log, k) = SubSeq(log, 1, m) /\ (m > 0 => log[m].icount <= k)
  BY UndoneIs
<1> DEFINE u == Undone(log, k)
<1>2. Len(u) = m /\ \A i \in 1..m : u[i] = log[i] /\ i \in 1..Len(log)
  BY <1>1, CutInTwo
<1> HIDE DEF u
<1>3. ASSUME NEW i \in 1..m PROVE u[i].icount <= k
  <2>1. m \in 1..Len(log) /\ i \in 1..Len(log) /\ log[m].icount <= k /\ i <= m
    BY <1>1
  <2>2. log[i].icount <= log[m].icount
    <3>1. CASE i = m
      <4>1. log[i].icount \in Nat
        BY <2>1, EntryICount
      <4> QED BY <3>1, <4>1
    <3>2. CASE i < m
      BY <3>2, <2>1 DEF Behind
    <3> QED BY <3>1, <3>2, <2>1
  <2>3. log[i].icount \in Nat /\ log[m].icount \in Nat
    BY <2>1, EntryICount
  <2> QED BY <2>1, <2>2, <2>3, <1>2
<1>4. \A i, j \in 1..m : i < j => u[i].icount <= u[j].icount
  BY <1>2 DEF Behind
<1>5. Behind(u, k)
  BY <1>2, <1>3, <1>4 DEF Behind
<1> QED
  BY <1>5 DEF u

\* An instruction that faults is not counted, so its accesses must not be.
LEMMA AccessesBehind ==
  ASSUME QuietFaults, OrderInv, NEW r, Answer(r), Behind(r.hits, icount)
  PROVE  /\ Behind(Accesses(r).hits, icount + 1)
         /\ Now \in Faulting => Behind(Accesses(r).hits, icount)
<1> DEFINE S == {n \in Enabled(ACCESS) : breakpoints[n].at \in Touches[Now]}
<1>1. S \in SUBSET Set /\ icount \in Nat /\ icount + 1 \in Nat /\ r.hits \in Seq(HitEntry) /\ icount <= icount + 1
  BY PastIs DEF OrderInv, CountInv, Enabled, Answer, Typed
<1>2. Behind(r.hits, icount + 1)
  BY <1>1, BehindMore
<1>3. Accesses(r) = Count(r, S, icount + 1)
  BY DEF Accesses
<1>4. Now \in Faulting => S = {}
  <2>1. \A n \in Set : breakpoints[n].kind \in Kinds \cup {EXECUTE}
    BY DEF OrderInv, CountInv, BpTypes, TypeOK, Bp
  <2>2. ACCESS # EXECUTE
    BY DEF ACCESS, EXECUTE
  <2> QED BY <2>1, <2>2 DEF QuietFaults, Enabled
<1> HIDE DEF S
<1>5. Behind(Accesses(r).hits, icount + 1)
  BY <1>1, <1>2, <1>3, CountBehind DEF OrderInv
<1>6. ASSUME S = {} PROVE Behind(Accesses(r).hits, icount)
  <2>1. Len(Accesses(r).hits) = Len(r.hits) /\ Grown(Accesses(r).hits, r.hits, icount + 1)
    <3>1. BpTypes /\ Typed(r)
      BY DEF OrderInv, CountInv, Answer
    <3>2. Len(Count(r, S, icount + 1).hits) = Len(r.hits) /\ Grown(Count(r, S, icount + 1).hits, r.hits, icount + 1)
      BY <3>1, <1>1, <1>6, CountKeeps
    <3> QED BY <3>2, <1>3
  <2>2. \A i \in 1..Len(r.hits) : Accesses(r).hits[i] = r.hits[i]
    BY <2>1 DEF Grown
  <2> QED BY <2>1, <2>2 DEF Behind
<1> QED
  BY <1>4, <1>5, <1>6

LEMMA RetireBehind ==
  ASSUME QuietFaults, OrderInv, NEW r, Answer(r), Behind(r.hits, icount), Retire(r)
  PROVE  Behind(hits', icount')
<1>1. PICK oldest \in earliest..icount, m \in {r, Accesses(r)} :
        (Now \notin Faulting => m = Accesses(r)) /\ hits' = Forget(m.hits, oldest)
  BY DEF Retire
<1>2. m.hits \in Seq(HitEntry) /\ oldest \in Nat /\ icount \in Nat /\ icount + 1 \in Nat
  BY AccessesAnswer, PastIs DEF OrderInv, CountInv, Answer, Typed
<1>3. CASE Now \in Faulting
  <2>1. icount' = icount
    BY <1>3 DEF Retire, icount
  <2>2. Behind(m.hits, icount)
    BY <1>3, AccessesBehind
  <2> QED BY <2>1, <2>2, <1>1, <1>2, ForgetBehind
<1>4. CASE Now \notin Faulting
  <2>1. icount' = icount + 1
    BY <1>4, PastIs DEF Retire, icount, OrderInv, CountInv
  <2>2. Behind(m.hits, icount + 1)
    BY <1>1, <1>4, AccessesBehind
  <2> QED BY <2>1, <2>2, <1>1, <1>2, ForgetBehind
<1> QED
  BY <1>3, <1>4

LEMMA HookBehind == ASSUME QuietFaults, OrderInv, Hook PROVE Behind(hits', icount')
<1>1. Answer(AsIs) /\ Answer(Registers) /\ Answer(Execute(Registers))
  BY AsIsAnswer, RegistersAnswer, ExecuteAnswer DEF OrderInv
<1>2. Behind(AsIs.hits, icount) /\ Behind(Registers.hits, icount) /\ Behind(Execute(Registers).hits, icount)
  BY <1>1, RegistersBehind, ExecuteBehind DEF OrderInv, AsIs
<1>3. PICK r \in {AsIs, Registers, Execute(Registers)} : Retire(r) \/ \E why : Halt(why, r)
  BY DEF Hook
<1>4. CASE Retire(r)
  BY <1>1, <1>2, <1>3, <1>4, RetireBehind
<1>5. CASE \E why : Halt(why, r)
  BY <1>2, <1>3, <1>5 DEF Halt, icount
<1> QED
  BY <1>3, <1>4, <1>5

LEMMA NextBehind == ASSUME QuietFaults, OrderInv, [Next]_vars PROVE OrderInv'
<1>1. CountInv'
  BY NextCounts DEF OrderInv
<1>2. CASE Hook
  BY <1>1, <1>2, HookBehind DEF OrderInv
<1>3. ASSUME NEW k \in 0..MaxICount, Goto(k) PROVE OrderInv'
  <2>1. /\ k \in Nat /\ icount \in Nat /\ k + 1 \in 1..Len(past) /\ past \in Seq(State)
        /\ past' = SubSeq(past, 1, k + 1) /\ hits' = Undone(hits, k)
    BY <1>3, PastIs, UndoKeeps, Numbers DEF Goto, Reversible, Rewind, OrderInv, CountInv, icount
  <2>2. icount' = k
    BY <2>1 DEF icount
  <2>3. hits \in Seq(HitEntry)
    BY DEF OrderInv, CountInv, BpTypes, TypeOK, HitEntry
  <2>4. Behind(hits', k)
    BY <2>1, <2>3, UndoneBehind DEF OrderInv
  <2> QED BY <2>2, <2>4, <1>1 DEF OrderInv
<1>4. CASE UNCHANGED <<past, hits>>
  BY <1>1, <1>4 DEF OrderInv, icount
<1>5. Add \/ (\E num \in Set : Delete(num) \/ Toggle(num))
        \/ (\E num \in Set, cond \in Conds : SetCondition(num, cond))
        \/ (\E num \in Set, n \in 0..MaxIgnore : SetIgnore(num, n))
      => UNCHANGED <<past, hits>>
  BY DEF Add, Extend, Delete, Toggle, SetCondition, SetIgnore, Idle
<1>6. Run \/ StepOne \/ (\E a \in Addrs : Advance(a)) \/ Return \/ UNCHANGED vars => UNCHANGED <<past, hits>>
  BY DEF Run, StepOne, Advance, Started, Return, vars
<1> QED
  BY <1>2, <1>3, <1>4, <1>5, <1>6 DEF Next

\* A hit count means how often a breakpoint fired at or before where the
\* target is (target.py, Hit and _undo_hits): where no instruction that faults
\* touches what is watched, no hit lies ahead and the log is in order, which
\* taking hits off its end relies on.
THEOREM NoHitAhead == ASSUME QuietFaults PROVE Spec => []HitsBehind
<1>1. Init => OrderInv
  <2> SUFFICES ASSUME Init PROVE OrderInv
    OBVIOUS
  <2>1. hits = <<>> /\ Len(hits) = 0
    BY DEF Init
  <2> QED BY <2>1, InitCounts DEF OrderInv, Behind
<1>2. OrderInv /\ [Next]_vars => OrderInv'
  BY NextBehind
<1>3. OrderInv => HitsBehind
  <2>1. CountInv => DOMAIN hits = 1..Len(hits)
    BY DEF CountInv, BpTypes, TypeOK
  <2> QED BY <2>1 DEF OrderInv, Behind, HitsBehind
<1> QED
  BY <1>1, <1>2, <1>3, PTL DEF Spec

----------------------------------------------------------------------------
(* Where a run may not pass. *)

\* Every execute breakpoint is the one its address is looked up to.
AddrInv ==
  \A n \in Set : breakpoints[n].kind = EXECUTE
                   => breakpoints[n].at \in Addrs /\ byAddr[breakpoints[n].at] = n

\* Those not asked stay as they are.
LEMMA CountOthers ==
  ASSUME NEW r, DOMAIN r.bps = Set, NEW S \in SUBSET Set, NEW at, NEW n \in Set, n \notin S
  PROVE  Count(r, S, at).bps[n] = r.bps[n]
BY DEF Count, Met

LEMMA ExecuteUnchanged ==
  ASSUME CountInv, NEW n \in Set, breakpoints[n].kind = EXECUTE
  PROVE  Registers.bps[n] = breakpoints[n]
<1>1. n \notin Changed /\ Changed \in SUBSET Set
  BY DEF Changed, Enabled, EXECUTE, REGISTER
<1>2. AsIs.bps = breakpoints
  BY DEF AsIs
<1>3. Count(AsIs, Changed, icount).bps[n] = breakpoints[n]
  BY <1>1, <1>2, CountOthers DEF Set
<1>4. n \notin Met(AsIs, Changed)
  BY <1>1 DEF Met
<1> QED
  BY <1>3, <1>4, RegistersAre

\* Only an instruction of the program makes the past longer.
LEMMA OnlyHookRetires ==
  ASSUME CountInv, Next, Retires
  PROVE  /\ Hook /\ pending = None /\ Registers.fired = None
         /\ first \/ /\ PC[Now] \notin Exits /\ Execute(Registers).fired = None
<1>1. Len(past) \in Nat /\ Len(past') = Len(past) + 1
  BY PastIs DEF Retires, CountInv
<1>2. past' # past
  BY <1>1
<1>3. ~Add /\ (\A num \in Set : ~Delete(num) /\ ~Toggle(num))
        /\ (\A num \in Set, cond \in Conds : ~SetCondition(num, cond))
        /\ (\A num \in Set, n \in 0..MaxIgnore : ~SetIgnore(num, n))
  BY <1>2 DEF Add, Extend, Delete, Toggle, SetCondition, SetIgnore, Idle
<1>4. ~Run /\ ~StepOne /\ (\A a \in Addrs : ~Advance(a)) /\ ~Return
  BY <1>2 DEF Run, StepOne, Advance, Started, Return
<1>5. ASSUME NEW k \in 0..MaxICount, Goto(k) PROVE FALSE
  <2>1. /\ k \in Nat /\ k + 1 \in 1..Len(past) /\ past \in Seq(State)
        /\ past' = SubSeq(past, 1, k + 1)
    BY <1>5, PastIs, Numbers DEF Goto, Reversible, Rewind, CountInv, icount
  <2>2. Len(past') = k + 1
    BY <2>1
  <2> QED BY <1>1, <2>1, <2>2
<1>6. Hook
  BY <1>3, <1>4, <1>5 DEF Next
<1>7. \A why, r : ~Halt(why, r)
  BY <1>2 DEF Halt
<1> QED
  BY <1>6, <1>7 DEF Hook

LEMMA NextAddr == ASSUME ~Advancing, CountInv, AddrInv, [Next]_vars PROVE AddrInv'
<1>1. ASSUME Set' = Set, byAddr' = byAddr,
             \A n \in Set : breakpoints'[n].kind = breakpoints[n].kind
                            /\ breakpoints'[n].at = breakpoints[n].at
      PROVE  AddrInv'
  BY <1>1 DEF AddrInv
<1>2. ASSUME UNCHANGED <<breakpoints, byAddr>> PROVE AddrInv'
  BY <1>2 DEF AddrInv, Set
<1>3. ASSUME NEW num, Without(num) PROVE AddrInv'
  <2>1. Set' = Set \ {num} /\ \A n \in Set' : breakpoints'[n] = breakpoints[n]
    BY <1>3 DEF Without, Set
  <2>2. \A a \in Addrs : byAddr[a] # num => byAddr'[a] = byAddr[a]
    BY <1>3 DEF Without
  <2> QED BY <2>1, <2>2 DEF AddrInv
<1>4. CASE Add
  <2>1. CASE \E a \in Addrs :
               /\ \A n \in Set : breakpoints[n].kind = EXECUTE => breakpoints[n].at # a
               /\ Extend(Fresh(EXECUTE, a, FALSE))
    <3>1. PICK a \in Addrs :
            /\ \A n \in Set : breakpoints[n].kind = EXECUTE => breakpoints[n].at # a
            /\ Extend(Fresh(EXECUTE, a, FALSE))
      BY <2>1
    <3>2. Fresh(EXECUTE, a, FALSE).kind = EXECUTE /\ Fresh(EXECUTE, a, FALSE).at = a
      BY DEF Fresh
    <3>3. byAddr' = [byAddr EXCEPT ![a] = nextBp] /\ byAddr \in [Addrs -> Nums \cup {None}]
      BY <3>1, <3>2 DEF Extend, CountInv, BpTypes
    <3>4. Set' = Set \cup {nextBp} /\ breakpoints'[nextBp] = Fresh(EXECUTE, a, FALSE)
          /\ \A n \in Set : n # nextBp => breakpoints'[n] = breakpoints[n]
      BY <3>1 DEF Extend, Set
    <3>5. byAddr'[a] = nextBp /\ \A b \in Addrs : b # a => byAddr'[b] = byAddr[b]
      BY <3>3
    <3>6. nextBp \notin Set /\ \A n \in Set : n # nextBp
      BY SetOfNums, <3>1 DEF CountInv, BpTypes, Extend, Nums
    <3>7. ASSUME NEW n \in Set', breakpoints'[n].kind = EXECUTE
          PROVE  breakpoints'[n].at \in Addrs /\ byAddr'[breakpoints'[n].at] = n
      <4>1. CASE n = nextBp
        BY <4>1, <3>2, <3>4, <3>5
      <4>2. CASE n \in Set
        <5>1. breakpoints'[n] = breakpoints[n]
          BY <4>2, <3>4, <3>6
        <5>2. breakpoints[n].at # a /\ byAddr[breakpoints[n].at] = n /\ breakpoints[n].at \in Addrs
          BY <4>2, <5>1, <3>7, <3>1 DEF AddrInv
        <5> QED BY <5>1, <5>2, <3>5
      <4> QED BY <4>1, <4>2, <3>4
    <3> QED BY <3>7 DEF AddrInv
  <2>2. CASE \E kind \in {ACCESS, REGISTER} : \E at : Extend(Fresh(kind, at, FALSE))
    <3>0. PICK kind \in {ACCESS, REGISTER} : \E at : Extend(Fresh(kind, at, FALSE))
      BY <2>2
    <3>1. PICK at : Extend(Fresh(kind, at, FALSE))
      BY <3>0
    <3>2. Fresh(kind, at, FALSE).kind # EXECUTE
      BY DEF Fresh, ACCESS, REGISTER, EXECUTE
    <3>3. Set' = Set \cup {nextBp} /\ breakpoints'[nextBp] = Fresh(kind, at, FALSE)
          /\ (\A n \in Set : n # nextBp => breakpoints'[n] = breakpoints[n]) /\ byAddr' = byAddr
      BY <3>1, <3>2 DEF Extend, Set
    <3> QED BY <3>2, <3>3 DEF AddrInv
  <2> QED BY <1>4, <2>1, <2>2 DEF Add
<1>5. ASSUME NEW num \in Set, Delete(num) PROVE AddrInv'
  BY <1>5, <1>3 DEF Delete
<1>6. \A n \in Set : breakpoints[n] \in Bp
  BY DEF CountInv, BpTypes, TypeOK
<1>7. ASSUME NEW num \in Set, \/ Toggle(num) \/ \E cond \in Conds : SetCondition(num, cond)
                              \/ \E n \in 0..MaxIgnore : SetIgnore(num, n)
      PROVE  AddrInv'
  <2>1. byAddr' = byAddr /\ \/ \E x : breakpoints' = [breakpoints EXCEPT ![num].enabled = x]
                            \/ \E x : breakpoints' = [breakpoints EXCEPT ![num].cond = x]
                            \/ \E x : breakpoints' = [breakpoints EXCEPT ![num].ignore = x]
    BY <1>7 DEF Toggle, SetCondition, SetIgnore
  <2>2. Set' = Set /\ \A n \in Set : breakpoints'[n].kind = breakpoints[n].kind
                                     /\ breakpoints'[n].at = breakpoints[n].at
    BY <2>1, <1>6 DEF Set, Bp
  <2> QED BY <2>1, <2>2, <1>1
<1>8. CASE Run \/ StepOne
  BY <1>2, <1>8 DEF Run, StepOne
<1>9. ASSUME NEW a \in Addrs, Advance(a) PROVE AddrInv'
  BY <1>9 DEF Advance
<1>10. CASE Hook
  <2>1. \A r : Answer(r) => Answer(Accesses(r))
    BY AccessesAnswer
  <2>2. Answer(AsIs) /\ Answer(Registers) /\ Answer(Execute(Registers))
    BY AsIsAnswer, RegistersAnswer, ExecuteAnswer
  <2>3. PICK r \in {AsIs, Registers, Execute(Registers)} : Retire(r) \/ \E why : Halt(why, r)
    BY <1>10 DEF Hook
  <2>4. \E m : Answer(m) /\ breakpoints' = m.bps
    BY <2>1, <2>2, <2>3 DEF Retire, Halt
  <2>5. Set' = Set /\ \A n \in Set : breakpoints'[n].kind = breakpoints[n].kind
                                     /\ breakpoints'[n].at = breakpoints[n].at
    BY <2>4 DEF Answer, Typed, SameBreakpoint, Set
  <2> QED BY <2>5, <1>1, <1>10 DEF Hook
<1>11. CASE Return
  BY <1>2, <1>3, <1>11 DEF Return
<1>12. ASSUME NEW k \in 0..MaxICount, Goto(k) PROVE AddrInv'
  <2> DEFINE r == UndoHits(k)
  <2>1. k \in Nat /\ Rewind(k, r)
    BY <1>12, Numbers DEF Goto
  <2>2. Answer(r)
    BY <2>1, UndoKeeps
  <2> HIDE DEF r
  <2>3. Set' = Set /\ byAddr' = byAddr
    BY <2>1 DEF Rewind, Set
  <2>4. \A n \in Set : breakpoints'[n].kind = r.bps[n].kind /\ breakpoints'[n].at = r.bps[n].at
    BY <2>1, <2>2 DEF Rewind, Answer, Typed, Bp
  <2> QED BY <2>2, <2>3, <2>4, <1>1 DEF Answer, SameBreakpoint
<1>13. CASE UNCHANGED vars
  BY <1>2, <1>13 DEF vars
<1> QED
  BY <1>4, <1>5, <1>7, <1>8, <1>9, <1>10, <1>11, <1>12, <1>13 DEF Next

\* A run never gets past an enabled breakpoint whose condition holds, but for
\* the instruction it starts at and the hits it was told to ignore (target.py,
\* _on_code), when no temporary breakpoint takes a lasting one's address.
THEOREM NeverRunPast == ASSUME ~Advancing PROVE Spec => StopsAtEnabled
<1> DEFINE Stops ==
      Retires /\ ~first =>
        \A num \in Set : LET b == breakpoints[num] IN
          b.kind = EXECUTE /\ b.enabled /\ b.at = PC[Now] /\ Now \in b.cond => b.ignore > 0
<1>1. Init => CountInv /\ AddrInv
  BY InitCounts DEF Init, AddrInv, Set
<1>2. CountInv /\ AddrInv /\ [Next]_vars => (CountInv /\ AddrInv)'
  BY NextCounts, NextAddr
<1>3. CountInv /\ AddrInv /\ [Next]_vars => [Stops]_vars
  <2> SUFFICES ASSUME CountInv, AddrInv, Next, Retires, ~first, NEW num \in Set,
                      breakpoints[num].kind = EXECUTE, breakpoints[num].enabled,
                      breakpoints[num].at = PC[Now], Now \in breakpoints[num].cond
               PROVE  breakpoints[num].ignore > 0
    OBVIOUS
  <2> DEFINE here == {n \in Set : byAddr[PC[Now]] = n /\ Registers.bps[n].enabled}
  <2>1. Execute(Registers).fired = None
    BY OnlyHookRetires
  <2>2. Registers.bps[num] = breakpoints[num]
    BY ExecuteUnchanged
  <2>3. num \in here
    BY <2>2 DEF AddrInv
  <2>4. Fires(Registers, here) = {}
    <3>1. BpTypes /\ Typed(Registers) /\ here \in SUBSET Set
      BY RegistersAnswer DEF CountInv, Answer
    <3>2. Count(Registers, here, icount).fired = None
      BY <2>1 DEF Execute
    <3> HIDE DEF here
    <3> QED BY <3>1, <3>2, WhoFires
  <2>5. breakpoints[num].ignore # 0
    BY <2>2, <2>3, <2>4 DEF Fires
  <2>6. breakpoints[num].ignore \in Nat
    BY DEF CountInv, BpTypes, TypeOK, Bp
  <2> QED BY <2>5, <2>6
<1> QED
  BY <1>1, <1>2, <1>3, PTL DEF Spec, StopsAtEnabled

----------------------------------------------------------------------------
(* The end. *)

\* With nothing but execute breakpoints, no watch hides the end: what is at an
\* end address is the newest state, if any, and the run that arrived there has
\* not stopped for another reason.
Arrived ==
  PC[Now] \in Exits =>
    IF running THEN ~first /\ (stop = None \/ stop.reason = "exit") ELSE terminated

EndInv ==
  /\ \A i \in 1..(Len(past) - 1) : PC[past[i]] \notin Exits
  /\ pending = None
  /\ running /\ ~halted => stop = None
  /\ Arrived

LEMMA NoWatch ==
  ASSUME CountInv, Kinds \subseteq {EXECUTE}, NEW r, Answer(r)
  PROVE  Registers.fired = None /\ Accesses(r).fired = None
<1>1. \A n \in Set : breakpoints[n].kind = EXECUTE
  BY DEF CountInv, BpTypes, TypeOK, Bp
<1>2. Changed = {} /\ {n \in Enabled(ACCESS) : breakpoints[n].at \in Touches[Now]} = {}
  BY <1>1 DEF Changed, Enabled, EXECUTE, ACCESS, REGISTER
<1>3. \A q, at : Count(q, {}, at).fired = None
  BY DEF Count, Fires
<1>4. Count(AsIs, Changed, icount).fired = None /\ Accesses(r).fired = None
  BY <1>2, <1>3 DEF Accesses
<1> QED
  BY <1>4, RegistersAre

LEMMA EndSame ==
  ASSUME EndInv, UNCHANGED <<past, control, terminated>> PROVE EndInv'
BY DEF EndInv, Arrived, Now, control

LEMMA StartedEnd ==
  ASSUME CountInv, EndInv, NEW count, Started(count) PROVE EndInv'
<1>1. past' = past /\ Now' = Now /\ PC[Now] \notin Exits
  BY DEF Started, EndInv, Arrived, Now
<1>2. pending' = None /\ stop' = None
  BY DEF Started
<1> QED
  BY <1>1, <1>2 DEF EndInv, Arrived

LEMMA RetireEnd ==
  ASSUME CountInv, EndInv, Kinds \subseteq {EXECUTE}, NEW r, Answer(r), r.fired = None, Retire(r),
         running, running' = running, ~halted, PC[Now] \notin Exits
  PROVE  EndInv'
<1>1. pending' = None
  BY NoWatch DEF Retire
<1>2. CASE Now \in Faulting
  <2>1. past' = past /\ Now' = Now /\ halted' = TRUE
    BY <1>2 DEF Retire, Now
  <2> QED BY <1>1, <2>1 DEF EndInv, Arrived
<1>3. CASE Now \notin Faulting
  <2>1. past' = Append(past, Step[Now]) /\ halted' = halted /\ stop' = stop /\ first' = FALSE
    BY <1>3 DEF Retire
  <2>2. past \in Seq(State) /\ Len(past) \in Nat \ {0} /\ Step[Now] \in State
    BY PastIs DEF CountInv
  <2>3. Len(past') - 1 = Len(past) /\ \A i \in 1..Len(past) : past'[i] = past[i]
    BY <2>1, <2>2
  <2>4. \A i \in 1..Len(past) : i \in 1..(Len(past) - 1) \/ i = Len(past)
    BY <2>2
  <2>5. \A i \in 1..(Len(past') - 1) : PC[past'[i]] \notin Exits
    BY <2>3, <2>4 DEF EndInv, Now
  <2>6. stop' = None
    BY <2>1 DEF EndInv
  <2> QED BY <1>1, <2>1, <2>5, <2>6 DEF EndInv, Arrived
<1> QED
  BY <1>2, <1>3

LEMMA HookEnd ==
  ASSUME CountInv, EndInv, Kinds \subseteq {EXECUTE}, Hook PROVE EndInv'
<1>1. Answer(Registers) /\ Answer(Execute(Registers)) /\ Registers.fired = None /\ pending = None
  BY RegistersAnswer, ExecuteAnswer, NoWatch DEF EndInv
<1>2. running /\ ~halted /\ running' = running
  BY DEF Hook
<1>3. ASSUME NEW why, NEW r, Halt(why, r), PC[Now] \in Exits => ~first /\ why.reason = "exit"
      PROVE  EndInv'
  <2>1. past' = past /\ Now' = Now /\ first' = first /\ halted' = TRUE /\ stop' = why /\ pending' = None
    BY <1>3 DEF Halt, Now
  <2> QED BY <1>2, <1>3, <2>1 DEF EndInv, Arrived
<1>4. ASSUME first, Retire(Registers) PROVE EndInv'
  <2>1. PC[Now] \notin Exits
    BY <1>2, <1>4 DEF EndInv, Arrived
  <2> QED BY <1>1, <1>2, <1>4, <2>1, RetireEnd
<1>5. ASSUME PC[Now] \notin Exits, Execute(Registers).fired = None, Retire(Execute(Registers))
      PROVE  EndInv'
  BY <1>1, <1>2, <1>5, RetireEnd
<1>6. ASSUME PC[Now] \in Exits, ~first, Halt(Why("exit", None), Registers) PROVE EndInv'
  BY <1>3, <1>6 DEF Why
<1>7. ASSUME PC[Now] \notin Exits, NEW why, NEW r, Halt(why, r) PROVE EndInv'
  BY <1>3, <1>7
<1> QED
  BY <1>1, <1>4, <1>5, <1>6, <1>7 DEF Hook

LEMMA ReturnEnd == ASSUME EndInv, Return PROVE EndInv'
<1>1. past' = past /\ Now' = Now /\ ~running' /\ pending' = None
  BY DEF Return, Now
<1>2. ASSUME PC[Now] \in Exits PROVE terminated'
  <2>1. stop = None \/ stop.reason = "exit"
    BY <1>2 DEF Return, EndInv, Arrived
  <2>2. Verdict.reason = "exit"
    BY <2>1, <1>2 DEF Verdict, EndInv, Why
  <2> QED BY <2>2 DEF Return
<1> QED
  BY <1>1, <1>2 DEF EndInv, Arrived

LEMMA GotoEnd ==
  ASSUME CountInv, EndInv, NEW k \in 0..MaxICount, Goto(k) PROVE EndInv'
<1>1. /\ k \in Nat /\ k + 1 \in 1..Len(past) /\ past \in Seq(State) /\ Len(past) \in Nat
      /\ past' = SubSeq(past, 1, k + 1)
  BY PastIs, Numbers DEF Goto, Reversible, Rewind, CountInv, icount
<1>2. Len(past') = k + 1 /\ \A i \in 1..(k + 1) : past'[i] = past[i]
  BY <1>1
<1>3. Now' = past[k + 1]
  BY <1>1, <1>2 DEF Now
<1>4. ~running /\ ~running' /\ pending' = None /\ terminated' = (terminated /\ k = icount)
  BY DEF Goto, Reversible, Rewind, Terminated
<1>5. \A i \in 1..(Len(past') - 1) : PC[past'[i]] \notin Exits
  <2>1. \A i \in 1..k : i \in 1..(k + 1) /\ i \in 1..(Len(past) - 1)
    BY <1>1
  <2> QED BY <1>1, <1>2, <2>1 DEF EndInv
<1>6. PC[Now'] \in Exits => terminated'
  <2>1. CASE k = icount
    <3>1. past[k + 1] = Now
      BY <1>1, <2>1 DEF Now, icount
    <3> QED BY <1>3, <1>4, <2>1, <3>1 DEF EndInv, Arrived
  <2>2. CASE k # icount
    <3>1. k + 1 \in 1..(Len(past) - 1)
      BY <1>1, <2>2 DEF icount
    <3> QED BY <1>3, <3>1 DEF EndInv
  <2> QED BY <2>1, <2>2
<1> QED
  BY <1>4, <1>5, <1>6 DEF EndInv, Arrived

LEMMA NextEnd ==
  ASSUME CountInv, EndInv, Kinds \subseteq {EXECUTE}, [Next]_vars PROVE EndInv'
<1>1. CASE Add
  BY <1>1, EndSame DEF Add, Idle
<1>2. ASSUME NEW num \in Set, \/ Delete(num) \/ Toggle(num)
                              \/ \E cond \in Conds : SetCondition(num, cond)
                              \/ \E n \in 0..MaxIgnore : SetIgnore(num, n)
      PROVE  EndInv'
  BY <1>2, EndSame DEF Delete, Toggle, SetCondition, SetIgnore, Idle
<1>3. CASE Run \/ StepOne
  BY <1>3, StartedEnd DEF Run, StepOne
<1>4. ASSUME NEW a \in Addrs, Advance(a) PROVE EndInv'
  BY <1>4, StartedEnd DEF Advance
<1>5. CASE Hook
  BY <1>5, HookEnd
<1>6. CASE Return
  BY <1>6, ReturnEnd
<1>7. ASSUME NEW k \in 0..MaxICount, Goto(k) PROVE EndInv'
  BY <1>7, GotoEnd
<1>8. CASE UNCHANGED vars
  BY <1>8, EndSame DEF vars
<1> QED
  BY <1>1, <1>2, <1>3, <1>4, <1>5, <1>6, <1>7, <1>8 DEF Next

\* Nothing at an end address is executed, however the run that arrived there
\* ended and whatever was undone since (target.py:524, _on_code, _emulate and
\* _go), when no watch is set.
THEOREM NothingPastTheEnd == ASSUME Kinds \subseteq {EXECUTE} PROVE Spec => ExitIsFinal
<1>1. Init => CountInv /\ EndInv
  <2>1. Init => EndInv
    BY DEF Init, EndInv, Arrived, Now
  <2> QED BY <2>1, InitCounts
<1>2. CountInv /\ EndInv /\ [Next]_vars => (CountInv /\ EndInv)'
  BY NextCounts, NextEnd
<1>3. CountInv /\ EndInv /\ [Next]_vars => [Retires => PC[Now] \notin Exits]_vars
  <2> SUFFICES ASSUME CountInv, EndInv, Next, Retires PROVE PC[Now] \notin Exits
    OBVIOUS
  <2>1. Hook /\ (first \/ PC[Now] \notin Exits)
    BY OnlyHookRetires
  <2>2. running
    BY <2>1 DEF Hook
  <2> QED BY <2>1, <2>2 DEF EndInv, Arrived
<1> QED
  BY <1>1, <1>2, <1>3, PTL DEF Spec, ExitIsFinal

----------------------------------------------------------------------------
(* Running backwards. *)

LEMMA BackAssumption == MaxBack \in Nat \ {0}
BY CallsAssumption

----------------------------------------------------------------------------
(* The windows. *)

\* Checkpoints are in the history, and the first is where it starts.
LEMMA CheckpointsAre ==
  ASSUME BpTypes, Reversible(icount - 1), NEW cps \in Checkpoints
  PROVE  /\ cps \in SUBSET (earliest..(icount - 1)) /\ earliest \in cps
         /\ icount \in Nat /\ earliest \in Nat /\ earliest <= icount - 1
         /\ \A cp \in cps : cp \in Nat /\ earliest <= cp /\ cp < icount
<1>1. icount \in Nat /\ earliest \in Nat /\ earliest <= icount - 1
  BY PastIs DEF Reversible
<1>2. PICK S \in SUBSET ((earliest + 1)..(icount - 1)) : cps = S \cup {earliest}
  BY DEF Checkpoints
<1>3. \A cp \in cps : cp \in earliest..(icount - 1)
  BY <1>1, <1>2
<1> QED
  BY <1>1, <1>2, <1>3

\* A window ends where the next begins, or where the target is.
WindowEnd(cps, lo) == Min({cp \in cps \cup {icount} : cp > lo})

LEMMA WindowEndIs ==
  ASSUME BpTypes, Reversible(icount - 1), NEW cps \in Checkpoints, NEW lo \in cps
  PROVE  /\ WindowEnd(cps, lo) \in (lo + 1)..icount
         /\ \A cp \in cps : cp > lo => WindowEnd(cps, lo) <= cp
         /\ WindowEnd(cps, lo) \in cps \/ WindowEnd(cps, lo) = icount
<1> DEFINE T == {cp \in cps \cup {icount} : cp > lo}
<1>1. cps \in SUBSET (earliest..(icount - 1)) /\ icount \in Nat /\ earliest \in Nat
  BY CheckpointsAre
<1>2. T \in SUBSET Nat /\ icount \in T
  <2>1. lo \in earliest..(icount - 1) /\ icount > lo
    BY <1>1
  <2>2. \A cp \in cps \cup {icount} : cp \in Nat
    BY <1>1
  <2> QED BY <2>1, <2>2
<1>3. Min(T) \in T /\ \A i \in T : Min(T) <= i
  <2> HIDE DEF T
  <2> QED BY <1>2, SmallestExists
<1>4. WindowEnd(cps, lo) = Min(T)
  BY DEF WindowEnd
<1> HIDE DEF WindowEnd
<1>5. Min(T) \in cps \cup {icount} /\ Min(T) > lo /\ Min(T) <= icount
  BY <1>2, <1>3
<1>6. \A cp \in cps : cp > lo => Min(T) <= cp
  BY <1>3
<1>7. lo \in Nat /\ Min(T) \in Nat
  BY <1>1, <1>2, <1>3
<1> HIDE DEF T
<1> QED
  BY <1>1, <1>4, <1>5, <1>6, <1>7

\* What is found in a window.
Found(c, lo, end) ==
  /\ c.at \in lo..end /\ c.num \in Set
  /\ \/ c.kind = EXECUTE /\ c.at < end /\ c.num = ByAddress(PC[At(c.at)])
     \/ c.kind = ACCESS /\ c.at > lo /\ c.num \in Enabled(ACCESS)
        /\ breakpoints[c.num].at \in Touches[At(c.at - 1)]

Candidate == [at : Nat, num : Set, kind : {EXECUTE, ACCESS}]

LEMMA WindowFinds ==
  ASSUME BpTypes, Reversible(icount - 1), NEW cps \in Checkpoints, NEW lo \in cps
  PROVE  /\ Window(cps, lo) \in SUBSET Candidate
         /\ \A c \in Candidate : c \in Window(cps, lo) <=> Found(c, lo, WindowEnd(cps, lo))
<1> DEFINE end == WindowEnd(cps, lo)
           hi == end - 1
<1>1. end \in Nat /\ lo \in Nat /\ end > lo
  BY CheckpointsAre, WindowEndIs
<1>2. Window(cps, lo) = ScanBack(lo, hi)
  BY DEF Window, WindowEnd
<1> HIDE DEF end
<1>3. hi + 1 = end /\ \A a \in Nat : a <= hi <=> a < end
  BY <1>1
<1>4. lo..(hi + 1) = lo..end /\ lo..end \in SUBSET Nat
  BY <1>1, <1>3
<1>5. ScanBack(lo, hi) \in SUBSET Candidate
  BY <1>4 DEF ScanBack, Candidate
<1>6. ASSUME NEW c \in Candidate PROVE c \in ScanBack(lo, hi) <=> Found(c, lo, end)
  <2>1. c.at \in Nat /\ c.num \in Set /\ c.kind \in {EXECUTE, ACCESS}
        /\ c = [at |-> c.at, num |-> c.num, kind |-> c.kind]
    BY DEF Candidate
  <2>2. c \in [at : lo..end, num : Set, kind : {EXECUTE, ACCESS}] <=> c.at \in lo..end
    BY <2>1
  <2> QED BY <2>1, <2>2, <1>3, <1>4 DEF ScanBack, Found
<1> QED
  BY <1>2, <1>5, <1>6 DEF end

\* Of the candidates that hold, there is a last one, and it is at no instruction
\* before another.
Holds(C) == {c \in C : c.at < icount /\ At(c.at) \in breakpoints[c.num].cond}

LEMMA LastOfThem ==
  ASSUME BpTypes, NEW C \in SUBSET Candidate, NEW d \in Holds(C)
  PROVE  /\ FirstThatHolds(C) # {}
         /\ FirstThatHolds(C) \in SUBSET Holds(C)
         /\ \A c \in FirstThatHolds(C) : d.at <= c.at
<1> DEFINE H == Holds(C)
<1>0. FirstThatHolds(C) = {c \in H : \A e \in H \ {c} : Later(c, e)}
  BY DEF FirstThatHolds, Holds
<1>1. /\ icount \in Nat /\ MaxBps \in Nat
      /\ \A c \in H : /\ c.at \in Nat /\ c.at < icount /\ c.num \in Nums /\ c.kind \in {EXECUTE, ACCESS}
                      /\ c = [at |-> c.at, num |-> c.num, kind |-> c.kind]
  BY PastIs, SetOfNums, Numbers DEF Holds, Candidate
<1>2. d \in H
  OBVIOUS
<1> HIDE DEF H
<1>3. \A c \in FirstThatHolds(C) : d.at <= c.at
  <2> SUFFICES ASSUME NEW c \in FirstThatHolds(C), c # d PROVE d.at <= c.at
    BY <1>1, <1>2
  <2>1. c \in H /\ Later(c, d)
    BY <1>0, <1>2
  <2> QED BY <2>1, <1>1, <1>2 DEF Later
<1> DEFINE T == {c.at : c \in H}
           a == Max(T)
<1>4. a \in T /\ \A t \in T : t <= a
  <2>1. T \in SUBSET (0..icount) /\ T # {}
    BY <1>1, <1>2
  <2> HIDE DEF T
  <2> QED BY <2>1, <1>1, GreatestExists
<1>5. PICK b \in H : b.at = a
  BY <1>4
<1> DEFINE kind == IF \E c \in H : c.at = a /\ c.kind = ACCESS THEN ACCESS ELSE EXECUTE
           N == {c.num : c \in {e \in H : e.at = a /\ e.kind = kind}}
           n == Max(N)
<1>6. n \in N /\ \A m \in N : m <= n
  <2>1. \E c \in H : c.at = a /\ c.kind = kind
    BY <1>1, <1>5
  <2> HIDE DEF kind, a
  <2>2. N \in SUBSET (0..MaxBps) /\ N # {}
    BY <2>1, <1>1 DEF Nums
  <2> HIDE DEF N
  <2> QED BY <2>2, <1>1, GreatestExists
<1>7. PICK c \in H : c.at = a /\ c.kind = kind /\ c.num = n
  BY <1>6
<1>8. \A e \in H : e.at <= a
  BY <1>4
<1>9. \A e \in H : e.at = a /\ e.kind = kind => e.num <= n
  BY <1>6
<1>10. \A e \in H : e.at = a => e.kind = kind \/ (kind = ACCESS /\ e.kind = EXECUTE)
  BY <1>1
<1> HIDE DEF a, n, kind
<1>11. ASSUME NEW e \in H, e # c PROVE Later(c, e)
  <2>1. /\ c.at \in Nat /\ e.at \in Nat /\ e.at <= c.at /\ c.num \in Nat /\ e.num \in Nat
    BY <1>1, <1>7, <1>8 DEF Nums
  <2>2. e.at # c.at \/ e.kind # c.kind \/ e.num # c.num
    BY <1>1, <1>11
  <2>3. CASE e.at # c.at
    BY <2>1, <2>3 DEF Later
  <2>4. CASE e.at = c.at /\ e.kind # c.kind
    BY <2>4, <1>7, <1>10 DEF Later
  <2>5. CASE e.at = c.at /\ e.kind = c.kind /\ e.num # c.num
    <3>1. e.num <= c.num
      BY <2>5, <1>7, <1>9
    <3> QED BY <2>1, <2>5, <3>1 DEF Later
  <2> QED BY <2>2, <2>3, <2>4, <2>5
<1>12. c \in FirstThatHolds(C)
  BY <1>0, <1>7, <1>11
<1>13. FirstThatHolds(C) \in SUBSET Holds(C)
  BY <1>0 DEF H
<1> QED
  BY <1>3, <1>12, <1>13

\* Where something would stop, there is a candidate that says so in one of the
\* windows, and it is in none that comes after: the windows leave no gap.
LEMMA NoGap ==
  ASSUME BpTypes, Reversible(icount - 1), NEW cps \in Checkpoints,
         NEW k \in earliest..(icount - 1), StopsHere(k)
  PROVE  \E lo \in cps : /\ \E d \in Holds(Window(cps, lo)) : d.at = k
                         /\ \A w \in cps : w > lo => k <= w
<1>1. cps \in SUBSET (earliest..(icount - 1)) /\ earliest \in cps
      /\ icount \in Nat /\ earliest \in Nat /\ k \in Nat /\ k < icount /\ earliest <= k
      /\ \A cp \in cps : cp \in Nat
  BY CheckpointsAre
<1>2. CASE \E n \in Enabled(EXECUTE) : n = ByAddress(PC[At(k)]) /\ At(k) \in breakpoints[n].cond
  <2>1. PICK n \in Enabled(EXECUTE) : n = ByAddress(PC[At(k)]) /\ At(k) \in breakpoints[n].cond
    BY <1>2
  <2> DEFINE T == {cp \in cps : cp <= k}
             lo == Max(T)
             d == [at |-> k, num |-> n, kind |-> EXECUTE]
  <2>2. T \in SUBSET (0..k) /\ earliest \in T
    <3>1. \A cp \in T : cp \in 0..k
      BY <1>1
    <3> QED BY <3>1, <1>1
  <2>3. lo \in T /\ \A cp \in T : cp <= lo
    <3> HIDE DEF T
    <3> QED BY <2>2, <1>1, GreatestExists
  <2>4. lo \in cps /\ lo <= k /\ lo \in Nat /\ \A w \in cps : w > lo => w > k
    <3>1. lo \in cps /\ lo <= k /\ \A w \in cps : w \in Nat
      BY <2>3, <1>1
    <3>2. ASSUME NEW w \in cps, w > lo PROVE w > k
      <4>1. w \notin T
        <5> SUFFICES ASSUME w \in T PROVE FALSE
          OBVIOUS
        <5>1. w <= lo /\ w \in Nat /\ lo \in Nat
          BY <2>3, <3>1
        <5> QED BY <5>1, <3>2
      <4> QED BY <4>1, <3>1, <1>1
    <3> QED BY <3>1, <3>2
  <2> HIDE DEF T, lo
  <2>5. WindowEnd(cps, lo) \in Nat /\ WindowEnd(cps, lo) > k
    BY <2>4, <1>1, WindowEndIs
  <2>6. n \in Set /\ d \in Candidate /\ k \in lo..WindowEnd(cps, lo)
    BY <2>4, <2>5, <1>1 DEF Candidate, Enabled
  <2>7. Found(d, lo, WindowEnd(cps, lo))
    BY <2>1, <2>5, <2>6 DEF Found
  <2>8. d \in Holds(Window(cps, lo)) /\ d.at = k
    BY <2>1, <2>4, <2>6, <2>7, <1>1, WindowFinds DEF Holds
  <2>9. ASSUME NEW w \in cps, w > lo PROVE k <= w
    <3>1. w \in Nat /\ w > k
      BY <2>4, <2>9, <1>1
    <3> QED BY <3>1, <1>1
  <2> QED BY <2>4, <2>8, <2>9
<1>3. CASE k > earliest /\ \E n \in Enabled(ACCESS) :
             breakpoints[n].at \in Touches[At(k - 1)] /\ At(k) \in breakpoints[n].cond
  <2>1. PICK n \in Enabled(ACCESS) :
          breakpoints[n].at \in Touches[At(k - 1)] /\ At(k) \in breakpoints[n].cond
    BY <1>3
  <2> DEFINE T == {cp \in cps : cp < k}
             lo == Max(T)
             d == [at |-> k, num |-> n, kind |-> ACCESS]
  <2>2. T \in SUBSET (0..k) /\ earliest \in T
    <3>1. \A cp \in T : cp \in 0..k
      BY <1>1
    <3> QED BY <3>1, <1>1, <1>3
  <2>3. lo \in T /\ \A cp \in T : cp <= lo
    <3> HIDE DEF T
    <3> QED BY <2>2, <1>1, GreatestExists
  <2>4. lo \in cps /\ lo < k /\ lo \in Nat /\ \A w \in cps : w > lo => k <= w
    <3>1. lo \in cps /\ lo < k /\ \A w \in cps : w \in Nat
      BY <2>3, <1>1
    <3>2. ASSUME NEW w \in cps, w > lo PROVE k <= w
      <4>1. w \notin T
        <5> SUFFICES ASSUME w \in T PROVE FALSE
          OBVIOUS
        <5>1. w <= lo /\ w \in Nat /\ lo \in Nat
          BY <2>3, <3>1
        <5> QED BY <5>1, <3>2
      <4> QED BY <4>1, <3>1, <1>1
    <3> QED BY <3>1, <3>2
  <2> HIDE DEF T, lo
  <2>5. WindowEnd(cps, lo) \in Nat /\ WindowEnd(cps, lo) >= k
    BY <2>4, <1>1, WindowEndIs
  <2>6. n \in Set /\ d \in Candidate /\ k \in lo..WindowEnd(cps, lo)
    BY <2>4, <2>5, <1>1 DEF Candidate, Enabled
  <2>7. Found(d, lo, WindowEnd(cps, lo))
    BY <2>1, <2>4, <2>6 DEF Found
  <2>8. d \in Holds(Window(cps, lo)) /\ d.at = k
    BY <2>1, <2>4, <2>6, <2>7, <1>1, WindowFinds DEF Holds
  <2> QED BY <2>4, <2>8
<1> QED
  BY <1>2, <1>3 DEF StopsHere

\* What resume_back comes to: the start of the history, when there is nothing
\* to stop at, or a candidate that holds, with nothing to stop at after it.
Nowhere == \A k \in earliest..(icount - 1) : ~StopsHere(k)

LEMMA ArrivesAt ==
  ASSUME BpTypes, NEW cps \in Checkpoints, ResumeBack(cps)
  PROVE  \/ /\ Nowhere /\ Rewind(earliest, UndoHits(earliest)) /\ event' = Why("stopped", None)
         \/ \E c \in Candidate :
              /\ c.at \in earliest..(icount - 1) /\ StopsHere(c.at)
              /\ \A k \in (c.at + 1)..(icount - 1) : ~StopsHere(k)
              /\ Rewind(c.at, Recount(UndoHits(c.at), c.at, c.num))
              /\ event' = Why(IF c.kind = ACCESS THEN "watchpoint" ELSE "breakpoint", c.num)
<1> DEFINE found == {w \in cps : FirstThatHolds(Window(cps, w)) # {}}
<1>0. Reversible(icount - 1)
  BY DEF ResumeBack
<1>1. cps \in SUBSET (earliest..(icount - 1)) /\ earliest \in cps
      /\ icount \in Nat /\ earliest \in Nat /\ \A cp \in cps : cp \in Nat /\ cp < icount
  BY <1>0, CheckpointsAre
<1>2. ASSUME NEW k \in earliest..(icount - 1), StopsHere(k)
      PROVE  \E lo \in found : /\ \A c \in FirstThatHolds(Window(cps, lo)) : k <= c.at
                               /\ \A w \in cps : w > lo => k <= w
  <2>1. PICK lo \in cps : /\ \E d \in Holds(Window(cps, lo)) : d.at = k
                          /\ \A w \in cps : w > lo => k <= w
    BY <1>0, <1>2, NoGap
  <2>2. PICK d \in Holds(Window(cps, lo)) : d.at = k
    BY <2>1
  <2>3. Window(cps, lo) \in SUBSET Candidate
    BY <1>0, WindowFinds
  <2> QED BY <2>1, <2>2, <2>3, LastOfThem
<1>3. CASE found = {}
  <2>1. Nowhere
    BY <1>2, <1>3 DEF Nowhere
  <2> QED BY <2>1, <1>3 DEF ResumeBack
<1>4. CASE found # {}
  <2> DEFINE lo == Max(found)
  <2>1. PICK c \in FirstThatHolds(Window(cps, lo)) :
          /\ Rewind(c.at, Recount(UndoHits(c.at), c.at, c.num))
          /\ event' = Why(IF c.kind = ACCESS THEN "watchpoint" ELSE "breakpoint", c.num)
    BY <1>4 DEF ResumeBack
  <2>2. lo \in found /\ \A w \in found : w <= lo
    <3>1. \A w \in found : w \in 0..icount
      BY <1>1
    <3> HIDE DEF found
    <3> QED BY <3>1, <1>1, <1>4, GreatestExists
  <2>3. lo \in cps /\ lo \in earliest..(icount - 1)
    BY <2>2, <1>1
  <2>4. ASSUME NEW k \in earliest..(icount - 1), StopsHere(k), NEW w \in found, w # lo,
               \A v \in cps : v > w => k <= v
        PROVE  k <= lo
    <3>1. w <= lo /\ w \in Nat
      BY <2>2, <2>4, <1>1
    <3>2. lo > w
      BY <3>1, <2>3, <2>4, <1>1
    <3> QED BY <3>2, <2>3, <2>4
  <2> HIDE DEF lo, found
  <2>5. Window(cps, lo) \in SUBSET Candidate /\ FirstThatHolds(Window(cps, lo)) \in SUBSET Holds(Window(cps, lo))
    BY <2>3, <1>0, WindowFinds DEF FirstThatHolds, Holds
  <2>6. /\ c \in Candidate /\ c \in Window(cps, lo)
        /\ c.at < icount /\ At(c.at) \in breakpoints[c.num].cond
    BY <2>1, <2>5 DEF Holds
  <2>7. Found(c, lo, WindowEnd(cps, lo)) /\ c.at \in Nat /\ lo <= c.at
    BY <2>3, <2>6, <1>0, <1>1, WindowFinds, WindowEndIs DEF Found, Candidate
  <2>8. c.at \in earliest..(icount - 1)
    BY <2>3, <2>6, <2>7, <1>1
  <2>9. StopsHere(c.at)
    <3>1. CASE c.kind = EXECUTE
      <4>1. c.num = ByAddress(PC[At(c.at)]) /\ c.num \in Set
        BY <2>7, <3>1 DEF Found, EXECUTE, ACCESS
      <4>2. c.num \in Enabled(EXECUTE)
        <5> DEFINE here == {n \in Enabled(EXECUTE) : breakpoints[n].at = PC[At(c.at)]}
        <5>1. c.num \in Nat /\ None \notin Nat /\ MaxBps \in Nat
          BY <4>1, SetOfNums, Numbers
        <5>2. here # {} /\ c.num = Max(here)
          BY <4>1, <5>1 DEF ByAddress
        <5>3. here \in SUBSET (0..MaxBps)
          BY SetOfNums, Numbers DEF Enabled, Nums
        <5> HIDE DEF here
        <5>4. c.num \in here
          BY <5>1, <5>2, <5>3, GreatestExists
        <5> QED BY <5>4 DEF here
      <4> QED BY <4>1, <4>2, <2>6 DEF StopsHere
    <3>2. CASE c.kind = ACCESS
      <4>1. c.at > lo /\ c.num \in Enabled(ACCESS) /\ breakpoints[c.num].at \in Touches[At(c.at - 1)]
        BY <2>7, <3>2 DEF Found, EXECUTE, ACCESS
      <4>2. c.at > earliest
        BY <4>1, <2>3, <2>7, <1>1
      <4> QED BY <4>1, <4>2, <2>6 DEF StopsHere
    <3> QED BY <3>1, <3>2, <2>6 DEF Candidate
  <2>10. ASSUME NEW k \in (c.at + 1)..(icount - 1), StopsHere(k) PROVE FALSE
    <3>1. k \in earliest..(icount - 1) /\ k > c.at /\ k \in Nat
      BY <2>7, <2>8, <1>1
    <3>2. PICK w \in found : /\ \A e \in FirstThatHolds(Window(cps, w)) : k <= e.at
                             /\ \A v \in cps : v > w => k <= v
      BY <3>1, <2>10, <1>2
    <3>3. CASE w = lo
      <4>1. k <= c.at
        BY <3>2, <3>3, <2>1
      <4> QED BY <4>1, <3>1, <2>7
    <3>4. CASE w # lo
      <4>1. k <= lo
        BY <3>1, <3>2, <3>4, <2>4, <2>10
      <4> QED BY <4>1, <3>1, <2>3, <2>7, <1>1
    <3> QED BY <3>3, <3>4
  <2> QED BY <2>1, <2>6, <2>8, <2>9, <2>10
<1> QED
  BY <1>3, <1>4

----------------------------------------------------------------------------
(* Hits and ignore counts. *)

\* One more hit, if it was not there.
LEMMA RecountKeeps ==
  ASSUME CountInv, NEW k \in Nat, NEW num \in Set, NEW r, Answer(r)
  PROVE  /\ Answer(Recount(r, k, num))
         /\ Grown(Recount(r, k, num).hits, r.hits, k)
<1> DEFINE e == [icount |-> k, num |-> num, ignored |-> FALSE]
           c == Recount(r, k, num)
<1>1. /\ r.hits \in Seq(HitEntry) /\ Len(r.hits) \in Nat /\ DOMAIN r.bps = Set
      /\ \A n \in Set : r.bps[n] \in Bp /\ n \in Nums
      /\ num \in Nums /\ num < nextBp
      /\ \A i \in 1..Len(r.hits) : r.hits[i].num < nextBp
  BY SetOfNums DEF Answer, Typed, CountInv
<1>2. CASE c = r
  <2>1. Grown(r.hits, r.hits, k)
    BY <1>1 DEF Grown
  <2> QED BY <1>2, <2>1
<1>3. CASE c.hits = Append(r.hits, e) /\ c.bps = [r.bps EXCEPT ![num].hits = @ + 1]
  <2>1. e \in HitEntry /\ e.icount = k /\ e.num = num /\ ~e.ignored
    BY <1>1 DEF HitEntry
  <2> HIDE DEF e, c
  <2>2. /\ c.hits \in Seq(HitEntry) /\ Len(c.hits) = Len(r.hits) + 1
        /\ \A i \in 1..Len(r.hits) : c.hits[i] = r.hits[i]
        /\ c.hits[Len(r.hits) + 1] = e
    BY <1>1, <1>3, <2>1
  <2>3. \A i \in 1..Len(c.hits) : i \in 1..Len(r.hits) \/ i = Len(r.hits) + 1
    BY <1>1, <2>2
  <2>4. Grown(c.hits, r.hits, k)
    <3>1. \A i \in (Len(r.hits) + 1)..Len(c.hits) : i = Len(r.hits) + 1
      BY <1>1, <2>2
    <3> QED BY <3>1, <1>1, <2>1, <2>2 DEF Grown
  <2>5. \A i \in 1..Len(c.hits) : c.hits[i].num < nextBp
    BY <1>1, <2>1, <2>2, <2>3
  <2>6. DOMAIN c.bps = Set
        /\ \A n \in Set : c.bps[n] = IF n = num THEN [r.bps[n] EXCEPT !.hits = r.bps[n].hits + 1] ELSE r.bps[n]
    BY <1>1, <1>3
  <2>7. ASSUME NEW n \in Set
        PROVE  /\ c.bps[n] \in Bp /\ SameBreakpoint(c.bps[n], r.bps[n])
               /\ c.bps[n].hits = r.bps[n].hits + (IF n = num THEN 1 ELSE 0)
               /\ c.bps[n].ignore = r.bps[n].ignore
    <3>1. r.bps[n] \in Bp /\ r.bps[n].hits \in Nat /\ r.bps[n].hits + 1 \in Nat
      BY <1>1 DEF Bp
    <3>2. CASE n = num
      BY <3>1, <3>2, <2>6 DEF Bp, SameBreakpoint
    <3>3. CASE n # num
      <4>1. c.bps[n] = r.bps[n]
        BY <3>3, <1>1, <1>3
      <4>2. r.bps[n].hits = r.bps[n].hits + 0
        BY <3>1
      <4> QED BY <3>1, <3>3, <4>1, <4>2 DEF SameBreakpoint
    <3> QED BY <3>2, <3>3
  <2>8. ASSUME NEW n \in Set
        PROVE  /\ Logged(c.hits, n) = Logged(r.hits, n) + (IF n = num THEN 1 ELSE 0)
               /\ LetPass(c.hits, n) = LetPass(r.hits, n)
               /\ Logged(r.hits, n) \in Nat
    <3> DEFINE one == <<e>>
    <3>1. one \in Seq(HitEntry) /\ Len(one) = 1 /\ one[1] = e /\ DOMAIN one = {1}
      BY <2>1
    <3> HIDE DEF one
    <3>2. Joined(c.hits, r.hits, one)
      BY <1>1, <2>2, <3>1 DEF Joined
    <3>3. Cardinality({}) = 0 /\ Cardinality({1}) = 1
      BY FS_EmptySet, FS_Singleton
    <3>4. {i \in DOMAIN one : one[i].num = n} = (IF n = num THEN {1} ELSE {})
          /\ {i \in DOMAIN one : one[i].num = n /\ one[i].ignored} = {}
      BY <2>1, <3>1
    <3>5. Logged(one, n) = (IF n = num THEN 1 ELSE 0) /\ LetPass(one, n) = 0
      BY <3>3, <3>4 DEF Logged, LetPass
    <3>6. /\ Logged(c.hits, n) = Logged(r.hits, n) + Logged(one, n)
          /\ LetPass(c.hits, n) = LetPass(r.hits, n) + LetPass(one, n)
          /\ Logged(r.hits, n) \in Nat /\ LetPass(r.hits, n) \in Nat
      BY <1>1, <2>2, <3>1, <3>2, LoggedJoined
    <3> QED BY <3>5, <3>6
  <2>9. Balanced(c.bps, c.hits, counted)
    <3> SUFFICES ASSUME NEW n \in Set
                 PROVE  /\ c.bps[n].hits = counted[n].hits + Logged(c.hits, n)
                        /\ c.bps[n].ignore = counted[n].ignore - LetPass(c.hits, n)
      BY <2>6 DEF Balanced
    <3>1. /\ r.bps[n].hits = counted[n].hits + Logged(r.hits, n)
          /\ r.bps[n].ignore = counted[n].ignore - LetPass(r.hits, n)
      BY <1>1 DEF Answer, Balanced
    <3>2. counted[n].hits \in Nat
      BY <1>1 DEF CountInv, BpTypes
    <3> QED BY <3>1, <3>2, <2>7, <2>8
  <2>10. Typed(c)
    BY <2>2, <2>5, <2>6, <2>7 DEF Typed
  <2>11. \A n \in Set : SameBreakpoint(c.bps[n], breakpoints[n])
    BY <2>7 DEF Answer, SameBreakpoint
  <2> QED BY <2>4, <2>9, <2>10, <2>11 DEF Answer, c
<1> QED
  BY <1>2, <1>3 DEF Recount

\* Every way back goes to an instruction of the history, with hits taken back
\* and perhaps one counted there.
GoesBack(k, r) ==
  /\ k \in earliest..icount /\ Rewind(k, r)
  /\ r = UndoHits(k) \/ \E num \in Set : r = Recount(UndoHits(k), k, num)

LEMMA EveryWayBack ==
  ASSUME BpTypes
  PROVE  /\ \A k \in 0..MaxICount : Goto(k) => \E r : GoesBack(k, r)
         /\ \A n \in 1..MaxBack : StepBackOver(n) => \E k, r : GoesBack(k, r)
         /\ \A cps \in Checkpoints : ResumeBack(cps) => \E k, r : GoesBack(k, r)
<1>0. icount \in Nat /\ earliest \in Nat /\ MaxICount \in Nat
  BY PastIs, Numbers
<1>1. ASSUME NEW k \in 0..MaxICount, Goto(k) PROVE GoesBack(k, UndoHits(k))
  BY <1>0, <1>1 DEF Goto, Reversible, GoesBack
<1>2. ASSUME NEW n \in 1..MaxBack, StepBackOver(n) PROVE \E k, r : GoesBack(k, r)
  <2>1. PICK p \in BackOver(n) : Rewind(p[n], UndoHits(p[n]))
    BY <1>2 DEF StepBackOver
  <2>2. n \in 0..n
    BY BackAssumption
  <2>3. p[n] \in earliest..icount
    BY <2>2 DEF BackOver
  <2> QED BY <2>1, <2>3 DEF GoesBack
<1>3. ASSUME NEW cps \in Checkpoints, ResumeBack(cps) PROVE \E k, r : GoesBack(k, r)
  <2>1. earliest \in earliest..icount /\ \A k \in earliest..(icount - 1) : k \in earliest..icount
    BY <1>0, PastIs
  <2>2. CASE Rewind(earliest, UndoHits(earliest))
    BY <2>1, <2>2 DEF GoesBack
  <2>3. CASE \E c \in Candidate : /\ c.at \in earliest..(icount - 1)
                                  /\ Rewind(c.at, Recount(UndoHits(c.at), c.at, c.num))
    <3>1. PICK c \in Candidate : /\ c.at \in earliest..(icount - 1)
                                 /\ Rewind(c.at, Recount(UndoHits(c.at), c.at, c.num))
      BY <2>3
    <3>2. c.num \in Set
      BY DEF Candidate
    <3> QED BY <2>1, <3>1, <3>2 DEF GoesBack
  <2> QED BY <2>2, <2>3, <1>3, ArrivesAt
<1> QED
  BY <1>1, <1>2, <1>3

LEMMA BackAnswers ==
  ASSUME CountInv, NEW k, NEW r, GoesBack(k, r)
  PROVE  /\ k \in Nat /\ k + 1 \in 1..Len(past) /\ Answer(r)
         /\ past' = SubSeq(past, 1, k + 1) /\ icount' = k /\ Len(past') = k + 1
         /\ \A i \in 1..(k + 1) : past'[i] = past[i]
         /\ Now' = past[k + 1]
<1>1. k \in Nat /\ k + 1 \in 1..Len(past) /\ past \in Seq(State)
  BY PastIs DEF GoesBack, CountInv, icount
<1>2. Answer(r)
  BY <1>1, UndoKeeps, RecountKeeps DEF GoesBack
<1>3. past' = SubSeq(past, 1, k + 1)
  BY DEF GoesBack, Rewind
<1>4. Len(past') = k + 1 /\ \A i \in 1..(k + 1) : past'[i] = past[i]
  BY <1>1, <1>3
<1> QED
  BY <1>1, <1>2, <1>3, <1>4 DEF icount, Now

LEMMA BackCounts ==
  ASSUME CountInv, NEW k, NEW r, GoesBack(k, r) PROVE CountInv'
BY BackAnswers, RewindCounts DEF GoesBack

LEMMA BackOrdered ==
  ASSUME OrderInv, NEW k, NEW r, GoesBack(k, r) PROVE Behind(hits', icount')
<1>1. CountInv /\ hits \in Seq(HitEntry) /\ icount \in Nat
  BY PastIs DEF OrderInv, CountInv, BpTypes, TypeOK, HitEntry
<1>2. k \in Nat /\ icount' = k /\ hits' = r.hits /\ Answer(UndoHits(k)) /\ UndoHits(k).hits = Undone(hits, k)
  BY <1>1, BackAnswers, UndoKeeps DEF GoesBack, Rewind
<1>3. Behind(UndoHits(k).hits, k)
  BY <1>1, <1>2, UndoneBehind DEF OrderInv
<1>4. CASE r = UndoHits(k)
  BY <1>2, <1>3, <1>4
<1>5. ASSUME NEW num \in Set, r = Recount(UndoHits(k), k, num) PROVE Behind(hits', icount')
  <2>1. Grown(r.hits, UndoHits(k).hits, k) /\ Answer(r)
    BY <1>1, <1>2, <1>5, RecountKeeps
  <2>2. r.hits \in Seq(HitEntry) /\ UndoHits(k).hits \in Seq(HitEntry)
    BY <2>1, <1>2 DEF Answer, Typed
  <2> QED BY <2>1, <2>2, <1>2, <1>3, GrownBehind
<1> QED
  BY <1>4, <1>5 DEF GoesBack

\* The steps of RNext are those of Next and the ways back.
LEMMA RNextCounts == ASSUME CountInv, [RNext]_vars PROVE CountInv'
<1>1. CASE [Next]_vars
  BY <1>1, NextCounts
<1>2. CASE \E k, r : GoesBack(k, r)
  BY <1>2, BackCounts
<1> QED
  BY <1>1, <1>2, EveryWayBack DEF RNext, CountInv

LEMMA RNextBehind == ASSUME QuietFaults, OrderInv, [RNext]_vars PROVE OrderInv'
<1>1. CASE [Next]_vars
  BY <1>1, NextBehind
<1>2. CASE \E k, r : GoesBack(k, r)
  BY <1>2, BackCounts, BackOrdered DEF OrderInv
<1> QED
  BY <1>1, <1>2, EveryWayBack DEF RNext, OrderInv, CountInv

\* Running backwards arrives at the newest instruction where some breakpoint
\* stops, wherever the checkpoints are (target.py, resume_back), for every
\* program, set of breakpoints and history.
THEOREM BackToTheNewest == RSpec => NewestStop
<1> DEFINE Newest ==
      ResumedBack =>
        /\ \A k \in (icount' + 1)..(icount - 1) : ~StopsHere(k)
        /\ event'.reason # "stopped" => StopsHere(icount')
        /\ event'.reason = "stopped" => icount' = earliest
<1>1. Init => CountInv
  BY InitCounts
<1>2. CountInv /\ [RNext]_vars => CountInv'
  BY RNextCounts
<1>3. CountInv /\ [RNext]_vars => [Newest]_vars
  <2> SUFFICES ASSUME CountInv, NEW cps \in Checkpoints, ResumeBack(cps)
               PROVE  /\ \A k \in (icount' + 1)..(icount - 1) : ~StopsHere(k)
                      /\ event'.reason # "stopped" => StopsHere(icount')
                      /\ event'.reason = "stopped" => icount' = earliest
    BY DEF ResumedBack
  <2>0. BpTypes /\ icount \in Nat /\ earliest \in Nat /\ earliest <= icount
    BY PastIs DEF CountInv
  <2>1. CASE Nowhere /\ Rewind(earliest, UndoHits(earliest)) /\ event' = Why("stopped", None)
    <3>1. GoesBack(earliest, UndoHits(earliest))
      BY <2>0, <2>1 DEF GoesBack
    <3>2. icount' = earliest
      BY <3>1, BackAnswers
    <3>3. event'.reason = "stopped"
      BY <2>1 DEF Why
    <3>4. \A k \in (icount' + 1)..(icount - 1) : k \in earliest..(icount - 1)
      BY <3>2, <2>0
    <3> QED BY <3>2, <3>3, <3>4, <2>1 DEF Nowhere
  <2>2. ASSUME NEW c \in Candidate,
               c.at \in earliest..(icount - 1), StopsHere(c.at),
               \A k \in (c.at + 1)..(icount - 1) : ~StopsHere(k),
               Rewind(c.at, Recount(UndoHits(c.at), c.at, c.num)),
               event' = Why(IF c.kind = ACCESS THEN "watchpoint" ELSE "breakpoint", c.num)
        PROVE  /\ \A k \in (icount' + 1)..(icount - 1) : ~StopsHere(k)
               /\ event'.reason # "stopped" => StopsHere(icount')
               /\ event'.reason = "stopped" => icount' = earliest
    <3>1. c.at \in earliest..icount /\ c.num \in Set
      BY <2>0, <2>2 DEF Candidate
    <3>2. GoesBack(c.at, Recount(UndoHits(c.at), c.at, c.num))
      BY <3>1, <2>2 DEF GoesBack
    <3>3. icount' = c.at
      BY <3>2, BackAnswers
    <3>4. event'.reason # "stopped"
      BY <2>2 DEF Why
    <3> QED BY <3>3, <3>4, <2>2
  <2> QED BY <2>0, <2>1, <2>2, ArrivesAt
<1> QED
  BY <1>1, <1>2, <1>3, PTL DEF RSpec, NewestStop

----------------------------------------------------------------------------
(* Arriving counts once. *)

HitAt(log, n, at) == \E i \in 1..Len(log) : log[i].num = n /\ log[i].icount = at

Unique(log) ==
  \A n \in Set : \A i, j \in 1..Len(log) :
    log[i].num = n /\ log[j].num = n /\ log[i].icount = log[j].icount => i = j

\* Entries of one number in a log with one of each are one.
LEMMA OneOf ==
  ASSUME NEW log \in Seq(HitEntry), NEW n, Logged(log, n) = 1
  PROVE  \E i \in 1..Len(log) : log[i].num = n /\ \A j \in 1..Len(log) : log[j].num = n => j = i
<1> DEFINE A == {i \in DOMAIN log : log[i].num = n}
<1>1. IsFiniteSet(A) /\ A \in SUBSET (1..Len(log)) /\ DOMAIN log = 1..Len(log)
  <2>1. IsFiniteSet(1..Len(log)) /\ A \in SUBSET (1..Len(log))
    BY FS_Interval
  <2> QED BY <2>1, FS_Subset
<1>2. Cardinality(A) = 1
  BY DEF Logged
<1>3. PICK i : A = {i}
  <2> HIDE DEF A
  <2> QED BY <1>1, <1>2, FS_Singleton
<1>4. i \in 1..Len(log) /\ log[i].num = n
  BY <1>1, <1>3
<1>5. \A j \in 1..Len(log) : log[j].num = n => j \in A
  BY <1>1
<1> QED
  BY <1>3, <1>4, <1>5

\* What asking breakpoints writes down: at most one entry for each of them, and
\* one for the one that fires.
LEMMA CountHits ==
  ASSUME BpTypes, NEW r, Typed(r), NEW S \in SUBSET Set, NEW at \in Nat
  PROVE  /\ \A i \in (Len(r.hits) + 1)..Len(Count(r, S, at).hits) :
              Count(r, S, at).hits[i].num \in Met(r, S)
         /\ \A i, j \in (Len(r.hits) + 1)..Len(Count(r, S, at).hits) :
              Count(r, S, at).hits[i].num = Count(r, S, at).hits[j].num => i = j
         /\ Count(r, S, at).fired # None => HitAt(Count(r, S, at).hits, Count(r, S, at).fired, at)
<1> DEFINE H == {n \in Met(r, S) : Now \in r.bps[n].cond}
           e == Entries(r, H, at)
           c == Count(r, S, at)
<1>1. c.hits = r.hits \o e
  BY DEF Count
<1>2. H \in SUBSET Nums /\ H \in SUBSET S /\ H \in SUBSET Met(r, S)
  BY SetOfNums DEF Met
<1>3. c.fired # None => c.fired \in H
  <2> SUFFICES ASSUME c.fired # None PROVE c.fired \in H
    OBVIOUS
  <2>1. Fires(r, S) # {} /\ c.fired = Min(Fires(r, S))
    BY DEF Count
  <2>2. Fires(r, S) \in SUBSET Nat
    BY SetOfNums DEF Fires
  <2>3. c.fired \in Fires(r, S) /\ \A m \in Fires(r, S) : c.fired <= m
    BY <2>1, <2>2, SmallestExists
  <2> QED BY <2>3 DEF Fires, Met
<1>4. \A n \in H : r.bps[n].ignore \in Nat
  BY <1>2 DEF Typed, Bp
<1> HIDE DEF H
<1>5. OneEach(e, r.bps, H, at)
  BY <1>2, <1>4, EntriesOf
<1> HIDE DEF e
<1>6. /\ e \in Seq(HitEntry) /\ Len(e) \in Nat
      /\ \A i \in 1..Len(e) : e[i].icount = at /\ e[i].num \in H
      /\ \A n \in H : Logged(e, n) = 1
  BY <1>5, <1>2 DEF OneEach
<1>7. r.hits \in Seq(HitEntry) /\ Len(r.hits) \in Nat
  BY DEF Typed
<1>8. Len(c.hits) = Len(r.hits) + Len(e) /\ \A i \in 1..Len(e) : c.hits[Len(r.hits) + i] = e[i]
  BY <1>1, <1>6, <1>7
<1> HIDE DEF c
<1>9. \A i \in (Len(r.hits) + 1)..Len(c.hits) :
        i - Len(r.hits) \in 1..Len(e) /\ c.hits[i] = e[i - Len(r.hits)]
  <2> SUFFICES ASSUME NEW i \in (Len(r.hits) + 1)..Len(c.hits)
               PROVE  i - Len(r.hits) \in 1..Len(e) /\ c.hits[i] = e[i - Len(r.hits)]
    OBVIOUS
  <2>1. i - Len(r.hits) \in 1..Len(e) /\ Len(r.hits) + (i - Len(r.hits)) = i
    BY <1>6, <1>7, <1>8
  <2> QED BY <2>1, <1>8
<1>10. \A i \in (Len(r.hits) + 1)..Len(c.hits) : c.hits[i].num \in Met(r, S)
  BY <1>2, <1>6, <1>9
<1>11. ASSUME NEW i \in (Len(r.hits) + 1)..Len(c.hits), NEW j \in (Len(r.hits) + 1)..Len(c.hits),
              c.hits[i].num = c.hits[j].num
       PROVE  i = j
  <2>0. PICK num : num = c.hits[i].num /\ c.hits[j].num = num
    BY <1>11
  <2>1. Logged(e, num) = 1
    BY <1>6, <1>9, <2>0
  <2>2. PICK k \in 1..Len(e) : \A l \in 1..Len(e) : e[l].num = num => l = k
    BY <2>1, <1>6, OneOf
  <2>3. /\ i - Len(r.hits) \in 1..Len(e) /\ c.hits[i] = e[i - Len(r.hits)]
        /\ j - Len(r.hits) \in 1..Len(e) /\ c.hits[j] = e[j - Len(r.hits)]
    BY <1>9
  <2>4. i - Len(r.hits) = j - Len(r.hits)
    BY <2>0, <2>2, <2>3
  <2>5. i \in Int /\ j \in Int
    BY <1>7
  <2> QED BY <2>4, <2>5, <1>7
<1>12. c.fired # None => HitAt(c.hits, c.fired, at)
  <2> SUFFICES ASSUME c.fired # None PROVE HitAt(c.hits, c.fired, at)
    OBVIOUS
  <2>1. PICK i \in 1..Len(e) : e[i].num = c.fired
    BY <1>3, <1>6, OneOf
  <2>2. Len(r.hits) + i \in 1..Len(c.hits)
    BY <1>6, <1>7, <1>8
  <2>3. c.hits[Len(r.hits) + i].num = c.fired /\ c.hits[Len(r.hits) + i].icount = at
    BY <2>1, <1>6, <1>8
  <2> QED BY <2>2, <2>3 DEF HitAt
<1> QED
  BY <1>10, <1>11, <1>12 DEF c

\* Asking those that are not in the log for this instruction.
LEMMA CountUnique ==
  ASSUME BpTypes, NEW r, Typed(r), NEW S \in SUBSET Set, NEW at \in Nat
  PROVE  /\ Unique(r.hits) /\ (\A n \in S : ~HitAt(r.hits, n, at)) => Unique(Count(r, S, at).hits)
         /\ \A n, k : HitAt(Count(r, S, at).hits, n, k) <=> \/ HitAt(r.hits, n, k)
                                                            \/ k = at /\ n \in Met(r, S) /\ HitAt(Count(r, S, at).hits, n, at)
<1> DEFINE c == Count(r, S, at)
<1>0. Met(r, S) \subseteq S
  BY DEF Met
<1>1. /\ \A i \in (Len(r.hits) + 1)..Len(c.hits) : c.hits[i].num \in Met(r, S)
      /\ \A i, j \in (Len(r.hits) + 1)..Len(c.hits) : c.hits[i].num = c.hits[j].num => i = j
  BY CountHits
<1>2. Typed(c) /\ Grown(c.hits, r.hits, at)
  BY CountKeeps
<1> HIDE DEF c
<1>3. /\ Len(c.hits) \in Nat /\ Len(r.hits) \in Nat /\ Len(r.hits) <= Len(c.hits)
      /\ \A i \in 1..Len(r.hits) : i \in 1..Len(c.hits) /\ c.hits[i] = r.hits[i]
      /\ \A i \in (Len(r.hits) + 1)..Len(c.hits) : i \in 1..Len(c.hits) /\ c.hits[i].icount = at
      /\ \A i \in 1..Len(c.hits) : i \in 1..Len(r.hits) \/ i \in (Len(r.hits) + 1)..Len(c.hits)
  BY <1>2 DEF Grown, Typed
<1>4. ASSUME Unique(r.hits), \A n \in S : ~HitAt(r.hits, n, at) PROVE Unique(c.hits)
  <2> SUFFICES ASSUME NEW n \in Set, NEW i \in 1..Len(c.hits), NEW j \in 1..Len(c.hits),
                      c.hits[i].num = n, c.hits[j].num = n, c.hits[i].icount = c.hits[j].icount
               PROVE  i = j
    BY DEF Unique
  <2>1. ASSUME NEW a \in 1..Len(r.hits), NEW b \in (Len(r.hits) + 1)..Len(c.hits),
               c.hits[a].num = c.hits[b].num, c.hits[a].icount = c.hits[b].icount
        PROVE  FALSE
    BY <2>1, <1>0, <1>1, <1>3, <1>4 DEF HitAt
  <2>2. CASE i \in 1..Len(r.hits) /\ j \in 1..Len(r.hits)
    <3>1. c.hits[i] = r.hits[i] /\ c.hits[j] = r.hits[j]
      BY <2>2, <1>3
    <3>2. r.hits[i].num = n /\ r.hits[j].num = n /\ r.hits[i].icount = r.hits[j].icount
      BY <3>1
    <3> QED BY <2>2, <3>2, <1>4 DEF Unique
  <2>3. CASE i \in (Len(r.hits) + 1)..Len(c.hits) /\ j \in (Len(r.hits) + 1)..Len(c.hits)
    BY <2>3, <1>1
  <2> QED BY <2>1, <2>2, <2>3, <1>3
<1>5. ASSUME NEW n, NEW k
      PROVE  HitAt(c.hits, n, k) <=> \/ HitAt(r.hits, n, k)
                                     \/ k = at /\ n \in Met(r, S) /\ HitAt(c.hits, n, at)
  <2>1. HitAt(r.hits, n, k) => HitAt(c.hits, n, k)
    BY <1>3 DEF HitAt
  <2>2. HitAt(c.hits, n, k) => HitAt(r.hits, n, k) \/ (k = at /\ n \in Met(r, S))
    BY <1>1, <1>3 DEF HitAt
  <2> QED BY <2>1, <2>2
<1> QED
  BY <1>4, <1>5 DEF c

\* A log from which some of the oldest, or of the newest, have been taken.
LEMMA PartUnique ==
  ASSUME NEW log \in Seq(HitEntry), NEW m \in 0..Len(log), Unique(log)
  PROVE  Unique(SubSeq(log, 1, m)) /\ Unique(SubSeq(log, m + 1, Len(log)))
<1> DEFINE u == SubSeq(log, 1, m)
           v == SubSeq(log, m + 1, Len(log))
<1>1. /\ Len(u) = m /\ \A i \in 1..m : u[i] = log[i]
      /\ Len(v) = Len(log) - m /\ \A i \in 1..(Len(log) - m) : v[i] = log[m + i]
  BY CutInTwo
<1> HIDE DEF u, v
<1>2. Unique(u)
  <2>1. \A i \in 1..m : i \in 1..Len(log)
    OBVIOUS
  <2> QED BY <2>1, <1>1 DEF Unique
<1>3. Unique(v)
  <2> SUFFICES ASSUME NEW n \in Set, NEW i \in 1..Len(v), NEW j \in 1..Len(v),
                      v[i].num = n, v[j].num = n, v[i].icount = v[j].icount
               PROVE  i = j
    BY DEF Unique
  <2>1. m + i \in 1..Len(log) /\ m + j \in 1..Len(log) /\ v[i] = log[m + i] /\ v[j] = log[m + j]
    BY <1>1
  <2>2. m + i = m + j
    BY <2>1 DEF Unique
  <2> QED BY <2>2, <1>1
<1> QED
  BY <1>2, <1>3 DEF u, v

\* What the log forgets is older than what the history still reaches.
LEMMA ForgetUnique ==
  ASSUME NEW log \in Seq(HitEntry), NEW oldest \in Nat
  PROVE  /\ Unique(log) => Unique(Forget(log, oldest))
         /\ \A n, k : HitAt(Forget(log, oldest), n, k) => HitAt(log, n, k)
         /\ \A n, k : HitAt(log, n, k) /\ k >= oldest => HitAt(Forget(log, oldest), n, k)
<1>0. Reachable(log, oldest) \in 1..(Len(log) + 1)
  BY ReachableIs
<1> DEFINE m == Reachable(log, oldest) - 1
           kept == SubSeq(log, m + 1, Len(log))
           T == {i \in DOMAIN log : log[i].icount >= oldest} \cup {Len(log) + 1}
<1>1. m \in 0..Len(log) /\ Forget(log, oldest) = kept
  BY ReachableIs
<1>2. \A i \in 1..Len(log) : log[i].icount >= oldest => i > m
  <2>1. T \in SUBSET Nat /\ T # {}
    OBVIOUS
  <2>2. Reachable(log, oldest) = Min(T)
    BY DEF Reachable
  <2>3. \A i \in 1..Len(log) : log[i].icount >= oldest => i \in T
    OBVIOUS
  <2> HIDE DEF T
  <2>4. \A i \in T : Min(T) <= i
    BY <2>1, SmallestExists
  <2>5. Reachable(log, oldest) \in Int
    BY <1>0
  <2>6. ASSUME NEW i \in 1..Len(log), log[i].icount >= oldest PROVE i > m
    <3>1. Reachable(log, oldest) <= i
      BY <2>2, <2>3, <2>4, <2>6
    <3> QED BY <3>1, <2>5
  <2> QED BY <2>6
<1> HIDE DEF m, T
<1>3. Unique(log) => Unique(kept)
  BY <1>1, PartUnique
<1>4. Len(kept) = Len(log) - m /\ \A i \in 1..(Len(log) - m) : kept[i] = log[m + i]
  BY <1>1, CutInTwo
<1> HIDE DEF kept
<1>5. \A i \in 1..Len(kept) : m + i \in 1..Len(log) /\ kept[i] = log[m + i]
  BY <1>1, <1>4
<1>6. ASSUME NEW n, NEW k, HitAt(kept, n, k) PROVE HitAt(log, n, k)
  BY <1>5, <1>6 DEF HitAt
<1>7. ASSUME NEW n, NEW k, HitAt(log, n, k), k >= oldest PROVE HitAt(kept, n, k)
  <2>1. PICK i \in 1..Len(log) : log[i].num = n /\ log[i].icount = k
    BY <1>7 DEF HitAt
  <2>2. i > m
    BY <1>2, <1>7, <2>1
  <2>3. i - m \in 1..Len(kept) /\ m + (i - m) = i
    BY <1>1, <1>4, <2>2
  <2>4. kept[i - m] = log[i]
    BY <2>3, <1>5
  <2> QED BY <2>1, <2>3, <2>4 DEF HitAt
<1> QED
  BY <1>1, <1>3, <1>6, <1>7

\* A register watch that is in the log for this instruction has looked at it.
Looked(bps, log) ==
  \A n \in DOMAIN bps :
    bps[n].kind = REGISTER /\ HitAt(log, n, icount) => bps[n].previous = Reg[Now]

\* The table by address leads to execute breakpoints.
ByAddrRight == \A a \in Addrs : byAddr[a] \in Set => breakpoints[byAddr[a]].kind = EXECUTE

\* No execute breakpoint has been asked about an instruction a run comes to.
Unasked ==
  running /\ ~halted /\ ~first =>
    \A n \in Set : breakpoints[n].kind = EXECUTE => ~HitAt(hits, n, icount)

\* Whoever is said to have stopped the run is in the log.
Reports(e) == e # None /\ e.reason \in {"breakpoint", "watchpoint"}

Told ==
  /\ running /\ ~halted => stop = None
  /\ running /\ Reports(stop) => HitAt(hits, stop.num, icount)
  /\ running /\ pending # None => HitAt(hits, pending.num, icount)
  /\ ~running /\ Reports(event) => HitAt(hits, event.num, icount)

LogRight == ByAddrRight /\ Unique(hits) /\ Looked(breakpoints, hits)

ArriveInv == OrderInv /\ LogRight /\ Unasked /\ Told

\* Between two runs.
LEMMA AtRest ==
  ASSUME Told, ~running, UNCHANGED <<past, hits, running, event>> PROVE Unasked' /\ Told'
BY DEF Told, Unasked, HitAt, icount

LEMMA ChangedLog ==
  ASSUME LogRight, Set' = Set, UNCHANGED <<past, byAddr, hits>>,
         \A n \in Set : breakpoints'[n].kind = breakpoints[n].kind
                        /\ breakpoints'[n].previous = breakpoints[n].previous
  PROVE  LogRight'
<1>1. ByAddrRight'
  BY DEF LogRight, ByAddrRight
<1>2. Unique(hits)'
  BY DEF LogRight, Unique
<1>3. Looked(breakpoints, hits)'
  BY DEF LogRight, Looked, HitAt, icount, Now, Set
<1> QED
  BY <1>1, <1>2, <1>3 DEF LogRight

LEMMA WithoutLog ==
  ASSUME LogRight, CountInv, NEW num, Without(num), UNCHANGED <<past, hits>> PROVE LogRight'
<1>1. Set' = Set \ {num} /\ \A n \in Set' : breakpoints'[n] = breakpoints[n]
  BY DEF Without, Set
<1>2. \A a \in Addrs : byAddr'[a] = IF byAddr[a] = num THEN None ELSE byAddr[a]
  BY DEF Without
<1>3. None \notin Set
  BY SetOfNums, Numbers DEF CountInv
<1>4. ByAddrRight'
  BY <1>1, <1>2, <1>3 DEF LogRight, ByAddrRight
<1>5. Unique(hits)'
  BY <1>1 DEF LogRight, Unique
<1>6. Looked(breakpoints, hits)'
  BY <1>1 DEF LogRight, Looked, HitAt, icount, Now, Set
<1> QED
  BY <1>4, <1>5, <1>6 DEF LogRight

LEMMA NewLog ==
  ASSUME LogRight, CountInv, NEW bp, nextBp <= MaxBps,
         breakpoints' = [n \in Set \cup {nextBp} |-> IF n = nextBp THEN bp ELSE breakpoints[n]],
         byAddr' = byAddr \/ (bp.kind = EXECUTE /\ \E a \in Addrs : byAddr' = [byAddr EXCEPT ![a] = nextBp]),
         UNCHANGED <<past, hits>>
  PROVE  LogRight'
<1>1. Set' = Set \cup {nextBp} /\ breakpoints'[nextBp] = bp /\ nextBp \notin Set /\ nextBp # None
      /\ \A n \in Set : breakpoints'[n] = breakpoints[n]
  BY SetOfNums, Numbers DEF CountInv, BpTypes, Set
<1>2. ~HitAt(hits, nextBp, icount) /\ \A i \in 1..Len(hits) : hits[i].num # nextBp
  <2>1. nextBp \in Nat /\ hits \in Seq(HitEntry) /\ \A i \in 1..Len(hits) : hits[i].num < nextBp
    BY Numbers DEF CountInv, BpTypes, TypeOK, HitEntry
  <2>2. \A i \in 1..Len(hits) : hits[i].num \in Nat
    <3> SUFFICES ASSUME NEW i \in 1..Len(hits) PROVE hits[i].num \in Nat
      OBVIOUS
    <3>1. hits[i] \in HitEntry
      BY <2>1
    <3> QED BY <3>1 DEF HitEntry, Nums
  <2>3. \A i \in 1..Len(hits) : hits[i].num # nextBp
    BY <2>1, <2>2
  <2> QED BY <2>3 DEF HitAt
<1>3. ByAddrRight'
  <2>1. \A a \in Addrs : byAddr[a] # nextBp
    BY <1>1 DEF CountInv, BpTypes, TypeOK
  <2>2. byAddr \in [Addrs -> Nums \cup {None}]
    BY DEF CountInv, BpTypes
  <2>3. \A a \in Addrs : byAddr'[a] = byAddr[a] \/ (bp.kind = EXECUTE /\ byAddr'[a] = nextBp)
    BY <2>2
  <2> QED BY <1>1, <2>1, <2>3 DEF LogRight, ByAddrRight
<1>4. Unique(hits)'
  BY <1>1, <1>2 DEF LogRight, Unique
<1>5. Looked(breakpoints, hits)'
  BY <1>1, <1>2 DEF LogRight, Looked, HitAt, icount, Now, Set
<1> QED
  BY <1>3, <1>4, <1>5 DEF LogRight

LEMMA RestArrives ==
  ASSUME ArriveInv, OrderInv',
         \/ Add \/ (\E num \in Set : Delete(num) \/ Toggle(num))
         \/ (\E num \in Set, cond \in Conds : SetCondition(num, cond))
         \/ (\E num \in Set, n \in 0..MaxIgnore : SetIgnore(num, n))
  PROVE  ArriveInv'
<1>0. CountInv /\ LogRight /\ Told /\ \A n \in Set : breakpoints[n] \in Bp
  BY DEF ArriveInv, OrderInv, CountInv, BpTypes, TypeOK
<1>1. ~running /\ UNCHANGED <<past, hits, running, event>>
  BY DEF Add, Extend, Delete, Toggle, SetCondition, SetIgnore, Idle, control
<1>2. CASE Add
  <2>1. PICK bp : Extend(bp) /\ (bp.kind = EXECUTE => bp.at \in Addrs)
    <3>1. \A kind, at : Fresh(kind, at, FALSE).kind = kind /\ Fresh(kind, at, FALSE).at = at
      BY DEF Fresh
    <3>2. REGISTER # EXECUTE /\ ACCESS # EXECUTE
      BY DEF REGISTER, ACCESS, EXECUTE
    <3>3. CASE \E a \in Addrs : Extend(Fresh(EXECUTE, a, FALSE))
      BY <3>3, <3>1
    <3>4. CASE \E d \in Data : Extend(Fresh(ACCESS, d, FALSE))
      BY <3>4, <3>1, <3>2
    <3>5. CASE Extend(Fresh(REGISTER, None, FALSE))
      BY <3>5, <3>1, <3>2
    <3> QED BY <1>2, <3>3, <3>4, <3>5 DEF Add
  <2>2. LogRight'
    BY <1>0, <1>1, <2>1, NewLog DEF Extend
  <2> QED BY <2>2, <1>0, <1>1, AtRest DEF ArriveInv
<1>3. CASE \E num \in Set : Delete(num)
  BY <1>0, <1>1, <1>3, WithoutLog, AtRest DEF Delete, ArriveInv
<1>4. ASSUME NEW num \in Set, \/ Toggle(num) \/ \E cond \in Conds : SetCondition(num, cond)
                              \/ \E n \in 0..MaxIgnore : SetIgnore(num, n)
      PROVE  ArriveInv'
  <2>1. byAddr' = byAddr /\ \/ \E x : breakpoints' = [breakpoints EXCEPT ![num].enabled = x]
                            \/ \E x : breakpoints' = [breakpoints EXCEPT ![num].cond = x]
                            \/ \E x : breakpoints' = [breakpoints EXCEPT ![num].ignore = x]
    BY <1>4 DEF Toggle, SetCondition, SetIgnore
  <2>2. Set' = Set /\ \A n \in Set : breakpoints'[n].kind = breakpoints[n].kind
                                     /\ breakpoints'[n].previous = breakpoints[n].previous
    BY <2>1, <1>0 DEF Set, Bp
  <2> QED BY <2>1, <2>2, <1>0, <1>1, ChangedLog, AtRest DEF ArriveInv
<1> QED
  BY <1>2, <1>3, <1>4

\* An answer after which the log is still right, with what it says of its hits.
GoodAnswer(r) ==
  /\ Answer(r) /\ Behind(r.hits, icount) /\ Unique(r.hits) /\ Looked(r.bps, r.hits)
  /\ r.fired # None => HitAt(r.hits, r.fired, icount)

LEMMA AsIsGood == ASSUME ArriveInv PROVE GoodAnswer(AsIs)
<1>1. AsIs.bps = breakpoints /\ AsIs.hits = hits /\ AsIs.fired = None
  BY DEF AsIs
<1> QED
  BY <1>1, AsIsAnswer DEF ArriveInv, OrderInv, LogRight, GoodAnswer

LEMMA RegistersGood ==
  ASSUME ArriveInv
  PROVE  /\ GoodAnswer(Registers)
         /\ \A n \in Set : HitAt(Registers.hits, n, icount) /\ breakpoints[n].kind = EXECUTE
              => HitAt(hits, n, icount)
<1> DEFINE c == Count(AsIs, Changed, icount)
           R == Registers
<1>1. CountInv /\ BpTypes /\ icount \in Nat /\ Changed \in SUBSET Set
  BY PastIs DEF ArriveInv, OrderInv, CountInv, Changed, Enabled
<1>2. AsIs.bps = breakpoints /\ AsIs.hits = hits /\ Typed(AsIs)
  BY <1>1, AsIsAnswer DEF AsIs, Answer
<1>3. \A n \in Changed : ~HitAt(hits, n, icount)
  BY <1>1 DEF ArriveInv, LogRight, Looked, Changed, Enabled, Set
<1>4. Unique(c.hits) /\ (c.fired # None => HitAt(c.hits, c.fired, icount))
  BY <1>1, <1>2, <1>3, CountUnique, CountHits DEF ArriveInv, LogRight
<1>5. \A n : HitAt(c.hits, n, icount) => HitAt(hits, n, icount) \/ n \in Met(AsIs, Changed)
  BY <1>1, <1>2, CountUnique
<1>6. \A n \in Set : SameBreakpoint(c.bps[n], breakpoints[n]) /\ c.bps[n].previous = breakpoints[n].previous
  BY <1>1, <1>2, CountKeeps
<1>7. /\ R.hits = c.hits /\ R.fired = c.fired /\ DOMAIN R.bps = Set
      /\ \A n \in Set : R.bps[n] = IF n \in Met(AsIs, Changed) THEN Seen(c.bps[n]) ELSE c.bps[n]
      /\ \A n \in Set : c.bps[n] \in Bp
  BY <1>1, RegistersAre DEF Answer, Typed
<1> HIDE DEF c
<1>8. Met(AsIs, Changed) \subseteq Changed
  BY DEF Met
<1>9. Looked(R.bps, R.hits)
  <2> SUFFICES ASSUME NEW n \in Set, R.bps[n].kind = REGISTER, HitAt(R.hits, n, icount)
               PROVE  R.bps[n].previous = Reg[Now]
    BY <1>7 DEF Looked
  <2>1. CASE n \in Met(AsIs, Changed)
    BY <2>1, <1>1, <1>7, SeenType
  <2>2. CASE n \notin Met(AsIs, Changed)
    <3>1. HitAt(hits, n, icount) /\ R.bps[n] = c.bps[n]
      BY <2>2, <1>5, <1>7
    <3>2. breakpoints[n].kind = REGISTER
      BY <3>1, <1>6 DEF SameBreakpoint
    <3>3. breakpoints[n].previous = Reg[Now]
      BY <3>1, <3>2 DEF ArriveInv, LogRight, Looked, Set
    <3> QED BY <3>1, <3>3, <1>6
  <2> QED BY <2>1, <2>2
<1>10. Answer(R) /\ Behind(R.hits, icount)
  BY <1>1, RegistersAnswer, RegistersBehind DEF ArriveInv
<1>11. GoodAnswer(R)
  BY <1>4, <1>7, <1>9, <1>10 DEF GoodAnswer
<1>12. ASSUME NEW n \in Set, HitAt(R.hits, n, icount), breakpoints[n].kind = EXECUTE
       PROVE  HitAt(hits, n, icount)
  <2>1. n \notin Changed
    BY <1>12 DEF Changed, Enabled, REGISTER, EXECUTE
  <2> QED BY <2>1, <1>5, <1>7, <1>8, <1>12
<1> QED
  BY <1>11, <1>12

\* The one execute breakpoint asked is not in the log for this instruction.
LEMMA ExecuteGood ==
  ASSUME ArriveInv, running, ~halted, ~first PROVE GoodAnswer(Execute(Registers))
<1> DEFINE r == Registers
           S == {n \in Set : byAddr[PC[Now]] = n /\ r.bps[n].enabled}
           c == Count(r, S, icount)
<1>1. CountInv /\ BpTypes /\ icount \in Nat /\ PC[Now] \in Addrs
  BY PastIs DEF ArriveInv, OrderInv, CountInv
<1>2. GoodAnswer(r) /\ Answer(r) /\ Typed(r) /\ Behind(r.hits, icount) /\ Unique(r.hits) /\ Looked(r.bps, r.hits)
  BY RegistersGood DEF GoodAnswer, Answer
<1>3. S \in SUBSET Set /\ \A n \in S : breakpoints[n].kind = EXECUTE
  BY <1>1 DEF ArriveInv, LogRight, ByAddrRight
<1>4. \A n \in S : ~HitAt(r.hits, n, icount)
  BY <1>3, RegistersGood DEF ArriveInv, Unasked
<1>5. Execute(r) = c
  BY DEF Execute
<1> HIDE DEF r, S
<1>6. Unique(c.hits) /\ (c.fired # None => HitAt(c.hits, c.fired, icount))
      /\ \A n : HitAt(c.hits, n, icount) => HitAt(r.hits, n, icount) \/ n \in S
  <2>1. Met(r, S) \subseteq S
    BY DEF Met
  <2> QED BY <2>1, <1>1, <1>2, <1>3, <1>4, CountUnique, CountHits
<1>7. DOMAIN c.bps = Set /\ \A n \in Set : /\ SameBreakpoint(c.bps[n], r.bps[n])
                                           /\ c.bps[n].previous = r.bps[n].previous
  BY <1>1, <1>2, <1>3, CountKeeps DEF Typed
<1>8. Answer(c) /\ Behind(c.hits, icount)
  BY <1>1, <1>2, <1>3, CountAnswer, CountBehind
<1> HIDE DEF c
<1>9. Looked(c.bps, c.hits)
  <2> SUFFICES ASSUME NEW n \in Set, c.bps[n].kind = REGISTER, HitAt(c.hits, n, icount)
               PROVE  c.bps[n].previous = Reg[Now]
    BY <1>7 DEF Looked
  <2>1. r.bps[n].kind = REGISTER /\ breakpoints[n].kind = REGISTER
    BY <1>2, <1>7 DEF SameBreakpoint, Answer
  <2>2. n \notin S
    BY <2>1, <1>3 DEF REGISTER, EXECUTE
  <2>3. HitAt(r.hits, n, icount)
    BY <2>2, <1>6
  <2>4. DOMAIN r.bps = Set
    BY <1>2 DEF Typed
  <2> QED BY <2>1, <2>3, <2>4, <1>2, <1>7 DEF Looked
<1>10. GoodAnswer(c)
  BY <1>6, <1>8, <1>9 DEF GoodAnswer
<1> QED
  BY <1>5, <1>10 DEF r

\* The accesses of an instruction are counted at the next one, where nothing
\* is in the log yet.
LEMMA AccessesGood ==
  ASSUME QuietFaults, ArriveInv, NEW r, GoodAnswer(r)
  PROVE  LET m == Accesses(r) IN
         /\ Answer(m) /\ Unique(m.hits)
         /\ m.fired # None => HitAt(m.hits, m.fired, icount + 1)
         /\ \A n \in Set : HitAt(m.hits, n, icount + 1) => breakpoints[n].kind = ACCESS
         /\ Now \in Faulting => m.fired = None /\ Looked(m.bps, m.hits)
<1> DEFINE S == {n \in Enabled(ACCESS) : breakpoints[n].at \in Touches[Now]}
           c == Count(r, S, icount + 1)
<1>1. CountInv /\ BpTypes /\ icount \in Nat /\ icount + 1 \in Nat
  BY PastIs DEF ArriveInv, OrderInv, CountInv
<1>2. Answer(r) /\ Typed(r) /\ Behind(r.hits, icount) /\ Unique(r.hits) /\ Looked(r.bps, r.hits)
  BY DEF GoodAnswer, Answer
<1>3. S \in SUBSET Set /\ (\A n \in S : breakpoints[n].kind = ACCESS) /\ Accesses(r) = c
  BY DEF Enabled, Accesses
<1>4. Now \in Faulting => S = {}
  <2>1. \A n \in Set : breakpoints[n].kind \in Kinds \cup {EXECUTE}
    BY <1>1 DEF BpTypes, TypeOK, Bp
  <2>2. ACCESS # EXECUTE
    BY DEF ACCESS, EXECUTE
  <2> QED BY <2>1, <2>2 DEF QuietFaults, Enabled
<1> HIDE DEF S
<1>5. \A n : ~HitAt(r.hits, n, icount + 1)
  <2> SUFFICES ASSUME NEW i \in 1..Len(r.hits), r.hits[i].icount = icount + 1 PROVE FALSE
    BY DEF HitAt
  <2>1. r.hits[i].icount <= icount
    BY <1>2 DEF Behind
  <2> QED BY <2>1, <1>1
<1>6. Unique(c.hits) /\ (c.fired # None => HitAt(c.hits, c.fired, icount + 1))
  BY <1>1, <1>2, <1>3, <1>5, CountUnique, CountHits
<1>7. /\ \A n : HitAt(c.hits, n, icount + 1) => n \in S
      /\ \A n : HitAt(c.hits, n, icount) => HitAt(r.hits, n, icount)
  <2>1. Met(r, S) \subseteq S /\ icount # icount + 1
    BY <1>1 DEF Met
  <2>2. \A n, k : HitAt(c.hits, n, k) => HitAt(r.hits, n, k) \/ (k = icount + 1 /\ n \in Met(r, S))
    BY <1>1, <1>2, <1>3, CountUnique
  <2> HIDE DEF c
  <2> QED BY <2>1, <2>2, <1>5
<1>8. Answer(c)
  BY <1>1, <1>2, <1>3, CountAnswer
<1>9. DOMAIN c.bps = Set /\ \A n \in Set : /\ SameBreakpoint(c.bps[n], r.bps[n])
                                           /\ c.bps[n].previous = r.bps[n].previous
  BY <1>1, <1>2, <1>3, CountKeeps DEF Typed
<1>10. S = {} => c.fired = None
  BY DEF Count, Fires
<1> HIDE DEF c
<1>11. Looked(c.bps, c.hits)
  <2> SUFFICES ASSUME NEW n \in Set, c.bps[n].kind = REGISTER, HitAt(c.hits, n, icount)
               PROVE  c.bps[n].previous = Reg[Now]
    BY <1>9 DEF Looked
  <2>1. r.bps[n].kind = REGISTER /\ HitAt(r.hits, n, icount)
    BY <1>7, <1>9 DEF SameBreakpoint
  <2>2. DOMAIN r.bps = Set
    BY <1>2 DEF Typed
  <2> QED BY <2>1, <2>2, <1>2, <1>9 DEF Looked
<1> QED
  BY <1>3, <1>4, <1>6, <1>7, <1>8, <1>10, <1>11

\* The log stays right, whatever it has come to be for.
LEMMA TakenLog ==
  ASSUME ArriveInv, NEW m, Answer(m), breakpoints' = m.bps, byAddr' = byAddr,
         Unique(hits'), Looked(m.bps, hits)'
  PROVE  LogRight'
<1>1. DOMAIN m.bps = Set /\ \A n \in Set : m.bps[n].kind = breakpoints[n].kind
  BY DEF Answer, Typed, SameBreakpoint
<1>2. Set' = Set
  BY <1>1 DEF Set
<1>3. ByAddrRight'
  BY <1>1, <1>2 DEF ByAddrRight, ArriveInv, LogRight
<1>4. Unique(hits)'
  BY <1>2 DEF Unique
<1>5. Looked(breakpoints, hits)'
  BY DEF Looked
<1> QED
  BY <1>3, <1>4, <1>5 DEF LogRight

LEMMA RetireArrives ==
  ASSUME QuietFaults, ArriveInv, OrderInv', running, ~halted, NEW r, GoodAnswer(r), r.fired = None,
         Retire(r), UNCHANGED <<byAddr, running, event>>
  PROVE  ArriveInv'
<1>1. /\ icount \in Nat /\ earliest \in 0..icount /\ past \in Seq(State) /\ Len(past) \in Nat
      /\ stop = None
  BY PastIs DEF ArriveInv, OrderInv, CountInv, Told
<1>2. PICK oldest \in earliest..icount, m \in {r, Accesses(r)} :
        /\ Now \notin Faulting => m = Accesses(r)
        /\ breakpoints' = m.bps /\ hits' = Forget(m.hits, oldest)
        /\ pending' = IF m.fired # None THEN Why("watchpoint", m.fired) ELSE None
  BY DEF Retire
<1>3. oldest \in Nat /\ oldest <= icount + 1
  BY <1>1
<1>4. Answer(m) /\ Unique(m.hits) /\ m.hits \in Seq(HitEntry)
  BY AccessesGood DEF GoodAnswer, Answer, Typed
<1>5. /\ Unique(hits')
      /\ \A n, k : HitAt(hits', n, k) => HitAt(m.hits, n, k)
      /\ \A n, k : HitAt(m.hits, n, k) /\ k >= oldest => HitAt(hits', n, k)
  BY <1>2, <1>3, <1>4, ForgetUnique
<1>6. CASE Now \in Faulting
  <2>1. halted' = TRUE /\ stop' = Why("error", None) /\ UNCHANGED past
    BY <1>6 DEF Retire
  <2>2. m.fired = None /\ Looked(m.bps, m.hits)
    BY <1>6, AccessesGood DEF GoodAnswer
  <2>3. Looked(m.bps, hits)'
    BY <2>1, <2>2, <1>5 DEF Looked, icount, Now
  <2>4. LogRight'
    BY <2>3, <1>2, <1>4, <1>5, TakenLog
  <2>5. Unasked' /\ Told'
    <3>1. pending' = None
      BY <2>2, <1>2
    <3>2. Why("error", None).reason = "error"
      BY DEF Why
    <3> QED BY <2>1, <3>1, <3>2 DEF Unasked, Told, Reports
  <2> QED BY <2>4, <2>5 DEF ArriveInv
<1>7. CASE Now \notin Faulting
  <2>1. UNCHANGED <<halted, stop>> /\ past' = Append(past, Step[Now])
    BY <1>7 DEF Retire
  <2>2. icount' = icount + 1
    BY <2>1, <1>1 DEF icount
  <2>3. /\ m.fired # None => HitAt(m.hits, m.fired, icount + 1)
        /\ \A n \in Set : HitAt(m.hits, n, icount + 1) => breakpoints[n].kind = ACCESS
    BY <1>2, <1>7, AccessesGood
  <2>4. \A n \in Set : HitAt(hits', n, icount') => m.bps[n].kind = ACCESS
    BY <2>2, <2>3, <1>4, <1>5 DEF Answer, SameBreakpoint
  <2>5. DOMAIN m.bps = Set /\ Set' = Set
    BY <1>2, <1>4 DEF Answer, Typed, Set
  <2>6. ACCESS # REGISTER /\ ACCESS # EXECUTE
    BY DEF ACCESS, REGISTER, EXECUTE
  <2>7. LogRight'
    <3>1. Looked(m.bps, hits)'
      BY <2>4, <2>5, <2>6 DEF Looked
    <3> QED BY <3>1, <1>2, <1>4, <1>5, TakenLog
  <2>8. Unasked'
    BY <2>4, <2>5, <2>6, <1>2 DEF Unasked
  <2>9. pending' # None => HitAt(hits', pending'.num, icount')
    <3> SUFFICES ASSUME pending' # None PROVE HitAt(hits', pending'.num, icount')
      OBVIOUS
    <3>1. m.fired # None /\ pending' = Why("watchpoint", m.fired)
      BY <1>2
    <3>2. pending'.num = m.fired
      BY <3>1 DEF Why
    <3>3. icount + 1 >= oldest
      BY <1>1, <1>3
    <3> QED BY <3>1, <3>2, <3>3, <2>2, <2>3, <1>5
  <2>10. Told'
    BY <2>1, <2>9, <1>1 DEF Told, Reports
  <2> QED BY <2>7, <2>8, <2>10 DEF ArriveInv
<1> QED
  BY <1>6, <1>7

LEMMA HaltArrives ==
  ASSUME ArriveInv, OrderInv', running, NEW r, GoodAnswer(r), NEW why,
         Reports(why) => HitAt(r.hits, why.num, icount),
         Halt(why, r), UNCHANGED <<byAddr, running, event>>
  PROVE  ArriveInv'
<1>1. /\ halted' /\ stop' = why /\ pending' = None /\ breakpoints' = r.bps /\ hits' = r.hits
      /\ UNCHANGED past
  BY DEF Halt
<1>2. LogRight'
  <2>1. Looked(r.bps, hits)'
    BY <1>1 DEF GoodAnswer, Looked, icount, Now
  <2> QED BY <2>1, <1>1, TakenLog DEF GoodAnswer
<1>3. Unasked' /\ Told'
  BY <1>1 DEF Unasked, Told, icount
<1> QED
  BY <1>2, <1>3 DEF ArriveInv

LEMMA HookArrives == ASSUME QuietFaults, ArriveInv, OrderInv', Hook PROVE ArriveInv'
<1>1. running /\ ~halted /\ UNCHANGED <<byAddr, running, event>>
  BY DEF Hook
<1>2. GoodAnswer(AsIs) /\ GoodAnswer(Registers) /\ (~first => GoodAnswer(Execute(Registers)))
  BY <1>1, AsIsGood, RegistersGood, ExecuteGood
<1>3. AsIs.hits = hits
  BY DEF AsIs
<1>4. \A reason, n : Why(reason, n).reason = reason /\ Why(reason, n).num = n
  BY DEF Why
<1>5. CASE pending # None /\ Halt(pending, AsIs)
  <2>1. HitAt(AsIs.hits, pending.num, icount)
    BY <1>1, <1>3, <1>5 DEF ArriveInv, Told
  <2> QED BY <2>1, <1>1, <1>2, <1>5, HaltArrives
<1>6. CASE Registers.fired # None /\ Halt(Why("watchpoint", Registers.fired), Registers)
  BY <1>1, <1>2, <1>4, <1>6, HaltArrives DEF GoodAnswer
<1>7. CASE Halt(Why("exit", None), Registers) \/ Halt(None, Registers)
  BY <1>1, <1>2, <1>4, <1>7, HaltArrives DEF Reports
<1>8. CASE ~first /\ Execute(Registers).fired # None
           /\ Halt(Why("breakpoint", Execute(Registers).fired), Execute(Registers))
  BY <1>1, <1>2, <1>4, <1>8, HaltArrives DEF GoodAnswer
<1>9. CASE Registers.fired = None /\ Retire(Registers)
  BY <1>1, <1>2, <1>9, RetireArrives
<1>10. CASE ~first /\ Execute(Registers).fired = None /\ Retire(Execute(Registers))
  BY <1>1, <1>2, <1>10, RetireArrives
<1> QED
  BY <1>5, <1>6, <1>7, <1>8, <1>9, <1>10 DEF Hook

LEMMA ReturnArrives == ASSUME ArriveInv, OrderInv', Return PROVE ArriveInv'
<1>1. running /\ ~running' /\ event' = Verdict /\ UNCHANGED <<past, nextBp, hits>>
  BY DEF Return
<1>2. \A reason, n : Why(reason, n).reason = reason
  BY DEF Why
<1>3. ASSUME Reports(event') PROVE HitAt(hits, event'.num, icount)
  <2>1. Verdict = stop \/ Verdict = pending \/ ~Reports(Verdict)
    BY <1>2 DEF Verdict, Reports
  <2> QED BY <2>1, <1>1, <1>3 DEF ArriveInv, Told, Reports
<1>4. Unasked' /\ Told'
  BY <1>1, <1>3 DEF Unasked, Told, icount
<1>5. CountInv /\ LogRight
  BY DEF ArriveInv, OrderInv
<1>6. CASE Without(event'.num)
  <2>1. LogRight'
    BY <1>1, <1>5, <1>6, WithoutLog
  <2> QED BY <2>1, <1>4 DEF ArriveInv
<1>7. CASE UNCHANGED <<breakpoints, byAddr>>
  <2>1. Set' = Set
    BY <1>7 DEF Set
  <2>2. LogRight'
    BY <2>1, <1>1, <1>5, <1>7, ChangedLog
  <2> QED BY <2>2, <1>4 DEF ArriveInv
<1> QED
  BY <1>6, <1>7 DEF Return

LEMMA StartedArrives ==
  ASSUME ArriveInv, OrderInv', Run \/ StepOne \/ \E a \in Addrs : Advance(a) PROVE ArriveInv'
<1>1. /\ running' /\ first' /\ ~halted' /\ stop' = None /\ pending' = None
      /\ UNCHANGED <<past, hits>>
  BY DEF Run, StepOne, Advance, Started
<1>2. Unasked' /\ Told'
  BY <1>1 DEF Unasked, Told, Reports
<1>3. CountInv /\ LogRight
  BY DEF ArriveInv, OrderInv
<1>4. CASE UNCHANGED <<breakpoints, byAddr>>
  <2>1. Set' = Set
    BY <1>4 DEF Set
  <2>2. LogRight'
    BY <2>1, <1>1, <1>3, <1>4, ChangedLog
  <2> QED BY <2>2, <1>2 DEF ArriveInv
<1>5. ASSUME NEW a \in Addrs, Advance(a) PROVE ArriveInv'
  <2> DEFINE bp == Fresh(EXECUTE, a, TRUE)
  <2>1. /\ nextBp <= MaxBps /\ byAddr' = [byAddr EXCEPT ![a] = nextBp]
        /\ breakpoints' = [n \in Set \cup {nextBp} |-> IF n = nextBp THEN bp ELSE breakpoints[n]]
    BY <1>5 DEF Advance
  <2>2. bp.kind = EXECUTE
    BY DEF Fresh
  <2> HIDE DEF bp
  <2>3. LogRight'
    BY <2>1, <2>2, <1>1, <1>3, NewLog
  <2> QED BY <2>3, <1>2 DEF ArriveInv
<1> QED
  BY <1>4, <1>5 DEF Run, StepOne

\* Arriving is written down where it was not.
LEMMA RecountUnique ==
  ASSUME BpTypes, NEW r, Typed(r), Unique(r.hits), NEW k \in Nat, NEW num \in Set
  PROVE  Unique(Recount(r, k, num).hits) /\ HitAt(Recount(r, k, num).hits, num, k)
<1> DEFINE e == [icount |-> k, num |-> num, ignored |-> FALSE]
           c == Recount(r, k, num)
<1>1. r.hits \in Seq(HitEntry) /\ Len(r.hits) \in Nat /\ DOMAIN r.hits = 1..Len(r.hits)
  BY DEF Typed
<1>2. CASE HitAt(r.hits, num, k)
  <2>1. c = r
    BY <1>1, <1>2 DEF Recount, HitAt
  <2> QED BY <2>1, <1>2
<1>3. CASE ~HitAt(r.hits, num, k)
  <2>1. c.hits = Append(r.hits, e)
    BY <1>1, <1>3 DEF Recount, HitAt
  <2>2. e \in HitEntry /\ e.num = num /\ e.icount = k
    BY SetOfNums DEF HitEntry
  <2> HIDE DEF e, c
  <2>3. /\ Len(c.hits) = Len(r.hits) + 1 /\ c.hits[Len(r.hits) + 1] = e
        /\ \A i \in 1..Len(r.hits) : c.hits[i] = r.hits[i]
    BY <1>1, <2>1, <2>2
  <2>4. HitAt(c.hits, num, k)
    <3>1. Len(r.hits) + 1 \in 1..Len(c.hits)
      BY <1>1, <2>3
    <3> QED BY <3>1, <2>2, <2>3 DEF HitAt
  <2>5. \A i \in 1..Len(c.hits) : i \in 1..Len(r.hits) \/ i = Len(r.hits) + 1
    BY <1>1, <2>3
  <2>6. ASSUME NEW i \in 1..Len(r.hits), c.hits[i].num = num, c.hits[i].icount = k PROVE FALSE
    BY <2>6, <2>3, <1>3 DEF HitAt
  <2>7. Unique(c.hits)
    <3> SUFFICES ASSUME NEW n \in Set, NEW i \in 1..Len(c.hits), NEW j \in 1..Len(c.hits),
                        c.hits[i].num = n, c.hits[j].num = n, c.hits[i].icount = c.hits[j].icount
                 PROVE  i = j
      BY DEF Unique
    <3>1. CASE i \in 1..Len(r.hits) /\ j \in 1..Len(r.hits)
      <4>1. r.hits[i].num = n /\ r.hits[j].num = n /\ r.hits[i].icount = r.hits[j].icount
        BY <3>1, <2>3
      <4> QED BY <3>1, <4>1 DEF Unique
    <3>2. i = Len(r.hits) + 1 => j = Len(r.hits) + 1
      BY <2>2, <2>3, <2>5, <2>6
    <3>3. j = Len(r.hits) + 1 => i = Len(r.hits) + 1
      BY <2>2, <2>3, <2>5, <2>6
    <3> QED BY <3>1, <3>2, <3>3, <2>5
  <2> QED BY <2>4, <2>7 DEF c
<1> QED
  BY <1>2, <1>3

\* Going back takes entries off the end, and register watches look again.
LEMMA BackArrives ==
  ASSUME ArriveInv, OrderInv', ~running, NEW k, NEW r, GoesBack(k, r),
         Reports(event') => \E num \in Set : /\ r = Recount(UndoHits(k), k, num)
                                             /\ event'.num = num
  PROVE  ArriveInv'
<1>1. CountInv /\ BpTypes /\ hits \in Seq(HitEntry) /\ Unique(hits)
  BY DEF ArriveInv, OrderInv, LogRight, CountInv, BpTypes, TypeOK, HitEntry
<1>2. k \in Nat /\ Answer(r) /\ Typed(r) /\ icount' = k /\ Now' = past[k + 1]
  BY <1>1, BackAnswers DEF Answer
<1>3. /\ hits' = r.hits /\ UNCHANGED <<byAddr, running>>
      /\ breakpoints' = [n \in Set |->
           [r.bps[n] EXCEPT !.previous = IF r.bps[n].kind = REGISTER THEN Reg[past[k + 1]] ELSE None]]
  BY DEF GoesBack, Rewind
<1>4. UndoHits(k).hits = Undone(hits, k) /\ Typed(UndoHits(k))
  BY <1>1, <1>2, UndoKeeps DEF Answer
<1>5. Unique(UndoHits(k).hits)
  <2>1. PICK m \in 0..Len(hits) : Undone(hits, k) = SubSeq(hits, 1, m)
    BY <1>1, <1>2, UndoneIs
  <2> QED BY <2>1, <1>1, <1>4, PartUnique
<1>6. \A num \in Set : /\ Unique(Recount(UndoHits(k), k, num).hits)
                       /\ HitAt(Recount(UndoHits(k), k, num).hits, num, k)
  BY <1>1, <1>2, <1>4, <1>5, RecountUnique
<1>7. Unique(r.hits)
  BY <1>5, <1>6 DEF GoesBack
<1>8. Set' = Set /\ \A n \in Set : /\ breakpoints'[n].kind = breakpoints[n].kind
                                   /\ breakpoints'[n].kind = REGISTER => breakpoints'[n].previous = Reg[Now']
  <2>1. Set' = Set
    BY <1>3 DEF Set
  <2>2. \A n \in Set : r.bps[n] \in Bp /\ r.bps[n].kind = breakpoints[n].kind
    BY <1>2 DEF Typed, Answer, SameBreakpoint
  <2> QED BY <2>1, <2>2, <1>2, <1>3 DEF Bp
<1>9. ByAddrRight'
  BY <1>3, <1>8 DEF ByAddrRight, ArriveInv, LogRight
<1>10. Unique(hits)'
  BY <1>3, <1>7, <1>8 DEF Unique
<1>11. Looked(breakpoints, hits)'
  BY <1>8 DEF Looked, Set
<1>12. Unasked' /\ Told'
  BY <1>2, <1>3, <1>6 DEF Unasked, Told
<1> QED
  BY <1>9, <1>10, <1>11, <1>12 DEF ArriveInv, LogRight

\* Each way back says of itself what it has counted.
LEMMA WaysArrive ==
  ASSUME MaxBack = 1, ArriveInv, OrderInv',
         \/ \E k \in 0..MaxICount : Goto(k)
         \/ \E n \in 1..MaxBack : StepBackOver(n)
         \/ \E cps \in Checkpoints : ResumeBack(cps)
  PROVE  ArriveInv'
<1>1. BpTypes /\ icount \in Nat /\ earliest \in Nat /\ earliest <= icount
  BY PastIs DEF ArriveInv, OrderInv, CountInv
<1>2. \A reason, n : Why(reason, n).reason = reason /\ Why(reason, n).num = n
  BY DEF Why
<1>3. ~Reports(Why("step", None)) /\ ~Reports(Why("stopped", None))
  BY <1>2 DEF Reports
<1>4. ~running
  BY DEF Goto, StepBackOver, ResumeBack, Reversible
<1>5. ASSUME NEW k \in 0..MaxICount, Goto(k) PROVE ArriveInv'
  <2>1. GoesBack(k, UndoHits(k))
    BY <1>1, <1>5 DEF Goto, Reversible, GoesBack
  <2>2. event' = Why("step", None)
    BY <1>5 DEF Goto
  <2> QED BY <2>1, <2>2, <1>3, <1>4, BackArrives
<1>6. CASE StepBackOver(1)
  <2>1. PICK p \in BackOver(1) : /\ Rewind(p[1], UndoHits(p[1]))
                                 /\ event' = IF earliest \in {p[i] : i \in 0..0} THEN event ELSE Why("step", None)
    BY <1>6 DEF StepBackOver
  <2>2. p[0] = icount /\ p[1] \in earliest..icount
    BY DEF BackOver
  <2>3. earliest < icount
    BY <1>1, <1>6 DEF StepBackOver, Reversible
  <2>4. event' = Why("step", None)
    <3>1. \A i \in 0..0 : p[i] # earliest
      BY <2>2, <2>3, <1>1
    <3> QED BY <3>1, <2>1
  <2>5. GoesBack(p[1], UndoHits(p[1]))
    BY <2>1, <2>2 DEF GoesBack
  <2> QED BY <2>4, <2>5, <1>3, <1>4, BackArrives
<1>7. ASSUME NEW cps \in Checkpoints, ResumeBack(cps) PROVE ArriveInv'
  <2>1. CASE Rewind(earliest, UndoHits(earliest)) /\ event' = Why("stopped", None)
    <3>1. GoesBack(earliest, UndoHits(earliest))
      BY <1>1, <2>1 DEF GoesBack
    <3> QED BY <3>1, <2>1, <1>3, <1>4, BackArrives
  <2>2. ASSUME NEW c \in Candidate, c.at \in earliest..(icount - 1),
               Rewind(c.at, Recount(UndoHits(c.at), c.at, c.num)),
               event' = Why(IF c.kind = ACCESS THEN "watchpoint" ELSE "breakpoint", c.num)
        PROVE  ArriveInv'
    <3>1. c.num \in Set
      BY DEF Candidate
    <3>2. c.at \in earliest..icount
      BY <1>1, <2>2
    <3>3. GoesBack(c.at, Recount(UndoHits(c.at), c.at, c.num))
      BY <2>2, <3>1, <3>2 DEF GoesBack
    <3>4. event'.num = c.num
      BY <1>2, <2>2
    <3> QED BY <3>1, <3>3, <3>4, <1>4, BackArrives
  <2> QED BY <2>1, <2>2, <1>1, <1>7, ArrivesAt
<1>8. \A n \in 1..MaxBack : n = 1
  OBVIOUS
<1> QED
  BY <1>5, <1>6, <1>7, <1>8

LEMMA RNextArrives ==
  ASSUME QuietFaults, MaxBack = 1, ArriveInv, [RNext]_vars PROVE ArriveInv'
<1>1. OrderInv'
  BY RNextBehind DEF ArriveInv
<1>2. CASE Hook
  BY <1>1, <1>2, HookArrives
<1>3. CASE Return
  BY <1>1, <1>3, ReturnArrives
<1>4. CASE UNCHANGED vars
  <2>1. Set' = Set /\ LogRight
    BY <1>4 DEF vars, Set, ArriveInv
  <2>2. LogRight'
    BY <2>1, <1>4, ChangedLog DEF vars
  <2>3. Unasked' /\ Told'
    BY <1>4 DEF vars, control, ArriveInv, Unasked, Told, icount, Set
  <2> QED BY <2>2, <2>3, <1>1 DEF ArriveInv
<1> QED
  BY <1>1, <1>2, <1>3, <1>4, RestArrives, StartedArrives, WaysArrive DEF RNext, Next

\* Having arrived at a breakpoint, forwards or backwards, it has been counted
\* there, once (target.py, _recount), for every program and set of breakpoints:
\* where no instruction that faults touches what is watched, and users step
\* back over one call at a time, since a longer step that runs out of history
\* leaves the event of before.
THEOREM ArrivesOnce == ASSUME QuietFaults, MaxBack = 1 PROVE RSpec => []ArrivedOnce
<1>1. Init => ArriveInv
  <2> SUFFICES ASSUME Init PROVE ArriveInv
    OBVIOUS
  <2>1. /\ hits = <<>> /\ Len(hits) = 0 /\ ~running /\ event = None /\ Set = {}
        /\ \A a \in Addrs : byAddr[a] = None
    BY DEF Init, Set
  <2>2. OrderInv
    BY <2>1, InitCounts DEF OrderInv, Behind
  <2>3. LogRight
    BY <2>1 DEF LogRight, ByAddrRight, Unique, Looked, Set
  <2>4. Unasked /\ Told
    BY <2>1 DEF Unasked, Told, Reports
  <2> QED BY <2>2, <2>3, <2>4 DEF ArriveInv
<1>2. ArriveInv /\ [RNext]_vars => ArriveInv'
  BY RNextArrives
<1>3. ArriveInv => ArrivedOnce
  <2> SUFFICES ASSUME ArriveInv, ~running, Reports(event), event.num \in Set
               PROVE  Cardinality({i \in DOMAIN hits : hits[i].num = event.num /\ hits[i].icount = icount}) = 1
    BY DEF ArrivedOnce, Reports
  <2>1. PICK i \in 1..Len(hits) : hits[i].num = event.num /\ hits[i].icount = icount
    BY DEF ArriveInv, Told, HitAt
  <2>2. \A j \in 1..Len(hits) : hits[j].num = event.num /\ hits[j].icount = icount => j = i
    BY <2>1 DEF ArriveInv, LogRight, Unique
  <2>3. DOMAIN hits = 1..Len(hits)
    BY DEF ArriveInv, OrderInv, CountInv, BpTypes, TypeOK
  <2>4. {j \in DOMAIN hits : hits[j].num = event.num /\ hits[j].icount = icount} = {i}
    BY <2>1, <2>2, <2>3
  <2> QED BY <2>4, FS_Singleton
<1> QED
  BY <1>1, <1>2, <1>3, PTL DEF RSpec

----------------------------------------------------------------------------
(* Where a watchpoint stops. *)

Before == past[Len(past) - 1]

AllOn == \A n \in Set : breakpoints[n].enabled

\* A register watch has looked here, or at the instruction before.
Looks ==
  \A n \in Set : breakpoints[n].kind = REGISTER
    => \/ breakpoints[n].previous = Reg[Now]
       \/ icount > 0 /\ breakpoints[n].previous = Reg[Before]

\* What a watchpoint is reported for.
Saw(e) ==
  e # None /\ e.reason = "watchpoint" =>
    /\ icount > 0 /\ e.num \in Set
    /\ IF breakpoints[e.num].kind = ACCESS THEN breakpoints[e.num].at \in Touches[Before]
       ELSE Reg[Before] # Reg[Now]

Reported ==
  running => (~halted => stop = None) /\ Saw(stop) /\ (stop = None => Saw(pending))

WatchInv == CountInv /\ AllOn /\ Looks /\ Reported

LEMMA WatchSame ==
  ASSUME AllOn, Looks, UNCHANGED past,
         \A n \in Set' : n \in Set /\ breakpoints'[n].enabled = breakpoints[n].enabled
                         /\ breakpoints'[n].kind = breakpoints[n].kind
                         /\ breakpoints'[n].previous = breakpoints[n].previous
  PROVE  AllOn' /\ Looks'
BY DEF AllOn, Looks, icount, Now, Before

LEMMA WatchNew ==
  ASSUME AllOn, Looks, UNCHANGED past, NEW kind, NEW at, NEW temporary,
         breakpoints' = [n \in Set \cup {nextBp} |->
                           IF n = nextBp THEN Fresh(kind, at, temporary) ELSE breakpoints[n]]
  PROVE  AllOn' /\ Looks'
<1>1. /\ Fresh(kind, at, temporary).enabled /\ Fresh(kind, at, temporary).kind = kind
      /\ kind = REGISTER => Fresh(kind, at, temporary).previous = Reg[Now]
  BY DEF Fresh
<1>2. Set' = Set \cup {nextBp}
      /\ \A n \in Set' : breakpoints'[n] = IF n = nextBp THEN Fresh(kind, at, temporary) ELSE breakpoints[n]
  BY DEF Set
<1>3. AllOn'
  BY <1>1, <1>2 DEF AllOn
<1>4. Looks'
  BY <1>1, <1>2 DEF Looks, icount, Now, Before
<1> QED
  BY <1>3, <1>4

LEMMA RestWatches ==
  ASSUME WatchInv, CountInv', ~Toggling,
         \/ Add \/ (\E num \in Set : Delete(num) \/ Toggle(num))
         \/ (\E num \in Set, cond \in Conds : SetCondition(num, cond))
         \/ (\E num \in Set, n \in 0..MaxIgnore : SetIgnore(num, n))
  PROVE  WatchInv'
<1>1. ~running /\ UNCHANGED <<past, running>>
  BY DEF Add, Extend, Delete, Toggle, SetCondition, SetIgnore, Idle, control
<1>2. Reported'
  BY <1>1 DEF Reported
<1>3. AllOn /\ Looks /\ \A n \in Set : breakpoints[n] \in Bp
  BY DEF WatchInv, CountInv, BpTypes, TypeOK
<1>4. CASE Add
  <2>1. PICK kind, at : Extend(Fresh(kind, at, FALSE))
    BY <1>4 DEF Add
  <2>2. AllOn' /\ Looks'
    BY <2>1, <1>1, <1>3, WatchNew DEF Extend
  <2> QED BY <2>2, <1>2 DEF WatchInv
<1>5. ASSUME NEW num \in Set, Delete(num) PROVE WatchInv'
  <2>1. Set' = Set \ {num} /\ \A n \in Set' : breakpoints'[n] = breakpoints[n]
    BY <1>5 DEF Delete, Without, Set
  <2>2. AllOn' /\ Looks'
    BY <2>1, <1>1, <1>3, WatchSame
  <2> QED BY <2>2, <1>2 DEF WatchInv
<1>6. ASSUME NEW num \in Set, \/ \E cond \in Conds : SetCondition(num, cond)
                              \/ \E n \in 0..MaxIgnore : SetIgnore(num, n)
      PROVE  WatchInv'
  <2>1. \/ \E x : breakpoints' = [breakpoints EXCEPT ![num].cond = x]
        \/ \E x : breakpoints' = [breakpoints EXCEPT ![num].ignore = x]
    BY <1>6 DEF SetCondition, SetIgnore
  <2>2. Set' = Set /\ \A n \in Set : breakpoints'[n].enabled = breakpoints[n].enabled
                         /\ breakpoints'[n].kind = breakpoints[n].kind
                         /\ breakpoints'[n].previous = breakpoints[n].previous
    BY <2>1, <1>3 DEF Set, Bp
  <2>3. AllOn' /\ Looks'
    BY <2>2, <1>1, <1>3, WatchSame
  <2> QED BY <2>3, <1>2 DEF WatchInv
<1> QED
  BY <1>4, <1>5, <1>6 DEF Toggle

LEMMA StartedWatches ==
  ASSUME WatchInv, CountInv', Run \/ StepOne \/ \E a \in Addrs : Advance(a) PROVE WatchInv'
<1>1. stop' = None /\ pending' = None /\ UNCHANGED past
  BY DEF Run, StepOne, Advance, Started
<1>2. Reported'
  BY <1>1 DEF Reported, Saw
<1>3. AllOn /\ Looks
  BY DEF WatchInv
<1>4. CASE UNCHANGED breakpoints
  <2>1. AllOn' /\ Looks'
    BY <1>1, <1>3, <1>4, WatchSame DEF Set
  <2> QED BY <2>1, <1>2 DEF WatchInv
<1>5. ASSUME NEW a \in Addrs, Advance(a) PROVE WatchInv'
  <2>1. breakpoints' = [n \in Set \cup {nextBp} |->
                          IF n = nextBp THEN Fresh(EXECUTE, a, TRUE) ELSE breakpoints[n]]
    BY <1>5 DEF Advance
  <2>2. AllOn' /\ Looks'
    BY <2>1, <1>1, <1>3, WatchNew
  <2> QED BY <2>2, <1>2 DEF WatchInv
<1> QED
  BY <1>4, <1>5 DEF Run, StepOne

\* After a hook has asked, a register watch has looked here or not looked.
Glanced(r) ==
  \A n \in Set : r.bps[n].kind = REGISTER
    => r.bps[n].previous = Reg[Now] \/ r.bps[n].previous = breakpoints[n].previous

AllLooked(r) == \A n \in Set : r.bps[n].kind = REGISTER => r.bps[n].previous = Reg[Now]

LEMMA RegistersLook ==
  ASSUME WatchInv
  PROVE  /\ Answer(Registers) /\ Glanced(Registers)
         /\ Registers.fired = None => AllLooked(Registers)
         /\ Registers.fired # None => Saw(Why("watchpoint", Registers.fired))
<1> DEFINE c == Count(AsIs, Changed, icount)
           R == Registers
<1>1. CountInv /\ BpTypes /\ icount \in Nat /\ Changed \in SUBSET Set
  BY PastIs DEF WatchInv, CountInv, Changed, Enabled
<1>2. AsIs.bps = breakpoints /\ Typed(AsIs)
  BY <1>1, AsIsAnswer DEF AsIs, Answer
<1>3. \A n \in Set : c.bps[n].kind = breakpoints[n].kind /\ c.bps[n].previous = breakpoints[n].previous
  BY <1>1, <1>2, CountKeeps DEF SameBreakpoint
<1>4. /\ c.fired = None => Met(AsIs, Changed) = Changed
      /\ c.fired # None => c.fired \in Changed
  BY <1>1, <1>2, WhoFires
<1>5. /\ R.fired = c.fired
      /\ \A n \in Set : R.bps[n] = IF n \in Met(AsIs, Changed) THEN Seen(c.bps[n]) ELSE c.bps[n]
      /\ \A n \in Set : c.bps[n] \in Bp
  BY <1>1, RegistersAre DEF Answer, Typed
<1> HIDE DEF c
<1>6. Glanced(R)
  BY <1>1, <1>3, <1>5, SeenType DEF Glanced
<1>7. ASSUME R.fired = None PROVE AllLooked(R)
  <2> SUFFICES ASSUME NEW n \in Set, R.bps[n].kind = REGISTER PROVE R.bps[n].previous = Reg[Now]
    BY DEF AllLooked
  <2>1. CASE n \in Changed
    BY <2>1, <1>1, <1>4, <1>5, <1>7, SeenType
  <2>2. CASE n \notin Changed
    <3>1. R.bps[n] = c.bps[n]
      BY <2>2, <1>4, <1>5, <1>7
    <3> QED BY <3>1, <2>2, <1>3 DEF Changed, Enabled, WatchInv, AllOn
  <2> QED BY <2>1, <2>2
<1>8. ASSUME R.fired # None PROVE Saw(Why("watchpoint", R.fired))
  <2>1. R.fired \in Set /\ breakpoints[R.fired].kind = REGISTER /\ breakpoints[R.fired].previous # Reg[Now]
    BY <1>4, <1>5, <1>8 DEF Changed, Enabled
  <2>2. icount > 0 /\ Reg[Before] # Reg[Now]
    BY <2>1 DEF WatchInv, Looks
  <2>3. Why("watchpoint", R.fired).num = R.fired
    BY DEF Why
  <2>4. REGISTER # ACCESS
    BY DEF REGISTER, ACCESS
  <2> HIDE DEF R
  <2> QED BY <2>1, <2>2, <2>3, <2>4 DEF Saw
<1>9. Answer(R)
  BY <1>1, RegistersAnswer
<1> QED
  BY <1>6, <1>7, <1>8, <1>9 DEF R

LEMMA ExecuteLooks ==
  ASSUME WatchInv
  PROVE  /\ Answer(Execute(Registers)) /\ Glanced(Execute(Registers))
         /\ Registers.fired = None => AllLooked(Execute(Registers))
<1> DEFINE r == Registers
           S == {n \in Set : byAddr[PC[Now]] = n /\ r.bps[n].enabled}
           c == Count(r, S, icount)
<1>1. CountInv /\ BpTypes /\ icount \in Nat /\ Answer(r) /\ Typed(r)
  BY PastIs, RegistersLook DEF WatchInv, CountInv, Answer
<1>2. S \in SUBSET Set /\ Execute(r) = c
  BY DEF Execute
<1> HIDE DEF r, S
<1>3. \A n \in Set : c.bps[n].kind = r.bps[n].kind /\ c.bps[n].previous = r.bps[n].previous
  BY <1>1, <1>2, CountKeeps DEF SameBreakpoint
<1>4. Answer(c)
  BY <1>1, <1>2, CountAnswer
<1> HIDE DEF c
<1>5. Glanced(r) /\ (r.fired = None => AllLooked(r))
  BY RegistersLook DEF r
<1>6. Glanced(c) /\ (r.fired = None => AllLooked(c))
  BY <1>3, <1>5 DEF Glanced, AllLooked
<1> QED
  BY <1>2, <1>4, <1>6 DEF r

LEMMA HaltWatches ==
  ASSUME WatchInv, CountInv', NEW r, Answer(r), Glanced(r), NEW why, Saw(why), Halt(why, r)
  PROVE  WatchInv'
<1>1. halted' /\ stop' = why /\ pending' = None /\ breakpoints' = r.bps /\ UNCHANGED past
  BY DEF Halt
<1>2. Set' = Set /\ \A n \in Set : SameBreakpoint(breakpoints'[n], breakpoints[n])
  BY <1>1 DEF Answer, Typed, Set
<1>3. AllOn'
  BY <1>2 DEF WatchInv, AllOn, SameBreakpoint
<1>4. Looks'
  BY <1>1, <1>2 DEF WatchInv, Looks, Glanced, SameBreakpoint, icount, Now, Before
<1>5. Saw(stop)'
  BY <1>1, <1>2 DEF Saw, SameBreakpoint, icount, Now, Before
<1>6. Saw(pending)'
  BY <1>1 DEF Saw
<1>7. Reported'
  BY <1>1, <1>5, <1>6 DEF Reported
<1> QED
  BY <1>3, <1>4, <1>7 DEF WatchInv

LEMMA RetireWatches ==
  ASSUME WatchInv, CountInv', running, ~halted, NEW r, Answer(r), AllLooked(r), Retire(r)
  PROVE  WatchInv'
<1> DEFINE S == {n \in Enabled(ACCESS) : breakpoints[n].at \in Touches[Now]}
           a == Accesses(r)
<1>1. /\ CountInv /\ BpTypes /\ Typed(r) /\ icount \in Nat /\ icount + 1 \in Nat /\ stop = None
      /\ past \in Seq(State) /\ Len(past) \in Nat \ {0}
  BY PastIs DEF WatchInv, CountInv, Reported, Answer
<1>2. S \in SUBSET Set /\ a = Count(r, S, icount + 1) /\ Answer(a)
  BY <1>1, AccessesAnswer DEF Accesses, Enabled
<1>3. /\ \A n \in Set : a.bps[n].kind = r.bps[n].kind /\ a.bps[n].previous = r.bps[n].previous
      /\ a.fired # None => a.fired \in S
  <2> DEFINE c == Count(r, S, icount + 1)
  <2>1. \A n \in Set : SameBreakpoint(c.bps[n], r.bps[n]) /\ c.bps[n].previous = r.bps[n].previous
    BY <1>1, <1>2, CountKeeps
  <2>2. c.fired # None => c.fired \in S
    BY <1>1, <1>2, WhoFires
  <2> HIDE DEF S, c
  <2>3. a = c
    BY <1>2 DEF c
  <2> HIDE DEF a
  <2> QED BY <2>1, <2>2, <2>3 DEF SameBreakpoint
<1> HIDE DEF a
<1>4. PICK m \in {r, a} : /\ Now \notin Faulting => m = a
                          /\ breakpoints' = m.bps
                          /\ pending' = IF m.fired # None THEN Why("watchpoint", m.fired) ELSE None
  BY DEF Retire, a
<1>5. Answer(m) /\ AllLooked(m)
  BY <1>2, <1>3 DEF AllLooked
<1>6. Set' = Set /\ \A n \in Set : SameBreakpoint(breakpoints'[n], breakpoints[n])
  BY <1>4, <1>5 DEF Answer, Typed, Set
<1>7. AllOn'
  BY <1>6 DEF WatchInv, AllOn, SameBreakpoint
<1>8. CASE Now \in Faulting
  <2>1. stop' = Why("error", None) /\ halted' /\ UNCHANGED past
    BY <1>8 DEF Retire
  <2>2. Looks'
    BY <2>1, <1>4, <1>5, <1>6 DEF Looks, AllLooked, Now
  <2>3. Why("error", None).reason = "error" /\ Why("error", None) # None
    BY ProgramAssumption DEF Why
  <2> QED BY <2>1, <2>2, <2>3, <1>7 DEF WatchInv, Reported, Saw
<1>9. CASE Now \notin Faulting
  <2>1. UNCHANGED <<halted, stop>> /\ past' = Append(past, Step[Now])
    BY <1>9 DEF Retire
  <2>2. icount' = icount + 1 /\ Before' = Now
    BY <2>1, <1>1 DEF icount, Before, Now
  <2>3. Looks'
    BY <2>2, <1>1, <1>4, <1>5, <1>6 DEF Looks, AllLooked
  <2>4. Saw(pending)'
    <3> SUFFICES ASSUME pending' # None
                 PROVE  /\ icount' > 0 /\ pending'.num \in Set'
                        /\ breakpoints'[pending'.num].kind = ACCESS
                        /\ breakpoints'[pending'.num].at \in Touches[Before']
      BY DEF Saw
    <3>1. a.fired # None /\ pending' = Why("watchpoint", a.fired)
      BY <1>4, <1>9
    <3>2. pending'.num = a.fired
      BY <3>1 DEF Why
    <3>3. a.fired \in Set /\ breakpoints[a.fired].kind = ACCESS /\ breakpoints[a.fired].at \in Touches[Now]
      BY <3>1, <1>3 DEF Enabled
    <3>4. /\ breakpoints'[a.fired].kind = ACCESS
          /\ breakpoints'[a.fired].at \in Touches[Now]
      BY <3>3, <1>6 DEF SameBreakpoint
    <3>5. icount' > 0
      BY <2>2, <1>1
    <3> QED BY <3>2, <3>3, <3>4, <3>5, <2>2, <1>6
  <2>5. Reported'
    BY <2>1, <2>4, <1>1 DEF Reported, Saw
  <2> QED BY <2>3, <2>5, <1>7 DEF WatchInv
<1> QED
  BY <1>8, <1>9

LEMMA HookWatches == ASSUME WatchInv, CountInv', Hook PROVE WatchInv'
<1>1. running /\ ~halted /\ CountInv
  BY DEF Hook, WatchInv
<1>2. /\ Answer(Registers) /\ Glanced(Registers)
      /\ Answer(Execute(Registers)) /\ Glanced(Execute(Registers))
  BY RegistersLook, ExecuteLooks
<1>3. Answer(AsIs) /\ Glanced(AsIs)
  <2>1. AsIs.bps = breakpoints
    BY DEF AsIs
  <2> QED BY <2>1, <1>1, AsIsAnswer DEF Glanced
<1>4. Saw(None) /\ \A reason, n : reason # "watchpoint" => Saw(Why(reason, n))
  BY DEF Saw, Why
<1>5. CASE pending # None /\ Halt(pending, AsIs)
  <2>1. Saw(pending)
    BY <1>1 DEF WatchInv, Reported
  <2> QED BY <2>1, <1>3, <1>5, HaltWatches
<1>6. CASE Registers.fired # None /\ Halt(Why("watchpoint", Registers.fired), Registers)
  <2>1. Saw(Why("watchpoint", Registers.fired))
    BY <1>6, RegistersLook
  <2> QED BY <2>1, <1>2, <1>6, HaltWatches
<1>7. CASE Halt(Why("exit", None), Registers) \/ Halt(None, Registers)
  BY <1>2, <1>4, <1>7, HaltWatches
<1>8. CASE Halt(Why("breakpoint", Execute(Registers).fired), Execute(Registers))
  BY <1>2, <1>4, <1>8, HaltWatches
<1>9. CASE Registers.fired = None /\ Retire(Registers)
  BY <1>1, <1>2, <1>9, RegistersLook, RetireWatches
<1>10. CASE Registers.fired = None /\ Retire(Execute(Registers))
  BY <1>1, <1>2, <1>10, ExecuteLooks, RetireWatches
<1> QED
  BY <1>5, <1>6, <1>7, <1>8, <1>9, <1>10 DEF Hook

LEMMA ReturnWatches == ASSUME WatchInv, CountInv', Return PROVE WatchInv'
<1>1. ~running' /\ UNCHANGED past /\ AllOn /\ Looks
  BY DEF Return, WatchInv
<1>2. \A n \in Set' : n \in Set /\ breakpoints'[n] = breakpoints[n]
  BY DEF Return, Without, Set
<1>3. AllOn' /\ Looks'
  BY <1>1, <1>2, WatchSame
<1> QED
  BY <1>1, <1>3 DEF WatchInv, Reported

LEMMA BackWatches ==
  ASSUME WatchInv, CountInv', ~running, NEW k, NEW r, GoesBack(k, r) PROVE WatchInv'
<1>1. CountInv /\ Answer(r) /\ Now' = past[k + 1]
  BY BackAnswers DEF WatchInv
<1>2. /\ running' = running
      /\ breakpoints' = [n \in Set |->
           [r.bps[n] EXCEPT !.previous = IF r.bps[n].kind = REGISTER THEN Reg[past[k + 1]] ELSE None]]
  BY DEF GoesBack, Rewind
<1>3. \A n \in Set : r.bps[n] \in Bp /\ r.bps[n].enabled = breakpoints[n].enabled
  BY <1>1 DEF Answer, Typed, SameBreakpoint
<1>4. Set' = Set /\ \A n \in Set : /\ breakpoints'[n].enabled = breakpoints[n].enabled
                                   /\ breakpoints'[n].kind = REGISTER => breakpoints'[n].previous = Reg[Now']
  <2>1. Set' = Set
    BY <1>2 DEF Set
  <2> QED BY <2>1, <1>1, <1>2, <1>3 DEF Bp
<1>5. AllOn' /\ Looks'
  BY <1>4 DEF WatchInv, AllOn, Looks
<1> QED
  BY <1>2, <1>5 DEF WatchInv, Reported

\* A watchpoint stops right after the instruction that made the access or
\* changed the register, and nowhere else (target.py, _on_mem and
\* _changed_register), going forwards and after going back, for every program
\* and every set of watches that stay enabled.
THEOREM WatchesStopAfter == ASSUME ~Toggling PROVE RSpec => StopsAfterAccess
<1> DEFINE After ==
      running /\ ~running' /\ event'.reason = "watchpoint" =>
        /\ icount > 0
        /\ LET b == breakpoints[event'.num]
               before == past[Len(past) - 1]
           IN  IF b.kind = ACCESS THEN b.at \in Touches[before] ELSE Reg[before] # Reg[Now]
<1>1. Init => WatchInv
  <2> SUFFICES ASSUME Init PROVE WatchInv
    OBVIOUS
  <2>1. Set = {} /\ ~running
    BY DEF Init, Set
  <2> QED BY <2>1, InitCounts DEF WatchInv, AllOn, Looks, Reported
<1>2. ASSUME WatchInv, [RNext]_vars PROVE WatchInv'
  <2>1. CountInv' /\ BpTypes
    BY <1>2, RNextCounts DEF WatchInv, CountInv
  <2>2. CASE Hook
    BY <1>2, <2>1, <2>2, HookWatches
  <2>3. CASE Return
    BY <1>2, <2>1, <2>3, ReturnWatches
  <2>4. CASE \E k, r : GoesBack(k, r) /\ ~running
    BY <1>2, <2>1, <2>4, BackWatches
  <2>5. CASE UNCHANGED vars
    BY <1>2, <2>1, <2>5
       DEF vars, control, WatchInv, AllOn, Looks, Reported, Saw, Set, icount, Now, Before
  <2>6. ASSUME \/ \E k \in 0..MaxICount : Goto(k)
               \/ \E n \in 1..MaxBack : StepBackOver(n)
               \/ \E cps \in Checkpoints : ResumeBack(cps)
        PROVE  \E k, r : GoesBack(k, r) /\ ~running
    BY <2>1, <2>6, EveryWayBack DEF Goto, StepBackOver, ResumeBack, Reversible
  <2> QED BY <1>2, <2>1, <2>2, <2>3, <2>4, <2>5, <2>6, RestWatches, StartedWatches DEF RNext, Next
<1>3. ASSUME WatchInv, [RNext]_vars PROVE [After]_vars
  <2> SUFFICES ASSUME RNext, running, ~running', event'.reason = "watchpoint" PROVE After
    BY <1>3
  <2>1. Return
    BY DEF RNext, Next, Add, Extend, Delete, Toggle, SetCondition, SetIgnore, Idle, control,
           Run, StepOne, Advance, Started, Hook, Goto, StepBackOver, ResumeBack, Reversible
  <2>2. event' = Verdict
    BY <2>1 DEF Return
  <2>3. \A reason, n : Why(reason, n).reason = reason
    BY DEF Why
  <2>4. \/ Verdict = stop /\ stop # None
        \/ Verdict = pending /\ stop = None /\ pending # None
    BY <2>2, <2>3 DEF Verdict
  <2>5. Saw(event') /\ event' # None
    BY <1>3, <2>2, <2>4 DEF WatchInv, Reported
  <2> QED BY <2>5 DEF Saw, Before
<1> QED
  BY <1>1, <1>2, <1>3, PTL DEF RSpec, StopsAfterAccess

----------------------------------------------------------------------------
(* Stepping back over calls. *)

\* Instructions change the depth as what they are says.  A stubbed call, which
\* returns without a return instruction, does not.
DepthAsInsn == \A s \in State \ Faulting : Depth[Step[s]] = Depth[s] - DepthDelta(s)

\* The past is what the program does.
Chained ==
  \A i \in 1..(Len(past) - 1) : past[i] \notin Faulting /\ past[i + 1] = Step[past[i]]

OverInv == CountInv /\ Chained

LEMMA RNextChained == ASSUME OverInv, [RNext]_vars PROVE Chained'
<1>1. CountInv /\ past \in Seq(State) /\ Len(past) \in Nat \ {0}
  BY PastIs DEF OverInv, CountInv
<1>2. ASSUME UNCHANGED past PROVE Chained'
  BY <1>2 DEF OverInv, Chained
<1>3. ASSUME NEW r, Retire(r) PROVE Chained'
  <2>1. CASE Now \in Faulting
    BY <1>3, <2>1, <1>2 DEF Retire
  <2>2. CASE Now \notin Faulting
    <3>1. past' = Append(past, Step[Now]) /\ Step[Now] \in State
      BY <1>1, <1>3, <2>2, PastIs DEF Retire, CountInv
    <3>2. /\ Len(past') = Len(past) + 1 /\ past'[Len(past) + 1] = Step[Now]
          /\ \A i \in 1..Len(past) : past'[i] = past[i]
      BY <1>1, <3>1
    <3>3. ASSUME NEW i \in 1..(Len(past') - 1)
          PROVE  past'[i] \notin Faulting /\ past'[i + 1] = Step[past'[i]]
      <4>1. CASE i = Len(past)
        BY <1>1, <2>2, <3>2, <4>1 DEF Now
      <4>2. CASE i # Len(past)
        <5>1. i \in 1..(Len(past) - 1) /\ i \in 1..Len(past) /\ i + 1 \in 1..Len(past)
          BY <1>1, <3>2, <4>2
        <5> QED BY <5>1, <3>2 DEF OverInv, Chained
      <4> QED BY <4>1, <4>2
    <3> QED BY <3>3 DEF Chained
  <2> QED BY <2>1, <2>2
<1>4. ASSUME NEW k, NEW r, GoesBack(k, r) PROVE Chained'
  <2>1. /\ k \in Nat /\ k + 1 \in 1..Len(past) /\ Len(past') = k + 1
        /\ \A i \in 1..(k + 1) : past'[i] = past[i]
    BY <1>1, <1>4, BackAnswers
  <2>2. \A i \in 1..(Len(past') - 1) : /\ i \in 1..(Len(past) - 1)
                                       /\ i \in 1..(k + 1) /\ i + 1 \in 1..(k + 1)
    BY <1>1, <2>1
  <2> QED BY <2>1, <2>2 DEF OverInv, Chained
<1>5. CASE UNCHANGED vars
  BY <1>5, <1>2 DEF vars
<1>6. CASE Hook
  <2>1. \/ UNCHANGED past
        \/ Retire(Registers) \/ Retire(Execute(Registers))
    BY <1>6 DEF Hook, Halt
  <2> QED BY <2>1, <1>2, <1>3
<1>7. CASE \/ Add \/ (\E num \in Set : Delete(num) \/ Toggle(num))
           \/ (\E num \in Set, cond \in Conds : SetCondition(num, cond))
           \/ (\E num \in Set, n \in 0..MaxIgnore : SetIgnore(num, n))
  BY <1>7, <1>2 DEF Add, Extend, Delete, Toggle, SetCondition, SetIgnore, Idle, control
<1>8. CASE Run \/ StepOne \/ (\E a \in Addrs : Advance(a)) \/ Return
  BY <1>8, <1>2 DEF Run, StepOne, Advance, Started, Return
<1>9. CASE \/ (\E k \in 0..MaxICount : Goto(k)) \/ (\E n \in 1..MaxBack : StepBackOver(n))
           \/ (\E cps \in Checkpoints : ResumeBack(cps))
  BY <1>1, <1>4, <1>9, EveryWayBack DEF CountInv
<1> QED
  BY <1>5, <1>6, <1>7, <1>8, <1>9 DEF RNext, Next

\* The calls and returns since an instruction of the past add up to how much
\* deeper it is than now.
LEMMA DepthsAddUp ==
  ASSUME DepthAsInsn, OverInv, NEW j \in earliest..icount, Reversible(icount - 1)
  PROVE  SumFunctionOnSet([i \in 0..(icount - 1) |-> DepthDelta(At(i))], j..(icount - 1))
           = Depth[At(j)] - Depth[Now]
<1> DEFINE k == icount
           g == [i \in 0..(k - 1) |-> DepthDelta(At(i))]
           d == [i \in 0..k |-> Depth[At(i)]]
           n == k - j
<1>1. /\ past \in Seq(State) /\ Len(past) \in Nat \ {0} /\ k \in Nat /\ earliest \in 0..k /\ k = Len(past) - 1
      /\ \A i \in 1..Len(past) : past[i] \in State
  BY PastIs DEF OverInv, CountInv, icount
<1>2. ASSUME NEW i \in 0..k PROVE At(i) \in State /\ Depth[At(i)] \in Int
  <2>1. i + 1 \in 1..Len(past)
    BY <1>1
  <2>2. At(i) \in State
    BY <1>1, <2>1 DEF At
  <2> QED BY <2>2, CallsAssumption
<1>3. ASSUME NEW i \in 0..(k - 1)
      PROVE  DepthDelta(At(i)) \in Int /\ DepthDelta(At(i)) = Depth[At(i)] - Depth[At(i + 1)]
  <2>1. i + 1 \in 1..(Len(past) - 1) /\ i \in 0..k /\ i + 1 \in 0..k /\ (i + 1) + 1 = i + 2
    BY <1>1
  <2>2. At(i) \notin Faulting /\ At(i + 1) = Step[At(i)]
    BY <2>1 DEF OverInv, Chained, At
  <2>3. At(i) \in State /\ Depth[At(i)] \in Int /\ Depth[At(i + 1)] \in Int
    BY <1>2, <2>1
  <2>4. DepthDelta(At(i)) \in Int
    BY DEF DepthDelta
  <2>5. Depth[At(i + 1)] = Depth[At(i)] - DepthDelta(At(i))
    BY <2>2, <2>3 DEF DepthAsInsn
  <2> HIDE DEF k
  <2> QED BY <2>3, <2>4, <2>5
<1>4. g \in [0..(k - 1) -> Int] /\ IsFiniteSet(0..(k - 1))
  <2>1. 0 \in Int /\ k - 1 \in Int
    BY <1>1
  <2> HIDE DEF k
  <2>2. IsFiniteSet(0..(k - 1))
    BY <2>1, FS_Interval
  <2>3. g \in [0..(k - 1) -> Int]
    BY <1>3
  <2> QED BY <2>2, <2>3
<1>5. j \in Int /\ n \in Nat /\ j + n - 1 = k - 1 /\ j + n = k /\ j \in 0..k
  BY <1>1
<1>6. j..(j + n - 1) \subseteq 0..(k - 1) /\ \A i \in j..(j + n) : i \in 0..k
  BY <1>1, <1>5
<1>7. \A i \in j..(j + n) : d[i] \in Int
  BY <1>2, <1>6
<1>8. \A i \in j..(j + n - 1) : g[i] = d[i] - d[i + 1]
  <2> SUFFICES ASSUME NEW i \in j..(j + n - 1) PROVE g[i] = d[i] - d[i + 1]
    OBVIOUS
  <2>1. i \in 0..(k - 1) /\ i \in 0..k /\ i + 1 \in 0..k
    BY <1>1, <1>5, <1>6
  <2> HIDE DEF k
  <2> QED BY <2>1, <1>3
<1>9. d[j] = Depth[At(j)] /\ d[j + n] = Depth[Now]
  <2>1. k \in 0..k /\ At(k) = Now
    BY <1>1 DEF At, Now
  <2> HIDE DEF k
  <2> QED BY <2>1, <1>5
<1> HIDE DEF g, d, n
<1>10. SumFunctionOnSet(g, j..(j + n - 1)) = d[j] - d[j + n]
  <2> HIDE DEF k
  <2>1. Telescoped(g, 0..(k - 1), d, j, n)
    BY <1>4, <1>5, <1>6, <1>7, <1>8 DEF Telescoped
  <2> QED BY <2>1, SumTelescopes
<1> QED
  BY <1>5, <1>9, <1>10 DEF g

LEMMA PrevOverIs ==
  ASSUME DepthAsInsn, OverInv, Reversible(icount - 1)
  PROVE  LET o == PrevOver(icount) IN
         /\ o \in earliest..(icount - 1)
         /\ \A i \in (o + 1)..(icount - 1) : Depth[At(i)] > Depth[Now]
         /\ o > earliest => Depth[At(o)] <= Depth[Now]
<1> DEFINE k == icount
           rel == [j \in earliest..k |->
                     SumFunctionOnSet([i \in 0..(k - 1) |-> DepthDelta(At(i))], j..(k - 1))]
           level == {j \in earliest..(k - 1) : rel[j] <= 0}
           o == IF level = {} THEN earliest ELSE Max(level)
<1>1. k \in Nat /\ earliest \in Nat /\ earliest <= k - 1 /\ k - 1 \in Nat
  BY PastIs DEF Reversible, OverInv, CountInv
<1>2. ASSUME NEW j \in earliest..(k - 1)
      PROVE  /\ j \in level <=> Depth[At(j)] <= Depth[Now]
             /\ Depth[At(j)] \in Int /\ Depth[Now] \in Int
  <2>1. j \in earliest..k
    BY <1>1
  <2>2. rel[j] = Depth[At(j)] - Depth[Now]
    BY <2>1, DepthsAddUp
  <2>3. At(j) \in State /\ Now \in State
    <3>1. j + 1 \in 1..Len(past)
      BY <1>1 DEF icount
    <3> QED BY <3>1, PastIs DEF At, OverInv, CountInv
  <2>4. Depth[At(j)] \in Int /\ Depth[Now] \in Int
    BY <2>3, CallsAssumption
  <2> HIDE DEF rel
  <2> QED BY <2>2, <2>4
<1>3. PrevOver(icount) = o
  BY DEF PrevOver
<1>4. level \in SUBSET (0..(k - 1))
  BY <1>1
<1> HIDE DEF level
<1>5. CASE level = {}
  <2>1. \A i \in earliest..(k - 1) : Depth[At(i)] > Depth[Now]
    BY <1>2, <1>5
  <2>2. o = earliest /\ \A i \in (o + 1)..(k - 1) : i \in earliest..(k - 1)
    BY <1>1, <1>5
  <2> QED BY <1>1, <1>3, <2>1, <2>2
<1>6. CASE level # {}
  <2>1. o = Max(level) /\ o \in level /\ \A i \in level : i <= o
    BY <1>1, <1>4, <1>6, GreatestExists
  <2>2. o \in earliest..(k - 1)
    BY <2>1 DEF level
  <2> HIDE DEF o
  <2>3. ASSUME NEW i \in (o + 1)..(k - 1) PROVE Depth[At(i)] > Depth[Now]
    <3>1. i \in earliest..(k - 1) /\ ~ (i <= o)
      BY <1>1, <2>2
    <3> QED BY <3>1, <2>1, <1>2
  <2>4. Depth[At(o)] <= Depth[Now]
    BY <2>1, <2>2, <1>2
  <2> QED BY <1>3, <2>2, <2>3, <2>4
<1> QED
  BY <1>5, <1>6

\* A step back over calls ends no deeper than it started, and everything it
\* passes was deeper, wherever calls are known from returns by their
\* instructions (target.py, _prev_over and _depth_delta).
THEOREM StepsBackOver == ASSUME DepthAsInsn PROVE RSpec => OverCalls
<1> DEFINE Over ==
      Backwards /\ StepBackOver(1) =>
        /\ \A k \in (icount' + 1)..(icount - 1) : Depth[At(k)] > Depth[Now]
        /\ icount' > earliest => Depth[Now'] <= Depth[Now]
<1>1. Init => OverInv
  <2>1. Init => Chained
    BY DEF Init, Chained
  <2> QED BY <2>1, InitCounts DEF OverInv
<1>2. OverInv /\ [RNext]_vars => OverInv'
  BY RNextCounts, RNextChained DEF OverInv
<1>3. OverInv /\ [RNext]_vars => [Over]_vars
  <2> SUFFICES ASSUME OverInv, StepBackOver(1)
               PROVE  /\ \A k \in (icount' + 1)..(icount - 1) : Depth[At(k)] > Depth[Now]
                      /\ icount' > earliest => Depth[Now'] <= Depth[Now]
    OBVIOUS
  <2>1. Reversible(icount - 1) /\ icount # earliest /\ icount \in Nat /\ earliest \in Nat
    BY PastIs DEF StepBackOver, Reversible, OverInv, CountInv
  <2>2. PICK p \in BackOver(1) : Rewind(p[1], UndoHits(p[1]))
    BY DEF StepBackOver
  <2>3. p[1] = PrevOver(icount)
    <3>1. 1 \in 1..1 /\ 1 - 1 = 0
      OBVIOUS
    <3> QED BY <2>1, <3>1 DEF BackOver
  <2> DEFINE o == PrevOver(icount)
  <2>4. /\ o \in earliest..(icount - 1)
        /\ \A i \in (o + 1)..(icount - 1) : Depth[At(i)] > Depth[Now]
        /\ o > earliest => Depth[At(o)] <= Depth[Now]
    BY <2>1, PrevOverIs
  <2> HIDE DEF o
  <2>5. GoesBack(o, UndoHits(o))
    <3>1. Rewind(o, UndoHits(o))
      BY <2>2, <2>3 DEF o
    <3>2. o \in earliest..icount
      BY <2>1, <2>4
    <3> QED BY <3>1, <3>2 DEF GoesBack
  <2>6. icount' = o /\ Now' = At(o)
    BY <2>5, BackAnswers DEF OverInv, At
  <2> QED BY <2>4, <2>6
<1> QED
  BY <1>1, <1>2, <1>3, PTL DEF RSpec, OverCalls
=============================================================================
