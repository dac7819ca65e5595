--------------------------- MODULE TimelineProofs ---------------------------
(***************************************************************************)
(* Proofs about Timeline, for every program, interval, budget and bound:   *)
(* its types, how far a replay can have to run, and what it may hold; for  *)
(* every program that writes the pages it maps, that going back puts back  *)
(* exactly what was there, so that Timeline implements History; and, for   *)
(* every program and every layer, that the layer answering the program's   *)
(* calls is rewound with the machine (Effects).                            *)
(***************************************************************************)
EXTENDS Effects, Sums, SequenceTheorems

PageMap == [Pages -> Vals \cup {Absent}]

----------------------------------------------------------------------------
(* What Overlay computes. *)

\* A non-empty set of positions has a greatest one.
LEMMA NewestExists ==
  ASSUME NEW n \in Nat, NEW T, T \subseteq 1..n, T # {}
  PROVE  \E j \in T : \A i \in T : i <= j
<1> DEFINE U == {n - j : j \in T}
<1>1. U \subseteq Nat /\ U # {}
  <2>1. \A j \in T : n - j \in Nat
    OBVIOUS
  <2>2. PICK j \in T : TRUE
    OBVIOUS
  <2>3. n - j \in U
    OBVIOUS
  <2> QED BY <2>1, <2>3
<1>2. PICK u \in U : \A v \in U : ~ (<<v, u>> \in OpToRel(<, Nat))
  BY <1>1, NatLessThanWellFounded, WFMin
<1>3. \A v \in U : ~ (v < u)
  BY <1>1, <1>2 DEF OpToRel
<1>4. PICK j \in T : u = n - j
  OBVIOUS
<1>5. \A i \in T : i <= j
  <2> TAKE i \in T
  <2>1. n - i \in U
    OBVIOUS
  <2> QED BY <2>1, <1>3, <1>4
<1> QED BY <1>5

\* The page comes from the newest delta that holds it...
LEMMA OverlayHeld ==
  ASSUME NEW cs \in Seq(Checkpoint), NEW pages \in PageMap, NEW n \in 0..Len(cs),
         NEW p \in Pages, NEW j \in 1..n, cs[j].pages[p] # Absent,
         \A i \in (j + 1)..n : cs[i].pages[p] = Absent
  PROVE  Overlay(pages, cs, n)[p] = cs[j].pages[p]
<1> DEFINE holders == {i \in 1..n : cs[i].pages[p] # Absent}
           P(x) == x \in holders /\ \A i \in holders : i <= x
           c == CHOOSE x \in holders : \A i \in holders : i <= x
<1>1. P(j)
  OBVIOUS
<1>2. c \in holders /\ \A i \in holders : i <= c
  BY <1>1
<1>3. c = j
  BY <1>1, <1>2
<1>4. holders # {}
  BY <1>1
<1> HIDE DEF c
<1>5. Overlay(pages, cs, n)[p] = cs[c].pages[p]
  BY <1>4 DEF Overlay, c
<1> QED BY <1>3, <1>5

\* ... or, when no delta does, from the image underneath.
LEMMA OverlayUnheld ==
  ASSUME NEW cs \in Seq(Checkpoint), NEW pages \in PageMap, NEW n \in 0..Len(cs),
         NEW p \in Pages, \A i \in 1..n : cs[i].pages[p] = Absent
  PROVE  Overlay(pages, cs, n)[p] = pages[p]
BY DEF Overlay

\* The two cases above are the only ones.
LEMMA OverlayCases ==
  ASSUME NEW cs \in Seq(Checkpoint), NEW n \in 0..Len(cs), NEW p \in Pages
  PROVE  \/ \A i \in 1..n : cs[i].pages[p] = Absent
         \/ \E j \in 1..n : /\ cs[j].pages[p] # Absent
                            /\ \A i \in (j + 1)..n : cs[i].pages[p] = Absent
<1> DEFINE holders == {i \in 1..n : cs[i].pages[p] # Absent}
<1>1. CASE holders = {}
  BY <1>1
<1>2. CASE holders # {}
  <2>0. holders \subseteq 1..n /\ n \in Nat
    OBVIOUS
  <2> HIDE DEF holders
  <2>1. PICK j \in holders : \A i \in holders : i <= j
    BY <1>2, <2>0, NewestExists
  <2> USE DEF holders
  <2> QED BY <2>1
<1> QED BY <1>1, <1>2

\* Overlaying deltas gives an image of the pages.
LEMMA OverlayType ==
  ASSUME NEW cs \in Seq(Checkpoint), NEW pages \in PageMap, NEW n \in 0..Len(cs)
  PROVE  Overlay(pages, cs, n) \in PageMap
<1>1. ASSUME NEW p \in Pages
      PROVE  Overlay(pages, cs, n)[p] \in Vals \cup {Absent}
  <2>1. CASE \A i \in 1..n : cs[i].pages[p] = Absent
    BY <2>1, OverlayUnheld DEF PageMap
  <2>2. ASSUME NEW j \in 1..n, cs[j].pages[p] # Absent,
               \A i \in (j + 1)..n : cs[i].pages[p] = Absent
        PROVE  Overlay(pages, cs, n)[p] \in Vals \cup {Absent}
    <3>1. cs[j] \in Checkpoint
      BY <2>2
    <3>2. Overlay(pages, cs, n)[p] = cs[j].pages[p]
      BY <2>2, OverlayHeld
    <3> QED BY <3>1, <3>2 DEF Checkpoint
  <2> QED BY <2>1, <2>2, OverlayCases
<1>2. Overlay(pages, cs, n) = [p \in Pages |-> Overlay(pages, cs, n)[p]]
  BY DEF Overlay
<1> QED BY <1>1, <1>2 DEF PageMap

\* Two lists that agree on their first n deltas give the same image.
LEMMA OverlaySame ==
  ASSUME NEW cs \in Seq(Checkpoint), NEW ds \in Seq(Checkpoint), NEW pages \in PageMap,
         NEW n \in Nat, n <= Len(cs), n <= Len(ds),
         \A i \in 1..n : ds[i] = cs[i]
  PROVE  Overlay(pages, ds, n) = Overlay(pages, cs, n)
<1>1. ASSUME NEW p \in Pages
      PROVE  Overlay(pages, ds, n)[p] = Overlay(pages, cs, n)[p]
  <2>0. n \in 0..Len(cs) /\ n \in 0..Len(ds)
    OBVIOUS
  <2>1. CASE \A i \in 1..n : cs[i].pages[p] = Absent
    BY <2>0, <2>1, OverlayUnheld
  <2>2. ASSUME NEW j \in 1..n, cs[j].pages[p] # Absent,
               \A i \in (j + 1)..n : cs[i].pages[p] = Absent
        PROVE  Overlay(pages, ds, n)[p] = Overlay(pages, cs, n)[p]
    <3>1. Overlay(pages, cs, n)[p] = cs[j].pages[p]
      BY <2>0, <2>2, OverlayHeld
    <3>2. ds[j].pages[p] # Absent /\ \A i \in (j + 1)..n : ds[i].pages[p] = Absent
      BY <2>2
    <3>3. Overlay(pages, ds, n)[p] = ds[j].pages[p]
      BY <2>0, <3>2, OverlayHeld
    <3> QED BY <3>1, <3>3
  <2> QED BY <2>0, <2>1, <2>2, OverlayCases
<1> QED BY <1>1 DEF Overlay

\* One more delta on top.
LEMMA OverlayAppend ==
  ASSUME NEW cs \in Seq(Checkpoint), NEW c \in Checkpoint, NEW pages \in PageMap,
         NEW p \in Pages
  PROVE  Overlay(pages, Append(cs, c), Len(cs) + 1)[p]
           = IF c.pages[p] # Absent THEN c.pages[p] ELSE Overlay(pages, cs, Len(cs))[p]
<1> DEFINE ds == Append(cs, c)
           n == Len(cs)
<1>1. /\ ds \in Seq(Checkpoint) /\ Len(ds) = n + 1 /\ n \in Nat
      /\ ds[n + 1] = c /\ \A i \in 1..n : ds[i] = cs[i]
  OBVIOUS
<1>2. n + 1 \in 0..Len(ds) /\ n \in 0..Len(cs) /\ n + 1 \in 1..(n + 1)
  BY <1>1
<1> HIDE DEF ds, n
<1>3. CASE c.pages[p] # Absent
  <2>1. ds[n + 1].pages[p] # Absent /\ \A i \in (n + 2)..(n + 1) : ds[i].pages[p] = Absent
    BY <1>1, <1>3
  <2>2. Overlay(pages, ds, n + 1)[p] = ds[n + 1].pages[p]
    BY <1>1, <1>2, <2>1, OverlayHeld
  <2> QED BY <1>1, <1>3, <2>2 DEF ds, n
<1>4. CASE c.pages[p] = Absent
  <2>1. CASE \A i \in 1..n : cs[i].pages[p] = Absent
    <3>1. \A i \in 1..(n + 1) : ds[i].pages[p] = Absent
      BY <1>1, <1>4, <2>1
    <3>2. Overlay(pages, ds, n + 1)[p] = pages[p]
      BY <1>1, <1>2, <3>1, OverlayUnheld
    <3>3. Overlay(pages, cs, n)[p] = pages[p]
      BY <1>2, <2>1, OverlayUnheld
    <3> QED BY <1>4, <3>2, <3>3 DEF ds, n
  <2>2. ASSUME NEW j \in 1..n, cs[j].pages[p] # Absent,
               \A i \in (j + 1)..n : cs[i].pages[p] = Absent
        PROVE  Overlay(pages, ds, n + 1)[p] = Overlay(pages, cs, n)[p]
    <3>1. Overlay(pages, cs, n)[p] = cs[j].pages[p]
      BY <1>2, <2>2, OverlayHeld
    <3>2. /\ j \in 1..(n + 1) /\ ds[j].pages[p] # Absent
          /\ \A i \in (j + 1)..(n + 1) : ds[i].pages[p] = Absent
      <4>1. j \in 1..(n + 1) /\ ds[j] = cs[j]
        BY <1>1
      <4>2. \A i \in (j + 1)..(n + 1) : i = n + 1 \/ (i \in (j + 1)..n /\ ds[i] = cs[i])
        BY <1>1
      <4> QED BY <1>1, <1>4, <2>2, <4>1, <4>2
    <3>3. Overlay(pages, ds, n + 1)[p] = ds[j].pages[p]
      BY <1>1, <1>2, <3>2, OverlayHeld
    <3> QED BY <1>1, <3>1, <3>3
  <2> QED BY <1>2, <1>4, <2>1, <2>2, OverlayCases DEF ds, n
<1> QED BY <1>3, <1>4

\* Folding deltas into the image underneath changes no later image.
LEMMA OverlayFold ==
  ASSUME NEW cs \in Seq(Checkpoint), NEW pages \in PageMap,
         NEW f \in 0..Len(cs), NEW n \in 0..(Len(cs) - f)
  PROVE  Overlay(Overlay(pages, cs, f), SubSeq(cs, f + 1, Len(cs)), n)
           = Overlay(pages, cs, f + n)
<1> DEFINE ds == SubSeq(cs, f + 1, Len(cs))
           under == Overlay(pages, cs, f)
<1>1. /\ ds \in Seq(Checkpoint) /\ Len(ds) = Len(cs) - f
      /\ \A i \in 1..(Len(cs) - f) : ds[i] = cs[f + i]
  OBVIOUS
<1>2. under \in PageMap
  BY OverlayType
<1>3. n \in 0..Len(ds) /\ f + n \in 0..Len(cs) /\ f \in Nat /\ n \in Nat
  BY <1>1
<1> HIDE DEF ds
<1>4. ASSUME NEW p \in Pages
      PROVE  Overlay(under, ds, n)[p] = Overlay(pages, cs, f + n)[p]
  <2> HIDE DEF under
  <2>1. CASE \A i \in 1..n : ds[i].pages[p] = Absent
    <3>1. Overlay(under, ds, n)[p] = under[p]
      BY <1>1, <1>2, <1>3, <2>1, OverlayUnheld
    <3>2. CASE \A i \in 1..f : cs[i].pages[p] = Absent
      <4>1. under[p] = pages[p]
        BY <3>2, OverlayUnheld DEF under
      <4>2. \A i \in 1..(f + n) : cs[i].pages[p] = Absent
        <5> TAKE i \in 1..(f + n)
        <5>1. CASE i <= f
          BY <1>3, <3>2, <5>1
        <5>2. CASE i > f
          <6>1. i - f \in 1..n /\ ds[i - f] = cs[i]
            BY <1>1, <1>3, <5>2
          <6> QED BY <2>1, <6>1
        <5> QED BY <1>3, <5>1, <5>2
      <4>3. Overlay(pages, cs, f + n)[p] = pages[p]
        BY <1>3, <4>2, OverlayUnheld
      <4> QED BY <3>1, <4>1, <4>3
    <3>3. ASSUME NEW j \in 1..f, cs[j].pages[p] # Absent,
                 \A i \in (j + 1)..f : cs[i].pages[p] = Absent
          PROVE  Overlay(under, ds, n)[p] = Overlay(pages, cs, f + n)[p]
      <4>1. under[p] = cs[j].pages[p]
        BY <3>3, OverlayHeld DEF under
      <4>2. j \in 1..(f + n) /\ \A i \in (j + 1)..(f + n) : cs[i].pages[p] = Absent
        <5>1. j \in 1..(f + n)
          BY <1>3
        <5>2. ASSUME NEW i \in (j + 1)..(f + n)
              PROVE  cs[i].pages[p] = Absent
          <6>1. CASE i <= f
            BY <1>3, <3>3, <6>1
          <6>2. CASE i > f
            <7>1. i - f \in 1..n /\ ds[i - f] = cs[i]
              BY <1>1, <1>3, <6>2
            <7> QED BY <2>1, <7>1
          <6> QED BY <1>3, <6>1, <6>2
        <5> QED BY <5>1, <5>2
      <4>3. Overlay(pages, cs, f + n)[p] = cs[j].pages[p]
        BY <1>3, <3>3, <4>2, OverlayHeld
      <4> QED BY <3>1, <4>1, <4>3
    <3> QED BY <3>2, <3>3, OverlayCases
  <2>2. ASSUME NEW j \in 1..n, ds[j].pages[p] # Absent,
               \A i \in (j + 1)..n : ds[i].pages[p] = Absent
        PROVE  Overlay(under, ds, n)[p] = Overlay(pages, cs, f + n)[p]
    <3>1. Overlay(under, ds, n)[p] = ds[j].pages[p]
      BY <1>1, <1>2, <1>3, <2>2, OverlayHeld
    <3>2. f + j \in 1..(f + n) /\ ds[j] = cs[f + j]
      BY <1>1, <1>3
    <3>3. \A i \in (f + j + 1)..(f + n) : cs[i].pages[p] = Absent
      <4> TAKE i \in (f + j + 1)..(f + n)
      <4>1. i - f \in (j + 1)..n /\ ds[i - f] = cs[i]
        <5>1. i - f \in (j + 1)..n /\ i - f \in 1..n /\ f + (i - f) = i
          BY <1>3
        <5> QED BY <1>1, <5>1
      <4> QED BY <2>2, <4>1
    <3>4. Overlay(pages, cs, f + n)[p] = cs[f + j].pages[p]
      BY <1>3, <2>2, <3>2, <3>3, OverlayHeld
    <3> QED BY <3>1, <3>2, <3>4
  <2> QED BY <1>1, <1>3, <2>1, <2>2, OverlayCases
<1>5. Overlay(under, ds, n) = Overlay(pages, cs, f + n)
  BY <1>4 DEF Overlay
<1> QED BY <1>5 DEF ds

----------------------------------------------------------------------------
(* The list of checkpoints: the base and then the deltas. *)

At(b, cs, i) == IF i = 0 THEN b ELSE cs[i]

Ascending(b, cs) ==
  \A i, j \in 0..Len(cs) : i <= j => At(b, cs, i).icount <= At(b, cs, j).icount

Paced(b, cs) ==
  \A i \in 1..Len(cs) : At(b, cs, i).icount <= At(b, cs, i - 1).icount + Interval

\* After folding f deltas, position i holds what position f + i held, but for
\* the pages of the base.
LEMMA FoldAt ==
  ASSUME NEW b \in Checkpoint, NEW cs \in Seq(Checkpoint), NEW f \in 0..Len(cs)
  PROVE  /\ FoldedBase(b, cs, f) \in Checkpoint
         /\ FoldedBase(b, cs, f).pages = Overlay(b.pages, cs, f)
         /\ SubSeq(cs, f + 1, Len(cs)) \in Seq(Checkpoint)
         /\ Len(SubSeq(cs, f + 1, Len(cs))) = Len(cs) - f
         /\ \A i \in 1..(Len(cs) - f) : SubSeq(cs, f + 1, Len(cs))[i] = cs[f + i]
         /\ \A i \in 0..(Len(cs) - f) :
              LET new == At(FoldedBase(b, cs, f), SubSeq(cs, f + 1, Len(cs)), i)
                  old == At(b, cs, f + i)
              IN  /\ new.icount = old.icount
                  /\ new.ctx = old.ctx
                  /\ new.regions = old.regions
<1> DEFINE ds == SubSeq(cs, f + 1, Len(cs))
           nb == FoldedBase(b, cs, f)
<1>1. /\ ds \in Seq(Checkpoint) /\ Len(ds) = Len(cs) - f
      /\ \A i \in 1..(Len(cs) - f) : ds[i] = cs[f + i]
  OBVIOUS
<1>2. Overlay(b.pages, cs, f) \in PageMap /\ b.pages \in PageMap
  BY OverlayType DEF Checkpoint, PageMap
<1>3. nb \in Checkpoint /\ nb.pages = Overlay(b.pages, cs, f)
  <2>1. CASE f = 0
    <3>1. nb = b
      BY <2>1 DEF FoldedBase
    <3>2. \A p \in Pages : Overlay(b.pages, cs, f)[p] = b.pages[p]
      BY <1>2, <2>1, OverlayUnheld
    <3>3. Overlay(b.pages, cs, f) = b.pages
      BY <1>2, <3>2 DEF PageMap
    <3> QED BY <3>1, <3>3
  <2>2. CASE f # 0
    <3>1. cs[f] \in Checkpoint
      BY <2>2
    <3>2. nb = [cs[f] EXCEPT !.pages = Overlay(b.pages, cs, f)]
      BY <2>2 DEF FoldedBase
    <3> QED BY <1>2, <3>1, <3>2 DEF Checkpoint, PageMap
  <2> QED BY <2>1, <2>2
<1>4. ASSUME NEW i \in 0..(Len(cs) - f)
      PROVE  /\ At(nb, ds, i).icount = At(b, cs, f + i).icount
             /\ At(nb, ds, i).ctx = At(b, cs, f + i).ctx
             /\ At(nb, ds, i).regions = At(b, cs, f + i).regions
  <2>1. CASE i = 0 /\ f = 0
    BY <2>1 DEF At, FoldedBase
  <2>2. CASE i = 0 /\ f # 0
    <3>1. cs[f] \in Checkpoint
      BY <2>2
    <3>2. nb = [cs[f] EXCEPT !.pages = Overlay(b.pages, cs, f)]
      BY <2>2 DEF FoldedBase
    <3> QED BY <2>2, <3>1, <3>2 DEF At, Checkpoint
  <2>3. CASE i # 0
    BY <1>1, <2>3 DEF At
  <2> QED BY <2>1, <2>2, <2>3
<1> QED BY <1>1, <1>3, <1>4

\* Folding keeps the list in order and its gaps short.
LEMMA FoldOrdered ==
  ASSUME NEW b \in Checkpoint, NEW cs \in Seq(Checkpoint), NEW f \in 0..Len(cs),
         Ascending(b, cs), Paced(b, cs)
  PROVE  /\ Ascending(FoldedBase(b, cs, f), SubSeq(cs, f + 1, Len(cs)))
         /\ Paced(FoldedBase(b, cs, f), SubSeq(cs, f + 1, Len(cs)))
         /\ b.icount <= FoldedBase(b, cs, f).icount
         /\ FoldedBase(b, cs, f).icount <= At(b, cs, Len(cs)).icount
<1> DEFINE ds == SubSeq(cs, f + 1, Len(cs))
           nb == FoldedBase(b, cs, f)
<1>1. /\ nb \in Checkpoint /\ ds \in Seq(Checkpoint) /\ Len(ds) = Len(cs) - f
      /\ \A i \in 0..(Len(cs) - f) : At(nb, ds, i).icount = At(b, cs, f + i).icount
  BY FoldAt
<1> HIDE DEF nb, ds
<1>2. Ascending(nb, ds)
  BY <1>1 DEF Ascending
<1>3. Paced(nb, ds)
  <2> SUFFICES ASSUME NEW i \in 1..Len(ds)
               PROVE  At(nb, ds, i).icount <= At(nb, ds, i - 1).icount + Interval
    BY DEF Paced
  <2>1. /\ i \in 0..(Len(cs) - f) /\ i - 1 \in 0..(Len(cs) - f)
        /\ f + i \in 1..Len(cs) /\ f + (i - 1) = f + i - 1
    BY <1>1
  <2>2. At(b, cs, f + i).icount <= At(b, cs, f + i - 1).icount + Interval
    BY <2>1 DEF Paced
  <2> QED BY <1>1, <2>1, <2>2
<1>4. nb.icount = At(b, cs, f).icount
  <2>1. At(nb, ds, 0).icount = At(b, cs, f + 0).icount
    BY <1>1
  <2> QED BY <2>1 DEF At
<1>5. At(b, cs, 0).icount <= At(b, cs, f).icount /\ At(b, cs, f).icount <= At(b, cs, Len(cs)).icount
  BY DEF Ascending
<1>6. At(b, cs, 0).icount = b.icount
  BY DEF At
<1> QED BY <1>2, <1>3, <1>4, <1>5, <1>6 DEF nb, ds

\* So does appending a checkpoint that is neither early nor late.
LEMMA AppendOrdered ==
  ASSUME NEW b \in Checkpoint, NEW cs \in Seq(Checkpoint), NEW c \in Checkpoint,
         Ascending(b, cs), Paced(b, cs),
         At(b, cs, Len(cs)).icount <= c.icount,
         c.icount <= At(b, cs, Len(cs)).icount + Interval
  PROVE  /\ Ascending(b, Append(cs, c))
         /\ Paced(b, Append(cs, c))
         /\ At(b, Append(cs, c), Len(cs) + 1) = c
<1> DEFINE ds == Append(cs, c)
           n == Len(cs)
<1>1. /\ ds \in Seq(Checkpoint) /\ Len(ds) = n + 1 /\ n \in Nat
      /\ \A i \in 0..n : At(b, ds, i) = At(b, cs, i)
      /\ At(b, ds, n + 1) = c
  BY DEF At
<1>2. \A i \in 0..n : At(b, cs, i) \in Checkpoint
  BY DEF At
<1>3. \A i \in 0..n : At(b, cs, i).icount <= c.icount
  <2> TAKE i \in 0..n
  <2>1. At(b, cs, i).icount <= At(b, cs, n).icount
    BY <1>1 DEF Ascending
  <2> QED BY <1>1, <1>2, <2>1 DEF Checkpoint
<1> HIDE DEF ds
<1>4. Ascending(b, ds)
  <2> SUFFICES ASSUME NEW i \in 0..(n + 1), NEW j \in 0..(n + 1), i <= j
               PROVE  At(b, ds, i).icount <= At(b, ds, j).icount
    BY <1>1 DEF Ascending
  <2>1. CASE j = n + 1
    <3>1. CASE i = n + 1
      BY <1>1, <2>1, <3>1 DEF Checkpoint
    <3>2. CASE i # n + 1
      <4>1. i \in 0..n
        BY <1>1, <3>2
      <4> QED BY <1>1, <1>3, <2>1, <4>1
    <3> QED BY <3>1, <3>2
  <2>2. CASE j # n + 1
    <3>1. i \in 0..n /\ j \in 0..n
      BY <1>1, <2>2
    <3> QED BY <1>1, <3>1 DEF Ascending
  <2> QED BY <2>1, <2>2
<1>5. Paced(b, ds)
  <2> SUFFICES ASSUME NEW i \in 1..(n + 1)
               PROVE  At(b, ds, i).icount <= At(b, ds, i - 1).icount + Interval
    BY <1>1 DEF Paced
  <2>1. CASE i = n + 1
    BY <1>1, <2>1
  <2>2. CASE i # n + 1
    <3>1. i \in 1..n /\ i \in 0..n /\ i - 1 \in 0..n
      BY <1>1, <2>2
    <3> QED BY <1>1, <3>1 DEF Paced
  <2> QED BY <2>1, <2>2
<1> QED BY <1>1, <1>4, <1>5 DEF ds
----------------------------------------------------------------------------
(* Types, and where the checkpoints are. *)

\* The instruction the machine is at, or the one a replay is on its way to.
Reached == IF replaying THEN ricount + left ELSE icount

NewestICount == At(base, checkpoints, Len(checkpoints)).icount

\* Before anything has run there is no base, no checkpoint and no replay.
FreshInv ==
  base = None => checkpoints = <<>> /\ icount = 0 /\ next = 0 /\ ~replaying

\* The checkpoints are in order with no gap longer than an interval, the next
\* one is due an interval after the newest, and the machine is in between.
PaceInv ==
  base # None => /\ Ascending(base, checkpoints)
                 /\ Paced(base, checkpoints)
                 /\ next = NewestICount + Interval
                 /\ NewestICount <= icount
                 /\ Reached <= next

\* A replay starts at the newest checkpoint kept and goes forward from it.
ReplayInv ==
  IF replaying THEN icount = NewestICount /\ icount <= ricount ELSE left = 0

\* Every instruction between the oldest checkpoint and here has its state.
HistInv == Earliest(base)..Reached \subseteq DOMAIN hist

IndexInv ==
  TypeOK /\ FreshInv /\ PaceInv /\ ReplayInv /\ HistInv
----------------------------------------------------------------------------
\* A snapshot is a checkpoint.
LEMMA SnapshotType ==
  ASSUME NEW i \in Nat, NEW m \in Machine, NEW d
  PROVE  Snapshot(i, m, d) \in Checkpoint
<1>1. m.mem \in [Pages -> Vals \cup {Absent}] /\ m.ctx \in Ctxs
  BY DEF Machine
<1>2. [p \in Pages |-> IF p \in d THEN m.mem[p] ELSE Absent] \in [Pages -> Vals \cup {Absent}]
  BY <1>1
<1> QED BY <1>1, <1>2 DEF Snapshot, Checkpoint, Mapped

\* Having no base is told from every base.
LEMMA NoneIsNoCheckpoint == \A b \in Checkpoint : b # None
BY NoneAssumption

\* What a checkpoint taken now does to the list of checkpoints.
LEMMA TakesCheckpoint ==
  ASSUME TypeOK, FreshInv, PaceInv, ~replaying,
         NEW m \in Machine, NEW d, TakeCheckpoint(icount, m, d)
  PROVE  /\ base' \in Checkpoint /\ checkpoints' \in Seq(Checkpoint)
         /\ Ascending(base', checkpoints') /\ Paced(base', checkpoints')
         /\ At(base', checkpoints', Len(checkpoints')).icount = icount
         /\ next' = icount + Interval /\ next' \in Nat
         /\ Earliest(base) <= Earliest(base') /\ Earliest(base') <= icount
         /\ Earliest(base') \in Nat
<1>0. icount \in Nat /\ Interval \in Nat /\ Interval > 0
  BY BoundsAssumption DEF TypeOK
<1>1. next' = icount + Interval /\ next' \in Nat
  BY <1>0 DEF TakeCheckpoint
<1>2. CASE base = None
  <2>1. base' = Snapshot(icount, m, Pages) /\ checkpoints' = <<>> /\ icount = 0
    BY <1>2 DEF TakeCheckpoint, FreshInv
  <2>2. base' \in Checkpoint /\ base'.icount = icount
    BY <1>0, <2>1, SnapshotType DEF Snapshot
  <2>3. /\ checkpoints' \in Seq(Checkpoint) /\ Len(checkpoints') = 0
        /\ \A i \in 0..0 : At(base', checkpoints', i) = base'
    BY <2>1 DEF At
  <2>4. Ascending(base', checkpoints') /\ Paced(base', checkpoints')
    BY <2>2, <2>3 DEF Ascending, Paced, Checkpoint
  <2>5. Earliest(base) = 0 /\ Earliest(base') = icount
    BY <1>2, <2>1, <2>2, NoneIsNoCheckpoint DEF Earliest
  <2> QED BY <1>0, <1>1, <2>1, <2>2, <2>3, <2>4, <2>5
<1>3. CASE base # None
  <2> DEFINE c == Snapshot(icount, m, d)
             cs == Append(checkpoints, c)
  <2>1. base \in Checkpoint /\ checkpoints \in Seq(Checkpoint) /\ c \in Checkpoint
    BY <1>0, <1>3, SnapshotType DEF TypeOK
  <2>2. c.icount = icount
    BY DEF Snapshot
  <2>3. PICK f \in Excess(cs) : /\ base' = FoldedBase(base, cs, f)
                                /\ checkpoints' = SubSeq(cs, f + 1, Len(cs))
    BY <1>3 DEF TakeCheckpoint
  <2>4. cs \in Seq(Checkpoint) /\ Len(cs) = Len(checkpoints) + 1 /\ f \in 0..Len(cs)
    BY <2>1, <2>3 DEF Excess
  <2> HIDE DEF c
  <2>5. Ascending(base, cs) /\ Paced(base, cs) /\ At(base, cs, Len(cs)) = c
    <3>1. At(base, checkpoints, Len(checkpoints)).icount <= c.icount
      BY <1>3, <2>2 DEF PaceInv, NewestICount
    <3>2. c.icount <= At(base, checkpoints, Len(checkpoints)).icount + Interval
      BY <1>3, <2>2 DEF PaceInv, NewestICount, Reached
    <3> QED BY <1>3, <2>1, <2>4, <3>1, <3>2, AppendOrdered DEF PaceInv
  <2> HIDE DEF cs
  <2>6. /\ base' \in Checkpoint /\ checkpoints' \in Seq(Checkpoint)
        /\ Len(checkpoints') = Len(cs) - f
        /\ \A i \in 0..(Len(cs) - f) :
             At(base', checkpoints', i).icount = At(base, cs, f + i).icount
    BY <2>1, <2>3, <2>4, FoldAt
  <2>7. At(base', checkpoints', Len(checkpoints')).icount = icount
    <3>1. Len(cs) - f \in 0..(Len(cs) - f) /\ f + (Len(cs) - f) = Len(cs)
      BY <2>4
    <3>2. At(base', checkpoints', Len(cs) - f).icount = At(base, cs, f + (Len(cs) - f)).icount
      BY <2>6, <3>1
    <3> QED BY <2>2, <2>5, <2>6, <3>1, <3>2
  <2>8. /\ Ascending(base', checkpoints') /\ Paced(base', checkpoints')
        /\ base.icount <= base'.icount
        /\ base'.icount <= At(base, cs, Len(cs)).icount
    BY <2>1, <2>3, <2>4, <2>5, FoldOrdered
  <2>9. Earliest(base) = base.icount /\ Earliest(base') = base'.icount
    BY <1>3, <2>6, NoneIsNoCheckpoint DEF Earliest
  <2>10. base'.icount \in Nat
    BY <2>6 DEF Checkpoint
  <2> QED BY <1>1, <2>2, <2>5, <2>6, <2>7, <2>8, <2>9, <2>10
<1> QED BY <1>2, <1>3

\* Intervals of instructions: the arithmetic the next lemma takes.
LEMMA IntervalFacts ==
  ASSUME NEW old \in Nat, NEW new \in Nat, NEW at \in Nat, NEW n \in {at, at + 1},
         old <= new, new <= at
  PROVE  /\ n \in new..n
         /\ \A i \in new..(n - 1) : i \in old..at /\ i \in new..n /\ i # n
         /\ \A i \in new..n : i # n => i \in new..(n - 1)
         /\ new..n \subseteq Nat
OBVIOUS

\* What the history variable holds after a step that remembers the machine.
LEMMA Remembered ==
  ASSUME TypeOK, HistInv, ~replaying, Remember, machine' \in Machine,
         NEW old \in Nat, NEW new \in Nat, old <= new, new <= icount,
         Earliest(base) = old, Earliest(base') = new,
         icount' \in {icount, icount + 1}
  PROVE  /\ DOMAIN hist' = new..icount'
         /\ DOMAIN hist' \subseteq Nat
         /\ \A i \in DOMAIN hist' : hist'[i] \in Machine
         /\ hist'[icount'] = machine'
         /\ \A i \in new..(icount' - 1) : hist'[i] = hist[i]
<1>1. /\ icount' \in new..icount'
      /\ \A i \in new..(icount' - 1) : i \in old..icount /\ i \in new..icount' /\ i # icount'
      /\ \A i \in new..icount' : i # icount' => i \in new..(icount' - 1)
      /\ new..icount' \subseteq Nat
  <2>1. icount \in Nat
    BY DEF TypeOK
  <2>2. PICK n \in {icount, icount + 1} : icount' = n
    OBVIOUS
  <2>3. /\ n \in new..n
        /\ \A i \in new..(n - 1) : i \in old..icount /\ i \in new..n /\ i # n
        /\ \A i \in new..n : i # n => i \in new..(n - 1)
        /\ new..n \subseteq Nat
    BY <2>1, IntervalFacts
  <2> QED BY <2>2, <2>3
<1>2. hist' = [i \in new..icount' |-> IF i = icount' THEN machine' ELSE hist[i]]
  BY DEF Remember
<1>3. \A i \in old..icount : hist[i] \in Machine
  BY DEF HistInv, Reached, TypeOK
<1>4. DOMAIN hist' = new..icount'
  BY <1>2
<1> HIDE DEF Remember
<1>5. \A i \in DOMAIN hist' : hist'[i] \in Machine
  BY <1>1, <1>2, <1>3, <1>4
<1> QED BY <1>1, <1>2, <1>4, <1>5

\* The oldest instruction kept is a number.
LEMMA EarliestType ==
  ASSUME TypeOK PROVE Earliest(base) \in Nat
BY DEF TypeOK, Earliest, Checkpoint

\* The oldest checkpoint is not ahead of the machine.
LEMMA EarliestBehind ==
  ASSUME IndexInv PROVE (Earliest(base) <= icount /\ NewestICount \in Nat) \/ base = None
<1> SUFFICES ASSUME base # None
             PROVE  Earliest(base) <= icount /\ NewestICount \in Nat
  OBVIOUS
<1>1. base \in Checkpoint /\ checkpoints \in Seq(Checkpoint)
  BY DEF IndexInv, TypeOK
<1>2. At(base, checkpoints, 0).icount <= NewestICount
  BY <1>1 DEF IndexInv, PaceInv, Ascending, NewestICount
<1>3. \A i \in 0..Len(checkpoints) : At(base, checkpoints, i) \in Checkpoint
  BY <1>1 DEF At
<1>4. NewestICount \in Nat /\ base.icount \in Nat
  BY <1>1, <1>3 DEF NewestICount, Checkpoint
<1>5. At(base, checkpoints, 0) = base /\ Earliest(base) = base.icount
  BY DEF At, Earliest
<1>6. NewestICount <= icount /\ icount \in Nat
  BY DEF IndexInv, PaceInv, TypeOK
<1> QED BY <1>2, <1>4, <1>5, <1>6

\* A run's next instruction, completed or refused.
LEMMA NoteInstructionIndex ==
  ASSUME IndexInv, ~replaying, replaying' = replaying, left' = left, ricount' = ricount,
         NEW w \in SUBSET Pages, NoteInstruction(w), Remember,
         machine' \in Machine, icount' \in {icount, icount + 1}
  PROVE  IndexInv'
<1>0. TypeOK /\ FreshInv /\ PaceInv /\ ReplayInv /\ HistInv
  BY DEF IndexInv
<1>1. icount \in Nat /\ icount' \in Nat /\ Interval \in Nat /\ Interval > 0 /\ next \in Nat
  BY <1>0, BoundsAssumption DEF TypeOK
<1>2. Reached = icount /\ Reached' = icount' /\ left = 0
  BY <1>0 DEF Reached, ReplayInv
<1>3. CASE icount >= next
  <2>1. TakeCheckpoint(icount, machine, dirty) /\ dirty' = w
    BY <1>3 DEF NoteInstruction
  <2>2. /\ base' \in Checkpoint /\ checkpoints' \in Seq(Checkpoint)
        /\ Ascending(base', checkpoints') /\ Paced(base', checkpoints')
        /\ At(base', checkpoints', Len(checkpoints')).icount = icount
        /\ next' = icount + Interval /\ next' \in Nat
        /\ Earliest(base) <= Earliest(base') /\ Earliest(base') <= icount
        /\ Earliest(base') \in Nat
    <3>1. machine \in Machine
      BY <1>0 DEF TypeOK
    <3> QED BY <1>0, <2>1, <3>1, TakesCheckpoint
  <2>3. /\ DOMAIN hist' = Earliest(base')..icount'
        /\ DOMAIN hist' \subseteq Nat
        /\ \A i \in DOMAIN hist' : hist'[i] \in Machine
    BY <1>0, <2>2, EarliestType, Remembered
  <2>4. base' # None
    BY <2>2, NoneIsNoCheckpoint
  <2>5. TypeOK'
    BY <1>0, <1>1, <2>1, <2>2, <2>3 DEF TypeOK
  <2>6. PaceInv'
    BY <1>1, <1>2, <2>2 DEF PaceInv, NewestICount
  <2>7. HistInv'
    BY <1>2, <2>3 DEF HistInv
  <2> QED BY <1>2, <2>4, <2>5, <2>6, <2>7 DEF IndexInv, FreshInv, ReplayInv
<1>4. CASE ~(icount >= next)
  <2>1. dirty' = dirty \cup w /\ UNCHANGED <<base, checkpoints, next>>
    BY <1>4 DEF NoteInstruction
  <2>2. base # None
    BY <1>0, <1>4 DEF FreshInv
  <2>3. Earliest(base) <= icount /\ NewestICount \in Nat
    BY <2>2, EarliestBehind
  <2>4. Earliest(base') = Earliest(base) /\ Earliest(base) \in Nat
    BY <1>0, <2>1, EarliestType DEF Earliest
  <2>5. /\ DOMAIN hist' = Earliest(base')..icount'
        /\ DOMAIN hist' \subseteq Nat
        /\ \A i \in DOMAIN hist' : hist'[i] \in Machine
    BY <1>0, <2>3, <2>4, Remembered
  <2>6. TypeOK'
    BY <1>0, <1>1, <2>1, <2>5 DEF TypeOK
  <2>7. PaceInv'
    <3>1. icount' <= next
      BY <1>1, <1>4
    <3>2. NewestICount' = NewestICount
      BY <2>1 DEF NewestICount
    <3>3. NewestICount <= icount'
      BY <1>0, <1>1, <2>2, <2>3 DEF PaceInv
    <3> QED BY <1>0, <1>2, <2>1, <2>2, <3>1, <3>2, <3>3 DEF PaceInv
  <2>8. HistInv'
    BY <1>2, <2>5 DEF HistInv
  <2> QED BY <1>2, <2>1, <2>2, <2>6, <2>7, <2>8 DEF IndexInv, FreshInv, ReplayInv
<1> QED BY <1>3, <1>4

\* An edit, checkpointed when there is a base.
LEMMA EditedIndex ==
  ASSUME IndexInv, NEW m \in Machine, NEW d \in SUBSET Pages, Edited(m, d)
  PROVE  IndexInv'
<1>0. TypeOK /\ FreshInv /\ PaceInv /\ ReplayInv /\ HistInv
  BY DEF IndexInv
<1>1. /\ ~replaying /\ replaying' = replaying /\ left' = left /\ ricount' = ricount
      /\ machine' = m /\ icount' = icount /\ Remember
  BY DEF Edited, Idle
<1>2. icount \in Nat /\ Interval \in Nat /\ Interval > 0
  BY <1>0, BoundsAssumption DEF TypeOK
<1>3. Reached = icount /\ Reached' = icount /\ left = 0
  BY <1>0, <1>1 DEF Reached, ReplayInv
<1>4. CASE base = None
  <2>1. dirty' = dirty \cup d /\ UNCHANGED <<base, checkpoints, next>>
    BY <1>4 DEF Edited
  <2>2. Earliest(base) = 0 /\ Earliest(base') = 0
    BY <1>4, <2>1 DEF Earliest
  <2>3. /\ DOMAIN hist' = Earliest(base')..icount'
        /\ DOMAIN hist' \subseteq Nat
        /\ \A i \in DOMAIN hist' : hist'[i] \in Machine
    BY <1>0, <1>1, <1>2, <2>2, Remembered
  <2>4. TypeOK'
    BY <1>0, <1>1, <2>1, <2>3 DEF TypeOK
  <2> QED BY <1>0, <1>1, <1>3, <1>4, <2>1, <2>3, <2>4
          DEF IndexInv, FreshInv, PaceInv, ReplayInv, HistInv
<1>5. CASE base # None
  <2>1. TakeCheckpoint(icount, m, dirty \cup d) /\ dirty' = {}
    BY <1>5 DEF Edited
  <2>2. /\ base' \in Checkpoint /\ checkpoints' \in Seq(Checkpoint)
        /\ Ascending(base', checkpoints') /\ Paced(base', checkpoints')
        /\ At(base', checkpoints', Len(checkpoints')).icount = icount
        /\ next' = icount + Interval /\ next' \in Nat
        /\ Earliest(base) <= Earliest(base') /\ Earliest(base') <= icount
        /\ Earliest(base') \in Nat
    BY <1>0, <1>1, <2>1, TakesCheckpoint
  <2>3. /\ DOMAIN hist' = Earliest(base')..icount'
        /\ DOMAIN hist' \subseteq Nat
        /\ \A i \in DOMAIN hist' : hist'[i] \in Machine
    BY <1>0, <1>1, <2>2, EarliestType, Remembered
  <2>4. base' # None
    BY <2>2, NoneIsNoCheckpoint
  <2>5. TypeOK'
    BY <1>0, <1>1, <2>1, <2>2, <2>3 DEF TypeOK
  <2>6. PaceInv'
    BY <1>1, <1>2, <1>3, <2>2 DEF PaceInv, NewestICount
  <2>7. HistInv'
    BY <1>1, <1>3, <2>3 DEF HistInv
  <2> QED BY <1>1, <1>3, <2>4, <2>5, <2>6, <2>7 DEF IndexInv, FreshInv, ReplayInv
<1> QED BY <1>4, <1>5
\* Dropping the newest checkpoints.
LEMMA PrefixOrdered ==
  ASSUME NEW b \in Checkpoint, NEW cs \in Seq(Checkpoint), NEW n \in 0..Len(cs),
         Ascending(b, cs), Paced(b, cs)
  PROVE  /\ SubSeq(cs, 1, n) \in Seq(Checkpoint)
         /\ Len(SubSeq(cs, 1, n)) = n
         /\ \A i \in 0..n : At(b, SubSeq(cs, 1, n), i) = At(b, cs, i)
         /\ Ascending(b, SubSeq(cs, 1, n)) /\ Paced(b, SubSeq(cs, 1, n))
<1> DEFINE ds == SubSeq(cs, 1, n)
<1>1. /\ ds \in Seq(Checkpoint) /\ Len(ds) = n /\ n \in Nat
      /\ \A i \in 0..n : At(b, ds, i) = At(b, cs, i)
  BY DEF At
<1> HIDE DEF ds
<1>2. Ascending(b, ds)
  BY <1>1 DEF Ascending
<1>3. Paced(b, ds)
  <2> SUFFICES ASSUME NEW i \in 1..n
               PROVE  At(b, ds, i).icount <= At(b, ds, i - 1).icount + Interval
    BY <1>1 DEF Paced
  <2>1. i \in 1..Len(cs) /\ i \in 0..n /\ i - 1 \in 0..n
    OBVIOUS
  <2> QED BY <1>1, <2>1 DEF Paced
<1> QED BY <1>1, <1>2, <1>3 DEF ds

\* The checkpoint at or before k is at most an interval away.
LEMMA ReachedClose ==
  ASSUME IndexInv, base # None, NEW k \in Nat, base.icount <= k, k <= icount,
         NEW n \in 0..Len(checkpoints), Reaches(n, k)
  PROVE  /\ Latest(n) = At(base, checkpoints, n) /\ Latest(n) \in Checkpoint
         /\ Latest(n).icount \in Nat
         /\ Latest(n).icount <= k /\ k <= Latest(n).icount + Interval
<1>1. /\ base \in Checkpoint /\ checkpoints \in Seq(Checkpoint)
      /\ icount \in Nat /\ next \in Nat /\ Interval \in Nat
  BY BoundsAssumption DEF IndexInv, TypeOK
<1>2. Latest(n) = At(base, checkpoints, n) /\ Latest(n) \in Checkpoint
  BY <1>1 DEF Latest, At
<1>3. Latest(n).icount \in Nat
  BY <1>2 DEF Checkpoint
<1>4. Latest(n).icount <= k
  BY <1>1 DEF Latest, Reaches
<1>5. k <= Latest(n).icount + Interval
  <2>1. CASE n = Len(checkpoints)
    <3>1. icount <= NewestICount + Interval
      <4>1. CASE replaying
        <5>1. icount = NewestICount
          BY <4>1 DEF IndexInv, ReplayInv
        <5> QED BY <1>1, <5>1
      <4>2. CASE ~replaying
        BY <4>2 DEF IndexInv, PaceInv, Reached
      <4> QED BY <4>1, <4>2
    <3>2. NewestICount = Latest(n).icount
      BY <1>2, <2>1 DEF NewestICount
    <3> QED BY <1>1, <1>3, <3>1, <3>2
  <2>2. CASE n # Len(checkpoints)
    <3>1. n + 1 \in 1..Len(checkpoints) /\ n + 1 \in (n + 1)..Len(checkpoints)
          /\ (n + 1) - 1 = n
      BY <1>1, <2>2
    <3>2. checkpoints[n + 1].icount > k
      BY <3>1 DEF Reaches
    <3>3. At(base, checkpoints, n + 1) = checkpoints[n + 1]
      BY <3>1 DEF At
    <3>4. At(base, checkpoints, n + 1).icount <= At(base, checkpoints, (n + 1) - 1).icount + Interval
      BY <3>1 DEF IndexInv, PaceInv, Paced
    <3>5. checkpoints[n + 1].icount \in Nat
      <4>1. checkpoints[n + 1] \in Checkpoint
        BY <1>1, <3>1
      <4> QED BY <4>1 DEF Checkpoint
    <3> QED BY <1>1, <1>2, <1>3, <3>1, <3>2, <3>3, <3>4, <3>5
  <2> QED BY <2>1, <2>2
<1> QED BY <1>2, <1>3, <1>4, <1>5

\* Some checkpoint is at or before any instruction the history reaches.
LEMMA ReachesExists ==
  ASSUME IndexInv, base # None, NEW k \in Nat, base.icount <= k
  PROVE  \E n \in 0..Len(checkpoints) : Reaches(n, k)
<1> DEFINE early == {i \in 1..Len(checkpoints) : checkpoints[i].icount <= k}
<1>1. base \in Checkpoint /\ checkpoints \in Seq(Checkpoint) /\ Ascending(base, checkpoints)
  BY DEF IndexInv, TypeOK, PaceInv
<1>2. \A i \in 1..Len(checkpoints) : checkpoints[i].icount \in Nat
  <2>1. \A i \in 1..Len(checkpoints) : checkpoints[i] \in Checkpoint
    BY <1>1
  <2> QED BY <2>1 DEF Checkpoint
<1>3. CASE early = {}
  <2>1. 0 \in 0..Len(checkpoints) /\ Reaches(0, k)
    BY <1>1, <1>2, <1>3 DEF Reaches
  <2> QED BY <2>1
<1>4. CASE early # {}
  <2>1. PICK n \in early : \A i \in early : i <= n
    <3>1. early \subseteq 1..Len(checkpoints) /\ Len(checkpoints) \in Nat
      BY <1>1
    <3> HIDE DEF early
    <3> QED BY <1>4, <3>1, NewestExists
  <2>2. \A i \in 1..n : checkpoints[i].icount <= k
    <3> TAKE i \in 1..n
    <3>1. i \in 1..Len(checkpoints) /\ n \in 1..Len(checkpoints) /\ i <= n
      BY <1>1
    <3>2. At(base, checkpoints, i).icount <= At(base, checkpoints, n).icount
      BY <1>1, <3>1 DEF Ascending
    <3>3. At(base, checkpoints, i) = checkpoints[i] /\ At(base, checkpoints, n) = checkpoints[n]
      BY <3>1 DEF At
    <3>4. checkpoints[n].icount <= k
      OBVIOUS
    <3> QED BY <1>2, <3>1, <3>2, <3>3, <3>4
  <2>3. \A i \in (n + 1)..Len(checkpoints) : checkpoints[i].icount > k
    <3> TAKE i \in (n + 1)..Len(checkpoints)
    <3>1. i \in 1..Len(checkpoints) /\ ~(i <= n)
      BY <1>1
    <3>2. i \notin early
      BY <2>1, <3>1
    <3> QED BY <1>2, <3>1, <3>2
  <2>4. n \in 0..Len(checkpoints)
    OBVIOUS
  <2> QED BY <2>2, <2>3, <2>4 DEF Reaches
<1> QED BY <1>3, <1>4

\* Restoring a checkpoint gives a machine.
LEMMA RestoredType ==
  ASSUME TypeOK, base # None, NEW n \in 0..Len(checkpoints)
  PROVE  Restored(n) \in Machine
<1>1. /\ base \in Checkpoint /\ checkpoints \in Seq(Checkpoint)
      /\ machine.mem \in PageMap /\ base.pages \in PageMap
  BY DEF TypeOK, Machine, Checkpoint, PageMap
<1>2. Overlay(base.pages, checkpoints, n) \in PageMap
  BY <1>1, OverlayType
<1>3. RestoredMem(n) \in PageMap
  <2> DEFINE image == Overlay(base.pages, checkpoints, n)
  <2>1. \A p \in Pages : image[p] \in Vals \cup {Absent}
    BY <1>2 DEF PageMap
  <2> HIDE DEF image
  <2>2. \A p \in Pages : machine.mem[p] \in Vals \cup {Absent}
    BY <1>1 DEF PageMap
  <2> QED BY <2>1, <2>2, ProgramAssumption DEF RestoredMem, PageMap, image
<1>4. Latest(n).ctx \in Ctxs
  <2>1. Latest(n) \in Checkpoint
    BY <1>1 DEF Latest
  <2> QED BY <2>1 DEF Checkpoint
<1> QED BY <1>3, <1>4 DEF Restored, Machine, PageMap

\* Restoring the checkpoint before k leaves the list in order, with k ahead.
LEMMA BeginGotoIndex ==
  ASSUME IndexInv, NEW k \in Nat, BeginGoto(k)
  PROVE  IndexInv'
<1>0. TypeOK /\ FreshInv /\ PaceInv /\ ReplayInv /\ HistInv
  BY DEF IndexInv
<1>1. /\ ~replaying /\ base # None /\ base.icount <= k /\ k <= icount
      /\ dirty' = {} /\ replaying' = TRUE /\ base' = base /\ hist' = hist
  BY DEF BeginGoto
<1>2. PICK n \in 0..Len(checkpoints) :
        /\ Reaches(n, k)
        /\ machine' = Restored(n)
        /\ checkpoints' = SubSeq(checkpoints, 1, n)
        /\ icount' = Latest(n).icount /\ ricount' = Latest(n).icount
        /\ left' = k - Latest(n).icount
        /\ next' = Latest(n).icount + Interval
  BY DEF BeginGoto
<1>3. /\ Latest(n) = At(base, checkpoints, n) /\ Latest(n) \in Checkpoint
      /\ Latest(n).icount \in Nat
      /\ Latest(n).icount <= k /\ k <= Latest(n).icount + Interval
  BY <1>1, <1>2, ReachedClose
<1>4. /\ base \in Checkpoint /\ checkpoints \in Seq(Checkpoint)
      /\ Interval \in Nat /\ icount \in Nat
  BY <1>0, <1>1, BoundsAssumption DEF TypeOK
<1>5. /\ checkpoints' \in Seq(Checkpoint) /\ Len(checkpoints') = n
      /\ At(base, checkpoints', n) = At(base, checkpoints, n)
      /\ Ascending(base, checkpoints') /\ Paced(base, checkpoints')
  <2>1. n \in 0..n
    OBVIOUS
  <2> QED BY <1>0, <1>1, <1>2, <1>4, <2>1, PrefixOrdered DEF PaceInv
<1>6. NewestICount' = Latest(n).icount
  BY <1>1, <1>3, <1>5 DEF NewestICount
<1>7. left' \in Nat /\ next' \in Nat /\ Reached' = k
  BY <1>1, <1>2, <1>3, <1>4 DEF Reached
<1>8. TypeOK'
  <2>1. machine' \in Machine
    BY <1>0, <1>1, <1>2, RestoredType
  <2> QED BY <1>0, <1>1, <1>2, <1>3, <1>5, <1>7, <2>1 DEF TypeOK
<1>9. PaceInv'
  BY <1>1, <1>2, <1>3, <1>5, <1>6, <1>7 DEF PaceInv
<1>10. HistInv'
  <2>1. Earliest(base) = base.icount /\ base.icount \in Nat /\ Reached = icount
    BY <1>1, <1>4 DEF Earliest, Checkpoint, Reached
  <2>2. base.icount..k \subseteq base.icount..icount
    BY <1>1, <1>4, <2>1
  <2> QED BY <1>0, <1>1, <1>7, <2>1, <2>2 DEF HistInv, Earliest
<1>11. ReplayInv'
  BY <1>1, <1>2, <1>3, <1>6 DEF ReplayInv
<1> QED BY <1>1, <1>8, <1>9, <1>10, <1>11 DEF IndexInv, FreshInv

\* A replay goes forward towards k, whatever runs its next instruction.
LEMMA ReplayedIndex ==
  ASSUME IndexInv, replaying, left > 0, machine' \in Machine, dirty' \in SUBSET Pages,
         ricount' = ricount + 1, left' = left - 1,
         UNCHANGED <<base, checkpoints, icount, next, replaying, hist>>
  PROVE  IndexInv' /\ Reached' = Reached
<1>0. TypeOK /\ FreshInv /\ PaceInv /\ ReplayInv /\ HistInv
  BY DEF IndexInv
<1>2. left \in Nat /\ ricount \in Nat /\ icount \in Nat
  BY <1>0 DEF TypeOK
<1>3. Reached' = Reached /\ NewestICount' = NewestICount
  BY <1>2 DEF Reached, NewestICount
<1>4. TypeOK'
  <2>1. left' \in Nat /\ ricount' \in Nat
    BY <1>2
  <2> QED BY <1>0, <2>1 DEF TypeOK
<1>5. PaceInv' /\ HistInv' /\ FreshInv'
  BY <1>0, <1>3 DEF PaceInv, HistInv, FreshInv
<1>6. ReplayInv'
  BY <1>0, <1>2, <1>3 DEF ReplayInv
<1> QED BY <1>3, <1>4, <1>5, <1>6 DEF IndexInv

LEMMA ReplayStepIndex ==
  ASSUME IndexInv, ReplayStep
  PROVE  IndexInv'
<1>1. /\ replaying /\ left > 0 /\ machine' = Exec[machine]
      /\ dirty' = dirty \cup Writes[machine]
      /\ ricount' = ricount + 1 /\ left' = left - 1
      /\ UNCHANGED <<base, checkpoints, icount, next, replaying, hist>>
  BY DEF ReplayStep
<1>2. machine' \in Machine /\ dirty' \in SUBSET Pages
  BY <1>1, ProgramAssumption DEF IndexInv, TypeOK
<1> QED BY <1>1, <1>2, ReplayedIndex

\* A replay ends at k, no more than an interval past the newest checkpoint.
LEMMA EndGotoIndex ==
  ASSUME IndexInv, EndGoto
  PROVE  IndexInv'
<1>0. TypeOK /\ FreshInv /\ PaceInv /\ ReplayInv /\ HistInv
  BY DEF IndexInv
<1>1. /\ replaying /\ left = 0 /\ replaying' = FALSE /\ icount' = ricount
      /\ next' = IF next < ricount THEN ricount ELSE next
      /\ hist' = [i \in base.icount..ricount |-> hist[i]]
      /\ UNCHANGED <<machine, base, checkpoints, dirty, left, ricount>>
  BY DEF EndGoto
<1>2. /\ base # None /\ base \in Checkpoint /\ base.icount \in Nat
      /\ ricount \in Nat /\ next \in Nat /\ icount \in Nat
  BY <1>0, <1>1 DEF TypeOK, FreshInv, Checkpoint
<1>3. Reached = ricount /\ Reached' = ricount /\ NewestICount' = NewestICount
  BY <1>1, <1>2 DEF Reached, NewestICount
<1>4. next' = next
  BY <1>0, <1>1, <1>2, <1>3 DEF PaceInv
<1>5. base.icount..ricount \subseteq DOMAIN hist
  BY <1>0, <1>2, <1>3 DEF HistInv, Earliest
<1>6. DOMAIN hist' = base.icount..ricount /\ \A i \in DOMAIN hist' : hist'[i] \in Machine
  <2>1. DOMAIN hist' = base.icount..ricount
    BY <1>1
  <2>2. \A i \in base.icount..ricount : hist'[i] = hist[i]
    BY <1>1
  <2> QED BY <1>0, <1>5, <2>1, <2>2 DEF TypeOK
<1>7. DOMAIN hist' \subseteq Nat
  BY <1>2, <1>6
<1>8. TypeOK'
  BY <1>0, <1>1, <1>2, <1>4, <1>6, <1>7 DEF TypeOK
<1>9. PaceInv'
  <2>1. NewestICount <= ricount
    BY <1>0, <1>1 DEF ReplayInv
  <2> QED BY <1>0, <1>1, <1>2, <1>3, <1>4, <2>1 DEF PaceInv
<1>10. HistInv'
  BY <1>1, <1>2, <1>3, <1>6 DEF HistInv, Earliest
<1> QED BY <1>1, <1>2, <1>8, <1>9, <1>10 DEF IndexInv, FreshInv, ReplayInv

\* There is nothing to be out of order at first.
LEMMA InitIndex == Init => IndexInv
<1> SUFFICES ASSUME Init PROVE IndexInv
  OBVIOUS
<1>1. DOMAIN hist = 0..0 /\ hist[0] = machine
  BY DEF Init
<1>2. TypeOK
  BY <1>1 DEF Init, TypeOK
<1> QED BY <1>1, <1>2 DEF Init, IndexInv, FreshInv, PaceInv, ReplayInv, HistInv, Reached, Earliest

\* The inductive step: every action keeps the checkpoints where they belong.
LEMMA NextIndex == IndexInv /\ [Next]_vars => IndexInv'
<1> SUFFICES ASSUME IndexInv, [Next]_vars PROVE IndexInv'
  OBVIOUS
<1>1. CASE Execute
  <2>1. machine \in Machine /\ icount \in Nat
    BY DEF IndexInv, TypeOK
  <2>2. machine' \in Machine /\ Writes[machine] \in SUBSET Pages
    BY <1>1, <2>1, ProgramAssumption DEF Execute
  <2> QED BY <1>1, <2>2, NoteInstructionIndex DEF Execute, Idle
<1>2. CASE Fault
  <2>1. machine' \in Machine /\ {} \in SUBSET Pages
    BY <1>2 DEF Fault, IndexInv, TypeOK
  <2> QED BY <1>2, <2>1, NoteInstructionIndex DEF Fault, Idle
<1>3. CASE \E p \in Pages, v \in Vals : EditMemory(p, v)
  <2>1. PICK p \in Pages, v \in Vals : EditMemory(p, v)
    BY <1>3
  <2>2. [machine EXCEPT !.mem[p] = v] \in Machine
    BY DEF IndexInv, TypeOK, Machine
  <2> QED BY <2>1, <2>2, EditedIndex DEF EditMemory
<1>4. CASE \E c \in Ctxs : EditRegister(c)
  <2>1. PICK c \in Ctxs : EditRegister(c)
    BY <1>4
  <2>2. [machine EXCEPT !.ctx = c] \in Machine
    BY DEF IndexInv, TypeOK, Machine
  <2> QED BY <2>1, <2>2, EditedIndex DEF EditRegister
<1>5. CASE \E k \in 0..MaxICount : BeginGoto(k)
  BY <1>5, BoundsAssumption, BeginGotoIndex
<1>6. CASE ReplayStep
  BY <1>6, ReplayStepIndex
<1>7. CASE EndGoto
  BY <1>7, EndGotoIndex
<1>8. CASE UNCHANGED vars
  BY <1>8 DEF vars, stored, IndexInv, TypeOK, FreshInv, PaceInv, ReplayInv, HistInv,
              Reached, NewestICount
<1> QED BY <1>1, <1>2, <1>3, <1>4, <1>5, <1>6, <1>7, <1>8 DEF Next

\* So they always are.
LEMMA Indexed == Spec => []IndexInv
<1>1. Init => IndexInv
  BY InitIndex
<1>2. IndexInv /\ [Next]_vars => IndexInv'
  BY NextIndex
<1> QED BY <1>1, <1>2, PTL DEF Spec

\* Every variable keeps its type, whatever mix of runs, faults, edits and
\* rewinds the target goes through (timeline.py, target.py _go).
THEOREM TypeCorrect == Spec => []TypeOK
<1>1. IndexInv => TypeOK
  BY DEF IndexInv
<1> QED BY <1>1, Indexed, PTL

\* No rewind replays more than one checkpoint interval: a checkpoint that
\* close exists for every instruction the history reaches (timeline.py,
\* checkpoint, truncate and advance_to, which keep `_next` in step).
THEOREM ReplaysAreShort == Spec => []ReplayIsShort
<1>1. IndexInv => ReplayIsShort
  <2> SUFFICES ASSUME IndexInv, base # None PROVE
        /\ left <= Interval
        /\ \A k \in base.icount..icount : \E n \in 0..Len(checkpoints) :
             Reaches(n, k) /\ k - Latest(n).icount <= Interval
    BY DEF ReplayIsShort
  <2>1. /\ base \in Checkpoint /\ checkpoints \in Seq(Checkpoint)
        /\ icount \in Nat /\ next \in Nat /\ Interval \in Nat /\ left \in Nat /\ ricount \in Nat
        /\ base.icount \in Nat
    BY BoundsAssumption DEF IndexInv, TypeOK, Checkpoint
  <2>2. left <= Interval
    <3>1. CASE replaying
      BY <2>1, <3>1 DEF IndexInv, PaceInv, ReplayInv, Reached
    <3>2. CASE ~replaying
      BY <2>1, <3>2 DEF IndexInv, ReplayInv
    <3> QED BY <3>1, <3>2
  <2>3. ASSUME NEW k \in base.icount..icount
        PROVE  \E n \in 0..Len(checkpoints) :
                 Reaches(n, k) /\ k - Latest(n).icount <= Interval
    <3>1. k \in Nat /\ base.icount <= k /\ k <= icount
      BY <2>1
    <3>2. PICK n \in 0..Len(checkpoints) : Reaches(n, k)
      BY <2>1, <3>1, ReachesExists
    <3>3. Latest(n).icount \in Nat /\ k <= Latest(n).icount + Interval
      BY <2>1, <3>1, <3>2, ReachedClose
    <3> QED BY <2>1, <3>1, <3>2, <3>3
  <2> QED BY <2>2, <2>3
<1> QED BY <1>1, Indexed, PTL

----------------------------------------------------------------------------
(* What is held. *)

Sizes(cs) == [i \in DOMAIN cs |-> Size(cs[i])]

LEMMA SizesAre ==
  ASSUME NEW cs \in Seq(Checkpoint)
  PROVE  /\ Sizes(cs) \in [1..Len(cs) -> Nat] /\ Sizes(cs) \in [1..Len(cs) -> Int]
         /\ IsFiniteSet(1..Len(cs)) /\ Len(cs) \in Nat
         /\ \A f : Held(cs, f) = SumFunctionOnSet(Sizes(cs), (f + 1)..Len(cs))
<1>1. ASSUME NEW cp \in Checkpoint PROVE Size(cp) \in Nat
  <2>1. IsFiniteSet({p \in Pages : cp.pages[p] # Absent})
    BY BoundsAssumption, FS_Subset
  <2>2. CtxSize \in Nat
    BY BoundsAssumption
  <2> QED BY <2>1, <2>2, FS_CardinalityType DEF Size
<1>2. Len(cs) \in Nat /\ DOMAIN cs = 1..Len(cs) /\ \A i \in 1..Len(cs) : cs[i] \in Checkpoint
  OBVIOUS
<1>3. IsFiniteSet(1..Len(cs))
  BY <1>2, FS_Interval
<1> QED
  BY <1>1, <1>2, <1>3 DEF Held, Sizes

\* Without its oldest, a list holds what the others do.
LEMMA HeldSuffix ==
  ASSUME NEW cs \in Seq(Checkpoint), NEW f \in 0..Len(cs)
  PROVE  Held(SubSeq(cs, f + 1, Len(cs)), 0) = Held(cs, f)
<1> DEFINE ds == SubSeq(cs, f + 1, Len(cs))
           n == Len(cs) - f
<1>1. /\ ds \in Seq(Checkpoint) /\ Len(ds) = n /\ n \in Nat
      /\ \A i \in 1..n : ds[i] = cs[f + i]
  OBVIOUS
<1> HIDE DEF ds
<1>2. Sizes(ds) \in [1..n -> Int] /\ IsFiniteSet(1..n)
      /\ Held(ds, 0) = SumFunctionOnSet(Sizes(ds), 1..n)
  BY <1>1, SizesAre
<1>3. Sizes(cs) \in [1..Len(cs) -> Int] /\ IsFiniteSet(1..Len(cs))
      /\ Held(cs, f) = SumFunctionOnSet(Sizes(cs), (f + 1)..(f + n)) /\ f + n = Len(cs)
  BY SizesAre
<1>4. \A i \in 1..n : Sizes(ds)[i] = Sizes(cs)[f + i]
  BY <1>1 DEF Sizes
<1>5. f \in Int /\ (f + 1)..(f + n) \subseteq 1..Len(cs)
  OBVIOUS
<1> HIDE DEF n
<1>6. SumFunctionOnSet(Sizes(ds), 1..n) = SumFunctionOnSet(Sizes(cs), (f + 1)..(f + n))
  <2>1. Renumbered(Sizes(ds), 1..n, Sizes(cs), 1..Len(cs), f, n)
    BY <1>1, <1>2, <1>3, <1>4, <1>5 DEF Renumbered
  <2> QED BY <2>1, SumRenumbered
<1> QED
  BY <1>2, <1>3, <1>6 DEF ds

\* Without its newest, it does not hold more.
LEMMA HeldPrefix ==
  ASSUME NEW cs \in Seq(Checkpoint), NEW n \in 0..Len(cs)
  PROVE  Held(SubSeq(cs, 1, n), 0) \in Nat /\ Held(cs, 0) \in Nat
         /\ Held(SubSeq(cs, 1, n), 0) <= Held(cs, 0)
<1> DEFINE ds == SubSeq(cs, 1, n)
<1>1. /\ ds \in Seq(Checkpoint) /\ Len(ds) = n /\ n \in Nat /\ 0 \in Int
      /\ \A i \in 1..n : ds[i] = cs[i]
  OBVIOUS
<1> HIDE DEF ds
<1>2. Sizes(ds) \in [1..n -> Int] /\ IsFiniteSet(1..n)
      /\ Held(ds, 0) = SumFunctionOnSet(Sizes(ds), 1..n)
  BY <1>1, SizesAre
<1>3. Sizes(cs) \in [1..Len(cs) -> Nat] /\ Sizes(cs) \in [1..Len(cs) -> Int]
      /\ IsFiniteSet(1..Len(cs)) /\ Held(cs, 0) = SumFunctionOnSet(Sizes(cs), 1..Len(cs))
  BY SizesAre
<1>4. \A i \in 1..n : Sizes(ds)[i] = Sizes(cs)[0 + i]
  BY <1>1 DEF Sizes
<1>5. (0 + 1)..(0 + n) = 1..n /\ 1..n \in SUBSET (1..Len(cs)) /\ 1..Len(cs) \in SUBSET (1..Len(cs))
  BY <1>1
<1>6. SumFunctionOnSet(Sizes(ds), 1..n) = SumFunctionOnSet(Sizes(cs), (0 + 1)..(0 + n))
  <2>1. Renumbered(Sizes(ds), 1..n, Sizes(cs), 1..Len(cs), 0, n)
    BY <1>1, <1>2, <1>3, <1>4, <1>5 DEF Renumbered
  <2> QED BY <2>1, SumRenumbered
<1>7. /\ SumFunctionOnSet(Sizes(cs), 1..n) \in Nat /\ SumFunctionOnSet(Sizes(cs), 1..Len(cs)) \in Nat
      /\ SumFunctionOnSet(Sizes(cs), 1..n) <= SumFunctionOnSet(Sizes(cs), 1..Len(cs))
  BY <1>3, <1>5, SumGrows
<1> QED
  BY <1>2, <1>3, <1>5, <1>6, <1>7 DEF ds

LEMMA HeldNothing == ASSUME NEW cs, cs = <<>> PROVE Held(cs, 0) = 0 /\ 0 <= Budget
<1>1. cs \in Seq(Checkpoint) /\ Len(cs) = 0 /\ (0 + 1)..0 = {} /\ {} \in SUBSET (1..0)
  OBVIOUS
<1>2. IsFiniteSet(1..0) /\ Sizes(cs) \in [1..0 -> Int]
      /\ Held(cs, 0) = SumFunctionOnSet(Sizes(cs), {})
  BY <1>1, SizesAre
<1>3. SumFunctionOnSet(Sizes(cs), {}) = 0
  BY <1>1, <1>2, SumType
<1> QED
  BY <1>2, <1>3, BoundsAssumption

\* A checkpoint is taken within the budget.
LEMMA TakesWithin ==
  ASSUME TypeOK, BudgetKept, NEW m \in Machine, NEW i \in Nat, NEW d, TakeCheckpoint(i, m, d)
  PROVE  BudgetKept'
<1>1. CASE base = None
  BY <1>1 DEF TakeCheckpoint, BudgetKept
<1>2. CASE base # None
  <2> DEFINE cs == Append(checkpoints, Snapshot(i, m, d))
  <2>1. cs \in Seq(Checkpoint)
    BY SnapshotType DEF TypeOK
  <2>2. PICK f \in Excess(cs) : checkpoints' = SubSeq(cs, f + 1, Len(cs))
    BY <1>2 DEF TakeCheckpoint
  <2> HIDE DEF cs
  <2>3. f \in 0..Len(cs) /\ (f = Len(cs) \/ Held(cs, f) <= Budget)
    BY <2>2 DEF Excess
  <2>4. CASE f = Len(cs)
    <3>1. checkpoints' = <<>>
      BY <2>1, <2>2, <2>4
    <3> QED BY <3>1, HeldNothing DEF BudgetKept
  <2>5. CASE Held(cs, f) <= Budget
    BY <2>1, <2>2, <2>3, <2>5, HeldSuffix DEF BudgetKept
  <2> QED BY <2>3, <2>4, <2>5
<1> QED
  BY <1>1, <1>2

\* The deltas kept never outgrow the budget, whatever is run, edited and undone
\* (timeline.py, _enforce_budget, which checkpoint calls before it returns, and
\* truncate).
THEOREM StaysWithinBudget == Spec => []BudgetKept
<1>1. Init => BudgetKept
  BY HeldNothing DEF Init, BudgetKept
<1>2. IndexInv /\ BudgetKept /\ [Next]_vars => BudgetKept'
  <2> SUFFICES ASSUME IndexInv, BudgetKept, [Next]_vars PROVE BudgetKept'
    OBVIOUS
  <2>1. TypeOK /\ machine \in Machine /\ icount \in Nat /\ checkpoints \in Seq(Checkpoint)
    BY DEF IndexInv, TypeOK
  <2>2. ASSUME NEW written, NoteInstruction(written) PROVE BudgetKept'
    BY <2>1, <2>2, TakesWithin DEF NoteInstruction, BudgetKept
  <2>3. ASSUME NEW m \in Machine, NEW d, Edited(m, d) PROVE BudgetKept'
    BY <2>1, <2>3, TakesWithin DEF Edited, BudgetKept
  <2>4. CASE Execute \/ Fault
    BY <2>2, <2>4 DEF Execute, Fault
  <2>5. CASE \E p \in Pages, v \in Vals : EditMemory(p, v)
    <3>1. PICK p \in Pages, v \in Vals : EditMemory(p, v)
      BY <2>5
    <3>2. [machine EXCEPT !.mem[p] = v] \in Machine
      BY <2>1 DEF Machine
    <3> QED BY <3>1, <3>2, <2>3 DEF EditMemory
  <2>6. CASE \E c \in Ctxs : EditRegister(c)
    <3>1. PICK c \in Ctxs : EditRegister(c)
      BY <2>6
    <3>2. [machine EXCEPT !.ctx = c] \in Machine
      BY <2>1 DEF Machine
    <3> QED BY <3>1, <3>2, <2>3 DEF EditRegister
  <2>7. CASE \E k \in 0..MaxICount : BeginGoto(k)
    <3>1. PICK n \in 0..Len(checkpoints) : checkpoints' = SubSeq(checkpoints, 1, n)
      BY <2>7 DEF BeginGoto
    <3>2. /\ Held(checkpoints', 0) \in Nat /\ Held(checkpoints, 0) \in Nat
          /\ Held(checkpoints', 0) <= Held(checkpoints, 0)
      BY <2>1, <3>1, HeldPrefix
    <3>3. Budget \in Nat
      BY BoundsAssumption
    <3> QED BY <3>2, <3>3 DEF BudgetKept
  <2>8. CASE ReplayStep \/ EndGoto \/ UNCHANGED vars
    <3>1. checkpoints' = checkpoints
      BY <2>8 DEF ReplayStep, EndGoto, vars, stored
    <3> QED BY <3>1 DEF BudgetKept
  <2> QED BY <2>4, <2>5, <2>6, <2>7, <2>8 DEF Next
<1> QED
  BY <1>1, <1>2, Indexed, PTL DEF Spec

----------------------------------------------------------------------------
(* Going back puts back exactly what was there, for every program that     *)
(* writes the pages it maps; Timeline implements History then.             *)

\* What the n-th checkpoint of a list says the machine was.
Image(b, cs, n) ==
  [ctx |-> At(b, cs, n).ctx,
   mem |-> [p \in Pages |-> IF p \in At(b, cs, n).regions THEN Overlay(b.pages, cs, n)[p]
                            ELSE Absent]]

\* Two machines, as far as the registers and the pages of `own` go: all pages
\* for a program by itself, those no call touches where calls are served.
Agree(own, m, n) == m.ctx = n.ctx /\ \A p \in own : m.mem[p] = n.mem[p]

\* The list has a page for everything that was mapped.
PagesHeld(own, b, cs) ==
  \A n \in 0..Len(cs) : \A p \in own :
    p \in At(b, cs, n).regions => Overlay(b.pages, cs, n)[p] # Absent

\* The last checkpoint of those taken at its instruction.
Final(b, cs, n) == \A i \in (n + 1)..Len(cs) : cs[i].icount > At(b, cs, n).icount

\* What is mapped and not dirty is in the checkpoints as it is.
CleanOn(own) ==
  base # None =>
    \A p \in (own \cap Mapped(machine.mem)) \ dirty :
      Overlay(base.pages, checkpoints, Len(checkpoints))[p] = machine.mem[p]

\* Checkpoints say what the machine was at their instructions.
ImagesOn(own) ==
  base # None =>
    /\ PagesHeld(own, base, checkpoints)
    /\ \A n \in 0..Len(checkpoints) :
         Final(base, checkpoints, n) =>
           Agree(own, Image(base, checkpoints, n), hist[At(base, checkpoints, n).icount])

\* The history ends where the machine is.
NowOn(own) == Agree(own, machine, hist[IF replaying THEN ricount ELSE icount])
NowInv == machine = hist[IF replaying THEN ricount ELSE icount]

Follows(i) == hist[i] \notin Faulting /\ hist[i + 1] = Exec[hist[i]]

\* Where the history is not what the program does, someone edited it, and
\* there is a checkpoint.
ChainInv ==
  base # None =>
    \A i \in base.icount..(Reached - 1) :
      Follows(i) \/ \E n \in 1..Len(checkpoints) : checkpoints[n].icount = i + 1

\* The history is kept from the oldest instruction on, without a gap.
SpanInv ==
  /\ hist \in [Earliest(base)..Max(DOMAIN hist) -> Machine]
  /\ Max(DOMAIN hist) \in Nat
  /\ Reached <= Max(DOMAIN hist)
  /\ ~replaying => Max(DOMAIN hist) = icount

StoredOn(own) == CleanOn(own) /\ ImagesOn(own) /\ NowOn(own)
RestoreInv == IndexInv /\ StoredOn(Pages) /\ ChainInv /\ SpanInv

----------------------------------------------------------------------------
(* Images of checkpoints. *)

\* Machines that agree with one that is like a third are like it too.
LEMMA AgreeOn ==
  ASSUME NEW own, NEW l, NEW m, NEW n, Agree(own, l, m), Agree(own, m, n)
  PROVE  Agree(own, l, n) /\ Agree(own, m, l)
BY DEF Agree

LEMMA AgreeSame == ASSUME NEW own, NEW m PROVE Agree(own, m, m)
BY DEF Agree

\* Machines that agree on every page are the same.
LEMMA AgreeEverywhere ==
  ASSUME NEW m \in Machine, NEW n \in Machine, Agree(Pages, m, n) PROVE m = n
<1>1. m = [ctx |-> m.ctx, mem |-> m.mem] /\ n = [ctx |-> n.ctx, mem |-> n.mem]
  BY DEF Machine
<1>2. m.mem = [p \in Pages |-> m.mem[p]] /\ n.mem = [p \in Pages |-> n.mem[p]]
  BY DEF Machine
<1>3. \A p \in Pages : m.mem[p] = n.mem[p]
  BY DEF Agree
<1>4. m.mem = n.mem
  BY <1>2, <1>3
<1> QED
  BY <1>1, <1>4 DEF Agree

\* The machine restored from the n-th checkpoint of a list is the image on the
\* pages the list has.
LEMMA RestoredIsImage ==
  ASSUME TypeOK, base # None, NEW own \in SUBSET Pages, PagesHeld(own, base, checkpoints),
         NEW n \in 0..Len(checkpoints)
  PROVE  Agree(own, Restored(n), Image(base, checkpoints, n))
<1>1. Latest(n) = At(base, checkpoints, n)
  BY DEF Latest, At
<1>2. ASSUME NEW p \in own
      PROVE  RestoredMem(n)[p] = IF p \in At(base, checkpoints, n).regions
                                 THEN Overlay(base.pages, checkpoints, n)[p] ELSE Absent
  <2>1. p \in Pages
    OBVIOUS
  <2> QED
    BY <1>1, <2>1 DEF RestoredMem, PagesHeld
<1> QED
  BY <1>1, <1>2 DEF Restored, Image, Agree

\* Folding changes no image.
LEMMA FoldImages ==
  ASSUME NEW b \in Checkpoint, NEW cs \in Seq(Checkpoint), NEW f \in 0..Len(cs),
         NEW i \in 0..(Len(cs) - f)
  PROVE  /\ Overlay(FoldedBase(b, cs, f).pages, SubSeq(cs, f + 1, Len(cs)), i)
              = Overlay(b.pages, cs, f + i)
         /\ Image(FoldedBase(b, cs, f), SubSeq(cs, f + 1, Len(cs)), i) = Image(b, cs, f + i)
<1>1. b.pages \in PageMap
  BY DEF Checkpoint, PageMap
<1>2. Overlay(FoldedBase(b, cs, f).pages, SubSeq(cs, f + 1, Len(cs)), i)
        = Overlay(b.pages, cs, f + i)
  BY <1>1, FoldAt, OverlayFold
<1>3. /\ At(FoldedBase(b, cs, f), SubSeq(cs, f + 1, Len(cs)), i).ctx = At(b, cs, f + i).ctx
      /\ At(FoldedBase(b, cs, f), SubSeq(cs, f + 1, Len(cs)), i).regions
           = At(b, cs, f + i).regions
  BY FoldAt
<1> QED
  BY <1>2, <1>3 DEF Image

\* A snapshot of the machine on top of a list that has what is not dirty is
\* the machine.
LEMMA AppendImages ==
  ASSUME NEW own \in SUBSET Pages, NEW b \in Checkpoint, NEW cs \in Seq(Checkpoint),
         PagesHeld(own, b, cs), NEW m \in Machine, NEW d, NEW k \in Nat,
         \A p \in (own \cap Mapped(m.mem)) \ d : Overlay(b.pages, cs, Len(cs))[p] = m.mem[p]
  PROVE  LET ds == Append(cs, Snapshot(k, m, d)) IN
         /\ \A n \in 0..Len(cs) : Overlay(b.pages, ds, n) = Overlay(b.pages, cs, n)
                                /\ Image(b, ds, n) = Image(b, cs, n)
         /\ \A p \in own \cap Mapped(m.mem) : Overlay(b.pages, ds, Len(cs) + 1)[p] = m.mem[p]
         /\ Agree(own, Image(b, ds, Len(cs) + 1), m)
         /\ PagesHeld(own, b, ds)
<1> DEFINE c == Snapshot(k, m, d)
           ds == Append(cs, c)
           l == Len(cs)
<1>1. c \in Checkpoint /\ b.pages \in PageMap /\ m.mem \in PageMap
  BY SnapshotType DEF Checkpoint, PageMap, Machine
<1>2. c.ctx = m.ctx /\ c.regions = Mapped(m.mem)
      /\ \A p \in Pages : c.pages[p] = IF p \in d THEN m.mem[p] ELSE Absent
  BY DEF Snapshot
<1> HIDE DEF c
<1>3. /\ ds \in Seq(Checkpoint) /\ Len(ds) = l + 1 /\ l \in Nat
      /\ \A i \in 1..l : ds[i] = cs[i]
      /\ \A n \in 0..l : At(b, ds, n) = At(b, cs, n)
      /\ At(b, ds, l + 1) = c
  BY <1>1 DEF At
<1>4. ASSUME NEW n \in 0..l
      PROVE  Overlay(b.pages, ds, n) = Overlay(b.pages, cs, n) /\ Image(b, ds, n) = Image(b, cs, n)
  <2>1. n \in Nat /\ n <= Len(cs) /\ n <= Len(ds) /\ \A i \in 1..n : ds[i] = cs[i]
    BY <1>3
  <2>2. Overlay(b.pages, ds, n) = Overlay(b.pages, cs, n)
    BY <1>1, <1>3, <2>1, OverlaySame
  <2> QED
    BY <1>3, <2>2 DEF Image
<1>5. ASSUME NEW p \in own \cap Mapped(m.mem)
      PROVE  Overlay(b.pages, ds, l + 1)[p] = m.mem[p]
  <2>1. p \in Pages /\ m.mem[p] # Absent
    BY DEF Mapped
  <2>2. Overlay(b.pages, ds, l + 1)[p]
          = IF c.pages[p] # Absent THEN c.pages[p] ELSE Overlay(b.pages, cs, l)[p]
    BY <1>1, <2>1, OverlayAppend
  <2> QED
    BY <1>2, <2>1, <2>2
<1>6. Agree(own, Image(b, ds, l + 1), m)
  <2>1. ASSUME NEW p \in own
        PROVE  (IF p \in c.regions THEN Overlay(b.pages, ds, l + 1)[p] ELSE Absent) = m.mem[p]
    BY <1>2, <1>5 DEF Mapped
  <2>2. ASSUME NEW p \in own
        PROVE  Image(b, ds, l + 1).mem[p] = m.mem[p]
    <3>1. p \in Pages
      OBVIOUS
    <3> QED
      BY <1>3, <2>1, <3>1 DEF Image
  <2>3. Image(b, ds, l + 1).ctx = m.ctx
    BY <1>2, <1>3 DEF Image
  <2> QED
    BY <2>2, <2>3 DEF Agree
<1>7. PagesHeld(own, b, ds)
  <2> SUFFICES ASSUME NEW n \in 0..(l + 1), NEW p \in own, p \in At(b, ds, n).regions
               PROVE  Overlay(b.pages, ds, n)[p] # Absent
    BY <1>3 DEF PagesHeld
  <2>1. CASE n \in 0..l
    BY <1>3, <1>4, <2>1 DEF PagesHeld
  <2>2. CASE n = l + 1
    BY <1>2, <1>3, <1>5, <2>2 DEF Mapped
  <2> QED
    BY <1>3, <2>1, <2>2
<1> QED
  BY <1>4, <1>5, <1>6, <1>7 DEF c, ds, l

\* What a checkpoint taken now does to the images: what was final before it is
\* kept or given up, and the newest says what the machine is.
LEMMA TakesImages ==
  ASSUME TypeOK, FreshInv, PaceInv, ~replaying, NEW own \in SUBSET Pages,
         NEW m \in Machine, NEW d, TakeCheckpoint(icount, m, d),
         base # None =>
           /\ PagesHeld(own, base, checkpoints)
           /\ \A p \in (own \cap Mapped(m.mem)) \ d :
                Overlay(base.pages, checkpoints, Len(checkpoints))[p] = m.mem[p]
  PROVE  /\ PagesHeld(own, base', checkpoints')
         /\ \A p \in own \cap Mapped(m.mem) :
              Overlay(base'.pages, checkpoints', Len(checkpoints'))[p] = m.mem[p]
         /\ Agree(own, Image(base', checkpoints', Len(checkpoints')), m)
         /\ \A n \in 0..Len(checkpoints') : Final(base', checkpoints', n) =>
              \/ n = Len(checkpoints')
              \/ /\ base # None
                 /\ At(base', checkpoints', n).icount < icount
                 /\ \E j \in 0..Len(checkpoints) :
                      /\ Final(base, checkpoints, j)
                      /\ At(base', checkpoints', n).icount = At(base, checkpoints, j).icount
                      /\ Image(base', checkpoints', n) = Image(base, checkpoints, j)
<1>0. icount \in Nat
  BY DEF TypeOK
<1>1. CASE base = None
  <2>1. base' = Snapshot(icount, m, Pages) /\ checkpoints' = <<>>
    BY <1>1 DEF TakeCheckpoint, FreshInv
  <2>2. base' \in Checkpoint /\ base'.regions = Mapped(m.mem) /\ base'.ctx = m.ctx
        /\ base'.pages = [p \in Pages |-> m.mem[p]]
    BY <1>0, <2>1, SnapshotType DEF Snapshot
  <2>3. /\ checkpoints' \in Seq(Checkpoint) /\ Len(checkpoints') = 0
        /\ At(base', checkpoints', 0) = base'
    BY <2>1 DEF At
  <2>4. \A p \in Pages : Overlay(base'.pages, checkpoints', 0)[p] = m.mem[p]
    <3> TAKE p \in Pages
    <3>1. base'.pages \in PageMap /\ 0 \in 0..Len(checkpoints')
      BY <2>2, <2>3 DEF Checkpoint, PageMap
    <3>2. \A i \in 1..0 : checkpoints'[i].pages[p] = Absent
      OBVIOUS
    <3>3. Overlay(base'.pages, checkpoints', 0)[p] = base'.pages[p]
      BY <2>3, <3>1, <3>2, OverlayUnheld
    <3> QED
      BY <2>2, <3>3
  <2>5. PagesHeld(own, base', checkpoints')
    BY <2>2, <2>3, <2>4 DEF PagesHeld, Mapped
  <2>6. Agree(own, Image(base', checkpoints', 0), m)
    <3>1. \A p \in own : (IF p \in base'.regions
                          THEN Overlay(base'.pages, checkpoints', 0)[p] ELSE Absent) = m.mem[p]
      BY <2>2, <2>4 DEF Mapped
    <3>2. \A p \in own : Image(base', checkpoints', 0).mem[p] = m.mem[p]
      BY <2>3, <3>1 DEF Image
    <3>3. Image(base', checkpoints', 0).ctx = m.ctx
      BY <2>2, <2>3 DEF Image
    <3> QED
      BY <3>2, <3>3 DEF Agree
  <2> QED
    BY <1>1, <2>3, <2>4, <2>5, <2>6 DEF Mapped
<1>2. CASE base # None
  <2> DEFINE c == Snapshot(icount, m, d)
             cs == Append(checkpoints, c)
             l == Len(checkpoints)
  <2>1. /\ base \in Checkpoint /\ checkpoints \in Seq(Checkpoint) /\ c \in Checkpoint
        /\ c.icount = icount /\ l \in Nat
    <3>1. c \in Checkpoint
      BY <1>0, SnapshotType
    <3>2. c.icount = icount
      BY DEF Snapshot
    <3>3. base \in Checkpoint /\ checkpoints \in Seq(Checkpoint)
      BY <1>2 DEF TypeOK
    <3> QED
      BY <3>1, <3>2, <3>3
  <2>2. PICK f \in Excess(cs) : /\ base' = FoldedBase(base, cs, f)
                                /\ checkpoints' = SubSeq(cs, f + 1, Len(cs))
    BY <1>2 DEF TakeCheckpoint
  <2>3. cs \in Seq(Checkpoint) /\ Len(cs) = l + 1 /\ f \in 0..(l + 1)
    BY <2>1, <2>2 DEF Excess
  <2>4. /\ \A n \in 0..l : Overlay(base.pages, cs, n) = Overlay(base.pages, checkpoints, n)
                        /\ Image(base, cs, n) = Image(base, checkpoints, n)
        /\ \A p \in own \cap Mapped(m.mem) : Overlay(base.pages, cs, l + 1)[p] = m.mem[p]
        /\ Agree(own, Image(base, cs, l + 1), m)
        /\ PagesHeld(own, base, cs)
    BY <1>0, <1>2, <2>1, AppendImages
  <2>5. /\ \A n \in 1..l : cs[n] = checkpoints[n]
        /\ \A n \in 0..l : At(base, cs, n) = At(base, checkpoints, n)
        /\ At(base, cs, l + 1) = c /\ cs[l + 1] = c
    BY <2>1 DEF At
  <2>6. Ascending(base, cs)
    <3>1. At(base, checkpoints, Len(checkpoints)).icount <= c.icount
      BY <1>2, <2>1 DEF PaceInv, NewestICount
    <3>2. c.icount <= At(base, checkpoints, Len(checkpoints)).icount + Interval
      BY <1>2, <2>1 DEF PaceInv, NewestICount, Reached
    <3> QED
      BY <1>2, <2>1, <3>1, <3>2, AppendOrdered DEF PaceInv
  <2> HIDE DEF c, cs
  <2>7. /\ base' \in Checkpoint /\ checkpoints' \in Seq(Checkpoint)
        /\ Len(checkpoints') = l + 1 - f
        /\ \A i \in 1..(l + 1 - f) : checkpoints'[i] = cs[f + i]
        /\ \A i \in 0..(l + 1 - f) :
             /\ At(base', checkpoints', i).icount = At(base, cs, f + i).icount
             /\ At(base', checkpoints', i).regions = At(base, cs, f + i).regions
    <3>1. Len(cs) - f = l + 1 - f /\ f \in 0..Len(cs)
      BY <2>3
    <3>2. base' \in Checkpoint
      BY <2>1, <2>2, <2>3, <3>1, FoldAt
    <3>5. checkpoints' \in Seq(Checkpoint) /\ Len(checkpoints') = Len(cs) - f
      BY <2>2, <2>3, <3>1
    <3>3. \A i \in 1..(Len(cs) - f) : checkpoints'[i] = cs[f + i]
      BY <2>1, <2>2, <2>3, <3>1, FoldAt
    <3>4. \A i \in 0..(Len(cs) - f) :
            /\ At(base', checkpoints', i).icount = At(base, cs, f + i).icount
            /\ At(base', checkpoints', i).regions = At(base, cs, f + i).regions
      BY <2>1, <2>2, <2>3, <3>1, FoldAt
    <3> QED
      BY <3>1, <3>2, <3>3, <3>4, <3>5
  <2>8. \A i \in 0..(l + 1 - f) :
          /\ Overlay(base'.pages, checkpoints', i) = Overlay(base.pages, cs, f + i)
          /\ Image(base', checkpoints', i) = Image(base, cs, f + i)
    <3> TAKE i \in 0..(l + 1 - f)
    <3>1. f \in 0..Len(cs) /\ i \in 0..(Len(cs) - f)
      BY <2>3
    <3> QED
      BY <2>1, <2>2, <2>3, <3>1, FoldImages
  <2>9. PagesHeld(own, base', checkpoints')
    <3> SUFFICES ASSUME NEW n \in 0..(l + 1 - f), NEW p \in own,
                        p \in At(base', checkpoints', n).regions
                 PROVE  Overlay(base'.pages, checkpoints', n)[p] # Absent
      BY <2>7 DEF PagesHeld
    <3>1. f + n \in 0..Len(cs)
      BY <2>3
    <3> QED
      BY <2>4, <2>7, <2>8, <3>1 DEF PagesHeld
  <2>10. f + (l + 1 - f) = l + 1 /\ l + 1 - f \in 0..(l + 1 - f)
    BY <2>1, <2>3
  <2>11. /\ \A p \in own \cap Mapped(m.mem) :
              Overlay(base'.pages, checkpoints', Len(checkpoints'))[p] = m.mem[p]
         /\ Agree(own, Image(base', checkpoints', Len(checkpoints')), m)
    BY <2>4, <2>7, <2>8, <2>10
  <2>12. ASSUME NEW n \in 0..(l + 1 - f), Final(base', checkpoints', n), n # l + 1 - f
         PROVE  /\ At(base', checkpoints', n).icount < icount
                /\ \E j \in 0..l :
                     /\ Final(base, checkpoints, j)
                     /\ At(base', checkpoints', n).icount = At(base, checkpoints, j).icount
                     /\ Image(base', checkpoints', n) = Image(base, checkpoints, j)
    <3>1. f + n \in 0..l /\ l + 1 - f \in (n + 1)..(l + 1 - f) /\ l + 1 - f \in 1..(l + 1 - f)
      BY <2>1, <2>3, <2>12
    <3>2. checkpoints'[l + 1 - f] = c
      BY <2>5, <2>7, <2>10, <3>1
    <3>3. At(base', checkpoints', n).icount = At(base, checkpoints, f + n).icount
      BY <2>5, <2>7, <3>1
    <3>4. c.icount > At(base', checkpoints', n).icount
      BY <2>7, <2>12, <3>1, <3>2 DEF Final
    <3>5. At(base, checkpoints, f + n).icount \in Nat
      <4>1. At(base, checkpoints, f + n) \in Checkpoint
        BY <2>1, <3>1 DEF At
      <4> QED
        BY <4>1 DEF Checkpoint
    <3>6. Final(base, checkpoints, f + n)
      <4> SUFFICES ASSUME NEW i \in (f + n + 1)..l
                   PROVE  checkpoints[i].icount > At(base, checkpoints, f + n).icount
        BY DEF Final
      <4>1. i - f \in (n + 1)..(l + 1 - f) /\ i - f \in 1..(l + 1 - f) /\ f + (i - f) = i
            /\ i \in 1..l
        BY <2>1, <2>3
      <4>2. checkpoints'[i - f] = checkpoints[i]
        BY <2>5, <2>7, <4>1
      <4> QED
        BY <2>7, <2>12, <3>3, <4>1, <4>2 DEF Final
    <3>7. Image(base', checkpoints', n) = Image(base, checkpoints, f + n)
      BY <2>4, <2>8, <3>1
    <3> QED
      BY <1>0, <2>1, <3>1, <3>3, <3>4, <3>5, <3>6, <3>7
  <2> QED
    BY <1>2, <2>7, <2>9, <2>11, <2>12
<1> QED
  BY <1>1, <1>2

\* Instructions with a checkpoint keep one as long as the history reaches them.
LEMMA TakesMarks ==
  ASSUME TypeOK, FreshInv, PaceInv, ~replaying, base # None,
         NEW m \in Machine, NEW d, TakeCheckpoint(icount, m, d), NEW i \in Nat, base'.icount <= i,
         i + 1 = icount \/ \E j \in 1..Len(checkpoints) : checkpoints[j].icount = i + 1
  PROVE  \E n \in 1..Len(checkpoints') : checkpoints'[n].icount = i + 1
<1> DEFINE c == Snapshot(icount, m, d)
           cs == Append(checkpoints, c)
           l == Len(checkpoints)
<1>0. icount \in Nat
  BY DEF TypeOK
<1>1. /\ base \in Checkpoint /\ checkpoints \in Seq(Checkpoint) /\ c \in Checkpoint
      /\ c.icount = icount /\ l \in Nat
  <2>1. c \in Checkpoint
    BY <1>0, SnapshotType
  <2>2. c.icount = icount
    BY DEF Snapshot
  <2>3. base \in Checkpoint /\ checkpoints \in Seq(Checkpoint)
    BY DEF TypeOK
  <2> QED
    BY <2>1, <2>2, <2>3
<1>2. PICK f \in Excess(cs) : /\ base' = FoldedBase(base, cs, f)
                              /\ checkpoints' = SubSeq(cs, f + 1, Len(cs))
  BY DEF TakeCheckpoint
<1>3. cs \in Seq(Checkpoint) /\ Len(cs) = l + 1 /\ f \in 0..(l + 1)
  BY <1>1, <1>2 DEF Excess
<1>4. /\ \A n \in 1..l : cs[n] = checkpoints[n]
      /\ cs[l + 1] = c
  BY <1>1
<1>5. Ascending(base, cs)
  <2>1. At(base, checkpoints, Len(checkpoints)).icount <= c.icount
    BY <1>1 DEF PaceInv, NewestICount
  <2>2. c.icount <= At(base, checkpoints, Len(checkpoints)).icount + Interval
    BY <1>1 DEF PaceInv, NewestICount, Reached
  <2> QED
    BY <1>1, <2>1, <2>2, AppendOrdered DEF PaceInv
<1> HIDE DEF c, cs
<1>6. /\ base' \in Checkpoint /\ Len(checkpoints') = l + 1 - f
      /\ \A k \in 1..(l + 1 - f) : checkpoints'[k] = cs[f + k]
      /\ \A k \in 0..(l + 1 - f) : At(base', checkpoints', k).icount = At(base, cs, f + k).icount
  <2>1. Len(cs) - f = l + 1 - f /\ f \in 0..Len(cs)
    BY <1>3
  <2>2. base' \in Checkpoint
    BY <1>1, <1>2, <1>3, <2>1, FoldAt
  <2>3. Len(checkpoints') = Len(cs) - f
    BY <1>2, <1>3, <2>1
  <2>4. \A k \in 1..(Len(cs) - f) : checkpoints'[k] = cs[f + k]
    BY <1>1, <1>2, <1>3, <2>1, FoldAt
  <2>5. \A k \in 0..(Len(cs) - f) : At(base', checkpoints', k).icount = At(base, cs, f + k).icount
    BY <1>1, <1>2, <1>3, <2>1, FoldAt
  <2> QED
    BY <2>1, <2>2, <2>3, <2>4, <2>5
<1>7. PICK j \in 1..(l + 1) : cs[j].icount = i + 1
  <2>1. CASE i + 1 = icount
    BY <1>1, <1>4, <2>1
  <2>2. CASE \E j \in 1..l : checkpoints[j].icount = i + 1
    BY <1>1, <1>4, <2>2
  <2> QED
    BY <2>1, <2>2
<1>8. base'.icount = At(base, cs, f).icount /\ base'.icount \in Nat
  <2>1. At(base', checkpoints', 0) = base' /\ 0 \in 0..(l + 1 - f) /\ f + 0 = f
    BY <1>1, <1>3 DEF At
  <2> QED
    BY <1>6, <2>1 DEF Checkpoint
<1>9. j > f
  <2> SUFFICES ASSUME j <= f PROVE FALSE
    BY <1>1, <1>3
  <2>1. At(base, cs, j).icount <= At(base, cs, f).icount
    BY <1>1, <1>3, <1>5 DEF Ascending
  <2>2. At(base, cs, j) = cs[j]
    BY DEF At
  <2> QED
    BY <1>7, <1>8, <2>1, <2>2
<1>10. j - f \in 1..(l + 1 - f) /\ f + (j - f) = j
  BY <1>1, <1>3, <1>9
<1> QED
  BY <1>6, <1>7, <1>10

----------------------------------------------------------------------------
(* Going forward. *)

\* An interval's greatest element is its end.
LEMMA SpanMax ==
  ASSUME NEW a \in Nat, NEW b \in Nat, a <= b PROVE Max(a..b) = b
<1>1. b \in a..b /\ \A y \in a..b : b >= y
  OBVIOUS
<1>2. Max(a..b) \in a..b /\ \A y \in a..b : Max(a..b) >= y
  BY <1>1 DEF Max
<1> QED
  BY <1>1, <1>2

\* Counting an instruction gives up the past from its old end, and no more of
\* it than there is.
LEMMA NoteInstructionEarliest ==
  ASSUME IndexInv, ~replaying, NEW w, NoteInstruction(w)
  PROVE  /\ Earliest(base) \in Nat /\ Earliest(base') \in Nat
         /\ Earliest(base) <= Earliest(base') /\ Earliest(base') <= icount
         /\ base' \in Checkpoint
<1>0. TypeOK /\ FreshInv /\ PaceInv
  BY DEF IndexInv
<1>1. Earliest(base) \in Nat /\ icount \in Nat /\ machine \in Machine /\ next \in Nat
  BY <1>0, EarliestType DEF TypeOK
<1>2. CASE icount >= next
  <2>1. TakeCheckpoint(icount, machine, dirty)
    BY <1>2 DEF NoteInstruction
  <2> QED
    BY <1>0, <1>1, <2>1, TakesCheckpoint
<1>3. CASE ~(icount >= next)
  <2>1. base' = base /\ base # None
    BY <1>0, <1>1, <1>3 DEF NoteInstruction, FreshInv
  <2>2. base' \in Checkpoint
    BY <1>0, <2>1 DEF TypeOK
  <2> QED
    BY <1>1, <2>1, <2>2, EarliestBehind
<1> QED
  BY <1>2, <1>3

\* Edits give up the past from its old end only, as instructions do.
LEMMA EditedEarliest ==
  ASSUME IndexInv, NEW m \in Machine, NEW d, Edited(m, d)
  PROVE  /\ Earliest(base) \in Nat /\ Earliest(base') \in Nat
         /\ Earliest(base) <= Earliest(base') /\ Earliest(base') <= icount
<1>0. TypeOK /\ FreshInv /\ PaceInv /\ Earliest(base) \in Nat /\ ~replaying
  BY EarliestType DEF IndexInv, Edited, Idle
<1>1. CASE base = None
  BY <1>0, <1>1 DEF Edited, FreshInv, Earliest
<1>2. CASE base # None
  <2>1. TakeCheckpoint(icount, m, dirty \cup d)
    BY <1>2 DEF Edited
  <2> QED
    BY <1>0, <2>1, TakesCheckpoint
<1> QED
  BY <1>1, <1>2

\* The checkpoints are between the oldest instruction and the newest of them.
LEMMA CheckpointsWithin ==
  ASSUME IndexInv, base # None, NEW n \in 0..Len(checkpoints)
  PROVE  /\ At(base, checkpoints, n) \in Checkpoint
         /\ At(base, checkpoints, n).icount \in Nat
         /\ base.icount \in Nat /\ NewestICount \in Nat
         /\ base.icount <= At(base, checkpoints, n).icount
         /\ At(base, checkpoints, n).icount <= NewestICount
         /\ NewestICount <= icount /\ icount \in Nat
<1>1. /\ base \in Checkpoint /\ checkpoints \in Seq(Checkpoint) /\ icount \in Nat
      /\ Ascending(base, checkpoints) /\ NewestICount <= icount
  BY DEF IndexInv, TypeOK, PaceInv
<1>2. /\ At(base, checkpoints, n) \in Checkpoint
      /\ At(base, checkpoints, Len(checkpoints)) \in Checkpoint
      /\ At(base, checkpoints, 0) = base
  BY <1>1 DEF At
<1>3. 0 \in 0..Len(checkpoints) /\ Len(checkpoints) \in 0..Len(checkpoints)
      /\ 0 <= n /\ n <= Len(checkpoints)
  BY <1>1
<1>4. /\ At(base, checkpoints, 0).icount <= At(base, checkpoints, n).icount
      /\ At(base, checkpoints, n).icount <= At(base, checkpoints, Len(checkpoints)).icount
  BY <1>1, <1>3 DEF Ascending
<1>5. /\ At(base, checkpoints, n).icount \in Nat /\ base.icount \in Nat
      /\ At(base, checkpoints, Len(checkpoints)).icount \in Nat
  BY <1>1, <1>2 DEF Checkpoint
<1> QED
  BY <1>1, <1>2, <1>4, <1>5 DEF NewestICount

\* A step that remembers the machine: the history is as it was up to where the
\* machine was, when the machine only changed by going on, and ends where the
\* machine is.
LEMMA RememberKeeps ==
  ASSUME IndexInv, ~replaying, replaying' = FALSE, Remember, machine' \in Machine,
         icount' \in {icount, icount + 1},
         Earliest(base') \in Nat, Earliest(base) <= Earliest(base'), Earliest(base') <= icount
  PROVE  /\ NowInv' /\ SpanInv'
         /\ \A i \in Earliest(base')..(icount' - 1) : hist'[i] = hist[i]
         /\ NowInv /\ (icount' = icount => machine' = machine) =>
              \A i \in Earliest(base')..icount : hist'[i] = hist[i]
<1>0. TypeOK /\ HistInv /\ icount \in Nat /\ icount' \in Nat /\ icount <= icount'
  BY DEF IndexInv, TypeOK
<1>1. Earliest(base) \in Nat
  BY <1>0, EarliestType
<1>2. /\ DOMAIN hist' = Earliest(base')..icount'
      /\ \A i \in DOMAIN hist' : hist'[i] \in Machine
      /\ hist'[icount'] = machine'
      /\ \A i \in Earliest(base')..(icount' - 1) : hist'[i] = hist[i]
  BY <1>0, <1>1, Remembered
<1>3. NowInv'
  BY <1>2 DEF NowInv
<1>4. SpanInv'
  <2>1. Max(DOMAIN hist') = icount'
    BY <1>0, <1>2, SpanMax
  <2>2. hist' \in [Earliest(base')..icount' -> Machine]
    <3>1. hist' = [i \in DOMAIN hist' |-> hist'[i]]
      BY DEF Remember
    <3> QED
      BY <1>2, <3>1
  <2>3. Reached' = icount'
    BY DEF Reached
  <2> QED
    BY <1>0, <2>1, <2>2, <2>3 DEF SpanInv
<1>5. ASSUME NowInv, icount' = icount => machine' = machine, NEW i \in Earliest(base')..icount
      PROVE  hist'[i] = hist[i]
  <2>1. CASE i \in Earliest(base')..(icount' - 1)
    BY <1>2, <2>1
  <2>2. CASE i \notin Earliest(base')..(icount' - 1)
    <3>0. icount \in Nat /\ i \in Nat /\ Earliest(base') <= i /\ i <= icount
      BY <1>0
    <3>1. icount' = icount \/ icount' = icount + 1
      OBVIOUS
    <3>2. i = icount /\ icount' = icount
      <4>1. CASE icount' = icount
        BY <2>2, <3>0, <4>1
      <4>2. CASE icount' = icount + 1
        BY <2>2, <3>0, <4>2
      <4> QED
        BY <3>1, <4>1, <4>2
    <3>3. hist[icount] = machine
      BY <1>5 DEF NowInv
    <3> QED
      BY <1>2, <1>5, <3>2, <3>3
  <2> QED
    BY <2>1, <2>2
<1> QED
  BY <1>2, <1>3, <1>4, <1>5

\* As RememberKeeps, where the history is the machine on some of the pages only.
LEMMA RememberAgrees ==
  ASSUME IndexInv, ~replaying, replaying' = FALSE, Remember, machine' \in Machine,
         icount' \in {icount, icount + 1}, icount' = icount => machine' = machine,
         Earliest(base') \in Nat, Earliest(base) <= Earliest(base'), Earliest(base') <= icount,
         NEW own, NowOn(own), NEW i \in Earliest(base')..icount
  PROVE  /\ Agree(own, hist'[i], hist[i])
         /\ i = icount => Agree(own, hist'[i], machine)
<1>0. icount \in Nat /\ icount' \in Nat
  BY DEF IndexInv, TypeOK
<1>1. /\ NowInv' /\ \A k \in Earliest(base')..(icount' - 1) : hist'[k] = hist[k]
  BY RememberKeeps
<1>2. hist'[icount'] = machine' /\ Agree(own, machine, hist[icount])
  BY <1>1 DEF NowInv, NowOn
<1>3. i \in Nat /\ i <= icount
  BY <1>0
<1>4. CASE i = icount /\ icount' = icount
  BY <1>2, <1>4 DEF Agree
<1>5. CASE ~(i = icount /\ icount' = icount)
  <2>1. i \in Earliest(base')..(icount' - 1)
    <3>1. CASE icount' = icount
      BY <1>0, <1>3, <1>5, <3>1
    <3>2. CASE icount' = icount + 1
      BY <1>0, <1>3, <3>2
    <3> QED
      BY <3>1, <3>2
  <2>2. hist'[i] = hist[i]
    BY <1>1, <2>1
  <2> QED
    BY <1>2, <2>2 DEF Agree
<1> QED
  BY <1>4, <1>5

\* Neither an instruction nor an edit leaves a gap.
LEMMA InstructionSpan ==
  ASSUME IndexInv, ~replaying, replaying' = FALSE, NEW w, NoteInstruction(w), Remember,
         machine' \in Machine, icount' \in {icount, icount + 1}
  PROVE  SpanInv'
BY NoteInstructionEarliest, RememberKeeps

LEMMA EditedSpan ==
  ASSUME IndexInv, NEW m \in Machine, NEW d, Edited(m, d)
  PROVE  SpanInv'
<1>1. /\ ~replaying /\ replaying' = FALSE /\ machine' = m /\ icount' = icount /\ Remember
      /\ icount' \in {icount, icount + 1}
  BY DEF Edited, Idle
<1> QED
  BY <1>1, EditedEarliest, RememberKeeps

\* A run's next instruction, completed or refused, with the checkpoint taken
\* before it when one was due.
LEMMA InstructionStored ==
  ASSUME IndexInv, NEW own \in SUBSET Pages, StoredOn(own), ~replaying, replaying' = FALSE,
         NEW w \in SUBSET Pages, NoteInstruction(w), Remember, machine' \in Machine,
         icount' \in {icount, icount + 1}, icount' = icount => machine' = machine,
         \A p \in (own \cap Mapped(machine'.mem)) \ w : machine'.mem[p] = machine.mem[p]
  PROVE  StoredOn(own)'
<1>0. TypeOK /\ FreshInv /\ PaceInv /\ icount \in Nat /\ machine \in Machine
  BY DEF IndexInv, TypeOK
<1>1. CleanOn(own) /\ ImagesOn(own) /\ NowOn(own)
  BY DEF StoredOn
<1>2. /\ Earliest(base) \in Nat /\ Earliest(base') \in Nat
      /\ Earliest(base) <= Earliest(base') /\ Earliest(base') <= icount
      /\ base' \in Checkpoint
  BY NoteInstructionEarliest
<1>3. \A i \in Earliest(base')..icount : /\ Agree(own, hist'[i], hist[i])
                                         /\ i = icount => Agree(own, hist'[i], machine)
  BY <1>1, <1>2, RememberAgrees
<1>a. NowOn(own)'
  <2>1. NowInv'
    BY <1>2, RememberKeeps
  <2> QED
    BY <2>1 DEF NowInv, NowOn, Agree
<1>4. base' # None /\ Earliest(base') = base'.icount /\ base'.icount \in Nat
  BY <1>2, NoneIsNoCheckpoint DEF Earliest, Checkpoint
<1>6. CASE icount >= next
  <2>1. TakeCheckpoint(icount, machine, dirty) /\ dirty' = w
    BY <1>6 DEF NoteInstruction
  <2>2. base # None =>
          /\ PagesHeld(own, base, checkpoints)
          /\ \A p \in (own \cap Mapped(machine.mem)) \ dirty :
               Overlay(base.pages, checkpoints, Len(checkpoints))[p] = machine.mem[p]
    BY <1>1 DEF CleanOn, ImagesOn
  <2>3. /\ PagesHeld(own, base', checkpoints')
        /\ \A p \in own \cap Mapped(machine.mem) :
             Overlay(base'.pages, checkpoints', Len(checkpoints'))[p] = machine.mem[p]
        /\ Agree(own, Image(base', checkpoints', Len(checkpoints')), machine)
        /\ \A n \in 0..Len(checkpoints') : Final(base', checkpoints', n) =>
             \/ n = Len(checkpoints')
             \/ /\ base # None
                /\ At(base', checkpoints', n).icount < icount
                /\ \E j \in 0..Len(checkpoints) :
                     /\ Final(base, checkpoints, j)
                     /\ At(base', checkpoints', n).icount = At(base, checkpoints, j).icount
                     /\ Image(base', checkpoints', n) = Image(base, checkpoints, j)
    BY <1>0, <2>1, <2>2, TakesImages
  <2>4. /\ base' \in Checkpoint /\ checkpoints' \in Seq(Checkpoint)
        /\ Ascending(base', checkpoints')
        /\ At(base', checkpoints', Len(checkpoints')).icount = icount
    BY <1>0, <2>1, TakesCheckpoint
  <2>5. CleanOn(own)'
    <3> SUFFICES ASSUME NEW p \in (own \cap Mapped(machine'.mem)) \ w
                 PROVE  Overlay(base'.pages, checkpoints', Len(checkpoints'))[p] = machine'.mem[p]
      BY <2>1 DEF CleanOn
    <3>1. p \in own \cap Mapped(machine.mem) /\ machine'.mem[p] = machine.mem[p]
      BY DEF Mapped
    <3> QED
      BY <2>3, <3>1
  <2>6. ASSUME NEW n \in 0..Len(checkpoints'), Final(base', checkpoints', n)
        PROVE  Agree(own, Image(base', checkpoints', n),
                     hist'[At(base', checkpoints', n).icount])
    <3>1. CASE n = Len(checkpoints')
      <4>1. icount \in Earliest(base')..icount
        BY <1>0, <1>2
      <4>2. Agree(own, hist'[icount], machine)
        BY <1>3, <4>1
      <4> QED
        BY <2>3, <2>4, <3>1, <4>2 DEF Agree
    <3>2. CASE n # Len(checkpoints')
      <4>1. PICK j \in 0..Len(checkpoints) :
              /\ Final(base, checkpoints, j)
              /\ At(base', checkpoints', n).icount = At(base, checkpoints, j).icount
              /\ Image(base', checkpoints', n) = Image(base, checkpoints, j)
        BY <2>3, <2>6, <3>2
      <4>2. base # None /\ At(base', checkpoints', n).icount < icount
        BY <2>3, <2>6, <3>2
      <4>3. Agree(own, Image(base, checkpoints, j), hist[At(base, checkpoints, j).icount])
        BY <1>1, <4>1, <4>2 DEF ImagesOn
      <4>4. At(base', checkpoints', n).icount \in Earliest(base')..icount
        <5>1. At(base', checkpoints', n) \in Checkpoint
          BY <2>4 DEF At
        <5>2. At(base', checkpoints', n).icount \in Nat
          BY <5>1 DEF Checkpoint
        <5>3. 0 \in 0..Len(checkpoints') /\ 0 <= n
          BY <2>4
        <5>4. At(base', checkpoints', 0).icount <= At(base', checkpoints', n).icount
          BY <2>4, <5>3 DEF Ascending
        <5>5. At(base', checkpoints', 0) = base'
          BY DEF At
        <5> QED
          BY <1>0, <1>4, <4>2, <5>2, <5>4, <5>5
      <4>5. PICK k \in Earliest(base')..icount : k = At(base', checkpoints', n).icount
        BY <4>4
      <4>6. Agree(own, hist'[k], hist[k])
        BY <1>3
      <4> QED
        BY <4>1, <4>3, <4>5, <4>6 DEF Agree
    <3> QED
      BY <3>1, <3>2
  <2>7. ImagesOn(own)'
    BY <2>3, <2>6 DEF ImagesOn
  <2> QED
    BY <1>a, <2>5, <2>7 DEF StoredOn
<1>7. CASE ~(icount >= next)
  <2>1. dirty' = dirty \cup w /\ UNCHANGED <<base, checkpoints, next>>
    BY <1>7 DEF NoteInstruction
  <2>2. base # None /\ base \in Checkpoint /\ checkpoints \in Seq(Checkpoint)
    BY <1>0, <1>4, <2>1 DEF TypeOK
  <2>3. CleanOn(own)'
    <3> SUFFICES ASSUME NEW p \in (own \cap Mapped(machine'.mem)) \ (dirty \cup w)
                 PROVE  Overlay(base.pages, checkpoints, Len(checkpoints))[p] = machine'.mem[p]
      BY <2>1 DEF CleanOn
    <3>1. p \in (own \cap Mapped(machine.mem)) \ dirty /\ machine'.mem[p] = machine.mem[p]
      BY DEF Mapped
    <3> QED
      BY <1>1, <2>2, <3>1 DEF CleanOn
  <2>4. ASSUME NEW n \in 0..Len(checkpoints), Final(base, checkpoints, n)
        PROVE  Agree(own, Image(base, checkpoints, n), hist'[At(base, checkpoints, n).icount])
    <3>1. Agree(own, Image(base, checkpoints, n), hist[At(base, checkpoints, n).icount])
      BY <1>1, <2>2, <2>4 DEF ImagesOn
    <3>2. At(base, checkpoints, n).icount \in Earliest(base')..icount
      <4>1. /\ At(base, checkpoints, n).icount \in Nat /\ base.icount \in Nat
            /\ base.icount <= At(base, checkpoints, n).icount
            /\ At(base, checkpoints, n).icount <= NewestICount
            /\ NewestICount <= icount /\ NewestICount \in Nat
        BY <2>2, CheckpointsWithin
      <4> QED
        BY <1>0, <1>4, <2>1, <4>1
    <3>3. PICK k \in Earliest(base')..icount : k = At(base, checkpoints, n).icount
      BY <3>2
    <3>4. Agree(own, hist'[k], hist[k])
      BY <1>3
    <3> QED
      BY <3>1, <3>3, <3>4 DEF Agree
  <2>5. ImagesOn(own)'
    BY <1>1, <2>1, <2>2, <2>4 DEF ImagesOn
  <2> QED
    BY <1>a, <2>3, <2>5 DEF StoredOn
<1> QED
  BY <1>6, <1>7

\* A run's next instruction is what the program does, and what was edited
\* before it keeps its checkpoint.
LEMMA InstructionChained ==
  ASSUME IndexInv, NowInv, ChainInv, ~replaying, replaying' = FALSE,
         NEW w \in SUBSET Pages, NoteInstruction(w), Remember, machine' \in Machine,
         icount' \in {icount, icount + 1}, icount' = icount => machine' = machine,
         icount' = icount + 1 => machine \notin Faulting /\ machine' = Exec[machine]
  PROVE  ChainInv'
<1>0. TypeOK /\ FreshInv /\ PaceInv /\ icount \in Nat /\ machine \in Machine
  BY DEF IndexInv, TypeOK
<1>2. /\ Earliest(base) \in Nat /\ Earliest(base') \in Nat
      /\ Earliest(base) <= Earliest(base') /\ Earliest(base') <= icount
      /\ base' \in Checkpoint
  BY NoteInstructionEarliest
<1>3. /\ NowInv'
      /\ \A i \in Earliest(base')..icount : hist'[i] = hist[i]
  BY <1>2, RememberKeeps
<1>4. base' # None /\ Earliest(base') = base'.icount /\ base'.icount \in Nat
  BY <1>2, NoneIsNoCheckpoint DEF Earliest, Checkpoint
<1>5. hist[icount] = machine /\ hist'[icount'] = machine'
  BY <1>3 DEF NowInv
<1>6. icount' = icount \/ icount' = icount + 1
  OBVIOUS
<1> SUFFICES ASSUME NEW i \in base'.icount..(icount' - 1)
             PROVE  \/ hist'[i] \notin Faulting /\ hist'[i + 1] = Exec[hist'[i]]
                    \/ \E n \in 1..Len(checkpoints') : checkpoints'[n].icount = i + 1
  BY <1>4 DEF ChainInv, Follows, Reached
<1>7. i \in Nat /\ i <= icount /\ i <= icount' - 1 /\ icount' \in Nat
  <2>1. CASE icount' = icount
    BY <1>0, <1>4, <2>1
  <2>2. CASE icount' = icount + 1
    BY <1>0, <1>4, <2>2
  <2> QED
    BY <1>6, <2>1, <2>2
<1>8. CASE i = icount
  <2>1. icount' = icount + 1
    <3>1. icount \in Nat /\ icount' \in Nat /\ icount <= icount' - 1
      BY <1>0, <1>7, <1>8
    <3>2. ASSUME icount' = icount PROVE FALSE
      BY <3>1, <3>2
    <3> QED
      BY <1>6, <3>2
  <2>2. hist'[icount] = machine
    BY <1>3, <1>4, <1>5, <1>8, <1>7
  <2> QED
    BY <1>5, <1>8, <2>1, <2>2
<1>9. CASE i # icount
  <2>1. /\ i \in Earliest(base')..icount /\ i + 1 \in Earliest(base')..icount
        /\ i \in Earliest(base)..(icount - 1) /\ i + 1 \in Nat /\ base'.icount <= i
    BY <1>0, <1>2, <1>4, <1>7, <1>9
  <2>2. hist'[i] = hist[i] /\ hist'[i + 1] = hist[i + 1]
    BY <1>3, <2>1
  <2>3. base # None
    <3>1. icount # 0
      BY <1>0, <1>7, <1>9
    <3> QED
      BY <1>0, <3>1 DEF FreshInv
  <2>4. Follows(i) \/ \E n \in 1..Len(checkpoints) : checkpoints[n].icount = i + 1
    BY <2>1, <2>3 DEF ChainInv, Reached, Earliest
  <2>5. ASSUME \E n \in 1..Len(checkpoints) : checkpoints[n].icount = i + 1
        PROVE  \E n \in 1..Len(checkpoints') : checkpoints'[n].icount = i + 1
    <3>1. CASE icount >= next
      <4>1. TakeCheckpoint(icount, machine, dirty)
        BY <3>1 DEF NoteInstruction
      <4> QED
        BY <1>0, <1>7, <2>1, <2>3, <2>5, <4>1, TakesMarks
    <3>2. CASE ~(icount >= next)
      BY <2>5, <3>2 DEF NoteInstruction
    <3> QED
      BY <3>1, <3>2
  <2> QED
    BY <2>2, <2>4, <2>5 DEF Follows
<1> QED
  BY <1>8, <1>9

\* An edit, with the checkpoint of the state it made.
LEMMA EditedStored ==
  ASSUME IndexInv, NEW own \in SUBSET Pages, StoredOn(own),
         NEW m \in Machine, NEW d \in SUBSET Pages,
         Edited(m, d), \A p \in (own \cap Mapped(m.mem)) \ d : m.mem[p] = machine.mem[p]
  PROVE  StoredOn(own)'
<1>0. TypeOK /\ FreshInv /\ PaceInv /\ icount \in Nat /\ machine \in Machine
  BY DEF IndexInv, TypeOK
<1>1. CleanOn(own) /\ ImagesOn(own) /\ NowOn(own)
  BY DEF StoredOn
<1>2. /\ ~replaying /\ replaying' = FALSE /\ machine' = m /\ icount' = icount /\ Remember
      /\ icount' \in {icount, icount + 1}
  BY DEF Edited, Idle
<1>3. /\ Earliest(base) \in Nat /\ Earliest(base') \in Nat
      /\ Earliest(base) <= Earliest(base') /\ Earliest(base') <= icount
  BY EditedEarliest
<1>4. NowInv' /\ \A i \in Earliest(base')..(icount - 1) : hist'[i] = hist[i]
  BY <1>2, <1>3, RememberKeeps
<1>5. NowOn(own)'
  BY <1>4 DEF NowInv, NowOn, Agree
<1>6. CASE base = None
  <2>1. base' = None
    BY <1>6 DEF Edited
  <2> QED
    BY <1>5, <2>1 DEF StoredOn, CleanOn, ImagesOn
<1>7. CASE base # None
  <2>1. TakeCheckpoint(icount, m, dirty \cup d) /\ dirty' = {}
    BY <1>7 DEF Edited
  <2>2. /\ base' \in Checkpoint /\ checkpoints' \in Seq(Checkpoint)
        /\ Ascending(base', checkpoints')
        /\ At(base', checkpoints', Len(checkpoints')).icount = icount
    BY <1>0, <1>2, <2>1, TakesCheckpoint
  <2>3. base' # None /\ Earliest(base') = base'.icount /\ base'.icount \in Nat
    BY <1>3, <2>2, NoneIsNoCheckpoint DEF Earliest
  <2>4. hist'[icount] = m
    BY <1>2, <1>4 DEF NowInv
  <2>5. /\ PagesHeld(own, base, checkpoints)
        /\ \A p \in (own \cap Mapped(m.mem)) \ (dirty \cup d) :
             Overlay(base.pages, checkpoints, Len(checkpoints))[p] = m.mem[p]
    <3>1. PagesHeld(own, base, checkpoints)
      BY <1>1, <1>7 DEF ImagesOn
    <3>2. ASSUME NEW p \in (own \cap Mapped(m.mem)) \ (dirty \cup d)
          PROVE  Overlay(base.pages, checkpoints, Len(checkpoints))[p] = m.mem[p]
      <4>1. p \in (own \cap Mapped(machine.mem)) \ dirty /\ m.mem[p] = machine.mem[p]
        BY DEF Mapped
      <4> QED
        BY <1>1, <1>7, <4>1 DEF CleanOn
    <3> QED
      BY <3>1, <3>2
  <2>6. /\ PagesHeld(own, base', checkpoints')
        /\ \A p \in own \cap Mapped(m.mem) :
             Overlay(base'.pages, checkpoints', Len(checkpoints'))[p] = m.mem[p]
        /\ Agree(own, Image(base', checkpoints', Len(checkpoints')), m)
        /\ \A n \in 0..Len(checkpoints') : Final(base', checkpoints', n) =>
             \/ n = Len(checkpoints')
             \/ /\ base # None
                /\ At(base', checkpoints', n).icount < icount
                /\ \E j \in 0..Len(checkpoints) :
                     /\ Final(base, checkpoints, j)
                     /\ At(base', checkpoints', n).icount = At(base, checkpoints, j).icount
                     /\ Image(base', checkpoints', n) = Image(base, checkpoints, j)
    BY <1>0, <1>2, <1>7, <2>1, <2>5, TakesImages
  <2>7. CleanOn(own)'
    BY <1>2, <2>6 DEF CleanOn
  <2>8. ASSUME NEW n \in 0..Len(checkpoints'), Final(base', checkpoints', n)
        PROVE  Agree(own, Image(base', checkpoints', n),
                     hist'[At(base', checkpoints', n).icount])
    <3>1. CASE n = Len(checkpoints')
      BY <2>2, <2>4, <2>6, <3>1
    <3>2. CASE n # Len(checkpoints')
      <4>1. PICK j \in 0..Len(checkpoints) :
              /\ Final(base, checkpoints, j)
              /\ At(base', checkpoints', n).icount = At(base, checkpoints, j).icount
              /\ Image(base', checkpoints', n) = Image(base, checkpoints, j)
        BY <2>6, <2>8, <3>2
      <4>2. At(base', checkpoints', n).icount < icount
        BY <2>6, <2>8, <3>2
      <4>3. Agree(own, Image(base, checkpoints, j), hist[At(base, checkpoints, j).icount])
        BY <1>1, <1>7, <4>1 DEF ImagesOn
      <4>4. At(base', checkpoints', n).icount \in Earliest(base')..(icount - 1)
        <5>1. At(base', checkpoints', n) \in Checkpoint
          BY <2>2 DEF At
        <5>2. At(base', checkpoints', n).icount \in Nat
          BY <5>1 DEF Checkpoint
        <5>3. 0 \in 0..Len(checkpoints') /\ 0 <= n
          BY <2>2
        <5>4. At(base', checkpoints', 0).icount <= At(base', checkpoints', n).icount
          BY <2>2, <5>3 DEF Ascending
        <5>5. At(base', checkpoints', 0) = base'
          BY DEF At
        <5> QED
          BY <1>0, <2>3, <4>2, <5>2, <5>4, <5>5
      <4> QED
        BY <1>4, <4>1, <4>3, <4>4
    <3> QED
      BY <3>1, <3>2
  <2>9. ImagesOn(own)'
    BY <2>6, <2>8 DEF ImagesOn
  <2> QED
    BY <1>5, <2>7, <2>9 DEF StoredOn
<1> QED
  BY <1>6, <1>7

\* Where the history was what the program does it still is, but for the edit,
\* which has its checkpoint.
LEMMA EditedChained ==
  ASSUME IndexInv, ChainInv, NEW m \in Machine, NEW d \in SUBSET Pages, Edited(m, d)
  PROVE  ChainInv'
<1>0. TypeOK /\ FreshInv /\ PaceInv /\ icount \in Nat
  BY DEF IndexInv, TypeOK
<1>1. /\ ~replaying /\ replaying' = FALSE /\ machine' = m /\ icount' = icount /\ Remember
      /\ icount' \in {icount, icount + 1}
  BY DEF Edited, Idle
<1>2. /\ Earliest(base) \in Nat /\ Earliest(base') \in Nat
      /\ Earliest(base) <= Earliest(base') /\ Earliest(base') <= icount
  BY EditedEarliest
<1>3. \A i \in Earliest(base')..(icount - 1) : hist'[i] = hist[i]
  BY <1>1, <1>2, RememberKeeps
<1> SUFFICES ASSUME base' # None, NEW i \in base'.icount..(icount - 1)
             PROVE  \/ hist'[i] \notin Faulting /\ hist'[i + 1] = Exec[hist'[i]]
                    \/ \E n \in 1..Len(checkpoints') : checkpoints'[n].icount = i + 1
  BY <1>1 DEF ChainInv, Follows, Reached
<1>4. base # None
  BY <1>0, <1>2 DEF Edited
<1>5. TakeCheckpoint(icount, m, dirty \cup d)
  BY <1>4 DEF Edited
<1>6. Earliest(base') = base'.icount /\ i \in Nat /\ base'.icount <= i /\ i <= icount - 1
  BY <1>0, <1>2 DEF Earliest
<1>7. CASE i + 1 = icount
  BY <1>0, <1>1, <1>4, <1>5, <1>6, <1>7, TakesMarks
<1>8. CASE i + 1 # icount
  <2>1. /\ i \in Earliest(base')..(icount - 1) /\ i + 1 \in Earliest(base')..(icount - 1)
        /\ i \in Earliest(base)..(icount - 1)
    BY <1>0, <1>2, <1>6, <1>8
  <2>2. hist'[i] = hist[i] /\ hist'[i + 1] = hist[i + 1]
    BY <1>3, <2>1
  <2>3. Follows(i) \/ \E n \in 1..Len(checkpoints) : checkpoints[n].icount = i + 1
    BY <1>1, <1>4, <2>1 DEF ChainInv, Reached, Earliest
  <2>4. CASE Follows(i)
    BY <2>2, <2>4 DEF Follows
  <2>5. CASE \E n \in 1..Len(checkpoints) : checkpoints[n].icount = i + 1
    BY <1>0, <1>1, <1>4, <1>5, <1>6, <2>5, TakesMarks
  <2> QED
    BY <2>3, <2>4, <2>5
<1> QED
  BY <1>7, <1>8

----------------------------------------------------------------------------
(* Going back. *)

\* Dropping the newest checkpoints changes no image of those kept.
LEMMA PrefixImages ==
  ASSUME NEW b \in Checkpoint, NEW cs \in Seq(Checkpoint), NEW n \in 0..Len(cs),
         NEW i \in 0..n
  PROVE  /\ Overlay(b.pages, SubSeq(cs, 1, n), i) = Overlay(b.pages, cs, i)
         /\ At(b, SubSeq(cs, 1, n), i) = At(b, cs, i)
         /\ Image(b, SubSeq(cs, 1, n), i) = Image(b, cs, i)
<1> DEFINE ds == SubSeq(cs, 1, n)
<1>1. ds \in Seq(Checkpoint) /\ Len(ds) = n /\ At(b, ds, i) = At(b, cs, i)
      /\ \A j \in 1..i : ds[j] = cs[j]
  BY DEF At
<1>2. i \in Nat /\ i <= Len(cs) /\ i <= Len(ds) /\ b.pages \in PageMap
  BY <1>1 DEF Checkpoint, PageMap
<1> HIDE DEF ds
<1>3. Overlay(b.pages, ds, i) = Overlay(b.pages, cs, i)
  BY <1>1, <1>2, OverlaySame
<1> QED
  BY <1>1, <1>3 DEF Image, ds

\* The checkpoint a goto starts from is the last one of its instruction, so
\* restoring it puts back the state recorded there.
LEMMA RestoresRecorded ==
  ASSUME IndexInv, NEW own \in SUBSET Pages, ImagesOn(own), base # None,
         NEW k \in Nat, base.icount <= k, k <= icount,
         NEW n \in 0..Len(checkpoints), Reaches(n, k)
  PROVE  /\ Final(base, checkpoints, n)
         /\ Agree(own, Restored(n), Image(base, checkpoints, n))
         /\ Agree(own, Restored(n), hist[Latest(n).icount])
<1>1. /\ Latest(n) = At(base, checkpoints, n)
      /\ Latest(n).icount \in Nat /\ Latest(n).icount <= k
  BY ReachedClose
<1>2. TypeOK /\ checkpoints \in Seq(Checkpoint)
  BY DEF IndexInv, TypeOK
<1>3. Final(base, checkpoints, n)
  <2> SUFFICES ASSUME NEW i \in (n + 1)..Len(checkpoints)
               PROVE  checkpoints[i].icount > At(base, checkpoints, n).icount
    BY DEF Final
  <2>1. checkpoints[i].icount > k
    BY DEF Reaches
  <2>2. checkpoints[i].icount \in Nat
    <3>1. checkpoints[i] \in Checkpoint
      BY <1>2
    <3> QED
      BY <3>1 DEF Checkpoint
  <2> QED
    BY <1>1, <2>1, <2>2
<1>4. Agree(own, Restored(n), Image(base, checkpoints, n))
  BY <1>2, RestoredIsImage DEF ImagesOn
<1>5. Agree(own, Image(base, checkpoints, n), hist[Latest(n).icount])
  BY <1>1, <1>3 DEF ImagesOn
<1> QED
  BY <1>3, <1>4, <1>5, AgreeOn

\* A goto forgets nothing before it has arrived.
LEMMA BeginGotoSpan ==
  ASSUME IndexInv, SpanInv, NEW k \in Nat, BeginGoto(k)
  PROVE  SpanInv'
<1>1. /\ ~replaying /\ base # None /\ base.icount <= k /\ k <= icount
      /\ replaying' = TRUE /\ base' = base /\ hist' = hist
  BY DEF BeginGoto
<1>2. PICK n \in 0..Len(checkpoints) :
        Reaches(n, k) /\ ricount' = Latest(n).icount /\ left' = k - Latest(n).icount
  BY DEF BeginGoto
<1>3. Latest(n).icount \in Nat
  BY <1>1, <1>2, ReachedClose
<1>4. Reached' = k
  BY <1>1, <1>2, <1>3 DEF Reached
<1>5. Max(DOMAIN hist) = icount /\ Earliest(base') = Earliest(base)
  BY <1>1 DEF SpanInv
<1> QED
  BY <1>1, <1>4, <1>5 DEF SpanInv

\* A replay is on its way to something in the history.
LEMMA ReplayedWithin ==
  ASSUME IndexInv, SpanInv, replaying
  PROVE  /\ ricount \in Earliest(base)..Max(DOMAIN hist)
         /\ base # None /\ base.icount \in Nat /\ Earliest(base) = base.icount
         /\ icount = NewestICount /\ icount <= ricount
<1>1. /\ base # None /\ base \in Checkpoint /\ base.icount \in Nat
      /\ ricount \in Nat /\ icount \in Nat /\ left \in Nat
  BY DEF IndexInv, TypeOK, FreshInv, Checkpoint
<1>2. icount = NewestICount /\ icount <= ricount /\ Earliest(base) = base.icount
  BY <1>1 DEF IndexInv, ReplayInv, Earliest
<1>3. base.icount <= icount
  BY <1>1, <1>2, EarliestBehind
<1>4. Reached = ricount + left /\ Reached <= Max(DOMAIN hist) /\ Max(DOMAIN hist) \in Nat
  BY DEF Reached, SpanInv
<1> QED
  BY <1>1, <1>2, <1>3, <1>4

\* The end of a goto forgets what comes after the instruction reached.
LEMMA EndGotoSpan ==
  ASSUME IndexInv, SpanInv, EndGoto
  PROVE  SpanInv'
<1>1. /\ replaying /\ left = 0 /\ replaying' = FALSE /\ icount' = ricount
      /\ hist' = [i \in base.icount..ricount |-> hist[i]]
      /\ UNCHANGED <<base, left, ricount>>
  BY DEF EndGoto
<1>2. /\ ricount \in base.icount..Max(DOMAIN hist) /\ base.icount \in Nat /\ base # None
      /\ Earliest(base) = base.icount /\ Earliest(base') = base.icount
  BY <1>1, ReplayedWithin DEF Earliest
<1>3. hist \in [base.icount..Max(DOMAIN hist) -> Machine] /\ Max(DOMAIN hist) \in Nat
  BY <1>2 DEF SpanInv
<1>4. hist' \in [base.icount..ricount -> Machine]
  BY <1>1, <1>2, <1>3
<1>5. Max(DOMAIN hist') = ricount
  BY <1>1, <1>2, SpanMax
<1>6. Reached' = ricount
  BY <1>1 DEF Reached
<1> QED
  BY <1>1, <1>2, <1>4, <1>5, <1>6 DEF SpanInv

\* Restoring the checkpoint before k, and dropping those after it.
LEMMA BeginGotoStored ==
  ASSUME IndexInv, NEW own \in SUBSET Pages, StoredOn(own), NEW k \in Nat, BeginGoto(k)
  PROVE  StoredOn(own)'
<1>0. TypeOK /\ PaceInv /\ CleanOn(own) /\ ImagesOn(own) /\ NowOn(own)
  BY DEF IndexInv, StoredOn
<1>1. /\ ~replaying /\ base # None /\ base.icount <= k /\ k <= icount
      /\ dirty' = {} /\ replaying' = TRUE /\ base' = base /\ hist' = hist
  BY DEF BeginGoto
<1>2. PICK n \in 0..Len(checkpoints) :
        /\ Reaches(n, k)
        /\ machine' = Restored(n)
        /\ checkpoints' = SubSeq(checkpoints, 1, n)
        /\ ricount' = Latest(n).icount
  BY DEF BeginGoto
<1>3. /\ Latest(n) = At(base, checkpoints, n) /\ Latest(n).icount \in Nat
      /\ Latest(n).icount <= k
  BY <1>1, <1>2, ReachedClose
<1>4. /\ base \in Checkpoint /\ checkpoints \in Seq(Checkpoint) /\ icount \in Nat
      /\ Ascending(base, checkpoints) /\ n \in Nat
  BY <1>0, <1>1 DEF TypeOK, PaceInv
<1>5. /\ Final(base, checkpoints, n)
      /\ Agree(own, machine', Image(base, checkpoints, n))
      /\ Agree(own, machine', hist[Latest(n).icount])
  BY <1>0, <1>1, <1>2, RestoresRecorded
<1>6. checkpoints' \in Seq(Checkpoint) /\ Len(checkpoints') = n
      /\ \A i \in 1..n : checkpoints'[i] = checkpoints[i]
  BY <1>2, <1>4
<1>7. \A i \in 0..n :
        /\ Overlay(base.pages, checkpoints', i) = Overlay(base.pages, checkpoints, i)
        /\ At(base, checkpoints', i) = At(base, checkpoints, i)
        /\ Image(base, checkpoints', i) = Image(base, checkpoints, i)
  BY <1>2, <1>4, PrefixImages
<1>8. NowOn(own)'
  BY <1>1, <1>2, <1>5 DEF NowOn
<1>9. CleanOn(own)'
  <2> SUFFICES ASSUME NEW p \in own \cap Mapped(machine'.mem)
               PROVE  Overlay(base.pages, checkpoints', n)[p] = machine'.mem[p]
    BY <1>1, <1>6 DEF CleanOn
  <2>1. p \in Pages /\ p \in own /\ machine'.mem[p] # Absent
    BY DEF Mapped
  <2>2. machine'.mem[p] = IF p \in At(base, checkpoints, n).regions
                          THEN Overlay(base.pages, checkpoints, n)[p] ELSE Absent
    BY <1>5, <2>1 DEF Image, Agree
  <2>3. n \in 0..n
    BY <1>4
  <2> QED
    BY <1>7, <2>1, <2>2, <2>3
<1>10. ImagesOn(own)'
  <2>1. PagesHeld(own, base, checkpoints')
    <3> SUFFICES ASSUME NEW i \in 0..n, NEW p \in own, p \in At(base, checkpoints', i).regions
                 PROVE  Overlay(base.pages, checkpoints', i)[p] # Absent
      BY <1>6 DEF PagesHeld
    <3>1. i \in 0..Len(checkpoints)
      BY <1>4
    <3> QED
      BY <1>0, <1>1, <1>7, <3>1 DEF ImagesOn, PagesHeld
  <2>2. ASSUME NEW i \in 0..n, Final(base, checkpoints', i)
        PROVE  Agree(own, Image(base, checkpoints', i), hist[At(base, checkpoints', i).icount])
    <3>1. i \in 0..Len(checkpoints) /\ n \in 0..Len(checkpoints) /\ i <= n
      BY <1>4
    <3>2. /\ At(base, checkpoints, i).icount \in Nat
          /\ At(base, checkpoints, i).icount <= At(base, checkpoints, n).icount
      BY <1>1, <1>4, <3>1, CheckpointsWithin DEF Ascending
    <3>3. Final(base, checkpoints, i)
      <4> SUFFICES ASSUME NEW j \in (i + 1)..Len(checkpoints)
                   PROVE  checkpoints[j].icount > At(base, checkpoints, i).icount
        BY DEF Final
      <4>1. CASE j \in (i + 1)..n
        <5>1. j \in 1..n
          BY <3>1, <4>1
        <5> QED
          BY <1>6, <1>7, <2>2, <4>1, <5>1 DEF Final
      <4>2. CASE j \notin (i + 1)..n
        <5>1. j \in (n + 1)..Len(checkpoints)
          BY <1>4, <3>1, <4>2
        <5>2. checkpoints[j].icount > At(base, checkpoints, n).icount
          BY <1>5, <5>1 DEF Final
        <5>3. checkpoints[j].icount \in Nat
          <6>1. checkpoints[j] \in Checkpoint
            BY <1>4, <5>1
          <6> QED
            BY <6>1 DEF Checkpoint
        <5> QED
          BY <1>3, <3>2, <5>2, <5>3
      <4> QED
        BY <4>1, <4>2
    <3> QED
      BY <1>0, <1>1, <1>7, <3>1, <3>3 DEF ImagesOn
  <2> QED
    BY <1>1, <1>6, <2>1, <2>2 DEF ImagesOn
<1> QED
  BY <1>8, <1>9, <1>10 DEF StoredOn

\* What a goto drops is after the instruction wanted.
LEMMA MarksBefore ==
  ASSUME IndexInv, base # None, NEW k \in Nat, NEW n \in 0..Len(checkpoints), Reaches(n, k),
         NEW i \in Nat, i + 1 <= k, \E m \in 1..Len(checkpoints) : checkpoints[m].icount = i + 1
  PROVE  LET kept == SubSeq(checkpoints, 1, n)
         IN  \E m \in 1..Len(kept) : kept[m].icount = i + 1
<1>1. checkpoints \in Seq(Checkpoint) /\ n \in Nat
  BY DEF IndexInv, TypeOK
<1>2. PICK m \in 1..Len(checkpoints) : checkpoints[m].icount = i + 1
  OBVIOUS
<1>3. m \notin (n + 1)..Len(checkpoints)
  <2> SUFFICES ASSUME m \in (n + 1)..Len(checkpoints) PROVE FALSE
    OBVIOUS
  <2>1. checkpoints[m].icount > k
    BY DEF Reaches
  <2> QED
    BY <1>2, <2>1
<1>4. m \in 1..n
  BY <1>1, <1>3
<1>5. /\ Len(SubSeq(checkpoints, 1, n)) = n
      /\ SubSeq(checkpoints, 1, n)[m] = checkpoints[m]
  BY <1>1, <1>4
<1> QED
  BY <1>2, <1>4, <1>5

LEMMA BeginGotoChained ==
  ASSUME IndexInv, ChainInv, NEW k \in Nat, BeginGoto(k)
  PROVE  ChainInv'
<1>1. /\ ~replaying /\ base # None /\ base.icount <= k /\ k <= icount /\ replaying' = TRUE
      /\ base' = base /\ hist' = hist
  BY DEF BeginGoto
<1>2. PICK n \in 0..Len(checkpoints) :
        /\ Reaches(n, k)
        /\ checkpoints' = SubSeq(checkpoints, 1, n)
        /\ ricount' = Latest(n).icount
        /\ left' = k - Latest(n).icount
  BY DEF BeginGoto
<1>3. Latest(n).icount \in Nat
  BY <1>1, <1>2, ReachedClose
<1>4. Reached = icount /\ Reached' = k /\ icount \in Nat
  BY <1>1, <1>2, <1>3 DEF Reached, IndexInv, TypeOK
<1> SUFFICES ASSUME NEW i \in base.icount..(k - 1)
             PROVE  Follows(i) \/ \E m \in 1..Len(checkpoints') : checkpoints'[m].icount = i + 1
  BY <1>1, <1>4 DEF ChainInv, Follows
<1>5. base.icount \in Nat
  BY <1>1 DEF IndexInv, TypeOK, Checkpoint
<1>6. i \in base.icount..(icount - 1) /\ i + 1 <= k /\ i \in Nat
  BY <1>1, <1>4, <1>5
<1>7. CASE \E m \in 1..Len(checkpoints) : checkpoints[m].icount = i + 1
  BY <1>1, <1>2, <1>6, <1>7, MarksBefore
<1>8. CASE Follows(i)
  BY <1>8
<1> QED
  BY <1>1, <1>4, <1>6, <1>7, <1>8 DEF ChainInv

\* What the program has mapped it has written, or had before.
LEMMA WritesCover ==
  ASSUME MapsWritten, NEW m \in Machine, NEW p \in Mapped(Exec[m].mem) \ Writes[m]
  PROVE  Exec[m].mem[p] = m.mem[p]
<1>1. p \in Pages \ Writes[m] /\ Exec[m].mem[p] # Absent
  BY DEF Mapped
<1>2. m.mem[p] # Absent
  BY <1>1 DEF MapsWritten
<1> QED
  BY <1>1, <1>2, ProgramAssumption

\* A replay is past every checkpoint that is left.
LEMMA NoMarkAhead ==
  ASSUME IndexInv, replaying, left > 0
  PROVE  /\ ricount \in base.icount..(Reached - 1) /\ ricount \in Nat /\ base # None
         /\ \A n \in 1..Len(checkpoints) : checkpoints[n].icount # ricount + 1
<1>0. TypeOK /\ FreshInv /\ ReplayInv
  BY DEF IndexInv
<1>1. left \in Nat /\ ricount \in Nat /\ icount \in Nat /\ base # None
      /\ Reached = ricount + left
  BY <1>0 DEF TypeOK, FreshInv, Reached
<1>2. checkpoints \in Seq(Checkpoint)
  BY <1>0 DEF TypeOK
<1>3. 0 \in 0..Len(checkpoints)
  BY <1>2
<1>4. /\ base.icount \in Nat /\ NewestICount \in Nat
      /\ base.icount <= At(base, checkpoints, 0).icount
      /\ At(base, checkpoints, 0).icount <= NewestICount
      /\ At(base, checkpoints, 0).icount \in Nat
  BY <1>1, <1>3, CheckpointsWithin
<1>5. icount = NewestICount /\ icount <= ricount
  BY <1>0 DEF ReplayInv
<1>6. ASSUME NEW n \in 1..Len(checkpoints)
      PROVE  checkpoints[n].icount # ricount + 1
  <2>1. n \in 0..Len(checkpoints) /\ At(base, checkpoints, n) = checkpoints[n]
    BY <1>2 DEF At
  <2>2. checkpoints[n].icount <= NewestICount
    BY <1>1, <2>1, CheckpointsWithin
  <2> QED
    BY <1>1, <1>4, <1>5, <2>2
<1> QED
  BY <1>1, <1>4, <1>5, <1>6

\* A replayed instruction that does what is recorded, and marks what it writes.
LEMMA ReplayedStored ==
  ASSUME IndexInv, NEW own \in SUBSET Pages, StoredOn(own), replaying, left > 0,
         NEW w, dirty' = dirty \cup w, ricount' = ricount + 1,
         UNCHANGED <<base, checkpoints, replaying, hist>>,
         \A p \in (own \cap Mapped(machine'.mem)) \ w : machine'.mem[p] = machine.mem[p],
         Agree(own, machine', hist[ricount + 1])
  PROVE  StoredOn(own)'
<1>0. base # None /\ CleanOn(own) /\ ImagesOn(own)
  BY NoMarkAhead DEF StoredOn
<1>1. CleanOn(own)'
  <2> SUFFICES ASSUME NEW p \in (own \cap Mapped(machine'.mem)) \ (dirty \cup w)
               PROVE  Overlay(base.pages, checkpoints, Len(checkpoints))[p] = machine'.mem[p]
    BY DEF CleanOn
  <2>1. machine'.mem[p] = machine.mem[p]
    OBVIOUS
  <2>2. p \in (own \cap Mapped(machine.mem)) \ dirty
    BY <2>1 DEF Mapped
  <2> QED
    BY <1>0, <2>1, <2>2 DEF CleanOn
<1>2. ImagesOn(own)'
  BY <1>0 DEF ImagesOn
<1>3. NowOn(own)'
  BY DEF NowOn
<1> QED
  BY <1>1, <1>2, <1>3 DEF StoredOn

\* A replayed instruction is the one that was run: nobody edited anything
\* between the checkpoint and the instruction wanted.
LEMMA ReplayStepStored ==
  ASSUME MapsWritten, IndexInv, StoredOn(Pages), NowInv, ChainInv, SpanInv, ReplayStep
  PROVE  StoredOn(Pages)' /\ ChainInv' /\ SpanInv'
<1>1. /\ replaying /\ left > 0 /\ machine' = Exec[machine]
      /\ dirty' = dirty \cup Writes[machine]
      /\ ricount' = ricount + 1 /\ left' = left - 1
      /\ UNCHANGED <<base, checkpoints, icount, next, replaying, hist>>
  BY DEF ReplayStep
<1>2. left \in Nat /\ ricount \in Nat /\ machine \in Machine /\ base # None
  BY <1>1, NoMarkAhead DEF IndexInv, TypeOK
<1>3. Reached = ricount + left /\ Reached' = Reached
  BY <1>1, <1>2 DEF Reached
<1>4. ChainInv' /\ SpanInv'
  BY <1>1, <1>3 DEF ChainInv, SpanInv, Follows
<1>5. Follows(ricount)
  BY <1>1, NoMarkAhead DEF ChainInv
<1>6. Agree(Pages, machine', hist[ricount + 1])
  BY <1>1, <1>5 DEF NowInv, Follows, Agree
<1>7. \A p \in (Pages \cap Mapped(machine'.mem)) \ Writes[machine] : machine'.mem[p] = machine.mem[p]
  BY <1>1, <1>2, WritesCover
<1> QED
  BY <1>1, <1>4, <1>6, <1>7, ReplayedStored

\* The end of a replay forgets what comes after the instruction reached.
LEMMA EndGotoStored ==
  ASSUME IndexInv, SpanInv, NEW own \in SUBSET Pages, StoredOn(own), EndGoto
  PROVE  StoredOn(own)'
<1>0. CleanOn(own) /\ ImagesOn(own) /\ NowOn(own)
  BY DEF StoredOn
<1>1. /\ replaying /\ left = 0 /\ replaying' = FALSE /\ icount' = ricount
      /\ hist' = [i \in base.icount..ricount |-> hist[i]]
      /\ UNCHANGED <<machine, base, checkpoints, dirty, left, ricount>>
  BY DEF EndGoto
<1>2. /\ base # None /\ base.icount \in Nat /\ ricount \in Nat /\ icount \in Nat
      /\ icount = NewestICount /\ icount <= ricount /\ base.icount <= ricount
  <2>1. ricount \in Nat /\ icount \in Nat
    BY DEF IndexInv, TypeOK
  <2>2. /\ base # None /\ base.icount \in Nat /\ Earliest(base) = base.icount
        /\ ricount \in Earliest(base)..Max(DOMAIN hist) /\ icount = NewestICount /\ icount <= ricount
    BY <1>1, ReplayedWithin
  <2> QED
    BY <2>1, <2>2
<1>3. \A i \in base.icount..ricount : hist'[i] = hist[i]
  BY <1>1
<1>4. CleanOn(own)'
  BY <1>0, <1>1 DEF CleanOn
<1>5. NowOn(own)'
  BY <1>0, <1>1, <1>2, <1>3 DEF NowOn
<1>6. ImagesOn(own)'
  <2> SUFFICES ASSUME NEW n \in 0..Len(checkpoints), Final(base, checkpoints, n)
               PROVE  Agree(own, Image(base, checkpoints, n),
                            hist'[At(base, checkpoints, n).icount])
    BY <1>0, <1>1 DEF ImagesOn
  <2>1. At(base, checkpoints, n).icount \in base.icount..ricount
    <3>1. /\ At(base, checkpoints, n).icount \in Nat /\ base.icount \in Nat
          /\ base.icount <= At(base, checkpoints, n).icount
          /\ At(base, checkpoints, n).icount <= NewestICount
      BY <1>2, CheckpointsWithin
    <3> QED
      BY <1>2, <3>1
  <2>2. Agree(own, Image(base, checkpoints, n), hist[At(base, checkpoints, n).icount])
    BY <1>0, <1>2 DEF ImagesOn
  <2> QED
    BY <1>3, <2>1, <2>2
<1> QED
  BY <1>4, <1>5, <1>6 DEF StoredOn

LEMMA EndGotoChained ==
  ASSUME IndexInv, SpanInv, ChainInv, EndGoto
  PROVE  ChainInv'
<1>1. /\ replaying /\ left = 0 /\ replaying' = FALSE /\ icount' = ricount
      /\ hist' = [i \in base.icount..ricount |-> hist[i]]
      /\ UNCHANGED <<machine, base, checkpoints, dirty, left, ricount>>
  BY DEF EndGoto
<1>2. base # None /\ base.icount \in Nat /\ ricount \in Nat
  BY <1>1, ReplayedWithin DEF IndexInv, TypeOK
<1>3. Reached = ricount /\ Reached' = ricount
  BY <1>1, <1>2 DEF Reached
<1> SUFFICES ASSUME NEW i \in base.icount..(ricount - 1)
             PROVE  \/ hist'[i] \notin Faulting /\ hist'[i + 1] = Exec[hist'[i]]
                    \/ \E n \in 1..Len(checkpoints) : checkpoints[n].icount = i + 1
  BY <1>1, <1>3 DEF ChainInv, Follows
<1>4. i \in base.icount..ricount /\ i + 1 \in base.icount..ricount
  BY <1>2
<1>5. Follows(i) \/ \E n \in 1..Len(checkpoints) : checkpoints[n].icount = i + 1
  BY <1>2, <1>3 DEF ChainInv
<1>6. hist'[i] = hist[i] /\ hist'[i + 1] = hist[i + 1]
  BY <1>1, <1>4
<1> QED
  BY <1>5, <1>6 DEF Follows

----------------------------------------------------------------------------
(* What always holds. *)

\* There is nothing to restore at first.
LEMMA InitRestore == Init => RestoreInv
<1> SUFFICES ASSUME Init PROVE RestoreInv
  OBVIOUS
<1>1. DOMAIN hist = 0..0 /\ hist[0] = machine /\ machine \in Machine
  BY DEF Init
<1>2. base = None /\ icount = 0 /\ ~replaying /\ Earliest(base) = 0
  BY DEF Init, Earliest
<1>3. Max(DOMAIN hist) = 0
  <2>1. Max(0..0) = 0
    <3>1. 0 \in Nat /\ 0 <= 0
      OBVIOUS
    <3> QED
      BY <3>1, SpanMax
  <2> QED
    BY <1>1, <2>1
<1>4. hist \in [0..0 -> Machine]
  BY <1>1 DEF Init
<1>5. SpanInv
  BY <1>2, <1>3, <1>4 DEF SpanInv, Reached
<1>6. IndexInv
  BY InitIndex
<1> QED
  BY <1>1, <1>2, <1>5, <1>6 DEF RestoreInv, StoredOn, CleanOn, ImagesOn, NowOn, Agree, ChainInv

\* On every page, the machine is what the history says.
LEMMA NowIs == RestoreInv => NowInv
<1> SUFFICES ASSUME RestoreInv PROVE NowInv
  OBVIOUS
<1>0. IndexInv /\ SpanInv /\ NowOn(Pages) /\ machine \in Machine /\ icount \in Nat
  BY DEF RestoreInv, StoredOn, IndexInv, TypeOK
<1>1. hist \in [Earliest(base)..Max(DOMAIN hist) -> Machine]
  BY <1>0 DEF SpanInv
<1>2. CASE replaying
  <2>1. hist[ricount] \in Machine
    BY <1>0, <1>1, <1>2, ReplayedWithin
  <2> QED
    BY <1>0, <1>2, <2>1, AgreeEverywhere DEF NowOn, NowInv
<1>3. CASE ~replaying
  <2>1. Earliest(base) <= icount /\ Earliest(base) \in Nat
    <3>1. CASE base = None
      BY <1>0, <3>1 DEF Earliest
    <3>2. CASE base # None
      BY <1>0, <3>2, EarliestBehind, EarliestType DEF IndexInv
    <3> QED
      BY <3>1, <3>2
  <2>2. Max(DOMAIN hist) = icount
    BY <1>0, <1>3 DEF SpanInv
  <2>3. hist[icount] \in Machine
    BY <1>0, <1>1, <2>1, <2>2
  <2> QED
    BY <1>0, <1>3, <2>3, AgreeEverywhere DEF NowOn, NowInv
<1> QED
  BY <1>2, <1>3

\* The inductive step: every action keeps what the checkpoints say true.
LEMMA NextRestore ==
  ASSUME MapsWritten, RestoreInv, [Next]_vars
  PROVE  RestoreInv'
<1>0. IndexInv /\ StoredOn(Pages) /\ ChainInv /\ SpanInv /\ NowInv /\ Pages \in SUBSET Pages
  BY NowIs DEF RestoreInv
<1>1. IndexInv'
  BY <1>0, NextIndex
<1>2. machine \in Machine /\ icount \in Nat
  BY <1>0 DEF IndexInv, TypeOK
<1>3. CASE Execute
  <2>1. /\ machine \notin Faulting /\ machine' = Exec[machine]
        /\ Writes[machine] \in SUBSET Pages /\ machine' \in Machine
    BY <1>2, <1>3, ProgramAssumption DEF Execute
  <2>2. /\ ~replaying /\ replaying' = FALSE
        /\ icount' \in {icount, icount + 1} /\ icount' # icount
        /\ NoteInstruction(Writes[machine]) /\ Remember
    BY <1>2, <1>3 DEF Execute, Idle
  <2>3. \A p \in (Pages \cap Mapped(machine'.mem)) \ Writes[machine] :
          machine'.mem[p] = machine.mem[p]
    BY <1>2, <2>1, WritesCover
  <2>4. StoredOn(Pages)' /\ SpanInv'
    BY <1>0, <2>1, <2>2, <2>3, InstructionStored, InstructionSpan
  <2>5. ChainInv'
    BY <1>0, <2>1, <2>2, InstructionChained
  <2> QED
    BY <1>1, <2>4, <2>5 DEF RestoreInv
<1>4. CASE Fault
  <2>1. /\ ~replaying /\ replaying' = FALSE /\ machine' = machine /\ icount' = icount
        /\ icount' \in {icount, icount + 1} /\ machine' \in Machine
        /\ NoteInstruction({}) /\ {} \in SUBSET Pages /\ Remember
    BY <1>2, <1>4 DEF Fault, Idle
  <2>2. \A p \in (Pages \cap Mapped(machine'.mem)) \ {} : machine'.mem[p] = machine.mem[p]
    BY <2>1
  <2>3. StoredOn(Pages)' /\ SpanInv'
    BY <1>0, <2>1, <2>2, InstructionStored, InstructionSpan
  <2>4. icount' # icount + 1
    BY <1>2, <2>1
  <2>5. ChainInv'
    BY <1>0, <2>1, <2>4, InstructionChained
  <2> QED
    BY <1>1, <2>3, <2>5 DEF RestoreInv
<1>5. CASE \E p \in Pages, v \in Vals : EditMemory(p, v)
  <2>1. PICK p \in Pages, v \in Vals : EditMemory(p, v)
    BY <1>5
  <2> DEFINE m == [machine EXCEPT !.mem[p] = v]
  <2>2. m \in Machine /\ Edited(m, {p}) /\ {p} \in SUBSET Pages
    BY <1>2, <2>1 DEF EditMemory, Machine
  <2>3. \A a \in (Pages \cap Mapped(m.mem)) \ {p} : m.mem[a] = machine.mem[a]
    BY <1>2 DEF Machine, Mapped
  <2> HIDE DEF m
  <2> QED
    BY <1>0, <1>1, <2>2, <2>3, EditedStored, EditedChained, EditedSpan DEF RestoreInv
<1>6. CASE \E c \in Ctxs : EditRegister(c)
  <2>1. PICK c \in Ctxs : EditRegister(c)
    BY <1>6
  <2> DEFINE m == [machine EXCEPT !.ctx = c]
  <2>2. m \in Machine /\ Edited(m, {}) /\ {} \in SUBSET Pages
    BY <1>2, <2>1 DEF EditRegister, Machine
  <2>3. \A a \in (Pages \cap Mapped(m.mem)) \ {} : m.mem[a] = machine.mem[a]
    BY <1>2 DEF Machine
  <2> HIDE DEF m
  <2> QED
    BY <1>0, <1>1, <2>2, <2>3, EditedStored, EditedChained, EditedSpan DEF RestoreInv
<1>7. CASE \E k \in 0..MaxICount : BeginGoto(k)
  <2>1. PICK k \in Nat : BeginGoto(k)
    BY <1>7, BoundsAssumption
  <2> QED
    BY <1>0, <1>1, <2>1, BeginGotoStored, BeginGotoChained, BeginGotoSpan DEF RestoreInv
<1>8. CASE ReplayStep
  BY <1>0, <1>1, <1>8, ReplayStepStored DEF RestoreInv
<1>9. CASE EndGoto
  BY <1>0, <1>1, <1>9, EndGotoStored, EndGotoChained, EndGotoSpan DEF RestoreInv
<1>10. CASE UNCHANGED vars
  <2>1. /\ machine' = machine /\ base' = base /\ checkpoints' = checkpoints /\ dirty' = dirty
        /\ icount' = icount /\ replaying' = replaying /\ left' = left /\ ricount' = ricount
        /\ hist' = hist
    BY <1>10 DEF vars, stored
  <2>2. Reached' = Reached
    BY <2>1 DEF Reached
  <2>3. StoredOn(Pages)'
    BY <1>0, <2>1 DEF StoredOn, CleanOn, ImagesOn, NowOn
  <2>4. ChainInv' /\ SpanInv'
    BY <1>0, <2>1, <2>2 DEF ChainInv, SpanInv, Follows
  <2> QED
    BY <1>1, <2>3, <2>4 DEF RestoreInv
<1> QED
  BY <1>3, <1>4, <1>5, <1>6, <1>7, <1>8, <1>9, <1>10 DEF Next

\* So they always say it.
LEMMA Restoring == ASSUME MapsWritten PROVE Spec => []RestoreInv
<1>1. Init => RestoreInv
  BY InitRestore
<1>2. RestoreInv /\ [Next]_vars => RestoreInv'
  BY NextRestore
<1> QED
  BY <1>1, <1>2, PTL DEF Spec

\* A replay goes through the recorded states one by one (target.py,
\* _replay_forward), when the program writes what it maps.
THEOREM ReplaysTheRecord == ASSUME MapsWritten PROVE Spec => []ReplayTracksHistory
<1>1. RestoreInv => ReplayTracksHistory
  BY NowIs DEF NowInv, ReplayTracksHistory
<1> QED
  BY <1>1, Restoring, PTL

\* Every instruction the history reaches can be gone back to, through the
\* states the machine went through the first time (timeline.py, restore and
\* _enforce_budget; target.py, _go), when the program writes what it maps.
THEOREM EverythingRestorable == ASSUME MapsWritten PROVE Spec => []Restorable
<1>1. RestoreInv => Restorable
  <2> SUFFICES ASSUME RestoreInv, base # None, ~replaying, NEW k \in base.icount..icount
               PROVE  \E n \in 0..Len(checkpoints) :
                        /\ Reaches(n, k)
                        /\ Restored(n) = hist[Latest(n).icount]
                        /\ \A i \in Latest(n).icount..(k - 1) :
                             hist[i] \notin Faulting /\ hist[i + 1] = Exec[hist[i]]
    BY DEF Restorable
  <2>1. /\ IndexInv /\ ImagesOn(Pages) /\ ChainInv /\ SpanInv /\ Reached = icount
        /\ icount \in Nat /\ base \in Checkpoint /\ base.icount \in Nat
        /\ checkpoints \in Seq(Checkpoint) /\ Ascending(base, checkpoints)
    BY DEF RestoreInv, StoredOn, IndexInv, TypeOK, PaceInv, Reached, Checkpoint
  <2>2. k \in Nat /\ base.icount <= k /\ k <= icount
    BY <2>1
  <2>3. PICK n \in 0..Len(checkpoints) : Reaches(n, k)
    BY <2>1, <2>2, ReachesExists
  <2>5. /\ Latest(n) = At(base, checkpoints, n) /\ Latest(n).icount \in Nat
        /\ base.icount <= Latest(n).icount /\ Latest(n).icount <= k
    BY <2>1, <2>2, <2>3, ReachedClose, CheckpointsWithin
  <2>4. Restored(n) = hist[Latest(n).icount]
    <3>1. Agree(Pages, Restored(n), hist[Latest(n).icount])
      BY <2>1, <2>2, <2>3, RestoresRecorded
    <3>2. Restored(n) \in Machine
      BY <2>1, RestoredType DEF IndexInv
    <3>3. hist[Latest(n).icount] \in Machine
      <4>1. hist \in [base.icount..icount -> Machine]
        BY <2>1 DEF SpanInv, Earliest
      <4>2. Latest(n).icount \in base.icount..icount
        BY <2>1, <2>2, <2>5
      <4> QED
        BY <4>1, <4>2
    <3> QED
      BY <3>1, <3>2, <3>3, AgreeEverywhere
  <2>6. ASSUME NEW i \in Latest(n).icount..(k - 1)
        PROVE  hist[i] \notin Faulting /\ hist[i + 1] = Exec[hist[i]]
    <3>1. i \in base.icount..(icount - 1) /\ i \in Nat /\ i + 1 <= k /\ Latest(n).icount <= i
      BY <2>1, <2>2, <2>5
    <3>2. ASSUME NEW m \in 1..Len(checkpoints) PROVE checkpoints[m].icount # i + 1
      <4> SUFFICES ASSUME checkpoints[m].icount = i + 1 PROVE FALSE
        OBVIOUS
      <4>1. CASE m \in (n + 1)..Len(checkpoints)
        <5>1. checkpoints[m].icount > k
          BY <2>3, <4>1 DEF Reaches
        <5> QED
          BY <2>2, <3>1, <5>1
      <4>2. CASE m \notin (n + 1)..Len(checkpoints)
        <5>1. m \in 0..Len(checkpoints) /\ n \in 0..Len(checkpoints) /\ m <= n
          BY <2>1, <4>2
        <5>2. At(base, checkpoints, m).icount <= At(base, checkpoints, n).icount
          BY <2>1, <5>1 DEF Ascending
        <5>3. At(base, checkpoints, m) = checkpoints[m]
          BY DEF At
        <5> QED
          BY <2>5, <3>1, <5>2, <5>3
      <4> QED
        BY <4>1, <4>2
    <3>3. Follows(i)
      BY <2>1, <3>1, <3>2 DEF ChainInv
    <3> QED
      BY <3>3 DEF Follows
  <2> QED
    BY <2>3, <2>4, <2>6
<1> QED
  BY <1>1, Restoring, PTL

----------------------------------------------------------------------------
(* What History promises. *)

\* At first there is one state, the one the machine is in.
LEMMA InitPromised == Init => Promised!HistoryInit
<1> SUFFICES ASSUME Init PROVE Promised!HistoryInit
  OBVIOUS
<1>1. RestoreInv
  BY InitRestore
<1>2. ~replaying /\ machine \in Machine /\ hist = [i \in 0..0 |-> machine] /\ Earliest(base) = 0
      /\ icount = 0
  BY DEF Init, Earliest
<1>3. Max(DOMAIN hist) = 0
  BY <1>1, <1>2 DEF RestoreInv, SpanInv
<1> QED
  BY <1>2, <1>3 DEF Promised!HistoryInit

\* Every step of the timeline is one the history takes, or none.
LEMMA NextPromised ==
  ASSUME MapsWritten, RestoreInv, [Next]_vars
  PROVE  [Promised!HistoryNext]_(Promised!historyVars)
<1>0. /\ IndexInv /\ SpanInv /\ NowInv
      /\ RestoreInv' /\ SpanInv'
  BY NextRestore, NowIs DEF RestoreInv
<1> DEFINE first == Earliest(base)
           last == Max(DOMAIN hist)
<1>1. /\ machine \in Machine /\ icount \in Nat /\ first \in Nat /\ last \in Nat
      /\ machine' \in Machine
  BY <1>0, EarliestType DEF RestoreInv, IndexInv, TypeOK, SpanInv
<1>2. ~replaying => last = icount /\ hist[last] = machine
  BY <1>0 DEF SpanInv, NowInv
<1>3. ~replaying' => last' = icount'
  BY <1>0 DEF SpanInv
<1>4. CASE Execute
  <2>1. /\ ~replaying /\ ~replaying' /\ icount' = icount + 1
        /\ NoteInstruction(Writes[machine]) /\ Remember
    BY <1>4 DEF Execute, Idle
  <2>2. first' \in first..last
    BY <1>0, <1>1, <1>2, <2>1, NoteInstructionEarliest
  <2>3. last' = last + 1
    BY <1>2, <1>3, <2>1
  <2>4. hist' = [i \in first'..(last + 1) |-> IF i = last + 1 THEN machine' ELSE hist[i]]
    BY <1>2, <2>1 DEF Remember
  <2>5. Promised!Advance
    BY <1>1, <2>1, <2>2, <2>3, <2>4 DEF Promised!Advance
  <2> QED
    BY <2>5 DEF Promised!HistoryNext
<1>5. CASE Fault
  <2>1. /\ ~replaying /\ ~replaying' /\ icount' = icount /\ machine' = machine
        /\ NoteInstruction({}) /\ Remember
    BY <1>5 DEF Fault, Idle
  <2>2. first' \in first..last
    BY <1>0, <1>1, <1>2, <2>1, NoteInstructionEarliest
  <2>3. last' = last
    BY <1>2, <1>3, <2>1
  <2>4. hist' = [i \in first'..last |-> hist[i]]
    BY <1>2, <2>1 DEF Remember
  <2>5. Promised!Forget
    BY <2>1, <2>2, <2>3, <2>4 DEF Promised!Forget
  <2> QED
    BY <2>5 DEF Promised!HistoryNext
<1>6. ASSUME NEW m \in Machine, NEW d \in SUBSET Pages, Edited(m, d)
      PROVE  Promised!Edit
  <2>1. ~replaying /\ ~replaying' /\ icount' = icount /\ machine' = m /\ Remember
    BY <1>6 DEF Edited, Idle
  <2>2. first' \in first..last
    <3>1. CASE base = None
      BY <1>1, <1>2, <1>6, <2>1, <3>1 DEF Edited, Earliest
    <3>2. CASE base # None
      BY <1>0, <1>1, <1>2, <1>6, <2>1, <3>2, TakesCheckpoint DEF Edited, IndexInv
    <3> QED
      BY <3>1, <3>2
  <2>3. last' = last
    BY <1>2, <1>3, <2>1
  <2>4. hist' = [i \in first'..last |-> IF i = last THEN machine' ELSE hist[i]]
    BY <1>2, <2>1 DEF Remember
  <2> QED
    BY <1>1, <2>1, <2>2, <2>3, <2>4 DEF Promised!Edit
<1>7. CASE \E p \in Pages, v \in Vals : EditMemory(p, v)
  <2>1. PICK p \in Pages, v \in Vals : EditMemory(p, v)
    BY <1>7
  <2>2. [machine EXCEPT !.mem[p] = v] \in Machine /\ {p} \in SUBSET Pages
    BY <1>1 DEF Machine
  <2> QED
    BY <1>6, <2>1, <2>2 DEF EditMemory, Promised!HistoryNext
<1>8. CASE \E c \in Ctxs : EditRegister(c)
  <2>1. PICK c \in Ctxs : EditRegister(c)
    BY <1>8
  <2>2. [machine EXCEPT !.ctx = c] \in Machine /\ {} \in SUBSET Pages
    BY <1>1 DEF Machine
  <2> QED
    BY <1>6, <2>1, <2>2 DEF EditRegister, Promised!HistoryNext
<1>9. CASE \E k \in 0..MaxICount : BeginGoto(k)
  <2>1. ~replaying /\ replaying' /\ UNCHANGED <<base, hist>>
    BY <1>9 DEF BeginGoto
  <2> QED
    BY <1>2, <2>1 DEF Promised!historyVars
<1>10. CASE ReplayStep
  <2>1. replaying /\ replaying' /\ UNCHANGED <<base, hist>>
    BY <1>10 DEF ReplayStep
  <2> QED
    BY <2>1 DEF Promised!historyVars
<1>11. CASE EndGoto
  <2>1. /\ replaying /\ left = 0 /\ ~replaying' /\ icount' = ricount /\ base # None
        /\ hist' = [i \in base.icount..ricount |-> hist[i]]
        /\ UNCHANGED <<machine, base>>
    BY <1>0, <1>11 DEF EndGoto, IndexInv, FreshInv
  <2>2. first = base.icount /\ first' = first /\ last' = ricount
    BY <1>3, <2>1 DEF Earliest
  <2>3. machine' = hist[ricount]
    BY <1>0, <2>1 DEF NowInv
  <2>4. ricount \in first..last
    BY <1>0, <2>1, ReplayedWithin
  <2>5. Promised!GoTo
    BY <2>1, <2>2, <2>3, <2>4 DEF Promised!GoTo
  <2> QED
    BY <2>5 DEF Promised!HistoryNext
<1>12. CASE UNCHANGED vars
  BY <1>12 DEF vars, stored, Promised!historyVars
<1> QED
  BY <1>4, <1>5, <1>7, <1>8, <1>9, <1>10, <1>11, <1>12 DEF Next

\* The timeline does what History says (timeline.py; target.py, _go): runs append to the history, edits change its
\* newest state, the past is lost from its old end only, and going back puts
\* back exactly the state recorded, when the program writes what it maps.
THEOREM KeepsThePromise == ASSUME MapsWritten PROVE Spec => RefinesHistory
<1>1. Init => Promised!HistoryInit
  BY InitPromised
<1>2. RestoreInv /\ [Next]_vars => [Promised!HistoryNext]_(Promised!historyVars)
  BY NextPromised
<1>3. Spec => []RestoreInv
  BY Restoring
<1> QED
  BY <1>1, <1>2, <1>3, PTL DEF Spec, RefinesHistory, Promised!HistorySpec

----------------------------------------------------------------------------
(* The log of effects, and the layer it is of. *)

Entry == [icount : Nat, effect : Effect, before : Kernel]

\* The newest instruction of the history.
Newest == Max(DOMAIN hist)

\* What a log tells of the layer at instruction k: the state before the oldest
\* entry of what happened from k on or, when nothing has, the layer as it is.
Tells(lg, kn, kh, k) ==
  /\ \A i \in 1..Len(lg) :
       lg[i].icount >= k /\ (\A j \in 1..(i - 1) : lg[j].icount < k) => lg[i].before = kh[k]
  /\ (\A i \in 1..Len(lg) : lg[i].icount < k) => kn = kh[k]

\* What is left of a log without its n oldest entries; a log and one entry more.
WithoutOldest(lg, n, left2) ==
  /\ left2 \in Seq(Entry) /\ Len(left2) = Len(lg) - n
  /\ \A i \in 1..(Len(lg) - n) : left2[i] = lg[n + i]
WithEntry(lg, e, grown) ==
  /\ grown \in Seq(Entry) /\ Len(grown) = Len(lg) + 1 /\ grown[Len(lg) + 1] = e
  /\ \A i \in 1..Len(lg) : grown[i] = lg[i]

LayerTypeOK ==
  /\ kernel \in Kernel /\ log \in Seq(Entry)
  /\ khist \in [Earliest(base)..Newest -> Kernel]

\* Entries are in order, and of instructions that have run and are reached.
LogInOrder ==
  /\ \A i, j \in 1..Len(log) : i < j => log[i].icount < log[j].icount
  /\ \A i \in 1..Len(log) : Earliest(base) <= log[i].icount /\ log[i].icount < Newest

LogTells == \A k \in Earliest(base)..Newest : Tells(log, kernel, khist, k)

LayerInv == LayerTypeOK /\ LogInOrder /\ LogTells
EffectsInv == IndexInv /\ SpanInv /\ LayerInv

----------------------------------------------------------------------------
(* What a log tells as it grows and shrinks. *)

\* Dropping old entries takes nothing away from what is told of k.
LEMMA TellsAfterDrop ==
  ASSUME NEW lg \in Seq(Entry), NEW n \in 0..Len(lg), NEW ds, WithoutOldest(lg, n, ds),
         NEW kn, NEW kh, NEW k \in Nat,
         \A i \in 1..n : lg[i].icount < k, Tells(lg, kn, kh, k)
  PROVE  Tells(ds, kn, kh, k)
<1>1. /\ Len(ds) = Len(lg) - n /\ n \in Nat /\ Len(lg) \in Nat /\ n <= Len(lg)
      /\ \A i \in 1..(Len(lg) - n) : ds[i] = lg[n + i]
  BY DEF WithoutOldest
<1>2. ASSUME NEW i \in 1..Len(ds), ds[i].icount >= k, \A j \in 1..(i - 1) : ds[j].icount < k
      PROVE  ds[i].before = kh[k]
  <2>1. n + i \in 1..Len(lg) /\ i \in 1..(Len(lg) - n)
    BY <1>1
  <2>2. ASSUME NEW j \in 1..(n + i - 1) PROVE lg[j].icount < k
    <3>1. CASE j \in 1..n
      BY <3>1
    <3>2. CASE j \notin 1..n
      <4>1. j - n \in 1..(i - 1) /\ j - n \in 1..(Len(lg) - n) /\ n + (j - n) = j
        BY <1>1, <3>2
      <4>2. ds[j - n] = lg[j]
        BY <1>1, <4>1
      <4> QED
        BY <1>2, <4>1, <4>2
    <3> QED
      BY <3>1, <3>2
  <2>3. ds[i] = lg[n + i]
    BY <1>1, <2>1
  <2>4. PICK m \in 1..Len(lg) : m = n + i
    BY <2>1
  <2>5. lg[m].icount >= k /\ \A j \in 1..(m - 1) : lg[j].icount < k
    BY <1>2, <2>2, <2>3, <2>4
  <2>6. lg[m].before = kh[k]
    BY <2>5 DEF Tells
  <2> QED
    BY <2>3, <2>4, <2>6
<1>3. ASSUME \A i \in 1..Len(ds) : ds[i].icount < k
      PROVE  kn = kh[k]
  <2> SUFFICES ASSUME NEW i \in 1..Len(lg) PROVE lg[i].icount < k
    BY DEF Tells
  <2>1. CASE i \in 1..n
    BY <2>1
  <2>2. CASE i \notin 1..n
    <3>1. i - n \in 1..Len(ds) /\ i - n \in 1..(Len(lg) - n) /\ n + (i - n) = i
      BY <1>1, <2>2
    <3>2. ds[i - n] = lg[i]
      BY <1>1, <3>1
    <3> QED
      BY <1>3, <3>1, <3>2
  <2> QED
    BY <2>1, <2>2
<1> QED
  BY <1>2, <1>3 DEF Tells

\* A new entry with the state the log told of takes its place.
LEMMA TellsAfterCall ==
  ASSUME NEW lg \in Seq(Entry), NEW e \in Entry, NEW ds, WithEntry(lg, e, ds),
         NEW kn, NEW kh, NEW k \in Nat, e.icount >= k, Tells(lg, e.before, kh, k)
  PROVE  Tells(ds, kn, kh, k)
<1>1. /\ Len(ds) = Len(lg) + 1 /\ Len(lg) \in Nat /\ ds[Len(lg) + 1] = e
      /\ \A i \in 1..Len(lg) : ds[i] = lg[i]
  BY DEF WithEntry
<1>2. ASSUME NEW i \in 1..Len(ds), ds[i].icount >= k, \A j \in 1..(i - 1) : ds[j].icount < k
      PROVE  ds[i].before = kh[k]
  <2>1. CASE i = Len(lg) + 1
    <3>1. \A j \in 1..Len(lg) : lg[j].icount < k
      BY <1>1, <1>2, <2>1
    <3> QED
      BY <1>1, <2>1, <3>1 DEF Tells
  <2>2. CASE i # Len(lg) + 1
    <3>1. i \in 1..Len(lg) /\ \A j \in 1..(i - 1) : j \in 1..Len(lg)
      BY <1>1, <2>2
    <3>2. \A j \in 1..(i - 1) : lg[j].icount < k
      BY <1>1, <1>2, <3>1
    <3> QED
      BY <1>1, <1>2, <3>1, <3>2 DEF Tells
  <2> QED
    BY <2>1, <2>2
<1>3. ~ (\A i \in 1..Len(ds) : ds[i].icount < k)
  <2>1. Len(lg) + 1 \in 1..Len(ds) /\ e.icount \in Nat
    BY <1>1 DEF Entry
  <2> QED
    BY <1>1, <2>1
<1> QED
  BY <1>2, <1>3 DEF Tells

\* Dropping what has not happened at c, and putting back the state before it,
\* leaves the log telling the same of every instruction up to c.
LEMMA TellsAfterCut ==
  ASSUME NEW lg \in Seq(Entry), NEW n \in 0..Len(lg), NEW kn, NEW kh,
         NEW c \in Nat, NEW k \in Nat, k <= c,
         \A i \in (n + 1)..Len(lg) : lg[i].icount >= c, Tells(lg, kn, kh, k)
  PROVE  Tells(SubSeq(lg, 1, n), IF n = Len(lg) THEN kn ELSE lg[n + 1].before, kh, k)
<1> DEFINE ds == SubSeq(lg, 1, n)
           kn2 == IF n = Len(lg) THEN kn ELSE lg[n + 1].before
<1>1. /\ Len(ds) = n /\ n \in Nat /\ Len(lg) \in Nat /\ n <= Len(lg)
      /\ \A i \in 1..n : ds[i] = lg[i]
  OBVIOUS
<1> HIDE DEF ds
<1>2. ASSUME NEW i \in 1..n, ds[i].icount >= k, \A j \in 1..(i - 1) : ds[j].icount < k
      PROVE  ds[i].before = kh[k]
  <2>1. i \in 1..Len(lg) /\ \A j \in 1..(i - 1) : j \in 1..n
    BY <1>1
  <2>2. \A j \in 1..(i - 1) : lg[j].icount < k
    BY <1>1, <1>2, <2>1
  <2> QED
    BY <1>1, <1>2, <2>1, <2>2 DEF Tells
<1>3. ASSUME \A i \in 1..n : ds[i].icount < k
      PROVE  kn2 = kh[k]
  <2>1. \A i \in 1..n : lg[i].icount < k
    BY <1>1, <1>3
  <2>2. CASE n = Len(lg)
    BY <2>1, <2>2 DEF Tells
  <2>3. CASE n # Len(lg)
    <3>1. n + 1 \in 1..Len(lg) /\ n + 1 \in (n + 1)..Len(lg) /\ (n + 1) - 1 = n
      BY <1>1, <2>3
    <3>2. lg[n + 1].icount >= k
      <4>1. lg[n + 1] \in Entry
        BY <3>1
      <4>2. lg[n + 1].icount \in Nat /\ lg[n + 1].icount >= c
        BY <3>1, <4>1 DEF Entry
      <4> QED
        BY <4>2
    <3> QED
      BY <2>1, <2>3, <3>1, <3>2 DEF Tells
  <2> QED
    BY <2>2, <2>3
<1> QED
  BY <1>1, <1>2, <1>3 DEF Tells, ds

----------------------------------------------------------------------------
(* The inductive step. *)

\* A step of the timeline that is no call: the log loses what the history has
\* lost, and the layer is now at the instruction reached.
LEMMA PlainLayer ==
  ASSUME EffectsInv, ~replaying, ~replaying', SpanInv', RememberLayer, kernel' = kernel,
         icount' \in {icount, icount + 1},
         Earliest(base) <= Earliest(base'), Earliest(base') <= icount, Earliest(base') \in Nat,
         NEW n \in 0..Len(log), Forgotten(n, Earliest(base')), WithoutOldest(log, n, log')
  PROVE  LayerInv'
<1>0. /\ Newest = icount /\ Newest' = icount' /\ icount \in Nat /\ icount' \in Nat
      /\ Earliest(base) \in Nat /\ LayerTypeOK /\ LogInOrder /\ LogTells
      /\ log \in Seq(Entry) /\ kernel \in Kernel
  BY EarliestType DEF EffectsInv, LayerInv, LayerTypeOK, SpanInv, IndexInv, TypeOK, Newest
<1>1. icount' = icount \/ icount' = icount + 1
  OBVIOUS
<1>2. /\ log' \in Seq(Entry) /\ Len(log') = Len(log) - n /\ n \in Nat /\ Len(log) \in Nat
      /\ n <= Len(log)
      /\ \A i \in 1..(Len(log) - n) : log'[i] = log[n + i]
  BY <1>0 DEF WithoutOldest
<1>3. \A i \in 1..Len(log') : n + i \in 1..Len(log) /\ log'[i] = log[n + i]
  BY <1>2
<1>4. \A i \in 1..Len(log) : log[i].icount \in Nat
  <2>1. \A i \in 1..Len(log) : log[i] \in Entry
    BY <1>0
  <2> QED
    BY <2>1 DEF Entry
<1>5. kernel = khist[icount]
  <2>1. icount \in Earliest(base)..Newest
    BY <1>0
  <2> QED
    BY <1>0, <2>1 DEF LogTells, Tells, LogInOrder
<1>6. /\ DOMAIN khist' = Earliest(base')..icount'
      /\ khist' \in [Earliest(base')..icount' -> Kernel]
      /\ khist'[icount'] = kernel
      /\ \A k \in Earliest(base')..icount : khist'[k] = khist[k]
  <2>0. /\ icount' \in Earliest(base')..icount'
        /\ \A k \in Earliest(base')..icount : k \in Earliest(base)..icount
                                            /\ k \in Earliest(base')..icount'
        /\ \A k \in Earliest(base')..icount' : k # icount' => k \in Earliest(base')..icount
    <3>1. CASE icount' = icount
      BY <1>0, <3>1
    <3>2. CASE icount' = icount + 1
      BY <1>0, <3>2
    <3> QED
      BY <1>1, <3>1, <3>2
  <2>1. khist' = [k \in Earliest(base')..icount' |-> IF k = icount' THEN kernel ELSE khist[k]]
    BY DEF RememberLayer
  <2>2. \A k \in Earliest(base)..icount : khist[k] \in Kernel
    BY <1>0 DEF LayerTypeOK
  <2>3. khist'[icount'] = kernel
    BY <2>0, <2>1
  <2>4. ASSUME NEW k \in Earliest(base')..icount
        PROVE  khist'[k] = khist[k]
    <3>1. CASE k = icount'
      <4>1. k = icount
        BY <1>0, <1>1, <3>1
      <4> QED
        BY <1>5, <2>3, <3>1, <4>1
    <3>2. CASE k # icount'
      BY <2>0, <2>1, <3>2
    <3> QED
      BY <3>1, <3>2
  <2> QED
    BY <1>0, <2>0, <2>1, <2>2, <2>3, <2>4
<1>7. LayerTypeOK'
  BY <1>0, <1>2, <1>6 DEF LayerTypeOK
<1>8. LogInOrder'
  <2>1. ASSUME NEW i \in 1..Len(log'), NEW j \in 1..Len(log'), i < j
        PROVE  log'[i].icount < log'[j].icount
    <3>1. n + i \in 1..Len(log) /\ n + j \in 1..Len(log) /\ n + i < n + j
      BY <1>2, <1>3, <2>1
    <3> QED
      BY <1>0, <1>3, <3>1 DEF LogInOrder
  <2>2. ASSUME NEW i \in 1..Len(log')
        PROVE  Earliest(base') <= log'[i].icount /\ log'[i].icount < icount'
    <3>1. log'[i] = log[n + i] /\ n + i \in 1..Len(log) /\ log[n + i].icount < icount
      BY <1>0, <1>3 DEF LogInOrder
    <3>2. n + 1 \in 1..Len(log) /\ n < Len(log)
      BY <1>2
    <3>3. log[n + 1].icount >= Earliest(base')
      BY <3>2 DEF Forgotten
    <3>4. log[n + 1].icount <= log[n + i].icount
      <4>1. CASE i = 1
        BY <1>4, <3>2, <4>1
      <4>2. CASE i # 1
        <5>1. n + 1 < n + i
          BY <1>2, <4>2
        <5> QED
          BY <1>0, <1>4, <3>1, <3>2, <5>1 DEF LogInOrder
      <4> QED
        BY <4>1, <4>2
    <3>5. log[n + 1].icount \in Nat /\ log[n + i].icount \in Nat
      BY <1>4, <3>1, <3>2
    <3>6. Earliest(base') <= log[n + i].icount
      BY <3>3, <3>4, <3>5
    <3>7. log[n + i].icount < icount'
      BY <1>0, <1>1, <3>1, <3>5
    <3> QED
      BY <3>1, <3>6, <3>7
  <2> QED
    BY <1>0, <2>1, <2>2 DEF LogInOrder
<1>9. LogTells'
  <2> SUFFICES ASSUME NEW k \in Earliest(base')..icount'
               PROVE  Tells(log', kernel, khist', k)
    BY <1>0 DEF LogTells
  <2>1. k \in Nat
    BY <1>0
  <2>2. CASE k \in Earliest(base')..icount
    <3>1. k \in Earliest(base)..Newest /\ Earliest(base') <= k
      BY <1>0, <2>2
    <3>2. \A i \in 1..n : log[i].icount < k
      <4> TAKE i \in 1..n
      <4>1. i \in 1..Len(log) /\ log[i].icount < Earliest(base')
        BY <1>2 DEF Forgotten
      <4> QED
        BY <1>4, <2>1, <3>1, <4>1
    <3>3. Tells(log, kernel, khist, k)
      BY <1>0, <3>1 DEF LogTells
    <3>4. Tells(log', kernel, khist, k)
      BY <1>0, <2>1, <3>2, <3>3, TellsAfterDrop
    <3> QED
      BY <1>6, <2>2, <3>4 DEF Tells
  <2>3. CASE k \notin Earliest(base')..icount
    <3>1. k = icount'
      BY <1>0, <1>1, <2>3
    <3>2. \A i \in 1..Len(log') : log'[i].icount < k
      BY <1>0, <1>8, <3>1 DEF LogInOrder
    <3>3. \A i \in 1..Len(log') : ~ (log'[i].icount >= k)
      <4> TAKE i \in 1..Len(log')
      <4>1. log'[i].icount \in Nat /\ log'[i].icount < k
        BY <1>3, <1>4, <3>2
      <4> QED
        BY <2>1, <4>1
    <3> QED
      BY <1>6, <3>1, <3>3 DEF Tells
  <2> QED
    BY <2>2, <2>3
<1> QED
  BY <1>7, <1>8, <1>9 DEF LayerInv

\* A call: the state it is answered from is the one to put back.
LEMMA CallLayer ==
  ASSUME EffectsInv, ~replaying, ~replaying', SpanInv', RememberLayer,
         icount' = icount + 1, kernel' \in Kernel,
         Earliest(base) <= Earliest(base'), Earliest(base') <= icount, Earliest(base') \in Nat,
         NEW n \in 0..Len(log), Forgotten(n, Earliest(base')),
         NEW lg, WithoutOldest(log, n, lg),
         NEW e \in Entry, e.icount = icount, e.before = kernel, WithEntry(lg, e, log')
  PROVE  LayerInv'
<1>0. /\ Newest = icount /\ Newest' = icount + 1 /\ icount \in Nat
      /\ Earliest(base) \in Nat /\ LayerTypeOK /\ LogInOrder /\ LogTells
      /\ log \in Seq(Entry) /\ kernel \in Kernel
  BY EarliestType DEF EffectsInv, LayerInv, LayerTypeOK, SpanInv, IndexInv, TypeOK, Newest
<1>1. /\ lg \in Seq(Entry) /\ Len(lg) = Len(log) - n /\ n \in Nat /\ Len(log) \in Nat
      /\ n <= Len(log)
      /\ \A i \in 1..(Len(log) - n) : lg[i] = log[n + i]
  BY <1>0 DEF WithoutOldest
<1>2. /\ log' \in Seq(Entry) /\ Len(log') = Len(lg) + 1 /\ log'[Len(lg) + 1] = e
      /\ \A i \in 1..Len(lg) : log'[i] = lg[i] /\ lg[i] = log[n + i] /\ n + i \in 1..Len(log)
  BY <1>1 DEF WithEntry
<1>3. \A i \in 1..Len(log) : log[i].icount \in Nat
  <2>1. \A i \in 1..Len(log) : log[i] \in Entry
    BY <1>0
  <2> QED
    BY <2>1 DEF Entry
<1>4. kernel = khist[icount]
  <2>1. icount \in Earliest(base)..Newest
    BY <1>0
  <2> QED
    BY <1>0, <2>1 DEF LogTells, Tells, LogInOrder
<1>5. /\ khist' \in [Earliest(base')..(icount + 1) -> Kernel]
      /\ khist'[icount + 1] = kernel'
      /\ \A k \in Earliest(base')..icount : khist'[k] = khist[k]
  <2>1. khist' = [k \in Earliest(base')..(icount + 1) |->
                    IF k = icount + 1 THEN kernel' ELSE khist[k]]
    BY DEF RememberLayer
  <2>2. \A k \in Earliest(base)..icount : khist[k] \in Kernel
    BY <1>0 DEF LayerTypeOK
  <2>3. /\ icount + 1 \in Earliest(base')..(icount + 1)
        /\ \A k \in Earliest(base')..icount :
             k \in Earliest(base)..icount /\ k \in Earliest(base')..(icount + 1) /\ k # icount + 1
        /\ \A k \in Earliest(base')..(icount + 1) : k # icount + 1 => k \in Earliest(base')..icount
    BY <1>0
  <2> QED
    BY <2>1, <2>2, <2>3
<1>6. LayerTypeOK'
  BY <1>0, <1>2, <1>5 DEF LayerTypeOK
<1>7. LogInOrder'
  <2>0. \A i \in 1..Len(lg) : /\ lg[i].icount < icount /\ lg[i].icount \in Nat
                              /\ Earliest(base') <= lg[i].icount
    <3> TAKE i \in 1..Len(lg)
    <3>1. lg[i] = log[n + i] /\ n + i \in 1..Len(log) /\ log[n + i].icount < icount
      BY <1>0, <1>2 DEF LogInOrder
    <3>2. n + 1 \in 1..Len(log) /\ n < Len(log)
      BY <1>1
    <3>3. log[n + 1].icount >= Earliest(base')
      BY <3>2 DEF Forgotten
    <3>4. log[n + 1].icount <= log[n + i].icount
      <4>1. CASE i = 1
        BY <1>3, <3>2, <4>1
      <4>2. CASE i # 1
        <5>1. n + 1 < n + i
          BY <1>1, <4>2
        <5> QED
          BY <1>0, <1>3, <3>1, <3>2, <5>1 DEF LogInOrder
      <4> QED
        BY <4>1, <4>2
    <3>5. log[n + 1].icount \in Nat /\ log[n + i].icount \in Nat
      BY <1>3, <3>1, <3>2
    <3> QED
      BY <3>1, <3>3, <3>4, <3>5
  <2>1. ASSUME NEW i \in 1..Len(log'), NEW j \in 1..Len(log'), i < j
        PROVE  log'[i].icount < log'[j].icount
    <3>1. i \in 1..Len(lg)
      BY <1>1, <1>2, <2>1
    <3>2. CASE j = Len(lg) + 1
      BY <1>2, <2>0, <3>1, <3>2
    <3>3. CASE j # Len(lg) + 1
      <4>1. j \in 1..Len(lg)
        <5>1. Len(lg) \in Nat /\ Len(log') = Len(lg) + 1
          BY <1>1, <1>2
        <5> QED
          BY <3>3, <5>1
      <4>2. n + i < n + j /\ n + i \in 1..Len(log) /\ n + j \in 1..Len(log)
        BY <1>1, <1>2, <2>1, <3>1, <4>1
      <4>3. log[n + i].icount < log[n + j].icount
        BY <1>0, <4>2 DEF LogInOrder
      <4> QED
        BY <1>2, <3>1, <4>1, <4>3
    <3> QED
      BY <3>2, <3>3
  <2>2. ASSUME NEW i \in 1..Len(log')
        PROVE  Earliest(base') <= log'[i].icount /\ log'[i].icount < icount + 1
    <3>1. CASE i = Len(lg) + 1
      BY <1>0, <1>2, <3>1
    <3>2. CASE i # Len(lg) + 1
      <4>1. i \in 1..Len(lg)
        BY <1>1, <1>2, <3>2
      <4>2. log'[i] = lg[i]
        BY <1>2, <4>1
      <4>3. lg[i].icount < icount /\ lg[i].icount \in Nat /\ Earliest(base') <= lg[i].icount
        BY <2>0, <4>1
      <4> QED
        BY <1>0, <4>2, <4>3
    <3> QED
      BY <3>1, <3>2
  <2> QED
    BY <1>0, <2>1, <2>2 DEF LogInOrder
<1>8. LogTells'
  <2> SUFFICES ASSUME NEW k \in Earliest(base')..(icount + 1)
               PROVE  Tells(log', kernel', khist', k)
    BY <1>0 DEF LogTells
  <2>1. k \in Nat
    BY <1>0
  <2>2. CASE k \in Earliest(base')..icount
    <3>1. k \in Earliest(base)..Newest /\ Earliest(base') <= k /\ k <= icount
      BY <1>0, <2>2
    <3>2. \A i \in 1..n : log[i].icount < k
      <4> TAKE i \in 1..n
      <4>1. i \in 1..Len(log) /\ log[i].icount < Earliest(base')
        BY <1>1 DEF Forgotten
      <4> QED
        BY <1>3, <2>1, <3>1, <4>1
    <3>3. Tells(log, kernel, khist, k)
      BY <1>0, <3>1 DEF LogTells
    <3>4. Tells(lg, kernel, khist, k)
      BY <1>0, <2>1, <3>2, <3>3, TellsAfterDrop
    <3>5. e.icount >= k
      BY <1>0, <2>1, <3>1
    <3>6. Tells(log', kernel', khist, k)
      BY <1>1, <2>1, <3>4, <3>5, TellsAfterCall
    <3> QED
      BY <1>5, <2>2, <3>6 DEF Tells
  <2>3. CASE k \notin Earliest(base')..icount
    <3>1. k = icount + 1
      BY <1>0, <2>3
    <3>2. \A i \in 1..Len(log') : log'[i].icount < k
      BY <1>0, <1>7, <3>1 DEF LogInOrder
    <3>3. \A i \in 1..Len(log') : ~ (log'[i].icount >= k)
      <4> TAKE i \in 1..Len(log')
      <4>1. log'[i] \in Entry
        BY <1>2
      <4>2. log'[i].icount \in Nat /\ log'[i].icount < k
        BY <3>2, <4>1 DEF Entry
      <4> QED
        BY <2>1, <4>1, <4>2
    <3> QED
      BY <1>5, <3>1, <3>3 DEF Tells
  <2> QED
    BY <2>2, <2>3
<1> QED
  BY <1>6, <1>7, <1>8 DEF LayerInv

\* The end of a goto: what has not happened yet is dropped, and the layer is
\* put back to the instruction reached.
LEMMA EndGotoLayer ==
  ASSUME EffectsInv, SpanInv', EndGotoWithLog
  PROVE  LayerInv'
<1>1. /\ replaying /\ ~replaying' /\ base' = base /\ Truncated(ricount) /\ icount' = ricount
      /\ khist' = [i \in base.icount..ricount |-> khist[i]]
  BY DEF EndGotoWithLog, EndGoto
<1>2. /\ ricount \in Earliest(base)..Newest /\ base.icount \in Nat
      /\ Earliest(base) = base.icount /\ Earliest(base') = base.icount
  BY <1>1, ReplayedWithin DEF EffectsInv, Earliest, Newest
<1>3. /\ Newest' = ricount /\ Newest \in Nat /\ ricount \in Nat
      /\ LayerTypeOK /\ LogInOrder /\ LogTells /\ log \in Seq(Entry) /\ kernel \in Kernel
  BY <1>1, <1>2 DEF EffectsInv, LayerInv, LayerTypeOK, SpanInv, Newest
<1>4. PICK n \in 0..Len(log) :
        /\ \A i \in (n + 1)..Len(log) : log[i].icount >= ricount
        /\ n > 0 => log[n].icount < ricount
        /\ log' = SubSeq(log, 1, n)
        /\ kernel' = IF n = Len(log) THEN kernel ELSE log[n + 1].before
  BY <1>1 DEF Truncated
<1>5. /\ log' \in Seq(Entry) /\ Len(log') = n /\ n \in Nat /\ Len(log) \in Nat /\ n <= Len(log)
      /\ \A i \in 1..n : log'[i] = log[i] /\ i \in 1..Len(log)
  BY <1>3, <1>4
<1>6. \A i \in 1..Len(log) : log[i].icount \in Nat /\ log[i].before \in Kernel
  <2>1. \A i \in 1..Len(log) : log[i] \in Entry
    BY <1>3
  <2> QED
    BY <2>1 DEF Entry
<1>7. kernel' \in Kernel
  <2>1. CASE n = Len(log)
    BY <1>3, <1>4, <2>1
  <2>2. CASE n # Len(log)
    <3>1. n + 1 \in 1..Len(log)
      BY <1>5, <2>2
    <3> QED
      BY <1>4, <1>6, <2>2, <3>1
  <2> QED
    BY <2>1, <2>2
<1>8. /\ khist' \in [base.icount..ricount -> Kernel]
      /\ \A k \in base.icount..ricount : khist'[k] = khist[k]
  <2>1. \A k \in base.icount..ricount : khist[k] \in Kernel
    BY <1>2, <1>3 DEF LayerTypeOK
  <2> QED
    BY <1>1, <2>1
<1>9. LayerTypeOK'
  BY <1>2, <1>3, <1>5, <1>7, <1>8 DEF LayerTypeOK
<1>10. LogInOrder'
  <2>1. ASSUME NEW i \in 1..n PROVE log[i].icount < ricount
    <3>1. i \in 1..Len(log) /\ n \in 1..Len(log) /\ n > 0
      BY <1>5
    <3>2. CASE i = n
      BY <1>4, <3>1, <3>2
    <3>3. CASE i # n
      <4>1. log[i].icount < log[n].icount
        BY <1>3, <3>1, <3>3 DEF LogInOrder
      <4> QED
        BY <1>3, <1>4, <1>6, <3>1, <4>1
    <3> QED
      BY <3>2, <3>3
  <2> QED
    BY <1>2, <1>3, <1>5, <2>1 DEF LogInOrder
<1>11. LogTells'
  <2> SUFFICES ASSUME NEW k \in base.icount..ricount
               PROVE  Tells(log', kernel', khist', k)
    BY <1>2, <1>3 DEF LogTells
  <2>1. k \in Nat /\ k <= ricount /\ k \in Earliest(base)..Newest
    BY <1>2, <1>3
  <2>2. Tells(log, kernel, khist, k)
    BY <1>3, <2>1 DEF LogTells
  <2>3. Tells(log', kernel', khist, k)
    BY <1>3, <1>4, <2>1, <2>2, TellsAfterCut
  <2> QED
    BY <1>8, <2>3 DEF Tells
<1> QED
  BY <1>9, <1>10, <1>11 DEF LayerInv

\* A step that leaves the layer, the history and the base alone.
LEMMA SameLayer ==
  ASSUME LayerInv, layer' = layer, base' = base, hist' = hist
  PROVE  LayerInv'
<1>1. kernel' = kernel /\ log' = log /\ khist' = khist /\ Newest' = Newest
  BY DEF layer, Newest
<1> QED
  BY <1>1 DEF LayerInv, LayerTypeOK, LogInOrder, LogTells

\* The log pruned from its front.
LEMMA Pruned ==
  ASSUME NEW n \in 0..Len(log), log \in Seq(Entry)
  PROVE  WithoutOldest(log, n, SubSeq(log, n + 1, Len(log)))
<1>1. n \in Nat /\ Len(log) \in Nat /\ n <= Len(log)
  OBVIOUS
<1> QED
  BY <1>1 DEF WithoutOldest

\* An effect leaves a machine.
LEMMA ApplyType ==
  ASSUME NEW m \in Machine, NEW effect \in Effect
  PROVE  Apply(m, effect) \in Machine /\ Written(effect) \in SUBSET Pages
<1>1. /\ effect.ctx \in Ctxs /\ effect.writes \in [Pages -> Vals \cup {Absent}]
      /\ m.mem \in [Pages -> Vals \cup {Absent}] /\ Zero \in Vals
  BY ProgramAssumption DEF Effect, Machine
<1> QED
  BY <1>1 DEF Apply, Machine, Written

\* Any step of the timeline that is no call.
LEMMA PlainStep ==
  ASSUME EffectsInv, NEW s, Plainly(s), IndexInv', SpanInv', ~replaying, ~replaying',
         icount' \in {icount, icount + 1},
         Earliest(base) <= Earliest(base'), Earliest(base') <= icount, Earliest(base') \in Nat
  PROVE  EffectsInv'
<1>1. PICK n \in 0..Len(log) :
        Forgotten(n, Earliest(base')) /\ log' = SubSeq(log, n + 1, Len(log))
  BY DEF Plainly
<1>2. kernel' = kernel /\ RememberLayer /\ log \in Seq(Entry)
  BY DEF Plainly, EffectsInv, LayerInv, LayerTypeOK
<1>3. WithoutOldest(log, n, log')
  BY <1>1, <1>2, Pruned
<1>4. LayerInv'
  BY <1>1, <1>2, <1>3, PlainLayer
<1> QED
  BY <1>4 DEF EffectsInv

\* An edit.
LEMMA EditStep ==
  ASSUME EffectsInv, NEW s, Plainly(s), NEW m \in Machine, NEW d \in SUBSET Pages, Edited(m, d)
  PROVE  EffectsInv'
<1>1. /\ ~replaying /\ replaying' = FALSE /\ machine' = m /\ icount' = icount /\ Remember
      /\ icount' \in {icount, icount + 1}
  BY DEF Edited, Idle
<1>2. /\ Earliest(base) \in Nat /\ Earliest(base') \in Nat
      /\ Earliest(base) <= Earliest(base') /\ Earliest(base') <= icount
  BY EditedEarliest DEF EffectsInv
<1>3. IndexInv'
  BY EditedIndex DEF EffectsInv
<1>4. SpanInv'
  BY <1>1, <1>2, RememberKeeps DEF EffectsInv
<1> QED
  BY <1>1, <1>2, <1>3, <1>4, PlainStep

\* An instruction, completed or refused, that is no call.
LEMMA InstructionStep ==
  ASSUME EffectsInv, NEW s, Plainly(s), Execute \/ Fault
  PROVE  EffectsInv'
<1>0. machine \in Machine /\ icount \in Nat /\ IndexInv /\ SpanInv
  BY DEF EffectsInv, IndexInv, TypeOK
<1>1. PICK w \in SUBSET Pages : NoteInstruction(w)
  BY <1>0, ProgramAssumption DEF Execute, Fault
<1>2. /\ ~replaying /\ replaying' = FALSE /\ replaying' = replaying /\ left' = left
      /\ ricount' = ricount /\ Remember /\ icount' \in {icount, icount + 1}
      /\ machine' \in Machine
  BY <1>0, ProgramAssumption DEF Execute, Fault, Idle
<1>3. /\ Earliest(base) \in Nat /\ Earliest(base') \in Nat
      /\ Earliest(base) <= Earliest(base') /\ Earliest(base') <= icount
  BY <1>0, <1>1, <1>2, NoteInstructionEarliest
<1>4. IndexInv'
  BY <1>0, <1>1, <1>2, NoteInstructionIndex
<1>5. SpanInv'
  BY <1>0, <1>2, <1>3, RememberKeeps
<1> QED
  BY <1>2, <1>3, <1>4, <1>5, PlainStep

\* A call made by a run.
LEMMA CallStep ==
  ASSUME EffectsInv, Call
  PROVE  EffectsInv'
<1> DEFINE served == Serve[<<machine, kernel>>]
           entry == [icount |-> icount, effect |-> served.effect, before |-> kernel]
<1>0. /\ machine \in Machine /\ icount \in Nat /\ IndexInv /\ SpanInv /\ kernel \in Kernel
      /\ log \in Seq(Entry) /\ machine \in Calls
  BY DEF EffectsInv, IndexInv, TypeOK, LayerInv, LayerTypeOK, Call
<1>1. served.effect \in Effect /\ served.kernel \in Kernel
  BY <1>0, ServeAssumption
<1>2. entry \in Entry /\ entry.icount = icount /\ entry.before = kernel
  BY <1>0, <1>1 DEF Entry
<1>3. /\ NoteInstruction(Written(served.effect)) /\ machine' = Apply(machine, served.effect)
      /\ kernel' = served.kernel /\ icount' = icount + 1 /\ Remember /\ RememberLayer
      /\ icount' \in {icount, icount + 1}
      /\ ~replaying /\ replaying' = FALSE /\ replaying' = replaying /\ left' = left
      /\ ricount' = ricount
  BY DEF Call, Idle
<1>4. PICK n \in 0..Len(log) :
        /\ Forgotten(n, Earliest(base'))
        /\ log' = Append(SubSeq(log, n + 1, Len(log)), entry)
  BY DEF Call
<1> HIDE DEF entry, served
<1>5. machine' \in Machine /\ Written(served.effect) \in SUBSET Pages
  BY <1>0, <1>1, <1>3, ApplyType
<1>6. /\ Earliest(base) \in Nat /\ Earliest(base') \in Nat
      /\ Earliest(base) <= Earliest(base') /\ Earliest(base') <= icount
  BY <1>0, <1>3, NoteInstructionEarliest
<1>7. IndexInv'
  BY <1>0, <1>3, <1>5, NoteInstructionIndex
<1>8. SpanInv'
  BY <1>0, <1>3, <1>5, <1>6, RememberKeeps
<1>9. PICK lg : lg = SubSeq(log, n + 1, Len(log))
  OBVIOUS
<1>10. WithoutOldest(log, n, lg)
  BY <1>0, <1>9, Pruned
<1>11. WithEntry(lg, entry, log')
  <2>1. lg \in Seq(Entry)
    BY <1>10 DEF WithoutOldest
  <2>2. WithEntry(lg, entry, Append(lg, entry))
    BY <1>2, <2>1 DEF WithEntry
  <2> QED
    BY <1>4, <1>9, <2>2
<1>12. LayerInv'
  BY <1>1, <1>2, <1>3, <1>4, <1>6, <1>8, <1>10, <1>11, CallLayer
<1> QED
  BY <1>7, <1>8, <1>12 DEF EffectsInv

\* A call come to by a replay.
LEMMA ReplayCallStep ==
  ASSUME EffectsInv, ReplayCall
  PROVE  EffectsInv'
<1>0. /\ machine \in Machine /\ IndexInv /\ SpanInv /\ LayerInv /\ log \in Seq(Entry)
      /\ dirty \in SUBSET Pages
  BY DEF EffectsInv, IndexInv, TypeOK, LayerInv, LayerTypeOK
<1>1. /\ replaying /\ left > 0 /\ ricount' = ricount + 1 /\ left' = left - 1
      /\ UNCHANGED <<base, checkpoints, icount, next, replaying, hist>>
      /\ layer' = layer
  BY DEF ReplayCall
<1>4. machine' \in Machine /\ dirty' \in SUBSET Pages
  <2>1. CASE machine' = Exec[machine] /\ dirty' = dirty \cup Writes[machine]
    BY <1>0, <2>1, ProgramAssumption
  <2>2. CASE dirty' = dirty /\ \E i \in 1..Len(log) : machine' = Apply(machine, log[i].effect)
    <3>1. PICK i \in 1..Len(log) : machine' = Apply(machine, log[i].effect)
      BY <2>2
    <3>2. log[i] \in Entry
      BY <1>0
    <3>3. log[i].effect \in Effect
      BY <3>2 DEF Entry
    <3> QED
      BY <1>0, <2>2, <3>1, <3>3, ApplyType
  <2> QED
    BY <1>0, <2>1, <2>2 DEF ReplayCall
<1>5. IndexInv' /\ Reached' = Reached
  BY <1>0, <1>1, <1>4, ReplayedIndex
<1>6. SpanInv'
  BY <1>0, <1>1, <1>5 DEF SpanInv
<1>7. LayerInv'
  BY <1>0, <1>1, SameLayer
<1> QED
  BY <1>5, <1>6, <1>7 DEF EffectsInv

LEMMA InitEffects == EffectsInit => EffectsInv
<1> SUFFICES ASSUME EffectsInit PROVE EffectsInv
  OBVIOUS
<1>1. IndexInv /\ SpanInv
  BY InitRestore DEF EffectsInit, RestoreInv
<1>2. /\ base = None /\ Earliest(base) = 0 /\ ~replaying /\ icount = 0
      /\ kernel \in Kernel /\ log = <<>> /\ khist = [i \in 0..0 |-> kernel]
  BY DEF EffectsInit, Init, Earliest
<1>3. Newest = 0
  BY <1>1, <1>2 DEF SpanInv, Newest
<1>4. log \in Seq(Entry) /\ Len(log) = 0 /\ khist \in [0..0 -> Kernel] /\ khist[0] = kernel
  BY <1>2
<1>5. LayerTypeOK /\ LogInOrder
  BY <1>2, <1>3, <1>4 DEF LayerTypeOK, LogInOrder
<1>6. LogTells
  BY <1>2, <1>3, <1>4 DEF LogTells, Tells
<1> QED
  BY <1>1, <1>5, <1>6 DEF EffectsInv, LayerInv

LEMMA NextEffects == EffectsInv /\ [EffectsNext]_effectVars => EffectsInv'
<1> SUFFICES ASSUME EffectsInv, [EffectsNext]_effectVars PROVE EffectsInv'
  OBVIOUS
<1>0. IndexInv /\ SpanInv /\ LayerInv /\ machine \in Machine
  BY DEF EffectsInv, IndexInv, TypeOK
<1>1. CASE Plainly(machine \notin Calls /\ (Execute \/ Fault))
  <2>1. Execute \/ Fault
    BY <1>1 DEF Plainly
  <2> QED
    BY <1>1, <2>1, InstructionStep
<1>2. CASE Plainly(\E p \in Pages, v \in Vals : EditMemory(p, v))
  <2>1. PICK p \in Pages, v \in Vals : EditMemory(p, v)
    BY <1>2 DEF Plainly
  <2>2. [machine EXCEPT !.mem[p] = v] \in Machine /\ {p} \in SUBSET Pages
    BY <1>0 DEF Machine
  <2> QED
    BY <1>2, <2>1, <2>2, EditStep DEF EditMemory
<1>3. CASE Plainly(\E c \in Ctxs : EditRegister(c))
  <2>1. PICK c \in Ctxs : EditRegister(c)
    BY <1>3 DEF Plainly
  <2>2. [machine EXCEPT !.ctx = c] \in Machine /\ {} \in SUBSET Pages
    BY <1>0 DEF Machine
  <2> QED
    BY <1>3, <2>1, <2>2, EditStep DEF EditRegister
<1>4. CASE Call
  BY <1>4, CallStep
<1>5. CASE (\E k \in 0..MaxICount : BeginGoto(k)) /\ UNCHANGED layer
  <2>1. PICK k \in Nat : BeginGoto(k)
    BY <1>5, BoundsAssumption
  <2>2. base' = base /\ hist' = hist /\ layer' = layer
    BY <1>5, <2>1 DEF BeginGoto
  <2>3. IndexInv' /\ SpanInv'
    BY <1>0, <2>1, BeginGotoIndex, BeginGotoSpan
  <2>4. LayerInv'
    BY <1>0, <2>2, SameLayer
  <2> QED
    BY <2>3, <2>4 DEF EffectsInv
<1>6. CASE machine \notin Calls /\ ReplayStep /\ UNCHANGED layer
  <2>1. /\ replaying /\ left > 0 /\ machine' = Exec[machine]
        /\ dirty' = dirty \cup Writes[machine]
        /\ ricount' = ricount + 1 /\ left' = left - 1 /\ layer' = layer
        /\ UNCHANGED <<base, checkpoints, icount, next, replaying, hist>>
    BY <1>6 DEF ReplayStep
  <2>2. machine' \in Machine /\ dirty' \in SUBSET Pages
    BY <1>0, <2>1, ProgramAssumption DEF IndexInv, TypeOK
  <2>3. IndexInv' /\ Reached' = Reached
    BY <1>0, <2>1, <2>2, ReplayedIndex
  <2>4. SpanInv' /\ LayerInv'
    BY <1>0, <2>1, <2>3, SameLayer DEF SpanInv
  <2> QED
    BY <2>3, <2>4 DEF EffectsInv
<1>7. CASE ReplayCall
  BY <1>7, ReplayCallStep
<1>8. CASE EndGotoWithLog
  <2>1. IndexInv' /\ SpanInv'
    BY <1>0, <1>8, EndGotoIndex, EndGotoSpan DEF EndGotoWithLog
  <2> QED
    BY <1>8, <2>1, EndGotoLayer DEF EffectsInv
<1>9. CASE UNCHANGED effectVars
  <2>1. UNCHANGED vars /\ layer' = layer
    BY <1>9 DEF effectVars
  <2>2. /\ base' = base /\ hist' = hist /\ icount' = icount /\ replaying' = replaying
        /\ left' = left /\ ricount' = ricount
    BY <2>1 DEF vars, stored
  <2>3. IndexInv'
    BY <1>0, <2>1, NextIndex
  <2>4. SpanInv' /\ LayerInv'
    BY <1>0, <2>1, <2>2, SameLayer DEF SpanInv, Reached
  <2> QED
    BY <2>3, <2>4 DEF EffectsInv
<1> QED
  BY <1>1, <1>2, <1>3, <1>4, <1>5, <1>6, <1>7, <1>8, <1>9 DEF EffectsNext

LEMMA Layered == EffectsSpec => []EffectsInv
<1> QED
  BY InitEffects, NextEffects, PTL DEF EffectsSpec

\* Between two goes the newest of the layer's states is the one it is in.
LayerIsNow ==
  /\ Earliest(base) \in Nat /\ Newest \in Nat /\ kernel \in Kernel /\ icount \in Nat
  /\ ~replaying => Newest = icount /\ Earliest(base) <= icount /\ khist[Newest] = kernel

LEMMA LayerNow == EffectsInv => LayerIsNow
<1> SUFFICES ASSUME EffectsInv PROVE LayerIsNow
  OBVIOUS
<1>1. /\ Earliest(base) \in Nat /\ Newest \in Nat /\ kernel \in Kernel /\ icount \in Nat
      /\ ~replaying => Newest = icount
      /\ LogInOrder /\ LogTells
  BY EarliestType DEF EffectsInv, LayerInv, LayerTypeOK, SpanInv, IndexInv, TypeOK, Newest
<1>2. ASSUME ~replaying PROVE Earliest(base) <= icount /\ khist[Newest] = kernel
  <2>1. Earliest(base) <= icount
    <3>1. CASE base = None
      BY <1>1, <3>1 DEF Earliest
    <3>2. CASE base # None
      BY <3>2, EarliestBehind DEF EffectsInv
    <3> QED
      BY <3>1, <3>2
  <2>2. Newest \in Earliest(base)..Newest
    BY <1>1, <1>2, <2>1
  <2> QED
    BY <1>1, <2>1, <2>2 DEF LogTells, Tells, LogInOrder
<1> QED
  BY <1>1, <1>2 DEF LayerIsNow

\* Whatever is called, undone and called again, the layer is at every
\* instruction what it was there: what truncate puts back is the state before
\* the oldest call undone (effects.py, truncate; syscalls.py, _restore).
THEOREM LayerRewound == EffectsSpec => []KernelRewound
<1>1. EffectsInv => KernelRewound
  BY LayerNow DEF KernelRewound, LayerIsNow
<1> QED
  BY <1>1, Layered, PTL

\* Each entry is of an instruction of its own that has run and can be undone,
\* later entries of later instructions, and says what the layer was there.
EntriesTell ==
  ~replaying =>
    /\ \A i, j \in DOMAIN log : i < j => log[i].icount < log[j].icount
    /\ \A i \in DOMAIN log :
         /\ log[i].icount \in Earliest(base)..(icount - 1)
         /\ log[i].before = khist[log[i].icount]

LEMMA EntriesToldBy == EffectsInv => EntriesTell
<1> SUFFICES ASSUME EffectsInv, ~replaying PROVE EntriesTell
  BY DEF EntriesTell
<1>1. /\ Newest = icount /\ icount \in Nat /\ Earliest(base) \in Nat /\ LogInOrder /\ LogTells
      /\ log \in Seq(Entry) /\ DOMAIN log = 1..Len(log)
  BY EarliestType DEF EffectsInv, LayerInv, LayerTypeOK, SpanInv, IndexInv, TypeOK, Newest
<1>2. ASSUME NEW i \in 1..Len(log)
      PROVE  /\ log[i].icount \in Earliest(base)..(icount - 1)
             /\ log[i].before = khist[log[i].icount]
  <2>1. log[i] \in Entry
    BY <1>1
  <2>2. PICK k \in Nat : k = log[i].icount
    BY <2>1 DEF Entry
  <2>3. Earliest(base) <= k /\ k < icount
    BY <1>1, <2>2 DEF LogInOrder
  <2>4. k \in Earliest(base)..Newest /\ k \in Earliest(base)..(icount - 1)
    BY <1>1, <2>3
  <2>5. \A j \in 1..(i - 1) : log[j].icount < k
    BY <1>1, <2>2 DEF LogInOrder
  <2>6. Tells(log, kernel, khist, k)
    BY <1>1, <2>4 DEF LogTells
  <2>7. log[i].icount >= k
    BY <2>2
  <2> QED
    BY <2>2, <2>4, <2>5, <2>6, <2>7 DEF Tells
<1> QED
  BY <1>1, <1>2 DEF EntriesTell, LogInOrder

\* This is the part of LogCovers that no program and no layer can break: what
\* forget_before and truncate leave are entries of the history, in order, each
\* with the state to put back (effects.py, forget_before and truncate).
THEOREM EntriesPutBack == EffectsSpec => []EntriesTell
<1> QED
  BY EntriesToldBy, Layered, PTL

----------------------------------------------------------------------------
(* The log holds just the calls of the history, as long as replays meet    *)
(* the calls where they were.                                              *)

HasEntry(lg, i) == \E j \in 1..Len(lg) : lg[j].icount = i

\* Every call of the history has an entry, and every entry is for one.
CoversInv ==
  \A i \in Earliest(base)..(Newest - 1) : hist[i] \in Calls <=> HasEntry(log, i)

\* Where the target stands there is a call just if there was one.
OnTrack == ~replaying => (machine \in Calls <=> hist[icount] \in Calls)

\* Pruning takes away no entry of an instruction that is still reached.
LEMMA PrunedEntries ==
  ASSUME log \in Seq(Entry), NEW e \in Nat, NEW n \in 0..Len(log), Forgotten(n, e),
         NEW ds, WithoutOldest(log, n, ds), NEW i \in Nat, e <= i
  PROVE  HasEntry(ds, i) <=> HasEntry(log, i)
<1>1. /\ Len(ds) = Len(log) - n /\ n \in Nat /\ Len(log) \in Nat /\ n <= Len(log)
      /\ \A j \in 1..(Len(log) - n) : ds[j] = log[n + j]
  BY DEF WithoutOldest
<1>2. ASSUME NEW j \in 1..Len(ds), ds[j].icount = i PROVE HasEntry(log, i)
  <2>1. n + j \in 1..Len(log) /\ ds[j] = log[n + j]
    BY <1>1
  <2> QED
    BY <1>2, <2>1 DEF HasEntry
<1>3. ASSUME NEW j \in 1..Len(log), log[j].icount = i PROVE HasEntry(ds, i)
  <2>1. j \notin 1..n
    <3> SUFFICES ASSUME j \in 1..n PROVE FALSE
      OBVIOUS
    <3>1. log[j].icount < e
      BY DEF Forgotten
    <3> QED
      BY <1>3, <3>1
  <2>2. j - n \in 1..Len(ds) /\ j - n \in 1..(Len(log) - n) /\ n + (j - n) = j
    BY <1>1, <2>1
  <2>3. ds[j - n] = log[j]
    BY <1>1, <2>2
  <2> QED
    BY <1>3, <2>2, <2>3 DEF HasEntry
<1> QED
  BY <1>2, <1>3 DEF HasEntry

\* An entry is for an instruction behind the newest.
LEMMA NoEntryAhead ==
  ASSUME EffectsInv, NEW i \in Nat, Newest <= i PROVE ~ HasEntry(log, i)
<1> SUFFICES ASSUME NEW j \in 1..Len(log), log[j].icount = i PROVE FALSE
  BY DEF HasEntry
<1>1. log[j].icount < Newest /\ Newest \in Nat
  BY DEF EffectsInv, LayerInv, LogInOrder, SpanInv, Newest
<1> QED
  BY <1>1

\* An instruction that is no call, or an edit.
LEMMA PlainCovers ==
  ASSUME EffectsInv, EffectsInv', CoversInv, ~replaying, ~replaying', Remember,
         machine' \in Machine, icount' \in {icount, icount + 1},
         icount' = icount + 1 => hist[icount] \notin Calls,
         Earliest(base) <= Earliest(base'), Earliest(base') <= icount, Earliest(base') \in Nat,
         NEW n \in 0..Len(log), Forgotten(n, Earliest(base')), WithoutOldest(log, n, log')
  PROVE  CoversInv'
<1>0. /\ Newest = icount /\ Newest' = icount' /\ icount \in Nat /\ icount' \in Nat
      /\ Earliest(base) \in Nat /\ log \in Seq(Entry) /\ TypeOK /\ HistInv
  BY EarliestType DEF EffectsInv, LayerInv, LayerTypeOK, SpanInv, IndexInv, TypeOK, Newest
<1>1. icount' = icount \/ icount' = icount + 1
  OBVIOUS
<1>2. \A i \in Earliest(base')..(icount' - 1) : hist'[i] = hist[i]
  BY <1>0, Remembered
<1> SUFFICES ASSUME NEW i \in Earliest(base')..(icount' - 1)
             PROVE  hist'[i] \in Calls <=> HasEntry(log', i)
  BY <1>0 DEF CoversInv
<1>3. i \in Nat /\ Earliest(base') <= i /\ i <= icount' - 1
  <2>1. PICK e \in Nat : e = Earliest(base')
    OBVIOUS
  <2>2. PICK c \in Nat : c = icount'
    BY <1>0
  <2>3. i \in e..(c - 1)
    BY <2>1, <2>2
  <2>4. i \in Nat /\ e <= i /\ i <= c - 1
    BY <2>3
  <2> QED
    BY <2>1, <2>2, <2>4
<1>4. HasEntry(log', i) <=> HasEntry(log, i)
  BY <1>0, <1>3, PrunedEntries
<1>5. CASE i < icount
  <2>1. i \in Earliest(base)..(Newest - 1)
    BY <1>0, <1>3, <1>5
  <2> QED
    BY <1>2, <1>4, <2>1 DEF CoversInv
<1>6. CASE ~(i < icount)
  <2>1. i = icount /\ icount' = icount + 1
    <3>1. CASE icount' = icount
      BY <1>0, <1>3, <1>6, <3>1
    <3>2. CASE icount' = icount + 1
      BY <1>0, <1>3, <1>6, <3>2
    <3> QED
      BY <1>1, <3>1, <3>2
  <2>2. ~ HasEntry(log, i)
    BY <1>0, <1>3, <2>1, NoEntryAhead
  <2> QED
    BY <1>2, <1>4, <2>1, <2>2
<1> QED
  BY <1>5, <1>6

\* A call, and its entry.
LEMMA CallCovers ==
  ASSUME EffectsInv, EffectsInv', CoversInv, ~replaying, ~replaying', Remember,
         machine' \in Machine, icount' = icount + 1, hist[icount] \in Calls,
         Earliest(base) <= Earliest(base'), Earliest(base') <= icount, Earliest(base') \in Nat,
         NEW n \in 0..Len(log), Forgotten(n, Earliest(base')),
         NEW lg, WithoutOldest(log, n, lg),
         NEW e \in Entry, e.icount = icount, WithEntry(lg, e, log')
  PROVE  CoversInv'
<1>0. /\ Newest = icount /\ Newest' = icount + 1 /\ icount \in Nat
      /\ Earliest(base) \in Nat /\ log \in Seq(Entry) /\ TypeOK /\ HistInv
  BY EarliestType DEF EffectsInv, LayerInv, LayerTypeOK, SpanInv, IndexInv, TypeOK, Newest
<1>2. \A i \in Earliest(base')..(icount' - 1) : hist'[i] = hist[i]
  <2>1. icount' \in {icount, icount + 1}
    OBVIOUS
  <2> QED
    BY <1>0, <2>1, Remembered
<1>3. /\ Len(log') = Len(lg) + 1 /\ Len(lg) \in Nat /\ log'[Len(lg) + 1] = e
      /\ \A j \in 1..Len(lg) : log'[j] = lg[j]
  BY DEF WithoutOldest, WithEntry
<1> SUFFICES ASSUME NEW i \in Earliest(base')..icount
             PROVE  hist'[i] \in Calls <=> HasEntry(log', i)
  BY <1>0 DEF CoversInv
<1>4. i \in Nat /\ Earliest(base') <= i /\ i <= icount /\ i \in Earliest(base')..(icount' - 1)
  BY <1>0
<1>5. HasEntry(lg, i) <=> HasEntry(log, i)
  BY <1>0, <1>4, PrunedEntries
<1>6. CASE i = icount
  <2>1. Len(lg) + 1 \in 1..Len(log')
    BY <1>3
  <2>2. HasEntry(log', i)
    BY <1>3, <1>6, <2>1 DEF HasEntry
  <2> QED
    BY <1>2, <1>4, <1>6, <2>2
<1>7. CASE i # icount
  <2>1. i \in Earliest(base)..(Newest - 1)
    BY <1>0, <1>4, <1>7
  <2>2. HasEntry(log', i) <=> HasEntry(lg, i)
    <3>1. ASSUME NEW j \in 1..Len(log'), log'[j].icount = i PROVE HasEntry(lg, i)
      <4>1. j # Len(lg) + 1
        BY <1>3, <1>7, <3>1
      <4>2. j \in 1..Len(lg)
        BY <1>3, <4>1
      <4> QED
        BY <1>3, <3>1, <4>2 DEF HasEntry
    <3>2. ASSUME NEW j \in 1..Len(lg), lg[j].icount = i PROVE HasEntry(log', i)
      <4>1. j \in 1..Len(log')
        BY <1>3
      <4> QED
        BY <1>3, <3>2, <4>1 DEF HasEntry
    <3> QED
      BY <3>1, <3>2 DEF HasEntry
  <2> QED
    BY <1>2, <1>4, <1>5, <2>1, <2>2 DEF CoversInv
<1> QED
  BY <1>6, <1>7

\* Undoing drops the entries of what has not happened, and no other.
LEMMA EndGotoCovers ==
  ASSUME EffectsInv, EffectsInv', CoversInv, EndGotoWithLog
  PROVE  CoversInv'
<1>1. /\ replaying /\ ~replaying' /\ base' = base /\ Truncated(ricount) /\ icount' = ricount
      /\ hist' = [i \in base.icount..ricount |-> hist[i]]
  BY DEF EndGotoWithLog, EndGoto
<1>2. /\ ricount \in Earliest(base)..Newest /\ base.icount \in Nat
      /\ Earliest(base) = base.icount /\ Earliest(base') = base.icount
  BY <1>1, ReplayedWithin DEF EffectsInv, Earliest, Newest
<1>3. Newest' = ricount /\ Newest \in Nat /\ ricount \in Nat /\ log \in Seq(Entry) /\ LogInOrder
  BY <1>1, <1>2 DEF EffectsInv, LayerInv, LayerTypeOK, SpanInv, Newest
<1>4. PICK n \in 0..Len(log) :
        /\ \A i \in (n + 1)..Len(log) : log[i].icount >= ricount
        /\ log' = SubSeq(log, 1, n)
  BY <1>1 DEF Truncated
<1>5. /\ Len(log') = n /\ n \in Nat /\ Len(log) \in Nat /\ n <= Len(log)
      /\ \A i \in 1..n : log'[i] = log[i] /\ i \in 1..Len(log)
  BY <1>3, <1>4
<1> SUFFICES ASSUME NEW i \in base.icount..(ricount - 1)
             PROVE  hist'[i] \in Calls <=> HasEntry(log', i)
  BY <1>2, <1>3 DEF CoversInv
<1>6. /\ i \in Nat /\ i < ricount /\ i \in base.icount..ricount
      /\ i \in Earliest(base)..(Newest - 1)
  BY <1>2, <1>3
<1>7. HasEntry(log', i) <=> HasEntry(log, i)
  <2>1. ASSUME NEW j \in 1..Len(log), log[j].icount = i PROVE HasEntry(log', i)
    <3>1. j \notin (n + 1)..Len(log)
      <4> SUFFICES ASSUME j \in (n + 1)..Len(log) PROVE FALSE
        OBVIOUS
      <4>1. log[j].icount >= ricount
        BY <1>4
      <4> QED
        BY <1>3, <1>6, <2>1, <4>1
    <3>2. j \in 1..n
      BY <1>5, <3>1
    <3> QED
      BY <1>5, <2>1, <3>2 DEF HasEntry
  <2> QED
    BY <1>5, <2>1 DEF HasEntry
<1> QED
  BY <1>1, <1>6, <1>7 DEF CoversInv

LEMMA InitCovers == EffectsInit => CoversInv
<1> SUFFICES ASSUME EffectsInit PROVE CoversInv
  OBVIOUS
<1>1. EffectsInv /\ Earliest(base) = 0 /\ ~replaying /\ icount = 0
  BY InitEffects DEF EffectsInit, Init, Earliest
<1>2. Newest = 0
  BY <1>1 DEF EffectsInv, SpanInv, Newest
<1> QED
  BY <1>1, <1>2 DEF CoversInv

LEMMA NextCovers ==
  ASSUME EffectsInv, EffectsInv', CoversInv, OnTrack, [EffectsNext]_effectVars
  PROVE  CoversInv'
<1>0. /\ IndexInv /\ machine \in Machine /\ log \in Seq(Entry) /\ icount \in Nat
      /\ machine' \in Machine /\ kernel \in Kernel
  BY DEF EffectsInv, IndexInv, TypeOK, LayerInv, LayerTypeOK
<1>1. CASE Plainly(machine \notin Calls /\ (Execute \/ Fault))
  <2>1. PICK n \in 0..Len(log) :
          Forgotten(n, Earliest(base')) /\ log' = SubSeq(log, n + 1, Len(log))
    BY <1>1 DEF Plainly
  <2>2. WithoutOldest(log, n, log')
    BY <1>0, <2>1, Pruned
  <2>3. machine \notin Calls /\ (Execute \/ Fault)
    BY <1>1 DEF Plainly
  <2>4. PICK w \in SUBSET Pages : NoteInstruction(w)
    BY <1>0, <2>3, ProgramAssumption DEF Execute, Fault
  <2>5. /\ ~replaying /\ ~replaying' /\ Remember /\ icount' \in {icount, icount + 1}
    BY <2>3 DEF Execute, Fault, Idle
  <2>6. /\ Earliest(base') \in Nat
        /\ Earliest(base) <= Earliest(base') /\ Earliest(base') <= icount
    BY <1>0, <2>4, <2>5, NoteInstructionEarliest
  <2>7. hist[icount] \notin Calls
    BY <2>3, <2>5 DEF OnTrack
  <2> QED
    BY <1>0, <2>1, <2>2, <2>5, <2>6, <2>7, PlainCovers
<1>2. CASE Plainly(\E p \in Pages, v \in Vals : EditMemory(p, v))
           \/ Plainly(\E c \in Ctxs : EditRegister(c))
  <2>1. PICK n \in 0..Len(log) :
          Forgotten(n, Earliest(base')) /\ log' = SubSeq(log, n + 1, Len(log))
    BY <1>2 DEF Plainly
  <2>2. WithoutOldest(log, n, log')
    BY <1>0, <2>1, Pruned
  <2>3. PICK m \in Machine : \E d : Edited(m, d)
    <3>1. CASE \E p \in Pages, v \in Vals : EditMemory(p, v)
      <4>1. PICK p \in Pages, v \in Vals : EditMemory(p, v)
        BY <3>1
      <4>2. [machine EXCEPT !.mem[p] = v] \in Machine
        BY <1>0 DEF Machine
      <4> QED
        BY <4>1, <4>2 DEF EditMemory
    <3>2. CASE \E c \in Ctxs : EditRegister(c)
      <4>1. PICK c \in Ctxs : EditRegister(c)
        BY <3>2
      <4>2. [machine EXCEPT !.ctx = c] \in Machine
        BY <1>0 DEF Machine
      <4> QED
        BY <4>1, <4>2 DEF EditRegister
    <3> QED
      BY <1>2, <3>1, <3>2 DEF Plainly
  <2>4. PICK d : Edited(m, d)
    BY <2>3
  <2>5. /\ ~replaying /\ ~replaying' /\ Remember /\ icount' = icount
        /\ icount' \in {icount, icount + 1} /\ icount' # icount + 1
    BY <1>0, <2>4 DEF Edited, Idle
  <2>6. /\ Earliest(base') \in Nat
        /\ Earliest(base) <= Earliest(base') /\ Earliest(base') <= icount
    BY <1>0, <2>4, EditedEarliest
  <2> QED
    BY <1>0, <2>1, <2>2, <2>5, <2>6, PlainCovers
<1>4. CASE Call
  <2> DEFINE served == Serve[<<machine, kernel>>]
             entry == [icount |-> icount, effect |-> served.effect, before |-> kernel]
  <2>1. /\ NoteInstruction(Written(served.effect)) /\ icount' = icount + 1 /\ Remember
        /\ ~replaying /\ ~replaying' /\ machine \in Calls
    BY <1>4 DEF Call, Idle
  <2>2. entry \in Entry /\ entry.icount = icount
    <3>1. served.effect \in Effect
      BY <1>0, <2>1, ServeAssumption
    <3> QED
      BY <1>0, <3>1 DEF Entry
  <2>3. PICK n \in 0..Len(log) :
          /\ Forgotten(n, Earliest(base'))
          /\ log' = Append(SubSeq(log, n + 1, Len(log)), entry)
    BY <1>4 DEF Call
  <2> HIDE DEF entry
  <2>4. PICK lg : lg = SubSeq(log, n + 1, Len(log))
    OBVIOUS
  <2>5. WithoutOldest(log, n, lg)
    BY <1>0, <2>4, Pruned
  <2>6. WithEntry(lg, entry, log')
    <3>1. lg \in Seq(Entry)
      BY <2>5 DEF WithoutOldest
    <3>2. WithEntry(lg, entry, Append(lg, entry))
      BY <2>2, <3>1 DEF WithEntry
    <3> QED
      BY <2>3, <2>4, <3>2
  <2>7. /\ Earliest(base') \in Nat
        /\ Earliest(base) <= Earliest(base') /\ Earliest(base') <= icount
    BY <1>0, <2>1, NoteInstructionEarliest
  <2>8. hist[icount] \in Calls
    BY <2>1 DEF OnTrack
  <2> QED
    BY <1>0, <2>1, <2>2, <2>3, <2>5, <2>6, <2>7, <2>8, CallCovers
<1>5. CASE EndGotoWithLog
  BY <1>5, EndGotoCovers
<1>6. CASE \/ (\E k \in 0..MaxICount : BeginGoto(k)) /\ UNCHANGED layer
           \/ machine \notin Calls /\ ReplayStep /\ UNCHANGED layer
           \/ ReplayCall
           \/ UNCHANGED effectVars
  <2>1. base' = base /\ hist' = hist /\ log' = log
    BY <1>6 DEF BeginGoto, ReplayStep, ReplayCall, effectVars, vars, stored, layer
  <2>2. Newest' = Newest
    BY <2>1 DEF Newest
  <2> QED
    BY <2>1, <2>2 DEF CoversInv
<1> QED
  BY <1>1, <1>2, <1>4, <1>5, <1>6 DEF EffectsNext

LEMMA CoversAll == EffectsInv /\ CoversInv => LogCovers
<1> SUFFICES ASSUME EffectsInv, CoversInv, base # None, ~replaying PROVE LogCovers
  BY DEF LogCovers
<1>1. /\ Newest = icount /\ icount \in Nat /\ log \in Seq(Entry) /\ DOMAIN log = 1..Len(log)
      /\ Earliest(base) = base.icount /\ base.icount \in Nat
  <2>1. base \in Checkpoint
    BY DEF EffectsInv, IndexInv, TypeOK
  <2> QED
    BY <2>1 DEF EffectsInv, LayerInv, LayerTypeOK, SpanInv, IndexInv, TypeOK, Newest, Earliest,
                Checkpoint
<1>2. EntriesTell
  BY EntriesToldBy
<1>3. {log[i].icount : i \in DOMAIN log} = {i \in base.icount..(icount - 1) : hist[i] \in Calls}
  <2>1. ASSUME NEW j \in 1..Len(log)
        PROVE  log[j].icount \in base.icount..(icount - 1) /\ hist[log[j].icount] \in Calls
    <3>1. log[j].icount \in base.icount..(icount - 1)
      BY <1>1, <1>2 DEF EntriesTell
    <3> QED
      BY <1>1, <3>1 DEF CoversInv, HasEntry
  <2>2. ASSUME NEW i \in base.icount..(icount - 1), hist[i] \in Calls
        PROVE  \E j \in 1..Len(log) : log[j].icount = i
    BY <1>1, <2>2 DEF CoversInv, HasEntry
  <2> QED
    BY <1>1, <2>1, <2>2
<1> QED
  BY <1>2, <1>3 DEF LogCovers, EntriesTell

\* As long as the target stands at a call just where there was one, the log
\* holds an entry for every call of the history and no other, whatever was
\* called, undone, called again and forgotten (effects.py, record,
\* forget_before and truncate).
THEOREM CallsCovered == EffectsSpec /\ []OnTrack => []LogCovers
<1>1. EffectsInit => CoversInv
  BY InitCovers
<1>2. EffectsInv /\ EffectsInv' /\ CoversInv /\ OnTrack /\ [EffectsNext]_effectVars => CoversInv'
  BY NextCovers
<1>3. EffectsInv /\ CoversInv => LogCovers
  BY CoversAll
<1> QED
  BY <1>1, <1>2, <1>3, Layered, PTL DEF EffectsSpec

----------------------------------------------------------------------------
(* Replays do meet the calls where they were when the program keeps apart  *)
(* what it computes with and what the calls write.                         *)

\* The effect leaves the pages alone.
Spares(effect, own) ==
  \A p \in own : effect.writes[p] = Absent /\ p \notin effect.maps \cup effect.unmaps

\* Where the program goes, and which calls it comes to, depends on registers
\* and on pages that no call touches and that the program has to write in
\* order to map.  (A replay marks no page of those a call writes: if the
\* program read one it could take another way after a second goto.)
KeepsApart(own) ==
  /\ \A m \in Calls, k \in Kernel : Spares(Serve[<<m, k>>].effect, own)
  /\ \A m, n \in Machine : Agree(own, m, n) =>
       /\ m \in Calls <=> n \in Calls
       /\ m \notin Calls => Agree(own, Exec[m], Exec[n])
  /\ \A m \in Machine \ Calls : \A p \in own \ Writes[m] :
       m.mem[p] = Absent => Exec[m].mem[p] = Absent

\* A machine is followed by another: by what the log has of a call, or by what
\* the program does.
Leads(own, lg, i, m, n) ==
  IF m \in Calls
  THEN \A j \in 1..Len(lg) : lg[j].icount = i => Agree(own, Apply(m, lg[j].effect), n)
  ELSE Agree(own, Exec[m], n)

\* As ChainInv: where the history is not what a replay does there was an edit,
\* and there is a checkpoint.
PlayedOn(own) ==
  base # None =>
    \A i \in base.icount..(Reached - 1) :
      \/ Leads(own, log, i, hist[i], hist[i + 1])
      \/ \E n \in 1..Len(checkpoints) : checkpoints[n].icount = i + 1

EntriesSpare(own, lg) == \A j \in 1..Len(lg) : Spares(lg[j].effect, own)

\* A log has the entries of another, as far as those of instruction i go.
EntriesFrom(lg, old, i) ==
  \A j \in 1..Len(lg) : lg[j].icount = i => \E k \in 1..Len(old) : lg[j] = old[k]

ApartInv(own) == StoredOn(own) /\ EntriesSpare(own, log) /\ PlayedOn(own)

\* What a call leaves on pages it spares is what was there.
LEMMA ApplySpares ==
  ASSUME NEW own \in SUBSET Pages, NEW effect \in Effect, Spares(effect, own),
         NEW m \in Machine, NEW n \in Machine
  PROVE  /\ \A p \in own : Apply(m, effect).mem[p] = m.mem[p]
         /\ Agree(own, m, n) => Agree(own, Apply(m, effect), Apply(n, effect))
<1>1. \A l \in Machine : \A p \in own : Apply(l, effect).mem[p] = l.mem[p]
  <2> TAKE l \in Machine
  <2> TAKE p \in own
  <2>1. p \in Pages /\ effect.writes[p] = Absent /\ p \notin effect.maps /\ p \notin effect.unmaps
    BY DEF Spares
  <2>2. (p \in (Mapped(l.mem) \cup effect.maps) \ effect.unmaps) <=> l.mem[p] # Absent
    BY <2>1 DEF Mapped
  <2> QED
    BY <2>1, <2>2 DEF Apply
<1>2. Apply(m, effect).ctx = effect.ctx /\ Apply(n, effect).ctx = effect.ctx
  BY DEF Apply
<1> QED
  BY <1>1, <1>2 DEF Agree

\* What leads from one machine to another leads from one like the first to one
\* like the second, with no entries but those.
LEMMA LeadsAgree ==
  ASSUME NEW own \in SUBSET Pages, KeepsApart(own), NEW lg \in Seq(Entry), EntriesSpare(own, lg),
         NEW i, NEW m \in Machine, NEW n, Leads(own, lg, i, m, n),
         NEW ds, EntriesFrom(ds, lg, i),
         NEW m2 \in Machine, NEW n2, Agree(own, m2, m), Agree(own, n2, n)
  PROVE  Leads(own, ds, i, m2, n2)
<1>1. /\ m2 \in Calls <=> m \in Calls
      /\ m2 \notin Calls => Agree(own, Exec[m2], Exec[m])
  BY DEF KeepsApart
<1>2. CASE m \notin Calls
  <2>1. Agree(own, Exec[m], n)
    BY <1>2 DEF Leads
  <2>2. Agree(own, Exec[m2], n2)
    BY <1>1, <1>2, <2>1 DEF Agree
  <2> QED
    BY <1>1, <1>2, <2>2 DEF Leads
<1>3. CASE m \in Calls
  <2>1. ASSUME NEW j \in 1..Len(ds), ds[j].icount = i
        PROVE  Agree(own, Apply(m2, ds[j].effect), n2)
    <3>1. PICK k \in 1..Len(lg) : ds[j] = lg[k]
      BY <2>1 DEF EntriesFrom
    <3>2. lg[k] \in Entry
      OBVIOUS
    <3>3. lg[k].effect \in Effect /\ lg[k].icount = i /\ Spares(lg[k].effect, own)
      BY <2>1, <3>1, <3>2 DEF Entry, EntriesSpare
    <3>4. Agree(own, Apply(m2, lg[k].effect), Apply(m, lg[k].effect))
      BY <3>3, ApplySpares
    <3>5. Agree(own, Apply(m, lg[k].effect), n)
      BY <1>3, <3>3 DEF Leads
    <3> QED
      BY <3>1, <3>4, <3>5 DEF Agree
  <2> QED
    BY <1>1, <1>3, <2>1 DEF Leads
<1> QED
  BY <1>2, <1>3

\* A log with none but old entries.
LEMMA OldEntries ==
  ASSUME NEW lg, NEW ds, \A j \in 1..Len(ds) : \E k \in 1..Len(lg) : ds[j] = lg[k]
  PROVE  /\ \A own : EntriesSpare(own, lg) => EntriesSpare(own, ds)
         /\ \A i : EntriesFrom(ds, lg, i)
<1>1. \A i : EntriesFrom(ds, lg, i)
  BY DEF EntriesFrom
<1>2. ASSUME NEW own, EntriesSpare(own, lg) PROVE EntriesSpare(own, ds)
  <2> SUFFICES ASSUME NEW j \in 1..Len(ds) PROVE Spares(ds[j].effect, own)
    BY DEF EntriesSpare
  <2>1. PICK k \in 1..Len(lg) : ds[j] = lg[k]
    OBVIOUS
  <2> QED
    BY <1>2, <2>1 DEF EntriesSpare
<1> QED
  BY <1>1, <1>2

\* Pruning and truncating leave old entries.
LEMMA OldAfterDrop ==
  ASSUME log \in Seq(Entry), NEW n \in 0..Len(log), NEW ds, WithoutOldest(log, n, ds)
  PROVE  /\ \A own : EntriesSpare(own, log) => EntriesSpare(own, ds)
         /\ \A i : EntriesFrom(ds, log, i)
<1>1. \A j \in 1..Len(ds) : \E k \in 1..Len(log) : ds[j] = log[k]
  <2> TAKE j \in 1..Len(ds)
  <2>1. j \in 1..(Len(log) - n) /\ n + j \in 1..Len(log)
    BY DEF WithoutOldest
  <2>2. ds[j] = log[n + j]
    BY <2>1 DEF WithoutOldest
  <2> QED
    BY <2>1, <2>2
<1> QED
  BY <1>1, OldEntries

LEMMA OldAfterCut ==
  ASSUME log \in Seq(Entry), NEW n \in 0..Len(log), NEW ds, ds = SubSeq(log, 1, n)
  PROVE  /\ \A own : EntriesSpare(own, log) => EntriesSpare(own, ds)
         /\ \A i : EntriesFrom(ds, log, i)
<1>1. \A j \in 1..Len(ds) : \E k \in 1..Len(log) : ds[j] = log[k]
  <2> TAKE j \in 1..Len(ds)
  <2>1. j \in 1..n /\ j \in 1..Len(log) /\ ds[j] = log[j]
    OBVIOUS
  <2> QED
    BY <2>1
<1> QED
  BY <1>1, OldEntries

\* A run's next instruction leads where it should, and what was edited before
\* it keeps its checkpoint.
LEMMA InstructionPlayed ==
  ASSUME EffectsInv, NEW own \in SUBSET Pages, KeepsApart(own), ApartInv(own),
         ~replaying, replaying' = FALSE,
         NEW w \in SUBSET Pages, NoteInstruction(w), Remember, machine' \in Machine,
         icount' \in {icount, icount + 1}, icount' = icount => machine' = machine,
         log' \in Seq(Entry), EntriesSpare(own, log'),
         \A i \in Nat : i < icount => EntriesFrom(log', log, i),
         icount' = icount + 1 => Leads(own, log', icount, machine, machine')
  PROVE  PlayedOn(own)'
<1>0. /\ IndexInv /\ SpanInv /\ TypeOK /\ FreshInv /\ PaceInv /\ icount \in Nat
      /\ machine \in Machine /\ log \in Seq(Entry) /\ NowOn(own) /\ EntriesSpare(own, log)
      /\ PlayedOn(own)
  BY DEF EffectsInv, IndexInv, TypeOK, LayerInv, LayerTypeOK, ApartInv, StoredOn
<1>1. /\ Earliest(base) \in Nat /\ Earliest(base') \in Nat
      /\ Earliest(base) <= Earliest(base') /\ Earliest(base') <= icount
      /\ base' \in Checkpoint
  BY <1>0, NoteInstructionEarliest
<1>2. /\ NowInv' /\ SpanInv'
  BY <1>0, <1>1, RememberKeeps
<1>3. ASSUME NEW i \in Earliest(base')..icount
      PROVE  /\ Agree(own, hist'[i], hist[i])
             /\ i = icount => Agree(own, hist'[i], machine)
  BY <1>0, <1>1, RememberAgrees
<1>4. base' # None /\ Earliest(base') = base'.icount /\ base'.icount \in Nat
  BY <1>1, NoneIsNoCheckpoint DEF Earliest, Checkpoint
<1>5. hist'[icount'] = machine' /\ Reached' = icount' /\ icount' \in Nat
      /\ hist \in [Earliest(base)..icount -> Machine]
      /\ hist' \in [Earliest(base')..icount' -> Machine]
  BY <1>0, <1>2 DEF NowInv, SpanInv, Reached
<1>6. icount' = icount \/ icount' = icount + 1
  OBVIOUS
<1> SUFFICES ASSUME NEW i \in base'.icount..(icount' - 1)
             PROVE  \/ Leads(own, log', i, hist'[i], hist'[i + 1])
                    \/ \E n \in 1..Len(checkpoints') : checkpoints'[n].icount = i + 1
  BY <1>4, <1>5 DEF PlayedOn
<1>7. i \in Nat /\ i <= icount /\ i <= icount' - 1
  <2>1. CASE icount' = icount
    BY <1>0, <1>4, <2>1
  <2>2. CASE icount' = icount + 1
    BY <1>0, <1>4, <2>2
  <2> QED
    BY <1>6, <2>1, <2>2
<1>8. i \in Earliest(base')..icount /\ hist'[i] \in Machine
  BY <1>1, <1>4, <1>5, <1>7
<1>9. CASE i = icount
  <2>1. icount' = icount + 1
    <3>1. icount \in Nat /\ icount' \in Nat /\ icount <= icount' - 1
      BY <1>0, <1>5, <1>7, <1>9
    <3>2. ASSUME icount' = icount PROVE FALSE
      BY <3>1, <3>2
    <3> QED
      BY <1>6, <3>2
  <2>2. Agree(own, hist'[i], machine) /\ Agree(own, hist'[i + 1], machine')
    BY <1>3, <1>5, <1>8, <1>9, <2>1 DEF Agree
  <2>3. Leads(own, log', i, machine, machine') /\ EntriesFrom(log', log', i)
    BY <1>9, <2>1 DEF EntriesFrom
  <2>4. Leads(own, log', i, hist'[i], hist'[i + 1])
    BY <1>0, <1>8, <2>2, <2>3, LeadsAgree
  <2> QED
    BY <2>4
<1>10. CASE i # icount
  <2>1. /\ i \in Earliest(base')..icount /\ i + 1 \in Earliest(base')..icount
        /\ i \in Earliest(base)..(icount - 1) /\ i + 1 \in Nat /\ base'.icount <= i /\ i < icount
        /\ i \in Earliest(base)..icount
    BY <1>0, <1>1, <1>4, <1>7, <1>10
  <2>2. Agree(own, hist'[i], hist[i]) /\ Agree(own, hist'[i + 1], hist[i + 1])
    BY <1>3, <2>1
  <2>3. base # None
    <3>1. icount # 0
      BY <1>0, <1>7, <1>10
    <3> QED
      BY <1>0, <3>1 DEF FreshInv
  <2>4. \/ Leads(own, log, i, hist[i], hist[i + 1])
        \/ \E n \in 1..Len(checkpoints) : checkpoints[n].icount = i + 1
    BY <1>0, <2>1, <2>3 DEF PlayedOn, Reached, Earliest
  <2>5. CASE Leads(own, log, i, hist[i], hist[i + 1])
    <3>1. hist[i] \in Machine /\ EntriesFrom(log', log, i)
      BY <1>5, <1>7, <2>1
    <3> QED
      BY <1>0, <1>8, <2>2, <2>5, <3>1, LeadsAgree
  <2>6. CASE \E n \in 1..Len(checkpoints) : checkpoints[n].icount = i + 1
    <3>1. CASE icount >= next
      <4>1. TakeCheckpoint(icount, machine, dirty)
        BY <3>1 DEF NoteInstruction
      <4> QED
        BY <1>0, <1>7, <2>1, <2>3, <2>6, <4>1, TakesMarks
    <3>2. CASE ~(icount >= next)
      BY <2>6, <3>2 DEF NoteInstruction
    <3> QED
      BY <3>1, <3>2
  <2> QED
    BY <2>4, <2>5, <2>6
<1> QED
  BY <1>9, <1>10

\* As EditedChained.
LEMMA EditedPlayed ==
  ASSUME EffectsInv, NEW own \in SUBSET Pages, KeepsApart(own), ApartInv(own),
         NEW m \in Machine, NEW d \in SUBSET Pages, Edited(m, d),
         \A i : EntriesFrom(log', log, i)
  PROVE  PlayedOn(own)'
<1>0. /\ IndexInv /\ SpanInv /\ TypeOK /\ FreshInv /\ PaceInv /\ icount \in Nat
      /\ log \in Seq(Entry) /\ EntriesSpare(own, log) /\ PlayedOn(own)
  BY DEF EffectsInv, IndexInv, TypeOK, LayerInv, LayerTypeOK, ApartInv
<1>1. /\ ~replaying /\ replaying' = FALSE /\ machine' = m /\ icount' = icount /\ Remember
      /\ icount' \in {icount, icount + 1}
  BY DEF Edited, Idle
<1>2. /\ Earliest(base) \in Nat /\ Earliest(base') \in Nat
      /\ Earliest(base) <= Earliest(base') /\ Earliest(base') <= icount
  BY <1>0, EditedEarliest
<1>3. \A i \in Earliest(base')..(icount - 1) : hist'[i] = hist[i]
  BY <1>0, <1>1, <1>2, RememberKeeps
<1>4. hist \in [Earliest(base)..icount -> Machine]
  BY <1>0, <1>1 DEF SpanInv
<1> SUFFICES ASSUME base' # None, NEW i \in base'.icount..(icount - 1)
             PROVE  \/ Leads(own, log', i, hist'[i], hist'[i + 1])
                    \/ \E n \in 1..Len(checkpoints') : checkpoints'[n].icount = i + 1
  BY <1>1 DEF PlayedOn, Reached
<1>5. base # None
  BY <1>0, <1>2 DEF Edited
<1>6. TakeCheckpoint(icount, m, dirty \cup d)
  BY <1>5 DEF Edited
<1>7. Earliest(base') = base'.icount /\ i \in Nat /\ base'.icount <= i /\ i <= icount - 1
  BY <1>0, <1>2 DEF Earliest
<1>8. CASE i + 1 = icount
  BY <1>0, <1>1, <1>5, <1>6, <1>7, <1>8, TakesMarks
<1>9. CASE i + 1 # icount
  <2>1. /\ i \in Earliest(base')..(icount - 1) /\ i + 1 \in Earliest(base')..(icount - 1)
        /\ i \in Earliest(base)..(icount - 1) /\ i \in Earliest(base)..icount
    BY <1>0, <1>2, <1>7, <1>9
  <2>2. hist'[i] = hist[i] /\ hist'[i + 1] = hist[i + 1] /\ hist[i] \in Machine
    BY <1>3, <1>4, <2>1
  <2>3. \/ Leads(own, log, i, hist[i], hist[i + 1])
        \/ \E n \in 1..Len(checkpoints) : checkpoints[n].icount = i + 1
    BY <1>0, <1>1, <1>5, <2>1 DEF PlayedOn, Reached, Earliest
  <2>4. CASE Leads(own, log, i, hist[i], hist[i + 1])
    <3>1. Agree(own, hist[i], hist[i]) /\ Agree(own, hist[i + 1], hist[i + 1])
      BY AgreeSame
    <3>2. Leads(own, log', i, hist[i], hist[i + 1])
      BY <1>0, <2>2, <2>4, <3>1, LeadsAgree
    <3> QED
      BY <2>2, <3>2
  <2>5. CASE \E n \in 1..Len(checkpoints) : checkpoints[n].icount = i + 1
    BY <1>0, <1>1, <1>5, <1>6, <1>7, <2>5, TakesMarks
  <2> QED
    BY <2>3, <2>4, <2>5
<1> QED
  BY <1>8, <1>9

\* An instruction that is no call, completed or refused.
LEMMA InstructionApart ==
  ASSUME EffectsInv, EffectsInv', NEW own \in SUBSET Pages, KeepsApart(own), ApartInv(own),
         NEW s, Plainly(s), machine \notin Calls, Execute \/ Fault
  PROVE  ApartInv(own)'
<1>0. /\ IndexInv /\ machine \in Machine /\ icount \in Nat /\ log \in Seq(Entry)
      /\ log' \in Seq(Entry) /\ machine' \in Machine /\ StoredOn(own) /\ EntriesSpare(own, log)
  BY DEF EffectsInv, IndexInv, TypeOK, LayerInv, LayerTypeOK, ApartInv
<1>1. PICK n \in 0..Len(log) : log' = SubSeq(log, n + 1, Len(log))
  BY DEF Plainly
<1>2. EntriesSpare(own, log') /\ \A i : EntriesFrom(log', log, i)
  <2>1. WithoutOldest(log, n, log')
    BY <1>0, <1>1, Pruned
  <2> QED
    BY <1>0, <2>1, OldAfterDrop
<1>3. PICK w \in SUBSET Pages :
        /\ NoteInstruction(w)
        /\ \A p \in (own \cap Mapped(machine'.mem)) \ w : machine'.mem[p] = machine.mem[p]
  <2>1. CASE Execute
    <3>1. /\ machine' = Exec[machine] /\ NoteInstruction(Writes[machine])
          /\ Writes[machine] \in SUBSET Pages
      BY <1>0, <2>1, ProgramAssumption DEF Execute
    <3>2. \A p \in (own \cap Mapped(machine'.mem)) \ Writes[machine] :
            machine'.mem[p] = machine.mem[p]
      BY <1>0, <3>1, ProgramAssumption DEF Mapped, KeepsApart
    <3> QED
      BY <3>1, <3>2
  <2>2. CASE Fault
    <3>1. NoteInstruction({}) /\ machine' = machine /\ {} \in SUBSET Pages
      BY <2>2 DEF Fault
    <3> QED
      BY <3>1
  <2> QED
    BY <2>1, <2>2
<1>4. /\ ~replaying /\ replaying' = FALSE /\ Remember /\ icount' \in {icount, icount + 1}
      /\ icount' = icount => machine' = machine
      /\ icount' = icount + 1 => machine' = Exec[machine]
  BY <1>0 DEF Execute, Fault, Idle
<1>5. icount' = icount + 1 => Leads(own, log', icount, machine, machine')
  BY <1>4 DEF Leads, Agree
<1>6. StoredOn(own)'
  BY <1>0, <1>3, <1>4, InstructionStored
<1>7. PlayedOn(own)'
  BY <1>0, <1>2, <1>3, <1>4, <1>5, InstructionPlayed
<1> QED
  BY <1>2, <1>6, <1>7 DEF ApartInv

LEMMA EditApart ==
  ASSUME EffectsInv, NEW own \in SUBSET Pages, KeepsApart(own), ApartInv(own),
         NEW s, Plainly(s), NEW m \in Machine, NEW d \in SUBSET Pages, Edited(m, d),
         \A p \in (own \cap Mapped(m.mem)) \ d : m.mem[p] = machine.mem[p]
  PROVE  ApartInv(own)'
<1>0. /\ IndexInv /\ log \in Seq(Entry) /\ StoredOn(own) /\ EntriesSpare(own, log)
  BY DEF EffectsInv, LayerInv, LayerTypeOK, ApartInv
<1>1. PICK n \in 0..Len(log) : log' = SubSeq(log, n + 1, Len(log))
  BY DEF Plainly
<1>2. EntriesSpare(own, log') /\ \A i : EntriesFrom(log', log, i)
  <2>1. WithoutOldest(log, n, log')
    BY <1>0, <1>1, Pruned
  <2> QED
    BY <1>0, <2>1, OldAfterDrop
<1>3. StoredOn(own)'
  BY <1>0, EditedStored
<1>4. PlayedOn(own)'
  BY <1>2, EditedPlayed
<1> QED
  BY <1>2, <1>3, <1>4 DEF ApartInv

\* A call made by a run: it leaves what it spares, and its entry says so.
LEMMA CallApart ==
  ASSUME EffectsInv, EffectsInv', NEW own \in SUBSET Pages, KeepsApart(own), ApartInv(own), Call
  PROVE  ApartInv(own)'
<1> DEFINE served == Serve[<<machine, kernel>>]
           entry == [icount |-> icount, effect |-> served.effect, before |-> kernel]
<1>0. /\ IndexInv /\ SpanInv /\ machine \in Machine /\ icount \in Nat /\ kernel \in Kernel
      /\ log \in Seq(Entry) /\ log' \in Seq(Entry) /\ machine' \in Machine
      /\ StoredOn(own) /\ EntriesSpare(own, log) /\ machine \in Calls
  BY DEF EffectsInv, IndexInv, TypeOK, LayerInv, LayerTypeOK, ApartInv, Call
<1>1. served.effect \in Effect /\ Spares(served.effect, own)
  BY <1>0, ServeAssumption DEF KeepsApart
<1>2. entry \in Entry /\ entry.icount = icount /\ entry.effect = served.effect
  BY <1>0, <1>1 DEF Entry
<1>3. /\ NoteInstruction(Written(served.effect)) /\ machine' = Apply(machine, served.effect)
      /\ icount' = icount + 1 /\ Remember /\ icount' \in {icount, icount + 1}
      /\ ~replaying /\ replaying' = FALSE /\ icount' # icount
  BY <1>0 DEF Call, Idle
<1>4. PICK n \in 0..Len(log) :
        log' = Append(SubSeq(log, n + 1, Len(log)), entry)
  BY DEF Call
<1> HIDE DEF entry, served
<1>5. PICK e : e = served.effect
  OBVIOUS
<1>6. PICK lg : lg = SubSeq(log, n + 1, Len(log))
  OBVIOUS
<1>7. WithoutOldest(log, n, lg) /\ lg \in Seq(Entry)
  BY <1>0, <1>6, Pruned DEF WithoutOldest
<1>8. EntriesSpare(own, lg) /\ \A i : EntriesFrom(lg, log, i)
  BY <1>0, <1>7, OldAfterDrop
<1>9. Len(log') = Len(lg) + 1 /\ log'[Len(lg) + 1] = entry /\ \A j \in 1..Len(lg) : log'[j] = lg[j]
  <2>1. WithEntry(lg, entry, Append(lg, entry))
    BY <1>2, <1>7 DEF WithEntry
  <2>2. log' = Append(lg, entry)
    BY <1>4, <1>6
  <2> QED
    BY <2>1, <2>2 DEF WithEntry
<1>10. EntriesSpare(own, log')
  <2> SUFFICES ASSUME NEW j \in 1..Len(log') PROVE Spares(log'[j].effect, own)
    BY DEF EntriesSpare
  <2>1. CASE j = Len(lg) + 1
    BY <1>1, <1>2, <1>9, <2>1
  <2>2. CASE j # Len(lg) + 1
    <3>1. j \in 1..Len(lg)
      BY <1>7, <1>9, <2>2
    <3> QED
      BY <1>8, <1>9, <3>1 DEF EntriesSpare
  <2> QED
    BY <2>1, <2>2
<1>11. ASSUME NEW i \in Nat, i < icount PROVE EntriesFrom(log', log, i)
  <2> SUFFICES ASSUME NEW j \in 1..Len(log'), log'[j].icount = i
               PROVE  \E k \in 1..Len(log) : log'[j] = log[k]
    BY DEF EntriesFrom
  <2>1. j # Len(lg) + 1
    BY <1>0, <1>2, <1>9, <1>11
  <2>2. j \in 1..Len(lg)
    BY <1>7, <1>9, <2>1
  <2>3. log'[j] = lg[j] /\ lg[j].icount = i
    BY <1>9, <2>2
  <2> QED
    BY <1>8, <2>2, <2>3 DEF EntriesFrom
<1>12. Leads(own, log', icount, machine, machine')
  <2> SUFFICES ASSUME NEW j \in 1..Len(log'), log'[j].icount = icount
               PROVE  Agree(own, Apply(machine, log'[j].effect), machine')
    BY <1>0 DEF Leads
  <2>1. ~ HasEntry(log, icount)
    <3>1. Newest <= icount
      BY <1>0, <1>3 DEF SpanInv, Newest
    <3> QED
      BY <1>0, <3>1, NoEntryAhead
  <2>2. j = Len(lg) + 1
    <3> SUFFICES ASSUME j # Len(lg) + 1 PROVE FALSE
      OBVIOUS
    <3>1. j \in 1..Len(lg)
      BY <1>7, <1>9
    <3>2. lg[j].icount = icount
      BY <1>9, <3>1
    <3>3. PICK k \in 1..Len(log) : lg[j] = log[k]
      BY <1>8, <3>1, <3>2 DEF EntriesFrom
    <3> QED
      BY <2>1, <3>2, <3>3 DEF HasEntry
  <2>3. log'[j].effect = served.effect
    BY <1>2, <1>9, <2>2
  <2> QED
    BY <1>3, <2>3 DEF Agree
<1>13. StoredOn(own)'
  <2>1. \A p \in (own \cap Mapped(machine'.mem)) \ Written(e) : machine'.mem[p] = machine.mem[p]
    BY <1>0, <1>1, <1>3, <1>5, ApplySpares
  <2>2. Written(e) \in SUBSET Pages
    BY DEF Written
  <2> QED
    BY <1>0, <1>3, <1>5, <2>1, <2>2, InstructionStored
<1>14. PlayedOn(own)'
  <2>1. Written(e) \in SUBSET Pages
    BY DEF Written
  <2> QED
    BY <1>0, <1>3, <1>5, <1>10, <1>11, <1>12, <2>1, InstructionPlayed
<1> QED
  BY <1>10, <1>13, <1>14 DEF ApartInv

\* The start of a goto drops what is after the instruction wanted only.
LEMMA BeginGotoApart ==
  ASSUME EffectsInv, NEW own \in SUBSET Pages, ApartInv(own), NEW k \in Nat, BeginGoto(k),
         layer' = layer
  PROVE  ApartInv(own)'
<1>0. IndexInv /\ StoredOn(own) /\ EntriesSpare(own, log) /\ PlayedOn(own) /\ log' = log
  BY DEF EffectsInv, ApartInv, layer
<1>1. /\ ~replaying /\ base # None /\ base.icount <= k /\ k <= icount /\ replaying' = TRUE
      /\ base' = base /\ hist' = hist
  BY DEF BeginGoto
<1>2. PICK n \in 0..Len(checkpoints) :
        /\ Reaches(n, k)
        /\ checkpoints' = SubSeq(checkpoints, 1, n)
        /\ ricount' = Latest(n).icount
        /\ left' = k - Latest(n).icount
  BY DEF BeginGoto
<1>3. Latest(n).icount \in Nat
  BY <1>0, <1>1, <1>2, ReachedClose
<1>4. Reached = icount /\ Reached' = k /\ icount \in Nat
  BY <1>0, <1>1, <1>2, <1>3 DEF Reached, IndexInv, TypeOK
<1>5. PlayedOn(own)'
  <2> SUFFICES ASSUME NEW i \in base.icount..(k - 1)
               PROVE  \/ Leads(own, log, i, hist[i], hist[i + 1])
                      \/ \E m \in 1..Len(checkpoints') : checkpoints'[m].icount = i + 1
    BY <1>0, <1>1, <1>4 DEF PlayedOn
  <2>1. base.icount \in Nat
    BY <1>0, <1>1 DEF IndexInv, TypeOK, Checkpoint
  <2>2. i \in base.icount..(icount - 1) /\ i + 1 <= k /\ i \in Nat
    BY <1>1, <1>4, <2>1
  <2>3. CASE \E m \in 1..Len(checkpoints) : checkpoints[m].icount = i + 1
    BY <1>0, <1>1, <1>2, <2>2, <2>3, MarksBefore
  <2>4. CASE Leads(own, log, i, hist[i], hist[i + 1])
    BY <2>4
  <2> QED
    BY <1>0, <1>1, <1>4, <2>2, <2>3, <2>4 DEF PlayedOn
<1>6. StoredOn(own)'
  BY <1>0, BeginGotoStored
<1> QED
  BY <1>0, <1>5, <1>6 DEF ApartInv

\* A replay meets a call just where there was one, and goes on as the program
\* did, on the pages that matter.
LEMMA ReplayMeets ==
  ASSUME EffectsInv, NEW own \in SUBSET Pages, KeepsApart(own), ApartInv(own), replaying, left > 0
  PROVE  /\ machine \in Calls <=> hist[ricount] \in Calls
         /\ machine \notin Calls => Agree(own, Exec[machine], hist[ricount + 1])
         /\ machine \in Calls =>
              \A j \in 1..Len(log) : log[j].icount = ricount =>
                Agree(own, Apply(machine, log[j].effect), hist[ricount + 1])
<1>0. /\ IndexInv /\ SpanInv /\ machine \in Machine /\ log \in Seq(Entry)
      /\ NowOn(own) /\ EntriesSpare(own, log) /\ PlayedOn(own)
  BY DEF EffectsInv, IndexInv, TypeOK, LayerInv, LayerTypeOK, ApartInv, StoredOn
<1>1. /\ ricount \in base.icount..(Reached - 1) /\ base # None
      /\ \A n \in 1..Len(checkpoints) : checkpoints[n].icount # ricount + 1
  BY <1>0, NoMarkAhead
<1>2. Agree(own, machine, hist[ricount]) /\ hist[ricount] \in Machine
  BY <1>0, ReplayedWithin DEF NowOn, SpanInv
<1>3. Leads(own, log, ricount, hist[ricount], hist[ricount + 1])
  BY <1>0, <1>1 DEF PlayedOn
<1>4. Agree(own, hist[ricount + 1], hist[ricount + 1]) /\ EntriesFrom(log, log, ricount)
  BY AgreeSame DEF EntriesFrom
<1>5. Leads(own, log, ricount, machine, hist[ricount + 1])
  BY <1>0, <1>2, <1>3, <1>4, LeadsAgree
<1>6. machine \in Calls <=> hist[ricount] \in Calls
  BY <1>0, <1>2 DEF KeepsApart
<1> QED
  BY <1>5, <1>6 DEF Leads

\* One instruction or call of a replay.
LEMMA ReplayedApart ==
  ASSUME EffectsInv, NEW own \in SUBSET Pages, ApartInv(own), replaying, left > 0,
         NEW w, dirty' = dirty \cup w, ricount' = ricount + 1, left' = left - 1, layer' = layer,
         UNCHANGED <<base, checkpoints, replaying, hist>>,
         \A p \in (own \cap Mapped(machine'.mem)) \ w : machine'.mem[p] = machine.mem[p],
         Agree(own, machine', hist[ricount + 1])
  PROVE  ApartInv(own)'
<1>0. /\ IndexInv /\ StoredOn(own) /\ EntriesSpare(own, log) /\ PlayedOn(own) /\ log' = log
      /\ ricount \in Nat /\ left \in Nat
  BY DEF EffectsInv, IndexInv, TypeOK, ApartInv, layer
<1>1. StoredOn(own)'
  BY <1>0, ReplayedStored
<1>2. Reached' = Reached
  BY <1>0 DEF Reached
<1>3. PlayedOn(own)'
  BY <1>0, <1>2 DEF PlayedOn
<1> QED
  BY <1>0, <1>1, <1>3 DEF ApartInv

\* The end of a goto forgets what comes after the instruction reached.
LEMMA EndGotoApart ==
  ASSUME EffectsInv, NEW own \in SUBSET Pages, KeepsApart(own), ApartInv(own), EndGotoWithLog
  PROVE  ApartInv(own)'
<1>0. /\ IndexInv /\ SpanInv /\ StoredOn(own) /\ EntriesSpare(own, log) /\ PlayedOn(own)
      /\ EndGoto /\ log \in Seq(Entry)
  BY DEF EffectsInv, LayerInv, LayerTypeOK, ApartInv, EndGotoWithLog
<1>1. PICK n \in 0..Len(log) : log' = SubSeq(log, 1, n)
  BY DEF EndGotoWithLog, Truncated
<1>2. EntriesSpare(own, log') /\ \A i : EntriesFrom(log', log, i)
  <2>1. PICK ds : ds = SubSeq(log, 1, n)
    OBVIOUS
  <2>2. EntriesSpare(own, ds) /\ \A i : EntriesFrom(ds, log, i)
    BY <1>0, <2>1, OldAfterCut
  <2> QED
    BY <1>1, <2>1, <2>2
<1>3. /\ replaying /\ left = 0 /\ replaying' = FALSE /\ icount' = ricount
      /\ hist' = [i \in base.icount..ricount |-> hist[i]]
      /\ UNCHANGED <<machine, base, checkpoints, dirty, left, ricount>>
  BY <1>0 DEF EndGoto
<1>4. /\ base # None /\ base.icount \in Nat /\ ricount \in Nat
      /\ hist \in [base.icount..Max(DOMAIN hist) -> Machine]
      /\ ricount \in base.icount..Max(DOMAIN hist) /\ Max(DOMAIN hist) \in Nat
  BY <1>0, <1>3, ReplayedWithin DEF IndexInv, TypeOK, SpanInv
<1>5. Reached = ricount /\ Reached' = ricount
  BY <1>3, <1>4 DEF Reached
<1>6. PlayedOn(own)'
  <2> SUFFICES ASSUME NEW i \in base.icount..(ricount - 1)
               PROVE  \/ Leads(own, log', i, hist'[i], hist'[i + 1])
                      \/ \E n1 \in 1..Len(checkpoints) : checkpoints[n1].icount = i + 1
    BY <1>3, <1>5 DEF PlayedOn
  <2>1. /\ i \in base.icount..ricount /\ i + 1 \in base.icount..ricount
        /\ i \in base.icount..Max(DOMAIN hist)
    BY <1>4
  <2>2. /\ hist'[i] = hist[i] /\ hist'[i + 1] = hist[i + 1] /\ hist[i] \in Machine
    BY <1>3, <1>4, <2>1
  <2>3. \/ Leads(own, log, i, hist[i], hist[i + 1])
        \/ \E n1 \in 1..Len(checkpoints) : checkpoints[n1].icount = i + 1
    BY <1>0, <1>4, <1>5 DEF PlayedOn
  <2>4. ASSUME Leads(own, log, i, hist[i], hist[i + 1])
        PROVE  Leads(own, log', i, hist'[i], hist'[i + 1])
    <3>1. Agree(own, hist[i], hist[i]) /\ Agree(own, hist[i + 1], hist[i + 1])
      BY AgreeSame
    <3>2. Leads(own, log', i, hist[i], hist[i + 1])
      BY <1>0, <1>2, <2>2, <2>4, <3>1, LeadsAgree
    <3> QED
      BY <2>2, <3>2
  <2> QED
    BY <2>3, <2>4
<1>7. StoredOn(own)'
  BY <1>0, EndGotoStored
<1> QED
  BY <1>2, <1>6, <1>7 DEF ApartInv

LEMMA InitApart ==
  ASSUME EffectsInit, NEW own \in SUBSET Pages PROVE ApartInv(own)
<1>1. base = None /\ log = <<>> /\ Len(log) = 0 /\ hist[icount] = machine /\ ~replaying
  BY DEF EffectsInit, Init
<1> QED
  BY <1>1 DEF ApartInv, StoredOn, CleanOn, ImagesOn, NowOn, Agree, EntriesSpare, PlayedOn

LEMMA NextApart ==
  ASSUME EffectsInv, EffectsInv', CoversInv, NEW own \in SUBSET Pages, KeepsApart(own),
         ApartInv(own), [EffectsNext]_effectVars
  PROVE  ApartInv(own)'
<1>0. /\ IndexInv /\ machine \in Machine /\ dirty \in SUBSET Pages /\ log \in Seq(Entry)
  BY DEF EffectsInv, IndexInv, TypeOK, LayerInv, LayerTypeOK
<1>1. CASE Plainly(machine \notin Calls /\ (Execute \/ Fault))
  <2>1. machine \notin Calls /\ (Execute \/ Fault)
    BY <1>1 DEF Plainly
  <2> QED
    BY <1>1, <2>1, InstructionApart
<1>2. CASE Plainly(\E p \in Pages, v \in Vals : EditMemory(p, v))
  <2>1. PICK p \in Pages, v \in Vals : EditMemory(p, v)
    BY <1>2 DEF Plainly
  <2> DEFINE m == [machine EXCEPT !.mem[p] = v]
  <2>2. m \in Machine /\ Edited(m, {p}) /\ {p} \in SUBSET Pages
    BY <1>0, <2>1 DEF EditMemory, Machine
  <2>3. \A a \in (own \cap Mapped(m.mem)) \ {p} : m.mem[a] = machine.mem[a]
    BY <1>0 DEF Machine, Mapped
  <2> HIDE DEF m
  <2> QED
    BY <1>2, <2>2, <2>3, EditApart
<1>3. CASE Plainly(\E c \in Ctxs : EditRegister(c))
  <2>1. PICK c \in Ctxs : EditRegister(c)
    BY <1>3 DEF Plainly
  <2> DEFINE m == [machine EXCEPT !.ctx = c]
  <2>2. m \in Machine /\ Edited(m, {}) /\ {} \in SUBSET Pages
    BY <1>0, <2>1 DEF EditRegister, Machine
  <2>3. \A a \in (own \cap Mapped(m.mem)) \ {} : m.mem[a] = machine.mem[a]
    BY <1>0 DEF Machine
  <2> HIDE DEF m
  <2> QED
    BY <1>3, <2>2, <2>3, EditApart
<1>4. CASE Call
  BY <1>4, CallApart
<1>5. CASE (\E k \in 0..MaxICount : BeginGoto(k)) /\ UNCHANGED layer
  <2>1. PICK k \in Nat : BeginGoto(k)
    BY <1>5, BoundsAssumption
  <2> QED
    BY <1>5, <2>1, BeginGotoApart
<1>6. CASE machine \notin Calls /\ ReplayStep /\ UNCHANGED layer
  <2>1. /\ replaying /\ left > 0 /\ machine' = Exec[machine]
        /\ dirty' = dirty \cup Writes[machine]
        /\ ricount' = ricount + 1 /\ left' = left - 1 /\ layer' = layer
        /\ UNCHANGED <<base, checkpoints, icount, next, replaying, hist>>
    BY <1>6 DEF ReplayStep
  <2>2. Agree(own, machine', hist[ricount + 1])
    BY <1>6, <2>1, ReplayMeets
  <2>3. \A p \in (own \cap Mapped(machine'.mem)) \ Writes[machine] :
          machine'.mem[p] = machine.mem[p]
    BY <1>0, <1>6, <2>1, ProgramAssumption DEF Mapped, KeepsApart
  <2> QED
    BY <2>1, <2>2, <2>3, ReplayedApart
<1>7. CASE ReplayCall
  <2>1. /\ replaying /\ left > 0 /\ machine \in Calls
        /\ ricount' = ricount + 1 /\ left' = left - 1 /\ layer' = layer
        /\ UNCHANGED <<base, checkpoints, icount, next, replaying, hist>>
    BY <1>7 DEF ReplayCall
  <2>a. HasEntry(log, ricount)
    <3>1. /\ ricount \in Nat /\ left \in Nat /\ ricount + left <= Newest /\ Newest \in Nat
          /\ Earliest(base) <= ricount /\ Earliest(base) \in Nat
      BY <2>1, ReplayedWithin DEF EffectsInv, IndexInv, TypeOK, SpanInv, Newest, Reached
    <3>2. ricount \in Earliest(base)..(Newest - 1)
      BY <2>1, <3>1
    <3>3. hist[ricount] \in Calls
      BY <2>1, ReplayMeets
    <3> QED
      BY <3>2, <3>3 DEF CoversInv
  <2>2. PICK i \in 1..Len(log) :
          log[i].icount = ricount /\ machine' = Apply(machine, log[i].effect) /\ dirty' = dirty
    BY <1>0, <1>7, <2>a DEF ReplayCall, HasEntry
  <2>b. dirty' = dirty \cup {}
    BY <2>2
  <2>3. Agree(own, machine', hist[ricount + 1])
    BY <2>1, <2>2, ReplayMeets
  <2>4. log[i].effect \in Effect /\ Spares(log[i].effect, own)
    <3>1. log[i] \in Entry
      BY <1>0
    <3> QED
      BY <3>1 DEF Entry, ApartInv, EntriesSpare
  <2>5. \A p \in (own \cap Mapped(machine'.mem)) \ {} : machine'.mem[p] = machine.mem[p]
    BY <1>0, <2>2, <2>4, ApplySpares
  <2> QED
    BY <2>1, <2>b, <2>3, <2>5, ReplayedApart
<1>8. CASE EndGotoWithLog
  BY <1>8, EndGotoApart
<1>9. CASE UNCHANGED effectVars
  <2>1. /\ machine' = machine /\ base' = base /\ checkpoints' = checkpoints /\ dirty' = dirty
        /\ icount' = icount /\ replaying' = replaying /\ left' = left /\ ricount' = ricount
        /\ hist' = hist /\ log' = log
    BY <1>9 DEF effectVars, vars, stored, layer
  <2>2. Reached' = Reached
    BY <2>1 DEF Reached
  <2>3. StoredOn(own)' /\ EntriesSpare(own, log') /\ PlayedOn(own)'
    BY <2>1, <2>2 DEF ApartInv, StoredOn, CleanOn, ImagesOn, NowOn, PlayedOn
  <2> QED
    BY <2>3 DEF ApartInv
<1> QED
  BY <1>1, <1>2, <1>3, <1>4, <1>5, <1>6, <1>7, <1>8, <1>9 DEF EffectsNext

\* Then the target comes to rest where the history says.
LEMMA StaysOnTrack ==
  ASSUME EffectsInv, NEW own \in SUBSET Pages, KeepsApart(own), ApartInv(own)
  PROVE  OnTrack
<1> SUFFICES ASSUME ~replaying PROVE machine \in Calls <=> hist[icount] \in Calls
  BY DEF OnTrack
<1>1. IndexInv /\ SpanInv /\ machine \in Machine /\ icount \in Nat
  BY DEF EffectsInv, IndexInv, TypeOK
<1>2. Agree(own, machine, hist[icount])
  BY DEF ApartInv, StoredOn, NowOn
<1>3. Earliest(base) \in Nat /\ Earliest(base) <= icount /\ Newest = icount
  BY LayerNow DEF LayerIsNow
<1>4. hist[icount] \in Machine
  BY <1>1, <1>3 DEF SpanInv, Newest
<1> QED
  BY <1>1, <1>2, <1>4 DEF KeepsApart

LEMMA KeptApart ==
  ASSUME NEW own \in SUBSET Pages, KeepsApart(own)
  PROVE  EffectsSpec => [](CoversInv /\ ApartInv(own))
<1>1. EffectsInit => CoversInv /\ ApartInv(own)
  BY InitCovers, InitApart
<1>2. EffectsInv /\ EffectsInv' /\ CoversInv /\ ApartInv(own) /\ [EffectsNext]_effectVars
        => CoversInv' /\ ApartInv(own)'
  BY StaysOnTrack, NextCovers, NextApart
<1> QED
  BY <1>1, <1>2, Layered, PTL DEF EffectsSpec

\* A replay that applies what the log says goes through the recorded states
\* one by one, as far as registers and the pages no call touches go
\* (target.py, _go and the replay of logged effects; effects.py, at).
THEOREM ReplaysTheCalls ==
  ASSUME NEW own \in SUBSET Pages, KeepsApart(own)
  PROVE  EffectsSpec => [](replaying => Agree(own, machine, hist[ricount]))
<1>1. ApartInv(own) => (replaying => Agree(own, machine, hist[ricount]))
  BY DEF ApartInv, StoredOn, NowOn
<1> QED
  BY <1>1, KeptApart, PTL

\* So the log holds an entry for every call of the history, and no other, for
\* every program whose way and whose calls depend on what no call writes.
THEOREM LogCoversHistory ==
  ASSUME NEW own \in SUBSET Pages, KeepsApart(own)
  PROVE  EffectsSpec => []LogCovers
<1>1. EffectsInv /\ ApartInv(own) => OnTrack
  BY StaysOnTrack
<1> QED
  BY <1>1, Layered, KeptApart, CallsCovered, PTL

----------------------------------------------------------------------------
(* What History promises of the layer. *)

\* The layer's part of RefinesHistoryBoth.
LayerPromised == INSTANCE History WITH
  State <- Kernel, past <- khist, first <- Earliest(base), last <- Newest,
  now <- IF replaying THEN khist[Newest] ELSE kernel

LEMMA LayerNowNext == EffectsInv' => LayerIsNow'
BY LayerNow, PTL

\* A step of the timeline that is no call, as the layer sees it.
LEMMA PlainPromised ==
  ASSUME EffectsInv, EffectsInv', RememberLayer, kernel' = kernel, ~replaying, ~replaying',
         icount' \in {icount, icount + 1},
         Earliest(base) <= Earliest(base'), Earliest(base') <= icount, Earliest(base') \in Nat
  PROVE  LayerPromised!HistoryNext
<1>1. /\ Newest = icount /\ Newest' = icount' /\ icount \in Nat /\ kernel \in Kernel
      /\ khist[Newest] = kernel /\ Earliest(base) \in Nat
  BY LayerNow, LayerNowNext DEF LayerIsNow
<1>2. Earliest(base') \in Earliest(base)..Newest
  BY <1>1
<1>3. khist' = [i \in Earliest(base')..icount' |-> IF i = icount' THEN kernel ELSE khist[i]]
  BY DEF RememberLayer
<1>4. icount' = icount \/ icount' = icount + 1
  OBVIOUS
<1>5. CASE icount' = icount
  <2>1. khist' = [i \in Earliest(base')..Newest |-> IF i = Newest THEN kernel' ELSE khist[i]]
    BY <1>1, <1>3, <1>5
  <2>2. LayerPromised!Edit
    BY <1>1, <1>2, <1>5, <2>1 DEF LayerPromised!Edit
  <2> QED
    BY <2>2 DEF LayerPromised!HistoryNext
<1>6. CASE icount' = icount + 1
  <2>1. khist' = [i \in Earliest(base')..(Newest + 1) |->
                    IF i = Newest + 1 THEN kernel' ELSE khist[i]]
    BY <1>1, <1>3, <1>6
  <2>2. LayerPromised!Advance
    BY <1>1, <1>2, <1>6, <2>1 DEF LayerPromised!Advance
  <2> QED
    BY <2>2 DEF LayerPromised!HistoryNext
<1> QED
  BY <1>4, <1>5, <1>6

LEMMA NextLayerPromised ==
  ASSUME EffectsInv, EffectsInv', [EffectsNext]_effectVars
  PROVE  [LayerPromised!HistoryNext]_(LayerPromised!historyVars)
<1>0. IndexInv /\ SpanInv /\ LayerInv /\ machine \in Machine
  BY DEF EffectsInv, IndexInv, TypeOK
<1>1. CASE Plainly(machine \notin Calls /\ (Execute \/ Fault))
  <2>1. (Execute \/ Fault) /\ RememberLayer /\ kernel' = kernel
    BY <1>1 DEF Plainly
  <2>2. PICK w \in SUBSET Pages : NoteInstruction(w)
    BY <1>0, <2>1, ProgramAssumption DEF Execute, Fault
  <2>3. ~replaying /\ ~replaying' /\ icount' \in {icount, icount + 1}
    BY <2>1 DEF Execute, Fault, Idle
  <2>4. /\ Earliest(base) <= Earliest(base') /\ Earliest(base') <= icount
        /\ Earliest(base') \in Nat
    BY <1>0, <2>2, <2>3, NoteInstructionEarliest
  <2> QED
    BY <2>1, <2>3, <2>4, PlainPromised
<1>2. ASSUME NEW m \in Machine, NEW d, Edited(m, d), RememberLayer, kernel' = kernel
      PROVE  LayerPromised!HistoryNext
  <2>1. ~replaying /\ ~replaying' /\ icount' \in {icount, icount + 1}
    BY <1>2 DEF Edited, Idle
  <2>2. /\ Earliest(base) <= Earliest(base') /\ Earliest(base') <= icount
        /\ Earliest(base') \in Nat
    BY <1>0, <1>2, EditedEarliest
  <2> QED
    BY <1>2, <2>1, <2>2, PlainPromised
<1>3. CASE Plainly(\E p \in Pages, v \in Vals : EditMemory(p, v))
  <2>1. /\ \E p \in Pages, v \in Vals : EditMemory(p, v)
        /\ RememberLayer /\ kernel' = kernel
    BY <1>3 DEF Plainly
  <2>2. PICK p \in Pages, v \in Vals : EditMemory(p, v)
    BY <2>1
  <2>3. [machine EXCEPT !.mem[p] = v] \in Machine
    BY <1>0 DEF Machine
  <2> QED
    BY <1>2, <2>1, <2>2, <2>3 DEF EditMemory
<1>4. CASE Plainly(\E c \in Ctxs : EditRegister(c))
  <2>1. (\E c \in Ctxs : EditRegister(c)) /\ RememberLayer /\ kernel' = kernel
    BY <1>4 DEF Plainly
  <2>2. PICK c \in Ctxs : EditRegister(c)
    BY <2>1
  <2>3. [machine EXCEPT !.ctx = c] \in Machine
    BY <1>0 DEF Machine
  <2> QED
    BY <1>2, <2>1, <2>2, <2>3 DEF EditRegister
<1>5. CASE Call
  <2>1. /\ ~replaying /\ ~replaying' /\ icount' = icount + 1 /\ RememberLayer
        /\ NoteInstruction(Written(Serve[<<machine, kernel>>].effect))
    BY <1>5 DEF Call, Idle
  <2>2. /\ Earliest(base) <= Earliest(base') /\ Earliest(base') <= icount
        /\ Earliest(base') \in Nat
    BY <1>0, <2>1, NoteInstructionEarliest
  <2>3. /\ Newest = icount /\ Newest' = icount + 1 /\ icount \in Nat /\ kernel' \in Kernel
        /\ Earliest(base) \in Nat
    BY <2>1, LayerNow, LayerNowNext DEF LayerIsNow
  <2>4. Earliest(base') \in Earliest(base)..Newest
    BY <2>2, <2>3
  <2>5. khist' = [i \in Earliest(base')..(Newest + 1) |->
                    IF i = Newest + 1 THEN kernel' ELSE khist[i]]
    BY <2>1, <2>3 DEF RememberLayer
  <2>6. LayerPromised!Advance
    BY <2>1, <2>3, <2>4, <2>5 DEF LayerPromised!Advance
  <2> QED
    BY <2>6 DEF LayerPromised!HistoryNext
<1>6. CASE (\E k \in 0..MaxICount : BeginGoto(k)) /\ UNCHANGED layer
  <2>1. /\ ~replaying /\ replaying' /\ base' = base /\ hist' = hist /\ khist' = khist
        /\ kernel' = kernel
    BY <1>6 DEF BeginGoto, layer
  <2>2. Newest' = Newest /\ khist[Newest] = kernel
    BY <2>1, LayerNow DEF Newest, LayerIsNow
  <2> QED
    BY <2>1, <2>2 DEF LayerPromised!historyVars
<1>7. CASE (ReplayStep \/ ReplayCall) /\ UNCHANGED layer
  <2>1. /\ replaying /\ replaying' /\ base' = base /\ hist' = hist /\ khist' = khist
        /\ kernel' = kernel
    BY <1>7 DEF ReplayStep, ReplayCall, layer
  <2> QED
    BY <2>1 DEF LayerPromised!historyVars, Newest
<1>8. CASE EndGotoWithLog
  <2>1. /\ replaying /\ ~replaying' /\ base' = base /\ icount' = ricount
        /\ khist' = [i \in base.icount..ricount |-> khist[i]]
    BY <1>8 DEF EndGotoWithLog, EndGoto
  <2>2. /\ ricount \in Earliest(base)..Newest /\ Earliest(base) = base.icount
        /\ base.icount \in Nat
    BY <1>0, <2>1, ReplayedWithin DEF Newest
  <2>3. Newest' = ricount /\ khist'[ricount] = kernel'
    BY <2>1, LayerNowNext DEF LayerIsNow
  <2>4. khist'[ricount] = khist[ricount]
    BY <2>1, <2>2
  <2>5. LayerPromised!GoTo
    BY <2>1, <2>2, <2>3, <2>4 DEF LayerPromised!GoTo
  <2> QED
    BY <2>5 DEF LayerPromised!HistoryNext
<1>9. CASE UNCHANGED effectVars
  BY <1>9 DEF effectVars, vars, stored, layer, LayerPromised!historyVars, Newest
<1>10. ReplayCall => UNCHANGED layer
  BY DEF ReplayCall, layer
<1> QED
  BY <1>1, <1>3, <1>4, <1>5, <1>6, <1>7, <1>8, <1>9, <1>10 DEF EffectsNext

\* The layer is rewound as History promises (effects.py:31-34): a call or an
\* instruction appends a state, a goto puts back the one recorded, and the past
\* is given up from its old end only, whatever the calls do to memory.
THEOREM LayerKeepsThePromise == EffectsSpec => LayerPromised!HistorySpec
<1>1. EffectsInit => LayerPromised!HistoryInit
  <2> SUFFICES ASSUME EffectsInit PROVE LayerPromised!HistoryInit
    OBVIOUS
  <2>1. /\ ~replaying /\ kernel \in Kernel /\ khist = [i \in 0..0 |-> kernel]
        /\ Earliest(base) = 0 /\ icount = 0
    BY DEF EffectsInit, Init, Earliest
  <2>2. Newest = 0
    BY <2>1, InitEffects, LayerNow DEF LayerIsNow
  <2> QED
    BY <2>1, <2>2 DEF LayerPromised!HistoryInit
<1>2. /\ EffectsInv /\ EffectsInv' /\ [EffectsNext]_effectVars
        => [LayerPromised!HistoryNext]_(LayerPromised!historyVars)
  BY NextLayerPromised
<1>3. EffectsSpec => []EffectsInv
  BY Layered
<1> QED
  BY <1>1, <1>2, <1>3, PTL DEF EffectsSpec, LayerPromised!HistorySpec
=============================================================================
