----------------------------- MODULE HeapProofs -----------------------------
(***************************************************************************)
(* That the allocator of the stubs (Heap) hands out no byte twice and can  *)
(* be rewound to every call still in its log, for every heap, alignment    *)
(* and sequence of calls.                                                  *)
(***************************************************************************)
EXTENDS Heap, Sums, SequenceTheorems

\* What can be in the tables and in the journal.
BlockRecord == [address : Nat, size : Nat, capacity : Nat \ {0}]
Holds(b) == b \in BlockRecord /\ b.size <= b.capacity
Tables == [blocks : UNION {[D -> BlockRecord] : D \in SUBSET Nat}, freed : Seq(BlockRecord)]
Entry == [what : {"alloc", "free"}, block : {b \in BlockRecord : Holds(b)}, reused : BOOLEAN]

\* A block is where the tables have it, in one of them and once.
Fine(t) ==
  /\ t \in Tables
  /\ IsFiniteSet(DOMAIN t.blocks)
  /\ \A a \in DOMAIN t.blocks : t.blocks[a].address = a /\ Holds(t.blocks[a])
  /\ \A i \in DOMAIN t.freed : Holds(t.freed[i]) /\ t.freed[i].address \notin DOMAIN t.blocks
  /\ \A i, j \in DOMAIN t.freed : t.freed[i].address = t.freed[j].address => i = j

\* Where the live and the freed blocks are.
PlaceRecord == [address : Nat, capacity : Nat \ {0}]
PlacesState == [live : SUBSET PlaceRecord, free : SUBSET PlaceRecord]
Place(b) == [address |-> b.address, capacity |-> b.capacity]
Where(f) == {Place(f[x]) : x \in DOMAIN f}
PlacesOf(t) == [live |-> Places(Live(t)), free |-> Places(Free(t))]

\* They share no byte, and lie below the top.
Apart(p, limit) ==
  /\ p.live \cap p.free = {}
  /\ \A x, y \in p.live \cup p.free : x # y => ~ Overlap(x, y)
  /\ \A x \in p.live \cup p.free : x.address + x.capacity <= limit

\* An entry of the journal, undone, moves one of them.
Applies(p, e) == Place(e.block) \in IF e.what = "alloc" THEN p.live ELSE p.free
Moved(p, e) ==
  IF e.what = "alloc"
  THEN [live |-> p.live \ {Place(e.block)},
        free |-> IF e.reused THEN p.free \cup {Place(e.block)} ELSE p.free]
  ELSE [live |-> p.live \cup {Place(e.block)}, free |-> p.free \ {Place(e.block)}]

----------------------------------------------------------------------------
(* The tables. *)

LEMMA TablesAre ==
  ASSUME NEW t, Fine(t)
  PROVE  /\ t = [blocks |-> t.blocks, freed |-> t.freed]
         /\ DOMAIN t.blocks \in SUBSET Nat /\ t.blocks \in [DOMAIN t.blocks -> BlockRecord]
         /\ t.freed \in Seq(BlockRecord)
         /\ Len(t.freed) \in Nat /\ DOMAIN t.freed = 1..Len(t.freed)
<1>1. t \in Tables
  BY DEF Fine
<1>2. t = [blocks |-> t.blocks, freed |-> t.freed] /\ t.freed \in Seq(BlockRecord)
  BY <1>1 DEF Tables
<1>3. PICK D \in SUBSET Nat : t.blocks \in [D -> BlockRecord]
  BY <1>1 DEF Tables
<1>4. DOMAIN t.blocks = D
  BY <1>3
<1>5. Len(t.freed) \in Nat /\ DOMAIN t.freed = 1..Len(t.freed)
  BY <1>2
<1> QED
  BY <1>2, <1>3, <1>4, <1>5

\* The places there are.
LEMMA PlacesAre ==
  ASSUME NEW t, Fine(t)
  PROVE  /\ PlacesOf(t) \in PlacesState
         /\ PlacesOf(t).live = Where(t.blocks)
         /\ PlacesOf(t).free = Where(t.freed)
<1>1. Live(t) = {t.blocks[a] : a \in DOMAIN t.blocks} /\ Live(t) \in SUBSET BlockRecord
  BY TablesAre DEF Live
<1>2. Free(t) = {t.freed[i] : i \in DOMAIN t.freed} /\ Free(t) \in SUBSET BlockRecord
  BY TablesAre DEF Free, ToSet
<1>3. \A b \in BlockRecord : Place(b) \in PlaceRecord
  BY DEF BlockRecord, PlaceRecord, Place
<1>4. Places(Live(t)) = {Place(t.blocks[a]) : a \in DOMAIN t.blocks}
  BY <1>1 DEF Places, Place
<1>5. Places(Free(t)) = {Place(t.freed[i]) : i \in DOMAIN t.freed}
  BY <1>2 DEF Places, Place
<1>6. \A a \in DOMAIN t.blocks : Place(t.blocks[a]) \in PlaceRecord
  BY <1>1, <1>3
<1>7. \A i \in DOMAIN t.freed : Place(t.freed[i]) \in PlaceRecord
  BY <1>2, <1>3
<1> QED
  BY <1>4, <1>5, <1>6, <1>7 DEF PlacesOf, PlacesState, Where

\* A table and the other one, with one block more or less.
LEMMA PutIs ==
  ASSUME NEW t, Fine(t), NEW b, Holds(b), b.address \notin DOMAIN t.blocks,
         \A i \in DOMAIN t.freed : t.freed[i].address # b.address
  PROVE  /\ Fine(Put(t, b)) /\ DOMAIN Put(t, b).blocks = DOMAIN t.blocks \cup {b.address}
         /\ PlacesOf(Put(t, b)) = [live |-> PlacesOf(t).live \cup {Place(b)}, free |-> PlacesOf(t).free]
<1> DEFINE u == Put(t, b)
           B == [a \in DOMAIN t.blocks \cup {b.address} |-> IF a = b.address THEN b ELSE t.blocks[a]]
<1>1. u = [blocks |-> B, freed |-> t.freed]
  BY TablesAre DEF Put
<1>2. b \in BlockRecord /\ b.address \in Nat
  BY DEF Holds, BlockRecord
<1>3. /\ DOMAIN B = DOMAIN t.blocks \cup {b.address} /\ B[b.address] = b
      /\ \A a \in DOMAIN t.blocks : B[a] = t.blocks[a]
      /\ DOMAIN B \in SUBSET Nat /\ B \in [DOMAIN B -> BlockRecord]
  BY <1>2, TablesAre
<1>4. IsFiniteSet(DOMAIN B)
  BY <1>3, FS_AddElement DEF Fine
<1> HIDE DEF B, u
<1>5. u \in Tables
  BY <1>1, <1>3, TablesAre DEF Tables
<1>6. u.blocks = B /\ u.freed = t.freed
  BY <1>1
<1>7. Fine(u)
  BY <1>3, <1>4, <1>5, <1>6 DEF Fine
<1>8. PlacesOf(u).live = PlacesOf(t).live \cup {Place(b)} /\ PlacesOf(u).free = PlacesOf(t).free
  <2>1. Where(B) = Where(t.blocks) \cup {Place(b)}
    BY <1>3 DEF Where
  <2> QED BY <1>6, <1>7, <2>1, PlacesAre
<1>9. PlacesOf(u) = [live |-> PlacesOf(u).live, free |-> PlacesOf(u).free]
  BY DEF PlacesOf
<1> QED
  BY <1>3, <1>6, <1>7, <1>8, <1>9 DEF u

LEMMA TakeIs ==
  ASSUME NEW t, Fine(t), NEW a \in DOMAIN t.blocks
  PROVE  /\ Fine(Take(t, a)) /\ DOMAIN Take(t, a).blocks = DOMAIN t.blocks \ {a}
         /\ Take(t, a).freed = t.freed
         /\ PlacesOf(Take(t, a)) =
              [live |-> PlacesOf(t).live \ {Place(t.blocks[a])}, free |-> PlacesOf(t).free]
<1> DEFINE u == Take(t, a)
           B == [x \in DOMAIN t.blocks \ {a} |-> t.blocks[x]]
<1>1. u = [blocks |-> B, freed |-> t.freed]
  BY TablesAre DEF Take
<1>2. /\ DOMAIN B = DOMAIN t.blocks \ {a}
      /\ \A x \in DOMAIN B : B[x] = t.blocks[x]
      /\ DOMAIN B \in SUBSET Nat /\ B \in [DOMAIN B -> BlockRecord]
  BY TablesAre
<1>3. IsFiniteSet(DOMAIN B)
  BY <1>2, FS_Subset DEF Fine
<1> HIDE DEF B, u
<1>4. u \in Tables
  BY <1>1, <1>2, TablesAre DEF Tables
<1>5. u.blocks = B /\ u.freed = t.freed
  BY <1>1
<1>6. Fine(u)
  BY <1>2, <1>3, <1>4, <1>5 DEF Fine
<1>7. PlacesOf(u).live = PlacesOf(t).live \ {Place(t.blocks[a])} /\ PlacesOf(u).free = PlacesOf(t).free
  <2>1. \A x \in DOMAIN B : Place(B[x]) # Place(t.blocks[a])
    <3>1. \A x \in DOMAIN t.blocks : Place(t.blocks[x]).address = x
      BY DEF Fine, Place
    <3> QED BY <1>2, <3>1
  <2>2. Where(B) = Where(t.blocks) \ {Place(t.blocks[a])}
    BY <1>2, <2>1 DEF Where
  <2> QED BY <1>5, <1>6, <2>2, PlacesAre
<1>8. PlacesOf(u) = [live |-> PlacesOf(u).live, free |-> PlacesOf(u).free]
  BY DEF PlacesOf
<1> QED
  BY <1>2, <1>5, <1>6, <1>7, <1>8 DEF u

LEMMA ShelveIs ==
  ASSUME NEW t, Fine(t), NEW b, Holds(b), b.address \notin DOMAIN t.blocks,
         \A i \in DOMAIN t.freed : t.freed[i].address # b.address
  PROVE  /\ Fine(Shelve(t, b)) /\ Shelve(t, b).blocks = t.blocks
         /\ PlacesOf(Shelve(t, b)) = [live |-> PlacesOf(t).live, free |-> PlacesOf(t).free \cup {Place(b)}]
<1> DEFINE u == Shelve(t, b)
           F == Append(t.freed, b)
<1>1. u = [blocks |-> t.blocks, freed |-> F]
  <2>1. u = [t EXCEPT !.freed = F]
    BY DEF Shelve
  <2> HIDE DEF F, u
  <2> QED BY <2>1, TablesAre
<1>2. b \in BlockRecord /\ b.address \in Nat
  BY DEF Holds, BlockRecord
<1>3. /\ F \in Seq(BlockRecord) /\ DOMAIN F = 1..(Len(t.freed) + 1) /\ F[Len(t.freed) + 1] = b
      /\ \A i \in DOMAIN t.freed : F[i] = t.freed[i]
      /\ DOMAIN F = DOMAIN t.freed \cup {Len(t.freed) + 1}
  BY <1>2, TablesAre
<1> HIDE DEF F, u
<1>4. u \in Tables
  BY <1>1, <1>3, TablesAre DEF Tables, Fine
<1>5. u.blocks = t.blocks /\ u.freed = F
  BY <1>1
<1>6. Fine(u)
  <2>1. \A i \in DOMAIN F : Holds(F[i]) /\ F[i].address \notin DOMAIN t.blocks
    BY <1>3 DEF Fine
  <2>2. \A i, j \in DOMAIN F : F[i].address = F[j].address => i = j
    BY <1>3 DEF Fine
  <2> QED BY <1>4, <1>5, <2>1, <2>2 DEF Fine
<1>7. PlacesOf(u).live = PlacesOf(t).live /\ PlacesOf(u).free = PlacesOf(t).free \cup {Place(b)}
  <2>1. \A x \in DOMAIN F : (x \in DOMAIN t.freed /\ F[x] = t.freed[x]) \/ F[x] = b
    BY <1>3
  <2>2. \A x \in DOMAIN t.freed : x \in DOMAIN F /\ F[x] = t.freed[x]
    BY <1>3
  <2>3. \E x \in DOMAIN F : F[x] = b
    BY <1>3
  <2>4. Where(F) = Where(t.freed) \cup {Place(b)}
    BY <2>1, <2>2, <2>3 DEF Where
  <2> QED BY <1>5, <1>6, <2>4, PlacesAre
<1>8. PlacesOf(u) = [live |-> PlacesOf(u).live, free |-> PlacesOf(u).free]
  BY DEF PlacesOf
<1> QED
  BY <1>5, <1>6, <1>7, <1>8 DEF u

LEMMA UnshelveIs ==
  ASSUME NEW t, Fine(t), NEW n \in DOMAIN t.freed
  PROVE  LET u == Unshelve(t, t.freed[n].address)
         IN  /\ Fine(u) /\ u.blocks = t.blocks
             /\ \A i \in DOMAIN u.freed : u.freed[i].address # t.freed[n].address
             /\ PlacesOf(u) = [live |-> PlacesOf(t).live, free |-> PlacesOf(t).free \ {Place(t.freed[n])}]
<1> DEFINE u == Unshelve(t, t.freed[n].address)
           F == RemoveAt(t.freed, n)
           at == {i \in DOMAIN t.freed : t.freed[i].address = t.freed[n].address}
           L == Len(t.freed)
<1>0. L \in Nat /\ n \in 1..L /\ DOMAIN t.freed = 1..L
  BY TablesAre
<1>1. u = [blocks |-> t.blocks, freed |-> F]
  <2>1. at = {n}
    BY DEF Fine
  <2>2. Min(at) = n
    BY <1>0, <2>1 DEF Min
  <2>3. u = [t EXCEPT !.freed = IF at = {} THEN @ ELSE RemoveAt(@, Min(at))]
    BY DEF Unshelve
  <2> HIDE DEF at, u, F
  <2>4. u = [t EXCEPT !.freed = RemoveAt(@, n)]
    BY <2>1, <2>2, <2>3
  <2> QED BY <2>4, TablesAre DEF F
<1>2. /\ F \in Seq(BlockRecord) /\ DOMAIN F = 1..(L - 1)
      /\ \A i \in 1..(L - 1) : F[i] = IF i < n THEN t.freed[i] ELSE t.freed[i + 1]
  <2> DEFINE A == SubSeq(t.freed, 1, n - 1)
             C == SubSeq(t.freed, n + 1, L)
  <2>1. /\ A \in Seq(BlockRecord) /\ Len(A) = n - 1 /\ \A i \in 1..(n - 1) : A[i] = t.freed[i]
    BY <1>0, TablesAre, SubSeqProperties
  <2>2. /\ C \in Seq(BlockRecord) /\ Len(C) = L - n /\ \A i \in 1..(L - n) : C[i] = t.freed[n + i]
    BY <1>0, TablesAre, SubSeqProperties
  <2>3. F = A \o C
    BY DEF RemoveAt
  <2> HIDE DEF A, C, F
  <2>4. /\ A \o C \in Seq(BlockRecord) /\ Len(A \o C) = Len(A) + Len(C)
        /\ \A i \in 1..(Len(A) + Len(C)) : (A \o C)[i] = IF i <= Len(A) THEN A[i] ELSE C[i - Len(A)]
    BY <2>1, <2>2, ConcatProperties
  <2>5. Len(A) + Len(C) = L - 1
    BY <1>0, <2>1, <2>2
  <2>6. ASSUME NEW i \in 1..(L - 1) PROVE F[i] = IF i < n THEN t.freed[i] ELSE t.freed[i + 1]
    <3>1. CASE i < n
      <4>1. i \in 1..(n - 1) /\ i <= Len(A)
        BY <1>0, <2>1, <3>1
      <4> QED BY <2>1, <2>3, <2>4, <2>5, <3>1, <4>1
    <3>2. CASE ~(i < n)
      <4>1. i - (n - 1) \in 1..(L - n) /\ n + (i - (n - 1)) = i + 1 /\ ~(i <= Len(A))
        BY <1>0, <2>1, <3>2
      <4>2. F[i] = C[i - (n - 1)]
        BY <2>1, <2>3, <2>4, <2>5, <4>1
      <4> QED BY <2>2, <3>2, <4>1, <4>2
    <3> QED BY <3>1, <3>2
  <2>7. DOMAIN F = 1..(L - 1)
    BY <2>3, <2>4, <2>5
  <2> QED BY <2>3, <2>4, <2>6, <2>7
<1> HIDE DEF F, u
<1>3. u \in Tables /\ u.blocks = t.blocks /\ u.freed = F
  BY <1>1, <1>2, TablesAre DEF Tables, Fine
<1>4. \A i \in DOMAIN F : \E j \in DOMAIN t.freed : j # n /\ F[i] = t.freed[j] /\ j = IF i < n THEN i ELSE i + 1
  BY <1>0, <1>2
<1>5. \A j \in DOMAIN t.freed : j # n => \E i \in DOMAIN F : F[i] = t.freed[j]
  <2> SUFFICES ASSUME NEW j \in DOMAIN t.freed, j # n PROVE \E i \in DOMAIN F : F[i] = t.freed[j]
    OBVIOUS
  <2>1. CASE j < n
    <3>1. j \in 1..(L - 1)
      BY <1>0, <2>1
    <3> QED BY <1>2, <2>1, <3>1
  <2>2. CASE ~(j < n)
    <3>1. j - 1 \in 1..(L - 1) /\ ~(j - 1 < n) /\ (j - 1) + 1 = j
      BY <1>0, <2>2
    <3> QED BY <1>2, <3>1
  <2> QED BY <2>1, <2>2
<1>6. Fine(u)
  <2>1. \A i \in DOMAIN F : Holds(F[i]) /\ F[i].address \notin DOMAIN t.blocks
    BY <1>4 DEF Fine
  <2>2. ASSUME NEW i \in DOMAIN F, NEW j \in DOMAIN F, F[i].address = F[j].address PROVE i = j
    <3>1. PICK k \in DOMAIN t.freed : k # n /\ F[i] = t.freed[k] /\ k = IF i < n THEN i ELSE i + 1
      BY <1>4
    <3>2. PICK l \in DOMAIN t.freed : l # n /\ F[j] = t.freed[l] /\ l = IF j < n THEN j ELSE j + 1
      BY <1>4
    <3>3. k = l
      BY <2>2, <3>1, <3>2 DEF Fine
    <3> QED BY <1>0, <1>2, <3>1, <3>2, <3>3
  <2> QED BY <1>3, <2>1, <2>2 DEF Fine
<1>7. \A i \in DOMAIN u.freed : u.freed[i].address # t.freed[n].address
  BY <1>3, <1>4 DEF Fine
<1>8. PlacesOf(u).live = PlacesOf(t).live /\ PlacesOf(u).free = PlacesOf(t).free \ {Place(t.freed[n])}
  <2>1. \A j \in DOMAIN t.freed : Place(t.freed[j]).address = t.freed[j].address
    BY DEF Place
  <2>2. \A j \in DOMAIN t.freed : j # n => Place(t.freed[j]) # Place(t.freed[n])
    BY <2>1 DEF Fine
  <2>3. Where(F) = Where(t.freed) \ {Place(t.freed[n])}
    BY <1>4, <1>5, <2>2 DEF Where
  <2> QED BY <1>3, <1>6, <2>3, PlacesAre
<1>9. PlacesOf(u) = [live |-> PlacesOf(u).live, free |-> PlacesOf(u).free]
  BY DEF PlacesOf
<1> QED
  BY <1>3, <1>6, <1>7, <1>8, <1>9 DEF u

\* Undoing an entry that applies does to the places what it says.
LEMMA UndoneIs ==
  ASSUME NEW t, Fine(t), NEW e \in Entry, Applies(PlacesOf(t), e)
  PROVE  Fine(Undone(t, e)) /\ PlacesOf(Undone(t, e)) = Moved(PlacesOf(t), e)
<1>1. e.what \in {"alloc", "free"} /\ Holds(e.block) /\ e.reused \in BOOLEAN
  BY DEF Entry
<1>2. CASE e.what = "alloc"
  <2>1. PICK a \in DOMAIN t.blocks : Place(e.block) = Place(t.blocks[a])
    BY <1>2, PlacesAre DEF Applies, Where
  <2>2. e.block.address = a
    <3>1. Place(e.block).address = e.block.address /\ Place(t.blocks[a]).address = t.blocks[a].address
      BY DEF Place
    <3> QED BY <2>1, <3>1 DEF Fine
  <2>3. /\ Fine(Take(t, a)) /\ DOMAIN Take(t, a).blocks = DOMAIN t.blocks \ {a}
        /\ Take(t, a).freed = t.freed
        /\ PlacesOf(Take(t, a)) = [live |-> PlacesOf(t).live \ {Place(e.block)}, free |-> PlacesOf(t).free]
    BY <2>1, TakeIs
  <2>4. CASE ~e.reused
    BY <1>2, <2>2, <2>3, <2>4 DEF Undone, Moved
  <2>5. CASE e.reused
    <3>1. e.block.address \notin DOMAIN Take(t, a).blocks
      BY <2>2, <2>3
    <3>2. \A i \in DOMAIN Take(t, a).freed : Take(t, a).freed[i].address # e.block.address
      BY <2>2, <2>3 DEF Fine
    <3>3. /\ Fine(Shelve(Take(t, a), e.block))
          /\ PlacesOf(Shelve(Take(t, a), e.block)) =
               [live |-> PlacesOf(Take(t, a)).live, free |-> PlacesOf(Take(t, a)).free \cup {Place(e.block)}]
      BY <1>1, <2>3, <3>1, <3>2, ShelveIs
    <3> QED BY <1>2, <2>2, <2>3, <2>5, <3>3 DEF Undone, Moved
  <2> QED BY <2>4, <2>5
<1>3. CASE e.what = "free"
  <2>1. PICK n \in DOMAIN t.freed : Place(e.block) = Place(t.freed[n])
    BY <1>3, PlacesAre DEF Applies, Where
  <2>2. e.block.address = t.freed[n].address
    BY <2>1 DEF Place
  <2> DEFINE u == Unshelve(t, e.block.address)
  <2>3. /\ Fine(u) /\ u.blocks = t.blocks
        /\ \A i \in DOMAIN u.freed : u.freed[i].address # e.block.address
        /\ PlacesOf(u) = [live |-> PlacesOf(t).live, free |-> PlacesOf(t).free \ {Place(e.block)}]
    BY <2>1, <2>2, UnshelveIs
  <2>4. e.block.address \notin DOMAIN u.blocks
    BY <2>2, <2>3 DEF Fine
  <2> HIDE DEF u
  <2>5. /\ Fine(Put(u, e.block))
        /\ PlacesOf(Put(u, e.block)) = [live |-> PlacesOf(u).live \cup {Place(e.block)}, free |-> PlacesOf(u).free]
    BY <1>1, <2>3, <2>4, PutIs
  <2> QED BY <1>3, <2>3, <2>5 DEF Undone, Moved, u
<1> QED
  BY <1>1, <1>2, <1>3

----------------------------------------------------------------------------
(* Undoing. *)

\* What the places were at every mark the journal reaches back to.
Remembers(h, p, entries, from) ==
  /\ h \in [from..(from + Len(entries)) -> PlacesState]
  /\ h[from + Len(entries)] = p
  /\ \A k \in (from + 1)..(from + Len(entries)) :
       Applies(h[k], entries[k - from]) /\ h[k - 1] = Moved(h[k], entries[k - from])

Undoing(f, m) ==
  f = [k \in m..mark |-> IF k = mark THEN tables ELSE Undone(f[k + 1], journal[k + 1 - dropped])]

LEMMA UndoneToIs == ASSUME NEW m PROVE UndoneTo(m) = (CHOOSE f : Undoing(f, m))[m]
BY DEF UndoneTo, Undoing

LEMMA UndoingExists ==
  ASSUME mark \in Nat, NEW n \in Nat
  PROVE  \E f : Undoing(f, mark - n)
<1> DEFINE Good == {m \in 0..n : \E f : Undoing(f, mark - m)}
<1>1. 0 \in Good
  <2> DEFINE f == [k \in mark..mark |-> tables]
  <2>1. \A k \in mark..mark : k = mark
    OBVIOUS
  <2>2. f = [k \in (mark - 0)..mark |->
               IF k = mark THEN tables ELSE Undone(f[k + 1], journal[k + 1 - dropped])]
    BY <2>1
  <2> HIDE DEF f
  <2>3. Undoing(f, mark - 0)
    BY <2>2 DEF Undoing
  <2> QED BY <2>3
<1>2. ASSUME NEW m \in 0..(n - 1), m \in Good PROVE m + 1 \in Good
  <2>1. PICK f : Undoing(f, mark - m)
    BY <1>2
  <2> DEFINE lo == mark - m
             g == [k \in (lo - 1)..mark |->
                     IF k = lo - 1 THEN Undone(f[k + 1], journal[k + 1 - dropped]) ELSE f[k]]
  <2>2. lo \in Int /\ lo <= mark /\ mark - (m + 1) = lo - 1 /\ m + 1 \in 0..n
    OBVIOUS
  <2>3. \A k \in lo..mark :
          f[k] = IF k = mark THEN tables ELSE Undone(f[k + 1], journal[k + 1 - dropped])
    BY <2>1 DEF Undoing
  <2> HIDE DEF lo
  <2>4. ASSUME NEW k \in (lo - 1)..mark
        PROVE  g[k] = IF k = mark THEN tables ELSE Undone(g[k + 1], journal[k + 1 - dropped])
    <3>1. CASE k = lo - 1
      <4>1. k # mark /\ k + 1 \in (lo - 1)..mark /\ k + 1 # lo - 1
        BY <2>2, <3>1
      <4> QED BY <3>1, <4>1
    <3>2. CASE k # lo - 1 /\ k = mark
      <4>1. k \in lo..mark
        BY <2>2, <3>2
      <4> QED BY <2>3, <3>2, <4>1
    <3>3. CASE k # lo - 1 /\ k # mark
      <4>1. k \in lo..mark /\ k + 1 \in (lo - 1)..mark /\ k + 1 # lo - 1
        BY <2>2, <3>3
      <4> QED BY <2>3, <3>3, <4>1
    <3> QED BY <3>1, <3>2, <3>3
  <2>5. g = [k \in (lo - 1)..mark |->
               IF k = mark THEN tables ELSE Undone(g[k + 1], journal[k + 1 - dropped])]
    <3>1. g = [k \in (lo - 1)..mark |-> g[k]]
      OBVIOUS
    <3> HIDE DEF g
    <3> QED BY <2>4, <3>1
  <2> HIDE DEF g
  <2>6. Undoing(g, mark - (m + 1))
    BY <2>2, <2>5 DEF Undoing
  <2> QED BY <2>2, <2>6
<1>3. n \in Good
  <2> HIDE DEF Good
  <2> QED BY <1>1, <1>2, UpwardFrom
<1> QED
  BY <1>3

\* Undoing down to a mark finds the places as they were there.
LEMMA UndoneRight ==
  ASSUME Fine(tables), journal \in Seq(Entry), dropped \in Nat,
         NEW h, Remembers(h, PlacesOf(tables), journal, dropped),
         NEW m \in dropped..mark
  PROVE  Fine(UndoneTo(m)) /\ PlacesOf(UndoneTo(m)) = h[m]
<1> DEFINE n == mark - m
<1>1. mark \in Nat /\ n \in Nat /\ m = mark - n /\ Len(journal) \in Nat /\ m \in Nat
      /\ mark = dropped + Len(journal) /\ dropped <= m
  BY DEF mark
<1>2. PICK f : f = (CHOOSE g : Undoing(g, m)) /\ Undoing(f, m)
  <2>1. \E g : Undoing(g, mark - n)
    BY <1>1, UndoingExists
  <2>2. \E g : Undoing(g, m)
    BY <1>1, <2>1
  <2> QED BY <2>2
<1>3. UndoneTo(m) = f[m]
  BY <1>2, UndoneToIs
<1>4. \A k \in m..mark :
        f[k] = IF k = mark THEN tables ELSE Undone(f[k + 1], journal[k + 1 - dropped])
  BY <1>2 DEF Undoing
<1> DEFINE Good == {j \in 0..n : Fine(f[mark - j]) /\ PlacesOf(f[mark - j]) = h[mark - j]}
<1> HIDE DEF n, mark
<1>5. 0 \in Good
  <2>1. mark - 0 = mark /\ mark \in m..mark /\ 0 \in 0..n
    BY <1>1
  <2>2. f[mark] = tables /\ h[mark] = PlacesOf(tables)
    BY <1>1, <1>4, <2>1 DEF Remembers
  <2> QED BY <2>1, <2>2
<1>6. ASSUME NEW j \in 0..(n - 1), j \in Good PROVE j + 1 \in Good
  <2> DEFINE k == mark - (j + 1)
  <2>1. /\ k \in m..mark /\ k # mark /\ k + 1 = mark - j /\ j + 1 \in 0..n
        /\ k + 1 \in (dropped + 1)..(dropped + Len(journal)) /\ (k + 1) - 1 = k
        /\ k + 1 - dropped \in 1..Len(journal)
    BY <1>1
  <2> HIDE DEF k
  <2>2. Fine(f[k + 1]) /\ PlacesOf(f[k + 1]) = h[k + 1]
    BY <1>6, <2>1
  <2> DEFINE e == journal[k + 1 - dropped]
  <2>3. e \in Entry
    BY <2>1
  <2>4. Applies(h[k + 1], e) /\ h[k] = Moved(h[k + 1], e)
    BY <2>1 DEF Remembers
  <2>5. f[k] = Undone(f[k + 1], e)
    BY <1>4, <2>1
  <2> HIDE DEF e
  <2>6. Fine(f[k]) /\ PlacesOf(f[k]) = h[k]
    BY <2>2, <2>3, <2>4, <2>5, UndoneIs
  <2> QED BY <2>1, <2>6 DEF k
<1>7. n \in Good
  <2> HIDE DEF Good
  <2> QED BY <1>1, <1>5, <1>6, UpwardFrom
<1> QED
  BY <1>1, <1>3, <1>7

----------------------------------------------------------------------------
(* Arithmetic. *)

LEMMA RoundUpIs ==
  ASSUME NEW n \in Nat, NEW unit \in Nat \ {0}
  PROVE  RoundUp(n, unit) \in Nat /\ n <= RoundUp(n, unit)
<1> DEFINE q == (n + unit - 1) \div unit
           r == (n + unit - 1) % unit
<1>1. q \in Int /\ r \in 0..(unit - 1) /\ n + unit - 1 = unit * q + r
  OBVIOUS
<1>2. RoundUp(n, unit) = q * unit
  BY DEF RoundUp
<1> HIDE DEF q, r
<1>3. unit * q = q * unit /\ unit * q \in Int
  BY <1>1
<1> QED
  BY <1>1, <1>2, <1>3

LEMMA WantIs ==
  ASSUME NEW size \in Nat
  PROVE  Want(size) \in Nat \ {0} /\ size <= Want(size)
<1>1. Align \in Nat \ {0}
  BY SizesAssumption
<1>2. CASE size = 0
  BY <1>1, <1>2 DEF Want
<1>3. CASE size # 0
  BY <1>1, <1>3, RoundUpIs DEF Want
<1> QED
  BY <1>2, <1>3

\* A block that fits is found.
LEMMA FitIs ==
  ASSUME NEW list, NEW want, Fits(list, want) # {}, DOMAIN list \in SUBSET Nat,
         \A i \in DOMAIN list : list[i].capacity \in Nat
  PROVE  Fit(list, want) \in Fits(list, want)
<1> DEFINE all == Fits(list, want)
           caps == {list[i].capacity : i \in all}
<1>1. all \in SUBSET DOMAIN list /\ all # {} /\ caps \in SUBSET Nat /\ caps # {}
  BY DEF Fits
<1>2. PICK a \in all : \A j \in all : list[a].capacity <= list[j].capacity
  <2>1. PICK u \in caps : \A v \in caps : u <= v
    <3> HIDE DEF caps
    <3> QED BY <1>1, LeastOf
  <2> QED BY <2>1
<1> DEFINE ties == {i \in all : list[i].capacity = list[a].capacity}
<1>3. PICK c \in ties : \A j \in ties : c <= j
  <2>1. ties \in SUBSET Nat /\ ties # {}
    BY <1>1
  <2> HIDE DEF ties
  <2> QED BY <2>1, LeastOf
<1> HIDE DEF all
<1>4. \A j \in all : list[j].capacity \in Nat /\ j \in Nat
  BY <1>1
<1>5. c \in all /\ \A j \in all : \/ list[c].capacity < list[j].capacity
                                  \/ list[c].capacity = list[j].capacity /\ c <= j
  BY <1>2, <1>3, <1>4
<1>6. \E i \in all : \A j \in all : \/ list[i].capacity < list[j].capacity
                                    \/ list[i].capacity = list[j].capacity /\ i <= j
  BY <1>5
<1> QED
  BY <1>6 DEF Fit, all

----------------------------------------------------------------------------
(* What the functions make of the heap. *)

\* The heap after some steps of a call: as it was before them, moved by what
\* they put into the journal; h0 is what the places were until then.
Extended(r, h0) ==
  \E h : /\ Remembers(h, PlacesOf(r.t), r.journal, dropped)
         /\ \A k \in dropped..mark : h[k] = h0[k]

Good(r, h0) ==
  /\ r = [t |-> r.t, top |-> r.top, journal |-> r.journal]
  /\ Fine(r.t) /\ r.journal \in Seq(Entry) /\ Len(journal) <= Len(r.journal)
  /\ r.top \in Nat /\ r.top <= Size
  /\ Apart(PlacesOf(r.t), r.top)
  /\ Extended(r, h0)

\* One more entry, if undoing it moves the places back.
LEMMA Extend ==
  ASSUME dropped \in Nat, journal \in Seq(Entry), NEW r, NEW h0, Good(r, h0), NEW e \in Entry,
         NEW t, Fine(t), Applies(PlacesOf(t), e), Moved(PlacesOf(t), e) = PlacesOf(r.t),
         NEW limit \in Nat, limit <= Size, Apart(PlacesOf(t), limit)
  PROVE  Good([t |-> t, top |-> limit, journal |-> Append(r.journal, e)], h0)
<1> DEFINE L == Len(r.journal)
           J == Append(r.journal, e)
           s == [t |-> t, top |-> limit, journal |-> J]
<1>1. /\ L \in Nat /\ J \in Seq(Entry) /\ Len(J) = L + 1 /\ J[L + 1] = e
      /\ \A i \in 1..L : J[i] = r.journal[i]
      /\ Len(journal) <= L /\ Len(journal) \in Nat
  BY DEF Good
<1>2. PICK h : /\ Remembers(h, PlacesOf(r.t), r.journal, dropped)
               /\ \A k \in dropped..mark : h[k] = h0[k]
  BY DEF Good, Extended
<1> DEFINE g == [k \in dropped..(dropped + (L + 1)) |-> IF k = dropped + (L + 1) THEN PlacesOf(t) ELSE h[k]]
<1>3. /\ h \in [dropped..(dropped + L) -> PlacesState] /\ h[dropped + L] = PlacesOf(r.t)
      /\ \A k \in (dropped + 1)..(dropped + L) :
           Applies(h[k], r.journal[k - dropped]) /\ h[k - 1] = Moved(h[k], r.journal[k - dropped])
  BY <1>2 DEF Remembers
<1> HIDE DEF J, L
<1>4. g \in [dropped..(dropped + (L + 1)) -> PlacesState]
  <2>1. PlacesOf(t) \in PlacesState
    BY PlacesAre
  <2>2. ASSUME NEW k \in dropped..(dropped + (L + 1)), k # dropped + (L + 1)
        PROVE  k \in dropped..(dropped + L)
    <3>1. L \in Nat /\ k \in Int
      BY <1>1
    <3> HIDE DEF g
    <3> QED BY <2>2, <3>1
  <2> QED BY <1>3, <2>1, <2>2
<1>5. g[dropped + (L + 1)] = PlacesOf(t) /\ \A k \in dropped..(dropped + L) : g[k] = h[k]
  BY <1>1
<1> HIDE DEF g
<1>6. ASSUME NEW k \in (dropped + 1)..(dropped + (L + 1))
      PROVE  Applies(g[k], J[k - dropped]) /\ g[k - 1] = Moved(g[k], J[k - dropped])
  <2>1. CASE k = dropped + (L + 1)
    <3>1. k - dropped = L + 1 /\ k - 1 = dropped + L /\ k - 1 \in dropped..(dropped + L)
      BY <1>1, <2>1
    <3> QED BY <1>1, <1>3, <1>5, <2>1, <3>1
  <2>2. CASE k # dropped + (L + 1)
    <3>1. /\ k \in (dropped + 1)..(dropped + L) /\ k \in dropped..(dropped + L)
          /\ k - 1 \in dropped..(dropped + L) /\ k - dropped \in 1..L
      BY <1>1, <2>2
    <3> QED BY <1>1, <1>3, <1>5, <3>1
  <2> QED BY <2>1, <2>2
<1>7. Remembers(g, PlacesOf(t), J, dropped)
  BY <1>1, <1>4, <1>5, <1>6 DEF Remembers
<1>8. \A k \in dropped..mark : g[k] = h0[k]
  <2>1. \A k \in dropped..mark : k \in dropped..(dropped + L)
    BY <1>1 DEF mark
  <2> QED BY <1>2, <1>5, <2>1
<1> QED
  BY <1>1, <1>7, <1>8 DEF Good, Extended, J, L

\* Where blocks are that share no byte.
LEMMA ApartIs ==
  ASSUME NEW t, Fine(t), NEW limit \in Nat, Apart(PlacesOf(t), limit)
  PROVE  /\ \A x \in PlacesOf(t).live \cup PlacesOf(t).free :
              x \in PlaceRecord /\ x.address + x.capacity <= limit
         /\ \A a \in DOMAIN t.blocks :
              /\ Place(t.blocks[a]) \in PlacesOf(t).live /\ Place(t.blocks[a]) \notin PlacesOf(t).free
              /\ a < limit
         /\ \A i \in DOMAIN t.freed :
              /\ Place(t.freed[i]) \in PlacesOf(t).free /\ Place(t.freed[i]) \notin PlacesOf(t).live
              /\ t.freed[i].address < limit
<1>1. \A x \in PlacesOf(t).live \cup PlacesOf(t).free :
        x \in PlaceRecord /\ x.address + x.capacity <= limit
  BY PlacesAre DEF Apart, PlacesState
<1>2. \A a \in DOMAIN t.blocks :
        Place(t.blocks[a]) \in PlacesOf(t).live /\ Place(t.blocks[a]) \notin PlacesOf(t).free
  BY PlacesAre DEF Apart, Where
<1>3. \A i \in DOMAIN t.freed :
        Place(t.freed[i]) \in PlacesOf(t).free /\ Place(t.freed[i]) \notin PlacesOf(t).live
  BY PlacesAre DEF Apart, Where
<1>4. \A x \in PlacesOf(t).live \cup PlacesOf(t).free : x.address < limit
  <2> SUFFICES ASSUME NEW x \in PlacesOf(t).live \cup PlacesOf(t).free PROVE x.address < limit
    OBVIOUS
  <2>1. x \in PlaceRecord /\ x.address + x.capacity <= limit
    BY <1>1
  <2>2. x.address \in Nat /\ x.capacity \in Nat \ {0}
    BY <2>1 DEF PlaceRecord
  <2> QED BY <2>1, <2>2
<1>5. \A a \in DOMAIN t.blocks : Place(t.blocks[a]).address = a
  BY DEF Fine, Place
<1>6. \A i \in DOMAIN t.freed : Place(t.freed[i]).address = t.freed[i].address
  BY DEF Place
<1> QED
  BY <1>1, <1>2, <1>3, <1>4, <1>5, <1>6

\* What every state of the heap is, before a call and after it.
Now(h) ==
  /\ dropped \in Nat /\ journal \in Seq(Entry) /\ top \in Nat /\ top <= Size
  /\ Fine(tables) /\ Apart(PlacesOf(tables), top)
  /\ Remembers(h, PlacesOf(tables), journal, dropped)

LEMMA AsIsGood ==
  ASSUME NEW h, Now(h)
  PROVE  Good(AsIs, h) /\ AsIs = [t |-> tables, top |-> top, journal |-> journal]
BY DEF Now, Good, AsIs, Extended

LEMMA AllocateGood ==
  ASSUME NEW h, Now(h), NEW size \in Nat, NEW r \in Allocate(size)
  PROVE  Good(r, h) /\ DOMAIN blocks \subseteq DOMAIN r.t.blocks
<1> DEFINE want == Want(size)
<1>1. want \in Nat \ {0} /\ size <= want
  BY WantIs
<1>2. /\ Fine(tables) /\ Apart(PlacesOf(tables), top) /\ top \in Nat /\ AsIs.t = tables
      /\ AsIs.journal = journal /\ Size \in Nat /\ top <= Size
  BY SizesAssumption DEF Now, AsIs
<1>3. tables.blocks = blocks /\ tables.freed = freed
  BY DEF tables
<1> HIDE DEF want
<1>4. CASE Fits(freed, want) # {}
  <2> DEFINE n == Fit(freed, want)
             b == freed[n]
             c == [b EXCEPT !.size = size]
             e == Allocated("alloc", b, TRUE)
             u == Unshelve(tables, b.address)
  <2>1. n \in DOMAIN freed /\ b.capacity >= want /\ Holds(b)
    <3>1. DOMAIN freed \in SUBSET Nat /\ \A i \in DOMAIN freed : Holds(freed[i])
      BY <1>2, <1>3, TablesAre DEF Fine
    <3>2. \A i \in DOMAIN freed : freed[i].capacity \in Nat
      BY <3>1 DEF Holds, BlockRecord
    <3>3. n \in Fits(freed, want)
      BY <1>4, <3>1, <3>2, FitIs
    <3> QED BY <3>1, <3>3 DEF Fits
  <2>2. r = [t |-> Put(u, c), top |-> top, journal |-> Append(journal, e)]
    BY <1>4 DEF Allocate, want
  <2> HIDE DEF n
  <2>3. c \in BlockRecord /\ c.address = b.address /\ c.size = size /\ c.capacity = b.capacity
    BY <2>1 DEF Holds, BlockRecord
  <2>4. Holds(c) /\ Place(c) = Place(b)
    <3>1. b.capacity \in Nat
      BY <2>1 DEF Holds, BlockRecord
    <3> QED BY <1>1, <2>1, <2>3, <3>1 DEF Holds, Place
  <2>5. e \in Entry /\ e.what = "alloc" /\ e.block = b /\ e.reused = TRUE
    BY <2>1 DEF Entry, Allocated, Holds
  <2> HIDE DEF c, e
  <2>6. /\ Fine(u) /\ u.blocks = blocks
        /\ \A i \in DOMAIN u.freed : u.freed[i].address # b.address
        /\ PlacesOf(u) = [live |-> PlacesOf(tables).live, free |-> PlacesOf(tables).free \ {Place(b)}]
    BY <1>2, <1>3, <2>1, UnshelveIs
  <2>7. b.address \notin DOMAIN blocks
    BY <1>2, <1>3, <2>1 DEF Fine
  <2> HIDE DEF u
  <2>8. /\ Fine(Put(u, c)) /\ DOMAIN Put(u, c).blocks = DOMAIN blocks \cup {b.address}
        /\ PlacesOf(Put(u, c)) = [live |-> PlacesOf(u).live \cup {Place(b)}, free |-> PlacesOf(u).free]
    BY <2>3, <2>4, <2>6, <2>7, PutIs
  <2>9. Place(b) \in PlacesOf(tables).free /\ Place(b) \notin PlacesOf(tables).live
    BY <1>2, <1>3, <2>1, ApartIs
  <2> DEFINE p == PlacesOf(tables)
             q == PlacesOf(Put(u, c))
  <2>10. /\ q.live = p.live \cup {Place(b)} /\ q.free = p.free \ {Place(b)}
         /\ q = [live |-> q.live, free |-> q.free] /\ p = [live |-> p.live, free |-> p.free]
    BY <2>6, <2>8 DEF PlacesOf
  <2> HIDE DEF p, q
  <2>11. Applies(q, e) /\ Moved(q, e) = p
    <3>1. (p.live \cup {Place(b)}) \ {Place(b)} = p.live /\ (p.free \ {Place(b)}) \cup {Place(b)} = p.free
      BY <2>9 DEF p
    <3> QED BY <2>5, <2>10, <3>1 DEF Applies, Moved
  <2>12. Apart(q, top)
    <3>1. q.live \cup q.free = p.live \cup p.free /\ q.live \cap q.free = {}
      BY <1>2, <2>9, <2>10 DEF p, Apart
    <3> QED BY <1>2, <3>1 DEF p, Apart
  <2>13. Good(r, h)
    BY <1>2, <2>2, <2>5, <2>8, <2>11, <2>12, AsIsGood, Extend DEF Now, p, q
  <2> QED BY <2>2, <2>8, <2>13
<1>5. CASE Fits(freed, want) = {}
  <2> DEFINE b == Block(top, size, want)
             e == Allocated("alloc", b, FALSE)
  <2>1. top + want <= Size /\ r = [t |-> Put(tables, b), top |-> top + want, journal |-> Append(journal, e)]
    <3>1. ~(top + want > Size)
      BY <1>5 DEF Allocate, want
    <3>2. r = [t |-> Put(tables, b), top |-> top + want, journal |-> Append(journal, e)]
      BY <1>5 DEF Allocate, want
    <3> QED BY <1>1, <1>2, <3>1, <3>2
  <2>2. b.address = top /\ b.size = size /\ b.capacity = want /\ Holds(b) /\ b \in BlockRecord
    BY <1>1, <1>2 DEF Block, Holds, BlockRecord
  <2>3. e \in Entry /\ e.what = "alloc" /\ e.block = b /\ e.reused = FALSE
    BY <2>2 DEF Entry, Allocated
  <2>4. Place(b).address = top /\ Place(b).capacity = want
    BY <2>2 DEF Place
  <2> HIDE DEF b, e
  <2>5. /\ top \notin DOMAIN blocks /\ \A i \in DOMAIN freed : freed[i].address # top
    <3>1. \A a \in DOMAIN blocks : a < top
      BY <1>2, <1>3, ApartIs
    <3>2. \A i \in DOMAIN freed : freed[i].address < top
      BY <1>2, <1>3, ApartIs
    <3> QED BY <1>2, <3>1, <3>2
  <2>6. /\ Fine(Put(tables, b)) /\ DOMAIN Put(tables, b).blocks = DOMAIN blocks \cup {top}
        /\ PlacesOf(Put(tables, b)) =
             [live |-> PlacesOf(tables).live \cup {Place(b)}, free |-> PlacesOf(tables).free]
    BY <1>2, <1>3, <2>2, <2>5, PutIs
  <2> DEFINE p == PlacesOf(tables)
             q == PlacesOf(Put(tables, b))
  <2>7. /\ \A x \in p.live \cup p.free :
             /\ x.address \in Nat /\ x.capacity \in Nat \ {0} /\ x.address + x.capacity <= top
             /\ x # Place(b) /\ ~ Overlap(x, Place(b)) /\ ~ Overlap(Place(b), x)
    <3> SUFFICES ASSUME NEW x \in p.live \cup p.free
                 PROVE  /\ x.address \in Nat /\ x.capacity \in Nat \ {0} /\ x.address + x.capacity <= top
                        /\ x # Place(b) /\ ~ Overlap(x, Place(b)) /\ ~ Overlap(Place(b), x)
      OBVIOUS
    <3>1. x \in PlaceRecord /\ x.address + x.capacity <= top
      BY <1>2, ApartIs
    <3>2. x.address \in Nat /\ x.capacity \in Nat \ {0}
      BY <3>1 DEF PlaceRecord
    <3>3. x.address # top
      BY <1>2, <3>1, <3>2
    <3> QED BY <1>1, <1>2, <2>4, <3>1, <3>2, <3>3 DEF Overlap
  <2>8. /\ q.live = p.live \cup {Place(b)} /\ q.free = p.free
        /\ q = [live |-> q.live, free |-> q.free] /\ p = [live |-> p.live, free |-> p.free]
    BY <2>6 DEF PlacesOf
  <2> HIDE DEF p, q
  <2>9. Place(b) \notin p.live /\ Place(b) \notin p.free
    BY <2>7
  <2>10. Applies(q, e) /\ Moved(q, e) = p
    <3>1. (p.live \cup {Place(b)}) \ {Place(b)} = p.live
      BY <2>9
    <3> QED BY <2>3, <2>8, <3>1 DEF Applies, Moved
  <2>11. top + want \in Nat /\ top <= top + want /\ top + want <= Size
    BY <1>1, <1>2, <2>1
  <2>12. Apart(q, top + want)
    <3>1. q.live \cap q.free = {}
      BY <1>2, <2>8, <2>9 DEF p, Apart
    <3>2. ASSUME NEW x \in q.live \cup q.free PROVE x.address + x.capacity <= top + want
      <4>1. CASE x = Place(b)
        BY <1>1, <1>2, <2>4, <4>1
      <4>2. CASE x # Place(b)
        BY <1>1, <1>2, <2>7, <2>8, <4>2
      <4> QED BY <4>1, <4>2
    <3>3. ASSUME NEW x \in q.live \cup q.free, NEW y \in q.live \cup q.free, x # y
          PROVE  ~ Overlap(x, y)
      <4>1. CASE x = Place(b)
        BY <2>7, <2>8, <3>3, <4>1
      <4>2. CASE y = Place(b)
        BY <2>7, <2>8, <3>3, <4>2
      <4>3. CASE x # Place(b) /\ y # Place(b)
        <5>1. x \in p.live \cup p.free /\ y \in p.live \cup p.free
          BY <2>8, <4>3
        <5> QED BY <1>2, <3>3, <5>1 DEF p, Apart
      <4> QED BY <4>1, <4>2, <4>3
    <3> QED BY <3>1, <3>2, <3>3 DEF Apart
  <2>13. Good(r, h)
    BY <1>2, <2>1, <2>3, <2>6, <2>10, <2>11, <2>12, AsIsGood, Extend DEF Now, p, q
  <2> QED BY <2>1, <2>6, <2>13
<1> QED
  BY <1>4, <1>5

LEMMA ReleaseGood ==
  ASSUME NEW h, Now(h), NEW r, Good(r, h), NEW a \in DOMAIN r.t.blocks
  PROVE  Good(Release(r, a), h)
<1> DEFINE b == r.t.blocks[a]
           e == Allocated("free", b, FALSE)
           t == Take(r.t, a)
<1>1. /\ Fine(r.t) /\ Apart(PlacesOf(r.t), r.top) /\ r.top \in Nat /\ r.top <= Size
      /\ r = [t |-> r.t, top |-> r.top, journal |-> r.journal]
  BY DEF Good
<1>2. Release(r, a) = [t |-> Shelve(t, b), top |-> r.top, journal |-> Append(r.journal, e)]
  <2>1. Release(r, a) = [r EXCEPT !.t = Shelve(Take(@, a), b), !.journal = Append(@, e)]
    BY DEF Release
  <2> HIDE DEF b, e
  <2> QED BY <1>1, <2>1
<1>3. Holds(b) /\ b.address = a /\ e \in Entry /\ e.what = "free" /\ e.block = b
  BY <1>1 DEF Fine, Entry, Allocated, Holds
<1>4. /\ Fine(t) /\ DOMAIN t.blocks = DOMAIN r.t.blocks \ {a} /\ t.freed = r.t.freed
      /\ PlacesOf(t) = [live |-> PlacesOf(r.t).live \ {Place(b)}, free |-> PlacesOf(r.t).free]
  BY <1>1, TakeIs
<1>5. b.address \notin DOMAIN t.blocks /\ \A i \in DOMAIN t.freed : t.freed[i].address # b.address
  BY <1>1, <1>3, <1>4 DEF Fine
<1>6. Place(b) \in PlacesOf(r.t).live /\ Place(b) \notin PlacesOf(r.t).free
  BY <1>1, ApartIs
<1> HIDE DEF b, e, t
<1>7. /\ Fine(Shelve(t, b))
      /\ PlacesOf(Shelve(t, b)) = [live |-> PlacesOf(t).live, free |-> PlacesOf(t).free \cup {Place(b)}]
  BY <1>3, <1>4, <1>5, ShelveIs
<1> DEFINE p == PlacesOf(r.t)
           q == PlacesOf(Shelve(t, b))
<1>8. /\ q.live = p.live \ {Place(b)} /\ q.free = p.free \cup {Place(b)}
      /\ q = [live |-> q.live, free |-> q.free] /\ p = [live |-> p.live, free |-> p.free]
  BY <1>4, <1>7 DEF PlacesOf
<1> HIDE DEF p, q
<1>9. Applies(q, e) /\ Moved(q, e) = p
  <2>1. (p.live \ {Place(b)}) \cup {Place(b)} = p.live /\ (p.free \cup {Place(b)}) \ {Place(b)} = p.free
    BY <1>6 DEF p
  <2> QED BY <1>3, <1>8, <2>1 DEF Applies, Moved
<1>10. Apart(q, r.top)
  <2>1. q.live \cup q.free = p.live \cup p.free /\ q.live \cap q.free = {}
    BY <1>1, <1>6, <1>8 DEF p, Apart
  <2> QED BY <1>1, <2>1 DEF p, Apart
<1>11. Applies(PlacesOf(Shelve(t, b)), e) /\ Moved(PlacesOf(Shelve(t, b)), e) = PlacesOf(r.t)
       /\ Apart(PlacesOf(Shelve(t, b)), r.top)
  BY <1>9, <1>10 DEF p, q
<1>12. dropped \in Nat /\ journal \in Seq(Entry)
  BY DEF Now
<1> DEFINE u == Shelve(t, b)
<1>13. Fine(u) /\ Applies(PlacesOf(u), e) /\ Moved(PlacesOf(u), e) = PlacesOf(r.t)
       /\ Apart(PlacesOf(u), r.top)
  BY <1>7, <1>11
<1> HIDE DEF u
<1>14. Good([t |-> u, top |-> r.top, journal |-> Append(r.journal, e)], h)
  BY <1>1, <1>3, <1>12, <1>13, Extend
<1> QED
  BY <1>2, <1>14 DEF u

\* A block that stays where it is.
LEMMA ResizeGood ==
  ASSUME NEW h, Now(h), NEW a \in DOMAIN blocks, NEW size \in Nat, blocks[a].capacity >= size
  PROVE  Good([AsIs EXCEPT !.t = Put(tables, [blocks[a] EXCEPT !.size = size])], h)
<1> DEFINE b == [blocks[a] EXCEPT !.size = size]
           t == tables
           B == [x \in DOMAIN t.blocks \cup {b.address} |-> IF x = b.address THEN b ELSE t.blocks[x]]
           u == Put(t, b)
<1>1. Good(AsIs, h) /\ AsIs = [t |-> t, top |-> top, journal |-> journal] /\ Fine(t)
      /\ t.blocks = blocks /\ t.freed = freed
  BY AsIsGood DEF Now, tables
<1>2. /\ b \in BlockRecord /\ b.address = a /\ b.size = size /\ b.capacity = blocks[a].capacity
      /\ Place(b) = Place(blocks[a])
  BY <1>1 DEF Fine, Holds, BlockRecord, Place
<1>3. Holds(b)
  <2>1. blocks[a].capacity \in Nat
    BY <1>1 DEF Fine, Holds, BlockRecord
  <2> QED BY <1>2, <2>1 DEF Holds
<1> HIDE DEF b
<1>4. u = [blocks |-> B, freed |-> t.freed]
  BY <1>1, TablesAre DEF Put
<1>5. /\ DOMAIN B = DOMAIN t.blocks /\ B[a] = b
      /\ \A x \in DOMAIN t.blocks : x # a => B[x] = t.blocks[x]
      /\ DOMAIN B \in SUBSET Nat /\ B \in [DOMAIN B -> BlockRecord]
  BY <1>1, <1>2, TablesAre
<1> HIDE DEF B, u, t
<1>6. u \in Tables
  BY <1>1, <1>4, <1>5, TablesAre DEF Tables
<1>7. u.blocks = B /\ u.freed = t.freed
  BY <1>4
<1>8. Fine(u)
  BY <1>1, <1>2, <1>3, <1>5, <1>6, <1>7 DEF Fine
<1>9. PlacesOf(u) = PlacesOf(t)
  <2>1. \A x \in DOMAIN B : Place(B[x]) = Place(t.blocks[x])
    BY <1>1, <1>2, <1>5
  <2>2. Where(B) = Where(t.blocks)
    BY <1>5, <2>1 DEF Where
  <2>3. PlacesOf(u).live = PlacesOf(t).live /\ PlacesOf(u).free = PlacesOf(t).free
    BY <1>1, <1>7, <1>8, <2>2, PlacesAre
  <2> QED BY <2>3 DEF PlacesOf
<1>10. [AsIs EXCEPT !.t = u] = [t |-> u, top |-> top, journal |-> journal]
  BY <1>1
<1>11. Good([t |-> u, top |-> top, journal |-> journal], h)
  <2>1. AsIs.t = t /\ AsIs.top = top /\ AsIs.journal = journal
    BY <1>1
  <2> QED BY <1>1, <1>8, <1>9, <2>1 DEF Good, Extended
<1> QED
  BY <1>10, <1>11 DEF u, b, t

LEMMA MallocGood ==
  ASSUME NEW h, Now(h), NEW size \in Nat, NEW r \in Malloc(size)
  PROVE  Good(r, h) /\ DOMAIN blocks \subseteq DOMAIN r.t.blocks
<1> DEFINE n == IF size = 0 THEN 1 ELSE size
<1>1. n \in Nat /\ r \in Allocate(n)
  BY DEF Malloc
<1> HIDE DEF n
<1> QED
  BY <1>1, AllocateGood

\* The block a call puts into the journal, and hands out: at a, of a size.
Handed(r, a, size) ==
  /\ a \in DOMAIN r.t.blocks \ DOMAIN blocks /\ r.t.blocks[a].size = size
  /\ \A x \in DOMAIN blocks : x \in DOMAIN r.t.blocks /\ r.t.blocks[x] = blocks[x]

\* The block handed out is new, and the others are as they were.
LEMMA AllocateHands ==
  ASSUME NEW h, Now(h), NEW size \in Nat, NEW r \in Allocate(size)
  PROVE  Handed(r, r.journal[Len(r.journal)].block.address, size)
<1> DEFINE want == Want(size)
<1>1. want \in Nat \ {0} /\ size <= want
  BY WantIs
<1>2. /\ Fine(tables) /\ Apart(PlacesOf(tables), top) /\ top \in Nat /\ journal \in Seq(Entry)
  BY DEF Now
<1>3. tables.blocks = blocks /\ tables.freed = freed
  BY DEF tables
<1>4. \A e : Append(journal, e)[Len(Append(journal, e))] = e
  <2>1. journal \in Seq(Entry) /\ Len(journal) \in Nat
    BY <1>2
  <2> TAKE e
  <2>2. Len(Append(journal, e)) = Len(journal) + 1 /\ Append(journal, e)[Len(journal) + 1] = e
    BY <2>1
  <2> QED BY <2>2
<1> HIDE DEF want
<1>5. CASE Fits(freed, want) # {}
  <2> DEFINE n == Fit(freed, want)
             b == freed[n]
             c == [b EXCEPT !.size = size]
             e == Allocated("alloc", b, TRUE)
             u == Unshelve(tables, b.address)
  <2>1. n \in DOMAIN freed /\ Holds(b)
    <3>1. DOMAIN freed \in SUBSET Nat /\ \A i \in DOMAIN freed : Holds(freed[i])
      BY <1>2, <1>3, TablesAre DEF Fine
    <3>2. \A i \in DOMAIN freed : freed[i].capacity \in Nat
      BY <3>1 DEF Holds, BlockRecord
    <3>3. n \in Fits(freed, want)
      BY <1>5, <3>1, <3>2, FitIs
    <3> QED BY <3>1, <3>3 DEF Fits
  <2>2. r = [t |-> Put(u, c), top |-> top, journal |-> Append(journal, e)]
    BY <1>5 DEF Allocate, want
  <2> HIDE DEF n
  <2>3. c.address = b.address /\ c.size = size
    BY <2>1 DEF Holds, BlockRecord
  <2>4. e.block = b
    BY DEF Allocated
  <2> HIDE DEF c, e
  <2>5. u.blocks = blocks /\ Fine(u)
    BY <1>2, <1>3, <2>1, UnshelveIs
  <2>6. b.address \notin DOMAIN blocks
    BY <1>2, <1>3, <2>1 DEF Fine
  <2>7. Put(u, c).blocks = [x \in DOMAIN blocks \cup {b.address} |-> IF x = b.address THEN c ELSE blocks[x]]
    <3> HIDE DEF u
    <3> QED BY <2>3, <2>5, TablesAre DEF Put
  <2> HIDE DEF u
  <2>8. r.journal[Len(r.journal)] = e /\ r.t.blocks = Put(u, c).blocks
    BY <1>4, <2>2
  <2> QED BY <2>3, <2>4, <2>6, <2>7, <2>8 DEF Handed
<1>6. CASE Fits(freed, want) = {}
  <2> DEFINE b == Block(top, size, want)
             e == Allocated("alloc", b, FALSE)
  <2>1. r = [t |-> Put(tables, b), top |-> top + want, journal |-> Append(journal, e)]
    BY <1>6 DEF Allocate, want
  <2>2. b.address = top /\ b.size = size /\ e.block = b
    BY DEF Block, Allocated
  <2> HIDE DEF b, e
  <2>3. top \notin DOMAIN blocks
    <3>1. \A a \in DOMAIN blocks : a < top
      BY <1>2, <1>3, ApartIs
    <3> QED BY <1>2, <3>1
  <2>4. Put(tables, b).blocks = [x \in DOMAIN blocks \cup {top} |-> IF x = top THEN b ELSE blocks[x]]
    BY <1>2, <1>3, <2>2, TablesAre DEF Put
  <2>5. r.journal[Len(r.journal)] = e /\ r.t.blocks = Put(tables, b).blocks
    BY <1>4, <2>1
  <2> QED BY <2>2, <2>3, <2>4, <2>5 DEF Handed
<1> QED
  BY <1>5, <1>6

\* And it shares no byte of what was asked for with any of them, below the top.
LEMMA HandedApart ==
  ASSUME NEW h, NEW r, Good(r, h), NEW a, NEW size, Handed(r, a, size)
  PROVE  /\ a \in Nat /\ size \in Nat /\ a + size <= r.top /\ r.top \in Nat /\ a < r.top
         /\ \A x \in DOMAIN blocks : /\ x \in Nat /\ blocks[x].size \in Nat
                                     /\ a + size <= x \/ x + blocks[x].size <= a
<1>1. /\ Fine(r.t) /\ Apart(PlacesOf(r.t), r.top) /\ r.top \in Nat
  BY DEF Good
<1>2. DOMAIN r.t.blocks \subseteq Nat /\ PlacesOf(r.t).live = Where(r.t.blocks)
  BY <1>1, TablesAre, PlacesAre
<1>3. \A x \in DOMAIN r.t.blocks :
        /\ r.t.blocks[x].address = x /\ r.t.blocks[x].size \in Nat /\ r.t.blocks[x].capacity \in Nat \ {0}
        /\ r.t.blocks[x].size <= r.t.blocks[x].capacity
  BY <1>1 DEF Fine, Holds, BlockRecord
<1>4. \A x \in DOMAIN r.t.blocks :
        /\ Place(r.t.blocks[x]) \in PlacesOf(r.t).live
        /\ Place(r.t.blocks[x]).address = x /\ Place(r.t.blocks[x]).capacity = r.t.blocks[x].capacity
  BY <1>2, <1>3 DEF Place, Where
<1>5. PICK k \in Nat \ {0} : k = r.t.blocks[a].capacity
  BY <1>3 DEF Handed
<1>6. a \in Nat /\ size \in Nat /\ size <= k /\ a + k <= r.top
  <2>1. a \in DOMAIN r.t.blocks /\ r.t.blocks[a].size = size
    BY DEF Handed
  <2>2. Place(r.t.blocks[a]).address + Place(r.t.blocks[a]).capacity <= r.top
    BY <1>1, <1>4, <2>1 DEF Apart
  <2> QED BY <1>2, <1>3, <1>4, <1>5, <2>1, <2>2
<1>7. a + size <= r.top /\ a < r.top
  BY <1>1, <1>6
<1>8. ASSUME NEW x \in DOMAIN blocks
      PROVE  x \in Nat /\ blocks[x].size \in Nat /\ (a + size <= x \/ x + blocks[x].size <= a)
  <2>1. x \in DOMAIN r.t.blocks /\ r.t.blocks[x] = blocks[x] /\ x # a /\ a \in DOMAIN r.t.blocks
    BY DEF Handed
  <2>2. PICK l \in Nat \ {0} : l = r.t.blocks[x].capacity
    BY <1>3, <2>1
  <2>3. x \in Nat /\ blocks[x].size \in Nat /\ blocks[x].size <= l
    BY <1>2, <1>3, <2>1, <2>2
  <2>4. ~ (a < x + l /\ x < a + k)
    <3>1. Place(r.t.blocks[a]) # Place(r.t.blocks[x])
      BY <1>4, <2>1
    <3>2. ~ Overlap(Place(r.t.blocks[a]), Place(r.t.blocks[x]))
      BY <1>1, <1>4, <2>1, <3>1 DEF Apart
    <3> QED BY <1>4, <1>5, <2>1, <2>2, <3>2 DEF Overlap
  <2> QED BY <1>6, <2>3, <2>4
<1> QED
  BY <1>1, <1>6, <1>7, <1>8

\* The same, of malloc, which gives a byte to who asks for none.
LEMMA MallocHands ==
  ASSUME NEW h, Now(h), NEW size \in Nat, NEW r \in Malloc(size)
  PROVE  Handed(r, r.journal[Len(r.journal)].block.address, IF size = 0 THEN 1 ELSE size)
BY AllocateHands DEF Malloc

LEMMA ReallocGood ==
  ASSUME NEW h, Now(h), NEW a \in DOMAIN blocks, NEW size \in Nat, NEW r \in Realloc(a, size)
  PROVE  Good(r, h)
<1>1. Good(AsIs, h) /\ AsIs.t.blocks = blocks
  BY AsIsGood DEF AsIs, tables
<1>2. CASE size = 0
  <2>1. r = Release(AsIs, a)
    BY <1>2 DEF Realloc
  <2> QED BY <1>1, <2>1, ReleaseGood
<1>3. CASE size # 0 /\ blocks[a].capacity >= size
  <2>1. r = [AsIs EXCEPT !.t = Put(tables, [blocks[a] EXCEPT !.size = size])]
    BY <1>3 DEF Realloc
  <2> QED BY <1>3, <2>1, ResizeGood
<1>4. CASE size # 0 /\ ~(blocks[a].capacity >= size)
  <2>1. PICK s \in Malloc(size) : r = Release(s, a)
    BY <1>4 DEF Realloc
  <2>2. Good(s, h) /\ a \in DOMAIN s.t.blocks
    BY MallocGood
  <2> QED BY <2>1, <2>2, ReleaseGood
<1> QED
  BY <1>2, <1>3, <1>4

----------------------------------------------------------------------------
(* The invariant. *)

LogRecord == [top : Nat, mapped : Nat, mark : Nat, was : Tables]

\* A call still in the log is at a mark the journal reaches, and the places
\* there are those it was logged with.
LogInv(h) ==
  /\ \A i \in DOMAIN log :
       /\ log[i].mark \in dropped..mark
       /\ h[log[i].mark] = PlacesOf(log[i].was)
       /\ Apart(PlacesOf(log[i].was), log[i].top)
       /\ log[i].top <= Size /\ log[i].top <= log[i].mapped
  /\ \A i, j \in DOMAIN log : i <= j => log[i].mark <= log[j].mark

HeapInv ==
  /\ log \in Seq(LogRecord) /\ mapped \in Nat /\ top <= mapped
  /\ \E h : Now(h) /\ LogInv(h)

LEMMA HeapBegins == Init => HeapInv
<1> SUFFICES ASSUME Init PROVE HeapInv
  OBVIOUS
<1>1. blocks = <<>> /\ freed = <<>> /\ top = 0 /\ mapped = 0 /\ journal = <<>> /\ dropped = 0 /\ log = <<>>
  BY DEF Init
<1>2. DOMAIN blocks = {} /\ DOMAIN freed = {} /\ Len(journal) = 0
  BY <1>1
<1>3. Fine(tables)
  <2>1. tables.blocks = blocks /\ tables.freed = freed
    BY DEF tables
  <2>2. blocks \in [{} -> BlockRecord] /\ freed \in Seq(BlockRecord)
    BY <1>1, <1>2
  <2>3. tables \in Tables
    BY <2>2 DEF tables, Tables
  <2> QED BY <1>2, <2>1, <2>3, FS_EmptySet DEF Fine
<1>4. PlacesOf(tables).live = {} /\ PlacesOf(tables).free = {}
  BY <1>2, <1>3, PlacesAre DEF Where, tables
<1>5. Apart(PlacesOf(tables), top)
  BY <1>4 DEF Apart
<1> DEFINE g == [k \in 0..0 |-> PlacesOf(tables)]
<1>6. Remembers(g, PlacesOf(tables), journal, dropped)
  <2>1. PlacesOf(tables) \in PlacesState
    BY <1>3, PlacesAre
  <2> QED BY <1>1, <1>2, <2>1 DEF Remembers
<1> HIDE DEF g
<1>7. Now(g)
  BY <1>1, <1>3, <1>5, <1>6, SizesAssumption DEF Now
<1>8. LogInv(g)
  BY <1>1 DEF LogInv
<1> QED
  BY <1>1, <1>7, <1>8 DEF HeapInv

\* A call becomes one of its outcomes.
LEMMA CallStep ==
  ASSUME HeapInv, Logged, NEW outcomes, Becomes(outcomes),
         \A h : Now(h) => \A r \in outcomes : Good(r, h)
  PROVE  HeapInv'
<1>1. PICK h : Now(h) /\ LogInv(h)
  BY DEF HeapInv
<1>2. PICK r \in (IF outcomes = {} THEN {AsIs} ELSE outcomes) :
        /\ blocks' = r.t.blocks /\ freed' = r.t.freed /\ top' = r.top /\ journal' = r.journal
        /\ mapped' = IF RoundUp(r.top, Page) > mapped THEN RoundUp(r.top, Page) ELSE mapped
        /\ UNCHANGED dropped
  BY DEF Becomes
<1>3. Good(r, h)
  BY <1>1, <1>2, AsIsGood
<1>4. /\ Fine(r.t) /\ r.journal \in Seq(Entry) /\ Len(journal) <= Len(r.journal)
      /\ r.top \in Nat /\ r.top <= Size /\ Apart(PlacesOf(r.t), r.top)
  BY <1>3 DEF Good
<1>5. PICK g : /\ Remembers(g, PlacesOf(r.t), r.journal, dropped)
               /\ \A k \in dropped..mark : g[k] = h[k]
  BY <1>3 DEF Good, Extended
<1>6. tables' = r.t
  BY <1>2, <1>4, TablesAre DEF tables
<1>7. Now(g)'
  BY <1>1, <1>2, <1>4, <1>5, <1>6 DEF Now
<1>8. /\ mapped' \in Nat /\ top' <= mapped'
  <2>1. RoundUp(r.top, Page) \in Nat /\ r.top <= RoundUp(r.top, Page) /\ mapped \in Nat
    BY <1>4, SizesAssumption, RoundUpIs DEF HeapInv
  <2> QED BY <1>2, <1>4, <2>1
<1> DEFINE entry == [top |-> top, mapped |-> mapped, mark |-> mark, was |-> tables]
<1>9. /\ mark \in Nat /\ mark' \in Nat /\ mark <= mark' /\ mark \in dropped..mark /\ dropped \in Nat
      /\ dropped' = dropped /\ dropped..mark \subseteq dropped..mark'
  BY <1>1, <1>2, <1>4 DEF Now, mark
<1>10. entry \in LogRecord /\ log' = Append(log, entry)
  BY <1>1, <1>9 DEF Logged, LogRecord, HeapInv, Now, Fine
<1>11. /\ entry.mark = mark /\ entry.was = tables /\ entry.top = top /\ entry.mapped = mapped
  OBVIOUS
<1> HIDE DEF entry
<1>12. log' \in Seq(LogRecord)
  BY <1>10 DEF HeapInv
<1>13. /\ log \in Seq(LogRecord) /\ DOMAIN log = 1..Len(log) /\ Len(log) \in Nat
       /\ DOMAIN log' = 1..(Len(log) + 1) /\ log'[Len(log) + 1] = entry
       /\ \A i \in 1..Len(log) : log'[i] = log[i]
  BY <1>10 DEF HeapInv
<1>14. h[mark] = PlacesOf(tables)
  BY <1>1 DEF Now, Remembers, mark
<1>15. ASSUME NEW i \in DOMAIN log'
       PROVE  /\ log'[i].mark \in dropped..mark
              /\ g[log'[i].mark] = PlacesOf(log'[i].was)
              /\ Apart(PlacesOf(log'[i].was), log'[i].top)
              /\ log'[i].top <= Size /\ log'[i].top <= log'[i].mapped
  <2>1. CASE i = Len(log) + 1
    <3>1. log'[i] = entry
      BY <1>13, <2>1
    <3> QED BY <1>1, <1>5, <1>9, <1>11, <1>14, <3>1 DEF Now, HeapInv
  <2>2. CASE i # Len(log) + 1
    <3>1. i \in DOMAIN log /\ log'[i] = log[i]
      BY <1>13, <2>2
    <3> QED BY <1>1, <1>5, <3>1 DEF LogInv
  <2> QED BY <2>1, <2>2
<1>16. ASSUME NEW i \in DOMAIN log', NEW j \in DOMAIN log', i <= j
       PROVE  log'[i].mark <= log'[j].mark
  <2>1. CASE j = Len(log) + 1
    <3>1. log'[j].mark = mark
      BY <1>11, <1>13, <2>1
    <3>2. log'[i].mark \in dropped..mark
      BY <1>15
    <3> QED BY <1>9, <3>1, <3>2
  <2>2. CASE j # Len(log) + 1
    <3>1. i \in DOMAIN log /\ j \in DOMAIN log /\ log'[i] = log[i] /\ log'[j] = log[j]
      BY <1>13, <1>16, <2>2
    <3> QED BY <1>1, <1>16, <3>1 DEF LogInv
  <2> QED BY <2>1, <2>2
<1>17. LogInv(g)'
  BY <1>9, <1>15, <1>16 DEF LogInv
<1> QED
  BY <1>7, <1>8, <1>12, <1>17 DEF HeapInv

LEMMA MallocStep == HeapInv /\ CallMalloc => HeapInv'
<1> SUFFICES ASSUME HeapInv, CallMalloc PROVE HeapInv'
  OBVIOUS
<1>1. PICK n \in Sizes : Becomes(Malloc(n))
  BY DEF CallMalloc
<1>2. n \in Nat
  BY SizesAssumption
<1>3. \A h : Now(h) => \A r \in Malloc(n) : Good(r, h)
  BY <1>2, MallocGood
<1> QED
  BY <1>1, <1>3, CallStep DEF CallMalloc

LEMMA FreeStep == HeapInv /\ CallFree => HeapInv'
<1> SUFFICES ASSUME HeapInv, CallFree PROVE HeapInv'
  OBVIOUS
<1>1. PICK a \in DOMAIN blocks : Becomes({Release(AsIs, a)})
  BY DEF CallFree
<1>2. ASSUME NEW h, Now(h) PROVE \A r \in {Release(AsIs, a)} : Good(r, h)
  <2>1. Good(AsIs, h) /\ AsIs.t.blocks = blocks
    BY <1>2, AsIsGood DEF AsIs, tables
  <2> QED BY <1>2, <2>1, ReleaseGood
<1> QED
  BY <1>1, <1>2, CallStep DEF CallFree

LEMMA ReallocStep == HeapInv /\ CallRealloc => HeapInv'
<1> SUFFICES ASSUME HeapInv, CallRealloc PROVE HeapInv'
  OBVIOUS
<1>1. PICK a \in DOMAIN blocks, n \in Sizes : Becomes(Realloc(a, n))
  BY DEF CallRealloc
<1>2. n \in Nat
  BY SizesAssumption
<1>3. \A h : Now(h) => \A r \in Realloc(a, n) : Good(r, h)
  BY <1>2, ReallocGood
<1> QED
  BY <1>1, <1>3, CallStep DEF CallRealloc

\* Part of a journal remembers what the whole of it did.
LEMMA RemembersPart ==
  ASSUME NEW from \in Nat, NEW J \in Seq(Entry), NEW h, NEW p, Remembers(h, p, J, from),
         NEW lo \in Nat, NEW hi \in Nat, from <= lo, lo <= hi, hi <= from + Len(J)
  PROVE  /\ Remembers([k \in lo..hi |-> h[k]], h[hi], SubSeq(J, lo - from + 1, hi - from), lo)
         /\ SubSeq(J, lo - from + 1, hi - from) \in Seq(Entry)
         /\ lo + Len(SubSeq(J, lo - from + 1, hi - from)) = hi
<1> DEFINE g == [k \in lo..hi |-> h[k]]
           P == SubSeq(J, lo - from + 1, hi - from)
<1>1. /\ P \in Seq(Entry) /\ Len(P) = hi - lo
      /\ \A i \in 1..(hi - lo) : P[i] = J[lo - from + i]
  <2>1. lo - from + 1 \in 1..(Len(J) + 1) /\ hi - from \in (lo - from)..Len(J)
    OBVIOUS
  <2>2. \A i \in (lo - from + 1)..(hi - from) : i \in 1..Len(J) /\ J[i] \in Entry
    OBVIOUS
  <2>3. /\ Len(P) = IF lo - from + 1 <= hi - from THEN (hi - from) - (lo - from + 1) + 1 ELSE 0
        /\ P \in Seq(Entry)
        /\ \A i \in 1..Len(P) : P[i] = J[lo - from + 1 + i - 1]
    BY <2>1, <2>2, SubSeqProperties
  <2>4. Len(P) = hi - lo
    BY <2>3
  <2> HIDE DEF P
  <2>5. ASSUME NEW i \in 1..(hi - lo) PROVE P[i] = J[lo - from + i]
    <3>1. lo - from + 1 + i - 1 = lo - from + i
      OBVIOUS
    <3> QED BY <2>3, <2>4, <3>1
  <2> QED BY <2>3, <2>4, <2>5
<1>2. /\ h \in [from..(from + Len(J)) -> PlacesState]
      /\ \A k \in (from + 1)..(from + Len(J)) :
           Applies(h[k], J[k - from]) /\ h[k - 1] = Moved(h[k], J[k - from])
  BY DEF Remembers
<1>3. lo..hi \subseteq from..(from + Len(J)) /\ (lo + 1)..hi \subseteq (from + 1)..(from + Len(J))
  OBVIOUS
<1>4. g \in [lo..hi -> PlacesState] /\ \A k \in lo..hi : g[k] = h[k]
  BY <1>2, <1>3
<1> HIDE DEF g, P
<1>5. ASSUME NEW k \in (lo + 1)..hi
      PROVE  Applies(g[k], P[k - lo]) /\ g[k - 1] = Moved(g[k], P[k - lo])
  <2>1. /\ k \in lo..hi /\ k - 1 \in lo..hi /\ k - lo \in 1..(hi - lo)
        /\ lo - from + (k - lo) = k - from /\ k \in (from + 1)..(from + Len(J))
    OBVIOUS
  <2>2. P[k - lo] = J[k - from]
    BY <1>1, <2>1
  <2> QED BY <1>2, <1>4, <2>1, <2>2
<1>6. lo + Len(P) = hi /\ hi \in lo..hi
  BY <1>1
<1>7. Remembers(g, h[hi], P, lo)
  BY <1>4, <1>5, <1>6 DEF Remembers
<1> QED
  BY <1>1, <1>6, <1>7 DEF g, P

LEMMA RewindStep == ASSUME HeapInv, NEW i \in DOMAIN log, Rewind(i) PROVE HeapInv'
<1>1. PICK h : Now(h) /\ LogInv(h)
  BY DEF HeapInv
<1>a. PICK snap : snap = log[i]
  OBVIOUS
<1>b. PICK m : m = snap.mark
  OBVIOUS
<1>c. PICK t : t = UndoneTo(m)
  OBVIOUS
<1>2. /\ blocks' = t.blocks /\ freed' = t.freed /\ top' = snap.top /\ mapped' = snap.mapped
      /\ journal' = SubSeq(journal, 1, m - dropped) /\ log' = SubSeq(log, 1, i - 1)
      /\ dropped' = dropped
  BY <1>a, <1>b, <1>c DEF Rewind
<1>3. /\ m \in dropped..mark /\ h[m] = PlacesOf(snap.was) /\ Apart(PlacesOf(snap.was), snap.top)
      /\ snap.top <= Size /\ snap.top <= snap.mapped /\ snap.top \in Nat /\ snap.mapped \in Nat
      /\ dropped \in Nat /\ journal \in Seq(Entry) /\ m \in Nat
      /\ mark = dropped + Len(journal) /\ dropped <= m /\ m <= dropped + Len(journal)
  <2>1. snap \in LogRecord
    BY <1>a DEF HeapInv
  <2>2. Len(journal) \in Nat
    BY <1>1 DEF Now
  <2> QED BY <1>1, <1>a, <1>b, <2>1, <2>2 DEF LogInv, LogRecord, Now, mark
<1>4. Fine(t) /\ PlacesOf(t) = h[m]
  BY <1>1, <1>3, <1>c, UndoneRight DEF Now
<1>5. tables' = t
  BY <1>2, <1>4, TablesAre DEF tables
<1>d. PICK g : g = [k \in dropped..m |-> h[k]]
  OBVIOUS
<1>6. /\ Remembers(g, h[m], journal', dropped) /\ journal' \in Seq(Entry)
      /\ dropped + Len(journal') = m
  <2>1. dropped - dropped + 1 = 1 /\ dropped <= dropped
    BY <1>3
  <2>2. Remembers(h, PlacesOf(tables), journal, dropped)
    BY <1>1 DEF Now
  <2>3. /\ Remembers(g, h[m], SubSeq(journal, dropped - dropped + 1, m - dropped), dropped)
        /\ SubSeq(journal, dropped - dropped + 1, m - dropped) \in Seq(Entry)
        /\ dropped + Len(SubSeq(journal, dropped - dropped + 1, m - dropped)) = m
    BY <1>3, <1>d, <2>1, <2>2, RemembersPart
  <2> QED BY <1>2, <2>1, <2>3
<1>7. \A k \in dropped..m : g[k] = h[k]
  BY <1>d
<1>8. Now(g)'
  BY <1>2, <1>3, <1>4, <1>5, <1>6 DEF Now
<1>9. mark' = m
  BY <1>2, <1>6 DEF mark
<1>10. /\ log' \in Seq(LogRecord) /\ DOMAIN log' \subseteq DOMAIN log
       /\ \A j \in DOMAIN log' : log'[j] = log[j] /\ j <= i
  <2>1. log \in Seq(LogRecord) /\ i \in 1..Len(log)
    BY DEF HeapInv
  <2>2. /\ log' \in Seq(LogRecord) /\ Len(log') = i - 1
        /\ \A j \in 1..(i - 1) : log'[j] = log[j]
    BY <1>2, <2>1, SubSeqProperties
  <2>3. DOMAIN log' = 1..(i - 1)
    BY <2>1, <2>2
  <2> QED BY <2>1, <2>2, <2>3
<1>11. ASSUME NEW j \in DOMAIN log'
       PROVE  log'[j].mark \in dropped..m /\ g[log'[j].mark] = PlacesOf(log'[j].was)
  <2>1. /\ j \in DOMAIN log /\ log'[j] = log[j] /\ j <= i
    BY <1>10
  <2>2. log[j].mark \in dropped..mark /\ log[j].mark <= m /\ h[log[j].mark] = PlacesOf(log[j].was)
    BY <1>1, <1>a, <1>b, <2>1 DEF LogInv
  <2>3. log[j].mark \in dropped..m
    BY <1>3, <2>2
  <2> QED BY <1>7, <2>1, <2>2, <2>3
<1>12. LogInv(g)'
  BY <1>1, <1>2, <1>9, <1>10, <1>11 DEF LogInv
<1> QED
  BY <1>2, <1>3, <1>8, <1>10, <1>12 DEF HeapInv

LEMMA ForgetStep == ASSUME HeapInv, NEW n \in DOMAIN log, Forget(n) PROVE HeapInv'
<1>1. PICK h : Now(h) /\ LogInv(h)
  BY DEF HeapInv
<1>2. /\ log' = SubSeq(log, n + 1, Len(log)) /\ UNCHANGED <<blocks, freed, top, mapped>>
      /\ tables' = tables
  BY DEF Forget, tables
<1>3. /\ dropped \in Nat /\ journal \in Seq(Entry) /\ Len(journal) \in Nat
      /\ mark = dropped + Len(journal) /\ mark \in Nat
      /\ Remembers(h, PlacesOf(tables), journal, dropped) /\ h[mark] = PlacesOf(tables)
  BY <1>1 DEF Now, Remembers, mark
<1>4. /\ log' \in Seq(LogRecord) /\ Len(log') = Len(log) - n /\ DOMAIN log' = 1..(Len(log) - n)
      /\ \A j \in DOMAIN log' : n + j \in DOMAIN log /\ log'[j] = log[n + j]
  <2>1. log \in Seq(LogRecord) /\ n \in 1..Len(log) /\ Len(log) \in Nat
    BY DEF HeapInv
  <2>2. /\ log' \in Seq(LogRecord) /\ Len(log') = Len(log) - n
        /\ \A j \in 1..(Len(log) - n) : log'[j] = log[n + j]
    BY <1>2, <2>1, SubSeqProperties
  <2>3. DOMAIN log' = 1..(Len(log) - n)
    BY <2>1, <2>2
  <2> QED BY <2>1, <2>2, <2>3
<1>a. PICK lo : lo = Kept(log')
  OBVIOUS
<1>5. /\ lo \in dropped..mark
      /\ \A j \in DOMAIN log' : lo <= log'[j].mark
  <2>1. CASE log' = <<>>
    <3>1. Kept(log') = mark
      BY <2>1 DEF Kept
    <3> QED BY <1>3, <1>a, <2>1, <3>1
  <2>2. CASE log' # <<>>
    <3>1. Kept(log') = Head(log').mark
      BY <2>2 DEF Kept
    <3>2. 1 \in DOMAIN log' /\ Head(log') = log'[1]
      BY <1>4, <2>2
    <3>3. n + 1 \in DOMAIN log /\ log'[1] = log[n + 1]
      BY <1>4, <3>2
    <3>4. log[n + 1].mark \in dropped..mark
      BY <1>1, <3>3 DEF LogInv
    <3>5. ASSUME NEW j \in DOMAIN log' PROVE log[n + 1].mark <= log'[j].mark
      <4>1. n + j \in DOMAIN log /\ log'[j] = log[n + j]
        BY <1>4
      <4>2. n + 1 <= n + j
        <5>1. j \in 1..(Len(log) - n) /\ n \in 1..Len(log)
          BY <1>4 DEF HeapInv
        <5> QED BY <5>1
      <4> QED BY <1>1, <3>3, <4>1, <4>2 DEF LogInv
    <3> QED BY <1>a, <3>1, <3>3, <3>4, <3>5
  <2> QED BY <2>1, <2>2
<1>6. /\ dropped' = lo /\ journal' = SubSeq(journal, lo - dropped + 1, mark - dropped)
  <2> DEFINE keep == lo - dropped
  <2>1. IF keep > 0
        THEN journal' = SubSeq(journal, keep + 1, Len(journal)) /\ dropped' = dropped + keep
        ELSE UNCHANGED <<journal, dropped>>
    BY <1>a DEF Forget
  <2> HIDE DEF keep
  <2>2. mark - dropped = Len(journal) /\ lo \in Nat /\ dropped <= lo
    BY <1>3, <1>5
  <2>3. CASE keep > 0
    BY <1>3, <2>1, <2>2, <2>3 DEF keep
  <2>4. CASE ~(keep > 0)
    <3>1. lo = dropped /\ journal' = journal /\ dropped' = dropped /\ lo - dropped + 1 = 1
      BY <1>3, <2>1, <2>2, <2>4 DEF keep
    <3>2. SubSeq(journal, 1, Len(journal)) = journal
      BY <1>3
    <3> QED BY <2>2, <3>1, <3>2
  <2> QED BY <2>3, <2>4
<1>b. PICK g : g = [k \in lo..mark |-> h[k]]
  OBVIOUS
<1>7. lo \in Nat /\ dropped <= lo /\ lo <= mark /\ mark <= dropped + Len(journal)
  BY <1>3, <1>5
<1>8. /\ Remembers(g, PlacesOf(tables), journal', lo) /\ journal' \in Seq(Entry)
      /\ lo + Len(journal') = mark
  <2>1. /\ Remembers(g, h[mark], SubSeq(journal, lo - dropped + 1, mark - dropped), lo)
        /\ SubSeq(journal, lo - dropped + 1, mark - dropped) \in Seq(Entry)
        /\ lo + Len(SubSeq(journal, lo - dropped + 1, mark - dropped)) = mark
    BY <1>3, <1>7, <1>b, RemembersPart
  <2> QED BY <1>3, <1>6, <2>1
<1>9. \A k \in lo..mark : g[k] = h[k]
  BY <1>b
<1>10. Now(g)'
  BY <1>1, <1>2, <1>6, <1>7, <1>8 DEF Now
<1>11. mark' = mark
  BY <1>6, <1>8 DEF mark
<1>12. ASSUME NEW j \in DOMAIN log'
       PROVE  /\ log'[j].mark \in lo..mark
              /\ g[log'[j].mark] = PlacesOf(log'[j].was)
              /\ Apart(PlacesOf(log'[j].was), log'[j].top)
              /\ log'[j].top <= Size /\ log'[j].top <= log'[j].mapped
  <2>1. n + j \in DOMAIN log /\ log'[j] = log[n + j]
    BY <1>4
  <2>2. log'[j].mark \in dropped..mark /\ lo <= log'[j].mark
    BY <1>1, <1>5, <2>1 DEF LogInv
  <2>3. log'[j].mark \in lo..mark
    BY <1>7, <2>2
  <2> QED BY <1>1, <1>9, <2>1, <2>3 DEF LogInv
<1>13. ASSUME NEW j \in DOMAIN log', NEW k \in DOMAIN log', j <= k
       PROVE  log'[j].mark <= log'[k].mark
  <2>1. /\ n + j \in DOMAIN log /\ log'[j] = log[n + j]
        /\ n + k \in DOMAIN log /\ log'[k] = log[n + k]
    BY <1>4
  <2>2. n + j <= n + k
    <3>1. n \in Nat /\ j \in Nat /\ k \in Nat
      BY <1>4 DEF HeapInv
    <3> QED BY <1>13, <3>1
  <2> QED BY <1>1, <2>1, <2>2 DEF LogInv
<1>14. LogInv(g)'
  BY <1>6, <1>11, <1>12, <1>13 DEF LogInv
<1> QED
  BY <1>2, <1>4, <1>10, <1>14 DEF HeapInv

----------------------------------------------------------------------------

\* HeapInv holds whatever is called, undone and forgotten.
THEOREM HeapHolds == Spec => []HeapInv
<1>1. HeapInv /\ [Next]_vars => HeapInv'
  <2> SUFFICES ASSUME HeapInv, [Next]_vars PROVE HeapInv'
    OBVIOUS
  <2>1. CASE UNCHANGED vars
    BY <2>1 DEF vars, HeapInv, Now, LogInv, tables, mark
  <2> QED
    BY <2>1, MallocStep, FreeStep, ReallocStep, RewindStep, ForgetStep DEF Next
<1> QED
  BY HeapBegins, <1>1, PTL DEF Spec

LEMMA UndoableIs == HeapInv => Undoable
<1> SUFFICES ASSUME HeapInv, NEW i \in DOMAIN log
             PROVE  /\ log[i].mark >= dropped
                    /\ LET t == UndoneTo(log[i].mark) IN
                         /\ Places(Live(t)) = Places(Live(log[i].was))
                         /\ Places(Free(t)) = Places(Free(log[i].was))
  BY DEF Undoable
<1>1. PICK h : Now(h) /\ LogInv(h)
  BY DEF HeapInv
<1>2. log[i].mark \in dropped..mark /\ h[log[i].mark] = PlacesOf(log[i].was)
  BY <1>1 DEF LogInv
<1>3. PlacesOf(UndoneTo(log[i].mark)) = PlacesOf(log[i].was)
  BY <1>1, <1>2, UndoneRight DEF Now
<1>4. dropped \in Nat /\ mark \in Nat
  BY <1>1 DEF Now, mark
<1> QED
  BY <1>2, <1>3, <1>4 DEF PlacesOf

\* How many blocks there are.
LEMMA BlocksCounted ==
  ASSUME NEW t, Fine(t), NEW limit \in Nat, Apart(PlacesOf(t), limit)
  PROVE  Cardinality(Live(t) \cup Free(t)) = Cardinality(DOMAIN t.blocks) + Len(t.freed)
<1> DEFINE L == Live(t)
           F == Free(t)
<1>0. IsFiniteSet(DOMAIN t.blocks) /\ Len(t.freed) \in Nat /\ DOMAIN t.freed = 1..Len(t.freed)
  BY TablesAre DEF Fine
<1>1. IsFiniteSet(L) /\ Cardinality(L) = Cardinality(DOMAIN t.blocks)
  <2> DEFINE f == [a \in DOMAIN t.blocks |-> t.blocks[a]]
  <2>1. f \in Bijection(DOMAIN t.blocks, L)
    <3>1. f \in [DOMAIN t.blocks -> L] /\ \A x \in L : \E a \in DOMAIN t.blocks : f[a] = x
      BY DEF Live
    <3>2. \A a, b \in DOMAIN t.blocks : f[a] = f[b] => a = b
      BY DEF Fine
    <3> QED BY <3>1, <3>2 DEF Bijection, Injection, Surjection, IsInjective
  <2> HIDE DEF f, L
  <2>2. ExistsBijection(DOMAIN t.blocks, L)
    BY <2>1 DEF ExistsBijection
  <2> QED BY <1>0, <2>2, FS_Bijection
<1>2. IsFiniteSet(F) /\ Cardinality(F) = Len(t.freed)
  <2> DEFINE f == [i \in 1..Len(t.freed) |-> t.freed[i]]
  <2>1. f \in Bijection(1..Len(t.freed), F)
    <3>1. f \in [1..Len(t.freed) -> F] /\ \A x \in F : \E i \in 1..Len(t.freed) : f[i] = x
      BY <1>0 DEF Free, ToSet
    <3>2. \A i, j \in 1..Len(t.freed) : f[i] = f[j] => i = j
      BY <1>0 DEF Fine
    <3> QED BY <3>1, <3>2 DEF Bijection, Injection, Surjection, IsInjective
  <2> HIDE DEF f, F
  <2>2. ExistsBijection(1..Len(t.freed), F)
    BY <2>1 DEF ExistsBijection
  <2>3. IsFiniteSet(1..Len(t.freed)) /\ Cardinality(1..Len(t.freed)) = Len(t.freed)
    BY <1>0, FS_Interval
  <2> QED BY <2>2, <2>3, FS_Bijection
<1>3. L \cap F = {}
  BY DEF Fine, Live, Free, ToSet
<1> HIDE DEF L, F
<1>4. Cardinality(L \cup F) = Cardinality(L) + Cardinality(F) - Cardinality(L \cap F)
  BY <1>1, <1>2, FS_Union
<1>5. Cardinality(L \cap F) = 0
  BY <1>3, FS_EmptySet
<1>6. Cardinality(L) \in Nat /\ Cardinality(F) \in Nat
  BY <1>1, <1>2, FS_CardinalityType
<1> QED
  BY <1>1, <1>2, <1>4, <1>5, <1>6 DEF L, F

LEMMA SoundIs == HeapInv => Sound
<1> SUFFICES ASSUME HeapInv PROVE Sound
  OBVIOUS
<1> DEFINE all == Live(tables) \cup Free(tables)
<1>1. /\ Fine(tables) /\ Apart(PlacesOf(tables), top) /\ top \in Nat /\ top <= Size /\ top <= mapped
      /\ tables.blocks = blocks /\ tables.freed = freed
  BY DEF HeapInv, Now, tables
<1>2. Cardinality(all) = Cardinality(DOMAIN blocks) + Len(freed)
  BY <1>1, BlocksCounted
<1>3. ASSUME NEW b \in all
      PROVE  /\ Holds(b) /\ Place(b) \in PlacesOf(tables).live \cup PlacesOf(tables).free
             /\ \A c \in all : b.address = c.address => b = c
  <2>1. \A x \in all : \/ \E a \in DOMAIN blocks : x = blocks[a]
                       \/ \E i \in DOMAIN freed : x = freed[i]
    BY <1>1 DEF Live, Free, ToSet
  <2>2. \A a \in DOMAIN blocks : Holds(blocks[a]) /\ blocks[a].address = a
    BY <1>1 DEF Fine
  <2>3. \A i \in DOMAIN freed : Holds(freed[i]) /\ freed[i].address \notin DOMAIN blocks
    BY <1>1 DEF Fine
  <2>4. \A i, j \in DOMAIN freed : freed[i].address = freed[j].address => i = j
    BY <1>1 DEF Fine
  <2>5. \A c \in all : b.address = c.address => b = c
    BY <2>1, <2>2, <2>3, <2>4
  <2>6. Place(b) \in PlacesOf(tables).live \cup PlacesOf(tables).free
    BY <1>1, <2>1, ApartIs
  <2> QED BY <2>1, <2>2, <2>3, <2>5, <2>6
<1>4. ASSUME NEW b \in all PROVE b.size <= b.capacity /\ b.address + b.capacity <= top
  <2>1. Place(b).address = b.address /\ Place(b).capacity = b.capacity
    BY DEF Place
  <2> QED BY <1>1, <1>3, <2>1 DEF Apart, Holds
<1>5. ASSUME NEW b \in all, NEW c \in all, b # c PROVE ~ Overlap(b, c)
  <2>1. /\ Place(b).address = b.address /\ Place(b).capacity = b.capacity
        /\ Place(c).address = c.address /\ Place(c).capacity = c.capacity
    BY DEF Place
  <2>2. Place(b) # Place(c)
    BY <1>3, <1>5, <2>1
  <2>3. ~ Overlap(Place(b), Place(c))
    BY <1>1, <1>3, <2>2 DEF Apart
  <2> QED BY <2>1, <2>3 DEF Overlap
<1> QED
  BY <1>1, <1>2, <1>4, <1>5 DEF Sound

\* The allocator hands out no byte twice and nothing it has not mapped, in any
\* heap and however often it is rewound (stubs.py, Heap).
THEOREM HandsOutOnce == Spec => []Sound
BY HeapHolds, SoundIs, PTL

\* Every call still logged can be undone: the journal reaches back to it, and
\* the blocks are where they were (stubs.py, snapshot, restore and forget).
THEOREM StaysUndoable == Spec => []Undoable
BY HeapHolds, UndoableIs, PTL
=============================================================================
