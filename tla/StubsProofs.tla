----------------------------- MODULE StubsProofs -----------------------------
(***************************************************************************)
(* That what is written down of a stubbed call reproduces it and undoes    *)
(* it (Stubs), for every program, memory and heap; and that the functions  *)
(* do what C says of them.  The allocator's part is cited from HeapProofs, *)
(* for the heap of Stubs.                                                  *)
(***************************************************************************)
EXTENDS Stubs, Sums, SequenceTheorems

HP == INSTANCE HeapProofs WITH Size <- HeapSize, Sizes <- {}, Ops <- {}, MaxCalls <- 0,
        blocks <- heap.blocks, freed <- heap.freed, top <- heap.top, mapped <- heap.mapped,
        journal <- heap.journal, dropped <- 0, log <- <<>>

----------------------------------------------------------------------------
(* The allocator of Stubs is that of HeapProofs. *)

LEMMA HeapAssumption == HP!SizesAssumption
BY LayoutAssumption DEF HP!SizesAssumption

LEMMA SameRoundUp == \A n, unit : H!RoundUp(n, unit) = HP!RoundUp(n, unit)
BY DEF H!RoundUp, HP!RoundUp

LEMMA SamePlaces == \A bs : H!Places(bs) = HP!Places(bs)
BY DEF H!Places, HP!Places

LEMMA SameTables ==
  /\ H!tables = HP!tables
  /\ \A t, b : H!Put(t, b) = HP!Put(t, b) /\ H!Shelve(t, b) = HP!Shelve(t, b)
  /\ \A t, a : H!Take(t, a) = HP!Take(t, a) /\ H!Unshelve(t, a) = HP!Unshelve(t, a)
<1>1. H!tables = HP!tables
  BY DEF H!tables, HP!tables
<1>2. \A t, b : H!Put(t, b) = HP!Put(t, b) /\ H!Shelve(t, b) = HP!Shelve(t, b)
  BY DEF H!Put, HP!Put, H!Shelve, HP!Shelve
<1>3. \A t, a : H!Take(t, a) = HP!Take(t, a)
  BY DEF H!Take, HP!Take
<1>4. \A t, a : H!Unshelve(t, a) = HP!Unshelve(t, a)
  <2>1. \A s, i : H!RemoveAt(s, i) = HP!RemoveAt(s, i)
    BY DEF H!RemoveAt, HP!RemoveAt
  <2>2. \A s : H!Min(s) = HP!Min(s)
    BY DEF H!Min, HP!Min
  <2> QED BY <2>1, <2>2 DEF H!Unshelve, HP!Unshelve
<1> QED
  BY <1>1, <1>2, <1>3, <1>4

LEMMA SameMalloc == \A n : H!Malloc(n) = HP!Malloc(n)
<1>1. \A list, want : H!Fits(list, want) = HP!Fits(list, want)
  BY DEF H!Fits, HP!Fits
<1>2. \A list, want : H!Fit(list, want) = HP!Fit(list, want)
  BY <1>1 DEF H!Fit, HP!Fit
<1>3. \A n : H!Want(n) = HP!Want(n)
  BY SameRoundUp DEF H!Want, HP!Want
<1>4. \A a, n, k : H!Block(a, n, k) = HP!Block(a, n, k)
  BY DEF H!Block, HP!Block
<1>5. \A what, b, reused : H!Allocated(what, b, reused) = HP!Allocated(what, b, reused)
  BY DEF H!Allocated, HP!Allocated
<1>6. \A n : H!Allocate(n) = HP!Allocate(n)
  BY <1>1, <1>2, <1>3, <1>4, <1>5, SameTables DEF H!Allocate, HP!Allocate
<1> QED
  BY <1>6 DEF H!Malloc, HP!Malloc

LEMMA SameRelease == \A r, a : H!Release(r, a) = HP!Release(r, a)
<1>1. \A what, b, reused : H!Allocated(what, b, reused) = HP!Allocated(what, b, reused)
  BY DEF H!Allocated, HP!Allocated
<1> QED
  BY <1>1, SameTables DEF H!Release, HP!Release

LEMMA SameUndone == \A m : H!UndoneTo(m) = HP!UndoneTo(m)
<1>1. \A t, e : H!Undone(t, e) = HP!Undone(t, e)
  BY SameTables DEF H!Undone, HP!Undone
<1>2. H!mark = HP!mark
  BY DEF H!mark, HP!mark
<1> QED
  BY <1>1, <1>2, SameTables DEF H!UndoneTo, HP!UndoneTo

----------------------------------------------------------------------------
(* What replaying one entry makes of memory. *)

\* Regions first.
Grown(mem, maps) ==
  [a \in DOMAIN mem |-> IF a \in maps /\ mem[a] = Absent THEN 0 ELSE mem[a]]

Store(mem, w) ==
  IF Mapped(mem, Span(w[1], Len(w[2])))
  THEN [a \in DOMAIN mem |-> IF a \in Span(w[1], Len(w[2])) THEN w[2][a - w[1] + 1] ELSE mem[a]]
  ELSE mem

Storing(f, base, writes) ==
  f = [i \in 0..Len(writes) |-> IF i = 0 THEN base ELSE Store(f[i - 1], writes[i])]

\* Then memory.
Stored(base, writes) == (CHOOSE f : Storing(f, base, writes))[Len(writes)]

LEMMA ApplyIs ==
  ASSUME NEW m, NEW e
  PROVE  Apply(m, e) = [mem |-> Stored(Grown(m.mem, e.did.maps), e.did.writes),
                        ret |-> Return(m.ret, e.ret)]
<1> DEFINE mapped == [a \in DOMAIN m.mem |->
             IF a \in e.did.maps /\ m.mem[a] = Absent THEN 0 ELSE m.mem[a]]
<1>1. mapped = Grown(m.mem, e.did.maps)
  BY DEF Grown
<1>2. Apply(m, e) = [mem |-> Stored(mapped, e.did.writes), ret |-> Return(m.ret, e.ret)]
  BY DEF Apply, Stored, Storing, Store
<1> QED
  BY <1>1, <1>2

LEMMA StoredNone == ASSUME NEW base PROVE Stored(base, <<>>) = base
<1> DEFINE f == [i \in 0..0 |-> base]
<1>1. Storing(f, base, <<>>)
  BY DEF Storing
<1>2. PICK g : g = (CHOOSE h : Storing(h, base, <<>>)) /\ Storing(g, base, <<>>)
  BY <1>1
<1>3. g[0] = base
  BY <1>2 DEF Storing
<1> QED
  BY <1>2, <1>3 DEF Stored

LEMMA StoredOne == ASSUME NEW base, NEW w PROVE Stored(base, <<w>>) = Store(base, w)
<1> DEFINE f == [i \in 0..1 |-> IF i = 0 THEN base ELSE Store(base, w)]
           ws == <<w>>
<1>0. Len(ws) = 1 /\ ws[1] = w /\ 0..1 = {0, 1}
  OBVIOUS
<1> HIDE DEF ws
<1>1. Storing(f, base, ws)
  <2>1. f[0] = base /\ f[1] = Store(base, w)
    OBVIOUS
  <2> DEFINE g == [i \in 0..Len(ws) |-> IF i = 0 THEN base ELSE Store(f[i - 1], ws[i])]
  <2>2. g[0] = base /\ g[1] = Store(base, w)
    BY <1>0, <2>1
  <2>3. f = g
    <3>1. DOMAIN f = 0..1 /\ DOMAIN g = 0..1 /\ f = [i \in 0..1 |-> f[i]] /\ g = [i \in 0..1 |-> g[i]]
      BY <1>0
    <3> HIDE DEF f, g
    <3> QED BY <1>0, <2>1, <2>2, <3>1
  <2> HIDE DEF f
  <2> QED BY <2>3 DEF Storing
<1>2. PICK g : g = (CHOOSE h : Storing(h, base, ws)) /\ Storing(g, base, ws)
  BY <1>1
<1>3. g[0] = base /\ g[1] = Store(g[0], w)
  BY <1>0, <1>2 DEF Storing
<1> QED
  BY <1>0, <1>2, <1>3 DEF Stored, ws

----------------------------------------------------------------------------
(* A call in progress. *)

\* The tables of an allocator, and what of it the functions of Heap work on.
Tab(p) == [blocks |-> p.blocks, freed |-> p.freed]
Outcome(p) == [t |-> Tab(p), top |-> p.top, journal |-> p.journal]

IsHeap(p) == p = [blocks |-> p.blocks, freed |-> p.freed, top |-> p.top,
                  journal |-> p.journal, mapped |-> p.mapped]

\* The arena is mapped from below the top to no further than it reaches.
Reaches(p) ==
  /\ p.mapped \in Nat /\ p.top \in Nat /\ p.top <= HeapSize
  /\ p.top <= p.mapped /\ p.mapped <= H!RoundUp(HeapSize, Page)

\* Of the arena just what is mapped is there.
IsMemory(mem, mapped) ==
  /\ mem \in [Addresses -> Bytes \cup {Absent}]
  /\ \A a \in Addresses : a >= HeapBase => (mem[a] = Absent <=> a >= HeapBase + mapped)

IsCall(s) == s = [mem |-> s.mem, heap |-> s.heap, did |-> s.did, ret |-> s.ret,
                  failed |-> s.failed, stop |-> s.stop]
IsDid(d) == d = [writes |-> d.writes, maps |-> d.maps, output |-> d.output]

\* What has been done is written down, and makes of the memory at the start
\* what it is now; the allocator is on its way from where it was at the
\* start, with the places g at the marks until then.
Progress(s, g) ==
  /\ IsCall(s) /\ IsDid(s.did) /\ IsMemory(s.mem, s.heap.mapped)
  /\ s.mem = Stored(Grown(machine.mem, s.did.maps), s.did.writes)
  /\ IsHeap(s.heap) /\ Reaches(s.heap)
  /\ HP!Good(Outcome(s.heap), g)

\* Nothing has been written yet.
Clean(s) == s.did.writes = <<>>

\* What every state is before a call.
Ready(g) ==
  /\ IsMemory(machine.mem, heap.mapped) /\ IsHeap(heap) /\ Reaches(heap) /\ HP!Now(g)

LEMMA FieldsOf ==
  ASSUME NEW s, IsCall(s)
  PROVE  /\ DOMAIN s = {"mem", "heap", "did", "ret", "failed", "stop"}
         /\ s = [x \in DOMAIN s |-> s[x]]
BY DEF IsCall

\* What leaves memory, heap and record as they are is no progress.
LEMMA Aside ==
  ASSUME NEW s, NEW g, Progress(s, g), NEW t, IsCall(t), IsDid(t.did),
         t.mem = s.mem, t.heap = s.heap, t.did.writes = s.did.writes, t.did.maps = s.did.maps
  PROVE  Progress(t, g)
BY DEF Progress

LEMMA AnswerIs ==
  ASSUME NEW s, NEW g, Progress(s, g), NEW v
  PROVE  /\ Progress(Answer(s, v), g) /\ Answer(s, v).did = s.did
         /\ Answer(s, v).heap = s.heap /\ Answer(s, v).failed = s.failed
<1>1. /\ IsCall(Answer(s, v)) /\ Answer(s, v).mem = s.mem /\ Answer(s, v).heap = s.heap
      /\ Answer(s, v).did = s.did /\ Answer(s, v).failed = s.failed
  BY FieldsOf DEF Answer, IsCall, Progress
<1> QED
  BY <1>1, Aside DEF Progress

LEMMA FailIs ==
  ASSUME NEW s, NEW g, Progress(s, g)
  PROVE  /\ Progress(Fail(s), g) /\ Fail(s).did = s.did /\ Fail(s).heap = s.heap
         /\ Fail(s).failed = TRUE
<1>1. /\ IsCall(Fail(s)) /\ Fail(s).mem = s.mem /\ Fail(s).heap = s.heap
      /\ Fail(s).did = s.did /\ Fail(s).failed = TRUE
  <2>1. IsCall(s)
    BY DEF Progress
  <2>2. PICK yes, none : yes = TRUE /\ none = {0} /\ Fail(s) = [s EXCEPT !.failed = yes, !.ret = none]
    BY DEF Fail
  <2>3. /\ IsCall(Fail(s)) /\ Fail(s).mem = s.mem /\ Fail(s).heap = s.heap
        /\ Fail(s).did = s.did /\ Fail(s).failed = yes
    BY <2>1, <2>2, FieldsOf DEF IsCall
  <2> QED BY <2>2, <2>3
<1> QED
  BY <1>1, Aside DEF Progress

LEMMA ThenIs ==
  ASSUME NEW s, NEW g, Progress(s, g), NEW v
  PROVE  Progress(Then(s, v), g) /\ Then(s, v).heap = s.heap
BY AnswerIs DEF Then

LEMMA OutputIs ==
  ASSUME NEW s, NEW g, Progress(s, g), NEW data
  PROVE  Progress(Output(s, data), g)
<1>1. PICK d : d = [s.did EXCEPT !.output = Append(@, data)]
  OBVIOUS
<1>2. IsDid(d) /\ d.writes = s.did.writes /\ d.maps = s.did.maps
  BY <1>1 DEF IsDid, Progress
<1>3. Output(s, data) = [s EXCEPT !.did = d]
  BY <1>1, FieldsOf DEF Output, Progress, IsDid
<1>4. /\ IsCall(Output(s, data)) /\ Output(s, data).mem = s.mem
      /\ Output(s, data).heap = s.heap /\ Output(s, data).did = d
  BY <1>3, FieldsOf DEF IsCall, Progress
<1> QED
  BY <1>2, <1>4, Aside

LEMMA ExitIs ==
  ASSUME NEW s, NEW g, Progress(s, g)
  PROVE  Progress(Exit(s), g)
<1>1. /\ IsCall(Exit(s)) /\ Exit(s).mem = s.mem /\ Exit(s).heap = s.heap /\ Exit(s).did = s.did
  <2>1. IsCall(s)
    BY DEF Progress
  <2>2. PICK yes : yes = TRUE /\ Exit(s) = [s EXCEPT !.stop = yes]
    BY DEF Exit
  <2> QED BY <2>1, <2>2, FieldsOf DEF IsCall
<1> QED
  BY <1>1, Aside DEF Progress

\* A call begins.
LEMMA EnteredIs ==
  ASSUME NEW g, Ready(g)
  PROVE  Progress(Entered, g) /\ Clean(Entered)
<1>1. PICK s : s = Entered
  OBVIOUS
<1>2. IsCall(s) /\ s.mem = machine.mem /\ s.heap = heap /\ s.did = Nothing
  BY <1>1 DEF IsCall, Entered
<1>3. IsDid(s.did) /\ s.did.writes = <<>> /\ s.did.maps = {}
  BY <1>2 DEF IsDid, Nothing
<1>4. machine.mem \in [Addresses -> Bytes \cup {Absent}]
  BY DEF Ready, IsMemory
<1>5. Grown(machine.mem, {}) = machine.mem
  BY <1>4 DEF Grown
<1>6. HP!Good(Outcome(heap), g)
  <2>1. HP!Good(HP!AsIs, g) /\ HP!AsIs = [t |-> HP!tables, top |-> heap.top, journal |-> heap.journal]
    BY HeapAssumption, HP!AsIsGood DEF Ready
  <2> QED BY <2>1 DEF Outcome, Tab, HP!tables
<1> QED
  BY <1>1, <1>2, <1>3, <1>5, <1>6, StoredNone DEF Progress, Clean, Ready

----------------------------------------------------------------------------
(* Memory. *)

LEMMA Timeses ==
  ASSUME NEW u \in Nat \ {0}, NEW p \in Int, NEW q \in Int, p <= q
  PROVE  p * u \in Int /\ q * u \in Int /\ p * u <= q * u
<1>1. PICK d \in Nat : q = p + d
  <2>1. q - p \in Nat /\ q = p + (q - p)
    OBVIOUS
  <2> QED BY <2>1
<1>2. (p + d) * u = p * u + d * u /\ d * u >= 0
  OBVIOUS
<1> QED
  BY <1>1, <1>2

\* Rounding keeps the order.
LEMMA RoundUpGrows ==
  ASSUME NEW n \in Nat, NEW m \in Nat, n <= m, NEW unit \in Nat \ {0}
  PROVE  H!RoundUp(n, unit) <= H!RoundUp(m, unit)
<1>1. PICK p \in Int : p = (n + unit - 1) \div unit
  OBVIOUS
<1>2. PICK q \in Int : q = (m + unit - 1) \div unit
  OBVIOUS
<1>3. p <= q
  BY <1>1, <1>2
<1> QED
  BY <1>1, <1>2, <1>3, Timeses DEF H!RoundUp

LEMMA RoundUpIs ==
  ASSUME NEW n \in Nat, NEW unit \in Nat \ {0}
  PROVE  H!RoundUp(n, unit) \in Nat /\ n <= H!RoundUp(n, unit)
BY HeapAssumption, HP!RoundUpIs, SameRoundUp

\* What is read from memory that is there are bytes.
LEMMA BytesAt ==
  ASSUME NEW mem, NEW mapped, IsMemory(mem, mapped), NEW a \in Int, NEW n \in Nat,
         Mapped(mem, Span(a, n))
  PROVE  At(mem, a, n) \in Seq(Bytes) /\ Len(At(mem, a, n)) = n
<1>1. mem \in [Addresses -> Bytes \cup {Absent}]
  BY DEF IsMemory
<1>2. ASSUME NEW i \in 1..n PROVE mem[a + i - 1] \in Bytes
  <2>1. a + i - 1 \in Span(a, n)
    BY DEF Span
  <2> QED BY <1>1, <2>1 DEF Mapped
<1>3. At(mem, a, n) \in [1..n -> Bytes]
  BY <1>2 DEF At
<1> QED
  BY <1>3

LEMMA ReadIs ==
  ASSUME NEW s, NEW g, Progress(s, g), NEW a \in Int, NEW n \in Nat
  PROVE  Read(s, a, n) \subseteq Seq(Bytes)
BY BytesAt DEF Progress, Read

LEMMA CStringIs ==
  ASSUME NEW s, NEW g, Progress(s, g), NEW a \in Int
  PROVE  CString(s, a) \subseteq Seq(Bytes)
<1>1. Limit \in Nat \ {0} /\ Chunk \in Nat \ {0}
  BY LayoutAssumption
<1> SUFFICES ASSUME NEW text \in CString(s, a) PROVE text \in Seq(Bytes)
  OBVIOUS
<1>2. PICK n \in 0..(Limit - 1) :
        text = At(s.mem, a, n) /\ Mapped(s.mem, Span(a, Least(H!RoundUp(n + 1, Chunk), Limit)))
  BY DEF CString
<1>3. n \in Nat /\ n + 1 \in Nat /\ n + 1 <= Limit
  BY <1>1, <1>2
<1>4. PICK k \in Nat : k = H!RoundUp(n + 1, Chunk) /\ n + 1 <= k
  BY <1>1, <1>3, RoundUpIs
<1>5. Span(a, n) \subseteq Span(a, Least(k, Limit))
  BY <1>1, <1>3, <1>4 DEF Span, Least
<1>6. Mapped(s.mem, Span(a, n))
  BY <1>2, <1>4, <1>5 DEF Mapped
<1> QED
  BY <1>2, <1>3, <1>6, BytesAt DEF Progress

\* What is written is bytes, and goes where memory is.
LEMMA WriteIs ==
  ASSUME NEW s, NEW g, Progress(s, g), Clean(s), NEW a \in Int, NEW data \in Seq(Bytes)
  PROVE  Progress(Write(s, a, data), g) /\ Write(s, a, data).heap = s.heap
<1>1. CASE data = <<>>
  BY <1>1 DEF Write
<1>2. CASE data # <<>> /\ ~ Mapped(s.mem, Span(a, Len(data)))
  BY <1>2, FailIs DEF Write
<1>3. CASE data # <<>> /\ Mapped(s.mem, Span(a, Len(data)))
  <2>1. PICK n \in Nat : n = Len(data) /\ DOMAIN data = 1..n
    OBVIOUS
  <2>0. PICK w : w = <<a, data>>
    OBVIOUS
  <2>2. w = <<a, data>> /\ w[1] = a /\ w[2] = data
    BY <2>0
  <2>3. PICK mem : mem = [b \in DOMAIN s.mem |-> IF b \in Span(a, n) THEN data[b - a + 1] ELSE s.mem[b]]
    OBVIOUS
  <2>4. PICK d : d = [s.did EXCEPT !.writes = Append(@, w)]
    OBVIOUS
  <2>5. s.mem \in [Addresses -> Bytes \cup {Absent}]
    BY DEF Progress, IsMemory
  <2>6. \A b \in Addresses : /\ b \in Span(a, n) => mem[b] \in Bytes /\ s.mem[b] \in Bytes
                             /\ b \notin Span(a, n) => mem[b] = s.mem[b]
    <3>1. ASSUME NEW b \in Addresses, b \in Span(a, n)
          PROVE  mem[b] \in Bytes /\ s.mem[b] \in Bytes
      <4>1. b - a + 1 \in 1..n
        BY <2>1, <3>1 DEF Span
      <4>2. data[b - a + 1] \in Bytes
        BY <2>1, <4>1
      <4>3. s.mem[b] # Absent
        BY <1>3, <2>1, <3>1 DEF Mapped
      <4> QED BY <2>3, <2>5, <3>1, <4>2, <4>3
    <3> QED BY <2>3, <2>5, <3>1
  <2>7. mem \in [Addresses -> Bytes \cup {Absent}]
    BY <2>3, <2>5, <2>6
  <2>8. IsMemory(mem, s.heap.mapped)
    BY <2>6, <2>7, LayoutAssumption DEF IsMemory, Progress
  <2>9. d.writes = <<w>> /\ d.maps = s.did.maps /\ IsDid(d)
    BY <2>4 DEF Progress, IsDid, Clean
  <2>10. s.mem = Grown(machine.mem, s.did.maps)
    BY StoredNone DEF Progress, Clean
  <2>11. mem = Stored(Grown(machine.mem, d.maps), d.writes)
    <3>1. Store(s.mem, w) = mem
      BY <1>3, <2>1, <2>2, <2>3 DEF Store
    <3> QED BY <2>9, <2>10, <3>1, StoredOne
  <2>12. Write(s, a, data) = [s EXCEPT !.mem = mem, !.did = d]
    <3>1. IsCall(s) /\ IsDid(s.did)
      BY DEF Progress
    <3>2. Write(s, a, data) = [s EXCEPT
              !.mem = [b \in DOMAIN @ |-> IF b \in Span(a, Len(data)) THEN data[b - a + 1] ELSE @[b]],
              !.did.writes = Append(@, <<a, data>>)]
      BY <1>3 DEF Write
    <3> QED BY <2>1, <2>2, <2>3, <2>4, <3>1, <3>2, FieldsOf DEF IsDid
  <2>13. PICK t : t = Write(s, a, data)
    OBVIOUS
  <2>14. IsCall(t) /\ t.mem = mem /\ t.did = d /\ t.heap = s.heap
    <3>1. IsCall(s)
      BY DEF Progress
    <3> QED BY <2>12, <2>13, <3>1, FieldsOf DEF IsCall
  <2>15. Progress(t, g)
    BY <2>8, <2>9, <2>11, <2>14 DEF Progress
  <2> QED BY <2>13, <2>14, <2>15
<1> QED
  BY <1>1, <1>2, <1>3

----------------------------------------------------------------------------
(* The allocator. *)

\* What of a heap that is somewhere is how it goes on.
LEMMA HeapIs ==
  ASSUME NEW p, NEW r, NEW g, HP!Good(r, g), IsHeap(p),
         p.blocks = r.t.blocks, p.freed = r.t.freed, p.top = r.top, p.journal = r.journal
  PROVE  Outcome(p) = r
<1>0. HP!Fine(r.t) /\ r = [t |-> r.t, top |-> r.top, journal |-> r.journal]
  BY DEF HP!Good
<1>1. r = [t |-> r.t, top |-> r.top, journal |-> r.journal] /\ r.t = [blocks |-> r.t.blocks, freed |-> r.t.freed]
  BY <1>0, HeapAssumption, HP!TablesAre
<1> QED
  BY <1>1 DEF Outcome, Tab

LEMMA MallocAppends ==
  ASSUME NEW n, NEW r \in HP!Malloc(n)
  PROVE  \E e : r.journal = Append(heap.journal, e)
<1>1. PICK k : r \in HP!Allocate(k)
  BY DEF HP!Malloc
<1> DEFINE want == HP!Want(k)
           b == heap.freed[HP!Fit(heap.freed, want)]
<1>2. CASE HP!Fits(heap.freed, want) # {}
  <2>1. r = [t |-> HP!Put(HP!Unshelve(HP!tables, b.address), [b EXCEPT !.size = k]), top |-> heap.top,
             journal |-> Append(heap.journal, HP!Allocated("alloc", b, TRUE))]
    BY <1>1, <1>2 DEF HP!Allocate
  <2>2. r.journal = Append(heap.journal, HP!Allocated("alloc", b, TRUE))
    BY <2>1
  <2> QED BY <2>2
<1>3. CASE HP!Fits(heap.freed, want) = {}
  <2> DEFINE new == HP!Block(heap.top, k, want)
  <2>1. r = [t |-> HP!Put(HP!tables, new), top |-> heap.top + want,
             journal |-> Append(heap.journal, HP!Allocated("alloc", new, FALSE))]
    BY <1>1, <1>3 DEF HP!Allocate
  <2>2. r.journal = Append(heap.journal, HP!Allocated("alloc", new, FALSE))
    BY <2>1
  <2> QED BY <2>2
<1> QED
  BY <1>2, <1>3

LEMMA MallocIs ==
  ASSUME NEW g, Ready(g), NEW n \in Nat
  PROVE  LET s == Malloc(Entered, n) IN
         /\ Progress(s, g) /\ Clean(s)
         /\ ~ s.failed => Got(s) \in Int /\ DOMAIN heap.blocks \subseteq DOMAIN s.heap.blocks
<1>1. PICK s0 : s0 = Entered
  OBVIOUS
<1>2. Progress(s0, g) /\ Clean(s0) /\ s0.mem = machine.mem /\ s0.did = Nothing
  BY <1>1, EnteredIs DEF Entered
<1>3. CASE H!Malloc(n) = {}
  <2>1. Malloc(s0, n) = Fail(s0)
    BY <1>3 DEF Malloc
  <2> QED BY <1>1, <1>2, <2>1, FailIs DEF Clean
<1>4. CASE H!Malloc(n) # {}
  <2>1. PICK r \in HP!Malloc(n) : r = CHOOSE x \in H!Malloc(n) : TRUE
    BY <1>4, SameMalloc
  <2>2. HP!Good(r, g) /\ DOMAIN heap.blocks \subseteq DOMAIN r.t.blocks
    BY <2>1, HeapAssumption, HP!MallocGood DEF Ready
  <2>3. PICK k \in Nat : k = H!RoundUp(r.top, Page) /\ r.top <= k /\ k <= H!RoundUp(HeapSize, Page)
    <3>1. r.top \in Nat /\ r.top <= HeapSize /\ HeapSize \in Nat /\ Page \in Nat \ {0}
      BY <2>2, LayoutAssumption DEF HP!Good
    <3> QED BY <3>1, RoundUpIs, RoundUpGrows
  <2>4. PICK old \in Nat : old = heap.mapped /\ old <= H!RoundUp(HeapSize, Page)
    BY DEF Ready, Reaches
  <2>5. PICK need \in Nat : need = IF k > old THEN k ELSE old
    BY <2>3, <2>4
  <2>6. old <= need /\ r.top <= need /\ need <= H!RoundUp(HeapSize, Page)
    <3>1. r.top \in Nat /\ H!RoundUp(HeapSize, Page) \in Nat
      BY <2>2, LayoutAssumption, RoundUpIs DEF HP!Good
    <3> QED BY <2>3, <2>4, <2>5, <3>1
  <2>7. PICK new : new = Span(HeapBase + old, need - old)
    OBVIOUS
  <2>8. PICK p : p = [blocks |-> r.t.blocks, freed |-> r.t.freed, top |-> r.top,
                      journal |-> r.journal, mapped |-> need]
    OBVIOUS
  <2>9. PICK mem : mem = [a \in DOMAIN s0.mem |-> IF a \in new THEN 0 ELSE s0.mem[a]]
    OBVIOUS
  <2>10. PICK d : d = [Nothing EXCEPT !.maps = @ \cup new]
    OBVIOUS
  <2>11. PICK ret : ret = {HeapBase + r.journal[Len(r.journal)].block.address}
    OBVIOUS
  <2>12. PICK t : t = Malloc(s0, n)
    OBVIOUS
  <2>13. t = [s0 EXCEPT !.heap = p, !.mem = mem, !.did = d, !.ret = ret]
    <3>1. Malloc(s0, n) = [s0 EXCEPT !.heap = p,
                             !.mem = [a \in DOMAIN @ |-> IF a \in new THEN 0 ELSE @[a]],
                             !.did.maps = @ \cup new, !.ret = ret]
      BY <1>4, <2>1, <2>3, <2>4, <2>5, <2>7, <2>8, <2>11 DEF Malloc
    <3>2. IsCall(s0)
      BY <1>2 DEF Progress
    <3> QED BY <1>2, <2>9, <2>10, <2>12, <3>1, <3>2, FieldsOf
  <2>14. /\ IsCall(t) /\ t.heap = p /\ t.mem = mem /\ t.did = d /\ t.ret = ret /\ t.failed = s0.failed
    <3>1. IsCall(s0)
      BY <1>2 DEF Progress
    <3> QED BY <2>13, <3>1, FieldsOf DEF IsCall
  <2>15. IsDid(d) /\ d.writes = <<>> /\ d.maps = new
    BY <2>10 DEF Nothing, IsDid
  <2>16. IsHeap(p) /\ Reaches(p) /\ p.mapped = need
    BY <2>2, <2>6, <2>8 DEF IsHeap, Reaches, HP!Good
  <2>17. Outcome(p) = r
    BY <2>2, <2>8, <2>16, HeapIs
  <2>18. IsMemory(machine.mem, old)
    BY <2>4 DEF Ready
  <2>19. \A a \in Addresses : a \in new => machine.mem[a] = Absent
    <3>1. HeapBase \in Nat /\ Addresses \subseteq Int
      BY LayoutAssumption DEF Addresses
    <3>2. \A a \in Addresses : a \in new => a >= HeapBase /\ a >= HeapBase + old
      BY <2>4, <2>5, <2>7, <3>1 DEF Span
    <3> QED BY <2>18, <3>2 DEF IsMemory
  <2>20. mem = Grown(machine.mem, new)
    BY <1>2, <2>9, <2>18, <2>19 DEF Grown, IsMemory
  <2>21. IsMemory(mem, need)
    <3>1. HeapBase \in Nat /\ Addresses \subseteq Int /\ 0 \in Bytes /\ Absent \notin Bytes
      BY LayoutAssumption DEF Addresses
    <3>2. machine.mem \in [Addresses -> Bytes \cup {Absent}]
      BY <2>18 DEF IsMemory
    <3>3. mem \in [Addresses -> Bytes \cup {Absent}]
      BY <1>2, <2>9, <3>1, <3>2
    <3>4. ASSUME NEW a \in Addresses, a >= HeapBase
          PROVE  mem[a] = Absent <=> a >= HeapBase + need
      <4>1. a \in new <=> a >= HeapBase + old /\ ~ (a >= HeapBase + need)
        <5>1. PICK base \in Nat : base = HeapBase + old
          BY <2>4, <3>1
        <5>2. PICK room \in Nat : room = need - old /\ base + room = HeapBase + need
          <6>1. need - old \in Nat /\ base + (need - old) = HeapBase + need
            BY <2>4, <2>5, <2>6, <3>1, <5>1
          <6> QED BY <6>1
        <5>3. new = base..(base + room - 1) /\ a \in Int
          BY <2>7, <3>1, <5>1, <5>2 DEF Span
        <5>4. a \in new <=> a >= base /\ ~ (a >= base + room)
          BY <5>3
        <5> QED BY <5>1, <5>2, <5>4
      <4>2. CASE a \in new
        <5>1. mem[a] = 0
          BY <1>2, <2>9, <3>2, <4>2
        <5> QED BY <3>1, <4>1, <4>2, <5>1
      <4>3. CASE a \notin new
        <5>1. mem[a] = machine.mem[a]
          BY <1>2, <2>9, <3>2, <4>3
        <5>2. machine.mem[a] = Absent <=> a >= HeapBase + old
          BY <2>18, <3>4 DEF IsMemory
        <5>3. a >= HeapBase + need => a >= HeapBase + old
          BY <2>6, <3>1
        <5> QED BY <4>1, <4>3, <5>1, <5>2, <5>3
      <4> QED BY <4>2, <4>3
    <3> QED BY <3>3, <3>4 DEF IsMemory
  <2>22. mem = Stored(Grown(machine.mem, d.maps), d.writes)
    BY <2>15, <2>20, StoredNone
  <2>23. Progress(t, g) /\ Clean(t)
    BY <2>2, <2>14, <2>15, <2>16, <2>17, <2>21, <2>22 DEF Progress, Clean
  <2>24. Got(t) \in Int
    <3>1. PICK e : r.journal = Append(heap.journal, e)
      BY <2>1, MallocAppends
    <3>2. heap.journal \in Seq(HP!Entry) /\ r.journal \in Seq(HP!Entry)
      BY <2>2 DEF Ready, HP!Now, HP!Good
    <3>3. Len(r.journal) = Len(heap.journal) + 1 /\ Len(heap.journal) \in Nat
      BY <3>1, <3>2
    <3>4. r.journal[Len(r.journal)] \in HP!Entry
      BY <3>2, <3>3
    <3>5. r.journal[Len(r.journal)].block.address \in Nat
      BY <3>4 DEF HP!Entry, HP!Holds, HP!BlockRecord
    <3>6. PICK v \in Int : v = HeapBase + r.journal[Len(r.journal)].block.address
      <4>1. PICK at \in Nat : at = r.journal[Len(r.journal)].block.address
        BY <3>5
      <4>2. HeapBase + at \in Int
        BY LayoutAssumption
      <4> QED BY <4>1, <4>2
    <3>7. t.ret = {v}
      BY <2>11, <2>14, <3>6
    <3> QED BY <3>7 DEF Got
  <2>25. DOMAIN heap.blocks \subseteq DOMAIN t.heap.blocks
    BY <2>2, <2>8, <2>14
  <2> QED BY <1>1, <2>12, <2>23, <2>24, <2>25
<1> QED
  BY <1>3, <1>4

LEMMA ReleaseIs ==
  ASSUME NEW g, Ready(g), NEW s, Progress(s, g), NEW a
  PROVE  Progress(Release(s, a), g)
<1>1. CASE a - HeapBase \notin DOMAIN s.heap.blocks
  BY <1>1, FailIs DEF Release
<1>2. CASE a - HeapBase \in DOMAIN s.heap.blocks
  <2>1. PICK r : r = HP!Release(Outcome(s.heap), a - HeapBase)
    OBVIOUS
  <2>2. HP!Good(r, g)
    <3>1. HP!Good(Outcome(s.heap), g) /\ HP!Now(g) /\ a - HeapBase \in DOMAIN Outcome(s.heap).t.blocks
      BY <1>2 DEF Progress, Ready, Outcome, Tab
    <3> QED BY <2>1, <3>1, HeapAssumption, HP!ReleaseGood
  <2>3. PICK p : p = [blocks |-> r.t.blocks, freed |-> r.t.freed, top |-> s.heap.top,
                      journal |-> r.journal, mapped |-> s.heap.mapped]
    OBVIOUS
  <2>4. r.top = s.heap.top
    BY <2>1 DEF HP!Release, Outcome
  <2>5. PICK t : t = Release(s, a)
    OBVIOUS
  <2>6. t = [s EXCEPT !.heap = p]
    <3>1. Release(s, a) = [s EXCEPT !.heap.blocks = r.t.blocks, !.heap.freed = r.t.freed,
                                    !.heap.journal = r.journal]
      BY <1>2, <2>1, SameRelease DEF Release, Outcome, Tab
    <3>2. IsCall(s) /\ IsHeap(s.heap)
      BY DEF Progress
    <3> QED BY <2>3, <2>5, <3>1, <3>2, FieldsOf DEF IsHeap
  <2>7. IsCall(t) /\ t.heap = p /\ t.mem = s.mem /\ t.did = s.did
    <3>1. IsCall(s)
      BY DEF Progress
    <3> QED BY <2>6, <3>1, FieldsOf DEF IsCall
  <2>8. IsHeap(p) /\ Reaches(p) /\ p.mapped = s.heap.mapped
    BY <2>3 DEF IsHeap, Reaches, Progress
  <2>9. Outcome(p) = r
    BY <2>2, <2>3, <2>4, <2>8, HeapIs
  <2>10. Progress(t, g)
    BY <2>2, <2>7, <2>8, <2>9 DEF Progress
  <2> QED BY <2>5, <2>10
<1> QED
  BY <1>1, <1>2

\* A block kept where it is.
Resized(s, k, n) == [s EXCEPT !.heap.blocks[k].size = n]

LEMMA ResizedIs ==
  ASSUME NEW g, Ready(g), NEW k \in DOMAIN heap.blocks, NEW n \in Nat,
         heap.blocks[k].capacity >= n
  PROVE  Progress(Resized(Entered, k, n), g)
<1>1. PICK s : s = Entered
  OBVIOUS
<1>2. Progress(s, g) /\ s.heap = heap
  BY <1>1, EnteredIs DEF Entered
<1>3. PICK c : c = [heap.blocks[k] EXCEPT !.size = n]
  OBVIOUS
<1>4. PICK B : B = [heap.blocks EXCEPT ![k] = c]
  OBVIOUS
<1>5. /\ HP!Fine(HP!tables) /\ HP!tables.blocks = heap.blocks /\ HP!tables.freed = heap.freed
      /\ heap.blocks[k].address = k
  BY DEF Ready, HP!Now, HP!tables, HP!Fine
<1>6. DOMAIN heap.blocks \in SUBSET Nat /\ heap.blocks \in [DOMAIN heap.blocks -> HP!BlockRecord]
  BY <1>5, HeapAssumption, HP!TablesAre
<1>7. c.address = k
  BY <1>3, <1>5, <1>6 DEF HP!BlockRecord
<1>8. HP!Put(HP!tables, c) = [blocks |-> B, freed |-> heap.freed]
  <2>1. HP!Put(HP!tables, c) =
          [HP!tables EXCEPT !.blocks = [a \in DOMAIN @ \cup {c.address} |-> IF a = c.address THEN c ELSE @[a]]]
    BY DEF HP!Put
  <2>2. [a \in DOMAIN heap.blocks \cup {k} |-> IF a = k THEN c ELSE heap.blocks[a]] = B
    BY <1>4, <1>6
  <2> QED BY <1>5, <1>7, <2>1, <2>2 DEF HP!tables
<1>9. PICK r : r = [HP!AsIs EXCEPT !.t = HP!Put(HP!tables, c)]
  OBVIOUS
<1>10. HP!Good(r, g)
  BY <1>3, <1>9, HeapAssumption, HP!ResizeGood DEF Ready
<1>11. r = [t |-> [blocks |-> B, freed |-> heap.freed], top |-> heap.top, journal |-> heap.journal]
  BY <1>8, <1>9 DEF HP!AsIs
<1>12. PICK p : p = [heap EXCEPT !.blocks = B]
  OBVIOUS
<1>13. PICK t : t = Resized(s, k, n)
  OBVIOUS
<1>14. t = [s EXCEPT !.heap = p]
  <2>1. IsCall(s) /\ IsHeap(s.heap)
    BY <1>2 DEF Progress
  <2> QED BY <1>2, <1>3, <1>4, <1>12, <1>13, <2>1, FieldsOf DEF Resized, IsHeap
<1>15. IsCall(t) /\ t.heap = p /\ t.mem = s.mem /\ t.did = s.did
  <2>1. IsCall(s)
    BY <1>2 DEF Progress
  <2> QED BY <1>14, <2>1, FieldsOf DEF IsCall
<1>16. /\ IsHeap(p) /\ Reaches(p) /\ p.mapped = heap.mapped
       /\ p.blocks = B /\ p.freed = heap.freed /\ p.top = heap.top /\ p.journal = heap.journal
  BY <1>12 DEF IsHeap, Reaches, Ready
<1>17. Outcome(p) = r
  BY <1>11, <1>16 DEF Outcome, Tab
<1>18. Progress(t, g)
  BY <1>2, <1>10, <1>15, <1>16, <1>17 DEF Progress
<1> QED
  BY <1>1, <1>13, <1>18

----------------------------------------------------------------------------
(* The implementations. *)

LEMMA FillIs ==
  ASSUME NEW value \in Bytes, NEW n \in Nat
  PROVE  Fill(value, n) \in Seq(Bytes)
BY DEF Fill

LEMMA FirstIs ==
  ASSUME NEW text \in Seq(Bytes), NEW n \in Nat
  PROVE  First(text, n) \in Seq(Bytes) /\ Len(First(text, n)) \in Nat /\ Len(First(text, n)) <= n
<1>1. PICK k \in 0..Len(text) : k = Least(n, Len(text)) /\ k <= n
  BY DEF Least
<1>2. PICK part : part = SubSeq(text, 1, k)
  OBVIOUS
<1>3. part \in Seq(Bytes) /\ Len(part) = k
  <2>1. k \in Int /\ 1 \in Int /\ \A i \in 1..k : text[i] \in Bytes
    OBVIOUS
  <2>2. part \in Seq(Bytes) /\ Len(part) = IF 1 <= k THEN k - 1 + 1 ELSE 0
    BY <1>2, <2>1, SubSeqProperties
  <2> QED BY <2>2
<1> QED
  BY <1>1, <1>2, <1>3 DEF First

\* Bytes written, and an answer given unless they could not be.
LEMMA WriteThenIs ==
  ASSUME NEW s, NEW g, Progress(s, g), Clean(s), NEW a \in Int, NEW data \in Seq(Bytes), NEW v
  PROVE  Progress(Then(Write(s, a, data), v), g)
BY WriteIs, ThenIs

LEMMA CallocIs ==
  ASSUME NEW g, Ready(g), NEW n \in Nat, NEW size \in Nat
  PROVE  Progress(Calloc(Entered, n, size), g)
<1>1. PICK k \in Nat : k = n * size
  OBVIOUS
<1>2. PICK got : got = Malloc(Entered, k)
  OBVIOUS
<1>3. Progress(got, g) /\ Clean(got) /\ (~ got.failed => Got(got) \in Int)
  BY <1>2, MallocIs
<1>4. PICK data : data = Fill(0, IF k = 0 THEN 1 ELSE k)
  OBVIOUS
<1>5. data \in Seq(Bytes)
  BY <1>4, FillIs, LayoutAssumption
<1>6. ~ got.failed => Progress(Then(Write(got, Got(got), data), Got(got)), g)
  BY <1>3, <1>5, WriteThenIs
<1> QED
  BY <1>1, <1>2, <1>3, <1>4, <1>6 DEF Calloc

LEMMA ReallocIs ==
  ASSUME NEW g, Ready(g), NEW old \in Int, NEW size \in Nat
  PROVE  Progress(Realloc(Entered, old, size), g)
<1>1. PICK s : s = Entered
  OBVIOUS
<1>2. Progress(s, g)
  BY <1>1, EnteredIs
<1>3. PICK got : got = Malloc(s, size)
  OBVIOUS
<1>4. Progress(got, g) /\ Clean(got) /\ (~ got.failed => Got(got) \in Int)
  BY <1>1, <1>3, MallocIs
<1> DEFINE k == old - HeapBase
           known == k \in DOMAIN heap.blocks
<1>5. CASE old = 0
  BY <1>1, <1>3, <1>4, <1>5 DEF Realloc
<1>6. CASE old # 0 /\ size = 0
  <2>1. Progress(Then(Release(s, old), 0), g)
    BY <1>2, ReleaseIs, ThenIs
  <2> QED BY <1>1, <1>6, <2>1 DEF Realloc
<1>7. CASE old # 0 /\ size # 0 /\ known /\ heap.blocks[k].capacity >= size
  <2>1. Progress(Resized(s, k, size), g)
    BY <1>1, <1>7, ResizedIs
  <2>2. Progress(Answer(Resized(s, k, size), old), g)
    BY <2>1, AnswerIs
  <2>3. Realloc(s, old, size) = Answer(Resized(s, k, size), old)
    BY <1>7 DEF Realloc, Resized
  <2> QED BY <1>1, <2>2, <2>3
<1>8. CASE /\ old # 0 /\ size # 0 /\ ~ (known /\ heap.blocks[k].capacity >= size)
           /\ got.failed \/ ~ known
  <2>1. Realloc(s, old, size) = got
    BY <1>3, <1>8 DEF Realloc
  <2> QED BY <1>1, <1>4, <2>1
<1>9. CASE /\ old # 0 /\ size # 0 /\ ~ (known /\ heap.blocks[k].capacity >= size)
           /\ ~ (got.failed \/ ~ known)
  <2>1. PICK n \in Nat : n = Least(heap.blocks[k].size, size)
    <3>1. heap.blocks[k].size \in Nat
      <4>1. HP!Fine(HP!tables) /\ HP!tables.blocks = heap.blocks
        BY DEF Ready, HP!Now, HP!tables
      <4>2. heap.blocks \in [DOMAIN heap.blocks -> HP!BlockRecord]
        BY <4>1, HeapAssumption, HP!TablesAre
      <4> QED BY <1>9, <4>2 DEF HP!BlockRecord
    <3>2. Least(heap.blocks[k].size, size) \in Nat
      BY <3>1 DEF Least
    <3> QED BY <3>2
  <2>2. PICK texts : texts = Read(got, old, n) /\ texts \subseteq Seq(Bytes)
    BY <1>4, ReadIs
  <2>3. Realloc(s, old, size) =
          IF texts = {} THEN Fail(got)
          ELSE Release(Then(Write(got, Got(got), CHOOSE text \in texts : TRUE), Got(got)), old)
    <3> HIDE DEF k
    <3>1. Realloc(s, old, size) =
            Given(got, Read(got, old, Least(heap.blocks[k].size, size)),
                  LAMBDA data : Release(Then(Write(got, Got(got), data), Got(got)), old))
      BY <1>3, <1>9 DEF Realloc, k
    <3> QED BY <2>1, <2>2, <3>1 DEF Given
  <2>4. CASE texts = {}
    BY <1>1, <1>4, <2>3, <2>4, FailIs
  <2>5. CASE texts # {}
    <3>1. PICK data \in Seq(Bytes) : data = CHOOSE text \in texts : TRUE
      BY <2>2, <2>5
    <3>2. Progress(Then(Write(got, Got(got), data), Got(got)), g)
      BY <1>4, <1>9, WriteThenIs
    <3>3. Progress(Release(Then(Write(got, Got(got), data), Got(got)), old), g)
      BY <3>2, ReleaseIs
    <3> QED BY <1>1, <2>3, <2>5, <3>1, <3>3
  <2> QED BY <2>4, <2>5
<1> QED
  BY <1>5, <1>6, <1>7, <1>8, <1>9

\* The functions that only look.
Looked(s, t) == t = s \/ t = Fail(s) \/ \E v : t = Answer(s, v)

LEMMA LookedIs ==
  ASSUME NEW s, NEW g, Progress(s, g), NEW t, Looked(s, t)
  PROVE  Progress(t, g)
BY AnswerIs, FailIs DEF Looked

LEMMA LookingIs ==
  ASSUME NEW s, NEW a, NEW b, NEW n, NEW ch
  PROVE  /\ Looked(s, Memcmp(s, a, b, n)) /\ Looked(s, Strlen(s, a))
         /\ Looked(s, Strncmp(s, a, b, n)) /\ Looked(s, Strcmp(s, a, b))
         /\ Looked(s, Strchr(s, a, ch)) /\ Looked(s, Strrchr(s, a, ch))
         /\ Looked(s, Strstr(s, a, b))
<1>1. Looked(s, Memcmp(s, a, b, n))
  BY DEF Memcmp, Given, Looked
<1>2. Looked(s, Strlen(s, a))
  BY DEF Strlen, Given, Looked
<1>3. \A k : Looked(s, Strncmp(s, a, b, k))
  BY DEF Strncmp, Given, Looked
<1>4. Looked(s, Strcmp(s, a, b))
  BY <1>3 DEF Strcmp
<1>5. Looked(s, Strchr(s, a, ch))
  BY DEF Strchr, Given, Looked
<1>6. Looked(s, Strrchr(s, a, ch))
  BY DEF Strrchr, Given, Looked
<1>7. Looked(s, Strstr(s, a, b))
  BY DEF Strstr, Given, Looked
<1> QED
  BY <1>1, <1>2, <1>3, <1>4, <1>5, <1>6, <1>7

LEMMA MemmoveIs ==
  ASSUME NEW s, NEW g, Progress(s, g), Clean(s), NEW dst \in Int, NEW src \in Int, NEW n \in Nat
  PROVE  Progress(Memmove(s, dst, src, n), g)
<1>1. PICK texts : texts = Read(s, src, n) /\ texts \subseteq Seq(Bytes)
  BY ReadIs
<1>2. CASE n = 0
  BY <1>2, AnswerIs DEF Memmove
<1>3. CASE n # 0 /\ texts = {}
  BY <1>1, <1>3, FailIs DEF Memmove, Given
<1>4. CASE n # 0 /\ texts # {}
  <2>1. PICK data \in Seq(Bytes) : data = CHOOSE text \in texts : TRUE
    BY <1>1, <1>4
  <2>2. Memmove(s, dst, src, n) = Then(Write(s, dst, data), dst)
    BY <1>1, <1>4, <2>1 DEF Memmove, Given
  <2> QED BY <2>1, <2>2, WriteThenIs
<1> QED
  BY <1>2, <1>3, <1>4

LEMMA MemsetIs ==
  ASSUME NEW s, NEW g, Progress(s, g), Clean(s), NEW dst \in Int, NEW value \in Bytes, NEW n \in Nat
  PROVE  Progress(Memset(s, dst, value, n), g)
BY FailIs, FillIs, WriteThenIs DEF Memset

\* A string copied, in whole or in part.
LEMMA ToNUL ==
  ASSUME NEW text \in Seq(Bytes)
  PROVE  text \o NUL \in Seq(Bytes)
<1>1. NUL \in Seq(Bytes)
  BY LayoutAssumption DEF NUL
<1> QED
  BY <1>1

LEMMA StrcpyIs ==
  ASSUME NEW s, NEW g, Progress(s, g), Clean(s), NEW dst \in Int, NEW src \in Int
  PROVE  Progress(Strcpy(s, dst, src), g)
<1>1. PICK texts : texts = CString(s, src) /\ texts \subseteq Seq(Bytes)
  BY CStringIs
<1>2. CASE texts = {}
  BY <1>1, <1>2, FailIs DEF Strcpy, Given
<1>3. CASE texts # {}
  <2>1. PICK text \in Seq(Bytes) : text = CHOOSE x \in texts : TRUE
    BY <1>1, <1>3
  <2>2. Strcpy(s, dst, src) = Then(Write(s, dst, text \o NUL), dst)
    BY <1>1, <1>3, <2>1 DEF Strcpy, Given
  <2> QED BY <2>1, <2>2, ToNUL, WriteThenIs
<1> QED
  BY <1>2, <1>3

LEMMA StrncpyIs ==
  ASSUME NEW s, NEW g, Progress(s, g), Clean(s), NEW dst \in Int, NEW src \in Int, NEW n \in Nat
  PROVE  Progress(Strncpy(s, dst, src, n), g)
<1>1. PICK texts : texts = CString(s, src) /\ texts \subseteq Seq(Bytes)
  BY CStringIs
<1>2. CASE n > MaxTransfer \/ texts = {}
  BY <1>1, <1>2, FailIs DEF Strncpy, Given
<1>3. CASE ~ (n > MaxTransfer) /\ texts # {}
  <2>1. PICK text \in Seq(Bytes) : text = CHOOSE x \in texts : TRUE
    BY <1>1, <1>3
  <2>2. PICK first \in Seq(Bytes) : first = First(text, n) /\ Len(first) \in Nat /\ Len(first) <= n
    BY FirstIs
  <2>3. PICK rest \in Seq(Bytes) : rest = Fill(0, n - Len(first))
    <3>1. n - Len(first) \in Nat /\ 0 \in Bytes
      BY <2>2, LayoutAssumption
    <3>2. Fill(0, n - Len(first)) \in Seq(Bytes)
      BY <3>1, FillIs
    <3> QED BY <3>2
  <2>4. Strncpy(s, dst, src, n) = Then(Write(s, dst, first \o rest), dst)
    BY <1>1, <1>3, <2>1, <2>2, <2>3 DEF Strncpy, Given
  <2>5. first \o rest \in Seq(Bytes)
    OBVIOUS
  <2> QED BY <2>4, <2>5, WriteThenIs
<1> QED
  BY <1>2, <1>3

LEMMA StrncatIs ==
  ASSUME NEW s, NEW g, Progress(s, g), Clean(s), NEW dst \in Int, NEW src \in Int, NEW n \in Nat
  PROVE  Progress(Strncat(s, dst, src, n), g)
<1>1. PICK olds : olds = CString(s, dst) /\ olds \subseteq Seq(Bytes)
  BY CStringIs
<1>2. PICK texts : texts = CString(s, src) /\ texts \subseteq Seq(Bytes)
  BY CStringIs
<1>3. CASE olds = {} \/ texts = {}
  BY <1>1, <1>2, <1>3, FailIs DEF Strncat, Given
<1>4. CASE olds # {} /\ texts # {}
  <2>1. PICK old \in Seq(Bytes) : old = CHOOSE x \in olds : TRUE
    BY <1>1, <1>4
  <2>2. PICK text \in Seq(Bytes) : text = CHOOSE x \in texts : TRUE
    BY <1>2, <1>4
  <2>3. PICK first \in Seq(Bytes) : first = First(text, n)
    BY FirstIs
  <2>4. Strncat(s, dst, src, n) = Then(Write(s, dst + Len(old), first \o NUL), dst)
    BY <1>1, <1>2, <1>4, <2>1, <2>2, <2>3 DEF Strncat, Given
  <2>5. dst + Len(old) \in Int
    OBVIOUS
  <2> QED BY <2>4, <2>5, ToNUL, WriteThenIs
<1> QED
  BY <1>3, <1>4

LEMMA StrdupIs ==
  ASSUME NEW g, Ready(g), NEW a \in Int
  PROVE  Progress(Strdup(Entered, a), g)
<1>1. PICK s : s = Entered
  OBVIOUS
<1>2. Progress(s, g)
  BY <1>1, EnteredIs
<1>3. PICK texts : texts = CString(s, a) /\ texts \subseteq Seq(Bytes)
  BY <1>2, CStringIs
<1>4. CASE texts = {}
  BY <1>1, <1>2, <1>3, <1>4, FailIs DEF Strdup, Given
<1>5. CASE texts # {}
  <2>1. PICK text \in Seq(Bytes) : text = CHOOSE x \in texts : TRUE
    BY <1>3, <1>5
  <2>2. PICK got : got = Malloc(s, Len(text) + 1)
    OBVIOUS
  <2>3. Progress(got, g) /\ Clean(got) /\ (~ got.failed => Got(got) \in Int)
    <3>1. Len(text) + 1 \in Nat
      OBVIOUS
    <3> QED BY <1>1, <2>2, <3>1, MallocIs
  <2>4. Strdup(s, a) = IF got.failed THEN got ELSE Then(Write(got, Got(got), text \o NUL), Got(got))
    BY <1>3, <1>5, <2>1, <2>2 DEF Strdup, Given
  <2> QED BY <1>1, <2>3, <2>4, ToNUL, WriteThenIs
<1> QED
  BY <1>4, <1>5

LEMMA PutsIs ==
  ASSUME NEW s, NEW g, Progress(s, g), NEW a
  PROVE  Progress(Puts(s, a), g)
<1>1. CASE CString(s, a) = {}
  BY <1>1, FailIs DEF Puts, Given
<1>2. CASE CString(s, a) # {}
  <2>1. PICK data : Puts(s, a) = Answer(Output(s, data), 0)
    BY <1>2 DEF Puts, Given
  <2> QED BY <2>1, OutputIs, AnswerIs
<1> QED
  BY <1>1, <1>2

LEMMA PutcharIs ==
  ASSUME NEW s, NEW g, Progress(s, g), NEW ch
  PROVE  Progress(Putchar(s, ch), g)
BY OutputIs, AnswerIs DEF Putchar

LEMMA PointersAre == ASSUME NEW g, Ready(g) PROVE Pointers \subseteq Int
<1>1. HP!Fine(HP!tables) /\ HP!tables.blocks = heap.blocks
  BY DEF Ready, HP!Now, HP!tables
<1>2. DOMAIN heap.blocks \in SUBSET Nat
  BY <1>1, HeapAssumption, HP!TablesAre
<1>3. \A a \in DOMAIN heap.blocks : HeapBase + a \in Int
  BY <1>2, LayoutAssumption
<1> QED
  BY <1>3, ArgumentsAssumption DEF Pointers

\* Whatever is called is written down and leaves the allocator on its way.
LEMMA PerformIs ==
  ASSUME NEW g, Ready(g), NEW name \in Names, NEW x \in Args(name)
  PROVE  Progress(Perform(Entered, name, x), g)
<1>1. PICK s : s = Entered /\ Progress(s, g) /\ Clean(s)
  BY EnteredIs
<1>2. /\ Pointers \subseteq Int /\ Sizes \subseteq Nat /\ Numbers \subseteq Nat
      /\ Resizes \subseteq Nat /\ Chars \subseteq Bytes /\ 2 \in Nat
  BY PointersAre, ArgumentsAssumption
<1>3. CASE name = "malloc"
  <2>1. Perform(s, name, x) = Malloc(s, x[1])
    BY <1>3 DEF Perform
  <2>2. x[1] \in Nat
    BY <1>2, <1>3 DEF Args
  <2> QED BY <1>1, <2>1, <2>2, MallocIs
<1>4. CASE name = "calloc"
  <2>1. Perform(s, name, x) = Calloc(s, x[1], x[2])
    BY <1>4 DEF Perform
  <2>2. x[1] \in Nat /\ x[2] \in Nat
    BY <1>2, <1>4 DEF Args
  <2> QED BY <1>1, <2>1, <2>2, CallocIs
<1>5. CASE name = "realloc"
  <2>1. Perform(s, name, x) = Realloc(s, x[1], x[2])
    BY <1>5 DEF Perform
  <2>2. x[1] \in Int /\ x[2] \in Nat
    BY <1>2, <1>5 DEF Args
  <2> QED BY <1>1, <2>1, <2>2, ReallocIs
<1>6. CASE name = "free"
  <2>1. Perform(s, name, x) = Free(s, x[1])
    BY <1>6 DEF Perform
  <2> QED BY <1>1, <2>1, ReleaseIs DEF Free
<1>7. CASE name \in {"memcpy", "memmove"}
  <2>1. Perform(s, name, x) = Memmove(s, x[1], x[2], x[3])
    BY <1>7 DEF Perform
  <2>2. x[1] \in Int /\ x[2] \in Int /\ x[3] \in Nat
    BY <1>2, <1>7 DEF Args
  <2> QED BY <1>1, <2>1, <2>2, MemmoveIs
<1>8. CASE name = "memset"
  <2>1. Perform(s, name, x) = Memset(s, x[1], x[2], x[3])
    BY <1>8 DEF Perform
  <2>2. x[1] \in Int /\ x[2] \in Bytes /\ x[3] \in Nat
    BY <1>2, <1>8 DEF Args
  <2> QED BY <1>1, <2>1, <2>2, MemsetIs
<1>9. CASE name \in {"memcmp", "strlen", "strcmp", "strncmp", "strchr", "strrchr", "strstr"}
  <2>1. CASE name = "memcmp"
    BY <1>1, <2>1, LookingIs, LookedIs DEF Perform
  <2>2. CASE name = "strlen"
    BY <1>1, <2>2, LookingIs, LookedIs DEF Perform
  <2>3. CASE name = "strcmp"
    BY <1>1, <2>3, LookingIs, LookedIs DEF Perform
  <2>4. CASE name = "strncmp"
    BY <1>1, <2>4, LookingIs, LookedIs DEF Perform
  <2>5. CASE name = "strchr"
    BY <1>1, <2>5, LookingIs, LookedIs DEF Perform
  <2>6. CASE name = "strrchr"
    BY <1>1, <2>6, LookingIs, LookedIs DEF Perform
  <2>7. CASE name = "strstr"
    BY <1>1, <2>7, LookingIs, LookedIs DEF Perform
  <2> QED BY <1>9, <2>1, <2>2, <2>3, <2>4, <2>5, <2>6, <2>7
<1>10. CASE name = "strcpy"
  <2>1. Perform(s, name, x) = Strcpy(s, x[1], x[2])
    BY <1>10 DEF Perform
  <2>2. x[1] \in Int /\ x[2] \in Int
    BY <1>2, <1>10 DEF Args
  <2> QED BY <1>1, <2>1, <2>2, StrcpyIs
<1>11. CASE name = "strncpy"
  <2>1. Perform(s, name, x) = Strncpy(s, x[1], x[2], x[3])
    BY <1>11 DEF Perform
  <2>2. x[1] \in Int /\ x[2] \in Int /\ x[3] \in Nat
    BY <1>2, <1>11 DEF Args
  <2> QED BY <1>1, <2>1, <2>2, StrncpyIs
<1>12. CASE name = "strcat"
  <2>1. Perform(s, name, x) = Strncat(s, x[1], x[2], Limit)
    BY <1>12 DEF Perform, Strcat
  <2>2. x[1] \in Int /\ x[2] \in Int /\ Limit \in Nat
    BY <1>2, <1>12, LayoutAssumption DEF Args
  <2> QED BY <1>1, <2>1, <2>2, StrncatIs
<1>13. CASE name = "strncat"
  <2>1. Perform(s, name, x) = Strncat(s, x[1], x[2], x[3])
    BY <1>13 DEF Perform
  <2>2. x[1] \in Int /\ x[2] \in Int /\ x[3] \in Nat
    BY <1>2, <1>13 DEF Args
  <2> QED BY <1>1, <2>1, <2>2, StrncatIs
<1>14. CASE name = "strdup"
  <2>1. Perform(s, name, x) = Strdup(s, x[1])
    BY <1>14 DEF Perform
  <2>2. x[1] \in Int
    BY <1>2, <1>14 DEF Args
  <2> QED BY <1>1, <2>1, <2>2, StrdupIs
<1>15. CASE name \in {"puts", "putchar"}
  <2>1. CASE name = "puts"
    BY <1>1, <2>1, PutsIs DEF Perform
  <2>2. CASE name = "putchar"
    BY <1>1, <2>2, PutcharIs DEF Perform
  <2> QED BY <1>15, <2>1, <2>2
<1>16. CASE name \in {"exit", "abort"}
  <2>1. Perform(s, name, x) = Exit(s)
    BY <1>16 DEF Perform
  <2> QED BY <1>1, <2>1, ExitIs
<1> QED
  BY <1>3, <1>4, <1>5, <1>6, <1>7, <1>8, <1>9, <1>10, <1>11, <1>12, <1>13, <1>14, <1>15, <1>16
     DEF Names

----------------------------------------------------------------------------
(* The history of the calls. *)

\* Two heaps with the same blocks live and the same free, in the same arena.
Alike(p, q) ==
  /\ HP!PlacesOf(Tab(p)) = HP!PlacesOf(Tab(q))
  /\ p.top = q.top /\ p.mapped = q.mapped

IsState(m, p) ==
  /\ m = [mem |-> m.mem, ret |-> m.ret] /\ IsMemory(m.mem, p.mapped)
  /\ Reaches(p) /\ HP!Fine(Tab(p)) /\ HP!Apart(HP!PlacesOf(Tab(p)), p.top)

\* An entry, of a call that took x to y, makes of the machine of x that of y,
\* while there is a hook at the addresses B; and has how far the heap of x
\* reached, unless that stayed as it was.
Told(B, e, x, y) ==
  IF e.logged
  THEN /\ e.at \in B /\ Apply(x[1], e) = y[1]
       /\ e.before.top = x[2].top /\ e.before.mapped = x[2].mapped
  ELSE [x[1] EXCEPT !.ret = Real] = y[1] /\ Alike(y[2], x[2])

History(B, l, h) ==
  /\ IsSequence(l) /\ IsSequence(h) /\ Len(h) = Len(l) + 1
  /\ \A i \in 1..Len(h) : IsState(h[i][1], h[i][2])
  /\ \A i \in 1..Len(l) : Told(B, l[i], h[i], h[i + 1])

\* The marks lie within a journal of length n, in order, and the blocks were
\* there where the journal says, whose places at each mark are g.
Marks(g, n, l, h) ==
  /\ \A i \in 1..Len(l) : l[i].logged =>
       l[i].before.mark \in 0..n /\ g[l[i].before.mark] = HP!PlacesOf(Tab(h[i][2]))
  /\ \A i, j \in 1..Len(l) :
       i <= j /\ l[i].logged /\ l[j].logged => l[i].before.mark <= l[j].before.mark

\* The strengthening of the invariants of Stubs.
IInv ==
  /\ \A a \in DOMAIN bound : bound[a] \in Names
  /\ History(DOMAIN bound, log, past)
  /\ machine = past[Len(past)][1]
  /\ IsHeap(heap) /\ Alike(heap, past[Len(past)][2])
  /\ \E g : HP!Now(g) /\ Marks(g, Len(heap.journal), log, past)

LEMMA HistoryGrows ==
  ASSUME NEW B, NEW l, NEW h, History(B, l, h), NEW e, NEW x,
         Told(B, e, h[Len(h)], x), IsState(x[1], x[2])
  PROVE  History(B, Append(l, e), Append(h, x)) /\ Append(h, x)[Len(Append(h, x))] = x
<1> DEFINE R == {l[i] : i \in DOMAIN l} \cup {e}
           P == {h[i] : i \in DOMAIN h} \cup {x}
<1>1. l \in Seq(R) /\ h \in Seq(P) /\ e \in R /\ x \in P
  BY DEF History, IsSequence
<1> HIDE DEF R, P
<1>2. PICK l2 : /\ l2 = Append(l, e) /\ l2 \in Seq(R) /\ Len(l2) = Len(l) + 1
                /\ \A i \in 1..Len(l) : l2[i] = l[i]
                /\ l2[Len(l) + 1] = e
  BY <1>1, AppendProperties
<1>3. PICK h2 : /\ h2 = Append(h, x) /\ h2 \in Seq(P) /\ Len(h2) = Len(h) + 1
                /\ \A i \in 1..Len(h) : h2[i] = h[i]
                /\ h2[Len(h) + 1] = x
  BY <1>1, AppendProperties
<1>4. PICK n \in Nat : n = Len(l) /\ Len(h) = n + 1
  BY <1>1, LenProperties DEF History
<1>5. IsSequence(l2) /\ IsSequence(h2)
  BY <1>2, <1>3, IsSequenceIs
<1>6. ASSUME NEW i \in 1..(n + 2) PROVE IsState(h2[i][1], h2[i][2])
  <2>1. CASE i \in 1..(n + 1)
    BY <1>3, <1>4, <2>1 DEF History
  <2>2. CASE i = n + 2
    <3>1. h2[n + 2] = x
      BY <1>3, <1>4
    <3> QED BY <2>2, <3>1
  <2> QED BY <1>4, <2>1, <2>2
<1>7. ASSUME NEW i \in 1..(n + 1) PROVE Told(B, l2[i], h2[i], h2[i + 1])
  <2>1. CASE i \in 1..n
    <3>1. h2[i] = h[i] /\ h2[i + 1] = h[i + 1] /\ l2[i] = l[i]
      BY <1>2, <1>3, <1>4, <2>1
    <3> QED BY <1>4, <2>1, <3>1 DEF History
  <2>2. CASE i = n + 1
    <3>1. h2[i] = h[Len(h)] /\ h2[i + 1] = x /\ l2[i] = e
      BY <1>2, <1>3, <1>4, <2>2
    <3> QED BY <3>1
  <2> QED BY <1>4, <2>1, <2>2
<1>8. Len(l2) = n + 1 /\ Len(h2) = n + 2
  BY <1>2, <1>3, <1>4
<1>9. History(B, l2, h2)
  BY <1>4, <1>5, <1>6, <1>7, <1>8 DEF History
<1>10. h2[Len(h2)] = x
  BY <1>3
<1> QED
  BY <1>2, <1>3, <1>9, <1>10

\* The beginning of a sequence.
LEMMA BeginningIs ==
  ASSUME NEW S, NEW x \in Seq(S), NEW k \in 0..Len(x)
  PROVE  /\ SubSeq(x, 1, k) \in Seq(S) /\ Len(SubSeq(x, 1, k)) = k
         /\ \A i \in 1..k : SubSeq(x, 1, k)[i] = x[i]
<1>1. 0 \in Nat /\ k \in 0..Len(x) /\ 0 + 1 = 1 /\ k - 0 = k /\ \A i \in 1..k : 0 + i = i
  OBVIOUS
<1>2. SubSeq(x, 0 + 1, k) \in Seq(S) /\ Len(SubSeq(x, 0 + 1, k)) = k - 0
      /\ \A i \in 1..(k - 0) : SubSeq(x, 0 + 1, k)[i] = x[0 + i]
  BY <1>1, PartIs
<1> QED
  BY <1>1, <1>2

\* The beginning of a log and of the states along it.
LEMMA CutIs ==
  ASSUME NEW B, NEW l, NEW h, History(B, l, h), NEW k \in 0..Len(l)
  PROVE  /\ IsSequence(SubSeq(l, 1, k)) /\ IsSequence(SubSeq(h, 1, k + 1))
         /\ Len(SubSeq(l, 1, k)) = k /\ Len(SubSeq(h, 1, k + 1)) = k + 1
         /\ \A i \in 1..k : SubSeq(l, 1, k)[i] = l[i]
         /\ \A i \in 1..(k + 1) : SubSeq(h, 1, k + 1)[i] = h[i]
<1> DEFINE R == {l[i] : i \in DOMAIN l}
           P == {h[i] : i \in DOMAIN h}
<1>1. l \in Seq(R) /\ h \in Seq(P)
  BY DEF History, IsSequence
<1> HIDE DEF R, P
<1>2. PICK n \in Nat : n = Len(l) /\ Len(h) = n + 1 /\ k \in 0..n
  BY <1>1, LenProperties DEF History
<1>3. PICK l2 : /\ l2 = SubSeq(l, 1, k) /\ l2 \in Seq(R) /\ Len(l2) = k
                /\ \A i \in 1..k : l2[i] = l[i]
  BY <1>1, BeginningIs
<1>4. PICK h2 : /\ h2 = SubSeq(h, 1, k + 1) /\ h2 \in Seq(P) /\ Len(h2) = k + 1
                /\ \A i \in 1..(k + 1) : h2[i] = h[i]
  <2>1. PICK j \in 0..Len(h) : j = k + 1
    BY <1>2
  <2> QED BY <1>1, <2>1, BeginningIs
<1> QED
  BY <1>3, <1>4, IsSequenceIs

LEMMA HistoryCut ==
  ASSUME NEW B, NEW l, NEW h, History(B, l, h), NEW k \in 0..Len(l)
  PROVE  /\ History(B, SubSeq(l, 1, k), SubSeq(h, 1, k + 1))
         /\ SubSeq(h, 1, k + 1)[Len(SubSeq(h, 1, k + 1))] = h[k + 1]
<1>1. PICK n \in Nat : n = Len(l) /\ Len(h) = n + 1 /\ k \in 0..n
  BY LenProperties DEF History, IsSequence
<1>2. PICK l2 : l2 = SubSeq(l, 1, k)
  OBVIOUS
<1>3. PICK h2 : h2 = SubSeq(h, 1, k + 1)
  OBVIOUS
<1>4. IsSequence(l2) /\ Len(l2) = k /\ \A i \in 1..k : l2[i] = l[i]
  BY <1>2, CutIs
<1>5. IsSequence(h2) /\ Len(h2) = k + 1 /\ \A i \in 1..(k + 1) : h2[i] = h[i]
  BY <1>3, CutIs
<1>6. \A i \in 1..(k + 1) : IsState(h2[i][1], h2[i][2])
  <2>1. \A i \in 1..(k + 1) : i \in 1..Len(h)
    BY <1>1
  <2> QED BY <1>5, <2>1 DEF History
<1>7. ASSUME NEW i \in 1..k PROVE Told(B, l2[i], h2[i], h2[i + 1])
  <2>1. h2[i] = h[i] /\ h2[i + 1] = h[i + 1] /\ l2[i] = l[i] /\ i \in 1..Len(l)
    BY <1>1, <1>4, <1>5
  <2> QED BY <2>1 DEF History
<1>8. History(B, l2, h2)
  BY <1>4, <1>5, <1>6, <1>7 DEF History
<1> QED
  BY <1>1, <1>5, <1>8, <1>2, <1>3

\* It is enough that the functions called keep their hooks.
LEMMA HistoryBound ==
  ASSUME NEW B, NEW l, NEW h, History(B, l, h), NEW C,
         \A i \in 1..Len(l) : l[i].at \in B => l[i].at \in C
  PROVE  History(C, l, h)
BY DEF History, Told

Replaying(f, m, calls) ==
  f = [i \in 0..Len(calls) |-> IF i = 0 THEN m ELSE Replay(f[i - 1], calls[i])]

LEMMA ReplayedIs ==
  ASSUME NEW m, NEW calls
  PROVE  Replayed(m, calls) = (CHOOSE f : Replaying(f, m, calls))[Len(calls)]
BY DEF Replayed, Replaying

\* What an entry says of a call is what comes of replaying it.
LEMMA ReplayIs ==
  ASSUME NEW e, NEW x, NEW y, Told(DOMAIN bound, e, x, y)
  PROVE  Replay(x[1], e) = y[1]
BY DEF Told, Replay

\* Replaying from any state on goes through the states there were.
LEMMA HistoryReplayed ==
  ASSUME NEW l, NEW h, History(DOMAIN bound, l, h), NEW k \in 0..Len(l), NEW c \in 0..k
  PROVE  Replayed(h[c + 1][1], SubSeq(l, c + 1, k)) = h[k + 1][1]
<1> DEFINE R == {l[i] : i \in DOMAIN l}
<1>1. l \in Seq(R)
  BY DEF History, IsSequence
<1> HIDE DEF R
<1>2. PICK n \in Nat : n = Len(l) /\ Len(h) = n + 1 /\ k \in 0..n
  BY <1>1, LenProperties DEF History
<1>3. PICK N \in Nat : N = k - c
  BY <1>2
<1>4. PICK calls : /\ calls = SubSeq(l, c + 1, k) /\ Len(calls) = N
                   /\ \A i \in 1..N : calls[i] = l[c + i]
  <2>1. c \in Nat /\ k \in c..Len(l)
    BY <1>2
  <2>2. /\ Len(SubSeq(l, c + 1, k)) = k - c
        /\ \A i \in 1..(k - c) : SubSeq(l, c + 1, k)[i] = l[c + i]
    BY <1>1, <2>1, PartIs
  <2> QED BY <1>3, <2>2
<1> DEFINE m == h[c + 1][1]
           g == [i \in 0..N |-> h[c + i + 1][1]]
<1>5. ASSUME NEW i \in 0..N, i # 0
      PROVE  h[c + i + 1][1] = Replay(h[c + i][1], calls[i]) /\ i - 1 \in 0..N /\ c + (i - 1) + 1 = c + i
  <2>1. c + i \in 1..Len(l) /\ calls[i] = l[c + i] /\ i - 1 \in 0..N /\ c + (i - 1) + 1 = c + i
    BY <1>2, <1>3, <1>4, <1>5
  <2>2. Told(DOMAIN bound, l[c + i], h[c + i], h[c + i + 1])
    BY <2>1 DEF History
  <2> QED BY <2>1, <2>2, ReplayIs
<1>6. \A i \in 0..N : g[i] = IF i = 0 THEN m ELSE Replay(g[i - 1], calls[i])
  <2>1. c + 0 + 1 = c + 1
    BY <1>2
  <2> QED BY <1>5, <2>1
<1>7. Replaying(g, m, calls)
  <2>1. g = [i \in 0..N |-> g[i]]
    OBVIOUS
  <2> HIDE DEF g, m
  <2>2. g = [i \in 0..N |-> IF i = 0 THEN m ELSE Replay(g[i - 1], calls[i])]
    BY <1>6, <2>1
  <2> QED BY <1>4, <2>2 DEF Replaying
<1> HIDE DEF m
<1>8. PICK f : f = (CHOOSE j : Replaying(j, m, calls)) /\ Replaying(f, m, calls)
  <2> HIDE DEF g
  <2> QED BY <1>7
<1>9. \A i \in 0..N : f[i] = IF i = 0 THEN m ELSE Replay(f[i - 1], calls[i])
  BY <1>4, <1>8 DEF Replaying
<1> DEFINE Same == {i \in 0..N : f[i] = g[i]}
<1> HIDE DEF g
<1>10. 0 \in Same
  BY <1>3, <1>6, <1>9
<1>11. ASSUME NEW i \in 0..(N - 1), i \in Same PROVE i + 1 \in Same
  <2>1. i + 1 \in 0..N /\ i + 1 # 0 /\ (i + 1) - 1 = i
    BY <1>3
  <2> QED BY <1>6, <1>9, <1>11, <2>1
<1>12. N \in Same
  <2> HIDE DEF Same
  <2> QED BY <1>3, <1>10, <1>11, UpwardFrom
<1>13. f[N] = h[k + 1][1]
  <2>1. c + N + 1 = k + 1 /\ N \in 0..N
    BY <1>2, <1>3
  <2> QED BY <1>12, <2>1 DEF g
<1> QED
  BY <1>4, <1>8, <1>13, ReplayedIs DEF m

\* Where nothing is written down the heap stays as it was.
LEMMA HistoryAlike ==
  ASSUME NEW B, NEW l, NEW h, History(B, l, h), NEW k \in 0..Len(l), NEW j \in k..Len(l),
         \A i \in (k + 1)..j : ~ l[i].logged
  PROVE  Alike(h[j + 1][2], h[k + 1][2])
<1>1. PICK n \in Nat : n = Len(l) /\ k \in 0..n /\ j \in k..n
  BY LenProperties DEF History, IsSequence
<1>2. PICK N \in Nat : N = j - k
  BY <1>1
<1> DEFINE Same == {i \in 0..N : Alike(h[k + i + 1][2], h[k + 1][2])}
<1>3. 0 \in Same
  <2>1. k + 0 + 1 = k + 1 /\ 0 \in 0..N
    BY <1>1, <1>2
  <2> QED BY <2>1 DEF Alike
<1>4. ASSUME NEW i \in 0..(N - 1), i \in Same PROVE i + 1 \in Same
  <2>1. PICK x \in 1..Len(l) : x = k + i + 1 /\ x + 1 = k + (i + 1) + 1 /\ x \in (k + 1)..j
    BY <1>1, <1>2
  <2>2. Told(B, l[x], h[x], h[x + 1]) /\ ~ l[x].logged
    BY <2>1 DEF History
  <2>3. Alike(h[x + 1][2], h[x][2]) /\ Alike(h[x][2], h[k + 1][2])
    BY <1>4, <2>1, <2>2 DEF Told
  <2>4. Alike(h[x + 1][2], h[k + 1][2])
    BY <2>3 DEF Alike
  <2>5. i + 1 \in 0..N
    BY <1>2
  <2> QED BY <2>1, <2>4, <2>5
<1>5. N \in Same
  <2> HIDE DEF Same
  <2> QED BY <1>2, <1>3, <1>4, UpwardFrom
<1> QED
  BY <1>1, <1>2, <1>5

\* The marks after one more entry.
LEMMA MarksGrow ==
  ASSUME NEW B, NEW l, NEW h, History(B, l, h), NEW g, NEW n \in Nat, Marks(g, n, l, h),
         NEW e, NEW x, NEW f, NEW m \in Nat, n <= m, \A i \in 0..n : f[i] = g[i],
         e.logged => e.before.mark = n /\ g[n] = HP!PlacesOf(Tab(h[Len(h)][2]))
  PROVE  Marks(f, m, Append(l, e), Append(h, x))
<1> DEFINE R == {l[i] : i \in DOMAIN l} \cup {e}
           P == {h[i] : i \in DOMAIN h} \cup {x}
<1>1. l \in Seq(R) /\ h \in Seq(P) /\ e \in R /\ x \in P
  BY DEF History, IsSequence
<1> HIDE DEF R, P
<1>2. PICK l2 : l2 = Append(l, e)
  OBVIOUS
<1>3. PICK h2 : h2 = Append(h, x)
  OBVIOUS
<1>4. Len(l2) = Len(l) + 1 /\ l2[Len(l) + 1] = e
      /\ \A i \in 1..Len(l) : l2[i] = l[i]
  BY <1>1, <1>2, AppendProperties
<1>5. \A i \in 1..Len(h) : h2[i] = h[i]
  BY <1>1, <1>3, AppendProperties
<1>6. PICK N \in Nat : N = Len(l) /\ Len(h) = N + 1 /\ Len(l2) = N + 1
  BY <1>1, <1>4, LenProperties DEF History
<1>7. \A i \in 1..N : l2[i] = l[i] /\ h2[i] = h[i]
  BY <1>4, <1>5, <1>6
<1>8. l2[N + 1] = e /\ h2[N + 1] = h[Len(h)]
  BY <1>4, <1>5, <1>6
<1>9. \A i \in 1..N : l[i].logged =>
        l[i].before.mark \in 0..n /\ g[l[i].before.mark] = HP!PlacesOf(Tab(h[i][2]))
  BY <1>6 DEF Marks
<1>10. ASSUME NEW i \in 1..(N + 1), l2[i].logged
      PROVE  /\ l2[i].before.mark \in 0..n /\ l2[i].before.mark \in 0..m
             /\ f[l2[i].before.mark] = HP!PlacesOf(Tab(h2[i][2]))
  <2>1. CASE i = N + 1
    BY <1>8, <1>10, <2>1
  <2>2. CASE i \in 1..N
    BY <1>7, <1>9, <1>10, <2>2
  <2> QED BY <2>1, <2>2
<1>11. ASSUME NEW i \in 1..(N + 1), NEW j \in 1..(N + 1), i <= j, l2[i].logged, l2[j].logged
      PROVE  l2[i].before.mark <= l2[j].before.mark
  <2>1. CASE j = N + 1
    <3>1. l2[j].before.mark = n /\ l2[i].before.mark \in 0..n
      BY <1>8, <1>10, <1>11, <2>1
    <3> QED BY <3>1
  <2>2. CASE j \in 1..N
    <3>1. i \in 1..N /\ l2[i] = l[i] /\ l2[j] = l[j]
      BY <1>7, <1>11, <2>2
    <3> QED BY <1>6, <1>11, <2>2, <3>1 DEF Marks
  <2> QED BY <2>1, <2>2
<1> QED
  BY <1>6, <1>10, <1>11, <1>2, <1>3 DEF Marks

\* And of the beginning of the log, down to a mark.
LEMMA MarksCut ==
  ASSUME NEW B, NEW l, NEW h, History(B, l, h), NEW g, NEW n \in Nat, Marks(g, n, l, h),
         NEW k \in 0..Len(l), NEW m \in Nat, NEW f, \A i \in 0..m : f[i] = g[i],
         \A i \in 1..k : l[i].logged => l[i].before.mark <= m
  PROVE  Marks(f, m, SubSeq(l, 1, k), SubSeq(h, 1, k + 1))
<1>1. PICK N \in Nat : N = Len(l) /\ Len(h) = N + 1 /\ k \in 0..N
  BY LenProperties DEF History, IsSequence
<1>2. PICK l2 : l2 = SubSeq(l, 1, k)
  OBVIOUS
<1>3. PICK h2 : h2 = SubSeq(h, 1, k + 1)
  OBVIOUS
<1>4. Len(l2) = k /\ \A i \in 1..k : l2[i] = l[i]
  BY <1>2, CutIs
<1>5. \A i \in 1..(k + 1) : h2[i] = h[i]
  BY <1>3, CutIs
<1>6. \A i \in 1..k : i \in 1..Len(l) /\ l2[i] = l[i] /\ h2[i] = h[i]
  BY <1>1, <1>4, <1>5
<1>7. ASSUME NEW i \in 1..k, l2[i].logged
      PROVE  l2[i].before.mark \in 0..m /\ f[l2[i].before.mark] = HP!PlacesOf(Tab(h2[i][2]))
  <2>1. l[i].before.mark \in 0..n /\ g[l[i].before.mark] = HP!PlacesOf(Tab(h[i][2]))
    BY <1>6, <1>7 DEF Marks
  <2>2. l[i].before.mark \in 0..m
    BY <1>6, <1>7, <2>1
  <2> QED BY <1>6, <2>1, <2>2
<1>8. \A i, j \in 1..k : i <= j /\ l2[i].logged /\ l2[j].logged =>
        l2[i].before.mark <= l2[j].before.mark
  BY <1>6 DEF Marks
<1> QED
  BY <1>4, <1>7, <1>8, <1>2, <1>3 DEF Marks

----------------------------------------------------------------------------
(* What a step makes of the invariant. *)

\* The state now is that of the end of the history.
LEMMA ReadyIs ==
  ASSUME IInv, NEW g, HP!Now(g)
  PROVE  /\ Ready(g) /\ g[Len(heap.journal)] = HP!PlacesOf(Tab(past[Len(past)][2]))
         /\ Len(heap.journal) \in Nat
<1>1. Len(past) \in 1..Len(past)
  <2>1. Len(past) = Len(log) + 1 /\ Len(log) \in Nat
    BY LenProperties DEF IInv, History, IsSequence
  <2> QED BY <2>1
<1>2. PICK p : p = past[Len(past)][2] /\ IsState(machine, p) /\ Alike(heap, p) /\ IsHeap(heap)
  BY <1>1 DEF IInv, History
<1>3. Reaches(heap) /\ IsMemory(machine.mem, heap.mapped)
  BY <1>2 DEF IsState, Reaches, Alike
<1>4. Ready(g)
  BY <1>2, <1>3 DEF Ready
<1>5. Len(heap.journal) \in Nat
  BY DEF HP!Now
<1>6. g[Len(heap.journal)] = HP!PlacesOf(HP!tables)
  BY <1>5 DEF HP!Now, HP!Remembers
<1>7. HP!tables = Tab(heap)
  BY DEF HP!tables, Tab
<1> QED
  BY <1>2, <1>4, <1>5, <1>6, <1>7 DEF Alike

\* What a call in progress has come to can be a state.
LEMMA ProgressState ==
  ASSUME NEW s, NEW g, Progress(s, g), NEW m, m = [mem |-> s.mem, ret |-> m.ret]
  PROVE  IsState(m, s.heap)
<1>1. HP!Fine(Tab(s.heap)) /\ HP!Apart(HP!PlacesOf(Tab(s.heap)), s.heap.top)
  BY DEF Progress, HP!Good, Outcome
<1> QED
  BY <1>1 DEF Progress, IsState

\* A call that is stood in for is one more entry.
LEMMA CallKeeps ==
  ASSUME IInv, NEW address \in DOMAIN bound, NEW x \in Args(bound[address]), Call(address, x),
         Remember, bound' = bound
  PROVE  IInv'
<1>1. PICK g : HP!Now(g) /\ Marks(g, Len(heap.journal), log, past)
  BY DEF IInv
<1>2. /\ Ready(g) /\ g[Len(heap.journal)] = HP!PlacesOf(Tab(past[Len(past)][2]))
      /\ Len(heap.journal) \in Nat
  BY <1>1, ReadyIs
<1>3. PICK s : s = Perform(Entered, bound[address], x) /\ Progress(s, g)
  BY <1>2, PerformIs DEF IInv
<1>4. PICK m : m = [mem |-> s.mem, ret |-> Return(machine.ret, s.ret)]
  OBVIOUS
<1>5. PICK e : e = Recorded(address, s)
  OBVIOUS
<1>6. PICK y : y = <<m, s.heap>>
  OBVIOUS
<1>7. y[1] = m /\ y[2] = s.heap
  BY <1>6
<1>8. /\ machine' = m /\ heap' = s.heap /\ log' = Append(log, e) /\ past' = Append(past, y)
  BY <1>3, <1>4, <1>5, <1>6 DEF Call, Remember
<1>9. /\ e.at = address /\ e.logged = TRUE /\ e.did = s.did /\ e.ret = s.ret
      /\ e.before.top = heap.top /\ e.before.mapped = heap.mapped
      /\ e.before.mark = Len(heap.journal)
  BY <1>5 DEF Recorded
<1>10. past[Len(past)][1] = machine /\ heap.top = past[Len(past)][2].top
       /\ heap.mapped = past[Len(past)][2].mapped
  BY DEF IInv, Alike
<1>11. Apply(machine, e) = m
  <2>1. Apply(machine, e) = [mem |-> Stored(Grown(machine.mem, s.did.maps), s.did.writes),
                             ret |-> Return(machine.ret, s.ret)]
    BY <1>9, ApplyIs
  <2> QED BY <1>3, <1>4, <2>1 DEF Progress
<1>12. Told(DOMAIN bound, e, past[Len(past)], y)
  BY <1>7, <1>9, <1>10, <1>11 DEF Told
<1>13. IsState(m, s.heap)
  <2>1. m = [mem |-> s.mem, ret |-> m.ret]
    BY <1>4
  <2> QED BY <1>3, <2>1, ProgressState
<1>14. History(DOMAIN bound, log', past') /\ past'[Len(past')] = y
  BY <1>7, <1>8, <1>12, <1>13, HistoryGrows DEF IInv
<1>15. PICK f : /\ HP!Remembers(f, HP!PlacesOf(Tab(s.heap)), s.heap.journal, 0)
                /\ \A k \in 0..Len(heap.journal) : f[k] = g[k]
  <2>1. HP!mark = Len(heap.journal)
    BY <1>2 DEF HP!mark
  <2> QED BY <1>3, <2>1 DEF Progress, HP!Good, HP!Extended, Outcome
<1>16. /\ s.heap.journal \in Seq(HP!Entry) /\ s.heap.top \in Nat /\ s.heap.top <= HeapSize
       /\ HP!Fine(Tab(s.heap)) /\ HP!Apart(HP!PlacesOf(Tab(s.heap)), s.heap.top)
       /\ Len(heap.journal) <= Len(s.heap.journal) /\ IsHeap(s.heap)
  BY <1>3 DEF Progress, HP!Good, Outcome
<1>17. HP!Now(f)'
  BY <1>8, <1>15, <1>16 DEF HP!Now, HP!tables, Tab
<1>18. Len(s.heap.journal) \in Nat
  BY <1>16
<1>19. Marks(f, Len(heap.journal)', log', past')
  BY <1>1, <1>2, <1>8, <1>9, <1>15, <1>16, <1>18, MarksGrow DEF IInv
<1>20. IsHeap(heap') /\ Alike(heap', past'[Len(past')][2])
  BY <1>7, <1>8, <1>14, <1>16 DEF Alike
<1> QED
  BY <1>7, <1>8, <1>14, <1>17, <1>19, <1>20 DEF IInv

\* So is one of the function itself.
LEMMA CallRealKeeps ==
  ASSUME IInv, NEW address, CallReal(address), Remember, bound' = bound
  PROVE  IInv'
<1>1. PICK g : HP!Now(g) /\ Marks(g, Len(heap.journal), log, past)
  BY DEF IInv
<1>2. /\ Ready(g) /\ Len(heap.journal) \in Nat
  BY <1>1, ReadyIs
<1>3. PICK m : m = [machine EXCEPT !.ret = Real]
  OBVIOUS
<1>4. PICK e : e = NotLogged(address)
  OBVIOUS
<1>5. PICK y : y = <<m, heap>>
  OBVIOUS
<1>6. y[1] = m /\ y[2] = heap
  BY <1>5
<1>7. machine' = m /\ heap' = heap /\ log' = Append(log, e) /\ past' = Append(past, y)
  BY <1>3, <1>4, <1>5 DEF CallReal, Remember
<1>8. e.logged = FALSE
  BY <1>4 DEF NotLogged
<1>9. past[Len(past)][1] = machine /\ Alike(heap, past[Len(past)][2])
  BY DEF IInv
<1>10. Told(DOMAIN bound, e, past[Len(past)], y)
  BY <1>3, <1>6, <1>8, <1>9 DEF Told
<1>11. IsState(m, heap)
  <2>1. Len(past) \in 1..Len(past)
    <3>1. Len(past) = Len(log) + 1 /\ Len(log) \in Nat
      BY LenProperties DEF IInv, History, IsSequence
    <3> QED BY <3>1
  <2>2. machine = [mem |-> machine.mem, ret |-> machine.ret]
    BY <1>9, <2>1 DEF IInv, History, IsState
  <2>3. m = [mem |-> m.mem, ret |-> m.ret] /\ m.mem = machine.mem
    BY <1>3, <2>2
  <2>4. HP!Fine(Tab(heap)) /\ HP!Apart(HP!PlacesOf(Tab(heap)), heap.top)
    BY <1>1 DEF HP!Now, HP!tables, Tab
  <2> QED BY <1>2, <2>3, <2>4 DEF IsState, Ready
<1>12. History(DOMAIN bound, log', past') /\ past'[Len(past')] = y
  BY <1>6, <1>7, <1>10, <1>11, HistoryGrows DEF IInv
<1>13. Marks(g, Len(heap.journal), log', past')
  BY <1>1, <1>2, <1>7, <1>8, MarksGrow DEF IInv
<1>14. HP!Now(g)'
  BY <1>1, <1>7 DEF HP!Now, HP!tables
<1>15. IsHeap(heap') /\ Alike(heap', past'[Len(past')][2])
  BY <1>6, <1>7, <1>12 DEF Alike, IInv
<1> QED
  BY <1>6, <1>7, <1>12, <1>13, <1>14, <1>15 DEF IInv

\* Functions may be bound at any time, and unbound where they have not been called.
LEMMA BoundKeeps ==
  ASSUME IInv, \A a \in DOMAIN bound' : bound'[a] \in Names,
         \A i \in 1..Len(log) : log[i].at \in DOMAIN bound => log[i].at \in DOMAIN bound',
         UNCHANGED <<machine, heap, log, past>>
  PROVE  IInv'
<1>1. PICK g : HP!Now(g) /\ Marks(g, Len(heap.journal), log, past)
  BY DEF IInv
<1>2. HP!Now(g)'
  BY <1>1 DEF HP!Now, HP!tables
<1>3. History(DOMAIN bound', log, past)
  BY HistoryBound DEF IInv
<1> QED
  BY <1>1, <1>2, <1>3 DEF IInv

LEMMA BindKeeps ==
  ASSUME IInv, NEW b \in Binds, Bind(b[1], b[2])
  PROVE  IInv'
<1>1. /\ DOMAIN bound' = DOMAIN bound \cup {b[2]}
      /\ \A a \in DOMAIN bound' : bound'[a] = IF a = b[2] THEN b[1] ELSE bound[a]
  BY DEF Bind
<1>2. \A a \in DOMAIN bound' : bound'[a] \in Names
  BY <1>1, ArgumentsAssumption DEF IInv
<1> QED
  BY <1>1, <1>2, BoundKeeps DEF Bind

LEMMA UnbindKeeps ==
  ASSUME IInv, ~ Careless, NEW address, Unbind(address)
  PROVE  IInv'
<1>1. /\ DOMAIN bound' = DOMAIN bound \ {address}
      /\ \A a \in DOMAIN bound' : bound'[a] = bound[a]
  BY DEF Unbind
<1>2. \A a \in DOMAIN bound' : bound'[a] \in Names
  BY <1>1 DEF IInv
<1>3. \A i \in 1..Len(log) : log[i].at # address
  <2>1. log \in Seq({log[i] : i \in DOMAIN log})
    BY DEF IInv, History, IsSequence
  <2>2. DOMAIN log = 1..Len(log)
    BY <2>1, LenProperties
  <2> QED BY <2>2 DEF Unbind
<1> QED
  BY <1>1, <1>2, <1>3, BoundKeeps DEF Unbind

\* A snapshot puts the allocator back where it was taken.
LEMMA RestoreIs ==
  ASSUME NEW g, HP!Now(g), NEW snap, snap.mark \in 0..Len(heap.journal), NEW p,
         g[snap.mark] = HP!PlacesOf(Tab(p)), snap.top = p.top, snap.mapped = p.mapped,
         Reaches(p), HP!Apart(HP!PlacesOf(Tab(p)), p.top),
         heap' = Restore(heap, snap)
  PROVE  /\ IsHeap(heap') /\ Alike(heap', p) /\ Len(heap'.journal) = snap.mark
         /\ \E f : HP!Now(f)' /\ \A i \in 0..snap.mark : f[i] = g[i]
<1>1. /\ heap.journal \in Seq(HP!Entry) /\ HP!Fine(HP!tables) /\ 0 \in Nat
      /\ HP!Remembers(g, HP!PlacesOf(HP!tables), heap.journal, 0)
  BY DEF HP!Now
<1>2. PICK m \in Nat : m = snap.mark /\ m <= Len(heap.journal) /\ Len(heap.journal) \in Nat
  BY <1>1
<1>3. PICK t : t = HP!UndoneTo(m)
  OBVIOUS
<1>4. HP!Fine(t) /\ HP!PlacesOf(t) = g[m]
  <2>1. m \in 0..HP!mark
    BY <1>2 DEF HP!mark
  <2> QED BY <1>1, <1>3, <2>1, HeapAssumption, HP!UndoneRight
<1>5. PICK q : q = heap'
  OBVIOUS
<1>6. /\ q = [blocks |-> t.blocks, freed |-> t.freed, top |-> p.top, mapped |-> p.mapped,
              journal |-> SubSeq(heap.journal, 1, m)]
  BY <1>2, <1>3, <1>5, SameUndone DEF Restore
<1>7. /\ q.blocks = t.blocks /\ q.freed = t.freed /\ q.top = p.top /\ q.mapped = p.mapped
      /\ q.journal = SubSeq(heap.journal, 1, m) /\ IsHeap(q)
  BY <1>6 DEF IsHeap
<1>8. Tab(q) = t
  <2>1. t = [blocks |-> t.blocks, freed |-> t.freed]
    BY <1>4, HeapAssumption, HP!TablesAre
  <2> QED BY <1>7, <2>1 DEF Tab
<1>9. PICK f : f = [i \in 0..m |-> g[i]]
  OBVIOUS
<1>10. HP!Remembers(f, g[m], q.journal, 0) /\ q.journal \in Seq(HP!Entry) /\ Len(q.journal) = m
  <2>1. PICK lo \in Nat : lo = 0 /\ lo - lo + 1 = 1 /\ m - lo = m /\ lo <= m /\ lo <= lo
                          /\ m <= lo + Len(heap.journal)
    BY <1>2
  <2>2. /\ HP!Remembers([k \in lo..m |-> g[k]], g[m], SubSeq(heap.journal, lo - lo + 1, m - lo), lo)
        /\ SubSeq(heap.journal, lo - lo + 1, m - lo) \in Seq(HP!Entry)
        /\ lo + Len(SubSeq(heap.journal, lo - lo + 1, m - lo)) = m
    BY <1>1, <2>1, HeapAssumption, HP!RemembersPart
  <2>3. q.journal = SubSeq(heap.journal, lo - lo + 1, m - lo)
    BY <1>7, <2>1
  <2>4. q.journal \in Seq(HP!Entry) /\ Len(q.journal) \in Nat /\ lo + Len(q.journal) = m
    BY <2>2, <2>3
  <2> QED BY <1>9, <2>1, <2>2, <2>3, <2>4
<1>11. HP!Now(f)'
  <2>1. p.top \in Nat /\ p.top <= HeapSize
    BY DEF Reaches
  <2>2. HP!tables' = Tab(q)
    BY <1>5 DEF HP!tables, Tab
  <2>3. HP!Fine(Tab(q)) /\ HP!PlacesOf(Tab(q)) = g[m] /\ HP!Apart(HP!PlacesOf(Tab(q)), q.top)
    BY <1>2, <1>4, <1>7, <1>8
  <2> QED BY <1>5, <1>7, <1>10, <2>1, <2>2, <2>3 DEF HP!Now
<1>12. Alike(q, p)
  BY <1>2, <1>4, <1>7, <1>8 DEF Alike
<1> QED
  BY <1>2, <1>5, <1>7, <1>9, <1>10, <1>11, <1>12

LEMMA LeastIs ==
  ASSUME NEW S \in SUBSET Nat, S # {}
  PROVE  Min(S) \in S /\ \A i \in S : Min(S) <= i
BY LeastOf DEF Min

\* Back to a state there was.
LEMMA RewindKeeps ==
  ASSUME IInv, NEW k \in 0..Len(log), NEW c \in 0..k, Rewind(k, c)
  PROVE  IInv'
<1>1. PICK n \in Nat : n = Len(log) /\ Len(past) = n + 1 /\ k \in 0..n
  BY LenProperties DEF IInv, History, IsSequence
<1>2. PICK g : HP!Now(g) /\ Marks(g, Len(heap.journal), log, past)
  BY DEF IInv
<1>3. Len(heap.journal) \in Nat /\ k \in Nat
  BY <1>1, <1>2, ReadyIs
<1>4. machine' = past[k + 1][1]
  BY HistoryReplayed DEF IInv, Rewind
<1>5. log' = SubSeq(log, 1, k) /\ past' = SubSeq(past, 1, k + 1) /\ bound' = bound
  BY DEF Rewind
<1>6. History(DOMAIN bound, log', past') /\ past'[Len(past')] = past[k + 1]
  BY <1>5, HistoryCut DEF IInv
<1> DEFINE gone == {i \in (k + 1)..Len(log) : log[i].logged}
<1>7. CASE gone = {}
  <2>1. heap' = heap
    BY <1>7 DEF Rewind
  <2>2. Alike(past[n + 1][2], past[k + 1][2])
    <3>1. n \in k..Len(log) /\ \A i \in (k + 1)..n : ~ log[i].logged
      BY <1>1, <1>7
    <3> QED BY <3>1, HistoryAlike DEF IInv
  <2>3. Alike(heap, past[k + 1][2])
    BY <1>1, <2>2 DEF IInv, Alike
  <2>4. Marks(g, Len(heap.journal), log', past')
    <3>1. \A i \in 1..k : i \in 1..Len(log)
      BY <1>1
    <3>2. \A i \in 1..k : log[i].logged => log[i].before.mark <= Len(heap.journal)
      BY <1>2, <1>3, <3>1 DEF Marks
    <3> QED BY <1>2, <1>3, <1>5, <3>2, MarksCut DEF IInv
  <2>5. HP!Now(g)'
    BY <1>2, <2>1 DEF HP!Now, HP!tables
  <2> QED BY <1>4, <1>5, <1>6, <2>1, <2>3, <2>4, <2>5 DEF IInv
<1>8. CASE gone # {}
  <2>1. PICK j \in gone : j = Min(gone) /\ \A i \in gone : j <= i
    <3>1. gone \in SUBSET Nat
      BY <1>1
    <3> HIDE DEF gone
    <3> QED BY <1>8, <3>1, LeastIs
  <2>2. j \in 1..n /\ j \in (k + 1)..n /\ log[j].logged /\ j \in 1..Len(log) /\ j \in 1..Len(past)
    BY <1>1, <2>1
  <2>3. Alike(past[j][2], past[k + 1][2])
    <3>1. PICK i \in k..Len(log) : i = j - 1 /\ i + 1 = j
      BY <1>1, <2>2
    <3>2. \A x \in (k + 1)..i : ~ log[x].logged
      BY <1>1, <2>1, <2>2, <3>1
    <3> QED BY <3>1, <3>2, HistoryAlike DEF IInv
  <2>4. PICK snap : snap = log[j].before
    OBVIOUS
  <2>5. PICK p : p = past[j][2]
    OBVIOUS
  <2>6. heap' = Restore(heap, snap)
    BY <1>8, <2>1, <2>4 DEF Rewind
  <2>7. snap.top = p.top /\ snap.mapped = p.mapped
    BY <2>2, <2>4, <2>5 DEF IInv, History, Told
  <2>8. Reaches(p) /\ HP!Apart(HP!PlacesOf(Tab(p)), p.top)
    BY <2>2, <2>5 DEF IInv, History, IsState
  <2>9. snap.mark \in 0..Len(heap.journal) /\ g[snap.mark] = HP!PlacesOf(Tab(p))
    BY <1>2, <2>2, <2>4, <2>5 DEF Marks
  <2>10. /\ IsHeap(heap') /\ Alike(heap', p) /\ Len(heap'.journal) = snap.mark
         /\ \E f : HP!Now(f)' /\ \A i \in 0..snap.mark : f[i] = g[i]
    BY <1>2, <2>6, <2>7, <2>8, <2>9, RestoreIs
  <2>11. PICK f : HP!Now(f)' /\ \A i \in 0..snap.mark : f[i] = g[i]
    BY <2>10
  <2>12. Alike(heap', past[k + 1][2])
    BY <2>3, <2>5, <2>10 DEF Alike
  <2>13. Marks(f, snap.mark, log', past')
    <3>1. \A i \in 1..k : i \in 1..Len(log) /\ i <= j
      BY <1>1, <2>2
    <3>2. \A i \in 1..k : log[i].logged => log[i].before.mark <= snap.mark
      BY <1>2, <2>2, <2>4, <3>1 DEF Marks
    <3>3. snap.mark \in Nat
      BY <1>3, <2>9
    <3> QED BY <1>2, <1>3, <1>5, <2>11, <3>2, <3>3, MarksCut DEF IInv
  <2> QED BY <1>4, <1>5, <1>6, <2>10, <2>11, <2>12, <2>13 DEF IInv
<1> QED
  BY <1>7, <1>8

LEMMA InitInv == ASSUME Init PROVE IInv
<1>1. PICK c \in Contents :
        machine = [mem |-> [a \in Addresses |-> IF a \in Data THEN c[a] ELSE Absent], ret |-> 0]
  BY DEF Init
<1>2. PICK mem : mem = [a \in Addresses |-> IF a \in Data THEN c[a] ELSE Absent]
  OBVIOUS
<1>3. PICK m : m = machine
  OBVIOUS
<1>4. m.mem = mem /\ m = [mem |-> m.mem, ret |-> m.ret]
  BY <1>1, <1>2, <1>3
<1>5. IsMemory(mem, 0)
  <2>1. /\ c \in [Data -> Bytes] /\ HeapBase \in Nat /\ Addresses \subseteq Int
        /\ \A a \in Data : a \in Nat /\ a < HeapBase
    BY LayoutAssumption DEF Addresses
  <2>2. mem \in [Addresses -> Bytes \cup {Absent}]
    BY <1>2, <2>1
  <2>3. \A a \in Addresses : a >= HeapBase => mem[a] = Absent /\ a >= HeapBase + 0
    BY <1>2, <2>1
  <2> QED BY <2>2, <2>3 DEF IsMemory
<1>6. PICK p : p = heap
  OBVIOUS
<1>7. /\ p = [blocks |-> <<>>, freed |-> <<>>, top |-> 0, mapped |-> 0, journal |-> <<>>]
  BY <1>6 DEF Init
<1>8. /\ p.blocks = <<>> /\ p.freed = <<>> /\ p.top = 0 /\ p.mapped = 0 /\ p.journal = <<>> /\ IsHeap(p)
  BY <1>7 DEF IsHeap
<1>9. HP!HeapInv
  <2>1. HP!Init
    BY <1>6, <1>8 DEF HP!Init
  <2> QED BY <2>1, HeapAssumption, HP!HeapBegins
<1>10. PICK g : HP!Now(g)
  BY <1>9 DEF HP!HeapInv
<1>11. HP!Fine(Tab(p)) /\ HP!Apart(HP!PlacesOf(Tab(p)), p.top)
  BY <1>6, <1>10 DEF HP!Now, HP!tables, Tab
<1>12. Reaches(p)
  <2>1. HeapSize \in Nat /\ H!RoundUp(HeapSize, Page) \in Nat
    BY LayoutAssumption, RoundUpIs
  <2> QED BY <1>8, <2>1 DEF Reaches
<1>13. IsState(m, p)
  BY <1>4, <1>5, <1>8, <1>11, <1>12 DEF IsState
<1>14. PICK x : x = <<m, p>>
  OBVIOUS
<1>15. x[1] = m /\ x[2] = p
  BY <1>14
<1>16. log = <<>> /\ past = <<x>>
  BY <1>3, <1>6, <1>14 DEF Init
<1>17. Len(log) = 0 /\ Len(past) = 1 /\ past[1] = x /\ log \in Seq({}) /\ past \in Seq({x})
  BY <1>16
<1>18. IsSequence(log) /\ IsSequence(past) /\ 1..Len(past) = {1} /\ 1..Len(log) = {}
  <2>1. IsSequence(log) /\ IsSequence(past)
    BY <1>17, IsSequenceIs
  <2>2. 1..Len(past) = {1} /\ 1..Len(log) = {}
    BY <1>17
  <2> QED BY <2>1, <2>2
<1>19. History(DOMAIN bound, log, past)
  BY <1>13, <1>15, <1>17, <1>18 DEF History
<1>20. Marks(g, Len(heap.journal), log, past)
  BY <1>18 DEF Marks
<1>21. \A a \in DOMAIN bound : bound[a] \in Names
  BY ArgumentsAssumption DEF Init
<1>22. Alike(heap, past[Len(past)][2])
  BY <1>6, <1>15, <1>17 DEF Alike
<1> QED
  BY <1>3, <1>6, <1>8, <1>10, <1>15, <1>17, <1>19, <1>20, <1>21, <1>22 DEF IInv

LEMMA StepInv == ASSUME ~ Careless, IInv, [Next]_vars PROVE IInv'
<1>1. CASE Step
  <2>1. CASE \E address \in DOMAIN bound : \E x \in Args(bound[address]) : Call(address, x)
    BY <1>1, <2>1, CallKeeps DEF Step
  <2>2. CASE \E address \in Implemented \cup Others : CallReal(address)
    BY <1>1, <2>2, CallRealKeeps DEF Step
  <2> QED BY <1>1, <2>1, <2>2 DEF Step
<1>2. CASE \E b \in Binds : Bind(b[1], b[2])
  BY <1>2, BindKeeps
<1>3. CASE \E address \in Unbinds \cap DOMAIN bound : Unbind(address)
  BY <1>3, UnbindKeeps
<1>4. CASE \E k \in 0..Len(log) : \E c \in 0..k : Rewind(k, c)
  BY <1>4, RewindKeeps
<1>5. CASE UNCHANGED vars
  <2>1. /\ bound' = bound /\ UNCHANGED <<machine, heap, log, past>>
    BY <1>5 DEF vars
  <2>2. \A a \in DOMAIN bound' : bound'[a] \in Names
    BY <2>1 DEF IInv
  <2> QED BY <2>1, <2>2, BoundKeeps
<1> QED
  BY <1>1, <1>2, <1>3, <1>4, <1>5 DEF Next

----------------------------------------------------------------------------
(* The theorems: while nothing is unbound that has been called. *)

\* Every call in the log is one that its entry reproduces and undoes.
THEOREM CallsTold == ~ Careless => (Spec => []IInv)
<1> SUFFICES ASSUME ~ Careless PROVE Spec => []IInv
  OBVIOUS
<1>1. Init => IInv
  BY InitInv
<1>2. IInv /\ [Next]_vars => IInv'
  BY StepInv
<1> QED
  BY <1>1, <1>2, PTL DEF Spec

\* Calls that have been undone and replayed, from any of the states before, leave
\* the machine as they did when they were made: also where one failed after it had
\* mapped memory, whatever else has been bound since, and whether the functions
\* called were stood in for or ran themselves (stubs.py, _on_code;
\* effects.py, EffectLog.replay).
THEOREM StubsReplayed == ~ Careless => (Spec => []MachineReplayed)
<1>1. IInv => MachineReplayed
  BY DEF IInv, MachineReplayed, Latest
<1> QED
  BY <1>1, CallsTold, PTL

\* Undoing calls gives the allocator back the blocks it had, live and free, and an
\* arena mapped as far as it was, all of which is there (stubs.py, Heap.restore).
THEOREM StubsHeapRewound == ~ Careless => (Spec => []HeapRewound)
<1>1. IInv => HeapRewound
  <2> SUFFICES ASSUME IInv PROVE HeapRewound
    OBVIOUS
  <2>1. PICK q : q = past[Len(past)][2] /\ Alike(heap, q)
    BY DEF IInv
  <2>2. HP!PlacesOf(Tab(heap)) = HP!PlacesOf(Tab(q))
    BY <2>1 DEF Alike
  <2>3. \A p : /\ HP!PlacesOf(Tab(p)).live = H!Places({p.blocks[a] : a \in DOMAIN p.blocks})
               /\ HP!PlacesOf(Tab(p)).free = H!Places(ToSet(p.freed))
    BY SamePlaces DEF HP!PlacesOf, HP!Live, HP!Free, Tab, ToSet, HP!ToSet
  <2>4. /\ H!Places({heap.blocks[a] : a \in DOMAIN heap.blocks})
              = H!Places({q.blocks[a] : a \in DOMAIN q.blocks})
        /\ H!Places(ToSet(heap.freed)) = H!Places(ToSet(q.freed))
    BY <2>2, <2>3
  <2>5. PICK g : HP!Now(g)
    BY DEF IInv
  <2>6. IsMemory(machine.mem, heap.mapped) /\ Reaches(heap)
    BY <2>5, ReadyIs DEF Ready
  <2>7. ASSUME NEW a \in Span(HeapBase, heap.mapped) PROVE machine.mem[a] # Absent
    <3>1. HeapBase \in Nat \ {0} /\ heap.mapped \in Nat /\ H!RoundUp(HeapSize, Page) \in Nat
          /\ heap.mapped <= H!RoundUp(HeapSize, Page)
      BY <2>6, LayoutAssumption, RoundUpIs DEF Reaches
    <3>2. a \in Int /\ a >= HeapBase /\ a < HeapBase + heap.mapped
      BY <3>1 DEF Span
    <3>3. a \in Addresses /\ ~ (a >= HeapBase + heap.mapped)
      BY <3>1, <3>2 DEF Addresses
    <3> QED BY <2>6, <3>2, <3>3 DEF IsMemory
  <2> QED BY <2>1, <2>4, <2>7 DEF HeapRewound, Latest, Alike
<1> QED
  BY <1>1, CallsTold, PTL

----------------------------------------------------------------------------
(* What C says, of memory that is there. *)

\* Memory as a call finds it.
IsBytes(m) == m \in [Addresses -> Bytes \cup {Absent}]

LEMMA AddressesAre ==
  /\ Addresses \in SUBSET Nat /\ Addresses = 1..(HeapBase + H!RoundUp(HeapSize, Page))
  /\ H!RoundUp(HeapSize, Page) \in Nat
<1>1. H!RoundUp(HeapSize, Page) \in Nat /\ HeapBase \in Nat
  BY LayoutAssumption, RoundUpIs
<1> QED
  BY <1>1 DEF Addresses

\* Rounding up to a chunk adds less than one.
LEMMA RoundUpBelow ==
  ASSUME NEW n \in Nat, NEW unit \in Nat \ {0}
  PROVE  H!RoundUp(n + 1, unit) \in Nat /\ n + 1 <= H!RoundUp(n + 1, unit)
         /\ H!RoundUp(n + 1, unit) <= n + unit
<1> DEFINE q == (n + 1 + unit - 1) \div unit
           r == (n + 1 + unit - 1) % unit
<1>1. q \in Int /\ r \in 0..(unit - 1) /\ n + 1 + unit - 1 = unit * q + r
  OBVIOUS
<1>2. H!RoundUp(n + 1, unit) = q * unit
  BY DEF H!RoundUp
<1> HIDE DEF q, r
<1>3. unit * q = q * unit /\ unit * q \in Int
  BY <1>1
<1>4. H!RoundUp(n + 1, unit) \in Nat /\ n + 1 <= H!RoundUp(n + 1, unit)
  BY RoundUpIs
<1> QED
  BY <1>1, <1>2, <1>3, <1>4

\* The bytes there are where memory is.
LEMMA ByteIs ==
  ASSUME NEW m, IsBytes(m), NEW a \in Int, NEW n \in Nat, Mapped(m, Span(a, n)), NEW i \in 0..(n - 1)
  PROVE  a + i \in Addresses /\ m[a + i] \in Bytes
<1>1. a + i \in Span(a, n)
  BY DEF Span
<1> QED
  BY <1>1 DEF Mapped, IsBytes

\* Part of what is there is there.
LEMMA MappedLess ==
  ASSUME NEW m, NEW a \in Int, NEW n \in Nat, Mapped(m, Span(a, n)), NEW k \in 0..n
  PROVE  Mapped(m, Span(a, k))
BY DEF Mapped, Span

\* What the bytes read are.
LEMMA AtIs ==
  ASSUME NEW m, IsBytes(m), NEW a \in Int, NEW n \in Nat, Mapped(m, Span(a, n))
  PROVE  /\ At(m, a, n) \in Seq(Bytes) /\ Len(At(m, a, n)) = n
         /\ \A i \in 1..n : At(m, a, n)[i] = m[a + i - 1]
<1>1. ASSUME NEW i \in 1..n PROVE m[a + i - 1] \in Bytes
  <2>1. i - 1 \in 0..(n - 1) /\ a + (i - 1) = a + i - 1
    OBVIOUS
  <2> QED BY <2>1, ByteIs
<1>2. At(m, a, n) \in [1..n -> Bytes]
  BY <1>1 DEF At
<1>3. \A i \in 1..n : At(m, a, n)[i] = m[a + i - 1]
  BY DEF At
<1> QED
  BY <1>2, <1>3

\* A string has one length.
LEMMA OneLength ==
  ASSUME NEW m, NEW a \in Int, NEW n \in Nat, NEW k \in Nat, IsString(m, a, n), IsString(m, a, k)
  PROVE  n = k
<1>1. ~ (n < k)
  <2> SUFFICES ASSUME n < k PROVE FALSE
    OBVIOUS
  <2>1. n \in 0..(k - 1)
    OBVIOUS
  <2> QED BY <2>1 DEF IsString
<1>2. ~ (k < n)
  <2> SUFFICES ASSUME k < n PROVE FALSE
    OBVIOUS
  <2>1. k \in 0..(n - 1)
    OBVIOUS
  <2> QED BY <2>1 DEF IsString
<1> QED
  BY <1>1, <1>2

LEMMA LengthIs ==
  ASSUME NEW m, NEW a \in Int, Terminated(m, a)
  PROVE  Length(m, a) \in 0..Limit /\ Length(m, a) \in Nat /\ IsString(m, a, Length(m, a))
<1>1. \E n \in 0..Limit : IsString(m, a, n)
  BY DEF Terminated
<1>2. Length(m, a) \in 0..Limit /\ IsString(m, a, Length(m, a))
  BY <1>1 DEF Length
<1>3. Limit \in Nat
  BY LayoutAssumption
<1> QED
  BY <1>2, <1>3

\* A string whose end read_cstring finds, in chunks and before its limit.
Readable(m, a) ==
  /\ a \in Int /\ Terminated(m, a) /\ Mapped(m, Span(a, Length(m, a) + Chunk))
  /\ ~ IsString(m, a, Limit)

\* What it reads: the string up to its NUL.
Text(m, a) == At(m, a, Length(m, a))

LEMMA TextIs ==
  ASSUME NEW m, IsBytes(m), NEW a, Readable(m, a)
  PROVE  /\ Length(m, a) \in 0..(Limit - 1) /\ Length(m, a) \in Nat
         /\ IsString(m, a, Length(m, a)) /\ a + Length(m, a) \in Addresses
         /\ Text(m, a) \in Seq(Bytes) /\ Len(Text(m, a)) = Length(m, a)
         /\ \A i \in 1..Length(m, a) : Text(m, a)[i] = m[a + i - 1] /\ Text(m, a)[i] # 0
<1>1. PICK n \in Nat : n = Length(m, a) /\ n \in 0..Limit /\ IsString(m, a, n) /\ a \in Int
  BY LengthIs DEF Readable
<1>2. n # Limit /\ Limit \in Nat
  BY <1>1, LayoutAssumption DEF Readable
<1>3. Mapped(m, Span(a, n + 1)) /\ n + 1 \in Nat /\ n \in 0..(n + 1)
  BY <1>1 DEF IsString
<1>4. Mapped(m, Span(a, n))
  BY <1>1, <1>3, MappedLess
<1>5. /\ Text(m, a) \in Seq(Bytes) /\ Len(Text(m, a)) = n
      /\ \A i \in 1..n : Text(m, a)[i] = m[a + i - 1]
  BY <1>1, <1>4, AtIs DEF Text
<1>6. \A i \in 1..n : m[a + i - 1] # 0
  <2>1. \A i \in 1..n : i - 1 \in 0..(n - 1) /\ a + (i - 1) = a + i - 1
    BY <1>1
  <2> QED BY <1>1, <2>1 DEF IsString
<1>7. a + n \in Addresses
  BY <1>1, <1>3, ByteIs
<1> QED
  BY <1>1, <1>2, <1>5, <1>6, <1>7

\* The text of a string, its length, and where its NUL is.
IsText(m, a, text, n) ==
  /\ text \in Seq(Bytes) /\ n \in Nat
  /\ text = Text(m, a) /\ n = Length(m, a) /\ Len(text) = n
  /\ IsString(m, a, n) /\ a \in Int /\ a + n \in Addresses /\ n <= Limit - 1
  /\ \A i \in 0..(n - 1) : text[i + 1] = m[a + i] /\ text[i + 1] # 0

LEMMA TextSays ==
  ASSUME NEW m, IsBytes(m), NEW a, Readable(m, a)
  PROVE  \E text, n : IsText(m, a, text, n)
<1>1. PICK n \in Nat : n = Length(m, a) /\ n \in 0..(Limit - 1) /\ Limit \in Nat
  BY TextIs, LayoutAssumption
<1>2. PICK text \in Seq(Bytes) : text = Text(m, a)
  BY TextIs
<1>3. /\ IsString(m, a, n) /\ a \in Int /\ a + n \in Addresses /\ Len(text) = n
      /\ \A i \in 1..n : text[i] = m[a + i - 1] /\ text[i] # 0
  BY <1>1, <1>2, TextIs DEF Readable
<1>4. ASSUME NEW i \in 0..(n - 1) PROVE text[i + 1] = m[a + i] /\ text[i + 1] # 0
  <2>1. i + 1 \in 1..n /\ a + (i + 1) - 1 = a + i
    BY <1>3
  <2> QED BY <1>3, <2>1
<1>5. n <= Limit - 1
  BY <1>1
<1> QED
  BY <1>1, <1>2, <1>3, <1>4, <1>5 DEF IsText

LEMMA CStringReads ==
  ASSUME NEW s, IsBytes(s.mem), NEW a, Readable(s.mem, a)
  PROVE  CString(s, a) = {Text(s.mem, a)}
<1>1. PICK n \in 0..(Limit - 1) : n = Length(s.mem, a) /\ n \in Nat /\ IsString(s.mem, a, n) /\ a \in Int
  BY TextIs DEF Readable
<1>2. Chunk \in Nat \ {0} /\ Limit \in Nat \ {0}
  BY LayoutAssumption
<1>3. PICK k \in Nat : k = Least(H!RoundUp(n + 1, Chunk), Limit) /\ k \in 0..(n + Chunk)
  <2>1. PICK l \in Nat : l = H!RoundUp(n + 1, Chunk) /\ l <= n + Chunk
    BY <1>1, <1>2, RoundUpBelow
  <2>2. Least(l, Limit) \in Nat /\ Least(l, Limit) <= n + Chunk
    BY <1>1, <1>2, <2>1 DEF Least
  <2> QED BY <1>1, <1>2, <2>1, <2>2
<1>4. Mapped(s.mem, Span(a, k))
  <2>1. Mapped(s.mem, Span(a, n + Chunk)) /\ n + Chunk \in Nat
    BY <1>1, <1>2 DEF Readable
  <2> QED BY <1>1, <1>3, <2>1, MappedLess
<1>5. \A x \in 0..(Limit - 1) : s.mem[a + x] = 0 /\ (\A i \in 0..(x - 1) : s.mem[a + i] # 0) => x = n
  <2> SUFFICES ASSUME NEW x \in 0..(Limit - 1), s.mem[a + x] = 0, \A i \in 0..(x - 1) : s.mem[a + i] # 0
               PROVE  x = n
    OBVIOUS
  <2>1. s.mem[a + n] = 0 /\ \A i \in 0..(n - 1) : s.mem[a + i] # 0
    BY <1>1 DEF IsString
  <2>2. ~ (x < n)
    <3>1. x < n => x \in 0..(n - 1)
      BY <1>1, <1>2
    <3> QED BY <2>1, <3>1
  <2>3. ~ (n < x)
    <3>1. n < x => n \in 0..(x - 1)
      BY <1>1, <1>2
    <3> QED BY <2>1, <3>1
  <2> QED BY <1>1, <1>2, <2>2, <2>3
<1>6. s.mem[a + n] = 0 /\ \A i \in 0..(n - 1) : s.mem[a + i] # 0
  BY <1>1 DEF IsString
<1> DEFINE Ends == {x \in 0..(Limit - 1) :
             /\ Mapped(s.mem, Span(a, Least(H!RoundUp(x + 1, Chunk), Limit)))
             /\ s.mem[a + x] = 0
             /\ \A i \in 0..(x - 1) : s.mem[a + i] # 0}
<1>7. Ends = {n}
  BY <1>1, <1>3, <1>4, <1>5, <1>6
<1>8. CString(s, a) = {At(s.mem, a, x) : x \in Ends}
  BY DEF CString
<1> HIDE DEF Ends
<1>9. CString(s, a) = {At(s.mem, a, n)}
  BY <1>7, <1>8
<1> QED
  BY <1>1, <1>9 DEF Text

----------------------------------------------------------------------------
(* What is written, and the answer. *)

\* The machine's words hold every address, and more than three values; bytes
\* are numbers; and no copy is refused for its size.
Usual ==
  /\ Word \in Nat /\ Word > 3 /\ (\A a \in Addresses \cup Ptrs : a < Word)
  /\ Bytes \subseteq Nat
  /\ MaxTransfer \in Nat /\ \A n \in Numbers \cup Resizes : n <= MaxTransfer

\* A call on its way that has not failed, with the memory m.
Going(s, m) == IsCall(s) /\ IsDid(s.did) /\ s.mem = m /\ IsBytes(m) /\ s.failed = FALSE

\* Memory with bytes written from a on.
Over(m, a, data) ==
  [b \in DOMAIN m |-> IF b \in Span(a, Len(data)) THEN data[b - a + 1] ELSE m[b]]

LEMMA WordIs == ASSUME Usual, NEW v \in Nat, v < Word PROVE v % Word = v
BY DEF Usual

LEMMA AnswerSays ==
  ASSUME NEW s, NEW m, Going(s, m), NEW v
  PROVE  /\ Answer(s, v).mem = m /\ Answer(s, v).ret = {v % Word} /\ Answer(s, v).heap = s.heap
         /\ IsCall(Answer(s, v)) /\ Going(Answer(s, v), m)
<1>1. IsCall(s)
  BY DEF Going
<1>2. PICK r : r = {v % Word}
  OBVIOUS
<1>3. Answer(s, v) = [s EXCEPT !.ret = r]
  BY <1>2 DEF Answer
<1>4. /\ IsCall(Answer(s, v)) /\ Answer(s, v).ret = r /\ Answer(s, v).mem = s.mem
      /\ Answer(s, v).heap = s.heap /\ Answer(s, v).did = s.did /\ Answer(s, v).failed = s.failed
  BY <1>1, <1>3, FieldsOf DEF IsCall
<1> QED
  BY <1>2, <1>4 DEF Going

LEMMA OverIs ==
  ASSUME NEW m, IsBytes(m), NEW a \in Int, NEW data \in Seq(Bytes)
  PROVE  /\ IsBytes(Over(m, a, data)) /\ DOMAIN Over(m, a, data) = Addresses
         /\ DOMAIN m = Addresses
         /\ \A b \in Addresses :
              Over(m, a, data)[b] = IF b \in Span(a, Len(data)) THEN data[b - a + 1] ELSE m[b]
<1>1. PICK n \in Nat : n = Len(data) /\ \A i \in 1..n : data[i] \in Bytes
  OBVIOUS
<1>2. DOMAIN m = Addresses /\ m \in [Addresses -> Bytes \cup {Absent}]
  BY DEF IsBytes
<1>3. ASSUME NEW b \in Addresses, b \in Span(a, n) PROVE data[b - a + 1] \in Bytes
  <2>1. b - a + 1 \in 1..n
    BY <1>3 DEF Span
  <2> QED BY <1>1, <2>1
<1>4. PICK o : o = Over(m, a, data)
  OBVIOUS
<1>5. o = [b \in Addresses |-> IF b \in Span(a, n) THEN data[b - a + 1] ELSE m[b]]
  BY <1>1, <1>2, <1>4 DEF Over
<1>6. o \in [Addresses -> Bytes \cup {Absent}]
  BY <1>2, <1>3, <1>5
<1> QED
  BY <1>1, <1>2, <1>4, <1>5, <1>6 DEF IsBytes

\* What is written where memory is, is there, and nothing else is different.
LEMMA WriteSays ==
  ASSUME NEW s, NEW m, Going(s, m), NEW a \in Int, NEW data \in Seq(Bytes),
         Mapped(m, Span(a, Len(data))), NEW v
  PROVE  LET t == Then(Write(s, a, data), v) IN
         Going(t, Over(m, a, data)) /\ t.ret = {v % Word} /\ t.heap = s.heap
<1>1. PICK t : t = Write(s, a, data)
  OBVIOUS
<1>2. Going(t, Over(m, a, data)) /\ t.heap = s.heap
  <2>1. CASE data = <<>>
    <3>1. Span(a, Len(data)) = {}
      BY <2>1 DEF Span
    <3>2. Over(m, a, data) = m
      BY <3>1 DEF Over, Going, IsBytes
    <3> QED BY <1>1, <2>1, <3>2 DEF Write
  <2>2. CASE data # <<>>
    <3>1. PICK d : d = [s.did EXCEPT !.writes = Append(@, <<a, data>>)]
      OBVIOUS
    <3>2. PICK o : o = Over(m, a, data)
      OBVIOUS
    <3>3. t = [s EXCEPT !.mem = o, !.did = d]
      <4>1. IsCall(s) /\ IsDid(s.did) /\ s.mem = m
        BY DEF Going
      <4>2. Write(s, a, data) = [s EXCEPT
                !.mem = [b \in DOMAIN @ |-> IF b \in Span(a, Len(data)) THEN data[b - a + 1] ELSE @[b]],
                !.did.writes = Append(@, <<a, data>>)]
        BY <2>2, <4>1 DEF Write
      <4>3. o = [b \in DOMAIN s.mem |-> IF b \in Span(a, Len(data)) THEN data[b - a + 1] ELSE s.mem[b]]
        BY <3>2, <4>1 DEF Over
      <4> QED BY <1>1, <3>1, <4>1, <4>2, <4>3, FieldsOf DEF IsDid
    <3>4. IsCall(t) /\ t.mem = o /\ t.did = d /\ t.heap = s.heap /\ t.failed = s.failed
      <4>1. IsCall(s)
        BY DEF Going
      <4> QED BY <3>3, <4>1, FieldsOf DEF IsCall
    <3>5. IsDid(d)
      BY <3>1 DEF Going, IsDid
    <3>6. IsBytes(o)
      BY <3>2, OverIs DEF Going
    <3> QED BY <3>2, <3>4, <3>5, <3>6 DEF Going
  <2> QED BY <2>1, <2>2
<1>3. Then(t, v) = Answer(t, v)
  BY <1>2 DEF Then, Going
<1> QED
  BY <1>1, <1>2, <1>3, AnswerSays

\* A call begins, with the memory there is.
LEMMA EnteredSays ==
  ASSUME NEW g, Ready(g)
  PROVE  Going(Entered, machine.mem) /\ Entered.heap = heap
<1>1. PICK s : s = Entered
  OBVIOUS
<1>2. IsCall(s) /\ s.mem = machine.mem /\ s.did = Nothing /\ s.failed = FALSE /\ s.heap = heap
  BY <1>1 DEF IsCall, Entered
<1>3. IsDid(s.did)
  BY <1>2 DEF IsDid, Nothing
<1> QED
  BY <1>1, <1>2, <1>3 DEF Going, Ready, IsMemory, IsBytes

\* Where a program's pointers point a machine word can say.
LEMMA PointerIs ==
  ASSUME Usual, NEW g, Ready(g), NEW p \in Pointers
  PROVE  p \in Nat /\ p < Word /\ p % Word = p
<1>1. p \in Nat /\ p < Word
  <2>1. CASE p \in Ptrs
    BY <2>1, ArgumentsAssumption DEF Usual
  <2>2. CASE \E a \in DOMAIN heap.blocks : p = HeapBase + a
    <3>1. PICK a \in DOMAIN heap.blocks : p = HeapBase + a
      BY <2>2
    <3>2. /\ HP!Fine(HP!tables) /\ HP!tables.blocks = heap.blocks
          /\ HP!Apart(HP!PlacesOf(HP!tables), heap.top)
      BY DEF Ready, HP!Now, HP!tables
    <3>3. /\ heap.blocks \in [DOMAIN heap.blocks -> HP!BlockRecord] /\ a \in Nat
          /\ heap.blocks[a].address = a
      BY <3>2, HeapAssumption, HP!TablesAre DEF HP!Fine
    <3>4. HP!Place(heap.blocks[a]) \in HP!PlacesOf(HP!tables).live
      BY <3>2, HeapAssumption, HP!PlacesAre DEF HP!Where
    <3>5. a + heap.blocks[a].capacity <= heap.top /\ heap.blocks[a].capacity \in Nat \ {0}
      BY <3>2, <3>3, <3>4 DEF HP!Apart, HP!Place, HP!BlockRecord
    <3>6. heap.top \in Nat /\ heap.top <= HeapSize /\ HeapSize <= H!RoundUp(HeapSize, Page)
      BY LayoutAssumption, RoundUpIs DEF Ready, Reaches
    <3>7. HeapBase + a \in Addresses
      <4>1. HeapBase \in Nat \ {0} /\ HeapSize \in Nat
        BY LayoutAssumption
      <4>2. heap.blocks[a].capacity \in Nat /\ a <= HeapSize
        BY <3>3, <3>5, <3>6, <4>1
      <4> QED BY <3>3, <3>6, <4>1, <4>2, AddressesAre
    <3> QED BY <3>1, <3>7, AddressesAre DEF Usual
  <2> QED BY <2>1, <2>2 DEF Pointers
<1> QED
  BY <1>1, WordIs

----------------------------------------------------------------------------
(* The functions that move bytes. *)

\* A call that wrote data at dst, and answers dst.
Wrote(t, m, dst, data) == Going(t, Over(m, dst, data)) /\ t.ret = {dst}

LEMMA OnlyOne == ASSUME NEW x PROVE (CHOOSE y \in {x} : TRUE) = x
OBVIOUS

\* What lies at i from where it was written.
LEMMA OverAt ==
  ASSUME NEW m, IsBytes(m), NEW a \in Int, NEW data \in Seq(Bytes), NEW b \in Addresses
  PROVE  /\ b \in Span(a, Len(data)) =>
              Over(m, a, data)[b] = data[(b - a) + 1] /\ b - a \in 0..(Len(data) - 1)
         /\ b \notin Span(a, Len(data)) => Over(m, a, data)[b] = m[b]
<1>1. Len(data) \in Nat /\ b \in Int
  BY AddressesAre
<1>2. b \in Span(a, Len(data)) => b - a \in 0..(Len(data) - 1)
  BY <1>1 DEF Span
<1> QED
  BY <1>2, OverIs

LEMMA MemmoveSays ==
  ASSUME Usual, NEW s, NEW m, Going(s, m), NEW dst \in Nat, dst < Word, NEW src \in Nat, NEW n \in Numbers,
         Mapped(m, Span(dst, n)), Mapped(m, Span(src, n))
  PROVE  /\ Wrote(Memmove(s, dst, src, n), m, dst, At(m, src, n)) /\ At(m, src, n) \in Seq(Bytes)
         /\ Len(At(m, src, n)) = n /\ \A i \in 0..(n - 1) : At(m, src, n)[i + 1] = m[src + i]
<1>1. n \in Nat /\ n <= MaxTransfer /\ dst % Word = dst /\ IsBytes(m)
  BY ArgumentsAssumption, WordIs DEF Usual, Going
<1>2. PICK data \in Seq(Bytes) :
        data = At(m, src, n) /\ Len(data) = n /\ \A i \in 1..n : data[i] = m[src + i - 1]
  BY <1>1, AtIs
<1>3. \A i \in 0..(n - 1) : data[i + 1] = m[src + i]
  <2>1. \A i \in 0..(n - 1) : i + 1 \in 1..n /\ src + (i + 1) - 1 = src + i
    BY <1>1
  <2> QED BY <1>2, <2>1
<1>4. CASE n = 0
  <2>1. data = <<>> /\ Span(dst, Len(data)) = {}
    BY <1>2, <1>4 DEF Span
  <2>2. Over(m, dst, data) = m
    BY <1>1, <2>1 DEF Over, IsBytes
  <2>3. Memmove(s, dst, src, n) = Answer(s, dst)
    BY <1>4 DEF Memmove
  <2> QED BY <1>1, <1>2, <1>3, <2>2, <2>3, AnswerSays DEF Wrote
<1>5. CASE n # 0
  <2>1. Read(s, src, n) = {data}
    BY <1>1, <1>2 DEF Read, Going
  <2>2. Memmove(s, dst, src, n) = Then(Write(s, dst, data), dst)
    BY <1>5, <2>1, OnlyOne DEF Memmove, Given
  <2> QED BY <1>1, <1>2, <1>3, <2>2, WriteSays DEF Wrote
<1> QED
  BY <1>4, <1>5

LEMMA MemsetSays ==
  ASSUME Usual, NEW s, NEW m, Going(s, m), NEW dst \in Nat, dst < Word, NEW value \in Bytes, NEW n \in Numbers,
         Mapped(m, Span(dst, n))
  PROVE  /\ Wrote(Memset(s, dst, value, n), m, dst, Fill(value, n)) /\ Fill(value, n) \in Seq(Bytes)
         /\ Len(Fill(value, n)) = n /\ \A i \in 0..(n - 1) : Fill(value, n)[i + 1] = value
<1>1. n \in Nat /\ ~ (n > MaxTransfer) /\ dst % Word = dst /\ IsBytes(m)
  BY ArgumentsAssumption, WordIs DEF Usual, Going
<1>2. PICK data \in Seq(Bytes) : data = Fill(value, n)
  BY <1>1, FillIs
<1>3. Len(data) = n /\ \A i \in 0..(n - 1) : data[i + 1] = value
  BY <1>1, <1>2 DEF Fill
<1>4. Memset(s, dst, value, n) = Then(Write(s, dst, data), dst)
  BY <1>1, <1>2 DEF Memset
<1> QED
  BY <1>1, <1>2, <1>3, <1>4, WriteSays DEF Wrote

\* One string after another.
Joined(data, one, two) ==
  /\ data = one \o two /\ data \in Seq(Bytes) /\ Len(data) = Len(one) + Len(two)
  /\ \A i \in 1..Len(one) : data[i] = one[i]
  /\ \A i \in 1..Len(two) : data[Len(one) + i] = two[i]

LEMMA JoinIs ==
  ASSUME NEW one \in Seq(Bytes), NEW two \in Seq(Bytes)
  PROVE  Joined(one \o two, one, two)
<1>1. one \o two \in Seq(Bytes) /\ Len(one \o two) = Len(one) + Len(two)
  BY ConcatProperties
<1>2. \A i \in 1..(Len(one) + Len(two)) :
        (one \o two)[i] = IF i <= Len(one) THEN one[i] ELSE two[i - Len(one)]
  BY ConcatProperties
<1>3. \A i \in 1..Len(one) : i \in 1..(Len(one) + Len(two)) /\ i <= Len(one)
  OBVIOUS
<1>4. \A i \in 1..Len(two) : /\ Len(one) + i \in 1..(Len(one) + Len(two)) /\ ~ (Len(one) + i <= Len(one))
                            /\ (Len(one) + i) - Len(one) = i
  OBVIOUS
<1> QED
  BY <1>1, <1>2, <1>3, <1>4 DEF Joined

\* A string and its NUL.
IsEnded(data, text) ==
  /\ data = text \o NUL /\ data \in Seq(Bytes) /\ Len(data) = Len(text) + 1
  /\ \A i \in 0..Len(text) : data[i + 1] = IF i < Len(text) THEN text[i + 1] ELSE 0

LEMMA EndedIs ==
  ASSUME NEW text \in Seq(Bytes)
  PROVE  IsEnded(text \o NUL, text)
<1>1. NUL \in Seq(Bytes) /\ Len(NUL) = 1 /\ NUL[1] = 0
  BY LayoutAssumption DEF NUL
<1>2. PICK all : all = text \o NUL /\ Joined(all, text, NUL)
  BY <1>1, JoinIs
<1>3. PICK n \in Nat : n = Len(text)
  OBVIOUS
<1>4. /\ all \in Seq(Bytes) /\ Len(all) = n + 1
      /\ \A i \in 1..n : all[i] = text[i]
      /\ all[n + 1] = 0
  BY <1>1, <1>2, <1>3 DEF Joined
<1>5. ASSUME NEW i \in 0..n PROVE all[i + 1] = IF i < n THEN text[i + 1] ELSE 0
  <2>1. CASE i < n
    <3>1. i + 1 \in 1..n
      BY <2>1
    <3> QED BY <1>4, <2>1, <3>1
  <2>2. CASE ~ (i < n)
    <3>1. i = n
      BY <2>2
    <3> QED BY <1>4, <2>2, <3>1
  <2> QED BY <2>1, <2>2
<1> QED
  BY <1>2, <1>3, <1>4, <1>5 DEF IsEnded

\* The first n bytes of one.
IsFirst(part, k, text, n) ==
  /\ part = First(text, n) /\ part \in Seq(Bytes) /\ k \in Nat /\ Len(part) = k
  /\ k <= n /\ k <= Len(text) /\ (k = n \/ k = Len(text))
  /\ \A i \in 0..(k - 1) : part[i + 1] = text[i + 1]

LEMMA FirstSays ==
  ASSUME NEW text \in Seq(Bytes), NEW n \in Nat
  PROVE  \E part, k : IsFirst(part, k, text, n)
<1>1. PICK k \in 0..Len(text) : /\ k = Least(n, Len(text)) /\ k <= n /\ k \in Nat /\ k <= Len(text)
                                /\ k = n \/ k = Len(text)
  BY DEF Least
<1>2. PICK part : part = SubSeq(text, 1, k)
  OBVIOUS
<1>3. part \in Seq(Bytes) /\ Len(part) = k /\ \A i \in 1..k : part[i] = text[i]
  <2>1. k \in Int /\ 1 \in Int /\ \A i \in 1..k : text[i] \in Bytes
    OBVIOUS
  <2>2. /\ part \in Seq(Bytes) /\ Len(part) = IF 1 <= k THEN k - 1 + 1 ELSE 0
        /\ \A i \in 1..(k - 1 + 1) : part[i] = text[1 + i - 1]
    BY <1>2, <2>1, SubSeqProperties
  <2>3. \A i \in 1..k : i \in 1..(k - 1 + 1) /\ 1 + i - 1 = i
    OBVIOUS
  <2>4. \A i \in 1..k : part[i] = text[i]
    BY <2>2, <2>3
  <2>5. Len(part) = k
    BY <1>1, <2>2
  <2> QED BY <2>2, <2>4, <2>5
<1>4. \A i \in 0..(k - 1) : part[i + 1] = text[i + 1]
  BY <1>3
<1> QED
  BY <1>1, <1>2, <1>3, <1>4 DEF First, IsFirst

LEMMA StrcpySays ==
  ASSUME Usual, NEW s, NEW m, Going(s, m), NEW dst \in Nat, dst < Word, NEW src, Readable(m, src),
         Mapped(m, Span(dst, Length(m, src) + 1))
  PROVE  \E data \in Seq(Bytes) :
           /\ Wrote(Strcpy(s, dst, src), m, dst, data) /\ Len(data) = Length(m, src) + 1
           /\ \A i \in 0..Length(m, src) : data[i + 1] = m[src + i]
<1>1. IsBytes(m) /\ s.mem = m /\ dst % Word = dst
  BY WordIs DEF Going
<1>2. PICK text, n : IsText(m, src, text, n)
  BY <1>1, TextSays
<1>3. text \in Seq(Bytes) /\ n \in Nat /\ Len(text) = n /\ text = Text(m, src) /\ n = Length(m, src)
  BY <1>2 DEF IsText
<1>4. PICK data : data = text \o NUL /\ IsEnded(data, text)
  BY <1>3, EndedIs
<1>5. data \in Seq(Bytes) /\ Len(data) = n + 1
  BY <1>3, <1>4 DEF IsEnded
<1>6. ASSUME NEW i \in 0..n PROVE data[i + 1] = m[src + i]
  <2>1. data[i + 1] = IF i < n THEN text[i + 1] ELSE 0
    BY <1>3, <1>4 DEF IsEnded
  <2>2. CASE i < n
    <3>1. i \in 0..(n - 1)
      BY <1>3, <2>2
    <3> QED BY <1>2, <2>1, <2>2, <3>1 DEF IsText
  <2>3. CASE ~ (i < n)
    <3>1. i = n /\ m[src + n] = 0
      BY <1>2, <1>3, <2>3 DEF IsString, IsText
    <3> QED BY <2>1, <2>3, <3>1
  <2> QED BY <2>2, <2>3
<1>7. Strcpy(s, dst, src) = Then(Write(s, dst, data), dst)
  <2>1. CString(s, src) = {text}
    BY <1>1, <1>3, CStringReads
  <2> QED BY <1>4, <2>1, OnlyOne DEF Strcpy, Given
<1>8. Wrote(Strcpy(s, dst, src), m, dst, data)
  <2>1. dst \in Int /\ Mapped(m, Span(dst, Len(data)))
    BY <1>3, <1>5
  <2> QED BY <1>1, <1>5, <1>7, <2>1, WriteSays DEF Wrote
<1> QED
  BY <1>3, <1>5, <1>6, <1>8

\* What a function that stops at NUL sees.
LEMMA PaddedIs ==
  ASSUME NEW m, NEW a \in Int, NEW n \in Nat, IsString(m, a, n), NEW i \in Nat
  PROVE  Padded(m, a, i) = IF i < n THEN m[a + i] ELSE 0
<1>1. CASE i < n
  <2>1. \A j \in 0..i : j \in 0..(n - 1)
    BY <1>1
  <2>2. ~ \E j \in 0..i : m[a + j] = 0
    BY <2>1 DEF IsString
  <2> QED BY <1>1, <2>2 DEF Padded
<1>2. CASE ~ (i < n)
  <2>1. n \in 0..i /\ m[a + n] = 0
    BY <1>2 DEF IsString
  <2> QED BY <1>2, <2>1 DEF Padded
<1> QED
  BY <1>1, <1>2

LEMMA StrncpySays ==
  ASSUME Usual, NEW s, NEW m, Going(s, m), NEW dst \in Nat, dst < Word, NEW src, Readable(m, src),
         NEW n \in Numbers, Mapped(m, Span(dst, n))
  PROVE  \E data \in Seq(Bytes) :
           /\ Wrote(Strncpy(s, dst, src, n), m, dst, data) /\ Len(data) = n
           /\ \A i \in 0..(n - 1) : data[i + 1] = Padded(m, src, i)
<1>1. IsBytes(m) /\ s.mem = m /\ dst % Word = dst
  BY WordIs DEF Going
<1>2. n \in Nat /\ ~ (n > MaxTransfer)
  BY ArgumentsAssumption DEF Usual
<1>3. PICK text, l : IsText(m, src, text, l)
  BY <1>1, TextSays
<1>4. /\ text \in Seq(Bytes) /\ l \in Nat /\ Len(text) = l /\ text = Text(m, src)
      /\ IsString(m, src, l) /\ src \in Int
  BY <1>3 DEF IsText
<1>5. PICK part, k : IsFirst(part, k, text, n)
  BY <1>2, <1>4, FirstSays
<1>6. part \in Seq(Bytes) /\ part = First(text, n) /\ Len(part) = k
  BY <1>5 DEF IsFirst
<1>7. PICK d \in Nat : d = n - k
  BY <1>2, <1>5 DEF IsFirst
<1>8. PICK rest \in Seq(Bytes) : rest = Fill(0, d)
  BY <1>7, FillIs, LayoutAssumption
<1>9. Len(rest) = d /\ \A i \in 1..d : rest[i] = 0
  BY <1>7, <1>8 DEF Fill
<1>10. PICK data : data = part \o rest /\ Joined(data, part, rest)
  BY <1>6, <1>8, JoinIs
<1>11. data \in Seq(Bytes) /\ Len(data) = n
  <2>1. k + d = n
    BY <1>2, <1>5, <1>7 DEF IsFirst
  <2> QED BY <1>6, <1>9, <1>10, <2>1 DEF Joined
<1>12. ASSUME NEW i \in 0..(n - 1) PROVE data[i + 1] = Padded(m, src, i)
  <2>1. Padded(m, src, i) = IF i < l THEN m[src + i] ELSE 0
    BY <1>4, PaddedIs
  <2>2. k \in Nat /\ (i < k <=> i < l)
    BY <1>2, <1>4, <1>5 DEF IsFirst
  <2>3. CASE i < k
    <3>1. i \in 0..(k - 1) /\ i + 1 \in 1..k /\ i \in 0..(l - 1)
      BY <1>4, <2>2, <2>3
    <3>2. data[i + 1] = part[i + 1]
      BY <1>6, <1>10, <3>1 DEF Joined
    <3>3. part[i + 1] = text[i + 1]
      BY <1>5, <3>1 DEF IsFirst
    <3>4. text[i + 1] = m[src + i]
      BY <1>3, <3>1 DEF IsText
    <3> QED BY <2>1, <2>2, <2>3, <3>2, <3>3, <3>4
  <2>4. CASE ~ (i < k)
    <3>1. PICK j \in 1..d : k + j = i + 1
      <4>1. (i + 1) - k \in 1..d /\ k + ((i + 1) - k) = i + 1
        BY <1>2, <1>7, <2>2, <2>4
      <4> QED BY <4>1
    <3>2. data[k + j] = rest[j]
      BY <1>6, <1>9, <1>10 DEF Joined
    <3> QED BY <1>9, <2>1, <2>2, <2>4, <3>1, <3>2
  <2> QED BY <2>3, <2>4
<1>13. Strncpy(s, dst, src, n) = Then(Write(s, dst, data), dst)
  <2>1. CString(s, src) = {text}
    BY <1>1, <1>3, CStringReads DEF IsText
  <2>2. Strncpy(s, dst, src, n) = Then(Write(s, dst, First(text, n) \o Fill(0, n - Len(First(text, n)))), dst)
    BY <1>2, <2>1, OnlyOne DEF Strncpy, Given
  <2> QED BY <1>6, <1>7, <1>8, <1>10, <2>2
<1>14. Wrote(Strncpy(s, dst, src, n), m, dst, data)
  <2>1. dst \in Int /\ Mapped(m, Span(dst, Len(data)))
    BY <1>11
  <2> QED BY <1>1, <1>11, <1>13, <2>1, WriteSays DEF Wrote
<1> QED
  BY <1>11, <1>12, <1>14

\* What of a string is appended, of n bytes at most.
Taken(m, a, n) ==
  CHOOSE k \in 0..n : /\ k = n \/ m[a + k] = 0
                      /\ \A i \in 0..(k - 1) : m[a + i] # 0

LEMMA TakenIs ==
  ASSUME NEW m, NEW a \in Int, NEW l \in Nat, IsString(m, a, l), NEW n \in Nat
  PROVE  Taken(m, a, n) = Least(n, l)
<1>1. PICK k \in Nat : k = Least(n, l) /\ k <= n /\ k <= l /\ (k = n \/ k = l)
  BY DEF Least
<1>2. m[a + l] = 0 /\ \A i \in 0..(l - 1) : m[a + i] # 0
  BY DEF IsString
<1> DEFINE P(x) == (x = n \/ m[a + x] = 0) /\ \A i \in 0..(x - 1) : m[a + i] # 0
<1>3. k \in 0..n /\ P(k)
  BY <1>1, <1>2
<1>4. ASSUME NEW x \in 0..n, P(x) PROVE x = k
  <2>1. ~ (x < k)
    <3>1. x < k => x \in 0..(l - 1) /\ x # n
      BY <1>1
    <3> QED BY <1>2, <1>4, <3>1
  <2>2. ~ (k < x)
    <3>1. k < x => k = l /\ k \in 0..(x - 1)
      BY <1>1
    <3> QED BY <1>2, <1>4, <3>1
  <2> QED BY <1>1, <2>1, <2>2
<1>5. Taken(m, a, n) = CHOOSE x \in 0..n : P(x)
  BY DEF Taken
<1> HIDE DEF P
<1>6. (CHOOSE x \in 0..n : P(x)) = k
  BY <1>3, <1>4
<1> QED
  BY <1>1, <1>5, <1>6

LEMMA StrncatSays ==
  ASSUME Usual, NEW s, NEW m, Going(s, m), NEW dst \in Nat, dst < Word, NEW src,
         Readable(m, dst), Readable(m, src), NEW n \in Nat, NEW k, k = Taken(m, src, n),
         Mapped(m, Span(dst + Length(m, dst), k + 1))
  PROVE  \E data \in Seq(Bytes), end \in Int :
           /\ end = dst + Length(m, dst) /\ Len(data) = k + 1 /\ k \in Nat
           /\ Strncat(s, dst, src, n).ret = {dst}
           /\ Strncat(s, dst, src, n).mem = Over(m, end, data)
           /\ \A i \in 0..k : data[i + 1] = IF i = k THEN 0 ELSE m[src + i]
<1>1. IsBytes(m) /\ s.mem = m /\ dst % Word = dst
  BY WordIs DEF Going
<1>2. PICK old, o : IsText(m, dst, old, o)
  BY <1>1, TextSays
<1>3. PICK text, l : IsText(m, src, text, l)
  BY <1>1, TextSays
<1>4. /\ text \in Seq(Bytes) /\ l \in Nat /\ Len(text) = l /\ text = Text(m, src)
      /\ IsString(m, src, l) /\ src \in Int
  BY <1>3 DEF IsText
<1>5. PICK part, p : IsFirst(part, p, text, n)
  BY <1>4, FirstSays
<1>6. part \in Seq(Bytes) /\ part = First(text, n) /\ Len(part) = p /\ p \in Nat
  BY <1>5 DEF IsFirst
<1>7. k = p
  <2>1. k = Least(n, l)
    BY <1>4, TakenIs
  <2> QED BY <1>4, <1>5, <2>1 DEF IsFirst, Least
<1>8. PICK data : data = part \o NUL /\ IsEnded(data, part)
  BY <1>6, EndedIs
<1>9. data \in Seq(Bytes) /\ Len(data) = k + 1
  BY <1>6, <1>7, <1>8 DEF IsEnded
<1>10. ASSUME NEW i \in 0..k PROVE data[i + 1] = IF i = k THEN 0 ELSE m[src + i]
  <2>1. data[i + 1] = IF i < k THEN part[i + 1] ELSE 0
    BY <1>6, <1>7, <1>8 DEF IsEnded
  <2>2. CASE i = k
    BY <1>6, <1>7, <2>1, <2>2
  <2>3. CASE i # k
    <3>1. i < k /\ i \in 0..(k - 1) /\ i \in 0..(l - 1)
      BY <1>4, <1>5, <1>6, <1>7, <2>3 DEF IsFirst
    <3>2. part[i + 1] = text[i + 1]
      BY <1>5, <1>7, <3>1 DEF IsFirst
    <3>3. text[i + 1] = m[src + i]
      BY <1>3, <3>1 DEF IsText
    <3> QED BY <2>1, <2>3, <3>1, <3>2, <3>3
  <2> QED BY <2>2, <2>3
<1>11. PICK end \in Int : end = dst + Length(m, dst) /\ end = dst + Len(old)
  BY <1>2 DEF IsText
<1>12. Strncat(s, dst, src, n) = Then(Write(s, end, data), dst)
  <2>1. CString(s, src) = {text} /\ CString(s, dst) = {old}
    BY <1>1, <1>2, <1>3, CStringReads DEF IsText
  <2> QED BY <1>6, <1>8, <1>11, <2>1, OnlyOne DEF Strncat, Given
<1>13. Strncat(s, dst, src, n).ret = {dst} /\ Strncat(s, dst, src, n).mem = Over(m, end, data)
  <2>1. Mapped(m, Span(end, Len(data)))
    BY <1>9, <1>11
  <2>2. PICK t : t = Then(Write(s, end, data), dst)
    OBVIOUS
  <2>3. Going(t, Over(m, end, data)) /\ t.ret = {dst % Word}
    BY <1>9, <2>1, <2>2, WriteSays
  <2> QED BY <1>1, <1>12, <2>2, <2>3 DEF Going
<1> QED
  BY <1>6, <1>7, <1>9, <1>10, <1>11, <1>13

\* Bytes written, where each is the byte it should be.
LEMMA CopyIs ==
  ASSUME NEW m, IsBytes(m), NEW a \in Int, NEW n \in Nat, NEW data \in Seq(Bytes), Len(data) = n
  PROVE  \A b \in DOMAIN m :
           /\ b \in Span(a, n) => b - a \in 0..(n - 1) /\ Over(m, a, data)[b] = data[(b - a) + 1]
           /\ b \notin Span(a, n) => Over(m, a, data)[b] = m[b]
BY OverAt, OverIs

\* What C says of the functions that move bytes, they do.
LEMMA MovesRight ==
  ASSUME Usual, NEW s, NEW m, Going(s, m), NEW g, Ready(g), NEW name \in Implemented, NEW x \in Args(name),
         \A p \in Strings(name, x) : Readable(m, p)
  PROVE  LibcMoves(name, m, x, Perform(s, name, x))
<1>1. IsBytes(m) /\ DOMAIN m = Addresses
  BY DEF Going, IsBytes
<1>2. \A p \in Pointers : p \in Nat /\ p < Word
  BY PointerIs
<1>3. CASE name \in {"memcpy", "memmove"}
  <2>1. x \in Pointers \X Pointers \X Numbers
    BY <1>3 DEF Args
  <2>2. PICK dst \in Pointers, src \in Pointers, n \in Numbers : x = <<dst, src, n>>
    BY <2>1
  <2>3. Perform(s, name, x) = Memmove(s, dst, src, n)
    BY <1>3, <2>2 DEF Perform
  <2>4. ASSUME Mapped(m, Span(dst, n)), Mapped(m, Span(src, n))
        PROVE  /\ \A b \in DOMAIN m : Memmove(s, dst, src, n).mem[b] =
                IF b \in Span(dst, n) THEN m[src + (b - dst)] ELSE m[b]
               /\ Result(Memmove(s, dst, src, n), dst)
    <3>1. PICK data : data = At(m, src, n)
      OBVIOUS
    <3>2. /\ Wrote(Memmove(s, dst, src, n), m, dst, data) /\ data \in Seq(Bytes) /\ n \in Nat
          /\ Len(data) = n /\ \A i \in 0..(n - 1) : data[i + 1] = m[src + i]
      BY <1>2, <2>4, <3>1, MemmoveSays, ArgumentsAssumption
    <3>3. \A b \in DOMAIN m :
            /\ b \in Span(dst, n) => b - dst \in 0..(n - 1) /\ Over(m, dst, data)[b] = data[(b - dst) + 1]
            /\ b \notin Span(dst, n) => Over(m, dst, data)[b] = m[b]
      BY <1>1, <1>2, <3>2, CopyIs
    <3> QED BY <3>2, <3>3 DEF Wrote, Going, Result
  <2> QED BY <1>3, <2>2, <2>3, <2>4 DEF LibcMoves, Copied
<1>4. CASE name = "memset"
  <2>1. x \in Pointers \X Chars \X Numbers
    BY <1>4 DEF Args
  <2>2. PICK dst \in Pointers, value \in Chars, n \in Numbers : x = <<dst, value, n>>
    BY <2>1
  <2>3. Perform(s, name, x) = Memset(s, dst, value, n)
    BY <1>4, <2>2 DEF Perform
  <2>4. ASSUME Mapped(m, Span(dst, n))
        PROVE  /\ \A b \in DOMAIN m : Memset(s, dst, value, n).mem[b] =
                IF b \in Span(dst, n) THEN value ELSE m[b]
               /\ Result(Memset(s, dst, value, n), dst)
    <3>1. PICK data : data = Fill(value, n)
      OBVIOUS
    <3>2. /\ Wrote(Memset(s, dst, value, n), m, dst, data) /\ data \in Seq(Bytes) /\ n \in Nat
          /\ Len(data) = n /\ \A i \in 0..(n - 1) : data[i + 1] = value
      BY <1>2, <2>4, <3>1, MemsetSays, ArgumentsAssumption
    <3>3. \A b \in DOMAIN m :
            /\ b \in Span(dst, n) => b - dst \in 0..(n - 1) /\ Over(m, dst, data)[b] = data[(b - dst) + 1]
            /\ b \notin Span(dst, n) => Over(m, dst, data)[b] = m[b]
      BY <1>1, <1>2, <3>2, CopyIs
    <3> QED BY <3>2, <3>3 DEF Wrote, Going, Result
  <2> QED BY <1>4, <2>2, <2>3, <2>4 DEF LibcMoves, Copied
<1>5. CASE name = "strcpy"
  <2>1. x \in Pointers \X Pointers
    BY <1>5 DEF Args
  <2>2. PICK dst \in Pointers, src \in Pointers : x = <<dst, src>>
    BY <2>1
  <2>3. Perform(s, name, x) = Strcpy(s, dst, src)
    BY <1>5, <2>2 DEF Perform
  <2>4. Readable(m, src)
    BY <1>5, <2>2 DEF Strings
  <2>5. PICK n \in Nat : n = Length(m, src) + 1
    BY <1>1, <2>4, TextIs
  <2>6. ASSUME Mapped(m, Span(dst, n))
        PROVE  /\ \A b \in DOMAIN m : Strcpy(s, dst, src).mem[b] =
                IF b \in Span(dst, n) THEN m[src + (b - dst)] ELSE m[b]
               /\ Result(Strcpy(s, dst, src), dst)
    <3>1. PICK data \in Seq(Bytes) :
            /\ Wrote(Strcpy(s, dst, src), m, dst, data) /\ Len(data) = n
            /\ \A i \in 0..Length(m, src) : data[i + 1] = m[src + i]
      BY <1>2, <2>4, <2>5, <2>6, StrcpySays
    <3>2. \A i \in 0..(n - 1) : data[i + 1] = m[src + i]
      BY <1>1, <2>4, <2>5, <3>1, TextIs
    <3>3. \A b \in DOMAIN m :
            /\ b \in Span(dst, n) => b - dst \in 0..(n - 1) /\ Over(m, dst, data)[b] = data[(b - dst) + 1]
            /\ b \notin Span(dst, n) => Over(m, dst, data)[b] = m[b]
      BY <1>1, <1>2, <3>1, CopyIs
    <3> QED BY <3>1, <3>2, <3>3 DEF Wrote, Going, Result
  <2> QED BY <1>5, <2>2, <2>3, <2>5, <2>6 DEF LibcMoves, Copied
<1>6. CASE name = "strncpy"
  <2>1. x \in Pointers \X Pointers \X Numbers
    BY <1>6 DEF Args
  <2>2. PICK dst \in Pointers, src \in Pointers, n \in Numbers : x = <<dst, src, n>>
    BY <2>1
  <2>3. Perform(s, name, x) = Strncpy(s, dst, src, n)
    BY <1>6, <2>2 DEF Perform
  <2>4. Readable(m, src) /\ n \in Nat
    BY <1>6, <2>2, ArgumentsAssumption DEF Strings
  <2>5. ASSUME Mapped(m, Span(dst, n))
        PROVE  /\ \A b \in DOMAIN m : Strncpy(s, dst, src, n).mem[b] =
                IF b \in Span(dst, n) THEN Padded(m, src, b - dst) ELSE m[b]
               /\ Result(Strncpy(s, dst, src, n), dst)
    <3>1. PICK data \in Seq(Bytes) :
            /\ Wrote(Strncpy(s, dst, src, n), m, dst, data) /\ Len(data) = n
            /\ \A i \in 0..(n - 1) : data[i + 1] = Padded(m, src, i)
      BY <1>2, <2>4, <2>5, StrncpySays
    <3>2. \A b \in DOMAIN m :
            /\ b \in Span(dst, n) => b - dst \in 0..(n - 1) /\ Over(m, dst, data)[b] = data[(b - dst) + 1]
            /\ b \notin Span(dst, n) => Over(m, dst, data)[b] = m[b]
      BY <1>1, <1>2, <2>4, <3>1, CopyIs
    <3> QED BY <3>1, <3>2 DEF Wrote, Going, Result
  <2> QED BY <1>6, <2>2, <2>3, <2>5 DEF LibcMoves, Copied
<1>7. CASE name \in {"strcat", "strncat"}
  <2>1. PICK dst \in Pointers, src \in Pointers, n \in Nat :
          /\ x[1] = dst /\ x[2] = src /\ n = IF name = "strcat" THEN Limit ELSE x[3]
          /\ Perform(s, name, x) = Strncat(s, dst, src, n)
    <3>1. CASE name = "strcat"
      <4>1. x \in Pointers \X Pointers
        BY <3>1 DEF Args
      <4>2. PICK dst \in Pointers, src \in Pointers : x = <<dst, src>>
        BY <4>1
      <4>3. Perform(s, name, x) = Strncat(s, dst, src, Limit)
        BY <3>1, <4>2 DEF Perform, Strcat
      <4> QED BY <3>1, <4>2, <4>3, LayoutAssumption
    <3>2. CASE name = "strncat"
      <4>1. x \in Pointers \X Pointers \X Numbers
        BY <3>2 DEF Args
      <4>2. PICK dst \in Pointers, src \in Pointers, n \in Numbers : x = <<dst, src, n>>
        BY <4>1
      <4>3. Perform(s, name, x) = Strncat(s, dst, src, n)
        BY <3>2, <4>2 DEF Perform
      <4> QED BY <3>2, <4>2, <4>3, ArgumentsAssumption
    <3> QED BY <1>7, <3>1, <3>2
  <2>2. Readable(m, dst) /\ Readable(m, src)
    BY <1>7, <2>1 DEF Strings
  <2>3. PICK k : k = Taken(m, src, n)
    OBVIOUS
  <2>4. PICK end : end = dst + Length(m, dst)
    OBVIOUS
  <2>5. ASSUME Mapped(m, Span(end, k + 1))
        PROVE  /\ \A b \in DOMAIN m : Strncat(s, dst, src, n).mem[b] =
                IF b \in Span(end, k + 1) THEN IF b - end = k THEN 0 ELSE m[src + (b - end)] ELSE m[b]
               /\ Result(Strncat(s, dst, src, n), dst)
    <3>1. PICK data \in Seq(Bytes), to \in Int :
            /\ to = dst + Length(m, dst) /\ Len(data) = k + 1 /\ k \in Nat
            /\ Strncat(s, dst, src, n).ret = {dst}
            /\ Strncat(s, dst, src, n).mem = Over(m, to, data)
            /\ \A i \in 0..k : data[i + 1] = IF i = k THEN 0 ELSE m[src + i]
      BY <1>2, <2>2, <2>3, <2>4, <2>5, StrncatSays
    <3>2. k + 1 \in Nat /\ (k + 1) - 1 = k /\ end = to
      BY <2>4, <3>1
    <3>3. \A b \in DOMAIN m :
            /\ b \in Span(end, k + 1) => /\ b - end \in 0..k
                                         /\ Over(m, end, data)[b] = data[(b - end) + 1]
            /\ b \notin Span(end, k + 1) => Over(m, end, data)[b] = m[b]
      BY <1>1, <3>1, <3>2, CopyIs
    <3> QED BY <3>1, <3>2, <3>3 DEF Result
  <2>6. (Terminated(m, dst) /\ Seen(m, src, n) =>
           (Mapped(m, Span(end, k + 1)) /\ Apart(dst, end + k + 1 - dst, src, k + 1) =>
              /\ \A b \in DOMAIN m : Strncat(s, dst, src, n).mem[b] =
                   IF b \in Span(end, k + 1) THEN IF b - end = k THEN 0 ELSE m[src + (b - end)] ELSE m[b]
              /\ Result(Strncat(s, dst, src, n), dst)))
        => LibcMoves(name, m, x, Strncat(s, dst, src, n))
    BY <1>7, <2>1, <2>3, <2>4 DEF LibcMoves, Taken, Copied
  <2> QED BY <2>1, <2>5, <2>6
<1>8. CASE name \notin {"memcpy", "memmove", "memset", "strcpy", "strncpy", "strcat", "strncat"}
  BY <1>8 DEF LibcMoves
<1> QED
  BY <1>3, <1>4, <1>5, <1>6, <1>7, <1>8

----------------------------------------------------------------------------
(* The functions that find something. *)

LEMMA MinIs == ASSUME NEW S \in SUBSET Int, NEW k \in S, \A i \in S : k <= i PROVE Min(S) = k
<1>1. PICK u : u = Min(S) /\ u \in S /\ \A i \in S : u <= i
  BY DEF Min
<1>2. u <= k /\ k <= u /\ u \in Int /\ k \in Int
  BY <1>1
<1> QED
  BY <1>1, <1>2

LEMMA MaxIs == ASSUME NEW S \in SUBSET Int, NEW k \in S, \A i \in S : k >= i PROVE Max(S) = k
<1>1. PICK u : u = Max(S) /\ u \in S /\ \A i \in S : u >= i
  BY DEF Max
<1>2. u >= k /\ k >= u /\ u \in Int /\ k \in Int
  BY <1>1
<1> QED
  BY <1>1, <1>2

\* Numbers that are not above a bound have a greatest.
LEMMA GreatestIs ==
  ASSUME NEW n \in Nat, NEW S \in SUBSET (0..n), S # {}
  PROVE  \E k \in S : \A i \in S : k >= i
<1> DEFINE T == {n - i : i \in S}
<1>1. T \in SUBSET Nat /\ T # {}
  <2>1. \A i \in S : i \in 0..n /\ n - i \in Nat
    OBVIOUS
  <2> QED BY <2>1
<1>2. PICK u \in T : \A v \in T : u <= v
  <2> HIDE DEF T
  <2> QED BY <1>1, LeastOf
<1>3. PICK k \in S : u = n - k
  BY <1>2
<1>4. ASSUME NEW i \in S PROVE k >= i
  <2>1. n - i \in T
    OBVIOUS
  <2>2. n - k <= n - i
    BY <1>2, <1>3, <2>1
  <2> QED BY <2>2
<1> QED
  BY <1>4

\* How two strings compare, where they first differ.
LEMMA CmpAt ==
  ASSUME Bytes \subseteq Nat, NEW l \in Seq(Bytes), NEW r \in Seq(Bytes),
         NEW d \in 1..Len(l), d <= Len(r), l[d] # r[d], \A i \in 1..(d - 1) : l[i] = r[i]
  PROVE  Cmp(l, r) = IF l[d] < r[d] THEN -1 ELSE 1
<1>0. Len(l) \in Nat /\ Len(r) \in Nat /\ d \in 1..Len(r) /\ l # r
  OBVIOUS
<1>1. /\ Len(l) \in Nat /\ Len(r) \in Nat /\ d \in 1..Len(r) /\ l # r
      /\ \A i \in 1..Len(l) : l[i] \in Nat
      /\ \A i \in 1..Len(r) : r[i] \in Nat
  <2>1. \A i \in 1..Len(l) : l[i] \in Bytes
    OBVIOUS
  <2>2. \A i \in 1..Len(r) : r[i] \in Bytes
    OBVIOUS
  <2> QED BY <1>0, <2>1, <2>2
<1>2. SubSeq(l, 1, d - 1) = SubSeq(r, 1, d - 1)
  <2>1. \A i \in 1..(d - 1) : l[i] \in Bytes /\ r[i] \in Bytes
    BY <1>1
  <2>2. PICK p : p = SubSeq(l, 1, d - 1)
    OBVIOUS
  <2>3. PICK q : q = SubSeq(r, 1, d - 1)
    OBVIOUS
  <2>4. p = [i \in 1..(d - 1) |-> l[i]]
    BY <1>1, <2>2
  <2>5. q = [i \in 1..(d - 1) |-> r[i]]
    BY <1>1, <2>3
  <2> QED BY <2>2, <2>3, <2>4, <2>5
<1>3. \A n \in 0..Len(l) : n <= Len(r) /\ d <= n => SubSeq(l, 1, n) # SubSeq(r, 1, n)
  <2> SUFFICES ASSUME NEW n \in 0..Len(l), n <= Len(r), d <= n, SubSeq(l, 1, n) = SubSeq(r, 1, n)
               PROVE  FALSE
    OBVIOUS
  <2>1. SubSeq(l, 1, n)[d] = l[d] /\ SubSeq(r, 1, n)[d] = r[d]
    BY <1>1
  <2> QED BY <2>1
<1>4. ~ IsPrefix(l, r)
  BY <1>1, <1>3 DEF IsPrefix
<1>5. PICK m \in Nat : m = Least(Len(l), Len(r)) /\ m <= Len(l) /\ m <= Len(r) /\ d <= m
  BY <1>1 DEF Least
<1>6. CASE l[d] < r[d]
  <2>1. \E i \in 1..m : l[i] < r[i] /\ SubSeq(l, 1, i - 1) = SubSeq(r, 1, i - 1)
    BY <1>2, <1>5, <1>6
  <2> QED BY <1>1, <1>5, <1>6, <2>1 DEF Cmp
<1>7. CASE ~ (l[d] < r[d])
  <2>1. ASSUME NEW i \in 1..m, l[i] < r[i], SubSeq(l, 1, i - 1) = SubSeq(r, 1, i - 1) PROVE FALSE
    <3>1. ~ (i < d)
      <4>1. i < d => i \in 1..(d - 1) /\ l[i] \in Nat
        BY <1>1, <1>5
      <4> QED BY <2>1, <4>1
    <3>2. i # d
      BY <1>7, <2>1
    <3>3. i - 1 \in 0..Len(l) /\ i - 1 <= Len(r) /\ d <= i - 1
      BY <1>1, <1>5, <3>1, <3>2
    <3> QED BY <1>3, <2>1, <3>3
  <2> QED BY <1>1, <1>4, <1>5, <1>7, <2>1 DEF Cmp
<1> QED
  BY <1>6, <1>7

\* And where the one is the beginning of the other.
LEMMA CmpPart ==
  ASSUME NEW l \in Seq(Bytes), NEW r \in Seq(Bytes), Bytes \subseteq Nat,
         Len(l) < Len(r), \A i \in 1..Len(l) : l[i] = r[i]
  PROVE  Cmp(l, r) = -1 /\ Cmp(r, l) = 1
<1>1. PICK n \in Nat : n = Len(l) /\ n < Len(r) /\ Len(r) \in Nat /\ l # r
  OBVIOUS
<1>2. SubSeq(l, 1, n) = SubSeq(r, 1, n)
  <2>1. PICK p : p = SubSeq(l, 1, n)
    OBVIOUS
  <2>2. PICK q : q = SubSeq(r, 1, n)
    OBVIOUS
  <2>3. p = [i \in 1..n |-> l[i]] /\ q = [i \in 1..n |-> r[i]]
    BY <1>1, <2>1, <2>2
  <2> QED BY <1>1, <2>1, <2>2, <2>3
<1>3. Cmp(l, r) = -1
  BY <1>1, <1>2 DEF Cmp, IsPrefix
<1>4. ~ IsPrefix(r, l)
  BY <1>1 DEF IsPrefix
<1>5. PICK m : m = Least(Len(r), Len(l)) /\ m = n
  BY <1>1 DEF Least
<1>6. ~ \E i \in 1..m : r[i] < l[i]
  <2>0. \A i \in 1..Len(l) : l[i] \in Bytes
    OBVIOUS
  <2>1. \A i \in 1..n : l[i] = r[i] /\ l[i] \in Nat
    BY <1>1, <2>0
  <2> QED BY <1>5, <2>1
<1>7. Cmp(r, l) = 1
  BY <1>1, <1>4, <1>5, <1>6 DEF Cmp
<1> QED
  BY <1>3, <1>7

\* The sign of the first difference between two functions.
Differs(f, g, n) == {i \in 0..(n - 1) : f[i] # g[i]}
Diff(f, g, n) ==
  IF Differs(f, g, n) = {} THEN 0
  ELSE IF f[Min(Differs(f, g, n))] < g[Min(Differs(f, g, n))] THEN -1 ELSE 1

\* Of n bytes, those of a text and NUL behind it.
Sees(f, n, text) == \A i \in 0..(n - 1) : f[i] = IF i < Len(text) THEN text[i + 1] ELSE 0

\* The n bytes that are compared decide: they reach to the end of the shorter
\* text, which is the first NUL, unless the texts are of one length.
Decide(l, r, n) ==
  /\ Len(l) <= n \/ Len(r) <= n
  /\ \/ Len(l) = Len(r)
     \/ /\ Len(l) < n \/ Len(r) < n
        /\ \A i \in 1..Len(l) : l[i] # 0
        /\ \A i \in 1..Len(r) : r[i] # 0

LEMMA CmpIs ==
  ASSUME Bytes \subseteq Nat, NEW l \in Seq(Bytes), NEW r \in Seq(Bytes), NEW n \in Nat, NEW f, NEW g,
         Sees(f, n, l), Sees(g, n, r), Decide(l, r, n)
  PROVE  Cmp(l, r) = Diff(f, g, n)
<1>0. PICK D : D = Differs(f, g, n)
  OBVIOUS
<1>1. D = Differs(f, g, n) /\ D \in SUBSET Nat
  BY <1>0 DEF Differs
<1>2. PICK p \in Nat, q \in Nat : p = Len(l) /\ q = Len(r)
  OBVIOUS
<1>3. /\ \A i \in 0..(p - 1) : l[i + 1] \in Nat
      /\ \A i \in 0..(q - 1) : r[i + 1] \in Nat
  <2>1. \A i \in 1..p : l[i] \in Bytes
    BY <1>2
  <2>2. \A i \in 1..q : r[i] \in Bytes
    BY <1>2
  <2>3. \A i \in 0..(p - 1) : i + 1 \in 1..p
    BY <1>2
  <2>4. \A i \in 0..(q - 1) : i + 1 \in 1..q
    BY <1>2
  <2> QED BY <2>1, <2>2, <2>3, <2>4
<1>4. \A i \in 0..(n - 1) : /\ f[i] = IF i < p THEN l[i + 1] ELSE 0
                            /\ g[i] = IF i < q THEN r[i + 1] ELSE 0
  BY <1>2 DEF Sees
<1>5. \/ p = q /\ p <= n
      \/ /\ p < n \/ q < n
         /\ \A i \in 0..(p - 1) : l[i + 1] # 0
         /\ \A i \in 0..(q - 1) : r[i + 1] # 0
  <2>1. \A i \in 0..(p - 1) : i + 1 \in 1..p
    BY <1>2
  <2>2. \A i \in 0..(q - 1) : i + 1 \in 1..q
    BY <1>2
  <2> QED BY <1>2, <2>1, <2>2 DEF Decide
<1>6. CASE D = {}
  <2>1. \A i \in 0..(n - 1) : f[i] = g[i]
    BY <1>1, <1>6 DEF Differs
  <2>2. ~ (p < q)
    <3> SUFFICES ASSUME p < q PROVE FALSE
      OBVIOUS
    <3>1. p \in 0..(n - 1) /\ p \in 0..(q - 1) /\ \A i \in 0..(q - 1) : r[i + 1] # 0
      BY <1>2, <1>5
    <3> QED BY <1>2, <1>4, <2>1, <3>1
  <2>3. ~ (q < p)
    <3> SUFFICES ASSUME q < p PROVE FALSE
      OBVIOUS
    <3>1. q \in 0..(n - 1) /\ q \in 0..(p - 1) /\ \A i \in 0..(p - 1) : l[i + 1] # 0
      BY <1>2, <1>5
    <3> QED BY <1>2, <1>4, <2>1, <3>1
  <2>4. p = q /\ p <= n
    BY <1>2, <1>5, <2>2, <2>3
  <2>5. ASSUME NEW i \in 1..p PROVE l[i] = r[i]
    <3>1. PICK j \in 0..(n - 1) : j + 1 = i /\ j < p
      <4>1. i - 1 \in 0..(n - 1) /\ (i - 1) + 1 = i /\ i - 1 < p
        BY <1>2, <2>4
      <4> QED BY <4>1
    <3> QED BY <1>4, <2>1, <2>4, <3>1
  <2>6. l = r
    <3>1. l \in Seq(Bytes) /\ r \in Seq(Bytes) /\ Len(l) = Len(r) /\ \A i \in 1..Len(l) : l[i] = r[i]
      BY <1>2, <2>4, <2>5
    <3> QED BY <3>1, SeqEqual
  <2> QED BY <1>1, <1>6, <2>6 DEF Cmp, Diff
<1>7. CASE D # {}
  <2>1. PICK k \in Nat : k = Min(D) /\ k \in D /\ \A i \in D : k <= i
    BY <1>1, <1>7, LeastIs
  <2>2. k \in 0..(n - 1) /\ f[k] # g[k] /\ \A i \in 0..(k - 1) : f[i] = g[i]
    <3>1. k \in 0..(n - 1) /\ f[k] # g[k]
      BY <1>1, <2>1 DEF Differs
    <3>2. ASSUME NEW i \in 0..(k - 1) PROVE f[i] = g[i]
      <4>1. i \in 0..(n - 1) /\ ~ (k <= i)
        BY <3>1
      <4> QED BY <1>1, <2>1, <4>1 DEF Differs
    <3> QED BY <3>1, <3>2
  <2>3. Diff(f, g, n) = IF f[k] < g[k] THEN -1 ELSE 1
    BY <1>1, <1>7, <2>1 DEF Diff
  <2>4. \A i \in 0..(k - 1) : i \in 0..(n - 1) /\ (i < p => i < q \/ l[i + 1] = 0) /\ (i < q => i < p \/ r[i + 1] = 0)
    BY <1>2, <1>4, <2>2
  <2>5. \A i \in 1..k : i <= p /\ i <= q => l[i] = r[i]
    <3> SUFFICES ASSUME NEW i \in 1..k, i <= p, i <= q PROVE l[i] = r[i]
      OBVIOUS
    <3>1. PICK j \in 0..(k - 1) : j + 1 = i
      <4>1. i - 1 \in 0..(k - 1) /\ (i - 1) + 1 = i
        OBVIOUS
      <4> QED BY <4>1
    <3>2. j < p /\ j < q /\ j \in 0..(n - 1)
      BY <1>2, <2>2, <3>1
    <3> QED BY <1>4, <2>2, <3>1, <3>2
  <2>6. CASE k < p /\ k < q
    <3>1. f[k] = l[k + 1] /\ g[k] = r[k + 1]
      BY <1>4, <2>2, <2>6
    <3>2. k + 1 \in 1..Len(l) /\ k + 1 <= Len(r) /\ \A i \in 1..((k + 1) - 1) : l[i] = r[i]
      BY <1>2, <2>1, <2>5, <2>6
    <3>3. l[k + 1] # r[k + 1]
      BY <2>2, <3>1
    <3> QED BY <2>3, <3>1, <3>2, <3>3, CmpAt
  <2>7. CASE ~ (k < p) /\ k < q
    <3>1. f[k] = 0 /\ g[k] = r[k + 1] /\ r[k + 1] # 0 /\ r[k + 1] \in Nat
      <4>1. k \in 0..(q - 1) /\ r[k + 1] \in Nat
        BY <1>2, <1>3, <2>1, <2>7
      <4> QED BY <1>4, <2>2, <2>7, <4>1
    <3>2. k = p
      <4> SUFFICES ASSUME p < k PROVE FALSE
        BY <1>2, <2>1, <2>7
      <4>1. p \in 0..(k - 1) /\ p \in 0..(q - 1) /\ p \in 0..(n - 1) /\ p < q
        BY <1>2, <2>1, <2>2, <2>7
      <4>2. f[p] = g[p] /\ f[p] = 0 /\ g[p] = r[p + 1]
        <5>1. ~ (p < p)
          BY <1>2
        <5> QED BY <1>4, <2>2, <4>1, <5>1
      <4>3. r[p + 1] # 0
        <5>1. p # q
          BY <1>2, <4>1
        <5> QED BY <1>5, <4>1, <5>1
      <4> QED BY <4>2, <4>3
    <3>3. Cmp(l, r) = -1
      <4>1. Len(l) < Len(r) /\ \A i \in 1..Len(l) : l[i] = r[i]
        BY <1>2, <2>5, <2>7, <3>2
      <4> QED BY <4>1, CmpPart
    <3>4. f[k] < g[k]
      BY <3>1
    <3> QED BY <2>3, <3>3, <3>4
  <2>8. CASE k < p /\ ~ (k < q)
    <3>1. g[k] = 0 /\ f[k] = l[k + 1] /\ l[k + 1] # 0 /\ l[k + 1] \in Nat
      <4>1. k \in 0..(p - 1) /\ l[k + 1] \in Nat
        BY <1>2, <1>3, <2>1, <2>8
      <4> QED BY <1>4, <2>2, <2>8, <4>1
    <3>2. k = q
      <4> SUFFICES ASSUME q < k PROVE FALSE
        BY <1>2, <2>1, <2>8
      <4>1. q \in 0..(k - 1) /\ q \in 0..(p - 1) /\ q \in 0..(n - 1) /\ q < p
        BY <1>2, <2>1, <2>2, <2>8
      <4>2. f[q] = g[q] /\ g[q] = 0 /\ f[q] = l[q + 1]
        <5>1. ~ (q < q)
          BY <1>2
        <5> QED BY <1>4, <2>2, <4>1, <5>1
      <4> QED BY <1>5, <4>1, <4>2
    <3>3. Cmp(l, r) = 1
      <4>1. Len(r) < Len(l) /\ \A i \in 1..Len(r) : r[i] = l[i]
        BY <1>2, <2>5, <2>8, <3>2
      <4> QED BY <4>1, CmpPart
    <3>4. ~ (f[k] < g[k])
      BY <3>1
    <3> QED BY <2>3, <3>3, <3>4
  <2>9. ~ (~ (k < p) /\ ~ (k < q))
    BY <1>4, <2>2
  <2> QED BY <2>6, <2>7, <2>8, <2>9
<1> QED
  BY <1>6, <1>7

\* The sign of an answer.
LEMMA SignIs ==
  ASSUME Usual, NEW v \in {-1, 0, 1}
  PROVE  Sign(v % Word) = v
<1>1. Word \in Nat /\ Word > 3
  BY DEF Usual
<1>2. CASE v = -1
  <2>1. (-1) % Word = Word - 1
    BY <1>1
  <2>2. ~ (Word - 1 < Word \div 2) /\ Word - 1 # 0
    BY <1>1
  <2> QED BY <1>2, <2>1, <2>2 DEF Sign
<1>3. CASE v = 0
  <2>1. 0 % Word = 0
    BY <1>1
  <2> QED BY <1>3, <2>1 DEF Sign
<1>4. CASE v = 1
  <2>1. 1 % Word = 1 /\ 1 < Word \div 2
    BY <1>1
  <2> QED BY <1>4, <2>1 DEF Sign
<1> QED
  BY <1>2, <1>3, <1>4

LEMMA DiffIs ==
  ASSUME NEW f, NEW g, NEW n
  PROVE  Diff(f, g, n) \in {-1, 0, 1}
BY DEF Diff

LEMMA DiffersIs ==
  ASSUME NEW f, NEW g, NEW n \in Nat, Differs(f, g, n) # {}
  PROVE  Min(Differs(f, g, n)) \in 0..(n - 1)
<1>1. PICK D : D = Differs(f, g, n)
  OBVIOUS
<1>2. D \in SUBSET Nat /\ D # {} /\ D \subseteq 0..(n - 1)
  BY <1>1 DEF Differs
<1>3. Min(D) \in D
  BY <1>2, LeastIs
<1> QED
  BY <1>1, <1>2, <1>3

\* The bytes compared, as functions.
PlainBytes(m, a, n) == [i \in 0..(n - 1) |-> Plain(m, a, i)]
PaddedBytes(m, a, n) == [i \in 0..(n - 1) |-> Padded(m, a, i)]

LEMMA ComparedIs ==
  ASSUME NEW m, NEW a, NEW b, NEW n \in Nat
  PROVE  /\ Compared(m, a, b, n, Plain) = Diff(PlainBytes(m, a, n), PlainBytes(m, b, n), n)
         /\ Compared(m, a, b, n, Padded) = Diff(PaddedBytes(m, a, n), PaddedBytes(m, b, n), n)
<1>1. Compared(m, a, b, n, Plain) = Diff(PlainBytes(m, a, n), PlainBytes(m, b, n), n)
  <2>1. PICK f, g : f = PlainBytes(m, a, n) /\ g = PlainBytes(m, b, n)
    OBVIOUS
  <2>2. \A i \in 0..(n - 1) : f[i] = Plain(m, a, i) /\ g[i] = Plain(m, b, i)
    BY <2>1 DEF PlainBytes
  <2>3. PICK D : D = {i \in 0..(n - 1) : Plain(m, a, i) # Plain(m, b, i)} /\ D = Differs(f, g, n)
    BY <2>2 DEF Differs
  <2>4. D # {} => Min(D) \in 0..(n - 1)
    BY <2>3, DiffersIs
  <2>5. Compared(m, a, b, n, Plain) =
          IF D = {} THEN 0 ELSE IF Plain(m, a, Min(D)) < Plain(m, b, Min(D)) THEN -1 ELSE 1
    BY <2>3 DEF Compared
  <2>6. Diff(f, g, n) = IF D = {} THEN 0 ELSE IF f[Min(D)] < g[Min(D)] THEN -1 ELSE 1
    BY <2>3 DEF Diff
  <2> QED BY <2>1, <2>2, <2>4, <2>5, <2>6
<1>2. Compared(m, a, b, n, Padded) = Diff(PaddedBytes(m, a, n), PaddedBytes(m, b, n), n)
  <2>1. PICK f, g : f = PaddedBytes(m, a, n) /\ g = PaddedBytes(m, b, n)
    OBVIOUS
  <2>2. \A i \in 0..(n - 1) : f[i] = Padded(m, a, i) /\ g[i] = Padded(m, b, i)
    BY <2>1 DEF PaddedBytes
  <2>3. PICK D : D = {i \in 0..(n - 1) : Padded(m, a, i) # Padded(m, b, i)} /\ D = Differs(f, g, n)
    BY <2>2 DEF Differs
  <2>4. D # {} => Min(D) \in 0..(n - 1)
    BY <2>3, DiffersIs
  <2>5. Compared(m, a, b, n, Padded) =
          IF D = {} THEN 0 ELSE IF Padded(m, a, Min(D)) < Padded(m, b, Min(D)) THEN -1 ELSE 1
    BY <2>3 DEF Compared
  <2>6. Diff(f, g, n) = IF D = {} THEN 0 ELSE IF f[Min(D)] < g[Min(D)] THEN -1 ELSE 1
    BY <2>3 DEF Diff
  <2> QED BY <2>1, <2>2, <2>4, <2>5, <2>6
<1> QED
  BY <1>1, <1>2

\* The sign of the answer of a comparison is that of the first difference.
LEMMA ComparesIs ==
  ASSUME Usual, NEW s, NEW m, Going(s, m), NEW l \in Seq(Bytes), NEW r \in Seq(Bytes), NEW n \in Nat,
         NEW f, NEW g, Sees(f, n, l), Sees(g, n, r), Decide(l, r, n)
  PROVE  Sign(Got(Answer(s, Cmp(l, r)))) = Diff(f, g, n)
<1>1. Cmp(l, r) = Diff(f, g, n) /\ Diff(f, g, n) \in {-1, 0, 1}
  BY CmpIs, DiffIs DEF Usual
<1>2. Got(Answer(s, Cmp(l, r))) = Cmp(l, r) % Word
  BY AnswerSays, OnlyOne DEF Got
<1> QED
  BY <1>1, <1>2, SignIs

LEMMA MemcmpSays ==
  ASSUME Usual, NEW s, NEW m, Going(s, m), NEW a \in Nat, NEW b \in Nat, NEW n \in Numbers,
         Mapped(m, Span(a, n)), Mapped(m, Span(b, n))
  PROVE  Sign(Got(Memcmp(s, a, b, n))) = Compared(m, a, b, n, Plain)
<1>1. n \in Nat /\ n <= MaxTransfer /\ IsBytes(m) /\ s.mem = m
  BY ArgumentsAssumption DEF Usual, Going
<1>2. PICK l, r : l = At(m, a, n) /\ r = At(m, b, n)
  OBVIOUS
<1>3. /\ l \in Seq(Bytes) /\ Len(l) = n /\ \A i \in 1..n : l[i] = m[a + i - 1]
      /\ r \in Seq(Bytes) /\ Len(r) = n /\ \A i \in 1..n : r[i] = m[b + i - 1]
  BY <1>1, <1>2, AtIs
<1>4. PICK f, g : f = PlainBytes(m, a, n) /\ g = PlainBytes(m, b, n)
  OBVIOUS
<1>5. Sees(f, n, l) /\ Sees(g, n, r)
  <2>1. \A i \in 0..(n - 1) : f[i] = m[a + i] /\ g[i] = m[b + i]
    BY <1>4 DEF PlainBytes, Plain
  <2>2. \A i \in 0..(n - 1) : i + 1 \in 1..n /\ i < n /\ a + (i + 1) - 1 = a + i /\ b + (i + 1) - 1 = b + i
    BY <1>1
  <2> QED BY <1>3, <2>1, <2>2 DEF Sees
<1>6. Decide(l, r, n)
  BY <1>1, <1>3 DEF Decide
<1>7. Memcmp(s, a, b, n) = Answer(s, Cmp(l, r))
  <2>1. CASE n = 0
    <3>1. l = r
      BY <1>3, <2>1
    <3>2. Cmp(l, r) = 0
      BY <3>1 DEF Cmp
    <3> QED BY <2>1, <3>2 DEF Memcmp
  <2>2. CASE n # 0
    <3>1. Read(s, a, n) = {l} /\ Read(s, b, n) = {r}
      BY <1>1, <1>2 DEF Read
    <3> QED BY <2>2, <3>1, OnlyOne DEF Memcmp, Given
  <2> QED BY <2>1, <2>2
<1>8. Sign(Got(Answer(s, Cmp(l, r)))) = Diff(f, g, n)
  BY <1>1, <1>3, <1>5, <1>6, ComparesIs
<1> QED
  BY <1>1, <1>4, <1>7, <1>8, ComparedIs

\* The first bytes of a text, padded, are those of memory.
LEMMA FirstSees ==
  ASSUME NEW m, NEW a, NEW text, NEW l, IsText(m, a, text, l), NEW n \in Nat, NEW part, NEW k,
         IsFirst(part, k, text, n), NEW c \in 0..n
  PROVE  Sees(PaddedBytes(m, a, c), c, part)
<1>1. /\ l \in Nat /\ Len(text) = l /\ a \in Int /\ IsString(m, a, l) /\ k \in Nat
      /\ Len(part) = k /\ k <= n /\ k <= l /\ (k = n \/ k = l)
  BY DEF IsText, IsFirst
<1> SUFFICES ASSUME NEW i \in 0..(c - 1)
             PROVE  PaddedBytes(m, a, c)[i] = IF i < k THEN part[i + 1] ELSE 0
  BY <1>1 DEF Sees
<1>2. PaddedBytes(m, a, c)[i] = Padded(m, a, i) /\ i \in Nat
  BY DEF PaddedBytes
<1>3. Padded(m, a, i) = IF i < l THEN m[a + i] ELSE 0
  BY <1>1, <1>2, PaddedIs
<1>4. i < k <=> i < l
  BY <1>1
<1>5. CASE i < k
  <2>1. i \in 0..(k - 1) /\ i \in 0..(l - 1)
    BY <1>1, <1>4, <1>5
  <2>2. part[i + 1] = text[i + 1]
    BY <2>1 DEF IsFirst
  <2>3. text[i + 1] = m[a + i]
    BY <2>1 DEF IsText
  <2> QED BY <1>2, <1>3, <1>4, <1>5, <2>2, <2>3
<1> QED
  BY <1>2, <1>3, <1>4, <1>5

\* No byte of a text is NUL.
LEMMA FirstFull ==
  ASSUME NEW m, NEW a, NEW text, NEW l, IsText(m, a, text, l), NEW n \in Nat, NEW part, NEW k,
         IsFirst(part, k, text, n)
  PROVE  \A i \in 1..Len(part) : part[i] # 0
<1>1. l \in Nat /\ Len(text) = l /\ k \in Nat /\ Len(part) = k /\ k <= l
  BY DEF IsText, IsFirst
<1> SUFFICES ASSUME NEW i \in 1..k PROVE part[i] # 0
  BY <1>1
<1>2. PICK j \in 0..(k - 1) : j + 1 = i /\ j \in 0..(l - 1)
  <2>1. i - 1 \in 0..(k - 1) /\ (i - 1) + 1 = i /\ i - 1 \in 0..(l - 1)
    BY <1>1
  <2> QED BY <2>1
<1>3. part[j + 1] = text[j + 1]
  BY <1>2 DEF IsFirst
<1>4. text[j + 1] # 0
  BY <1>2 DEF IsText
<1> QED
  BY <1>2, <1>3, <1>4

\* n bytes at most of two strings, of which c decide.
LEMMA StrncmpSays ==
  ASSUME Usual, NEW s, NEW m, Going(s, m), NEW a, NEW b, Readable(m, a), Readable(m, b), NEW n \in Nat,
         NEW c \in 0..n, c = n \/ (Length(m, a) < c \/ Length(m, b) < c)
  PROVE  Sign(Got(Strncmp(s, a, b, n))) = Compared(m, a, b, c, Padded)
<1>1. IsBytes(m) /\ s.mem = m /\ c \in Nat
  BY DEF Going
<1>2. PICK ta, la : IsText(m, a, ta, la)
  BY <1>1, TextSays
<1>3. PICK tb, lb : IsText(m, b, tb, lb)
  BY <1>1, TextSays
<1>4. /\ ta \in Seq(Bytes) /\ la \in Nat /\ Len(ta) = la /\ ta = Text(m, a) /\ la = Length(m, a)
      /\ tb \in Seq(Bytes) /\ lb \in Nat /\ Len(tb) = lb /\ tb = Text(m, b) /\ lb = Length(m, b)
  BY <1>2, <1>3 DEF IsText
<1>5. PICK pa, ka : IsFirst(pa, ka, ta, n)
  BY <1>4, FirstSays
<1>6. PICK pb, kb : IsFirst(pb, kb, tb, n)
  BY <1>4, FirstSays
<1>7. /\ pa \in Seq(Bytes) /\ pa = First(ta, n) /\ Len(pa) = ka /\ ka \in Nat
      /\ ka <= n /\ ka <= la /\ (ka = n \/ ka = la)
      /\ pb \in Seq(Bytes) /\ pb = First(tb, n) /\ Len(pb) = kb /\ kb \in Nat
      /\ kb <= n /\ kb <= lb /\ (kb = n \/ kb = lb)
  BY <1>4, <1>5, <1>6 DEF IsFirst
<1>8. Decide(pa, pb, c)
  <2>1. (\A i \in 1..Len(pa) : pa[i] # 0) /\ (\A i \in 1..Len(pb) : pb[i] # 0)
    BY <1>2, <1>3, <1>5, <1>6, FirstFull
  <2>2. ka <= c \/ kb <= c
    BY <1>1, <1>4, <1>7
  <2>3. ka = kb \/ ka < c \/ kb < c
    BY <1>1, <1>4, <1>7
  <2> QED BY <1>7, <2>1, <2>2, <2>3 DEF Decide
<1>9. PICK f, g : f = PaddedBytes(m, a, c) /\ g = PaddedBytes(m, b, c)
  OBVIOUS
<1>10. Sees(f, c, pa)
  BY <1>2, <1>5, <1>9, FirstSees
<1>11. Sees(g, c, pb)
  BY <1>3, <1>6, <1>9, FirstSees
<1>12. Strncmp(s, a, b, n) = Answer(s, Cmp(pa, pb))
  <2>1. CString(s, a) = {ta} /\ CString(s, b) = {tb}
    BY <1>1, <1>4, CStringReads
  <2> QED BY <1>7, <2>1, OnlyOne DEF Strncmp, Given
<1>13. Sign(Got(Answer(s, Cmp(pa, pb)))) = Diff(f, g, c)
  BY <1>1, <1>7, <1>8, <1>10, <1>11, ComparesIs
<1> QED
  BY <1>1, <1>9, <1>12, <1>13, ComparedIs

\* The addresses of a character in a string, its NUL included.
CharsAt(m, a, n, ch) == {b \in Span(a, n + 1) : m[b] = ch}

LEMMA PlacesIs ==
  ASSUME NEW m, NEW a, NEW text, NEW n, IsText(m, a, text, n), NEW ch
  PROVE  /\ Places(text, ch) \in SUBSET (1..(n + 1)) /\ n \in Nat /\ a \in Int
         /\ CharsAt(m, a, n, ch) = {a + i - 1 : i \in Places(text, ch)}
<1>1. /\ text \in Seq(Bytes) /\ n \in Nat /\ Len(text) = n /\ a \in Int /\ m[a + n] = 0
      /\ \A i \in 0..(n - 1) : text[i + 1] = m[a + i]
  BY DEF IsText, IsString
<1>2. ASSUME NEW i \in 1..(n + 1) PROVE Append(text, 0)[i] = m[a + i - 1]
  <2>1. CASE i = n + 1
    <3>1. Append(text, 0)[i] = 0 /\ a + i - 1 = a + n
      BY <1>1, <2>1
    <3> QED BY <1>1, <3>1
  <2>2. CASE i # n + 1
    <3>1. PICK j \in 0..(n - 1) : j + 1 = i /\ a + j = a + i - 1
      <4>1. i - 1 \in 0..(n - 1) /\ (i - 1) + 1 = i /\ a + (i - 1) = a + i - 1
        BY <1>1, <2>2
      <4> QED BY <4>1
    <3>2. Append(text, 0)[i] = text[i]
      BY <1>1, <2>2
    <3> QED BY <1>1, <3>1, <3>2
  <2> QED BY <2>1, <2>2
<1>3. PICK P : P = Places(text, ch)
  OBVIOUS
<1>4. P = {i \in 1..(n + 1) : m[a + i - 1] = ch}
  BY <1>1, <1>2, <1>3 DEF Places
<1>5. ASSUME NEW b \in CharsAt(m, a, n, ch) PROVE \E i \in P : b = a + i - 1
  <2>1. b \in Span(a, n + 1) /\ m[b] = ch
    BY DEF CharsAt
  <2>2. PICK i \in 1..(n + 1) : b = a + i - 1
    <3>1. (b - a) + 1 \in 1..(n + 1) /\ b = a + ((b - a) + 1) - 1
      BY <1>1, <2>1 DEF Span
    <3> QED BY <3>1
  <2> QED BY <1>4, <2>1, <2>2
<1>6. ASSUME NEW i \in P PROVE a + i - 1 \in CharsAt(m, a, n, ch)
  <2>1. a + i - 1 \in Span(a, n + 1) /\ m[a + i - 1] = ch
    BY <1>1, <1>4 DEF Span
  <2> QED BY <2>1 DEF CharsAt
<1>7. CharsAt(m, a, n, ch) = {a + i - 1 : i \in P}
  BY <1>5, <1>6
<1> QED
  BY <1>1, <1>3, <1>4, <1>7

\* An address in the machine is an answer.
LEMMA AddressFits ==
  ASSUME Usual, NEW a \in Nat, NEW b \in Addresses, a <= b
  PROVE  a % Word = a
<1>1. b < Word /\ b \in Nat /\ Word \in Nat
  BY AddressesAre DEF Usual
<1> QED
  BY <1>1, WordIs

LEMMA StrlenSays ==
  ASSUME Usual, NEW s, NEW m, Going(s, m), NEW a \in Nat, Readable(m, a)
  PROVE  Strlen(s, a).ret = {Length(m, a)}
<1>1. IsBytes(m) /\ s.mem = m
  BY DEF Going
<1>2. PICK text, n : IsText(m, a, text, n)
  BY <1>1, TextSays
<1>0. n \in Nat /\ n = Length(m, a) /\ Len(text) = n /\ text = Text(m, a) /\ a + n \in Addresses
  BY <1>2 DEF IsText
<1>3. n \in Nat /\ n = Length(m, a) /\ Len(text) = n /\ text = Text(m, a) /\ a + n \in Addresses /\ n <= a + n
  BY <1>0
<1>4. Strlen(s, a) = Answer(s, n)
  <2>1. CString(s, a) = {text}
    BY <1>1, <1>3, CStringReads
  <2> QED BY <1>3, <2>1, OnlyOne DEF Strlen, Given
<1> QED
  BY <1>3, <1>4, AnswerSays, AddressFits

LEMMA StrchrSays ==
  ASSUME Usual, NEW s, NEW m, Going(s, m), NEW a \in Nat, Readable(m, a), NEW ch, NEW at,
         at = CharsAt(m, a, Length(m, a), ch)
  PROVE  /\ Strchr(s, a, ch).ret = {IF at = {} THEN 0 ELSE Min(at)}
         /\ Strrchr(s, a, ch).ret = {IF at = {} THEN 0 ELSE Max(at)}
<1>1. IsBytes(m) /\ s.mem = m
  BY DEF Going
<1>2. PICK text, n : IsText(m, a, text, n)
  BY <1>1, TextSays
<1>3. n \in Nat /\ n = Length(m, a) /\ text = Text(m, a) /\ a + n \in Addresses
  BY <1>2 DEF IsText
<1>4. PICK P : P = Places(text, ch) /\ P \in SUBSET (1..(n + 1)) /\ at = {a + i - 1 : i \in P}
  BY <1>2, <1>3, PlacesIs
<1>5. /\ Strchr(s, a, ch) = Answer(s, IF P = {} THEN 0 ELSE a + Min(P) - 1)
      /\ Strrchr(s, a, ch) = Answer(s, IF P = {} THEN 0 ELSE a + Max(P) - 1)
  <2>1. CString(s, a) = {text}
    BY <1>1, <1>3, CStringReads
  <2> QED BY <1>4, <2>1, OnlyOne DEF Strchr, Strrchr, Given
<1>6. CASE P = {}
  <2>1. at = {} /\ 0 % Word = 0
    BY <1>4, <1>6, WordIs DEF Usual
  <2> QED BY <1>5, <1>6, <2>1, AnswerSays
<1>7. CASE P # {}
  <2>0. at # {} /\ at \in SUBSET Int
    <3>1. \A i \in P : i \in Int /\ a + i - 1 \in Int
      BY <1>4
    <3> QED BY <1>4, <1>7, <3>1
  <2>1. PICK k \in Nat : k = Min(P) /\ k \in P /\ \A i \in P : k <= i
    <3>1. P \in SUBSET Nat
      BY <1>4
    <3> QED BY <1>7, <3>1, LeastIs
  <2>2. PICK j \in P : \A i \in P : j >= i
    <3>1. P \in SUBSET (0..(n + 1)) /\ n + 1 \in Nat
      BY <1>3, <1>4
    <3> QED BY <1>7, <3>1, GreatestIs
  <2>3. Max(P) = j
    <3>1. P \in SUBSET Int
      BY <1>4
    <3> QED BY <2>2, <3>1, MaxIs
  <2>4. k \in 1..(n + 1) /\ j \in 1..(n + 1)
    BY <1>4, <2>1, <2>2
  <2>5. Min(at) = a + k - 1
    <3>1. a + k - 1 \in at /\ \A b \in at : a + k - 1 <= b
      <4>1. \A i \in P : i \in Int /\ a + k - 1 <= a + i - 1
        BY <1>4, <2>1
      <4> QED BY <1>4, <2>1, <4>1
    <3> QED BY <2>0, <3>1, MinIs
  <2>6. Max(at) = a + j - 1
    <3>1. a + j - 1 \in at /\ \A b \in at : a + j - 1 >= b
      <4>1. \A i \in P : i \in Int /\ a + j - 1 >= a + i - 1
        BY <1>4, <2>2
      <4> QED BY <1>4, <2>2, <4>1
    <3> QED BY <2>0, <3>1, MaxIs
  <2>7. /\ a + k - 1 \in Nat /\ a + k - 1 <= a + n
        /\ a + j - 1 \in Nat /\ a + j - 1 <= a + n
    BY <1>3, <2>4
  <2>8. (a + k - 1) % Word = a + k - 1 /\ (a + j - 1) % Word = a + j - 1
    BY <1>3, <2>7, AddressFits
  <2>9. Strchr(s, a, ch).ret = {a + k - 1} /\ Strrchr(s, a, ch).ret = {a + j - 1}
    BY <1>5, <1>7, <2>1, <2>3, <2>8, AnswerSays
  <2> QED BY <2>0, <2>5, <2>6, <2>9
<1> QED
  BY <1>6, <1>7

\* Where one string is in another.
Found(m, a, h, b, k) ==
  {c \in Span(a, h + 1) : c + k <= a + h /\ \A i \in 0..(k - 1) : m[c + i] = m[b + i]}

\* What strstr does with the strings.
Finding(s, a, hay, needle) ==
  LET found == {i \in 0..(Len(hay) - Len(needle)) :
                  SubSeq(hay, i + 1, i + Len(needle)) = needle}
  IN  Answer(s, IF found = {} THEN 0 ELSE a + Min(found))

LEMMA StrstrSays ==
  ASSUME Usual, NEW s, NEW m, Going(s, m), NEW a \in Nat, NEW b, Readable(m, a), Readable(m, b), NEW at,
         at = Found(m, a, Length(m, a), b, Length(m, b))
  PROVE  Strstr(s, a, b).ret = {IF at = {} THEN 0 ELSE Min(at)}
<1>1. IsBytes(m) /\ s.mem = m
  BY DEF Going
<1>2. PICK hay, h : IsText(m, a, hay, h)
  BY <1>1, TextSays
<1>3. PICK needle, k : IsText(m, b, needle, k)
  BY <1>1, TextSays
<1>4. /\ hay \in Seq(Bytes) /\ h \in Nat /\ h = Length(m, a) /\ hay = Text(m, a) /\ Len(hay) = h
      /\ needle \in Seq(Bytes) /\ k \in Nat /\ k = Length(m, b) /\ needle = Text(m, b) /\ Len(needle) = k
      /\ a + h \in Addresses /\ b \in Int
      /\ \A i \in 0..(h - 1) : hay[i + 1] = m[a + i]
      /\ \A i \in 0..(k - 1) : needle[i + 1] = m[b + i]
  BY <1>2, <1>3 DEF IsText
<1>0. PICK F : F = {i \in 0..(Len(hay) - Len(needle)) : SubSeq(hay, i + 1, i + Len(needle)) = needle}
  OBVIOUS
<1>5. F = {i \in 0..(h - k) : SubSeq(hay, i + 1, i + k) = needle}
  BY <1>0, <1>4
<1>6. ASSUME NEW i \in 0..(h - k)
      PROVE  SubSeq(hay, i + 1, i + k) = needle <=> \A j \in 0..(k - 1) : m[(a + i) + j] = m[b + j]
  <2>1. PICK p : p = SubSeq(hay, i + 1, i + k)
    OBVIOUS
  <2>2. p \in Seq(Bytes) /\ Len(p) = k /\ \A j \in 1..k : p[j] = hay[i + j]
    <3>0. PICK u \in Int, v \in Int : u = i + 1 /\ v = i + k
      BY <1>4
    <3>1. \A j \in u..v : hay[j] \in Bytes
      <4>1. \A j \in u..v : j \in 1..h
        BY <1>4, <3>0
      <4> QED BY <1>4, <4>1
    <3>2. /\ p \in Seq(Bytes) /\ Len(p) = IF u <= v THEN v - u + 1 ELSE 0
          /\ \A j \in 1..(v - u + 1) : p[j] = hay[u + j - 1]
      <4>1. p = SubSeq(hay, u, v)
        BY <2>1, <3>0
      <4> QED BY <3>1, <4>1, SubSeqProperties
    <3>3. \A j \in 1..k : j \in 1..(v - u + 1) /\ u + j - 1 = i + j
      BY <1>4, <3>0
    <3>4. \A j \in 1..k : p[j] = hay[i + j]
      BY <3>2, <3>3
    <3>5. Len(p) = k
      <4>1. k \in Nat /\ i \in Int
        BY <1>4
      <4>2. Len(p) = IF u <= v THEN v - u + 1 ELSE 0
        BY <3>2
      <4>3. (u <= v => v - u + 1 = k) /\ (~ (u <= v) => k = 0)
        BY <3>0, <4>1
      <4> QED BY <4>2, <4>3
    <3> QED BY <3>2, <3>4, <3>5
  <2>3. \A j \in 0..(k - 1) : p[j + 1] = m[(a + i) + j] /\ needle[j + 1] = m[b + j]
    <3> SUFFICES ASSUME NEW j \in 0..(k - 1)
                 PROVE  p[j + 1] = m[(a + i) + j] /\ needle[j + 1] = m[b + j]
      OBVIOUS
    <3>1. j + 1 \in 1..k /\ i + j \in 0..(h - 1) /\ i + (j + 1) = (i + j) + 1 /\ a + (i + j) = (a + i) + j
      BY <1>4
    <3>2. p[j + 1] = hay[(i + j) + 1]
      BY <2>2, <3>1
    <3>3. hay[(i + j) + 1] = m[a + (i + j)]
      BY <1>4, <3>1
    <3> QED BY <1>4, <3>1, <3>2, <3>3
  <2>4. p = needle => \A j \in 0..(k - 1) : m[(a + i) + j] = m[b + j]
    BY <2>3
  <2>5. ASSUME \A j \in 0..(k - 1) : m[(a + i) + j] = m[b + j] PROVE p = needle
    <3>1. ASSUME NEW j \in 1..k PROVE p[j] = needle[j]
      <4>1. PICK c \in 0..(k - 1) : c + 1 = j
        <5>1. j - 1 \in 0..(k - 1) /\ (j - 1) + 1 = j
          BY <1>4
        <5> QED BY <5>1
      <4> QED BY <2>3, <2>5, <4>1
    <3>2. Len(p) = Len(needle) /\ \A j \in 1..Len(p) : p[j] = needle[j]
      BY <1>4, <2>2, <3>1
    <3> QED BY <1>4, <2>2, <3>2, SeqEqual
  <2> QED BY <2>1, <2>4, <2>5
<1>7. at = {a + i : i \in F}
  <2>1. ASSUME NEW c \in at PROVE \E i \in F : c = a + i
    <3>1. c \in Span(a, h + 1) /\ c + k <= a + h /\ \A j \in 0..(k - 1) : m[c + j] = m[b + j]
      BY <1>4 DEF Found
    <3>2. PICK i \in 0..(h - k) : c = a + i
      <4>1. c - a \in 0..(h - k) /\ c = a + (c - a)
        BY <1>4, <3>1 DEF Span
      <4> QED BY <4>1
    <3>3. i \in F
      BY <1>5, <1>6, <3>1, <3>2
    <3> QED BY <3>2, <3>3
  <2>2. ASSUME NEW i \in F PROVE a + i \in at
    <3>1. i \in 0..(h - k) /\ \A j \in 0..(k - 1) : m[(a + i) + j] = m[b + j]
      BY <1>5, <1>6
    <3>2. a + i \in Span(a, h + 1) /\ (a + i) + k <= a + h
      BY <1>4, <3>1 DEF Span
    <3> QED BY <1>4, <3>1, <3>2 DEF Found
  <2> QED BY <2>1, <2>2
<1>8. Strstr(s, a, b) = Answer(s, IF F = {} THEN 0 ELSE a + Min(F))
  <2>1. CString(s, a) = {hay} /\ CString(s, b) = {needle}
    BY <1>1, <1>4, CStringReads
  <2>2. Strstr(s, a, b) =
          IF CString(s, a) = {} THEN Fail(s)
          ELSE IF CString(s, b) = {} THEN Fail(s)
          ELSE Finding(s, a, CHOOSE text \in CString(s, a) : TRUE, CHOOSE text \in CString(s, b) : TRUE)
    BY DEF Strstr, Given, Finding
  <2>3. Strstr(s, a, b) = Finding(s, a, hay, needle)
    BY <2>1, <2>2, OnlyOne
  <2> QED BY <1>0, <2>3 DEF Finding
<1>9. CASE F = {}
  <2>1. at = {} /\ 0 % Word = 0
    BY <1>7, <1>9, WordIs DEF Usual
  <2> QED BY <1>8, <1>9, <2>1, AnswerSays
<1>10. CASE F # {}
  <2>1. PICK f \in Nat : f = Min(F) /\ f \in F /\ \A i \in F : f <= i
    <3>1. F \in SUBSET Nat
      BY <1>5
    <3> QED BY <1>10, <3>1, LeastIs
  <2>2. at # {} /\ at \in SUBSET Int /\ a + f \in at /\ \A c \in at : a + f <= c
    <3>1. ASSUME NEW i \in F PROVE i \in Int /\ a + i \in Int /\ a + f <= a + i
      <4>1. i \in Nat /\ f <= i
        BY <1>5, <2>1
      <4> QED BY <4>1
    <3>2. \A c \in at : c \in Int /\ a + f <= c
      BY <1>7, <3>1
    <3> QED BY <1>7, <2>1, <3>2
  <2>3. Min(at) = a + f
    BY <2>2, MinIs
  <2>4. (a + f) % Word = a + f
    <3>1. a + f \in Nat /\ a + f <= a + h
      BY <1>4, <1>5, <2>1
    <3> QED BY <1>4, <3>1, AddressFits
  <2> QED BY <1>8, <1>10, <2>1, <2>2, <2>3, <2>4, AnswerSays
<1> QED
  BY <1>9, <1>10

\* What C says of the functions that find something, they find.
LEMMA FindsRight ==
  ASSUME Usual, NEW s, NEW m, Going(s, m), NEW g, Ready(g), NEW name \in Implemented, NEW x \in Args(name),
         \A p \in Strings(name, x) : Readable(m, p)
  PROVE  LibcFinds(name, m, x, Perform(s, name, x))
<1>1. \A p \in Pointers : p \in Nat
  BY PointerIs
<1>2. CASE name = "memcmp"
  <2>1. x \in Pointers \X Pointers \X Numbers
    BY <1>2 DEF Args
  <2>2. PICK a \in Pointers, b \in Pointers, n \in Numbers : x = <<a, b, n>>
    BY <2>1
  <2>3. Perform(s, name, x) = Memcmp(s, a, b, n)
    BY <1>2, <2>2 DEF Perform
  <2>4. Mapped(m, Span(a, n)) /\ Mapped(m, Span(b, n))
        => Sign(Got(Memcmp(s, a, b, n))) = Compared(m, a, b, n, Plain)
    BY <1>1, MemcmpSays
  <2> QED BY <1>2, <2>2, <2>3, <2>4 DEF LibcFinds
<1>3. CASE name = "strncmp"
  <2>1. x \in Pointers \X Pointers \X Numbers
    BY <1>3 DEF Args
  <2>2. PICK a \in Pointers, b \in Pointers, n \in Numbers : x = <<a, b, n>>
    BY <2>1
  <2>3. Perform(s, name, x) = Strncmp(s, a, b, n)
    BY <1>3, <2>2 DEF Perform
  <2>4. Readable(m, a) /\ Readable(m, b) /\ n \in Nat /\ n \in 0..n
    BY <1>3, <2>2, ArgumentsAssumption DEF Strings
  <2>5. Sign(Got(Strncmp(s, a, b, n))) = Compared(m, a, b, n, Padded)
    BY <2>4, StrncmpSays
  <2> QED BY <1>3, <2>2, <2>3, <2>5 DEF LibcFinds
<1>4. CASE name = "strcmp"
  <2>1. x \in Pointers \X Pointers
    BY <1>4 DEF Args
  <2>2. PICK a \in Pointers, b \in Pointers : x = <<a, b>>
    BY <2>1
  <2>3. Perform(s, name, x) = Strncmp(s, a, b, Limit)
    BY <1>4, <2>2 DEF Perform, Strcmp
  <2>4. Readable(m, a) /\ Readable(m, b) /\ Limit \in Nat
    BY <1>4, <2>2, LayoutAssumption DEF Strings
  <2>5. PICK la \in Nat, lb \in Nat : la = Length(m, a) /\ lb = Length(m, b) /\ la <= Limit - 1 /\ lb <= Limit - 1
    <3>1. /\ Length(m, a) \in Nat /\ Length(m, a) \in 0..(Limit - 1)
          /\ Length(m, b) \in Nat /\ Length(m, b) \in 0..(Limit - 1)
      BY <2>4, TextIs DEF Going
    <3> QED BY <2>4, <3>1
  <2>6. PICK c \in 0..Limit : c = 1 + (IF la > lb THEN lb ELSE la) /\ (la < c \/ lb < c)
    <3>1. 1 + (IF la > lb THEN lb ELSE la) \in 0..Limit
      BY <2>4, <2>5
    <3> QED BY <2>4, <2>5, <3>1
  <2>7. Sign(Got(Strncmp(s, a, b, Limit))) = Compared(m, a, b, c, Padded)
    BY <2>4, <2>5, <2>6, StrncmpSays
  <2> QED BY <1>4, <2>2, <2>3, <2>5, <2>6, <2>7 DEF LibcFinds
<1>5. CASE name = "strlen"
  <2>1. PICK a \in Pointers : x = <<a>>
    BY <1>5 DEF Args
  <2>2. Perform(s, name, x) = Strlen(s, a)
    BY <1>5, <2>1 DEF Perform
  <2>3. Readable(m, a)
    BY <1>5, <2>1 DEF Strings
  <2>4. Result(Strlen(s, a), Length(m, a))
    BY <1>1, <2>3, StrlenSays DEF Result
  <2> QED BY <1>5, <2>1, <2>2, <2>4 DEF LibcFinds
<1>6. CASE name \in {"strchr", "strrchr"}
  <2>1. x \in Pointers \X Chars
    BY <1>6 DEF Args
  <2>2. PICK a \in Pointers, ch \in Chars : x = <<a, ch>>
    BY <2>1
  <2>3. Perform(s, name, x) = IF name = "strchr" THEN Strchr(s, a, ch) ELSE Strrchr(s, a, ch)
    BY <1>6, <2>2 DEF Perform
  <2>4. Readable(m, a)
    BY <1>6, <2>2 DEF Strings
  <2>5. PICK at : at = CharsAt(m, a, Length(m, a), ch)
    OBVIOUS
  <2>6. /\ Strchr(s, a, ch).ret = {IF at = {} THEN 0 ELSE Min(at)}
        /\ Strrchr(s, a, ch).ret = {IF at = {} THEN 0 ELSE Max(at)}
    BY <1>1, <2>4, <2>5, StrchrSays
  <2>7. Result(Perform(s, name, x), IF at = {} THEN 0 ELSE IF name = "strchr" THEN Min(at) ELSE Max(at))
    BY <2>3, <2>6 DEF Result
  <2> QED BY <1>6, <2>2, <2>5, <2>7 DEF LibcFinds, CharsAt
<1>7. CASE name = "strstr"
  <2>1. x \in Pointers \X Pointers
    BY <1>7 DEF Args
  <2>2. PICK a \in Pointers, b \in Pointers : x = <<a, b>>
    BY <2>1
  <2>3. Perform(s, name, x) = Strstr(s, a, b)
    BY <1>7, <2>2 DEF Perform
  <2>4. Readable(m, a) /\ Readable(m, b)
    BY <1>7, <2>2 DEF Strings
  <2>5. PICK at : at = Found(m, a, Length(m, a), b, Length(m, b))
    OBVIOUS
  <2>6. Result(Strstr(s, a, b), IF at = {} THEN 0 ELSE Min(at))
    BY <1>1, <2>4, <2>5, StrstrSays DEF Result
  <2> QED BY <1>7, <2>2, <2>3, <2>5, <2>6 DEF LibcFinds, Found
<1>8. CASE name \notin {"memcmp", "strncmp", "strcmp", "strlen", "strchr", "strrchr", "strstr"}
  BY <1>8 DEF LibcFinds
<1> QED
  BY <1>2, <1>3, <1>4, <1>5, <1>6, <1>7, <1>8

----------------------------------------------------------------------------
(* The functions that allocate. *)

\* A call that has been given a block at a, with room for k bytes that no live
\* block has, and has changed nothing that was there.
Granted(t, a, k) ==
  /\ Going(t, t.mem) /\ t.ret = {a} /\ a \in Addresses
  /\ Mapped(t.mem, Span(a, k))
  /\ \A b \in DOMAIN heap.blocks :
       Apart(a - HeapBase, k, b, heap.blocks[b].size) /\ b \in DOMAIN t.heap.blocks
  /\ \A x \in Addresses : machine.mem[x] # Absent => t.mem[x] = machine.mem[x]

\* What malloc(0) gives is a byte.
AtLeastOne(n) == IF n = 0 THEN 1 ELSE n

\* malloc gives a block, or fails and leaves everything as it is.
LEMMA MallocSays ==
  ASSUME NEW g, Ready(g), NEW n \in Nat
  PROVE  LET t == Malloc(Entered, n) IN
         t = Fail(Entered) \/ \E a : Granted(t, a, AtLeastOne(n))
<1>0. PICK t : t = Malloc(Entered, n)
  OBVIOUS
<1>1. CASE H!Malloc(n) = {}
  BY <1>0, <1>1 DEF Malloc
<1>2. CASE H!Malloc(n) # {}
  <2>1. PICK r \in HP!Malloc(n) : r = CHOOSE x \in H!Malloc(n) : TRUE
    BY <1>2, SameMalloc
  <2>2. HP!Good(r, g)
    BY <2>1, HeapAssumption, HP!MallocGood DEF Ready
  <2>3. PICK at : at = r.journal[Len(r.journal)].block.address
    OBVIOUS
  <2>4. PICK k \in Nat : k = AtLeastOne(n)
    <3>1. AtLeastOne(n) \in Nat
      BY DEF AtLeastOne
    <3> QED BY <3>1
  <2>5. HP!Handed(r, at, k)
    BY <2>1, <2>3, <2>4, HeapAssumption, HP!MallocHands DEF Ready, AtLeastOne
  <2>6. /\ at \in Nat /\ at + k <= r.top /\ r.top \in Nat /\ at < r.top
        /\ \A x \in DOMAIN heap.blocks : /\ x \in Nat /\ heap.blocks[x].size \in Nat
                                         /\ at + k <= x \/ x + heap.blocks[x].size <= at
    BY <2>2, <2>5, HeapAssumption, HP!HandedApart
  <2>7. PICK need : need = IF H!RoundUp(r.top, Page) > heap.mapped THEN H!RoundUp(r.top, Page)
                           ELSE heap.mapped
    OBVIOUS
  <2>8. PICK new : new = Span(HeapBase + heap.mapped, need - heap.mapped)
    OBVIOUS
  <2>9. PICK p : p = [blocks |-> r.t.blocks, freed |-> r.t.freed, top |-> r.top,
                      journal |-> r.journal, mapped |-> need]
    OBVIOUS
  <2>10. PICK s0 : s0 = Entered
    OBVIOUS
  <2>11. IsCall(s0) /\ IsDid(s0.did) /\ s0.mem = machine.mem /\ s0.failed = FALSE /\ IsBytes(machine.mem)
    BY <2>10, EnteredSays DEF Going
  <2>12. PICK mem : mem = [a \in DOMAIN s0.mem |-> IF a \in new THEN 0 ELSE s0.mem[a]]
    OBVIOUS
  <2>13. PICK d : d = [s0.did EXCEPT !.maps = @ \cup new]
    OBVIOUS
  <2>14. PICK ret : ret = {HeapBase + at}
    OBVIOUS
  <2>15. t = [s0 EXCEPT !.heap = p, !.mem = mem, !.did = d, !.ret = ret]
    <3>1. Malloc(s0, n) = [s0 EXCEPT !.heap = p,
                             !.mem = [a \in DOMAIN @ |-> IF a \in new THEN 0 ELSE @[a]],
                             !.did.maps = @ \cup new, !.ret = ret]
      BY <1>2, <2>1, <2>3, <2>7, <2>8, <2>9, <2>14 DEF Malloc
    <3> QED BY <1>0, <2>10, <2>11, <2>12, <2>13, <3>1, FieldsOf DEF IsDid
  <2>16. /\ IsCall(t) /\ t.heap = p /\ t.mem = mem /\ t.did = d /\ t.ret = ret /\ t.failed = FALSE
    BY <2>11, <2>15, FieldsOf DEF IsCall
  <2>17. IsDid(d)
    BY <2>11, <2>13 DEF IsDid
  <2>18. IsMemory(mem, need) /\ Reaches(p)
    <3>1. Progress(t, g)
      BY <1>0, MallocIs
    <3>2. t.heap.mapped = need
      BY <2>9, <2>16
    <3> QED BY <2>16, <3>1, <3>2 DEF Progress
  <2>19. need \in Nat /\ r.top <= need /\ need <= H!RoundUp(HeapSize, Page)
    BY <2>9, <2>18 DEF Reaches
  <2>20. Going(t, mem)
    BY <2>16, <2>17, <2>18 DEF Going, IsMemory, IsBytes
  <2>21. PICK a : a = HeapBase + at
    OBVIOUS
  <2>22. HeapBase \in Nat \ {0} /\ H!RoundUp(HeapSize, Page) \in Nat /\ 0 \in Bytes /\ Absent \notin Bytes
    BY LayoutAssumption, AddressesAre
  <2>23. a \in Addresses /\ a - HeapBase = at
    <3>1. a \in Nat /\ a > 0 /\ a - HeapBase = at /\ at < need
      BY <2>6, <2>19, <2>21, <2>22
    <3>2. a <= HeapBase + H!RoundUp(HeapSize, Page)
      BY <2>6, <2>19, <2>21, <2>22, <3>1
    <3> QED BY <2>22, <3>1, <3>2, AddressesAre
  <2>24. Mapped(mem, Span(a, k))
    <3> SUFFICES ASSUME NEW x \in Span(a, k) PROVE x \in DOMAIN mem /\ mem[x] # Absent
      BY DEF Mapped
    <3>1. x \in Int /\ x >= a /\ x <= a + k - 1 /\ a \in Nat /\ a >= HeapBase /\ a >= 1
      BY <2>6, <2>21, <2>22 DEF Span
    <3>2. x >= HeapBase /\ x >= 1 /\ ~ (x >= HeapBase + need)
      BY <2>4, <2>6, <2>19, <2>21, <2>22, <3>1
    <3>3. x <= HeapBase + H!RoundUp(HeapSize, Page)
      BY <2>19, <2>22, <3>1, <3>2
    <3>4. x \in Addresses
      BY <2>22, <3>1, <3>2, <3>3, AddressesAre
    <3> QED BY <2>18, <3>2, <3>4 DEF IsMemory
  <2>25. ASSUME NEW b \in DOMAIN heap.blocks
         PROVE  Apart(at, k, b, heap.blocks[b].size) /\ b \in DOMAIN t.heap.blocks
    <3>1. b \in Nat /\ heap.blocks[b].size \in Nat /\ (at + k <= b \/ b + heap.blocks[b].size <= at)
      BY <2>6
    <3>2. PICK z \in Nat : z = heap.blocks[b].size
      BY <3>1
    <3>3. Span(at, k) \cap Span(b, z) = {}
      <4>1. ASSUME NEW x \in Span(at, k), x \in Span(b, z) PROVE FALSE
        <5>1. x \in Int /\ x >= at /\ x <= at + k - 1 /\ x >= b /\ x <= b + z - 1
          BY <2>6, <3>1, <4>1 DEF Span
        <5> QED BY <2>4, <2>6, <3>1, <3>2, <5>1
      <4> QED BY <4>1
    <3>4. b \in DOMAIN t.heap.blocks
      BY <2>5, <2>9, <2>16 DEF HP!Handed
    <3> QED BY <3>2, <3>3, <3>4 DEF Apart
  <2>26. \A x \in Addresses : machine.mem[x] # Absent => mem[x] = machine.mem[x]
    <3> SUFFICES ASSUME NEW x \in Addresses, machine.mem[x] # Absent PROVE mem[x] = machine.mem[x]
      OBVIOUS
    <3>1. PICK old \in Nat : old = heap.mapped /\ IsMemory(machine.mem, old)
      BY DEF Ready, Reaches
    <3>2. x \notin new
      <4> SUFFICES ASSUME x \in new PROVE FALSE
        OBVIOUS
      <4>1. x >= HeapBase + old /\ x \in Int
        BY <2>8, <2>19, <2>22, <3>1, AddressesAre DEF Span
      <4>2. x >= HeapBase
        BY <2>22, <3>1, <4>1
      <4> QED BY <3>1, <4>1, <4>2 DEF IsMemory
    <3> QED BY <2>11, <2>12, <3>2 DEF IsBytes
  <2>27. t.mem = mem /\ t.ret = {a}
    BY <2>14, <2>16, <2>21
  <2>28. Granted(t, a, k)
    BY <2>20, <2>23, <2>24, <2>25, <2>26, <2>27 DEF Granted
  <2> QED BY <1>0, <2>4, <2>28
<1> QED
  BY <1>1, <1>2

\* The same, with data written there.
Filled(u, a, k, data) ==
  /\ Going(u, u.mem) /\ u.ret = {a} /\ a \in Addresses
  /\ Mapped(u.mem, Span(a, k))
  /\ \A b \in DOMAIN heap.blocks :
       Apart(a - HeapBase, k, b, heap.blocks[b].size) /\ b \in DOMAIN u.heap.blocks
  /\ \A x \in Addresses : machine.mem[x] # Absent => x \in Span(a, k) \/ u.mem[x] = machine.mem[x]
  /\ \A i \in 0..(Len(data) - 1) : u.mem[a + i] = data[i + 1]

LEMMA GrantedIs ==
  ASSUME NEW t, NEW a, NEW k, Granted(t, a, k)
  PROVE  Filled(t, a, k, <<>>)
<1>1. \A i \in 0..(Len(<<>>) - 1) : FALSE
  OBVIOUS
<1> QED
  BY <1>1 DEF Granted, Filled

\* What is written to a block lies in it.
LEMMA GrantedWrites ==
  ASSUME Usual, NEW t, NEW a, NEW k \in Nat, Granted(t, a, k), NEW data \in Seq(Bytes), Len(data) <= k
  PROVE  Got(t) = a /\ Filled(Then(Write(t, Got(t), data), Got(t)), a, k, data)
<1>0. Got(t) = a
  BY OnlyOne DEF Granted, Got
<1>1. PICK m : m = t.mem /\ Going(t, m) /\ IsBytes(m) /\ Mapped(m, Span(a, k))
  BY DEF Granted, Going
<1>2. a \in Int /\ a \in Nat /\ a % Word = a /\ a \in Addresses
  BY AddressesAre, WordIs DEF Granted, Usual
<1>3. PICK n \in Nat : n = Len(data) /\ n \in 0..k
  OBVIOUS
<1>4. Mapped(m, Span(a, n))
  BY <1>1, <1>2, <1>3, MappedLess
<1>5. PICK u : u = Then(Write(t, a, data), a)
  OBVIOUS
<1>6. PICK o : o = Over(m, a, data)
  OBVIOUS
<1>7. Going(u, o) /\ u.ret = {a} /\ u.heap = t.heap /\ u.mem = o
  <2>1. Going(u, o) /\ u.ret = {a} /\ u.heap = t.heap
    BY <1>1, <1>2, <1>3, <1>4, <1>5, <1>6, WriteSays
  <2> QED BY <2>1 DEF Going
<1>8. /\ DOMAIN o = Addresses /\ DOMAIN m = Addresses
      /\ \A b \in Addresses : o[b] = IF b \in Span(a, n) THEN data[b - a + 1] ELSE m[b]
  <2>1. IsBytes(m) /\ a \in Int
    BY <1>1, <1>2
  <2>2. /\ DOMAIN Over(m, a, data) = Addresses /\ DOMAIN m = Addresses
        /\ \A b \in Addresses :
             Over(m, a, data)[b] = IF b \in Span(a, Len(data)) THEN data[b - a + 1] ELSE m[b]
    BY <2>1, OverIs
  <2>3. n = Len(data) /\ o = Over(m, a, data)
    BY <1>3, <1>6
  <2> QED BY <2>2, <2>3
<1>9. ASSUME NEW i \in 0..(n - 1) PROVE o[a + i] = data[i + 1] /\ o[a + i] # Absent /\ a + i \in Addresses
  <2>1. a + i \in Span(a, n) /\ (a + i) - a + 1 = i + 1 /\ i + 1 \in 1..n
    BY <1>2, <1>3 DEF Span
  <2>2. a + i \in Addresses
    BY <1>1, <1>2, <1>3, <1>4, ByteIs
  <2>3. data[i + 1] \in Bytes
    BY <1>3, <2>1
  <2> QED BY <1>8, <2>1, <2>2, <2>3, LayoutAssumption
<1>10. Span(a, n) \subseteq Span(a, k)
  BY <1>2, <1>3 DEF Span
<1>11. Mapped(o, Span(a, k))
  <2> SUFFICES ASSUME NEW x \in Span(a, k) PROVE x \in DOMAIN o /\ o[x] # Absent
    BY DEF Mapped
  <2>1. x \in Addresses /\ m[x] # Absent
    BY <1>1, <1>8 DEF Mapped
  <2>2. CASE x \in Span(a, n)
    <3>1. PICK i \in 0..(n - 1) : x = a + i
      <4>1. x - a \in 0..(n - 1) /\ x = a + (x - a)
        BY <1>2, <1>3, <2>2 DEF Span
      <4> QED BY <4>1
    <3> QED BY <1>8, <1>9, <2>1, <3>1
  <2>3. CASE x \notin Span(a, n)
    BY <1>8, <2>1, <2>3
  <2> QED BY <2>2, <2>3
<1>12. ASSUME NEW x \in Addresses, machine.mem[x] # Absent
       PROVE  x \in Span(a, k) \/ o[x] = machine.mem[x]
  <2>1. m[x] = machine.mem[x]
    BY <1>1, <1>12 DEF Granted
  <2> QED BY <1>8, <1>10, <2>1
<1>13. \A b \in DOMAIN heap.blocks :
         Apart(a - HeapBase, k, b, heap.blocks[b].size) /\ b \in DOMAIN u.heap.blocks
  BY <1>7 DEF Granted
<1>14. Filled(u, a, k, data)
  BY <1>2, <1>3, <1>7, <1>9, <1>11, <1>12, <1>13 DEF Filled
<1> QED
  BY <1>0, <1>5, <1>14

\* And is what C asks of a block.
LEMMA FilledSays ==
  ASSUME NEW g, Ready(g), NEW n \in Nat, NEW u, NEW a, NEW data, Filled(u, a, AtLeastOne(n), data)
  PROVE  Got(u) = a /\ Fresh(u, n) /\ Elsewhere(u, n)
<1>1. Got(u) = a
  BY OnlyOne DEF Filled, Got
<1>2. PICK k \in Nat : k = AtLeastOne(n) /\ n \in 0..k /\ Filled(u, a, k, data)
  <2>1. AtLeastOne(n) \in Nat /\ n \in 0..AtLeastOne(n)
    BY DEF AtLeastOne
  <2> QED BY <2>1
<1>3. a \in Int /\ HeapBase \in Int /\ a - HeapBase \in Int
  <2>1. a \in Int /\ HeapBase \in Int
    BY <1>2, AddressesAre, LayoutAssumption DEF Filled
  <2> QED BY <2>1
<1>4. Mapped(u.mem, Span(a, n))
  BY <1>2, <1>3, MappedLess DEF Filled
<1>5. ASSUME NEW b \in DOMAIN heap.blocks PROVE Apart(a - HeapBase, n, b, heap.blocks[b].size)
  <2>1. Span(a - HeapBase, n) \subseteq Span(a - HeapBase, k)
    BY <1>2, <1>3 DEF Span
  <2>2. Apart(a - HeapBase, k, b, heap.blocks[b].size)
    BY <1>2 DEF Filled
  <2> QED BY <2>1, <2>2 DEF Apart
<1>6. Fresh(u, n)
  BY <1>1, <1>4, <1>5 DEF Fresh
<1>7. Elsewhere(u, n)
  <2>1. DOMAIN machine.mem = Addresses
    BY DEF Ready, IsMemory
  <2>2. \A x \in Addresses : machine.mem[x] # Absent => x \in Span(a, k) \/ u.mem[x] = machine.mem[x]
    BY <1>2 DEF Filled
  <2> QED BY <1>1, <1>2, <2>1, <2>2 DEF Elsewhere, AtLeastOne
<1> QED
  BY <1>1, <1>6, <1>7

\* A call that fails answers NULL, and has written nothing since it began.
LEMMA FailSays ==
  ASSUME NEW g, Ready(g)
  PROVE  /\ Result(Fail(Entered), 0) /\ Fail(Entered).mem = machine.mem /\ Fail(Entered).failed = TRUE
         /\ Fail(Entered).heap = heap /\ \A n : Fresh(Fail(Entered), n)
<1>1. PICK s : s = Entered /\ IsCall(s) /\ s.mem = machine.mem /\ s.heap = heap
  BY EnteredSays DEF Going
<1>2. PICK yes, none : yes = TRUE /\ none = {0} /\ Fail(s) = [s EXCEPT !.failed = yes, !.ret = none]
  BY DEF Fail
<1>3. /\ Fail(s).mem = s.mem /\ Fail(s).heap = s.heap /\ Fail(s).failed = yes /\ Fail(s).ret = none
  BY <1>1, <1>2, FieldsOf DEF IsCall
<1> QED
  BY <1>1, <1>2, <1>3 DEF Result, Fresh

LEMMA CallocSays ==
  ASSUME Usual, NEW g, Ready(g), NEW n \in Nat, NEW size \in Nat, NEW k \in Nat, k = n * size
  PROVE  LET t == Calloc(Entered, n, size) IN
         /\ Fresh(t, k)
         /\ Result(t, 0) \/ (Elsewhere(t, k) /\ \A a \in Span(Got(t), k) : t.mem[a] = 0)
<1>1. PICK got : got = Malloc(Entered, k)
  OBVIOUS
<1>2. CASE got = Fail(Entered)
  <2>1. got.failed = TRUE /\ Result(got, 0) /\ Fresh(got, k)
    BY <1>2, FailSays
  <2>2. Calloc(Entered, n, size) = got
    BY <1>1, <2>1 DEF Calloc
  <2> QED BY <2>1, <2>2
<1>3. CASE \E a : Granted(got, a, AtLeastOne(k))
  <2>1. PICK a : Granted(got, a, AtLeastOne(k))
    BY <1>3
  <2>2. got.failed = FALSE
    BY <2>1 DEF Granted, Going
  <2>3. PICK l \in Nat : l = AtLeastOne(k) /\ k <= l
    <3>1. AtLeastOne(k) \in Nat /\ k <= AtLeastOne(k)
      BY DEF AtLeastOne
    <3> QED BY <3>1
  <2>4. PICK data \in Seq(Bytes) : data = Fill(0, l) /\ Len(data) = l /\ \A i \in 1..l : data[i] = 0
    <3>1. Fill(0, l) \in Seq(Bytes) /\ Len(Fill(0, l)) = l /\ \A i \in 1..l : Fill(0, l)[i] = 0
      BY <2>3, FillIs, LayoutAssumption DEF Fill
    <3> QED BY <3>1
  <2>5. PICK t : t = Then(Write(got, Got(got), data), Got(got))
    OBVIOUS
  <2>6. Calloc(Entered, n, size) = t
    BY <1>1, <2>2, <2>3, <2>4, <2>5 DEF Calloc, AtLeastOne
  <2>7. Filled(t, a, l, data)
    BY <2>1, <2>3, <2>4, <2>5, GrantedWrites
  <2>8. Got(t) = a /\ Fresh(t, k) /\ Elsewhere(t, k)
    BY <2>3, <2>7, FilledSays
  <2>9. ASSUME NEW x \in Span(a, k) PROVE t.mem[x] = 0
    <3>1. a \in Int
      BY <2>7, AddressesAre DEF Filled
    <3>2. PICK i \in 0..(l - 1) : x = a + i
      <4>1. x - a \in 0..(l - 1) /\ x = a + (x - a)
        BY <2>3, <2>9, <3>1 DEF Span
      <4> QED BY <4>1
    <3>3. t.mem[a + i] = data[i + 1]
      BY <2>4, <2>7 DEF Filled
    <3>4. i + 1 \in 1..l
      BY <2>3
    <3> QED BY <2>4, <3>2, <3>3, <3>4
  <2> QED BY <2>6, <2>8, <2>9
<1> QED
  BY <1>1, <1>2, <1>3, MallocSays

LEMMA StrdupSays ==
  ASSUME Usual, NEW g, Ready(g), NEW p, Readable(machine.mem, p), NEW k, k = Length(machine.mem, p) + 1
  PROVE  LET t == Strdup(Entered, p) IN
         /\ Fresh(t, k)
         /\ Result(t, 0) \/ (/\ Elsewhere(t, k)
                             /\ \A i \in 0..(k - 1) : t.mem[Got(t) + i] = machine.mem[p + i])
<1>0. IsBytes(machine.mem) /\ Entered.mem = machine.mem
  BY EnteredSays DEF Going
<1>1. PICK text, n : IsText(machine.mem, p, text, n)
  BY <1>0, TextSays
<1>2. text \in Seq(Bytes) /\ n \in Nat /\ Len(text) = n /\ k = n + 1 /\ p \in Int /\ k \in Nat
  BY <1>1 DEF IsText
<1>3. PICK got : got = Malloc(Entered, k)
  OBVIOUS
<1>4. Strdup(Entered, p) =
        IF got.failed THEN got ELSE Then(Write(got, Got(got), text \o NUL), Got(got))
  <2>1. CString(Entered, p) = {text}
    BY <1>0, <1>1, CStringReads DEF IsText
  <2> QED BY <1>2, <1>3, <2>1, OnlyOne DEF Strdup, Given
<1>5. CASE got = Fail(Entered)
  <2>1. got.failed = TRUE /\ Result(got, 0) /\ Fresh(got, k)
    BY <1>5, FailSays
  <2> QED BY <1>4, <2>1
<1>6. CASE \E a : Granted(got, a, AtLeastOne(k))
  <2>1. AtLeastOne(k) = k
    BY <1>2 DEF AtLeastOne
  <2>2. PICK a : Granted(got, a, k)
    BY <1>6, <2>1
  <2>3. got.failed = FALSE
    BY <2>2 DEF Granted, Going
  <2>4. PICK data \in Seq(Bytes) : /\ data = text \o NUL /\ Len(data) = k
                                   /\ \A i \in 0..n : data[i + 1] = IF i < n THEN text[i + 1] ELSE 0
    <3>1. IsEnded(text \o NUL, text)
      BY <1>2, EndedIs
    <3> QED BY <1>2, <3>1 DEF IsEnded
  <2>5. PICK t : t = Then(Write(got, Got(got), data), Got(got))
    OBVIOUS
  <2>6. Strdup(Entered, p) = t
    BY <1>4, <2>3, <2>4, <2>5
  <2>7. Filled(t, a, k, data)
    <3>1. k \in Nat /\ Len(data) <= k
      BY <1>2, <2>4
    <3>2. Filled(Then(Write(got, Got(got), data), Got(got)), a, k, data)
      BY <2>2, <3>1, GrantedWrites
    <3> QED BY <2>5, <3>2
  <2>8. Got(t) = a /\ Fresh(t, k) /\ Elsewhere(t, k)
    BY <1>2, <2>1, <2>7, FilledSays
  <2>9. ASSUME NEW i \in 0..(k - 1) PROVE t.mem[a + i] = machine.mem[p + i]
    <3>1. i \in 0..n /\ i \in Int
      BY <1>2
    <3>2. t.mem[a + i] = data[i + 1]
      BY <2>4, <2>7 DEF Filled
    <3>3. CASE i < n
      <4>1. i \in 0..(n - 1)
        BY <1>2, <3>1, <3>3
      <4>2. text[i + 1] = machine.mem[p + i]
        BY <1>1, <4>1 DEF IsText
      <4> QED BY <2>4, <3>1, <3>2, <3>3, <4>2
    <3>4. CASE ~ (i < n)
      <4>1. i = n
        BY <1>2, <3>1, <3>4
      <4>2. machine.mem[p + n] = 0
        BY <1>1 DEF IsText, IsString
      <4> QED BY <2>4, <3>1, <3>2, <3>4, <4>1, <4>2
    <3> QED BY <3>3, <3>4
  <2> QED BY <2>6, <2>8, <2>9
<1> QED
  BY <1>2, <1>3, <1>5, <1>6, MallocSays

\* Giving a block back changes no memory, and not the answer.
LEMMA ReleaseSays ==
  ASSUME NEW s, IsCall(s), NEW p, p - HeapBase \in DOMAIN s.heap.blocks
  PROVE  Release(s, p).mem = s.mem /\ Release(s, p).ret = s.ret
<1>1. PICK r : r = H!Release([t |-> [blocks |-> s.heap.blocks, freed |-> s.heap.freed],
                              top |-> s.heap.top, journal |-> s.heap.journal], p - HeapBase)
  OBVIOUS
<1>2. Release(s, p) = [s EXCEPT !.heap.blocks = r.t.blocks, !.heap.freed = r.t.freed,
                                !.heap.journal = r.journal]
  BY <1>1 DEF Release
<1>3. PICK h : Release(s, p) = [s EXCEPT !.heap = h]
  <2>1. [s EXCEPT !.heap.blocks = r.t.blocks, !.heap.freed = r.t.freed, !.heap.journal = r.journal]
        = [s EXCEPT !.heap = [s.heap EXCEPT !.blocks = r.t.blocks, !.freed = r.t.freed,
                                            !.journal = r.journal]]
    BY FieldsOf
  <2> QED BY <1>2, <2>1
<1> QED
  BY <1>3, FieldsOf DEF IsCall

\* The bytes of a live block are there.
LEMMA BlockIs ==
  ASSUME NEW g, Ready(g), NEW b \in DOMAIN heap.blocks
  PROVE  /\ b \in Nat /\ heap.blocks[b].size \in Nat /\ heap.blocks[b].size <= heap.blocks[b].capacity
         /\ heap.blocks[b].capacity \in Nat
         /\ Mapped(machine.mem, Span(HeapBase + b, heap.blocks[b].size))
<1>1. /\ HP!Fine(HP!tables) /\ HP!tables.blocks = heap.blocks
      /\ HP!Apart(HP!PlacesOf(HP!tables), heap.top)
  BY DEF Ready, HP!Now, HP!tables
<1>2. /\ heap.blocks \in [DOMAIN heap.blocks -> HP!BlockRecord] /\ b \in Nat
      /\ heap.blocks[b].address = b
  BY <1>1, HeapAssumption, HP!TablesAre DEF HP!Fine
<1>3. HP!Place(heap.blocks[b]) \in HP!PlacesOf(HP!tables).live
  BY <1>1, HeapAssumption, HP!PlacesAre DEF HP!Where
<1>4. b + heap.blocks[b].capacity <= heap.top /\ heap.blocks[b].capacity \in Nat
  BY <1>1, <1>2, <1>3 DEF HP!Apart, HP!Place, HP!BlockRecord
<1>5. heap.blocks[b].size \in Nat /\ heap.blocks[b].size <= heap.blocks[b].capacity
  BY <1>1, <1>2 DEF HP!Fine, HP!Holds, HP!BlockRecord
<1>6. PICK size \in Nat : size = heap.blocks[b].size
  BY <1>5
<1>7. /\ heap.top \in Nat /\ heap.mapped \in Nat /\ heap.top <= heap.mapped
      /\ heap.mapped <= H!RoundUp(HeapSize, Page)
  BY DEF Ready, Reaches
<1>8. b + size <= heap.mapped
  BY <1>2, <1>4, <1>5, <1>6, <1>7
<1>9. Mapped(machine.mem, Span(HeapBase + b, size))
  <2> SUFFICES ASSUME NEW x \in Span(HeapBase + b, size)
               PROVE  x \in DOMAIN machine.mem /\ machine.mem[x] # Absent
    BY DEF Mapped
  <2>1. HeapBase \in Nat \ {0} /\ H!RoundUp(HeapSize, Page) \in Nat
    BY LayoutAssumption, AddressesAre
  <2>2. x \in Int /\ x >= HeapBase + b /\ x <= HeapBase + b + size - 1
    BY <1>2, <1>6, <2>1 DEF Span
  <2>3. x >= HeapBase /\ x >= 1 /\ ~ (x >= HeapBase + heap.mapped)
    BY <1>2, <1>6, <1>7, <1>8, <2>1, <2>2
  <2>4. x <= HeapBase + H!RoundUp(HeapSize, Page)
    BY <1>7, <2>1, <2>2, <2>3
  <2>5. x \in Addresses
    BY <2>1, <2>2, <2>3, <2>4, AddressesAre
  <2> QED BY <2>3, <2>5 DEF Ready, IsMemory
<1> QED
  BY <1>2, <1>4, <1>5, <1>6, <1>9

\* What realloc of a block leaves: everything as it was and no answer, or at
\* the old place or a new one as many bytes of it as there are to keep.
LEMMA ReallocSays ==
  ASSUME Usual, NEW g, Ready(g), NEW b \in DOMAIN heap.blocks, NEW p \in Pointers, p = HeapBase + b,
         NEW n \in Resizes, n # 0
  PROVE  LET t == Realloc(Entered, p, n) IN
         \/ Result(t, 0) /\ Unchanged(t)
         \/ /\ Result(t, p) \/ Fresh(t, n)
            /\ \A i \in 0..(Least(heap.blocks[b].size, n) - 1) : t.mem[Got(t) + i] = machine.mem[p + i]
            /\ Elsewhere(t, n)
<1>0. /\ p \in Nat /\ p < Word /\ p % Word = p /\ p - HeapBase = b /\ p # 0 /\ n \in Nat /\ n <= MaxTransfer
      /\ b \in Nat
  <2>1. p \in Nat /\ p < Word /\ p % Word = p /\ b \in Nat
    BY PointerIs, BlockIs
  <2>2. p - HeapBase = b /\ p # 0
    BY <2>1, LayoutAssumption
  <2>3. n \in Nat /\ n <= MaxTransfer
    BY ArgumentsAssumption DEF Usual
  <2> QED BY <2>1, <2>2, <2>3
<1>1. PICK t : t = Realloc(Entered, p, n)
  OBVIOUS
<1>2. PICK s : s = Entered /\ Going(s, machine.mem) /\ s.heap = heap
  BY EnteredSays
<1>3. PICK size \in Nat : size = heap.blocks[b].size
  BY BlockIs
<1>4. CASE heap.blocks[b].capacity >= n
  <2>1. PICK r : r = [s EXCEPT !.heap.blocks[b].size = n]
    OBVIOUS
  <2>2. t = Answer(r, p)
    BY <1>0, <1>1, <1>2, <1>4, <2>1 DEF Realloc
  <2>3. Going(r, machine.mem)
    <3>1. PICK h : r = [s EXCEPT !.heap = h]
      <4>1. [s EXCEPT !.heap.blocks[b].size = n]
            = [s EXCEPT !.heap = [s.heap EXCEPT !.blocks[b].size = n]]
        BY <1>2, FieldsOf DEF Going
      <4> QED BY <2>1, <4>1
    <3>2. IsCall(r) /\ r.mem = s.mem /\ r.did = s.did /\ r.failed = s.failed
      BY <1>2, <3>1, FieldsOf DEF Going, IsCall
    <3> QED BY <1>2, <3>2 DEF Going
  <2>4. t.mem = machine.mem /\ t.ret = {p}
    BY <1>0, <2>2, <2>3, AnswerSays
  <2>5. Got(t) = p /\ Result(t, p)
    BY <2>4, OnlyOne DEF Got, Result
  <2>6. Elsewhere(t, n)
    BY <2>4 DEF Elsewhere
  <2> QED BY <1>1, <2>4, <2>5, <2>6
<1>5. CASE ~ (heap.blocks[b].capacity >= n)
  <2>1. PICK got : got = Malloc(Entered, n)
    OBVIOUS
  <2>2. PICK k \in Nat : k = Least(size, n) /\ k <= n /\ k <= size
    <3>1. Least(size, n) \in Nat /\ Least(size, n) <= n /\ Least(size, n) <= size
      BY <1>0, <1>3 DEF Least
    <3> QED BY <3>1
  <2>3. t = IF got.failed THEN got
            ELSE Given(got, Read(got, p, k),
                       LAMBDA data : Release(Then(Write(got, Got(got), data), Got(got)), p))
    BY <1>0, <1>1, <1>3, <1>5, <2>1, <2>2 DEF Realloc
  <2>4. CASE got = Fail(Entered)
    <3>1. got.failed = TRUE /\ Result(got, 0) /\ got.mem = machine.mem
      BY <2>4, FailSays
    <3> QED BY <1>1, <2>3, <3>1 DEF Unchanged
  <2>5. CASE \E a : Granted(got, a, AtLeastOne(n))
    <3>1. AtLeastOne(n) = n
      BY <1>0 DEF AtLeastOne
    <3>2. PICK a : Granted(got, a, n)
      BY <2>5, <3>1
    <3>3. /\ got.failed = FALSE /\ IsBytes(got.mem)
          /\ \A x \in Addresses : machine.mem[x] # Absent => got.mem[x] = machine.mem[x]
      BY <3>2 DEF Granted, Going
    <3>4. Mapped(machine.mem, Span(p, k)) /\ DOMAIN machine.mem = Addresses
      <4>1. Mapped(machine.mem, Span(p, size))
        BY <1>3, BlockIs
      <4>2. k \in 0..size /\ p \in Int
        BY <1>0, <2>2
      <4> QED BY <1>2, <1>3, <4>1, <4>2, MappedLess DEF Going, IsBytes
    <3>5. Mapped(got.mem, Span(p, k))
      BY <3>3, <3>4 DEF Mapped, IsBytes
    <3>6. PICK data \in Seq(Bytes) : /\ data = At(got.mem, p, k) /\ Len(data) = k
                                     /\ \A i \in 1..k : data[i] = got.mem[p + i - 1]
      BY <1>0, <3>3, <3>5, AtIs
    <3>7. \A i \in 0..(k - 1) : data[i + 1] = machine.mem[p + i]
      <4> SUFFICES ASSUME NEW i \in 0..(k - 1) PROVE data[i + 1] = machine.mem[p + i]
        OBVIOUS
      <4>1. i + 1 \in 1..k /\ p + (i + 1) - 1 = p + i /\ p + i \in Span(p, k)
        BY <1>0, <2>2 DEF Span
      <4>2. p + i \in Addresses /\ machine.mem[p + i] # Absent
        BY <3>4, <4>1 DEF Mapped
      <4> QED BY <3>3, <3>6, <4>1, <4>2
    <3>8. Read(got, p, k) = {data}
      <4>1. k <= MaxTransfer
        BY <1>0, <2>2, ArgumentsAssumption DEF Usual
      <4> QED BY <3>5, <3>6, <4>1 DEF Read
    <3>9. PICK u : u = Then(Write(got, Got(got), data), Got(got))
      OBVIOUS
    <3>10. t = Release(u, p)
      BY <2>3, <3>3, <3>8, <3>9, OnlyOne DEF Given
    <3>11. Filled(u, a, n, data)
      <4>1. Filled(Then(Write(got, Got(got), data), Got(got)), a, n, data)
        BY <1>0, <2>2, <3>2, <3>6, GrantedWrites
      <4> QED BY <3>9, <4>1
    <3>12. Got(u) = a /\ Fresh(u, n) /\ Elsewhere(u, n)
      BY <1>0, <3>1, <3>11, FilledSays
    <3>13. t.mem = u.mem /\ t.ret = u.ret
      <4>1. IsCall(u) /\ p - HeapBase \in DOMAIN u.heap.blocks
        BY <1>0, <3>11 DEF Filled, Going
      <4> QED BY <3>10, <4>1, ReleaseSays
    <3>14. Got(t) = a /\ Fresh(t, n) /\ Elsewhere(t, n)
      BY <3>12, <3>13 DEF Got, Fresh, Elsewhere, Result
    <3>15. \A i \in 0..(k - 1) : t.mem[a + i] = machine.mem[p + i]
      BY <3>6, <3>7, <3>11, <3>13 DEF Filled
    <3> QED BY <1>1, <1>3, <2>2, <3>14, <3>15
  <2> QED BY <1>0, <2>1, <2>4, <2>5, MallocSays
<1> QED
  BY <1>4, <1>5

\* No block is taken for shorter than the program asked for, as one is that a
\* call shrank which has been undone.
SizesStand ==
  "realloc" \in Implemented =>
    \A b \in DOMAIN heap.blocks : heap.blocks[b].size >= Latest[2].blocks[b].size

\* The blocks there are were there.
LEMMA LatestIs ==
  ASSUME IInv, NEW b \in DOMAIN heap.blocks
  PROVE  Latest[2].blocks[b].size \in Nat
<1>1. PICK g : HP!Now(g)
  BY DEF IInv
<1>2. Len(past) \in 1..Len(past)
  <2>1. Len(past) = Len(log) + 1 /\ Len(log) \in Nat
    BY LenProperties DEF IInv, History, IsSequence
  <2> QED BY <2>1
<1>3. PICK q : q = Latest[2] /\ HP!Fine(Tab(q)) /\ Alike(heap, q)
  BY <1>2 DEF IInv, History, IsState, Latest
<1>4. HP!Fine(Tab(heap)) /\ Tab(heap).blocks = heap.blocks /\ Tab(q).blocks = q.blocks
  BY <1>1 DEF HP!Now, HP!tables, Tab
<1>5. HP!Where(heap.blocks) = HP!Where(q.blocks)
  BY <1>3, <1>4, HeapAssumption, HP!PlacesAre DEF Alike
<1>6. PICK a \in DOMAIN q.blocks : HP!Place(heap.blocks[b]) = HP!Place(q.blocks[a])
  BY <1>5 DEF HP!Where
<1>7. /\ heap.blocks[b].address = b /\ q.blocks[a].address = a
      /\ HP!Holds(q.blocks[a])
  BY <1>3, <1>4 DEF HP!Fine
<1>8. a = b
  BY <1>6, <1>7 DEF HP!Place
<1> QED
  BY <1>3, <1>7, <1>8 DEF HP!Holds, HP!BlockRecord

\* What C says of the functions that allocate, they do.
LEMMA AllocatesRight ==
  ASSUME Usual, IInv, NEW g, Ready(g), SizesStand, NEW name \in Implemented, NEW x \in Args(name),
         \A p \in Strings(name, x) : Readable(machine.mem, p)
  PROVE  LibcAllocates(name, x, Perform(Entered, name, x))
<1>1. Sizes \subseteq Nat /\ Resizes \subseteq Nat
  BY ArgumentsAssumption
<1>2. ASSUME NEW n \in Nat, NEW t, t = Malloc(Entered, n)
      PROVE  Fresh(t, n) /\ (Result(t, 0) \/ Elsewhere(t, n))
  <2>1. CASE t = Fail(Entered)
    BY <2>1, FailSays
  <2>2. CASE \E a : Granted(t, a, AtLeastOne(n))
    BY <2>2, GrantedIs, FilledSays
  <2> QED BY <1>2, <2>1, <2>2, MallocSays
<1>3. CASE name = "malloc"
  <2>1. PICK n \in Sizes : x = <<n>>
    BY <1>3 DEF Args
  <2>2. PICK t : t = Malloc(Entered, n) /\ t = Perform(Entered, name, x)
    BY <1>3, <2>1 DEF Perform
  <2>3. Fresh(t, n) /\ (Result(t, 0) \/ Elsewhere(t, n))
    BY <1>1, <1>2, <2>2
  <2>4. x[Len(x)] = n
    BY <2>1
  <2> QED BY <1>3, <2>2, <2>3, <2>4 DEF LibcAllocates
<1>4. CASE name = "calloc"
  <2>1. PICK n \in Sizes : x = <<n, 2>>
    BY <1>4 DEF Args
  <2>2. PICK k \in Nat : k = n * 2 /\ n \in Nat
    <3>1. n \in Nat /\ n * 2 \in Nat
      BY <1>1
    <3> QED BY <3>1
  <2>3. PICK t : t = Calloc(Entered, n, 2) /\ t = Perform(Entered, name, x)
    BY <1>4, <2>1 DEF Perform
  <2>4. /\ Fresh(t, k)
        /\ Result(t, 0) \/ (Elsewhere(t, k) /\ \A a \in Span(Got(t), k) : t.mem[a] = 0)
    BY <2>2, <2>3, CallocSays
  <2>5. x[1] * x[2] = k
    BY <2>1, <2>2
  <2> QED BY <1>4, <2>3, <2>4, <2>5 DEF LibcAllocates
<1>5. CASE name = "realloc"
  <2>1. x \in Pointers \X Resizes
    BY <1>5 DEF Args
  <2>2. PICK p \in Pointers, n \in Resizes : x = <<p, n>>
    BY <2>1
  <2>3. PICK t : t = Realloc(Entered, p, n) /\ t = Perform(Entered, name, x)
    BY <1>5, <2>2 DEF Perform
  <2>4. x[1] = p /\ x[2] = n /\ x[Len(x)] = n /\ n \in Nat /\ p \in Nat
    BY <1>1, <2>2, PointerIs
  <2>5. CASE p = 0
    <3>1. t = Malloc(Entered, n)
      BY <2>3, <2>5 DEF Realloc
    <3>2. Fresh(t, n) /\ (Result(t, 0) \/ Elsewhere(t, n))
      BY <1>2, <2>4, <3>1
    <3> QED BY <1>5, <2>3, <2>4, <2>5, <3>2 DEF LibcAllocates
  <2>6. CASE p # 0 /\ n # 0 /\ p - HeapBase \in DOMAIN heap.blocks
    <3>1. PICK b \in DOMAIN heap.blocks : b = p - HeapBase /\ p = HeapBase + b
      <4>1. p - HeapBase \in DOMAIN heap.blocks /\ p = HeapBase + (p - HeapBase)
        BY <2>4, <2>6, LayoutAssumption
      <4> QED BY <4>1
    <3>2. \/ Result(t, 0) /\ Unchanged(t)
          \/ /\ Result(t, p) \/ Fresh(t, n)
             /\ \A i \in 0..(Least(heap.blocks[b].size, n) - 1) : t.mem[Got(t) + i] = machine.mem[p + i]
             /\ Elsewhere(t, n)
      <4>1. p = HeapBase + b /\ n # 0 /\ t = Realloc(Entered, p, n)
        BY <2>3, <2>6, <3>1
      <4>2. LET r == Realloc(Entered, p, n) IN
            \/ Result(r, 0) /\ Unchanged(r)
            \/ /\ Result(r, p) \/ Fresh(r, n)
               /\ \A i \in 0..(Least(heap.blocks[b].size, n) - 1) : r.mem[Got(r) + i] = machine.mem[p + i]
               /\ Elsewhere(r, n)
        BY <4>1, ReallocSays
      <4> QED BY <4>1, <4>2
    <3>3. PICK asked \in Nat, size \in Nat :
            asked = Asked(p) /\ size = heap.blocks[b].size /\ asked <= size
      <4>1. Latest[2].blocks[b].size \in Nat /\ heap.blocks[b].size \in Nat
        BY LatestIs, BlockIs
      <4>2. Asked(p) = Latest[2].blocks[b].size
        BY <3>1 DEF Asked, Latest
      <4>3. heap.blocks[b].size >= Latest[2].blocks[b].size
        BY <1>5 DEF SizesStand
      <4> QED BY <4>1, <4>2, <4>3
    <3>4. \A i \in 0..(Least(asked, n) - 1) : i \in 0..(Least(size, n) - 1)
      BY <2>4, <3>3 DEF Least
    <3>5. \/ Result(t, 0) /\ Unchanged(t)
          \/ /\ Result(t, p) \/ Fresh(t, n)
             /\ \A i \in 0..(Least(asked, n) - 1) : t.mem[Got(t) + i] = machine.mem[p + i]
             /\ Elsewhere(t, n)
      BY <3>2, <3>3, <3>4
    <3> QED BY <1>5, <2>3, <2>4, <2>6, <3>3, <3>5 DEF LibcAllocates
  <2>7. CASE p # 0 /\ ~ (n # 0 /\ p - HeapBase \in DOMAIN heap.blocks)
    BY <1>5, <2>3, <2>4, <2>7 DEF LibcAllocates
  <2> QED BY <2>5, <2>6, <2>7
<1>6. CASE name = "strdup"
  <2>1. PICK p \in Pointers : x = <<p>>
    BY <1>6 DEF Args
  <2>2. PICK t : t = Strdup(Entered, p) /\ t = Perform(Entered, name, x)
    BY <1>6, <2>1 DEF Perform
  <2>3. Readable(machine.mem, p)
    BY <1>6, <2>1 DEF Strings
  <2>4. PICK n : n = Length(machine.mem, p) + 1
    OBVIOUS
  <2>5. /\ Fresh(t, n)
        /\ Result(t, 0) \/ (/\ Elsewhere(t, n)
                            /\ \A i \in 0..(n - 1) : t.mem[Got(t) + i] = machine.mem[p + i])
    BY <2>2, <2>3, <2>4, StrdupSays
  <2> QED BY <1>6, <2>1, <2>2, <2>4, <2>5 DEF LibcAllocates
<1>7. CASE name \notin {"malloc", "calloc", "realloc", "strdup"}
  BY <1>7 DEF LibcAllocates
<1> QED
  BY <1>3, <1>4, <1>5, <1>6, <1>7

\* No string that a function is given is as long as read_cstring goes.
ShortStrings == \A p \in Pointers : ~ IsString(machine.mem, p, Limit)

LEMMA RightCalls ==
  ASSUME Usual, IInv, NEW g, Ready(g), SizesStand, ShortStrings
  PROVE  AsLibcWithRoom
<1> SUFFICES ASSUME NEW name \in Implemented, NEW x \in Args(name), Roomy(name, x)
             PROVE  Right(name, x)
  BY DEF AsLibcWithRoom
<1>1. Going(Entered, machine.mem)
  BY EnteredSays
<1>2. Strings(name, x) \subseteq Pointers
  <2>1. CASE name \in {"strlen", "strdup", "puts"}
    <3>1. x \in {<<p>> : p \in Pointers}
      BY <2>1 DEF Args
    <3> QED BY <2>1, <3>1 DEF Strings
  <2>2. CASE name \in {"strchr", "strrchr"}
    <3>1. x \in Pointers \X Chars
      BY <2>2 DEF Args
    <3> QED BY <2>2, <3>1 DEF Strings
  <2>3. CASE name \in {"strcpy", "strcat", "strcmp", "strstr"}
    <3>1. x \in Pointers \X Pointers
      BY <2>3 DEF Args
    <3> QED BY <2>3, <3>1 DEF Strings
  <2>4. CASE name \in {"strncpy", "strncat", "strncmp"}
    <3>1. x \in Pointers \X Pointers \X Numbers
      BY <2>4 DEF Args
    <3> QED BY <2>4, <3>1 DEF Strings
  <2>5. CASE name \notin {"strlen", "strdup", "puts", "strchr", "strrchr", "strcpy", "strcat", "strcmp",
                          "strstr", "strncpy", "strncat", "strncmp"}
    BY <2>5 DEF Strings
  <2> QED BY <2>1, <2>2, <2>3, <2>4, <2>5
<1>3. ASSUME NEW p \in Strings(name, x) PROVE Readable(machine.mem, p)
  <2>1. p \in Pointers /\ p \in Int
    BY <1>2, PointerIs
  <2> QED BY <2>1 DEF Roomy, ShortStrings, Readable
<1>4. LibcAllocates(name, x, Perform(Entered, name, x))
  BY <1>3, AllocatesRight
<1>5. LibcMoves(name, machine.mem, x, Perform(Entered, name, x))
  BY <1>1, <1>3, MovesRight
<1>6. LibcFinds(name, machine.mem, x, Perform(Entered, name, x))
  BY <1>1, <1>3, FindsRight
<1> QED
  BY <1>4, <1>5, <1>6 DEF Right

\* Whatever the program calls next, after whatever it has called and undone, the
\* function stood in for does what C says of it: to the bytes it is given, to
\* every other byte, to the result, and with a block that no live one shares a
\* byte with.  So it is of strings with memory behind them that end before
\* read_cstring gives up, and where no call that shrank a block in place has been
\* undone (stubs.py, the implementations).
THEOREM StubsAsLibc ==
  ~ Careless /\ Usual => (Spec => [](ShortStrings /\ SizesStand => AsLibcWithRoom))
<1> SUFFICES ASSUME ~ Careless, Usual PROVE Spec => [](ShortStrings /\ SizesStand => AsLibcWithRoom)
  OBVIOUS
<1>1. IInv => (ShortStrings /\ SizesStand => AsLibcWithRoom)
  <2> SUFFICES ASSUME IInv, ShortStrings, SizesStand PROVE AsLibcWithRoom
    OBVIOUS
  <2>1. PICK g : HP!Now(g)
    BY DEF IInv
  <2>2. Ready(g)
    BY <2>1, ReadyIs
  <2> QED BY <2>2, RightCalls
<1> QED
  BY <1>1, CallsTold, PTL
=============================================================================
