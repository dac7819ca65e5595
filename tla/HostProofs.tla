----------------------------- MODULE HostProofs -----------------------------
(***************************************************************************)
(* What serves the program and what runs it.  That undoing calls of the    *)
(* kernel (Syscalls) puts the layer back, replaying them makes the machine *)
(* they made, and the heap is there up to the break, for every layout,     *)
(* every file and sequence of calls.  That every verdict of a batch is the *)
(* program's own (Triage), for every batch, limits and clock; and that the *)
(* groups of its report are the results sorted by how they failed.         *)
(***************************************************************************)
EXTENDS Syscalls, Triage, Sums, SequenceTheorems, TLAPS

----------------------------------------------------------------------------
(* What replaying one entry makes of memory. *)

\* Regions first.
Regions(mem, did) ==
  [p \in Pages |-> IF p \in did.unmaps THEN Absent
                   ELSE IF p \in did.maps /\ mem[p] = Absent THEN Zero ELSE mem[p]]

Store(mem, w) == IF mem[w[1]] = Absent THEN mem ELSE [mem EXCEPT ![w[1]] = w[2]]

Storing(f, base, writes) ==
  f = [i \in 0..Len(writes) |-> IF i = 0 THEN base ELSE Store(f[i - 1], writes[i])]

\* Then memory.
Stored(base, writes) == (CHOOSE f : Storing(f, base, writes))[Len(writes)]

LEMMA ReplayIs ==
  ASSUME NEW m, NEW e
  PROVE  Replay(m, e) = [mem |-> Stored(Regions(m.mem, e.did), e.did.writes), answer |-> e.answer]
<1> DEFINE mapped == [p \in Pages |->
             IF p \in e.did.maps /\ m.mem[p] = Absent THEN Zero ELSE m.mem[p]]
           unmapped == [p \in Pages |-> IF p \in e.did.unmaps THEN Absent ELSE mapped[p]]
<1>1. unmapped = Regions(m.mem, e.did)
  BY DEF Regions
<1>2. Replay(m, e) = [mem |-> Stored(unmapped, e.did.writes), answer |-> e.answer]
  BY DEF Replay, Stored, Storing, Store
<1> QED
  BY <1>1, <1>2

LEMMA StoredNone == ASSUME NEW base PROVE Stored(base, <<>>) = base
<1> DEFINE f == [i \in 0..0 |-> base]
<1>1. Storing(f, base, <<>>)
  BY DEF Storing
<1>2. PICK g : g = (CHOOSE h : Storing(h, base, <<>>)) /\ Storing(g, base, <<>>)
  BY <1>1
<1>3. g[0] = base
  BY <1>2 DEF Storing
<1> QED
  BY <1>2, <1>3 DEF Stored

LEMMA StoredOne == ASSUME NEW base, NEW w PROVE Stored(base, <<w>>) = Store(base, w)
<1> DEFINE f == [i \in 0..1 |-> IF i = 0 THEN base ELSE Store(base, w)]
           ws == <<w>>
<1>0. Len(ws) = 1 /\ ws[1] = w /\ 0..1 = {0, 1}
  OBVIOUS
<1> HIDE DEF ws
<1>1. Storing(f, base, ws)
  <2>1. f[0] = base /\ f[1] = Store(base, w)
    OBVIOUS
  <2> DEFINE g == [i \in 0..Len(ws) |-> IF i = 0 THEN base ELSE Store(f[i - 1], ws[i])]
  <2>2. g[0] = base /\ g[1] = Store(base, w)
    BY <1>0, <2>1
  <2>3. f = g
    <3>1. DOMAIN f = 0..1 /\ DOMAIN g = 0..1 /\ f = [i \in 0..1 |-> f[i]] /\ g = [i \in 0..1 |-> g[i]]
      BY <1>0
    <3> HIDE DEF f, g
    <3> QED BY <1>0, <2>1, <2>2, <3>1
  <2> HIDE DEF f
  <2> QED BY <2>3 DEF Storing
<1>2. PICK g : g = (CHOOSE h : Storing(h, base, ws)) /\ Storing(g, base, ws)
  BY <1>1
<1>3. g[0] = base /\ g[1] = Store(g[0], w)
  BY <1>0, <1>2 DEF Storing
<1> QED
  BY <1>0, <1>2, <1>3 DEF Stored, ws

----------------------------------------------------------------------------
(* A call in progress. *)

KernelFields == {"files", "next", "brk", "brkMapped", "mmapNext"}
IsKernel(k) ==
  /\ k = Restore(k, k)
  /\ DOMAIN k.files \subseteq Int
  /\ \A fd \in DOMAIN k.files : k.files[fd].offset \in Nat /\ fd < k.next
                                /\ k.files[fd].name \in {"<stdin>", "<stdout>"} \cup DOMAIN Contents
  /\ {k.next, k.brk, k.brkMapped, k.mmapNext} \subseteq Int
  /\ BrkBase <= k.brk /\ k.brk <= k.brkMapped /\ k.brkMapped <= BrkBase + BrkSize
  /\ k.mmapNext <= ArenaBase + ArenaSize

IsMemory(mem) == mem = [p \in Pages |-> mem[p]]

IsCall(s) == s = [mem |-> s.mem, kernel |-> s.kernel, did |-> s.did, ret |-> s.ret,
                  error |-> s.error, stop |-> s.stop]
IsDid(d) == d = [writes |-> d.writes, maps |-> d.maps, unmaps |-> d.unmaps, output |-> d.output]

\* The heap is there below what has been mapped for it, but for what has been given back.
HeapThere(mem, k, own) ==
  \A p \in Span(BrkBase, k.brkMapped - BrkBase) : mem[p] # Absent \/ p \in own

\* What has been done is written down, and makes of m what it made.
Progress(s, m, own) ==
  /\ IsCall(s) /\ IsDid(s.did) /\ IsMemory(s.mem) /\ IsKernel(s.kernel)
  /\ s.mem = Stored(Regions(m, s.did), s.did.writes)
  /\ HeapThere(s.mem, s.kernel, own \cup s.did.unmaps)

\* And nothing has been.
Clean(s, m) == s.mem = m /\ s.did.writes = <<>> /\ s.did.maps = {} /\ s.did.unmaps = {}

LEMMA FieldsOf ==
  ASSUME NEW s, IsCall(s)
  PROVE  /\ DOMAIN s = {"mem", "kernel", "did", "ret", "error", "stop"}
         /\ s = [x \in DOMAIN s |-> s[x]]
BY DEF IsCall

\* An answer or an error changes nothing else.
LEMMA AnswerIs ==
  ASSUME NEW s, IsCall(s), NEW v, NEW m, NEW own
  PROVE  /\ IsCall(Answer(s, v)) /\ Answer(s, v).ret = v /\ Answer(s, v).error = s.error
         /\ Answer(s, v).stop = s.stop
         /\ Answer(s, v).mem = s.mem /\ Answer(s, v).kernel = s.kernel /\ Answer(s, v).did = s.did
         /\ Progress(s, m, own) => Progress(Answer(s, v), m, own)
<1>1. /\ IsCall(Answer(s, v)) /\ Answer(s, v).ret = v /\ Answer(s, v).error = s.error
      /\ Answer(s, v).stop = s.stop
      /\ Answer(s, v).mem = s.mem /\ Answer(s, v).kernel = s.kernel /\ Answer(s, v).did = s.did
  BY FieldsOf DEF Answer, IsCall
<1> QED
  BY <1>1 DEF Progress

LEMMA FailIs ==
  ASSUME NEW s, IsCall(s), NEW v, NEW m, NEW own
  PROVE  /\ IsCall(Fail(s, v)) /\ Fail(s, v).error = v /\ Fail(s, v).ret = s.ret
         /\ Fail(s, v).stop = s.stop
         /\ Fail(s, v).mem = s.mem /\ Fail(s, v).kernel = s.kernel /\ Fail(s, v).did = s.did
         /\ Progress(s, m, own) => Progress(Fail(s, v), m, own)
<1>1. /\ IsCall(Fail(s, v)) /\ Fail(s, v).error = v /\ Fail(s, v).ret = s.ret
      /\ Fail(s, v).stop = s.stop
      /\ Fail(s, v).mem = s.mem /\ Fail(s, v).kernel = s.kernel /\ Fail(s, v).did = s.did
  BY FieldsOf DEF Fail, IsCall
<1> QED
  BY <1>1 DEF Progress

----------------------------------------------------------------------------
(* Pages. *)

LEMMA PageIs ==
  ASSUME NEW n \in Int
  PROVE  Page(n) \in Int /\ Page(n) * PAGE <= n /\ n < (Page(n) + 1) * PAGE
<1>1. PAGE \in Nat \ {0}
  BY LayoutAssumption
<1> DEFINE q == n \div PAGE
           r == n % PAGE
<1>2. q \in Int /\ r \in 0..(PAGE - 1) /\ n = PAGE * q + r
  BY <1>1
<1>3. Page(n) = q
  BY DEF Page
<1> HIDE DEF q, r
<1>4. PAGE * q = q * PAGE /\ (q + 1) * PAGE = q * PAGE + PAGE /\ q * PAGE \in Int
  BY <1>1, <1>2
<1> QED
  BY <1>1, <1>2, <1>3, <1>4

LEMMA PageGrows ==
  ASSUME NEW a \in Int, NEW b \in Int, a <= b
  PROVE  Page(a) <= Page(b)
<1>1. PAGE \in Nat \ {0}
  BY LayoutAssumption
<1>2. PICK p \in Int : p = Page(a) /\ p * PAGE <= a
  BY PageIs
<1>3. PICK q \in Int : q = Page(b) /\ b < (q + 1) * PAGE
  BY PageIs
<1>4. p * PAGE < (q + 1) * PAGE /\ p * PAGE \in Int /\ (q + 1) * PAGE \in Int
  BY <1>1, <1>2, <1>3
<1>5. ASSUME q + 1 <= p PROVE FALSE
  <2>1. (q + 1) * PAGE <= p * PAGE
    BY <1>1, <1>2, <1>3, <1>5
  <2> QED BY <1>4, <2>1
<1> QED
  BY <1>2, <1>3, <1>5

\* A multiple of a page is where its page begins.
LEMMA PageBegins ==
  ASSUME NEW n \in Nat, n % PAGE = 0
  PROVE  n = Page(n) * PAGE
<1>1. PAGE \in Nat \ {0}
  BY LayoutAssumption
<1> DEFINE q == n \div PAGE
           r == n % PAGE
<1>2. q \in Int /\ n = PAGE * q + r
  BY <1>1
<1>3. Page(n) = q /\ r = 0
  BY DEF Page
<1> HIDE DEF q, r
<1>4. PAGE * q = q * PAGE /\ PAGE * q \in Int
  BY <1>1, <1>2
<1> QED
  BY <1>2, <1>3, <1>4

LEMMA MultipleIs ==
  ASSUME NEW n \in Int
  PROVE  (n * PAGE) % PAGE = 0
<1>1. PAGE \in Nat \ {0}
  BY LayoutAssumption
<1>2. PICK z \in Int : z = n * PAGE
  BY <1>1
<1> DEFINE q == z \div PAGE
           r == z % PAGE
<1>3. q \in Int /\ r \in 0..(PAGE - 1) /\ z = PAGE * q + r
  BY <1>1
<1> HIDE DEF q, r
<1>4. r = (n - q) * PAGE /\ n - q \in Int
  BY <1>1, <1>2, <1>3
<1>5. PICK d \in Int : d = n - q
  BY <1>4
<1>6. d <= 0
  <2>1. ASSUME 1 <= d PROVE PAGE <= d * PAGE
    BY <1>1, <2>1
  <2> QED BY <1>1, <1>3, <1>4, <1>5, <2>1
<1>7. d >= 0
  <2>1. ASSUME d <= -1 PROVE d * PAGE <= -PAGE
    BY <1>1, <2>1
  <2> QED BY <1>1, <1>3, <1>4, <1>5, <2>1
<1>8. r = 0
  BY <1>1, <1>4, <1>5, <1>6, <1>7
<1> QED
  BY <1>2, <1>8 DEF r

\* Rounding up goes to the page's end, and not past a multiple of pages.
LEMMA UpIs ==
  ASSUME NEW n \in Int, NEW end \in Nat, end % PAGE = 0, n <= end
  PROVE  Up(n) \in Int /\ n <= Up(n) /\ Up(n) <= end
<1>1. PAGE \in Nat \ {0}
  BY LayoutAssumption
<1>2. n + PAGE - 1 \in Int /\ Up(n) = Page(n + PAGE - 1) * PAGE
  BY <1>1 DEF Up, Page
<1>3. PICK p \in Int : p = Page(n + PAGE - 1) /\ p * PAGE <= n + PAGE - 1 /\ n + PAGE - 1 < (p + 1) * PAGE
  BY <1>2, PageIs
<1>4. PICK q \in Int : q = Page(end) /\ end = q * PAGE
  BY PageBegins, PageIs
<1>5. (p + 1) * PAGE = p * PAGE + PAGE /\ p * PAGE \in Int
  BY <1>1, <1>3
<1>6. n <= p * PAGE
  BY <1>1, <1>3, <1>5
<1>7. ASSUME q + 1 <= p PROVE FALSE
  <2>1. (q + 1) * PAGE <= p * PAGE /\ (q + 1) * PAGE = q * PAGE + PAGE
    BY <1>1, <1>3, <1>4, <1>7
  <2> QED BY <1>1, <1>3, <1>4, <1>5, <2>1
<1>8. p * PAGE <= q * PAGE
  BY <1>1, <1>3, <1>4, <1>7
<1> QED
  BY <1>2, <1>3, <1>4, <1>5, <1>6, <1>8

\* Up to the end of the heap's last page everything is in the address space.
LEMMA SpansArePages ==
  ASSUME NEW k, IsKernel(k)
  PROVE  \A p \in Span(BrkBase, k.brkMapped - BrkBase) : p \in Pages
<1>1. /\ {BrkBase, BrkSize, ArenaBase, ArenaSize} \subseteq Nat
      /\ BrkBase + BrkSize <= ArenaBase
  BY LayoutAssumption
<1>2. k.brkMapped \in Int /\ k.brkMapped <= ArenaBase + ArenaSize
  BY <1>1 DEF IsKernel
<1>3. Page(k.brkMapped) <= Page(ArenaBase + ArenaSize) /\ Page(0) <= Page(BrkBase)
      /\ {Page(k.brkMapped), Page(ArenaBase + ArenaSize), Page(0), Page(BrkBase)} \subseteq Int
  BY <1>1, <1>2, PageGrows, PageIs
<1>4. Page(0) = 0
  <2>1. PAGE \in Nat \ {0}
    BY LayoutAssumption
  <2>2. Page(0) * PAGE <= 0 /\ 0 < (Page(0) + 1) * PAGE
    BY PageIs
  <2>3. PICK q \in Int : q = Page(0)
    BY <1>3
  <2>4. q <= 0
    <3>1. ASSUME q >= 1 PROVE q * PAGE >= 1
      BY <2>1, <3>1
    <3> QED BY <2>1, <2>2, <2>3, <3>1
  <2>5. q >= 0
    <3>1. ASSUME q + 1 <= 0 PROVE (q + 1) * PAGE <= 0
      BY <2>1, <3>1
    <3> QED BY <2>1, <2>2, <2>3, <3>1
  <2> QED BY <2>3, <2>4, <2>5
<1>5. BrkBase + (k.brkMapped - BrkBase) = k.brkMapped
  BY <1>1, <1>2
<1> QED
  BY <1>3, <1>4, <1>5 DEF Span, Pages

\* Memory written: once in a call.
LEMMA WriteMemIs ==
  ASSUME NEW s, NEW m, NEW own, Progress(s, m, own), s.did.writes = <<>>,
         NEW at, NEW data, data = <<>> \/ data # Absent
  PROVE  LET t == WriteMem(s, at, data) IN
         /\ Progress(t, m, own) /\ t.kernel = s.kernel
         /\ t.did.maps = s.did.maps /\ t.did.unmaps = s.did.unmaps
<1>1. IsCall(s) /\ IsDid(s.did) /\ IsMemory(s.mem)
  BY DEF Progress
<1>2. CASE data = <<>>
  BY <1>2 DEF WriteMem
<1>3. CASE data # <<>> /\ ~ Mapped(s, {Page(at)})
  BY <1>1, <1>3, FailIs DEF WriteMem
<1>4. CASE data # <<>> /\ Mapped(s, {Page(at)})
  <2> DEFINE w == <<Page(at), data>>
  <2>1. PICK t : t = WriteMem(s, at, data)
    OBVIOUS
  <2>2. t = [s EXCEPT !.mem[Page(at)] = data, !.did.writes = Append(@, <<Page(at), data>>)]
    BY <1>4, <2>1 DEF WriteMem
  <2>3. Append(s.did.writes, w) = <<w>>
    OBVIOUS
  <2>4. /\ IsCall(t) /\ t.mem = [s.mem EXCEPT ![Page(at)] = data] /\ t.kernel = s.kernel
        /\ t.did = [s.did EXCEPT !.writes = <<w>>]
    BY <1>1, <2>2, <2>3, FieldsOf DEF IsCall
  <2>5. /\ IsDid(t.did) /\ t.did.writes = <<w>> /\ t.did.maps = s.did.maps
        /\ t.did.unmaps = s.did.unmaps
    BY <1>1, <2>4 DEF IsDid
  <2>6. Page(at) \in Pages /\ s.mem[Page(at)] # Absent
    BY <1>4 DEF Mapped
  <2>7. IsMemory(t.mem) /\ \A p \in Pages : t.mem[p] = IF p = Page(at) THEN data ELSE s.mem[p]
    BY <1>1, <2>4, <2>6 DEF IsMemory
  <2>8. t.mem = Stored(Regions(m, t.did), t.did.writes)
    <3>1. Regions(m, t.did) = Regions(m, s.did)
      BY <2>5 DEF Regions
    <3>2. Regions(m, s.did) = s.mem
      BY StoredNone DEF Progress
    <3>3. Stored(s.mem, <<w>>) = Store(s.mem, w)
      BY StoredOne
    <3>4. Store(s.mem, w) = t.mem
      BY <2>4, <2>6 DEF Store
    <3> QED BY <2>5, <3>1, <3>2, <3>3, <3>4
  <2>9. HeapThere(t.mem, t.kernel, own \cup t.did.unmaps)
    <3>1. \A p : s.mem[p] # Absent => t.mem[p] # Absent
      BY <1>1, <1>4, <2>4, <2>6 DEF IsMemory
    <3> QED BY <2>4, <2>5, <3>1 DEF Progress, HeapThere
  <2> HIDE DEF w
  <2>10. Progress(t, m, own)
    BY <2>4, <2>5, <2>7, <2>8, <2>9 DEF Progress
  <2> QED BY <2>1, <2>4, <2>5, <2>10
<1> QED
  BY <1>2, <1>3, <1>4

\* Pages that come, to a call that has done nothing yet.
LEMMA MapIs ==
  ASSUME NEW s, NEW m, NEW own, Progress(s, m, own), Clean(s, m), NEW pages, CanMap(s, pages)
  PROVE  LET t == Map(s, pages) IN
         /\ Progress(t, m, own) /\ t.kernel = s.kernel /\ t.did.writes = <<>>
         /\ t.did.unmaps = {} /\ \A p \in pages : t.mem[p] # Absent
<1>1. IsCall(s) /\ IsDid(s.did) /\ IsMemory(s.mem)
  BY DEF Progress
<1>2. PICK t : t = Map(s, pages)
  OBVIOUS
<1>3. /\ IsCall(t) /\ t.kernel = s.kernel
      /\ t.mem = [p \in Pages |-> IF p \in pages THEN Zero ELSE s.mem[p]]
      /\ t.did = [s.did EXCEPT !.maps = pages]
  BY <1>1, <1>2, FieldsOf DEF IsCall, Map, Clean
<1>4. IsDid(t.did) /\ t.did.writes = <<>> /\ t.did.maps = pages /\ t.did.unmaps = {}
  BY <1>1, <1>3 DEF IsDid, Clean
<1>5. \A p \in pages : p \in Pages /\ s.mem[p] = Absent
  BY DEF CanMap
<1>6. Absent # Zero
  <2>1. Zero \in Seq(Bytes)
    BY DEF Zero
  <2> QED BY <2>1, ArgumentsAssumption
<1>7. \A p \in Pages : t.mem[p] = IF p \in pages THEN Zero ELSE s.mem[p]
  BY <1>3
<1>8. t.mem = Stored(Regions(m, t.did), t.did.writes)
  <2>1. Regions(m, t.did) = [p \in Pages |-> IF p \in pages THEN Zero ELSE s.mem[p]]
    BY <1>4, <1>5 DEF Regions, Clean
  <2> QED BY <1>3, <1>4, <2>1, StoredNone
<1>9. HeapThere(t.mem, t.kernel, own \cup t.did.unmaps)
  <2>1. \A p : s.mem[p] # Absent /\ p \in Pages => t.mem[p] # Absent
    BY <1>6, <1>7
  <2>2. s.did.unmaps = {}
    BY DEF Clean
  <2>3. \A p \in Span(BrkBase, t.kernel.brkMapped - BrkBase) : p \in Pages
    BY <1>3, SpansArePages DEF Progress
  <2> QED BY <1>3, <1>4, <2>1, <2>2, <2>3 DEF Progress, HeapThere
<1>10. Progress(t, m, own)
  BY <1>3, <1>4, <1>8, <1>9 DEF Progress, IsMemory
<1> QED
  BY <1>2, <1>3, <1>4, <1>5, <1>6, <1>7, <1>10

\* Pages that go.
LEMMA UnmapIs ==
  ASSUME NEW s, NEW m, NEW own, Progress(s, m, own), Clean(s, m), NEW pages, Mapped(s, pages)
  PROVE  LET t == Unmap(s, pages) IN Progress(t, m, own) /\ t.kernel = s.kernel
<1>1. IsCall(s) /\ IsDid(s.did) /\ IsMemory(s.mem)
  BY DEF Progress
<1>2. PICK t : t = Unmap(s, pages)
  OBVIOUS
<1>3. /\ IsCall(t) /\ t.kernel = s.kernel
      /\ t.mem = [p \in Pages |-> IF p \in pages THEN Absent ELSE s.mem[p]]
      /\ t.did = [s.did EXCEPT !.unmaps = pages]
  BY <1>1, <1>2, FieldsOf DEF IsCall, Unmap, Clean
<1>4. IsDid(t.did) /\ t.did.writes = <<>> /\ t.did.maps = {} /\ t.did.unmaps = pages
  BY <1>1, <1>3 DEF IsDid, Clean
<1>5. t.mem = Stored(Regions(m, t.did), t.did.writes)
  <2>1. Regions(m, t.did) = [p \in Pages |-> IF p \in pages THEN Absent ELSE s.mem[p]]
    BY <1>4 DEF Regions, Clean
  <2> QED BY <1>3, <1>4, <2>1, StoredNone
<1>6. HeapThere(t.mem, t.kernel, own \cup t.did.unmaps)
  <2>1. \A p \in Pages : p \notin pages => t.mem[p] = s.mem[p]
    BY <1>3
  <2>2. s.did.unmaps = {}
    BY DEF Clean
  <2>3. \A p \in Span(BrkBase, t.kernel.brkMapped - BrkBase) : p \in Pages
    BY <1>3, SpansArePages DEF Progress
  <2> QED BY <1>3, <1>4, <2>1, <2>2, <2>3 DEF Progress, HeapThere
<1>7. Progress(t, m, own)
  BY <1>3, <1>4, <1>5, <1>6 DEF Progress, IsMemory
<1> QED
  BY <1>2, <1>3, <1>7

----------------------------------------------------------------------------
(* The calls: each, from a clean start, comes to what Progress says. *)

\* What changes the layer, but not how far the heap has been mapped.
LEMMA KernelChanges ==
  ASSUME NEW s, NEW m, NEW own, Progress(s, m, own),
         NEW t, IsCall(t), t.mem = s.mem, t.did = s.did,
         IsKernel(t.kernel), t.kernel.brkMapped = s.kernel.brkMapped
  PROVE  Progress(t, m, own) /\ (Clean(s, m) => Clean(t, m))
BY DEF Progress, Clean, HeapThere

\* A descriptor's offset.
LEMMA OffsetMoves ==
  ASSUME NEW k, IsKernel(k), NEW fd \in DOMAIN k.files, NEW o \in Nat
  PROVE  LET j == [k EXCEPT !.files[fd].offset = o] IN
         IsKernel(j) /\ j.brkMapped = k.brkMapped
<1> DEFINE j == [k EXCEPT !.files[fd].offset = o]
           files == [n \in DOMAIN k.files |->
                       [name |-> k.files[n].name, offset |-> IF n = fd THEN o ELSE k.files[n].offset]]
<1>1. k = [files |-> [n \in DOMAIN k.files |->
                        [name |-> k.files[n].name, offset |-> k.files[n].offset]],
           next |-> k.next, brk |-> k.brk, brkMapped |-> k.brkMapped, mmapNext |-> k.mmapNext]
  BY DEF IsKernel, Restore
<1>2. [k.files[fd] EXCEPT !.offset = o] = [name |-> k.files[fd].name, offset |-> o]
  <2>1. k.files = [n \in DOMAIN k.files |-> [name |-> k.files[n].name, offset |-> k.files[n].offset]]
    BY <1>1
  <2>2. k.files[fd] = [name |-> k.files[fd].name, offset |-> k.files[fd].offset]
    BY <2>1
  <2> QED BY <2>2
<1>3. [k.files EXCEPT ![fd] = [name |-> k.files[fd].name, offset |-> o]] = files
  <2>1. k.files = [n \in DOMAIN k.files |-> [name |-> k.files[n].name, offset |-> k.files[n].offset]]
    BY <1>1
  <2>2. \A n \in DOMAIN k.files : k.files[n] = [name |-> k.files[n].name, offset |-> k.files[n].offset]
    BY <2>1
  <2>3. \A n \in DOMAIN k.files : [k.files EXCEPT ![fd] = [name |-> k.files[fd].name, offset |-> o]][n] = files[n]
    BY <2>2
  <2> QED BY <2>3
<1>4. j = [k EXCEPT !.files = [k.files EXCEPT ![fd] = [k.files[fd] EXCEPT !.offset = o]]]
  OBVIOUS
<1>5. j = [k EXCEPT !.files = files]
  BY <1>2, <1>3, <1>4
<1> HIDE DEF j
<1>6. j = [files |-> files, next |-> k.next, brk |-> k.brk, brkMapped |-> k.brkMapped,
           mmapNext |-> k.mmapNext]
  <2> HIDE DEF files
  <2> QED BY <1>1, <1>5
<1>7. /\ j.files = files /\ j.next = k.next /\ j.brk = k.brk /\ j.brkMapped = k.brkMapped
      /\ j.mmapNext = k.mmapNext
  BY <1>6
<1>8. DOMAIN files = DOMAIN k.files
      /\ \A n \in DOMAIN files : files[n].name = k.files[n].name
                                 /\ files[n].offset = IF n = fd THEN o ELSE k.files[n].offset
  OBVIOUS
<1>9. files = [n \in DOMAIN files |-> [name |-> files[n].name, offset |-> files[n].offset]]
  OBVIOUS
<1> HIDE DEF files
<1>10. j = Restore(j, j)
  BY <1>6, <1>7, <1>9 DEF Restore
<1> QED
  BY <1>7, <1>8, <1>10 DEF IsKernel, j

LEMMA DataIs ==
  ASSUME NEW k, IsKernel(k), NEW fd \in DOMAIN k.files
  PROVE  Data(k.files[fd].name) \in Seq(Bytes)
<1>1. <<>> \in Seq(Bytes)
  OBVIOUS
<1> QED
  BY <1>1, ArgumentsAssumption DEF IsKernel, Data

LEMMA SomeDataIs ==
  ASSUME NEW text \in Seq(Bytes), NEW from \in Nat, NEW to \in Int, to <= Len(text)
  PROVE  SubSeq(text, from + 1, to) # Absent /\ Len(SubSeq(text, from + 1, to)) \in Nat
<1>1. SubSeq(text, from + 1, to) \in Seq(Bytes)
  BY SubSeqProperties
<1> QED
  BY <1>1, ArgumentsAssumption, LenProperties

LEMMA ReadProgress ==
  ASSUME NEW s, NEW m, NEW own, Progress(s, m, own), Clean(s, m),
         NEW fd \in Int, NEW buf, NEW n \in Nat
  PROVE  Progress(SysRead(s, fd, buf, n), m, own)
<1>1. IsCall(s) /\ IsKernel(s.kernel)
  BY DEF Progress
<1>2. CASE ~IsOpen(s, fd) \/ Writable(File(s, fd))
  BY <1>1, <1>2, FailIs DEF SysRead
<1>3. CASE ~ (~IsOpen(s, fd) \/ Writable(File(s, fd)))
  <2> DEFINE f == File(s, fd)
             data == SubSeq(Data(f.name), f.offset + 1, Least(f.offset + n, Len(Data(f.name))))
             moved == [s EXCEPT !.kernel.files[fd].offset = @ + Len(data)]
  <2>1. SysRead(s, fd, buf, n) = Answer(WriteMem(moved, buf, data), Len(data))
    BY <1>3 DEF SysRead
  <2>2. fd \in DOMAIN s.kernel.files /\ f = s.kernel.files[fd]
    BY <1>3 DEF IsOpen, File
  <2>3. f.offset \in Nat /\ Data(f.name) \in Seq(Bytes)
    BY <1>1, <2>2, DataIs DEF IsKernel
  <2>4. data # Absent /\ Len(data) \in Nat
    <3>1. PICK text \in Seq(Bytes) : text = Data(f.name)
      BY <2>3
    <3>2. Len(text) \in Nat
      OBVIOUS
    <3>3. Least(f.offset + n, Len(text)) \in Int /\ Least(f.offset + n, Len(text)) <= Len(text)
      BY <2>3, <3>2 DEF Least
    <3> QED BY <2>3, <3>1, <3>3, SomeDataIs
  <2> HIDE DEF data, f
  <2>5. moved = [s EXCEPT !.kernel.files[fd].offset = f.offset + Len(data)]
    BY <2>2
  <2> HIDE DEF moved
  <2>6. /\ IsCall(moved) /\ moved.mem = s.mem /\ moved.did = s.did
        /\ moved.kernel = [s.kernel EXCEPT !.files[fd].offset = f.offset + Len(data)]
    BY <1>1, <2>5, FieldsOf DEF IsCall
  <2>7. IsKernel(moved.kernel) /\ moved.kernel.brkMapped = s.kernel.brkMapped
    <3>1. PICK k : k = s.kernel
      OBVIOUS
    <3>2. PICK o \in Nat : o = f.offset + Len(data)
      BY <2>3, <2>4
    <3>3. moved.kernel = [k EXCEPT !.files[fd].offset = o]
      BY <2>6, <3>1, <3>2
    <3>4. IsKernel(k) /\ fd \in DOMAIN k.files
      BY <1>1, <2>2, <3>1
    <3>5. IsKernel([k EXCEPT !.files[fd].offset = o])
          /\ [k EXCEPT !.files[fd].offset = o].brkMapped = k.brkMapped
      BY <3>2, <3>4, OffsetMoves
    <3> QED BY <3>1, <3>3, <3>5
  <2>8. Progress(moved, m, own) /\ Clean(moved, m)
    BY <2>6, <2>7, KernelChanges
  <2>9. Progress(WriteMem(moved, buf, data), m, own)
    BY <2>4, <2>8, WriteMemIs DEF Clean
  <2>10. PICK t : t = WriteMem(moved, buf, data) /\ IsCall(t) /\ Progress(t, m, own)
    BY <2>9 DEF Progress
  <2>11. Progress(Answer(t, Len(data)), m, own)
    BY <2>10, AnswerIs
  <2> QED BY <2>1, <2>10, <2>11
<1> QED
  BY <1>2, <1>3

\* What goes out changes neither memory nor the layer.
LEMMA EmitIs ==
  ASSUME NEW s, NEW m, NEW own, Progress(s, m, own), NEW at, NEW n
  PROVE  Progress(Emit(s, at, n), m, own)
<1>1. IsCall(s) /\ IsDid(s.did)
  BY DEF Progress
<1>2. CASE n = 0
  BY <1>2 DEF Emit
<1>3. CASE n # 0 /\ ~Mapped(s, {Page(at)})
  BY <1>1, <1>3, FailIs DEF Emit
<1>4. CASE n # 0 /\ Mapped(s, {Page(at)})
  <2>1. PICK t : t = Emit(s, at, n)
    OBVIOUS
  <2>2. PICK out : t = [s EXCEPT !.did.output = out]
    BY <1>4, <2>1 DEF Emit
  <2>3. IsCall(t) /\ t.mem = s.mem /\ t.kernel = s.kernel /\ t.did = [s.did EXCEPT !.output = out]
    BY <1>1, <2>2, FieldsOf DEF IsCall
  <2>4. /\ IsDid(t.did) /\ t.did.writes = s.did.writes /\ t.did.maps = s.did.maps
        /\ t.did.unmaps = s.did.unmaps
    BY <1>1, <2>3 DEF IsDid
  <2>5. Regions(m, t.did) = Regions(m, s.did)
    BY <2>4 DEF Regions
  <2> QED BY <2>1, <2>3, <2>4, <2>5 DEF Progress
<1> QED
  BY <1>2, <1>3, <1>4

LEMMA WriteProgress ==
  ASSUME NEW s, NEW m, NEW own, Progress(s, m, own), NEW fd, NEW buf, NEW n
  PROVE  Progress(SysWrite(s, fd, buf, n), m, own)
<1>1. Progress(Fail(s, "EBADF"), m, own)
  BY FailIs DEF Progress
<1>2. Progress(Emit(s, buf, n), m, own)
  BY EmitIs
<1>3. Progress(Answer(Emit(s, buf, n), n), m, own)
  BY <1>2, AnswerIs DEF Progress
<1>4. SysWrite(s, fd, buf, n) \in {Fail(s, "EBADF"), Answer(Emit(s, buf, n), n)}
  BY DEF SysWrite
<1> QED
  BY <1>1, <1>3, <1>4

Written(t, b) == IF t.error # "" THEN t
                 ELSE IF b = Unreadable THEN Fail(t, "EFAULT")
                 ELSE Answer(Emit(t, b.base, b.length), t.ret + b.length)

Writing(f, s, iov) ==
  f = [i \in 0..Len(iov) |-> IF i = 0 THEN s ELSE Written(f[i - 1], iov[i])]

\* The first n blocks can be written.
Writes(f, s, iov, n) ==
  \A i \in 0..n : f[i] = IF i = 0 THEN s ELSE Written(f[i - 1], iov[i])

LEMMA WritingExists ==
  ASSUME NEW s, NEW iov, Len(iov) \in Nat
  PROVE  \E f : Writing(f, s, iov)
<1> DEFINE N == Len(iov)
           Good == {n \in 0..N : \E f : Writes(f, s, iov, n)}
<1> HIDE DEF N
<1>0. N \in Nat
  BY DEF N
<1>1. 0 \in Good
  <2>1. Writes([i \in {0} |-> s], s, iov, 0)
    BY DEF Writes
  <2> QED BY <1>0, <2>1
<1>2. ASSUME NEW n \in 0..(N - 1), n \in Good PROVE n + 1 \in Good
  <2>1. PICK f : Writes(f, s, iov, n)
    BY <1>2
  <2> DEFINE g == [i \in 0..(n + 1) |-> IF i = n + 1 THEN Written(f[n], iov[n + 1]) ELSE f[i]]
  <2>2. n \in Nat /\ n + 1 \in 0..N /\ (n + 1) - 1 = n /\ n + 1 # 0
    BY <1>0
  <2>3. g[n + 1] = Written(f[n], iov[n + 1]) /\ \A i \in 0..n : g[i] = f[i]
    BY <2>2
  <2> HIDE DEF g
  <2>4. ASSUME NEW i \in 0..(n + 1)
        PROVE  g[i] = IF i = 0 THEN s ELSE Written(g[i - 1], iov[i])
    <3>1. CASE i = n + 1
      <4>1. n \in 0..n /\ i - 1 = n /\ i # 0
        BY <2>2, <3>1
      <4> QED BY <2>3, <3>1, <4>1
    <3>2. CASE i # n + 1
      <4>1. i \in 0..n /\ (i # 0 => i - 1 \in 0..n)
        BY <2>2, <3>2
      <4> QED BY <2>1, <2>3, <4>1 DEF Writes
    <3> QED BY <3>1, <3>2
  <2>5. Writes(g, s, iov, n + 1)
    BY <2>4 DEF Writes
  <2> QED BY <2>2, <2>5
<1>3. N \in Good
  <2> HIDE DEF Good
  <2> QED BY <1>0, <1>1, <1>2, UpwardFrom
<1>4. PICK f : Writes(f, s, iov, N)
  BY <1>3
<1> DEFINE g == [i \in 0..N |-> f[i]]
<1>5. \A i \in 0..N : g[i] = f[i] /\ (i # 0 => i - 1 \in 0..N)
  BY <1>0
<1>6. g = [i \in 0..N |-> IF i = 0 THEN s ELSE Written(g[i - 1], iov[i])]
  <2>1. g = [i \in 0..N |-> g[i]]
    OBVIOUS
  <2> HIDE DEF g
  <2>2. \A i \in 0..N : g[i] = IF i = 0 THEN s ELSE Written(g[i - 1], iov[i])
    BY <1>4, <1>5 DEF Writes
  <2> QED BY <2>1, <2>2
<1> QED
  BY <1>6 DEF Writing, N

LEMMA WritevProgress ==
  ASSUME NEW s, NEW m, NEW own, Progress(s, m, own), NEW fd, NEW iov, Len(iov) \in Nat
  PROVE  Progress(SysWritev(s, fd, iov), m, own)
<1>1. Progress(Fail(s, "EBADF"), m, own)
  BY FailIs DEF Progress
<1>2. CASE ~ (~IsOpen(s, fd) \/ ~Writable(File(s, fd)))
  <2>1. SysWritev(s, fd, iov) = (CHOOSE f : Writing(f, s, iov))[Len(iov)]
    BY <1>2 DEF SysWritev, Writing, Written
  <2>2. PICK f : f = (CHOOSE g : Writing(g, s, iov)) /\ Writing(f, s, iov)
    BY WritingExists
  <2> DEFINE N == Len(iov)
             Good == {n \in 0..N : Progress(f[n], m, own)}
  <2>3. \A i \in 0..N : f[i] = IF i = 0 THEN s ELSE Written(f[i - 1], iov[i])
    BY <2>2 DEF Writing
  <2> HIDE DEF N
  <2>4. N \in Nat
    BY DEF N
  <2>5. 0 \in Good
    BY <2>3, <2>4
  <2>6. ASSUME NEW n \in 0..(N - 1), n \in Good PROVE n + 1 \in Good
    <3>1. n + 1 \in 0..N /\ n + 1 # 0 /\ (n + 1) - 1 = n
      BY <2>4
    <3>2. f[n + 1] = Written(f[n], iov[n + 1])
      BY <2>3, <3>1
    <3>3. PICK t : t = f[n] /\ Progress(t, m, own) /\ IsCall(t)
      BY <2>6 DEF Progress
    <3>4. PICK b : b = iov[n + 1]
      OBVIOUS
    <3>5. Progress(Fail(t, "EFAULT"), m, own)
      BY <3>3, FailIs
    <3>6. PICK u : u = Emit(t, b.base, b.length) /\ Progress(u, m, own) /\ IsCall(u)
      BY <3>3, EmitIs DEF Progress
    <3>7. Progress(Answer(u, t.ret + b.length), m, own)
      BY <3>6, AnswerIs
    <3>8. Progress(Written(t, b), m, own)
      BY <3>3, <3>5, <3>6, <3>7 DEF Written
    <3> QED BY <3>1, <3>2, <3>3, <3>4, <3>8
  <2>7. N \in Good
    <3> HIDE DEF Good
    <3> QED BY <2>4, <2>5, <2>6, UpwardFrom
  <2> QED BY <2>1, <2>2, <2>7 DEF N
<1> QED
  BY <1>1, <1>2 DEF SysWritev

\* A new descriptor: its number is above all others.
LEMMA OpenProgress ==
  ASSUME NEW s, NEW m, NEW own, Progress(s, m, own), NEW path
  PROVE  Progress(SysOpen(s, path), m, own)
<1>0. IsCall(s) /\ IsKernel(s.kernel)
  BY DEF Progress
<1>1. Progress(Fail(s, "EFAULT"), m, own) /\ Progress(Fail(s, "ENOENT"), m, own)
  BY <1>0, FailIs
<1>2. CASE path # Unreadable /\ path \in DOMAIN Contents
  <2>1. PICK k : k = s.kernel /\ IsKernel(k)
    BY <1>0
  <2>2. PICK fd \in Int : fd = k.next
    BY <2>1 DEF IsKernel
  <2>3. k = [files |-> k.files, next |-> k.next, brk |-> k.brk, brkMapped |-> k.brkMapped,
             mmapNext |-> k.mmapNext]
        /\ k.files = [n \in DOMAIN k.files |->
                        [name |-> k.files[n].name, offset |-> k.files[n].offset]]
    BY <2>1 DEF IsKernel, Restore
  <2>4. PICK files : files = [n \in DOMAIN k.files \cup {fd} |->
                        IF n = fd THEN [name |-> path, offset |-> 0] ELSE k.files[n]]
    OBVIOUS
  <2>5. PICK t : t = [s EXCEPT !.kernel.next = fd + 1, !.kernel.files = files]
    OBVIOUS
  <2>6. /\ IsCall(t) /\ t.mem = s.mem /\ t.did = s.did
        /\ t.kernel = [files |-> files, next |-> fd + 1, brk |-> k.brk,
                       brkMapped |-> k.brkMapped, mmapNext |-> k.mmapNext]
    <3>1. /\ IsCall(t) /\ t.mem = s.mem /\ t.did = s.did
          /\ t.kernel = [[k EXCEPT !.next = fd + 1] EXCEPT !.files = files]
      BY <1>0, <2>1, <2>5, FieldsOf DEF IsCall
    <3> QED BY <2>3, <3>1
  <2>7. SysOpen(s, path) = Answer(t, fd)
    BY <1>2, <2>1, <2>2, <2>4, <2>5 DEF SysOpen
  <2>8. /\ DOMAIN files = DOMAIN k.files \cup {fd}
        /\ \A n \in DOMAIN files :
             files[n] = IF n = fd THEN [name |-> path, offset |-> 0] ELSE k.files[n]
    BY <2>4
  <2>9. files = [n \in DOMAIN files |-> [name |-> files[n].name, offset |-> files[n].offset]]
    <3>1. files = [n \in DOMAIN files |-> files[n]]
      BY <2>4
    <3>2. \A n \in DOMAIN files : files[n] = [name |-> files[n].name, offset |-> files[n].offset]
      BY <2>3, <2>8
    <3> QED BY <3>1, <3>2
  <2>10. IsKernel(t.kernel)
    <3>1. PICK j : j = t.kernel
      OBVIOUS
    <3>2. /\ j.files = files /\ j.next = fd + 1 /\ j.brk = k.brk /\ j.brkMapped = k.brkMapped
          /\ j.mmapNext = k.mmapNext /\ j = Restore(j, j)
      BY <2>6, <2>9, <3>1 DEF Restore
    <3>3. \A n \in DOMAIN files :
            /\ files[n].offset \in Nat /\ n \in Int /\ n < fd + 1
            /\ files[n].name \in {"<stdin>", "<stdout>"} \cup DOMAIN Contents
      BY <1>2, <2>1, <2>2, <2>8 DEF IsKernel
    <3> QED BY <2>1, <2>2, <3>1, <3>2, <3>3 DEF IsKernel
  <2>11. Progress(t, m, own)
    BY <2>1, <2>6, <2>10, KernelChanges
  <2> QED BY <2>6, <2>7, <2>11, AnswerIs
<1> QED
  BY <1>1, <1>2 DEF SysOpen

\* One descriptor less.
LEMMA CloseProgress ==
  ASSUME NEW s, NEW m, NEW own, Progress(s, m, own), NEW fd
  PROVE  Progress(SysClose(s, fd), m, own)
<1>0. IsCall(s) /\ IsKernel(s.kernel)
  BY DEF Progress
<1>1. Progress(Fail(s, "EBADF"), m, own)
  BY <1>0, FailIs
<1>2. PICK k : k = s.kernel /\ IsKernel(k)
  BY <1>0
<1>3. PICK files : files = [n \in DOMAIN k.files \ {fd} |-> k.files[n]]
  OBVIOUS
<1>4. PICK t : t = [s EXCEPT !.kernel.files = files]
  OBVIOUS
<1>5. k = [files |-> k.files, next |-> k.next, brk |-> k.brk, brkMapped |-> k.brkMapped,
           mmapNext |-> k.mmapNext]
      /\ k.files = [n \in DOMAIN k.files |->
                      [name |-> k.files[n].name, offset |-> k.files[n].offset]]
  BY <1>2 DEF IsKernel, Restore
<1>6. /\ IsCall(t) /\ t.mem = s.mem /\ t.did = s.did
      /\ t.kernel = [files |-> files, next |-> k.next, brk |-> k.brk,
                     brkMapped |-> k.brkMapped, mmapNext |-> k.mmapNext]
  <2>1. /\ IsCall(t) /\ t.mem = s.mem /\ t.did = s.did /\ t.kernel = [k EXCEPT !.files = files]
    BY <1>0, <1>2, <1>4, FieldsOf DEF IsCall
  <2> QED BY <1>5, <2>1
<1>7. DOMAIN files = DOMAIN k.files \ {fd} /\ \A n \in DOMAIN files : files[n] = k.files[n]
  BY <1>3
<1>8. files = [n \in DOMAIN files |-> [name |-> files[n].name, offset |-> files[n].offset]]
  <2>1. files = [n \in DOMAIN files |-> files[n]]
    BY <1>3
  <2>2. \A n \in DOMAIN files : files[n] = [name |-> files[n].name, offset |-> files[n].offset]
    BY <1>5, <1>7
  <2> QED BY <2>1, <2>2
<1>9. IsKernel(t.kernel)
  <2>1. PICK j : j = t.kernel
    OBVIOUS
  <2>2. /\ j.files = files /\ j.next = k.next /\ j.brk = k.brk /\ j.brkMapped = k.brkMapped
        /\ j.mmapNext = k.mmapNext /\ j = Restore(j, j)
    BY <1>6, <1>8, <2>1 DEF Restore
  <2> QED BY <1>2, <1>7, <2>1, <2>2 DEF IsKernel
<1>10. Progress(t, m, own)
  BY <1>2, <1>6, <1>9, KernelChanges
<1> QED
  BY <1>1, <1>2, <1>3, <1>4, <1>10 DEF SysClose

LEMMA LseekProgress ==
  ASSUME NEW s, NEW m, NEW own, Progress(s, m, own), NEW fd, NEW offset \in Int, NEW whence
  PROVE  Progress(SysLseek(s, fd, offset, whence), m, own)
<1>0. IsCall(s) /\ IsKernel(s.kernel)
  BY DEF Progress
<1>1. /\ Progress(Fail(s, "EBADF"), m, own) /\ Progress(Fail(s, "ESPIPE"), m, own)
      /\ Progress(Fail(s, "EINVAL"), m, own)
  BY <1>0, FailIs
<1>2. CASE IsOpen(s, fd) /\ ~ Writable(File(s, fd))
  <2> DEFINE from == CASE whence = "SET" -> 0 [] whence = "CUR" -> File(s, fd).offset
                       [] whence = "END" -> Len(Data(File(s, fd).name)) [] OTHER -> 0
             o == from + offset
  <2>1. fd \in DOMAIN s.kernel.files /\ File(s, fd) = s.kernel.files[fd]
    BY <1>2 DEF IsOpen, File
  <2>2. File(s, fd).offset \in Nat /\ Len(Data(File(s, fd).name)) \in Nat
    BY <1>0, <2>1, DataIs, LenProperties DEF IsKernel
  <2>3. from \in Int
    BY <2>2
  <2>4. SysLseek(s, fd, offset, whence) =
          IF whence \notin {"SET", "CUR", "END"} \/ o < 0 THEN Fail(s, "EINVAL")
          ELSE Answer([s EXCEPT !.kernel.files[fd].offset = o], o)
    BY <1>2 DEF SysLseek
  <2> HIDE DEF from
  <2>5. CASE o < 0 \/ whence \notin {"SET", "CUR", "END"}
    BY <1>1, <2>4, <2>5
  <2>6. CASE ~ (o < 0 \/ whence \notin {"SET", "CUR", "END"})
    <3>1. PICK n \in Nat : n = o
      BY <2>3, <2>6
    <3>2. PICK t : t = [s EXCEPT !.kernel.files[fd].offset = n]
      OBVIOUS
    <3>3. PICK k : k = s.kernel /\ IsKernel(k) /\ fd \in DOMAIN k.files
      BY <1>0, <2>1
    <3>4. IsCall(t) /\ t.mem = s.mem /\ t.did = s.did /\ t.kernel = [k EXCEPT !.files[fd].offset = n]
      BY <1>0, <3>2, <3>3, FieldsOf DEF IsCall
    <3>5. IsKernel([k EXCEPT !.files[fd].offset = n])
          /\ [k EXCEPT !.files[fd].offset = n].brkMapped = k.brkMapped
      BY <3>3, OffsetMoves
    <3>6. Progress(t, m, own)
      BY <3>3, <3>4, <3>5, KernelChanges
    <3>7. Progress(Answer(t, n), m, own)
      BY <3>4, <3>6, AnswerIs
    <3>8. SysLseek(s, fd, offset, whence) = Answer(t, n)
      BY <2>4, <2>6, <3>1, <3>2
    <3> QED BY <3>7, <3>8
  <2> QED BY <2>5, <2>6
<1> QED
  BY <1>1, <1>2 DEF SysLseek

\* Pages that come, with a file in them or not, or the mapping without the file.
LEMMA MapFileProgress ==
  ASSUME NEW s, NEW m, NEW own, Progress(s, m, own), Clean(s, m),
         NEW start, NEW size, NEW fd
  PROVE  Progress(MapFile(s, start, size, fd), m, own)
<1>0. IsCall(s)
  BY DEF Progress
<1>1. Progress(Fail(s, "ENOMEM"), m, own)
  BY <1>0, FailIs
<1>2. CASE CanMap(s, Span(start, size))
  <2>0. PICK pages : pages = Span(start, size) /\ CanMap(s, pages)
    BY <1>2
  <2>1. PICK t : t = Map(s, Span(start, size)) /\ IsCall(t) /\ Progress(t, m, own)
                 /\ t.did.writes = <<>>
    <3>1. Progress(Map(s, pages), m, own) /\ Map(s, pages).did.writes = <<>>
      BY <2>0, MapIs
    <3> QED BY <2>0, <3>1 DEF Progress
  <2>2. Progress(Answer(t, start), m, own) /\ Progress(Fail(t, "EBADF"), m, own)
    BY <2>1, AnswerIs, FailIs
  <2>3. CASE ~ (fd < 0) /\ IsOpen(t, fd)
    <3>1. PICK data : data = Data(File(t, fd).name)
      OBVIOUS
    <3>2. data \in Seq(Bytes)
      BY <2>1, <2>3, <3>1, DataIs DEF Progress, IsOpen, File
    <3>3. data # Absent
      BY <3>2, ArgumentsAssumption
    <3>4. PICK u : u = WriteMem(t, start, data) /\ Progress(u, m, own) /\ IsCall(u)
      BY <2>1, <3>3, WriteMemIs DEF Progress
    <3>5. Progress(Answer(u, start), m, own)
      BY <3>4, AnswerIs
    <3>6. MapFile(s, start, size, fd) = Answer(u, start)
      BY <1>2, <2>1, <2>3, <3>1, <3>4 DEF MapFile
    <3> QED BY <3>5, <3>6
  <2> QED BY <1>2, <2>1, <2>2, <2>3 DEF MapFile
<1> QED
  BY <1>1, <1>2 DEF MapFile

\* What the arena hands out is below its end.
LEMMA MmapProgress ==
  ASSUME NEW s, NEW m, NEW own, Progress(s, m, own), Clean(s, m),
         NEW addr, NEW length \in Nat, NEW fd
  PROVE  Progress(SysMmap(s, addr, length, fd), m, own)
<1>0. IsCall(s) /\ IsKernel(s.kernel)
  BY DEF Progress
<1>1. Progress(Fail(s, "EINVAL"), m, own) /\ Progress(Fail(s, "ENOMEM"), m, own)
  BY <1>0, FailIs
<1>2. CASE addr # 0
  <2>1. Progress(Answer(s, Down(addr)), m, own)
    BY <1>0, AnswerIs
  <2>2. Progress(MapFile(s, Down(addr), Up(length), fd), m, own)
    BY MapFileProgress
  <2> QED BY <1>1, <1>2, <2>1, <2>2 DEF SysMmap
<1>3. CASE addr = 0
  <2>1. PICK k : k = s.kernel /\ IsKernel(k)
    BY <1>0
  <2>2. PICK size : size = Up(length) /\ size \in Int
    <3>1. PAGE \in Nat \ {0}
      BY LayoutAssumption
    <3>2. ((length + PAGE - 1) \div PAGE) \in Int
      BY <3>1
    <3> QED BY <3>1, <3>2 DEF Up
  <2>3. PICK start \in Int : start = k.mmapNext
    BY <2>1 DEF IsKernel
  <2>4. CASE ~ (start + size > ArenaBase + ArenaSize)
    <3>1. PICK t : t = [s EXCEPT !.kernel.mmapNext = start + size]
      OBVIOUS
    <3>2. /\ IsCall(t) /\ t.mem = s.mem /\ t.did = s.did
          /\ t.kernel = [k EXCEPT !.mmapNext = start + size]
      BY <1>0, <2>1, <3>1, FieldsOf DEF IsCall
    <3>3. k = [files |-> k.files, next |-> k.next, brk |-> k.brk, brkMapped |-> k.brkMapped,
               mmapNext |-> k.mmapNext]
          /\ k.files = [n \in DOMAIN k.files |->
                          [name |-> k.files[n].name, offset |-> k.files[n].offset]]
      BY <2>1 DEF IsKernel, Restore
    <3>4. PICK j : j = t.kernel
      OBVIOUS
    <3>5. /\ j.files = k.files /\ j.next = k.next /\ j.brk = k.brk /\ j.brkMapped = k.brkMapped
          /\ j.mmapNext = start + size
          /\ j = [files |-> k.files, next |-> k.next, brk |-> k.brk, brkMapped |-> k.brkMapped,
                  mmapNext |-> start + size]
      BY <3>2, <3>3, <3>4
    <3>6. j = Restore(j, j)
      BY <3>3, <3>5 DEF Restore
    <3>7. start + size \in Int /\ start + size <= ArenaBase + ArenaSize
      BY <2>2, <2>4, LayoutAssumption
    <3>8. IsKernel(j)
      BY <2>1, <3>5, <3>6, <3>7 DEF IsKernel
    <3>9. Progress(t, m, own) /\ Clean(t, m)
      BY <2>1, <3>2, <3>4, <3>5, <3>8, KernelChanges
    <3>10. Progress(MapFile(t, start, size, fd), m, own)
      BY <3>9, MapFileProgress
    <3> QED BY <1>1, <1>3, <2>1, <2>2, <2>3, <2>4, <3>1, <3>10 DEF SysMmap
  <2> QED BY <1>1, <1>3, <2>1, <2>2, <2>3, <2>4 DEF SysMmap
<1> QED
  BY <1>2, <1>3

LEMMA OldMmapProgress ==
  ASSUME NEW s, NEW m, NEW own, Progress(s, m, own), Clean(s, m), NEW block \in Blocks
  PROVE  Progress(SysOldMmap(s, block), m, own)
<1>1. Progress(Fail(s, "EFAULT"), m, own)
  BY FailIs DEF Progress
<1>2. CASE block # Unreadable
  <2>1. block.length \in Nat
    BY <1>2, ArgumentsAssumption
  <2>2. Progress(SysMmap(s, block.addr, block.length, block.fd), m, own)
    BY <2>1, MmapProgress
  <2> QED BY <1>2, <2>2 DEF SysOldMmap
<1> QED
  BY <1>1, <1>2 DEF SysOldMmap

LEMMA MunmapProgress ==
  ASSUME NEW s, NEW m, NEW own, Progress(s, m, own), Clean(s, m), NEW addr, NEW length
  PROVE  Progress(SysMunmap(s, addr, length), m, own)
<1>1. Progress(Fail(s, "EINVAL"), m, own)
  BY FailIs DEF Progress
<1>2. \A pages : Mapped(s, pages) => Progress(Unmap(s, pages), m, own)
  BY UnmapIs
<1> QED
  BY <1>1, <1>2 DEF SysMunmap

\* The break moves over pages that are there, or that it has just been given.
LEMMA BrkProgress ==
  ASSUME NEW s, NEW m, NEW own, Progress(s, m, own), Clean(s, m), NEW want \in Nat
  PROVE  Progress(SysBrk(s, want), m, own)
<1>0. IsCall(s) /\ IsKernel(s.kernel)
  BY DEF Progress
<1>1. PICK k : k = s.kernel /\ IsKernel(k)
  BY <1>0
<1>2. Progress(Answer(s, k.brk), m, own)
  BY <1>0, AnswerIs
<1>3. SUFFICES ASSUME BrkBase <= want, want <= BrkBase + BrkSize
               PROVE  Progress(SysBrk(s, want), m, own)
  BY <1>1, <1>2, LayoutAssumption DEF SysBrk
<1>4. /\ {BrkBase, BrkSize} \subseteq Nat
      /\ BrkBase % PAGE = 0 /\ BrkSize % PAGE = 0 /\ PAGE \in Nat \ {0}
  BY LayoutAssumption
<1>5. PICK up \in Int : up = Up(want) /\ want <= up /\ up <= BrkBase + BrkSize
  <2>1. BrkBase + BrkSize \in Nat /\ (BrkBase + BrkSize) % PAGE = 0
    <3>0. /\ BrkBase = Page(BrkBase) * PAGE /\ Page(BrkBase) \in Int
          /\ BrkSize = Page(BrkSize) * PAGE /\ Page(BrkSize) \in Int
      BY <1>4, PageBegins, PageIs
    <3>1. PICK p \in Int : BrkBase = p * PAGE
      BY <3>0
    <3>2. PICK q \in Int : BrkSize = q * PAGE
      BY <3>0
    <3>3. BrkBase + BrkSize = (p + q) * PAGE
      BY <1>4, <3>1, <3>2
    <3>4. PICK n \in Int : n = p + q
      BY <3>1, <3>2
    <3>5. (n * PAGE) % PAGE = 0
      BY <1>4, <3>4, MultipleIs
    <3> QED BY <1>4, <3>3, <3>4, <3>5
  <2> QED BY <1>3, <1>4, <2>1, UpIs
<1>6. k = [files |-> k.files, next |-> k.next, brk |-> k.brk, brkMapped |-> k.brkMapped,
           mmapNext |-> k.mmapNext]
      /\ k.files = [n \in DOMAIN k.files |->
                      [name |-> k.files[n].name, offset |-> k.files[n].offset]]
  BY <1>1 DEF IsKernel, Restore
<1>7. CASE up <= k.brkMapped
  <2>1. PICK t : t = [s EXCEPT !.kernel.brk = want]
    OBVIOUS
  <2>2. IsCall(t) /\ t.mem = s.mem /\ t.did = s.did /\ t.kernel = [k EXCEPT !.brk = want]
    BY <1>0, <1>1, <2>1, FieldsOf DEF IsCall
  <2>3. PICK j : j = t.kernel
    OBVIOUS
  <2>4. /\ j.files = k.files /\ j.next = k.next /\ j.brk = want /\ j.brkMapped = k.brkMapped
        /\ j.mmapNext = k.mmapNext
        /\ j = [files |-> k.files, next |-> k.next, brk |-> want, brkMapped |-> k.brkMapped,
                mmapNext |-> k.mmapNext]
    BY <1>6, <2>2, <2>3
  <2>5. j = Restore(j, j)
    BY <1>6, <2>4 DEF Restore
  <2>6. want <= k.brkMapped /\ want \in Int
    BY <1>1, <1>5, <1>7 DEF IsKernel
  <2>7. IsKernel(j)
    BY <1>1, <1>3, <2>4, <2>5, <2>6 DEF IsKernel
  <2>8. Progress(t, m, own)
    BY <1>1, <2>2, <2>3, <2>4, <2>7, KernelChanges
  <2>9. Progress(Answer(t, want), m, own)
    BY <2>2, <2>8, AnswerIs
  <2> QED BY <1>1, <1>3, <1>4, <1>5, <1>7, <2>1, <2>9 DEF SysBrk
<1>8. CASE ~ (up <= k.brkMapped)
  <2> DEFINE grown == Span(k.brkMapped, up - k.brkMapped)
  <2>1. CASE ~ CanMap(s, grown)
    BY <1>1, <1>2, <1>3, <1>4, <1>5, <1>8, <2>1 DEF SysBrk
  <2>2. CASE CanMap(s, grown)
    <3>1. PICK g : g = grown /\ CanMap(s, g)
      BY <2>2
    <3>2. PICK t : /\ t = Map(s, g) /\ IsCall(t) /\ Progress(t, m, own) /\ t.kernel = k
                   /\ t.did.unmaps = {} /\ \A p \in g : t.mem[p] # Absent
      <4>1. /\ Progress(Map(s, g), m, own) /\ Map(s, g).kernel = s.kernel
            /\ Map(s, g).did.unmaps = {} /\ \A p \in g : Map(s, g).mem[p] # Absent
        BY <3>1, MapIs
      <4>2. IsCall(Map(s, g))
        BY <4>1 DEF Progress
      <4> QED BY <1>1, <4>1, <4>2
    <3>3. PICK u : u = [t EXCEPT !.kernel.brk = want, !.kernel.brkMapped = up]
      OBVIOUS
    <3>4. IsCall(u) /\ u.mem = t.mem /\ u.did = t.did
          /\ u.kernel = [[k EXCEPT !.brk = want] EXCEPT !.brkMapped = up]
      BY <3>2, <3>3, FieldsOf DEF IsCall
    <3>5. PICK j : j = u.kernel
      OBVIOUS
    <3>6. /\ j.files = k.files /\ j.next = k.next /\ j.brk = want /\ j.brkMapped = up
          /\ j.mmapNext = k.mmapNext
          /\ j = [files |-> k.files, next |-> k.next, brk |-> want, brkMapped |-> up,
                  mmapNext |-> k.mmapNext]
      BY <1>6, <3>4, <3>5
    <3>7. j = Restore(j, j)
      BY <1>6, <3>6 DEF Restore
    <3>8. IsKernel(j)
      BY <1>1, <1>3, <1>5, <3>6, <3>7 DEF IsKernel
    <3>9. HeapThere(u.mem, j, own \cup u.did.unmaps)
      <4>1. /\ BrkBase \in Int /\ k.brkMapped \in Int
            /\ BrkBase + (k.brkMapped - BrkBase) = k.brkMapped
            /\ BrkBase + (up - BrkBase) = up /\ k.brkMapped + (up - k.brkMapped) = up
        BY <1>1, <1>4, <1>5 DEF IsKernel
      <4>2. {Page(BrkBase), Page(k.brkMapped), Page(up)} \subseteq Int
        BY <1>5, <4>1, PageIs
      <4>3. \A p \in Span(BrkBase, up - BrkBase) : p \in Span(BrkBase, k.brkMapped - BrkBase) \/ p \in g
        BY <3>1, <4>1, <4>2 DEF Span
      <4>4. HeapThere(t.mem, k, own \cup t.did.unmaps)
        BY <3>2 DEF Progress
      <4> QED BY <3>2, <3>4, <3>6, <4>3, <4>4 DEF HeapThere
    <3>10. Progress(u, m, own)
      BY <3>2, <3>4, <3>5, <3>8, <3>9 DEF Progress
    <3>11. Progress(Answer(u, want), m, own)
      BY <3>4, <3>10, AnswerIs
    <3>12. SysBrk(s, want) = Answer(u, want)
      <4>1. ~ (want < BrkBase \/ want > BrkBase + BrkSize)
        BY <1>3, <1>4
      <4>2. u = [Map(s, g) EXCEPT !.kernel.brk = want, !.kernel.brkMapped = Up(want)]
        BY <1>5, <3>2, <3>3
      <4>3. g = Span(s.kernel.brkMapped, Up(want) - s.kernel.brkMapped)
            /\ ~ (Up(want) <= s.kernel.brkMapped)
        BY <1>1, <1>5, <1>8, <3>1
      <4> QED BY <3>1, <4>1, <4>2, <4>3 DEF SysBrk
    <3> QED BY <3>11, <3>12
  <2> QED BY <2>1, <2>2
<1> QED
  BY <1>5, <1>7, <1>8, <1>1 DEF IsKernel

LEMMA OtherProgress ==
  ASSUME NEW s, NEW m, NEW own, Progress(s, m, own)
  PROVE  /\ Progress(SysGetpid(s), m, own) /\ Progress(SysExit(s), m, own)
         /\ Progress(Unknown(s), m, own)
<1>0. IsCall(s)
  BY DEF Progress
<1>1. Progress(SysGetpid(s), m, own) /\ Progress(Unknown(s), m, own)
  BY <1>0, AnswerIs, FailIs DEF SysGetpid, Unknown
<1>2. PICK t : t = SysExit(s)
  OBVIOUS
<1>3. IsCall(t) /\ t.mem = s.mem /\ t.kernel = s.kernel /\ t.did = s.did
  BY <1>0, <1>2, FieldsOf DEF IsCall, SysExit
<1>4. Progress(t, m, own)
  BY <1>3 DEF Progress
<1> QED
  BY <1>1, <1>2, <1>4

----------------------------------------------------------------------------
(* The history of the calls. *)

\* What a program has unmapped before the i-th state.
Given(l, i) == UNION {l[j].did.unmaps : j \in 1..(i - 1)}

IsState(m, k, own) ==
  /\ m = [mem |-> m.mem, answer |-> m.answer] /\ IsMemory(m.mem)
  /\ IsKernel(k) /\ HeapThere(m.mem, k, own)

\* Each entry has what the layer was before the call, and replaying it on the
\* machine as it was then makes the machine that came of the call.
Entry(l, h, i) == l[i].before = h[i][2] /\ Replay(h[i][1], l[i]) = h[i + 1][1]

History(l, h) ==
  /\ IsSequence(l) /\ IsSequence(h) /\ Len(h) = Len(l) + 1
  /\ \A i \in 1..Len(h) : IsState(h[i][1], h[i][2], Given(l, i))
  /\ \A i \in 1..Len(l) : Entry(l, h, i)

\* The strengthening of the invariants of Syscalls.
IInv ==
  /\ History(log, past)
  /\ machine = past[Len(past)][1] /\ kernel = past[Len(past)][2]

\* What comes of one more call.
Follows(l, h, e, x) ==
  /\ e.before = h[Len(h)][2] /\ Replay(h[Len(h)][1], e) = x[1]
  /\ IsState(x[1], x[2], Given(l, Len(h)) \cup e.did.unmaps)

LEMMA HistoryGrows ==
  ASSUME NEW l, NEW h, History(l, h), NEW e, NEW x, Follows(l, h, e, x)
  PROVE  History(Append(l, e), Append(h, x)) /\ Append(h, x)[Len(Append(h, x))] = x
<1> DEFINE R == {l[i] : i \in DOMAIN l} \cup {e}
           P == {h[i] : i \in DOMAIN h} \cup {x}
<1>1. l \in Seq(R) /\ h \in Seq(P) /\ e \in R /\ x \in P
  BY DEF History, IsSequence
<1> HIDE DEF R, P
<1>2. /\ e.before = h[Len(h)][2] /\ Replay(h[Len(h)][1], e) = x[1]
      /\ IsState(x[1], x[2], Given(l, Len(h)) \cup e.did.unmaps)
  BY DEF Follows
<1>3. PICK l2 : /\ l2 = Append(l, e) /\ l2 \in Seq(R) /\ Len(l2) = Len(l) + 1
                /\ \A i \in 1..Len(l) : l2[i] = l[i]
                /\ l2[Len(l) + 1] = e
  BY <1>1, AppendProperties
<1>4. PICK h2 : /\ h2 = Append(h, x) /\ h2 \in Seq(P) /\ Len(h2) = Len(h) + 1
                /\ \A i \in 1..Len(h) : h2[i] = h[i]
                /\ h2[Len(h) + 1] = x
  BY <1>1, AppendProperties
<1>5. PICK n \in Nat : n = Len(l) /\ Len(h) = n + 1
  BY <1>1, LenProperties DEF History
<1>6. IsSequence(l2) /\ IsSequence(h2)
  BY <1>3, <1>4, IsSequenceIs
<1>7. ASSUME NEW i \in 1..(n + 1) PROVE Given(l2, i) = Given(l, i)
  <2>1. \A j \in 1..(i - 1) : l2[j] = l[j]
    BY <1>3, <1>5
  <2> QED BY <2>1 DEF Given
<1>8. Given(l2, n + 2) = Given(l, n + 1) \cup e.did.unmaps
  <2>1. (n + 2) - 1 = n + 1 /\ (n + 1) - 1 = n /\ 1..(n + 1) = (1..n) \cup {n + 1}
    BY <1>5
  <2>2. \A j \in 1..n : l2[j] = l[j]
    BY <1>3, <1>5
  <2>3. l2[n + 1] = e
    BY <1>3, <1>5
  <2> QED BY <2>1, <2>2, <2>3 DEF Given
<1>9. ASSUME NEW i \in 1..(n + 2) PROVE IsState(h2[i][1], h2[i][2], Given(l2, i))
  <2>1. CASE i \in 1..(n + 1)
    BY <1>4, <1>5, <1>7, <2>1 DEF History
  <2>2. CASE i = n + 2
    <3>1. Len(h) = n + 1 /\ h2[n + 2] = x
      BY <1>4, <1>5
    <3> QED BY <1>2, <1>8, <2>2, <3>1
  <2> QED BY <1>5, <2>1, <2>2
<1>10. ASSUME NEW i \in 1..(n + 1) PROVE Entry(l2, h2, i)
  <2>1. CASE i \in 1..n
    <3>1. h2[i] = h[i] /\ h2[i + 1] = h[i + 1] /\ l2[i] = l[i]
      BY <1>3, <1>4, <1>5, <2>1
    <3> QED BY <1>5, <2>1, <3>1 DEF History, Entry
  <2>2. CASE i = n + 1
    <3>1. h2[i] = h[n + 1] /\ h2[i + 1] = x /\ l2[i] = e
      BY <1>3, <1>4, <1>5, <2>2
    <3> QED BY <1>2, <1>5, <3>1 DEF Entry
  <2> QED BY <1>5, <2>1, <2>2
<1>11. Len(l2) = n + 1 /\ Len(h2) = n + 2
  BY <1>3, <1>4, <1>5
<1>12. History(l2, h2)
  BY <1>5, <1>6, <1>9, <1>10, <1>11 DEF History
<1>13. h2[Len(h2)] = x
  BY <1>4
<1> QED
  BY <1>2, <1>3, <1>4, <1>12, <1>13

LEMMA HistoryCut ==
  ASSUME NEW l, NEW h, History(l, h), NEW k \in 0..Len(l)
  PROVE  /\ History(SubSeq(l, 1, k), SubSeq(h, 1, k + 1))
         /\ SubSeq(h, 1, k + 1)[Len(SubSeq(h, 1, k + 1))] = h[k + 1]
<1> DEFINE R == {l[i] : i \in DOMAIN l}
           P == {h[i] : i \in DOMAIN h}
<1>1. l \in Seq(R) /\ h \in Seq(P)
  BY DEF History, IsSequence
<1> HIDE DEF R, P
<1>2. PICK n \in Nat : n = Len(l) /\ Len(h) = n + 1 /\ k \in 0..n
  BY <1>1, LenProperties DEF History
<1>3. PICK l2 : /\ l2 = SubSeq(l, 1, k) /\ l2 \in Seq(R) /\ Len(l2) = k
                /\ \A i \in 1..k : l2[i] = l[i]
  <2>1. 0 \in Nat /\ k \in 0..Len(l) /\ 0 + 1 = 1 /\ k - 0 = k /\ \A i \in 1..k : 0 + i = i
    BY <1>2
  <2>2. SubSeq(l, 0 + 1, k) \in Seq(R) /\ Len(SubSeq(l, 0 + 1, k)) = k - 0
        /\ \A i \in 1..(k - 0) : SubSeq(l, 0 + 1, k)[i] = l[0 + i]
    BY <1>1, <2>1, PartIs
  <2> QED BY <2>1, <2>2
<1>4. PICK h2 : /\ h2 = SubSeq(h, 1, k + 1) /\ h2 \in Seq(P) /\ Len(h2) = k + 1
                /\ \A i \in 1..(k + 1) : h2[i] = h[i]
  <2>0. PICK j \in Nat : j = k + 1
    BY <1>2
  <2>1. 0 \in Nat /\ j \in 0..Len(h) /\ 0 + 1 = 1 /\ j - 0 = j /\ \A i \in 1..j : 0 + i = i
    BY <1>2, <2>0
  <2>2. SubSeq(h, 0 + 1, j) \in Seq(P) /\ Len(SubSeq(h, 0 + 1, j)) = j - 0
        /\ \A i \in 1..(j - 0) : SubSeq(h, 0 + 1, j)[i] = h[0 + i]
    BY <1>1, <2>1, PartIs
  <2>3. PICK h2 : h2 = SubSeq(h, 0 + 1, j)
    OBVIOUS
  <2>4. h2 \in Seq(P) /\ Len(h2) = k + 1 /\ \A i \in 1..(k + 1) : h2[i] = h[i]
    BY <2>0, <2>1, <2>2, <2>3
  <2>5. h2 = SubSeq(h, 1, k + 1)
    BY <2>0, <2>1, <2>3
  <2> QED BY <2>4, <2>5
<1>5. IsSequence(l2) /\ IsSequence(h2)
  BY <1>3, <1>4, IsSequenceIs
<1>6. ASSUME NEW i \in 1..(k + 1) PROVE Given(l2, i) = Given(l, i)
  <2>1. \A j \in 1..(i - 1) : l2[j] = l[j]
    BY <1>2, <1>3
  <2> QED BY <2>1 DEF Given
<1>7. \A i \in 1..(k + 1) : IsState(h2[i][1], h2[i][2], Given(l2, i))
  <2>1. \A i \in 1..(k + 1) : i \in 1..Len(h)
    BY <1>2
  <2> QED BY <1>4, <1>6, <2>1 DEF History
<1>8. ASSUME NEW i \in 1..k PROVE Entry(l2, h2, i)
  <2>1. h2[i] = h[i] /\ h2[i + 1] = h[i + 1] /\ l2[i] = l[i] /\ i \in 1..Len(l)
    BY <1>2, <1>3, <1>4
  <2> QED BY <2>1 DEF History, Entry
<1>9. History(l2, h2)
  BY <1>3, <1>4, <1>5, <1>7, <1>8 DEF History
<1> QED
  BY <1>2, <1>3, <1>4, <1>9

Replaying(f, m, calls) ==
  f = [i \in 0..Len(calls) |-> IF i = 0 THEN m ELSE Replay(f[i - 1], calls[i])]

LEMMA ReplayedIs ==
  ASSUME NEW m, NEW calls
  PROVE  Replayed(m, calls) = (CHOOSE f : Replaying(f, m, calls))[Len(calls)]
BY DEF Replayed, Replaying

\* Replaying from any state on goes through the states there were.
LEMMA HistoryReplayed ==
  ASSUME NEW l, NEW h, History(l, h), NEW k \in 0..Len(l), NEW c \in 0..k
  PROVE  Replayed(h[c + 1][1], SubSeq(l, c + 1, k)) = h[k + 1][1]
<1> DEFINE R == {l[i] : i \in DOMAIN l}
<1>1. l \in Seq(R)
  BY DEF History, IsSequence
<1> HIDE DEF R
<1>2. PICK n \in Nat : n = Len(l) /\ Len(h) = n + 1 /\ k \in 0..n
  BY <1>1, LenProperties DEF History
<1>3. PICK N \in Nat : N = k - c
  BY <1>2
<1>4. PICK calls : /\ calls = SubSeq(l, c + 1, k) /\ Len(calls) = N
                   /\ \A i \in 1..N : calls[i] = l[c + i]
  <2>1. c \in Nat /\ k \in c..Len(l)
    BY <1>2
  <2>2. /\ Len(SubSeq(l, c + 1, k)) = k - c
        /\ \A i \in 1..(k - c) : SubSeq(l, c + 1, k)[i] = l[c + i]
    BY <1>1, <2>1, PartIs
  <2> QED BY <1>3, <2>2
<1> DEFINE m == h[c + 1][1]
           g == [i \in 0..N |-> h[c + i + 1][1]]
<1>5. ASSUME NEW i \in 0..N, i # 0
      PROVE  h[c + i + 1][1] = Replay(h[c + i][1], calls[i]) /\ i - 1 \in 0..N /\ c + (i - 1) + 1 = c + i
  <2>1. c + i \in 1..Len(l) /\ calls[i] = l[c + i] /\ i - 1 \in 0..N /\ c + (i - 1) + 1 = c + i
    BY <1>2, <1>3, <1>4, <1>5
  <2>2. Entry(l, h, c + i)
    BY <2>1 DEF History
  <2> QED BY <2>1, <2>2 DEF Entry
<1>6. \A i \in 0..N : g[i] = IF i = 0 THEN m ELSE Replay(g[i - 1], calls[i])
  <2>1. c + 0 + 1 = c + 1
    BY <1>2
  <2> QED BY <1>5, <2>1
<1>7. Replaying(g, m, calls)
  <2>1. g = [i \in 0..N |-> g[i]]
    OBVIOUS
  <2> HIDE DEF g, m
  <2>2. g = [i \in 0..N |-> IF i = 0 THEN m ELSE Replay(g[i - 1], calls[i])]
    BY <1>6, <2>1
  <2> QED BY <1>4, <2>2 DEF Replaying
<1> HIDE DEF m
<1>8. PICK f : f = (CHOOSE j : Replaying(j, m, calls)) /\ Replaying(f, m, calls)
  <2> HIDE DEF g
  <2> QED BY <1>7
<1>9. \A i \in 0..N : f[i] = IF i = 0 THEN m ELSE Replay(f[i - 1], calls[i])
  BY <1>4, <1>8 DEF Replaying
<1> DEFINE Same == {i \in 0..N : f[i] = g[i]}
<1> HIDE DEF g
<1>10. 0 \in Same
  BY <1>3, <1>6, <1>9
<1>11. ASSUME NEW i \in 0..(N - 1), i \in Same PROVE i + 1 \in Same
  <2>1. i + 1 \in 0..N /\ i + 1 # 0 /\ (i + 1) - 1 = i
    BY <1>3
  <2> QED BY <1>6, <1>9, <1>11, <2>1
<1>12. N \in Same
  <2> HIDE DEF Same
  <2> QED BY <1>3, <1>10, <1>11, UpwardFrom
<1>13. f[N] = h[k + 1][1]
  <2>1. c + N + 1 = k + 1 /\ N \in 0..N
    BY <1>2, <1>3
  <2> QED BY <1>12, <2>1 DEF g
<1> QED
  BY <1>4, <1>8, <1>13, ReplayedIs DEF m

----------------------------------------------------------------------------
(* The invariant, and what follows from it. *)

LEMMA EnteredIs ==
  ASSUME IInv
  PROVE  Progress(Entered, machine.mem, Given(log, Len(past))) /\ Clean(Entered, machine.mem)
<1>1. Len(past) \in Nat /\ Len(past) \in 1..Len(past)
  <2>1. Len(past) = Len(log) + 1 /\ Len(log) \in Nat
    BY LenProperties DEF IInv, History, IsSequence
  <2> QED BY <2>1
<1>2. IsState(machine, kernel, Given(log, Len(past)))
  BY <1>1 DEF IInv, History
<1>3. PICK s : s = Entered
  OBVIOUS
<1>4. /\ IsCall(s) /\ s.mem = machine.mem /\ s.kernel = kernel /\ s.did = Nothing
  BY <1>3 DEF IsCall, Entered
<1>5. /\ IsDid(s.did) /\ s.did.writes = <<>> /\ s.did.maps = {} /\ s.did.unmaps = {}
  BY <1>4 DEF IsDid, Nothing
<1>6. Regions(machine.mem, s.did) = machine.mem
  BY <1>2, <1>5 DEF Regions, IsState, IsMemory
<1>7. s.mem = Stored(Regions(machine.mem, s.did), s.did.writes)
  BY <1>4, <1>5, <1>6, StoredNone
<1> QED
  BY <1>2, <1>3, <1>4, <1>5, <1>7 DEF Progress, Clean, IsState

\* A call that has been handled is one more entry.
LEMMA DispatchKeeps ==
  ASSUME IInv, NEW s, Progress(s, machine.mem, Given(log, Len(past))), Dispatch(s)
  PROVE  IInv'
<1>1. PICK e : e = Recorded(s)
  OBVIOUS
<1>2. PICK m : m = [mem |-> s.mem, answer |-> Result(s)]
  OBVIOUS
<1>3. /\ machine' = m /\ kernel' = s.kernel /\ log' = Append(log, e)
      /\ past' = Append(past, <<m, s.kernel>>)
  BY <1>1, <1>2 DEF Dispatch
<1>4. e.did = s.did /\ e.answer = Result(s) /\ e.before = past[Len(past)][2]
  BY <1>1 DEF Recorded, IInv
<1>5. m.mem = s.mem /\ m.answer = Result(s) /\ m = [mem |-> m.mem, answer |-> m.answer]
  BY <1>2
<1>6. Replay(past[Len(past)][1], e) = m
  <2>1. Replay(machine, e) = [mem |-> Stored(Regions(machine.mem, s.did), s.did.writes),
                              answer |-> Result(s)]
    BY <1>4, ReplayIs
  <2> QED BY <1>2, <2>1 DEF Progress, IInv
<1>7. IsState(m, s.kernel, Given(log, Len(past)) \cup e.did.unmaps)
  BY <1>4, <1>5 DEF Progress, IsState
<1>8. PICK x : x = <<m, s.kernel>>
  OBVIOUS
<1>9. PICK h : h = past' /\ h[Len(h)] = x /\ History(log', h)
  <2>1. x[1] = m /\ x[2] = s.kernel
    BY <1>8
  <2>2. Follows(log, past, e, x)
    BY <1>4, <1>6, <1>7, <2>1 DEF Follows
  <2>3. History(Append(log, e), Append(past, x)) /\ Append(past, x)[Len(Append(past, x))] = x
    BY <2>2, HistoryGrows DEF IInv
  <2> QED BY <1>3, <1>8, <2>3
<1>10. h[Len(h)][1] = m /\ h[Len(h)][2] = s.kernel
  BY <1>8, <1>9
<1> QED
  BY <1>3, <1>9, <1>10 DEF IInv

LEMMA CallKeeps == ASSUME IInv, Call PROVE IInv'
<1> DEFINE own == Given(log, Len(past))
<1>1. Progress(Entered, machine.mem, own) /\ Clean(Entered, machine.mem)
  BY EnteredIs
<1> HIDE DEF own
<1>2. PICK s : s = Entered /\ Progress(s, machine.mem, own) /\ Clean(s, machine.mem)
  BY <1>1
<1>3. SUFFICES ASSUME NEW t, Dispatch(t), Progress(t, machine.mem, own) PROVE IInv'
  <2>1. \E t : Dispatch(t) /\ Progress(t, machine.mem, own)
    <3>1. CASE \E fd \in Fds, buf \in Bufs, n \in Counts : Dispatch(SysRead(Entered, fd, buf, n))
      <4>1. PICK fd \in Fds, buf \in Bufs, n \in Counts : Dispatch(SysRead(s, fd, buf, n))
        BY <1>2, <3>1
      <4>2. fd \in Int /\ n \in Nat
        BY ArgumentsAssumption
      <4>3. Progress(SysRead(s, fd, buf, n), machine.mem, own)
        BY <1>2, <4>2, ReadProgress
      <4> QED BY <4>1, <4>3
    <3>2. CASE \E fd \in Fds, buf \in Bufs, n \in Counts : Dispatch(SysWrite(Entered, fd, buf, n))
      <4>1. PICK fd \in Fds, buf \in Bufs, n \in Counts : Dispatch(SysWrite(s, fd, buf, n))
        BY <1>2, <3>2
      <4> QED BY <1>2, <4>1, WriteProgress
    <3>3. CASE \E fd \in Fds, iov \in Iovs : Dispatch(SysWritev(Entered, fd, iov))
      <4>1. PICK fd \in Fds, iov \in Iovs : Dispatch(SysWritev(s, fd, iov))
        BY <1>2, <3>3
      <4>2. Len(iov) \in Nat
        BY ArgumentsAssumption
      <4> QED BY <1>2, <4>1, <4>2, WritevProgress
    <3>4. CASE \E path \in Paths : Dispatch(SysOpen(Entered, path))
      BY <1>2, <3>4, OpenProgress
    <3>5. CASE \E fd \in Fds : Dispatch(SysClose(Entered, fd))
      BY <1>2, <3>5, CloseProgress
    <3>6. CASE \E fd \in Fds, offset \in Offsets, whence \in {"SET", "CUR", "END", "other"} :
                 Dispatch(SysLseek(Entered, fd, offset, whence))
      <4>1. PICK fd \in Fds, offset \in Offsets, whence \in {"SET", "CUR", "END", "other"} :
                 Dispatch(SysLseek(s, fd, offset, whence))
        BY <1>2, <3>6
      <4>2. offset \in Int
        BY ArgumentsAssumption
      <4>3. Progress(SysLseek(s, fd, offset, whence), machine.mem, own)
        BY <1>2, <4>2, LseekProgress
      <4> QED BY <4>1, <4>3
    <3>7. CASE \E addr \in Addrs, length \in Lengths, fd \in Fds \cup {-1} :
                 Dispatch(SysMmap(Entered, addr, length, fd))
      <4>1. PICK addr \in Addrs, length \in Lengths, fd \in Fds \cup {-1} :
                 Dispatch(SysMmap(s, addr, length, fd))
        BY <1>2, <3>7
      <4>2. length \in Nat
        BY ArgumentsAssumption
      <4>3. Progress(SysMmap(s, addr, length, fd), machine.mem, own)
        BY <1>2, <4>2, MmapProgress
      <4> QED BY <4>1, <4>3
    <3>8. CASE \E block \in Blocks : Dispatch(SysOldMmap(Entered, block))
      BY <1>2, <3>8, OldMmapProgress
    <3>9. CASE \E addr \in Addrs, length \in Lengths : Dispatch(SysMunmap(Entered, addr, length))
      BY <1>2, <3>9, MunmapProgress
    <3>10. CASE \E want \in Wants : Dispatch(SysBrk(Entered, want))
      <4>1. PICK want \in Wants : Dispatch(SysBrk(s, want))
        BY <1>2, <3>10
      <4>2. want \in Nat
        BY ArgumentsAssumption
      <4> QED BY <1>2, <4>1, <4>2, BrkProgress
    <3>11. CASE Dispatch(SysGetpid(Entered)) \/ Dispatch(SysExit(Entered)) \/ Dispatch(Unknown(Entered))
      BY <1>2, <3>11, OtherProgress
    <3> QED
      BY <3>1, <3>2, <3>3, <3>4, <3>5, <3>6, <3>7, <3>8, <3>9, <3>10, <3>11 DEF Call
  <2> QED BY <2>1
<1> QED
  BY <1>3, DispatchKeeps DEF own

\* Back to a state there was, and with it to the log it had.
LEMMA RewindKeeps ==
  ASSUME IInv, NEW k \in 0..Len(log), NEW c \in 0..k, Rewind(k, c)
  PROVE  IInv'
<1>1. PICK n \in Nat : n = Len(log) /\ Len(past) = n + 1 /\ k \in 0..n
  BY LenProperties DEF IInv, History, IsSequence
<1>2. machine' = past[k + 1][1]
  BY HistoryReplayed DEF IInv, Rewind
<1>3. kernel' = past[k + 1][2]
  <2>1. CASE k = n
    BY <1>1, <2>1 DEF Rewind, IInv
  <2>2. CASE k # n
    <3>1. k + 1 \in 1..Len(log) /\ k + 1 \in 1..Len(past)
      BY <1>1, <2>2
    <3>2. log[k + 1].before = past[k + 1][2] /\ IsKernel(past[k + 1][2])
      BY <3>1 DEF IInv, History, Entry, IsState
    <3>3. kernel' = Restore(kernel, log[k + 1].before)
      BY <1>1, <2>2 DEF Rewind
    <3>4. Restore(kernel, past[k + 1][2]) = Restore(past[k + 1][2], past[k + 1][2])
      BY DEF Restore
    <3> QED BY <3>2, <3>3, <3>4 DEF IsKernel
  <2> QED BY <2>1, <2>2
<1>4. log' = SubSeq(log, 1, k) /\ past' = SubSeq(past, 1, k + 1)
  BY DEF Rewind
<1>5. /\ History(SubSeq(log, 1, k), SubSeq(past, 1, k + 1))
      /\ SubSeq(past, 1, k + 1)[Len(SubSeq(past, 1, k + 1))] = past[k + 1]
  BY HistoryCut DEF IInv
<1>6. History(log', past') /\ past'[Len(past')] = past[k + 1]
  BY <1>4, <1>5
<1> QED
  BY <1>2, <1>3, <1>6 DEF IInv

LEMMA InitInv == ASSUME Init PROVE IInv
<1>0. PICK mem : mem = [p \in Pages |-> IF p \in Own THEN Zero ELSE Absent]
  OBVIOUS
<1>1. PICK m : m = machine /\ m = [mem |-> m.mem, answer |-> m.answer] /\ IsMemory(m.mem)
  <2>1. PICK m : m = machine
    OBVIOUS
  <2>2. m = [mem |-> mem, answer |-> <<"value", 0>>]
    BY <1>0, <2>1 DEF Init
  <2>3. m.mem = mem /\ m.answer = <<"value", 0>>
    BY <2>2
  <2>4. IsMemory(mem)
    BY <1>0 DEF IsMemory
  <2> QED BY <2>1, <2>2, <2>3, <2>4
<1>2. PICK k : /\ k = kernel
               /\ k = [files |-> [fd \in 0..1 |->
                         [name |-> IF fd = 0 THEN "<stdin>" ELSE "<stdout>", offset |-> 0]],
                       next |-> 3, brk |-> BrkBase, brkMapped |-> BrkBase, mmapNext |-> ArenaBase]
  BY DEF Init
<1>3. /\ DOMAIN k.files = 0..1
      /\ \A fd \in 0..1 : k.files[fd] = [name |-> IF fd = 0 THEN "<stdin>" ELSE "<stdout>", offset |-> 0]
      /\ k.files = [fd \in 0..1 |-> k.files[fd]]
      /\ k.next = 3 /\ k.brk = BrkBase /\ k.brkMapped = BrkBase /\ k.mmapNext = ArenaBase
  BY <1>2
<1>4. k.files = [fd \in DOMAIN k.files |->
                   [name |-> k.files[fd].name, offset |-> k.files[fd].offset]]
  BY <1>3
<1>5. k = Restore(k, k)
  BY <1>2, <1>3, <1>4 DEF Restore
<1>6. \A fd \in DOMAIN k.files : /\ k.files[fd].offset \in Nat /\ fd \in Int /\ fd < k.next
                                 /\ k.files[fd].name \in {"<stdin>", "<stdout>"} \cup DOMAIN Contents
  BY <1>3
<1>7. {BrkBase, BrkSize, ArenaBase, ArenaSize} \subseteq Nat
  BY LayoutAssumption
<1>8. IsKernel(k)
  BY <1>3, <1>5, <1>6, <1>7 DEF IsKernel
<1>9. \A own : HeapThere(m.mem, k, own)
  <2>1. Page(BrkBase) \in Int /\ BrkBase + (BrkBase - BrkBase) = BrkBase
    BY <1>7, PageIs
  <2>2. Span(BrkBase, BrkBase - BrkBase) = {}
    BY <2>1 DEF Span
  <2> QED BY <1>3, <2>2 DEF HeapThere
<1>10. PICK x : x = <<m, k>>
  OBVIOUS
<1>16. x[1] = m /\ x[2] = k
  BY <1>10
<1>11. log = <<>> /\ past = <<x>>
  BY <1>1, <1>2, <1>10 DEF Init
<1>12. Len(log) = 0 /\ Len(past) = 1 /\ past[1] = x /\ log \in Seq({}) /\ past \in Seq({x})
  BY <1>11
<1>13. IsSequence(log) /\ IsSequence(past)
  BY <1>12, IsSequenceIs
<1>14. \A i \in 1..Len(past) : IsState(past[i][1], past[i][2], Given(log, i))
  <2>1. 1..Len(past) = {1}
    BY <1>12
  <2> QED BY <1>1, <1>8, <1>9, <1>12, <1>16, <2>1 DEF IsState
<1>15. 1..Len(log) = {}
  BY <1>12
<1> QED
  BY <1>1, <1>2, <1>12, <1>13, <1>14, <1>15, <1>16 DEF IInv, History

LEMMA StepInv == ASSUME IInv, [Next]_vars PROVE IInv'
<1>1. CASE Call
  BY <1>1, CallKeeps
<1>2. CASE \E k \in 0..Len(log) : \E c \in 0..k : Rewind(k, c)
  BY <1>2, RewindKeeps
<1>3. CASE UNCHANGED vars
  BY <1>3 DEF vars, IInv
<1> QED
  BY <1>1, <1>2, <1>3 DEF Next

\* Every state of the layer and every entry of the log is what IInv says.
THEOREM HistoryTold == Spec => []IInv
<1>1. Init => IInv
  BY InitInv
<1>2. IInv /\ [Next]_vars => IInv'
  BY StepInv
<1> QED
  BY <1>1, <1>2, PTL DEF Spec

\* Undoing calls puts the layer back as it was before them: descriptors that were
\* opened, closed or moved, the next number, the break and the arena
\* (syscalls.py, _snapshot and _restore).
THEOREM LayerPutBack == Spec => []KernelRewound
<1>1. IInv => KernelRewound
  BY DEF IInv, KernelRewound, Latest
<1> QED
  BY <1>1, HistoryTold, PTL

\* Replaying what was written down of the calls, from any of the states before,
\* makes the machine that they made, also where one failed half way
\* (effects.py, EffectLog.replay).
THEOREM CallsReplayed == Spec => []MachineReplayed
<1>1. IInv => MachineReplayed
  BY DEF IInv, MachineReplayed, Latest
<1> QED
  BY <1>1, HistoryTold, PTL

\* The heap is there up to the break, but for what the program itself gave back,
\* and descriptors and arena stay within their bounds (sys_brk, open_file, free_span).
THEOREM HeapStaysSound == Spec => []KernelSound
<1>1. IInv => KernelSound
  <2> SUFFICES ASSUME IInv PROVE KernelSound
    OBVIOUS
  <2>1. PICK n \in Nat : n = Len(log) /\ Len(past) = n + 1 /\ DOMAIN log = 1..n
    BY LenProperties DEF IInv, History, IsSequence
  <2>2. IsState(machine, kernel, Given(log, n + 1))
    BY <2>1 DEF IInv, History
  <2>3. Given(log, n + 1) = UNION {log[i].did.unmaps : i \in DOMAIN log}
    <3>1. (n + 1) - 1 = n
      BY <2>1
    <3> QED BY <2>1, <3>1 DEF Given
  <2>4. IsKernel(kernel) /\ HeapThere(machine.mem, kernel, UNION {log[i].did.unmaps : i \in DOMAIN log})
    BY <2>2, <2>3 DEF IsState
  <2>5. \A fd \in DOMAIN kernel.files : fd < kernel.next /\ kernel.files[fd].offset >= 0
    BY <2>4 DEF IsKernel
  <2>6. /\ BrkBase <= kernel.brk /\ kernel.brk <= kernel.brkMapped
        /\ kernel.brkMapped <= BrkBase + BrkSize /\ kernel.mmapNext <= ArenaBase + ArenaSize
    BY <2>4 DEF IsKernel
  <2>7. \A p \in Span(BrkBase, kernel.brkMapped - BrkBase) :
          machine.mem[p] # Absent \/ p \in UNION {log[i].did.unmaps : i \in DOMAIN log}
    BY <2>4 DEF HeapThere
  <2> QED BY <2>5, <2>6, <2>7 DEF KernelSound
<1> QED
  BY <1>1, HistoryTold, PTL

----------------------------------------------------------------------------
(* Triage. *)

\* What the batch's own variables hold.
BatchType ==
  /\ limits \in [max : Nat, timed : BOOLEAN]
  /\ queue \in Seq(InputRecord)
  /\ cur \in Nat \ {0} /\ ran \in Nat
  /\ pc \in {"load", "start", "run", "cancel", "judge", "done", "died"}
  /\ pc \in {"start", "run", "cancel", "judge"} => cur \in Positions

BrakesType ==
  /\ count \in [Positions -> Nat]
  /\ tripped \in [Positions -> {None, "instructions", "wall"}]
  /\ stopped \in [Positions -> BOOLEAN] /\ late \in [Positions -> BOOLEAN]
  /\ timer \in [Positions -> {"off", "set", "woken", "marked"}]

\* Every brake gives a reason before it stops, and a reason there is.
ReasonInv ==
  \A i \in Positions :
    /\ stopped[i] \/ timer[i] = "marked" => tripped[i] # None
    /\ timer[i] \in {"woken", "marked"} => late[i]
    /\ tripped[i] = "wall" => late[i]
    /\ tripped[i] = "instructions" => Exhausts(i)

\* The budget counts the instructions of the program, as long as nothing
\* stops it.
CountInv ==
  /\ \A i \in Positions : i > cur \/ (i = cur /\ pc \in {"load", "start"}) => count[i] = 0
  /\ pc = "start" => ran = 0
  /\ pc = "run" /\ Now.ending # "loop" => ran <= Now.length
  /\ pc = "run" /\ Now.ending # "loop" /\ ~stopped[cur] /\ limits.max > 0 => count[cur] = ran

\* How the run of an input ended is how the program ends on it, unless a brake
\* stopped it.
HowInv ==
  pc \in {"cancel", "judge"} =>
    \/ how = "exit" /\ Now.ending \in {"exit", "end"}
    \/ how = "error" /\ Now.ending = "fault"
    \/ how = "load" /\ Now.ending = "load"
    \/ how = "run" /\ Now.ending = "refuse"
    \/ how = "stopped" /\ (Now.ending = "stop" \/ tripped[cur] # None)

Wheres == Nat \cup {None}
Signatures == {Signature(kind, where) : kind \in STRING \cup Outcomes, where \in Wheres}

ResultRecord ==
  [input : Positions, outcome : Outcomes, pc : Wheres,
   signature : Signatures]

\* That one verdict is true.
TrueOf(r) ==
  CASE r.outcome = "ok" -> queue[r.input].ending \in {"exit", "end"}
    [] r.outcome = "crash" -> queue[r.input].ending = "fault"
    [] r.outcome = "error" -> queue[r.input].ending \in {"load", "refuse"}
    [] r.outcome = "stopped" -> queue[r.input].ending = "stop"
    [] r.outcome = "timeout" -> late[r.input] \/ Exhausts(r.input)

VerdictInv ==
  /\ BatchType /\ BrakesType /\ results \in Seq(ResultRecord)
  /\ ReasonInv /\ CountInv /\ HowInv /\ Truthful

----------------------------------------------------------------------------

LEMMA InputTypes ==
  ASSUME BatchType, NEW i \in Positions
  PROVE  /\ queue[i] \in InputRecord
         /\ queue[i].length \in Nat /\ queue[i].at \in Nat /\ queue[i].kind \in STRING
         /\ queue[i].ending \in {"exit", "end", "fault", "stop", "loop", "load", "layers", "refuse"}
<1>1. queue[i] \in InputRecord
  BY DEF BatchType, Positions
<1> QED
  BY <1>1 DEF InputRecord

\* What is kept of inputs are inputs.
LEMMA KeptInputs ==
  ASSUME NEW found \in Seq(InputRecord)
  PROVE  Kept(found) \in Seq(InputRecord)
<1> DEFINE kept == [n \in DOMAIN found |-> IF found[n].skipped THEN <<>> ELSE <<found[n]>>]
<1>1. DOMAIN found = 1..Len(found) /\ Len(found) \in Nat /\ \A n \in DOMAIN found : found[n] \in InputRecord
  OBVIOUS
<1>2. \A n \in DOMAIN found :
        (IF found[n].skipped THEN <<>> ELSE <<found[n]>>) \in Seq(InputRecord)
  BY <1>1
<1>3. kept \in [1..Len(found) -> Seq(InputRecord)]
  BY <1>1, <1>2
<1> HIDE DEF kept
<1>4. kept \in Seq(Seq(InputRecord))
  BY <1>1, <1>3, SeqDef
<1> QED
  BY <1>4, FlattenTyped DEF Kept, kept

LEMMA Begins == TriageInit => VerdictInv
<1> SUFFICES ASSUME TriageInit PROVE VerdictInv
  OBVIOUS
<1> USE TriageAssumption
<1>1. queue \in Seq(InputRecord)
  <2>1. PICK found \in Batches : queue = Collected(found)
    BY DEF TriageInit
  <2>2. Kept(found) \in Seq(InputRecord)
    <3>1. found \in Seq(InputRecord)
      BY TriageAssumption
    <3> QED BY <3>1, KeptInputs
  <2> QED
    BY <2>1, <2>2, SubSeqProperties DEF Collected
<1>2. BatchType
  BY <1>1 DEF TriageInit, BatchType
<1>3. BrakesType
  BY DEF TriageInit, BrakesType
<1>4. results \in Seq(ResultRecord) /\ Truthful
  BY DEF TriageInit, Truthful
<1>5. ReasonInv /\ CountInv /\ HowInv
  BY DEF TriageInit, ReasonInv, CountInv, HowInv
<1> QED
  BY <1>2, <1>3, <1>4, <1>5 DEF VerdictInv

\* What the budget's hook does to the brakes.
LEMMA Hooked ==
  ASSUME VerdictInv, pc = "run", ~stopped[cur], Hook,
         UNCHANGED <<limits, queue, cur>>
  PROVE  /\ BrakesType'
         /\ \A i \in Positions \ {cur} :
              /\ count'[i] = count[i] /\ stopped'[i] = stopped[i] /\ tripped'[i] = tripped[i]
         /\ timer' = timer /\ late' = late
         /\ stopped'[cur] => tripped'[cur] # None
         /\ tripped[cur] # None => tripped'[cur] # None
         /\ limits.max > 0 => count'[cur] = count[cur] + 1
         /\ tripped'[cur] \in {tripped[cur], "instructions", "wall"}
         /\ tripped'[cur] = "wall" => late[cur]
         /\ tripped'[cur] = "instructions" /\ tripped[cur] # "instructions" =>
              limits.max > 0 /\ count[cur] + 1 > limits.max
<1> USE TriageAssumption
<1>1. cur \in Positions /\ cur \in Nat /\ limits.max \in Nat /\ ClockEvery \in Nat \ {0} /\ count[cur] \in Nat
  BY DEF VerdictInv, BatchType, BrakesType
<1>2. Counted \in Nat /\ (limits.max > 0 => Counted = count[cur] + 1)
  BY <1>1 DEF Counted
<1> DEFINE trips == Budget(Counted)
<1>3. /\ trips \in {None, "instructions", "wall"}
      /\ trips = "instructions" => limits.max > 0 /\ count[cur] + 1 > limits.max
      /\ trips = "wall" => late[cur]
  BY <1>2 DEF Budget
<1>4. /\ count' = [count EXCEPT ![cur] = Counted]
      /\ stopped' = [stopped EXCEPT ![cur] = @ \/ trips # None]
      /\ tripped' = [tripped EXCEPT ![cur] = IF @ = None THEN trips ELSE @]
      /\ timer' = timer /\ late' = late
  BY DEF Hook
<1> HIDE DEF trips
<1>5. tripped[cur] = "wall" => late[cur]
  BY <1>1 DEF VerdictInv, ReasonInv
<1>6. BrakesType'
  BY <1>1, <1>2, <1>3, <1>4 DEF VerdictInv, BrakesType, Positions
<1> QED
  BY <1>1, <1>2, <1>3, <1>4, <1>5, <1>6 DEF VerdictInv, BrakesType

\* What has been said of earlier inputs stays true when the brakes of others
\* move: a deadline that has passed has passed.
LEMMA TruthfulKept ==
  ASSUME VerdictInv, UNCHANGED <<limits, queue, results>>,
         \A i \in Positions : late[i] => late'[i]
  PROVE  Truthful' /\ results' \in Seq(ResultRecord')
<1>1. results' \in Seq(ResultRecord')
  BY DEF VerdictInv, ResultRecord, Positions
<1>2. ASSUME NEW n \in DOMAIN results
      PROVE  TrueOf(results[n])'
  <2>1. results[n] \in ResultRecord
    BY <1>2 DEF VerdictInv
  <2>2. results[n].input \in Positions
        /\ results[n].outcome \in {"ok", "crash", "error", "stopped", "timeout"}
    BY <2>1 DEF ResultRecord, Outcomes
  <2>3. TrueOf(results[n])
    BY <1>2 DEF VerdictInv, Truthful, TrueOf
  <2>4. /\ results'[n] = results[n]
        /\ late[results[n].input] => late'[results[n].input]
        /\ \A i \in Positions : Exhausts(i) => Exhausts(i)'
    BY <2>2 DEF Exhausts
  <2> QED
    BY <2>2, <2>3, <2>4 DEF TrueOf
<1>3. Truthful'
  BY <1>2 DEF Truthful, TrueOf
<1> QED
  BY <1>1, <1>3

LEMMA LoadStep == VerdictInv /\ Load => VerdictInv'
<1> SUFFICES ASSUME VerdictInv, Load PROVE VerdictInv'
  OBVIOUS
<1> USE TriageAssumption
<1>1. UNCHANGED <<limits, queue, cur, count, tripped, stopped, late, results>> /\ pc = "load"
  BY DEF Load, batch, report
<1>2. cur \in Positions
  BY DEF Load, VerdictInv, BatchType, Positions
<1>3. /\ ran' = 0
      /\ \/ Now.ending = "load" /\ pc' = "judge" /\ how' = "load" /\ timer' = timer
         \/ pc' = "died" /\ timer' = timer
         \/ pc' = "start" /\ \E v \in {"set", "off"} : timer' = [timer EXCEPT ![cur] = v]
  BY DEF Load
<1>4. BatchType'
  BY <1>1, <1>2, <1>3 DEF VerdictInv, BatchType, Positions
<1>5. BrakesType'
  BY <1>1, <1>3 DEF VerdictInv, BrakesType, Positions
<1>6. ReasonInv'
  BY <1>1, <1>3 DEF VerdictInv, BrakesType, ReasonInv, Exhausts, Positions
<1>7. CountInv'
  BY <1>1, <1>3 DEF VerdictInv, CountInv, Positions
<1>8. HowInv'
  BY <1>1, <1>3 DEF HowInv, Now
<1>9. Truthful' /\ results' \in Seq(ResultRecord')
  BY <1>1, TruthfulKept
<1> QED
  BY <1>4, <1>5, <1>6, <1>7, <1>8, <1>9 DEF VerdictInv

LEMMA StartStep == VerdictInv /\ Start => VerdictInv'
<1> SUFFICES ASSUME VerdictInv, Start PROVE VerdictInv'
  OBVIOUS
<1> USE TriageAssumption
<1>1. UNCHANGED <<limits, queue, cur, ran, count, tripped, timer, late, results>> /\ pc = "start"
  BY DEF Start, batch, report
<1>2. cur \in Positions
  BY <1>1 DEF VerdictInv, BatchType
<1>3. \/ Now.ending = "refuse" /\ pc' = "cancel" /\ how' = "run" /\ stopped' = stopped
      \/ pc' = "run" /\ stopped' = [stopped EXCEPT ![cur] = FALSE]
  BY DEF Start
<1>4. BatchType'
  BY <1>1, <1>2, <1>3 DEF VerdictInv, BatchType, Positions
<1>5. BrakesType'
  BY <1>1, <1>3 DEF VerdictInv, BrakesType, Positions
<1>6. ReasonInv'
  BY <1>1, <1>3 DEF VerdictInv, BrakesType, ReasonInv, Exhausts, Positions
<1>7. CountInv'
  <2>1. ran = 0 /\ count[cur] = 0 /\ Now.length \in Nat
    BY <1>1, <1>2, InputTypes DEF VerdictInv, CountInv, Now
  <2> QED
    BY <1>1, <1>3, <2>1 DEF VerdictInv, BatchType, CountInv, Positions, Now
<1>8. HowInv'
  BY <1>1, <1>3 DEF HowInv, Now
<1>9. Truthful' /\ results' \in Seq(ResultRecord')
  BY <1>1, TruthfulKept
<1> QED
  BY <1>4, <1>5, <1>6, <1>7, <1>8, <1>9 DEF VerdictInv

\* What the hook leaves of the reasons: when it trips on the budget, the
\* program has come as far as the budget goes.
LEMMA HookedReasons ==
  ASSUME VerdictInv, pc = "run", ~stopped[cur], Hook, UNCHANGED <<limits, queue, cur>>
  PROVE  ReasonInv'
<1> USE TriageAssumption
<1>1. cur \in Positions /\ cur \in Nat /\ ran \in Nat /\ limits.max \in Nat
      /\ count[cur] \in Nat /\ Now.length \in Nat
  BY InputTypes DEF VerdictInv, BatchType, BrakesType, Now
<1>2. limits.max > 0 /\ count[cur] + 1 > limits.max => Exhausts(cur)
  BY <1>1 DEF VerdictInv, CountInv, Exhausts, Now
<1>3. ASSUME NEW i \in Positions
      PROVE  /\ stopped'[i] \/ timer'[i] = "marked" => tripped'[i] # None
             /\ timer'[i] \in {"woken", "marked"} => late'[i]
             /\ tripped'[i] = "wall" => late'[i]
             /\ tripped'[i] = "instructions" => Exhausts(i)
  <2>1. /\ stopped[i] \/ timer[i] = "marked" => tripped[i] # None
        /\ timer[i] \in {"woken", "marked"} => late[i]
        /\ tripped[i] = "wall" => late[i]
        /\ tripped[i] = "instructions" => Exhausts(i)
    BY DEF VerdictInv, ReasonInv
  <2>2. CASE i # cur
    BY <2>1, <2>2, Hooked
  <2>3. CASE i = cur
    BY <1>2, <2>1, <2>3, Hooked
  <2> QED
    BY <2>2, <2>3
<1> QED
  BY <1>3 DEF ReasonInv, Positions, Exhausts

LEMMA InstructionStep == VerdictInv /\ Instruction => VerdictInv'
<1> SUFFICES ASSUME VerdictInv, Instruction PROVE VerdictInv'
  OBVIOUS
<1> USE TriageAssumption
<1>1. UNCHANGED <<limits, queue, cur, pc, how, results>> /\ pc = "run" /\ ~stopped[cur] /\ ~AtEnd /\ Hook
  BY DEF Instruction, batch, report
<1>2. cur \in Positions /\ ran \in Nat /\ Now.length \in Nat /\ count[cur] \in Nat
      /\ limits.max \in Nat /\ cur \in Nat /\ timer' = timer /\ late' = late
  BY <1>1, InputTypes DEF VerdictInv, BatchType, BrakesType, Now, Hook
<1>3. ran' \in {ran, ran + 1} /\ (~stopped'[cur] /\ Now.ending # "loop" => ran' = ran + 1)
      /\ (ran' = ran + 1 => ~stopped'[cur])
  BY <1>2 DEF Instruction
<1>4. BatchType'
  BY <1>1, <1>2, <1>3 DEF VerdictInv, BatchType, Positions
<1>5. BrakesType' /\ ReasonInv'
  BY <1>1, Hooked, HookedReasons
<1>6. Now.ending # "loop" => ran < Now.length
  BY <1>1, <1>2 DEF VerdictInv, CountInv, AtEnd
<1>7. CountInv'
  <2>1. \A i \in Positions \ {cur} : count'[i] = count[i]
    BY <1>1, Hooked
  <2>2. limits.max > 0 => count'[cur] = count[cur] + 1
    BY <1>1, Hooked
  <2>3. \A i \in Positions : i > cur => count'[i] = 0
    BY <1>2, <2>1 DEF VerdictInv, CountInv, BatchType, Positions
  <2>4. Now.ending # "loop" /\ limits.max > 0 => count[cur] = ran
    BY <1>1 DEF VerdictInv, CountInv
  <2>5. Now' = Now /\ Positions' = Positions
    BY <1>1 DEF Now, Positions
  <2> QED
    BY <1>1, <1>2, <1>3, <1>6, <2>2, <2>3, <2>4, <2>5 DEF CountInv
<1>8. HowInv'
  BY <1>1 DEF HowInv
<1>9. Truthful' /\ results' \in Seq(ResultRecord')
  BY <1>1, <1>2, TruthfulKept
<1> QED
  BY <1>4, <1>5, <1>7, <1>8, <1>9 DEF VerdictInv

LEMMA EndsStep == VerdictInv /\ Ends => VerdictInv'
<1> SUFFICES ASSUME VerdictInv, Ends PROVE VerdictInv'
  OBVIOUS
<1> USE TriageAssumption
<1>1. UNCHANGED <<limits, queue, cur, ran, results>> /\ pc = "run" /\ ~stopped[cur]
  BY DEF Ends, batch, report
<1>2. cur \in Positions /\ ran \in Nat /\ Now.length \in Nat
      /\ Now.ending \in {"exit", "end", "fault", "stop"}
  BY <1>1, InputTypes DEF VerdictInv, BatchType, Now, Ends
<1>3. \/ UNCHANGED brakes
      \/ Hook
  BY DEF Ends
<1>4. \/ pc' = pc /\ how' = how /\ stopped'[cur]
      \/ /\ pc' = "cancel"
         /\ \/ how' = "error" /\ Now.ending = "fault"
            \/ how' = "stopped" /\ Now.ending = "stop"
            \/ how' = "exit" /\ Now.ending \in {"exit", "end"}
  BY <1>2 DEF Ends
<1>5. BatchType'
  BY <1>1, <1>2, <1>4 DEF VerdictInv, BatchType, Positions
<1>6. BrakesType' /\ ReasonInv' /\ late' = late
      /\ \A i \in Positions : i > cur => count'[i] = count[i]
  <2>1. CASE UNCHANGED brakes
    BY <1>1, <2>1 DEF VerdictInv, BrakesType, ReasonInv, Exhausts, Positions, brakes
  <2>2. CASE Hook
    <3>1. cur \in Nat /\ \A i \in Positions : i \in Nat
      BY DEF VerdictInv, BatchType, Positions
    <3> QED
      BY <1>1, <2>2, <3>1, Hooked, HookedReasons
  <2> QED
    BY <1>3, <2>1, <2>2
<1>7. CountInv'
  BY <1>1, <1>2, <1>4, <1>6 DEF VerdictInv, CountInv, Positions, Now
<1>8. HowInv'
  BY <1>1, <1>4 DEF HowInv, Now
<1>9. Truthful' /\ results' \in Seq(ResultRecord')
  BY <1>1, <1>6, TruthfulKept
<1> QED
  BY <1>5, <1>6, <1>7, <1>8, <1>9 DEF VerdictInv

LEMMA ReturnsStep == VerdictInv /\ Returns => VerdictInv'
<1> SUFFICES ASSUME VerdictInv, Returns PROVE VerdictInv'
  OBVIOUS
<1> USE TriageAssumption
<1>1. UNCHANGED <<limits, queue, cur, ran, count, tripped, stopped, timer, late, results>>
      /\ pc = "run" /\ stopped[cur] /\ pc' = "cancel"
  BY DEF Returns, batch, report, brakes
<1>2. cur \in Positions
  BY <1>1 DEF VerdictInv, BatchType
<1>3. \/ how' = "exit" /\ Now.ending \in {"exit", "end"}
      \/ how' = "stopped" /\ tripped[cur] # None
  BY <1>1, <1>2 DEF Returns, VerdictInv, ReasonInv
<1>4. BatchType' /\ BrakesType'
  BY <1>1, <1>2 DEF VerdictInv, BatchType, BrakesType, Positions
<1>5. ReasonInv'
  BY <1>1 DEF VerdictInv, ReasonInv, Exhausts, Positions
<1>6. CountInv'
  BY <1>1 DEF VerdictInv, CountInv, Positions
<1>7. HowInv'
  BY <1>1, <1>3 DEF HowInv, Now
<1>8. Truthful' /\ results' \in Seq(ResultRecord')
  BY <1>1, TruthfulKept
<1> QED
  BY <1>4, <1>5, <1>6, <1>7, <1>8 DEF VerdictInv

LEMMA CancelStep == VerdictInv /\ Cancel => VerdictInv'
<1> SUFFICES ASSUME VerdictInv, Cancel PROVE VerdictInv'
  OBVIOUS
<1> USE TriageAssumption
<1>1. UNCHANGED <<limits, queue, cur, ran, how, count, tripped, stopped, late, results>>
      /\ pc = "cancel" /\ pc' = "judge"
      /\ timer' = [timer EXCEPT ![cur] = IF @ = "set" THEN "off" ELSE @]
  BY DEF Cancel, batch, report
<1>2. cur \in Positions
  BY <1>1 DEF VerdictInv, BatchType
<1>3. BatchType' /\ BrakesType'
  BY <1>1, <1>2 DEF VerdictInv, BatchType, BrakesType, Positions
<1>4. ReasonInv'
  BY <1>1, <1>2 DEF VerdictInv, BrakesType, ReasonInv, Exhausts, Positions
<1>5. CountInv'
  BY <1>1 DEF VerdictInv, CountInv, Positions
<1>6. HowInv'
  BY <1>1 DEF VerdictInv, HowInv, Now
<1>7. Truthful' /\ results' \in Seq(ResultRecord')
  BY <1>1, TruthfulKept
<1> QED
  BY <1>3, <1>4, <1>5, <1>6, <1>7 DEF VerdictInv

LEMMA JudgeStep == VerdictInv /\ Judge => VerdictInv'
<1> SUFFICES ASSUME VerdictInv, Judge PROVE VerdictInv'
  OBVIOUS
<1> USE TriageAssumption
<1> DEFINE where == IF how \in {"load", "run"} THEN None
                    ELSE IF Now.ending = "loop" THEN Now.at ELSE Now.at + ran
           said == [input |-> cur, outcome |-> Outcome, pc |-> where,
                    signature |-> Signature(IF how = "error" THEN Now.kind ELSE Outcome, where)]
<1>1. UNCHANGED <<limits, queue, ran, how, count, tripped, stopped, timer, late>>
      /\ pc = "judge" /\ cur' = cur + 1 /\ pc' = "load" /\ results' = Append(results, said)
  BY DEF Judge, batch, brakes
<1>2. cur \in Positions /\ cur \in Nat /\ tripped[cur] \in {None, "instructions", "wall"}
  BY <1>1 DEF VerdictInv, BatchType, BrakesType
<1>3. /\ Outcome \in {"ok", "crash", "error", "stopped", "timeout"}
      /\ Outcome = "ok" => Now.ending \in {"exit", "end"}
      /\ Outcome = "crash" => Now.ending = "fault"
      /\ Outcome = "error" => Now.ending \in {"load", "refuse"}
      /\ Outcome = "stopped" => Now.ending = "stop"
      /\ Outcome = "timeout" => late[cur] \/ Exhausts(cur)
  <2>1. tripped[cur] # None => late[cur] \/ Exhausts(cur)
    BY <1>2 DEF VerdictInv, ReasonInv
  <2> QED
    BY <1>1, <2>1 DEF VerdictInv, HowInv, Outcome
<1>4. said \in ResultRecord
  <2>1. where \in Wheres /\ Now.kind \in STRING
    BY <1>2, InputTypes DEF VerdictInv, BatchType, Wheres, Now
  <2> DEFINE kind == IF how = "error" THEN Now.kind ELSE Outcome
  <2>2. kind \in STRING \cup Outcomes
    BY <1>3, <2>1 DEF Outcomes
  <2> HIDE DEF where, kind
  <2>3. Signature(kind, where) \in Signatures
    BY <2>1, <2>2 DEF Signatures
  <2>4. said = [input |-> cur, outcome |-> Outcome, pc |-> where,
                signature |-> Signature(kind, where)]
    BY DEF said, kind
  <2> QED
    BY <1>2, <1>3, <2>1, <2>3, <2>4 DEF ResultRecord, Outcomes
<1> HIDE DEF said
<1>5. results' \in Seq(ResultRecord')
  BY <1>1, <1>4 DEF VerdictInv, ResultRecord, Positions
<1>6. Truthful'
  <2> SUFFICES ASSUME NEW n \in DOMAIN results'
               PROVE  LET i == results'[n].input
                          r == results'[n].outcome
                      IN  CASE r = "ok" -> queue[i].ending \in {"exit", "end"}
                            [] r = "crash" -> queue[i].ending = "fault"
                            [] r = "error" -> queue[i].ending \in {"load", "refuse"}
                            [] r = "stopped" -> queue[i].ending = "stop"
                            [] r = "timeout" -> late[i] \/ Exhausts(i)
    BY <1>1 DEF Truthful, Exhausts
  <2>1. CASE n \in DOMAIN results
    <3>1. results'[n] = results[n]
      BY <1>1, <2>1, <1>4 DEF VerdictInv
    <3> QED
      BY <2>1, <3>1 DEF VerdictInv, Truthful
  <2>2. CASE n \notin DOMAIN results
    <3>1. results'[n] = said
      BY <1>1, <2>2, <1>4 DEF VerdictInv
    <3>2. said.input = cur /\ said.outcome = Outcome
      BY DEF said
    <3> QED
      BY <1>3, <3>1, <3>2 DEF Now
  <2> QED
    BY <2>1, <2>2
<1>7. BatchType' /\ BrakesType'
  BY <1>1, <1>2 DEF VerdictInv, BatchType, BrakesType, Positions
<1>8. ReasonInv'
  BY <1>1 DEF VerdictInv, ReasonInv, Exhausts, Positions
<1>9. CountInv'
  <2>1. \A i \in Positions : i \in Nat
    BY DEF VerdictInv, BatchType, Positions
  <2>2. \A i \in Positions : i > cur => count[i] = 0
    BY DEF VerdictInv, CountInv
  <2>3. \A i \in Positions : i > cur + 1 \/ i = cur + 1 => count[i] = 0
    BY <1>2, <2>1, <2>2
  <2> QED
    BY <1>1, <2>3 DEF CountInv, Positions
<1>10. HowInv'
  BY <1>1 DEF HowInv
<1> QED
  BY <1>5, <1>6, <1>7, <1>8, <1>9, <1>10 DEF VerdictInv

LEMMA ReportStep == VerdictInv /\ Report => VerdictInv'
<1> SUFFICES ASSUME VerdictInv, Report PROVE VerdictInv'
  OBVIOUS
<1>1. UNCHANGED <<limits, queue, cur, ran, how, count, tripped, stopped, timer, late, results>>
      /\ pc' = "done" /\ pc = "load"
  BY DEF Report, report, brakes
<1>2. BatchType' /\ BrakesType' /\ ReasonInv' /\ CountInv' /\ HowInv'
  BY <1>1 DEF VerdictInv, BatchType, BrakesType, ReasonInv, CountInv, HowInv, Exhausts, Positions
<1>3. Truthful' /\ results' \in Seq(ResultRecord')
  BY <1>1, TruthfulKept
<1> QED
  BY <1>2, <1>3 DEF VerdictInv

\* Time and the watchdogs touch one input's brakes, and not what was counted.
LEMMA ClockStep ==
  ASSUME VerdictInv, NEW i \in Positions, Pass(i) \/ Watchdog(i)
  PROVE  VerdictInv'
<1> USE TriageAssumption
<1>1. UNCHANGED <<limits, queue, cur, ran, pc, how, count, results>>
  BY DEF Pass, Watchdog, Wake, Expire, batch, run, report
<1>2. /\ BrakesType'
      /\ \A j \in Positions : late[j] => late'[j]
      /\ \A j \in Positions : tripped[j] # None => tripped'[j] = tripped[j]
      /\ \A j \in Positions : stopped[j] => stopped'[j]
      /\ ReasonInv'
  <2>1. CASE Pass(i)
    BY <1>1, <2>1 DEF Pass, VerdictInv, BrakesType, ReasonInv, Exhausts, Positions
  <2>2. CASE Wake(i)
    BY <1>1, <2>2 DEF Wake, VerdictInv, BrakesType, ReasonInv, Exhausts, Positions
  <2>3. CASE Expire(i) /\ late' = late
    <3>1. /\ BrakesType /\ ReasonInv /\ Positions' = Positions
          /\ \A j \in Positions : Exhausts(j)' = Exhausts(j)
      BY <1>1 DEF VerdictInv, Positions, Exhausts
    <3>2. CASE /\ timer[i] = "woken" /\ timer' = [timer EXCEPT ![i] = "marked"] /\ stopped' = stopped
               /\ tripped' = [tripped EXCEPT ![i] = IF @ = None THEN "wall" ELSE @]
      <4>1. BrakesType' /\ \A j \in Positions : tripped[j] # None => tripped'[j] = tripped[j]
        BY <1>1, <2>3, <3>1, <3>2 DEF BrakesType
      <4>2. \A j \in Positions : stopped[j] => stopped'[j]
        BY <3>2
      <4>3. tripped'[i] # None /\ late[i]
            /\ (tripped'[i] = "instructions" => tripped[i] = "instructions")
        BY <3>1, <3>2 DEF BrakesType, ReasonInv
      <4>4. ReasonInv'
        BY <2>3, <3>1, <3>2, <4>3 DEF BrakesType, ReasonInv
      <4> QED
        BY <2>3, <4>1, <4>2, <4>4
    <3>3. CASE /\ timer[i] = "marked" /\ timer' = [timer EXCEPT ![i] = "off"] /\ tripped' = tripped
               /\ stopped' = [stopped EXCEPT ![i] = TRUE]
      <4>1. BrakesType' /\ \A j \in Positions : stopped[j] => stopped'[j]
        BY <1>1, <2>3, <3>1, <3>3 DEF BrakesType
      <4>2. ReasonInv'
        BY <2>3, <3>1, <3>3 DEF BrakesType, ReasonInv
      <4> QED
        BY <2>3, <3>3, <4>1, <4>2
    <3> QED
      BY <2>3, <3>2, <3>3 DEF Expire
  <2> QED
    BY <2>1, <2>2, <2>3 DEF Watchdog
<1>3. BatchType'
  BY <1>1 DEF VerdictInv, BatchType, Positions
<1>4. CountInv'
  BY <1>1, <1>2 DEF VerdictInv, BatchType, CountInv, Positions, Now
<1>5. HowInv'
  BY <1>1, <1>2 DEF VerdictInv, BatchType, HowInv, Now
<1>6. Truthful' /\ results' \in Seq(ResultRecord')
  BY <1>1, <1>2, TruthfulKept
<1> QED
  BY <1>2, <1>3, <1>4, <1>5, <1>6 DEF VerdictInv

LEMMA StandsStill == VerdictInv /\ UNCHANGED triageVars => VerdictInv'
<1> SUFFICES ASSUME VerdictInv, UNCHANGED triageVars PROVE VerdictInv'
  OBVIOUS
<1>1. UNCHANGED <<limits, queue, cur, pc, ran, how, count, tripped, stopped, timer, late, results>>
  BY DEF triageVars, batch, run, brakes, report
<1> QED
  <2>1. BatchType' /\ BrakesType' /\ ReasonInv' /\ CountInv' /\ HowInv'
    BY <1>1 DEF VerdictInv, BatchType, BrakesType, ReasonInv, CountInv, HowInv, Exhausts,
                Positions, Now
  <2>2. Truthful' /\ results' \in Seq(ResultRecord')
    BY <1>1, TruthfulKept
  <2> QED
    BY <2>1, <2>2 DEF VerdictInv

----------------------------------------------------------------------------

\* VerdictInv holds throughout every batch.
THEOREM VerdictsHold == TriageSpec => []VerdictInv
<1>1. VerdictInv /\ [TriageNext]_triageVars => VerdictInv'
  BY LoadStep, StartStep, InstructionStep, EndsStep, ReturnsStep, CancelStep, JudgeStep,
     ReportStep, ClockStep, StandsStill DEF TriageNext, Batch
<1> QED
  BY Begins, <1>1, PTL DEF TriageSpec

\* Every verdict is the program's own, whatever the batch, its limits, and
\* however its watchdogs race its runs (triage_input).
THEOREM VerdictsTrue == TriageSpec => []Truthful
<1>1. VerdictInv => Truthful
  BY DEF VerdictInv
<1> QED
  BY VerdictsHold, <1>1, PTL

----------------------------------------------------------------------------
(* The groups. *)

\* There is one result for each input, in their order; its signature tells how
\* it ended; and the groups are those of the results.
SignedInv ==
  \A n \in DOMAIN results :
    /\ results[n].input = n
    /\ \E kind \in STRING \cup Outcomes, where \in Wheres :
         /\ results[n].signature = Signature(kind, where)
         /\ IF results[n].outcome = "crash" THEN kind \notin Outcomes
            ELSE kind = results[n].outcome

GroupsInv ==
  /\ Len(results) = cur - 1 /\ SignedInv
  /\ pc = "done" => groups \in GroupResults

LEMMA GroupsKept ==
  ASSUME GroupsInv, UNCHANGED <<queue, cur, results>>,
         pc' = "done" => (pc = "done" /\ groups' = groups) \/ groups' \in GroupResults
  PROVE  GroupsInv'
<1>1. SignedInv'
  BY DEF GroupsInv, SignedInv, Wheres
<1>2. GroupResults' = GroupResults
  BY DEF GroupResults, Group, Alike, Before, Smaller, Rank
<1> QED
  BY <1>1, <1>2 DEF GroupsInv

LEMMA GroupsBegin == TriageInit => GroupsInv
BY DEF TriageInit, GroupsInv, SignedInv

LEMMA SignedStep == VerdictInv /\ GroupsInv /\ Judge => GroupsInv'
<1> SUFFICES ASSUME VerdictInv, GroupsInv, Judge PROVE GroupsInv'
  OBVIOUS
<1> USE TriageAssumption
<1> DEFINE where == IF how \in {"load", "run"} THEN None
                    ELSE IF Now.ending = "loop" THEN Now.at ELSE Now.at + ran
           kind == IF how = "error" THEN Now.kind ELSE Outcome
           said == [input |-> cur, outcome |-> Outcome, pc |-> where,
                    signature |-> Signature(kind, where)]
<1>1. pc = "judge" /\ cur' = cur + 1 /\ pc' = "load" /\ results' = Append(results, said)
  BY DEF Judge
<1>2. cur \in Positions /\ cur \in Nat /\ ran \in Nat
  BY <1>1 DEF VerdictInv, BatchType
<1>3. Now \in InputRecord
  BY <1>2, InputTypes DEF VerdictInv, Now
<1>4. where \in Wheres
  BY <1>2, <1>3 DEF Wheres, InputRecord
<1>5. Outcome \in Outcomes /\ (Outcome = "crash" <=> how = "error")
  BY DEF Outcome, Outcomes
<1>6. /\ kind \in STRING \cup Outcomes
      /\ IF Outcome = "crash" THEN kind \notin Outcomes ELSE kind = Outcome
  BY <1>3, <1>5 DEF InputRecord
<1>7. said.input = cur /\ said.outcome = Outcome /\ said.signature = Signature(kind, where)
  OBVIOUS
<1> HIDE DEF said, kind, where
<1>8. /\ DOMAIN results' = 1..cur /\ Len(results') = cur /\ results'[cur] = said
      /\ \A n \in DOMAIN results : results'[n] = results[n]
      /\ DOMAIN results = 1..(cur - 1)
  BY <1>1, <1>2 DEF GroupsInv, VerdictInv
<1>9. ASSUME NEW n \in DOMAIN results'
      PROVE  /\ results'[n].input = n
             /\ \E k \in STRING \cup Outcomes, w \in Wheres :
                  /\ results'[n].signature = Signature(k, w)
                  /\ IF results'[n].outcome = "crash" THEN k \notin Outcomes
                     ELSE k = results'[n].outcome
  <2>1. CASE n = cur
    BY <2>1, <1>4, <1>6, <1>7, <1>8
  <2>2. CASE n # cur
    <3>1. n \in DOMAIN results
      BY <2>2, <1>2, <1>8
    <3> QED BY <3>1, <1>8 DEF GroupsInv, SignedInv
  <2> QED BY <2>1, <2>2
<1> QED
  BY <1>1, <1>2, <1>8, <1>9 DEF GroupsInv, SignedInv, Wheres

LEMMA GroupsStep == VerdictInv /\ GroupsInv /\ [TriageNext]_triageVars => GroupsInv'
<1> SUFFICES ASSUME VerdictInv, GroupsInv, [TriageNext]_triageVars PROVE GroupsInv'
  OBVIOUS
<1>1. CASE Judge
  BY <1>1, SignedStep
<1>2. CASE Report
  BY <1>2, GroupsKept DEF Report, report
<1>3. CASE Load \/ Start \/ Instruction \/ Ends \/ Returns \/ Cancel
  <2>1. UNCHANGED <<queue, cur, results>> /\ pc' # "done"
    BY <1>3 DEF Load, Start, Instruction, Ends, Returns, Cancel, batch, report
  <2> QED BY <2>1, GroupsKept
<1>4. CASE \E i \in Positions : Pass(i) \/ Watchdog(i)
  <2>1. UNCHANGED <<queue, cur, results, pc, groups>>
    BY <1>4 DEF Pass, Watchdog, Wake, batch, run, report
  <2> QED BY <2>1, GroupsKept
<1>5. CASE UNCHANGED triageVars
  BY <1>5, GroupsKept DEF triageVars, batch, run, report
<1> QED
  BY <1>1, <1>2, <1>3, <1>4, <1>5 DEF TriageNext, Batch

\* Those that failed in the same way ended in the same way.
LEMMA SameEnd ==
  ASSUME VerdictInv, GroupsInv, NEW m \in DOMAIN results, NEW n \in DOMAIN results,
         results[m].signature = results[n].signature
  PROVE  results[m].outcome = results[n].outcome
<1>1. results[m].outcome \in Outcomes /\ results[n].outcome \in Outcomes
  <2>1. results[m] \in ResultRecord /\ results[n] \in ResultRecord
    BY DEF VerdictInv
  <2> QED BY <2>1 DEF ResultRecord
<1>2. PICK k \in STRING \cup Outcomes, w \in Wheres :
        /\ results[m].signature = Signature(k, w)
        /\ IF results[m].outcome = "crash" THEN k \notin Outcomes ELSE k = results[m].outcome
  BY DEF GroupsInv, SignedInv
<1>3. PICK l \in STRING \cup Outcomes, v \in Wheres :
        /\ results[n].signature = Signature(l, v)
        /\ IF results[n].outcome = "crash" THEN l \notin Outcomes ELSE l = results[n].outcome
  BY DEF GroupsInv, SignedInv
<1>4. k = l
  <2>1. Signature(k, w) = Signature(l, v)
    BY <1>2, <1>3
  <2>2. CASE ByPc
    <3>1. <<k, w>> = <<l, v>>
      BY <2>1, <2>2 DEF Signature
    <3> QED BY <3>1
  <2>3. CASE ~ByPc
    <3>1. <<k>> = <<l>>
      BY <2>1, <2>3 DEF Signature
    <3> QED BY <3>1
  <2> QED BY <2>2, <2>3
<1> QED
  BY <1>1, <1>2, <1>3, <1>4

\* Of some inputs one is the smallest.
LEMMA SmallestIs ==
  ASSUME VerdictInv, NEW X \in SUBSET Positions, X # {}
  PROVE  \E i \in X : \A j \in X : Smaller(i, j)
<1> DEFINE Size(i) == queue[i].size
           Name(i) == queue[i].name
           Sizes == {Size(i) : i \in X}
<1>1. \A i \in X : Size(i) \in Nat /\ Name(i) \in Nat /\ i \in Nat
  <2> SUFFICES ASSUME NEW i \in X PROVE Size(i) \in Nat /\ Name(i) \in Nat /\ i \in Nat
    OBVIOUS
  <2>1. queue[i] \in InputRecord
    BY InputTypes DEF VerdictInv
  <2>2. i \in Nat
    BY DEF VerdictInv, BatchType, Positions
  <2> QED BY <2>1, <2>2 DEF InputRecord
<1>2. PICK a \in X : \A j \in X : Size(a) <= Size(j)
  <2>1. Sizes \in SUBSET Nat /\ Sizes # {}
    BY <1>1
  <2>2. PICK u \in Sizes : \A v \in Sizes : u <= v
    <3> HIDE DEF Sizes
    <3> QED BY <2>1, LeastOf
  <2> QED BY <2>2
<1> DEFINE Y == {i \in X : Size(i) = Size(a)}
           Names == {Name(i) : i \in Y}
<1>3. PICK b \in Y : \A j \in Y : Name(b) <= Name(j)
  <2>1. Names \in SUBSET Nat /\ Names # {}
    BY <1>1
  <2>2. PICK u \in Names : \A v \in Names : u <= v
    <3> HIDE DEF Names
    <3> QED BY <2>1, LeastOf
  <2> QED BY <2>2
<1> DEFINE Z == {i \in Y : Name(i) = Name(b)}
<1>4. PICK c \in Z : \A j \in Z : c <= j
  <2>1. Z \in SUBSET Nat /\ Z # {}
    BY <1>1
  <2> HIDE DEF Z
  <2> QED BY <2>1, LeastOf
<1>5. c \in X /\ Size(c) = Size(a) /\ Name(c) = Name(b)
  OBVIOUS
<1>6. ASSUME NEW j \in X PROVE Smaller(c, j)
  <2>1. \/ Size(c) < Size(j)
        \/ Size(c) = Size(j) /\ Name(c) < Name(j)
        \/ Size(c) = Size(j) /\ Name(c) = Name(j) /\ (c < j \/ c = j)
    <3>1. CASE Size(j) # Size(a)
      BY <3>1, <1>1, <1>2, <1>5
    <3>2. CASE Size(j) = Size(a) /\ Name(j) # Name(b)
      BY <3>2, <1>1, <1>3, <1>5
    <3>3. CASE Size(j) = Size(a) /\ Name(j) = Name(b)
      BY <3>3, <1>1, <1>4, <1>5
    <3> QED BY <3>1, <3>2, <3>3
  <2> DEFINE key(x) == <<queue[x].size, queue[x].name, x>>
  <2>2. /\ key(c)[1] = Size(c) /\ key(c)[2] = Name(c) /\ key(c)[3] = c
        /\ key(j)[1] = Size(j) /\ key(j)[2] = Name(j) /\ key(j)[3] = j
    OBVIOUS
  <2> HIDE DEF key, Size, Name
  <2>3. \E n \in 1..3 : /\ key(c)[n] < key(j)[n] \/ (n = 3 /\ c = j)
                        /\ \A m \in 1..(n - 1) : key(c)[m] = key(j)[m]
    <3>1. CASE Size(c) < Size(j)
      <4>1. 1 \in 1..3 /\ 1..(1 - 1) = {}
        OBVIOUS
      <4> QED BY <3>1, <4>1, <2>2
    <3>2. CASE Size(c) = Size(j) /\ Name(c) < Name(j)
      <4>1. 2 \in 1..3 /\ 1..(2 - 1) = {1}
        OBVIOUS
      <4> QED BY <3>2, <4>1, <2>2
    <3>3. CASE Size(c) = Size(j) /\ Name(c) = Name(j) /\ (c < j \/ c = j)
      <4>1. 3 \in 1..3 /\ 1..(3 - 1) = {1, 2}
        OBVIOUS
      <4> QED BY <3>3, <4>1, <2>2
    <3> QED BY <2>1, <3>1, <3>2, <3>3
  <2> QED BY <2>3 DEF key, Smaller
<1> QED
  BY <1>5, <1>6

\* What the group of a result is.
LEMMA GroupIs ==
  ASSUME VerdictInv, GroupsInv, NEW n \in DOMAIN results
  PROVE  LET g == Group(results[n].signature)
         IN  /\ g.signature = results[n].signature /\ g.outcome = results[n].outcome
             /\ g.inputs = Alike(results[n].signature) /\ n \in g.inputs
             /\ \A i \in g.inputs : queue[g.representative].size <= queue[i].size
<1> DEFINE s == results[n].signature
           A == Alike(s)
           ins == {results[m].input : m \in A}
<1>1. n \in A /\ A \in SUBSET DOMAIN results /\ \A m \in A : results[m].signature = s
  BY DEF Alike
<1>2. ins = A
  BY <1>1 DEF GroupsInv, SignedInv
<1>3. /\ A \in SUBSET Nat /\ A \in SUBSET Positions
  <2>1. DOMAIN results \in SUBSET Nat
    BY DEF VerdictInv
  <2>2. \A m \in DOMAIN results : results[m].input \in Positions /\ results[m].input = m
    <3>1. \A m \in DOMAIN results : results[m] \in ResultRecord
      BY DEF VerdictInv
    <3> QED BY <3>1 DEF GroupsInv, SignedInv, ResultRecord
  <2> QED BY <1>1, <2>1, <2>2
<1>4. Min(A) \in A
  <2> HIDE DEF A
  <2>1. \E u \in A : \A v \in A : u <= v
    BY <1>1, <1>3, LeastOf
  <2> QED BY <2>1 DEF Min
<1>5. results[Min(A)].outcome = results[n].outcome
  BY <1>1, <1>4, SameEnd
<1> DEFINE rep == CHOOSE i \in A : \A j \in A : Smaller(i, j)
<1>6. rep \in A /\ \A j \in A : Smaller(rep, j)
  <2> HIDE DEF A
  <2>1. \E i \in A : \A j \in A : Smaller(i, j)
    BY <1>1, <1>3, SmallestIs
  <2> QED BY <2>1
<1>7. ASSUME NEW j \in A PROVE queue[rep].size <= queue[j].size
  <2> HIDE DEF A, rep
  <2>1. Smaller(rep, j)
    BY <1>6
  <2>2. queue[rep].size \in Nat /\ queue[j].size \in Nat
    <3>1. queue[rep] \in InputRecord /\ queue[j] \in InputRecord
      BY <1>3, <1>6, InputTypes DEF VerdictInv
    <3> QED BY <3>1 DEF InputRecord
  <2> DEFINE key(x) == <<queue[x].size, queue[x].name, x>>
  <2>3. PICK k \in 1..3 : /\ key(rep)[k] < key(j)[k] \/ (k = 3 /\ rep = j)
                          /\ \A m \in 1..(k - 1) : key(rep)[m] = key(j)[m]
    BY <2>1 DEF Smaller
  <2>4. key(rep)[1] = queue[rep].size /\ key(j)[1] = queue[j].size
    OBVIOUS
  <2> HIDE DEF key
  <2>5. CASE k = 1
    BY <2>2, <2>3, <2>4, <2>5
  <2>6. CASE k # 1
    <3>1. 1 \in 1..(k - 1)
      BY <2>6
    <3> QED BY <2>2, <2>3, <2>4, <3>1
  <2> QED BY <2>5, <2>6
<1>8. /\ Group(s).signature = s /\ Group(s).outcome = results[Min(A)].outcome
      /\ Group(s).inputs = ins
      /\ Group(s).representative = CHOOSE i \in ins : \A j \in ins : Smaller(i, j)
  BY DEF Group
<1> HIDE DEF A, ins
<1> QED
  BY <1>1, <1>2, <1>5, <1>7, <1>8 DEF A

\* The report's groups are those of the results, each once.
LEMMA AllGroups ==
  ASSUME VerdictInv, GroupsInv, groups \in GroupResults
  PROVE  /\ groups \in Seq({Group(results[n].signature) : n \in DOMAIN results})
         /\ \A n \in DOMAIN results : \E g \in DOMAIN groups : groups[g] = Group(results[n].signature)
         /\ \A g, h \in DOMAIN groups : g # h => groups[g] # groups[h]
         /\ \A g, h \in DOMAIN groups : g < h => Before(groups[g], groups[h])
<1> DEFINE found == {Group(results[n].signature) : n \in DOMAIN results}
           f == [n \in DOMAIN results |-> Group(results[n].signature)]
<1>1. IsFiniteSet(found)
  <2>1. Len(results) \in Nat /\ DOMAIN results = 1..Len(results)
    BY DEF VerdictInv
  <2>2. f \in Surjection(1..Len(results), found)
    BY <2>1 DEF Surjection
  <2> HIDE DEF f, found
  <2> QED BY <2>1, <2>2, FS_NatSurjection DEF ExistsSurjection
<1>2. /\ groups \in [1..Cardinality(found) -> found]
      /\ \A g, h \in 1..Cardinality(found) : g # h => groups[g] # groups[h]
      /\ \A g, h \in DOMAIN groups : g < h => Before(groups[g], groups[h])
  BY DEF GroupResults, SetToSeqs
<1> HIDE DEF found
<1>3. Cardinality(found) \in Nat
  BY <1>1, FS_CardinalityType
<1>4. groups \in Injection(1..Cardinality(found), found)
  BY <1>2 DEF Injection, IsInjective
<1>5. groups \in Surjection(1..Cardinality(found), found)
  <2>1. IsFiniteSet(1..Cardinality(found)) /\ Cardinality(1..Cardinality(found)) = Cardinality(found)
    BY <1>3, FS_Interval
  <2> QED BY <1>1, <1>4, <2>1, FS_Injection
<1>6. \A x \in found : \E g \in DOMAIN groups : groups[g] = x
  BY <1>2, <1>5 DEF Surjection
<1>7. \A n \in DOMAIN results : Group(results[n].signature) \in found
  BY DEF found
<1>8. groups \in Seq(found)
  BY <1>2, <1>3
<1> QED
  BY <1>2, <1>6, <1>7, <1>8 DEF found

LEMMA RightGroups == VerdictInv /\ GroupsInv => GroupsRight
<1> SUFFICES ASSUME VerdictInv, GroupsInv, pc = "done" PROVE GroupsRight
  BY DEF GroupsRight
<1>1. groups \in GroupResults
  BY DEF GroupsInv
<1>2. \A g \in DOMAIN groups : \E n \in DOMAIN results : groups[g] = Group(results[n].signature)
  <2>1. groups \in Seq({Group(results[n].signature) : n \in DOMAIN results})
    BY <1>1, AllGroups
  <2> QED BY <2>1
<1>3. ASSUME NEW g \in DOMAIN groups
      PROVE  /\ groups[g].inputs = Alike(groups[g].signature)
             /\ groups[g] = Group(groups[g].signature)
             /\ \A m \in groups[g].inputs : /\ m \in DOMAIN results
                                            /\ results[m].signature = groups[g].signature
                                            /\ results[m].outcome = groups[g].outcome
             /\ \A i \in groups[g].inputs : queue[groups[g].representative].size <= queue[i].size
             /\ groups[g].outcome \in Outcomes /\ groups[g].inputs # {}
  <2>1. PICK n \in DOMAIN results : groups[g] = Group(results[n].signature)
    BY <1>2
  <2>2. /\ groups[g].signature = results[n].signature /\ groups[g].outcome = results[n].outcome
        /\ groups[g].inputs = Alike(results[n].signature) /\ n \in groups[g].inputs
        /\ \A i \in groups[g].inputs : queue[groups[g].representative].size <= queue[i].size
    BY <2>1, GroupIs
  <2>3. \A m \in Alike(results[n].signature) :
          m \in DOMAIN results /\ results[m].signature = results[n].signature
    BY DEF Alike
  <2>4. \A m \in Alike(results[n].signature) : results[m].outcome = results[n].outcome
    BY <2>3, SameEnd
  <2>5. results[n].outcome \in Outcomes
    <3>1. results[n] \in ResultRecord
      BY DEF VerdictInv
    <3> QED BY <3>1 DEF ResultRecord
  <2> QED BY <2>1, <2>2, <2>3, <2>4, <2>5
<1>4. ASSUME NEW n \in DOMAIN results
      PROVE  \E g \in DOMAIN groups :
               /\ {h \in DOMAIN groups : results[n].input \in groups[h].inputs} = {g}
               /\ groups[g].signature = results[n].signature
               /\ groups[g].outcome = results[n].outcome
  <2>1. PICK g \in DOMAIN groups : groups[g] = Group(results[n].signature)
    BY <1>1, AllGroups
  <2>2. /\ groups[g].signature = results[n].signature /\ n \in groups[g].inputs
        /\ groups[g].outcome = results[n].outcome
    BY <2>1, GroupIs
  <2>3. results[n].input = n
    BY DEF GroupsInv, SignedInv
  <2>4. ASSUME NEW h \in DOMAIN groups, n \in groups[h].inputs PROVE h = g
    <3>1. groups[h].signature = results[n].signature
      BY <1>3, <2>4
    <3>2. groups[h] = groups[g]
      BY <1>3, <2>1, <3>1
    <3> QED BY <1>1, <3>2, AllGroups
  <2> QED BY <2>2, <2>3, <2>4
<1>5. ASSUME NEW g \in DOMAIN groups, NEW h \in DOMAIN groups, g < h
      PROVE  /\ groups[g].signature # groups[h].signature
             /\ Rank(groups[g].outcome) <= Rank(groups[h].outcome)
             /\ groups[g].outcome = groups[h].outcome =>
                  Cardinality(groups[g].inputs) >= Cardinality(groups[h].inputs)
  <2>1. Before(groups[g], groups[h])
    BY <1>1, <1>5, AllGroups
  <2>2. Rank(groups[g].outcome) \in Nat /\ Rank(groups[h].outcome) \in Nat
    BY DEF Rank
  <2>3. g # h
    <3>1. groups \in Seq({Group(results[n].signature) : n \in DOMAIN results})
      BY <1>1, AllGroups
    <3>2. g \in Nat /\ h \in Nat
      BY <3>1
    <3> QED BY <1>5, <3>2
  <2>4. groups[g] # groups[h]
    BY <1>1, <2>3, AllGroups
  <2>5. groups[g].signature # groups[h].signature
    BY <1>3, <2>4
  <2> QED BY <2>1, <2>2, <2>5 DEF Before
<1>6. ExitStatus = 1 <=> \E n \in DOMAIN results : results[n].outcome = "crash"
  BY DEF ExitStatus
<1>7. ASSUME NEW n \in DOMAIN results, results[n].outcome = "crash"
      PROVE  groups # <<>> /\ groups[1].outcome = "crash"
  <2>1. PICK g \in DOMAIN groups : groups[g].outcome = "crash"
    BY <1>4, <1>7
  <2>2. g \in Nat \ {0} /\ 1 \in DOMAIN groups /\ groups # <<>>
    <3>1. groups \in Seq({Group(results[m].signature) : m \in DOMAIN results})
      BY <1>1, AllGroups
    <3> QED BY <3>1
  <2>3. CASE g = 1
    BY <2>1, <2>2, <2>3
  <2>4. CASE g # 1
    <3>1. Rank(groups[1].outcome) <= Rank(groups[g].outcome)
      BY <1>5, <2>2, <2>4
    <3>2. groups[1].outcome \in Outcomes
      BY <1>3, <2>2
    <3> QED BY <2>1, <2>2, <3>1, <3>2 DEF Rank, Outcomes
  <2> QED BY <2>3, <2>4
<1>8. ASSUME groups # <<>>, groups[1].outcome = "crash"
      PROVE  \E n \in DOMAIN results : results[n].outcome = "crash"
  <2>1. 1 \in DOMAIN groups
    <3>1. groups \in Seq({Group(results[m].signature) : m \in DOMAIN results})
      BY <1>1, AllGroups
    <3> QED BY <1>8, <3>1
  <2>2. PICK m \in groups[1].inputs : TRUE
    BY <1>3, <2>1
  <2> QED BY <1>3, <1>8, <2>1, <2>2
<1>9. ASSUME NEW g \in DOMAIN groups, NEW i \in groups[g].inputs
      PROVE  queue[groups[g].representative].size <= queue[i].size
  BY <1>3
<1> QED
  BY <1>4, <1>5, <1>6, <1>7, <1>8, <1>9 DEF GroupsRight

\* The groups are the results sorted by how they failed, whatever was run:
\* each result in one group, the smallest input first, crashes before the rest
\* (group_results), and the exit status is that of the first (main).
THEOREM SortedByFailure == TriageSpec => []GroupsRight
<1>1. TriageInit => VerdictInv /\ GroupsInv
  BY Begins, GroupsBegin
<1>2. VerdictInv /\ GroupsInv /\ [TriageNext]_triageVars => GroupsInv'
  BY GroupsStep
<1>3. VerdictInv /\ GroupsInv => GroupsRight
  BY RightGroups
<1> QED
  BY VerdictsHold, <1>1, <1>2, <1>3, PTL DEF TriageSpec
=============================================================================
