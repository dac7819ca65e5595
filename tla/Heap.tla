-------------------------------- MODULE Heap --------------------------------
(***************************************************************************)
(* The allocator behind the stubbed malloc, free and realloc               *)
(* (ghidraunicorn/stubs.py), and how it is rewound: a snapshot is a place  *)
(* in a journal, and going back undoes the journal down to it.             *)
(*                                                                         *)
(* Addresses count from the base of the heap.  Tables are dictionaries,    *)
(* which Python iterates in insertion order: the order of `freed` decides  *)
(* which block is reused, so it is a sequence here.                        *)
(***************************************************************************)
EXTENDS Integers, Sequences, FiniteSets, SequencesExt

CONSTANTS
  Size,                  \* bytes in the heap
  Align, Page,           \* ALIGN and PAGE
  Sizes,                 \* what the program asks for
  Ops,                   \* the functions it calls
  MaxCalls               \* bound: calls in the log

ASSUME SizesAssumption ==
  /\ {Size, Align, Page} \subseteq Nat \ {0} /\ MaxCalls \in Nat
  /\ Sizes \subseteq Nat /\ Ops \subseteq {"malloc", "free", "realloc"}

VARIABLES
  blocks,                \* Heap.blocks, as a function from addresses
  freed,                 \* Heap.freed, in insertion order
  top, mapped,           \* Heap.top and Heap.mapped
  journal, dropped,      \* _journal and _dropped
  log                    \* the log's entries: the snapshots, and (history
                         \* variable) the tables they were taken of

tables == [blocks |-> blocks, freed |-> freed]
vars == <<blocks, freed, top, mapped, journal, dropped, log>>

Block(address, size, capacity) ==
  [address |-> address, size |-> size, capacity |-> capacity]

RoundUp(n, unit) == ((n + unit - 1) \div unit) * unit

Live(t) == {t.blocks[a] : a \in DOMAIN t.blocks}
Free(t) == ToSet(t.freed)

Put(t, b) == [t EXCEPT !.blocks = [a \in DOMAIN @ \cup {b.address} |->
                                     IF a = b.address THEN b ELSE @[a]]]
Take(t, address) == [t EXCEPT !.blocks = [a \in DOMAIN @ \ {address} |-> @[a]]]
Shelve(t, b) == [t EXCEPT !.freed = Append(@, b)]
Unshelve(t, address) ==
  LET at == {i \in DOMAIN t.freed : t.freed[i].address = address}
  IN  [t EXCEPT !.freed = IF at = {} THEN @ ELSE RemoveAt(@, Min(at))]

----------------------------------------------------------------------------
(* The journal. *)

mark == dropped + Len(journal)

\* Mutant: a block that came off the free list does not go back to it.
UndoneForgetful(t, e) ==
  IF e.what = "alloc" THEN Take(t, e.block.address)
  ELSE Put(Unshelve(t, e.block.address), e.block)

\* _undo, for one entry.
Undone(t, e) ==
  IF e.what = "alloc"
  THEN IF e.reused THEN Shelve(Take(t, e.block.address), e.block)
       ELSE Take(t, e.block.address)
  ELSE Put(Unshelve(t, e.block.address), e.block)

\* The tables after the journal is undone down to a mark, newest entry first.
UndoneTo(m) ==
  LET undone[k \in m..mark] ==
        IF k = mark THEN tables ELSE Undone(undone[k + 1], journal[k + 1 - dropped])
  IN  undone[m]

\* The best fit, and of those the first in the free list.
Fits(list, want) == {i \in DOMAIN list : list[i].capacity >= want}
Fit(list, want) ==
  CHOOSE i \in Fits(list, want) : \A j \in Fits(list, want) :
    \/ list[i].capacity < list[j].capacity
    \/ list[i].capacity = list[j].capacity /\ i <= j

Want(size) == IF size = 0 THEN Align ELSE RoundUp(size, Align)

Allocated(what, block, reused) == [what |-> what, block |-> block, reused |-> reused]

----------------------------------------------------------------------------
(* What the functions do, as what becomes of the tables, the top and the   *)
(* journal.  Asking for the impossible raises, and changes nothing.        *)

AsIs == [t |-> tables, top |-> top, journal |-> journal]

\* Mutant: the block reused stays on the free list.
AllocateTwice(size) ==
  LET want == Want(size)
      new == Block(top, size, want)
  IN  IF Fits(freed, want) # {}
      THEN LET b == freed[Fit(freed, want)]
           IN  {[t |-> Put(tables, [b EXCEPT !.size = size]), top |-> top,
                 journal |-> Append(journal, Allocated("alloc", b, TRUE))]}
      ELSE IF top + want > Size THEN {}
      ELSE {[t |-> Put(tables, new), top |-> top + want,
             journal |-> Append(journal, Allocated("alloc", new, FALSE))]}

\* Heap.allocate: the tables afterwards, unless the heap is full.
Allocate(size) ==
  LET want == Want(size)
      new == Block(top, size, want)
  IN  IF Fits(freed, want) # {}
      THEN LET b == freed[Fit(freed, want)]
           IN  {[t |-> Put(Unshelve(tables, b.address), [b EXCEPT !.size = size]), top |-> top,
                 journal |-> Append(journal, Allocated("alloc", b, TRUE))]}
      ELSE IF top + want > Size THEN {}
      ELSE {[t |-> Put(tables, new), top |-> top + want,
             journal |-> Append(journal, Allocated("alloc", new, FALSE))]}

\* Heap.release of a block that is allocated.
Release(r, address) ==
  LET b == r.t.blocks[address]
  IN  [r EXCEPT !.t = Shelve(Take(@, address), b),
                !.journal = Append(@, Allocated("free", b, FALSE))]

\* Stubs.malloc
Malloc(size) == Allocate(IF size = 0 THEN 1 ELSE size)

\* _realloc of a block that is allocated: given up, kept where it is, moved,
\* or left alone because there is no room.
Realloc(old, size) ==
  IF size = 0 THEN {Release(AsIs, old)}
  ELSE IF blocks[old].capacity >= size
  THEN {[AsIs EXCEPT !.t = Put(tables, [blocks[old] EXCEPT !.size = size])]}
  ELSE {Release(r, old) : r \in Malloc(size)}

Becomes(outcomes) ==
  \E r \in IF outcomes = {} THEN {AsIs} ELSE outcomes :
    /\ blocks' = r.t.blocks /\ freed' = r.t.freed
    /\ top' = r.top /\ journal' = r.journal
    /\ mapped' = IF RoundUp(r.top, Page) > mapped THEN RoundUp(r.top, Page) ELSE mapped
    /\ UNCHANGED dropped

\* The snapshot goes into the log before the function is called.
Logged ==
  /\ Len(log) < MaxCalls
  /\ log' = Append(log, [top |-> top, mapped |-> mapped, mark |-> mark, was |-> tables])

CallMalloc == "malloc" \in Ops /\ Logged /\ \E n \in Sizes : Becomes(Malloc(n))

CallFree ==
  "free" \in Ops /\ Logged /\ \E a \in DOMAIN blocks : Becomes({Release(AsIs, a)})

CallRealloc ==
  "realloc" \in Ops /\ Logged /\ \E a \in DOMAIN blocks, n \in Sizes : Becomes(Realloc(a, n))

----------------------------------------------------------------------------
(* Going back, and forgetting. *)

\* EffectLog.truncate to before the i-th call, then Heap.restore.
Rewind(i) ==
  /\ LET snap == log[i]
         t == UndoneTo(snap.mark)
     IN  /\ blocks' = t.blocks /\ freed' = t.freed
         /\ top' = snap.top /\ mapped' = snap.mapped
         /\ journal' = SubSeq(journal, 1, snap.mark - dropped)
  /\ log' = SubSeq(log, 1, i - 1)
  /\ UNCHANGED dropped

\* Mutant: the journal entry of the oldest snapshot kept goes as well.
KeptShort(entries) == IF entries = <<>> THEN mark ELSE Head(entries).mark + 1

\* How much of the journal nothing can reach any more.
Kept(entries) == IF entries = <<>> THEN mark ELSE Head(entries).mark

\* EffectLog.forget_before, which drops the n oldest entries, then Heap.forget.
Forget(n) ==
  /\ log' = SubSeq(log, n + 1, Len(log))
  /\ LET keep == Kept(log') - dropped
     IN  IF keep > 0
         THEN journal' = SubSeq(journal, keep + 1, Len(journal)) /\ dropped' = dropped + keep
         ELSE UNCHANGED <<journal, dropped>>
  /\ UNCHANGED <<blocks, freed, top, mapped>>

Init ==
  /\ blocks = <<>> /\ freed = <<>>
  /\ top = 0 /\ mapped = 0
  /\ journal = <<>> /\ dropped = 0
  /\ log = <<>>

Next ==
  \/ CallMalloc \/ CallFree \/ CallRealloc
  \/ \E i \in DOMAIN log : Rewind(i) \/ Forget(i)

Spec == Init /\ [][Next]_vars

\* Only how much is left of the journal matters, not how much there was.
View == <<blocks, freed, top, mapped, journal,
          [i \in DOMAIN log |-> [log[i] EXCEPT !.mark = @ - dropped]]>>

----------------------------------------------------------------------------
(* Properties. *)

Overlap(b, c) ==
  b.address < c.address + c.capacity /\ c.address < b.address + b.capacity

\* No two blocks, live or freed, share a byte, every block holds what was
\* asked for, and all of them lie in the part of the heap that is mapped,
\* however often the allocator has been rewound (stubs.py, Heap and
\* Stubs.malloc).
Sound ==
  LET all == Live(tables) \cup Free(tables) IN
  /\ Cardinality(all) = Cardinality(DOMAIN blocks) + Len(freed)
  /\ \A b, c \in all : b # c => ~Overlap(b, c)
  /\ \A b \in all : b.size <= b.capacity /\ b.address + b.capacity <= top
  /\ top <= Size /\ top <= mapped

\* The blocks by place alone.
Places(bs) == {[address |-> b.address, capacity |-> b.capacity] : b \in bs}

\* Whatever is still in the log can be undone: the journal reaches back to
\* its snapshot, and undoing that far finds the blocks that were live and the
\* blocks that were free then (stubs.py, snapshot, restore and forget).
Undoable ==
  \A i \in DOMAIN log :
    /\ log[i].mark >= dropped
    /\ LET t == UndoneTo(log[i].mark) IN
         /\ Places(Live(t)) = Places(Live(log[i].was))
         /\ Places(Free(t)) = Places(Free(log[i].was))

\* And each with the size it had: what realloc copies depends on it
\* (stubs.py, "What each operation did, so that it can be undone").
SizesUndone ==
  \A i \in DOMAIN log : LET t == UndoneTo(log[i].mark) IN
    Live(t) = Live(log[i].was) /\ Free(t) = Free(log[i].was)

\* And a request is answered from the free list as it was the first time
\* (README.md:512-514, "running forward again gives exactly the same bytes at
\* exactly the same address").
AnswersUndone ==
  \A i \in DOMAIN log : LET list == UndoneTo(log[i].mark).freed
                            was == log[i].was.freed
                        IN  \A n \in Sizes : Fits(was, Want(n)) # {} =>
                              list[Fit(list, Want(n))] = was[Fit(was, Want(n))]
=============================================================================
