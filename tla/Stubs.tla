------------------------------- MODULE Stubs --------------------------------
(***************************************************************************)
(* The library under the program (ghidraunicorn/stubs.py): functions bound *)
(* at addresses, what each does to memory, to the heap and to the result,  *)
(* what of it is written down, and that it can be undone and replayed.     *)
(*                                                                         *)
(* A step is a call, from the arrival at an address to the return.  Memory *)
(* is bytes by address, a string the sequence of its bytes; 0 is both NULL *)
(* and NUL.  The allocator is that of Heap.                                *)
(***************************************************************************)
EXTENDS Integers, Sequences, FiniteSets, SequencesExt, FiniteSetsExt

CONSTANTS
  Data,                  \* the program's own memory: addresses
  Contents,              \* what may be in it: a set of functions from Data
  Bytes,                 \* values of a byte
  HeapBase, HeapSize, Align, Page,
  Chunk, Limit,          \* read_cstring: how much at once, and at most
  MaxTransfer,           \* MAX_TRANSFER
  Word,                  \* 2^bits
  Absent, Real,          \* no memory; the result of a function not stood in for
  Implemented,           \* the functions, each bound where the program calls it
  Others,                \* addresses of functions where nothing is bound
  Ptrs, Numbers, Chars, Sizes, Resizes,
                         \* what the program passes
  Binds, Unbinds,        \* <<name, address>> the user binds, addresses unbound
  Careless,              \* whether an address is unbound that has been called
  MaxCalls               \* bound

ASSUME LayoutAssumption ==
  /\ {HeapBase, HeapSize, Align, Page, Chunk, Limit} \subseteq Nat \ {0}
  /\ Data \subseteq Nat /\ \A a \in Data : 0 < a /\ a < HeapBase
  /\ Contents \subseteq [Data -> Bytes] /\ 0 \in Bytes /\ Absent \notin Bytes

\* The keys of IMPLEMENTATIONS: there is nothing else to bind.
Names == {"malloc", "calloc", "realloc", "free", "memcpy", "memmove", "memset", "memcmp",
          "strlen", "strcpy", "strncpy", "strcat", "strncat", "strcmp", "strncmp", "strchr",
          "strrchr", "strstr", "strdup", "puts", "putchar", "exit", "abort"}

ASSUME ArgumentsAssumption ==
  /\ Implemented \subseteq Names /\ \A b \in Binds : b[1] \in Names
  /\ Ptrs \cup Numbers \cup Sizes \cup Resizes \subseteq Nat /\ Chars \subseteq Bytes

VARIABLES
  machine,               \* what the program sees: memory and the result
  heap,                  \* Stubs.heap
  bound,                 \* Stubs.bound
  log,                   \* what was written down of each call so far, if anything
  exited,                \* the target has been told that the program ended
  past                   \* history variable: <<machine, heap>> before each call and now

vars == <<machine, heap, bound, log, exited, past>>

H == INSTANCE Heap WITH Size <- HeapSize, Ops <- {}, blocks <- heap.blocks,
       freed <- heap.freed, top <- heap.top, mapped <- heap.mapped,
       journal <- heap.journal, dropped <- 0, log <- <<>>

Addresses == 1..(HeapBase + H!RoundUp(HeapSize, Page))
Span(a, n) == a..(a + n - 1)
Least(a, b) == IF a < b THEN a ELSE b

----------------------------------------------------------------------------
(* What an implementation works with: s is a call in progress. *)

Nothing == [writes |-> <<>>, maps |-> {}, output |-> <<>>]

Entered == [mem |-> machine.mem, heap |-> heap, did |-> Nothing, ret |-> {},
            failed |-> FALSE, stop |-> FALSE]

Answer(s, value) == [s EXCEPT !.ret = {value % Word}]
Fail(s) == [s EXCEPT !.failed = TRUE, !.ret = {0}]

Mapped(mem, addresses) == \A a \in addresses : a \in DOMAIN mem /\ mem[a] # Absent

At(mem, a, n) == [i \in 1..n |-> mem[a + i - 1]]

\* Stubs.read: the bytes, unless there are too many or not all there.
Read(s, a, n) ==
  IF n <= MaxTransfer /\ Mapped(s.mem, Span(a, n)) THEN {At(s.mem, a, n)} ELSE {}

\* Stubs.read_cstring: up to the first NUL, read a chunk at a time.
CString(s, a) ==
  {At(s.mem, a, n) : n \in {n \in 0..(Limit - 1) :
     /\ Mapped(s.mem, Span(a, Least(H!RoundUp(n + 1, Chunk), Limit)))
     /\ s.mem[a + n] = 0
     /\ \A i \in 0..(n - 1) : s.mem[a + i] # 0}}

\* Stubs.write: nothing to write is not an access.
Write(s, a, data) ==
  IF data = <<>> THEN s
  ELSE IF ~Mapped(s.mem, Span(a, Len(data))) THEN Fail(s)
  ELSE [s EXCEPT
    !.mem = [b \in DOMAIN @ |-> IF b \in Span(a, Len(data)) THEN data[b - a + 1] ELSE @[b]],
    !.did.writes = Append(@, <<a, data>>)]

\* Then, unless it has failed, it answers.
Then(s, value) == IF s.failed THEN s ELSE Answer(s, value)

\* Stubs.malloc: what of the arena is not there yet is mapped.
Malloc(s, size) ==
  LET got == H!Malloc(size) IN
  IF got = {} THEN Fail(s)
  ELSE LET r == CHOOSE r \in got : TRUE
           need == IF H!RoundUp(r.top, Page) > heap.mapped THEN H!RoundUp(r.top, Page)
                   ELSE heap.mapped
           new == Span(HeapBase + heap.mapped, need - heap.mapped)
       IN  [s EXCEPT
             !.heap = [blocks |-> r.t.blocks, freed |-> r.t.freed, top |-> r.top,
                       journal |-> r.journal, mapped |-> need],
             !.mem = [a \in DOMAIN @ |-> IF a \in new THEN 0 ELSE @[a]],
             !.did.maps = @ \cup new,
             !.ret = {HeapBase + r.journal[Len(r.journal)].block.address}]

Got(s) == CHOOSE a \in s.ret : TRUE

Release(s, a) ==
  IF a - HeapBase \notin DOMAIN s.heap.blocks THEN Fail(s)
  ELSE LET r == H!Release([t |-> [blocks |-> s.heap.blocks, freed |-> s.heap.freed],
                           top |-> s.heap.top, journal |-> s.heap.journal], a - HeapBase)
       IN  [s EXCEPT !.heap.blocks = r.t.blocks, !.heap.freed = r.t.freed,
                     !.heap.journal = r.journal]

\* For a function that first reads strings, each of which may not be there.
Given(s, strings, Do(_)) ==
  IF strings = {} THEN Fail(s) ELSE Do(CHOOSE text \in strings : TRUE)

----------------------------------------------------------------------------
(* The implementations. *)

Fill(value, n) == [i \in 1..n |-> value]

Calloc(s, n, size) ==
  LET got == Malloc(s, n * size) IN
  IF got.failed THEN got
  ELSE Then(Write(got, Got(got), Fill(0, IF n * size = 0 THEN 1 ELSE n * size)), Got(got))

\* A pointer that is no block gets a new one all the same.
Realloc(s, old, size) ==
  LET blocks == heap.blocks
      b == blocks[old - HeapBase]
      known == old - HeapBase \in DOMAIN blocks
      got == Malloc(s, size)
  IN  IF old = 0 THEN got
      ELSE IF size = 0 THEN Then(Release(s, old), 0)
      ELSE IF known /\ b.capacity >= size
           THEN Answer([s EXCEPT !.heap.blocks[old - HeapBase].size = size], old)
      ELSE IF got.failed \/ ~known THEN got
      ELSE Given(got, Read(got, old, Least(b.size, size)),
                 LAMBDA data : Release(Then(Write(got, Got(got), data), Got(got)), old))

Free(s, a) == IF a = 0 THEN s ELSE Release(s, a)

\* _memcpy and _memmove: all of it is read before any is written.
Memmove(s, dst, src, n) ==
  IF n = 0 THEN Answer(s, dst)
  ELSE Given(s, Read(s, src, n), LAMBDA data : Then(Write(s, dst, data), dst))

Memset(s, dst, value, n) ==
  IF n > MaxTransfer THEN Fail(s) ELSE Then(Write(s, dst, Fill(value, n)), dst)

\* _cmp: how Python orders bytes.
Cmp(left, right) ==
  LET before == \/ IsPrefix(left, right)
                \/ \E i \in 1..Least(Len(left), Len(right)) :
                     left[i] < right[i] /\ SubSeq(left, 1, i - 1) = SubSeq(right, 1, i - 1)
  IN  IF left = right THEN 0 ELSE IF before THEN -1 ELSE 1

Memcmp(s, a, b, n) ==
  IF n = 0 THEN Answer(s, 0)
  ELSE Given(s, Read(s, a, n), LAMBDA l :
         Given(s, Read(s, b, n), LAMBDA r : Answer(s, Cmp(l, r))))

First(text, n) == SubSeq(text, 1, Least(n, Len(text)))
NUL == <<0>>

Strlen(s, a) == Given(s, CString(s, a), LAMBDA text : Answer(s, Len(text)))

Strcpy(s, dst, src) ==
  Given(s, CString(s, src), LAMBDA text : Then(Write(s, dst, text \o NUL), dst))

\* Mutant: the copy always ends in a NUL and is not padded.
StrncpyTerminated(s, dst, src, n) ==
  IF n > MaxTransfer THEN Fail(s)
  ELSE Given(s, CString(s, src), LAMBDA text : Then(Write(s, dst, First(text, n) \o NUL), dst))

Strncpy(s, dst, src, n) ==
  IF n > MaxTransfer THEN Fail(s)
  ELSE Given(s, CString(s, src), LAMBDA text :
         Then(Write(s, dst, First(text, n) \o Fill(0, n - Len(First(text, n)))), dst))

Strncat(s, dst, src, n) ==
  Given(s, CString(s, dst), LAMBDA old :
    Given(s, CString(s, src), LAMBDA text :
      Then(Write(s, dst + Len(old), First(text, n) \o NUL), dst)))

Strcat(s, dst, src) == Strncat(s, dst, src, Limit)

Strncmp(s, a, b, n) ==
  Given(s, CString(s, a), LAMBDA l :
    Given(s, CString(s, b), LAMBDA r : Answer(s, Cmp(First(l, n), First(r, n)))))

Strcmp(s, a, b) == Strncmp(s, a, b, Limit)

\* _strchr and _strrchr: the terminator counts.
Places(text, ch) == {i \in 1..(Len(text) + 1) : Append(text, 0)[i] = ch}

Strchr(s, a, ch) ==
  Given(s, CString(s, a), LAMBDA text :
    Answer(s, IF Places(text, ch) = {} THEN 0 ELSE a + Min(Places(text, ch)) - 1))

Strrchr(s, a, ch) ==
  Given(s, CString(s, a), LAMBDA text :
    Answer(s, IF Places(text, ch) = {} THEN 0 ELSE a + Max(Places(text, ch)) - 1))

Strdup(s, a) ==
  Given(s, CString(s, a), LAMBDA text :
    LET got == Malloc(s, Len(text) + 1) IN
    IF got.failed THEN got ELSE Then(Write(got, Got(got), text \o NUL), Got(got)))

Strstr(s, a, b) ==
  Given(s, CString(s, a), LAMBDA hay : Given(s, CString(s, b), LAMBDA needle :
    LET found == {i \in 0..(Len(hay) - Len(needle)) :
                    SubSeq(hay, i + 1, i + Len(needle)) = needle}
    IN  Answer(s, IF found = {} THEN 0 ELSE a + Min(found))))

Output(s, data) == [s EXCEPT !.did.output = Append(@, data)]

Puts(s, a) == Given(s, CString(s, a), LAMBDA text : Answer(Output(s, text \o <<"\n">>), 0))

Putchar(s, ch) == Answer(Output(s, <<ch>>), ch)

\* _exit and _abort
Exit(s) == [s EXCEPT !.stop = TRUE]

\* IMPLEMENTATIONS, given the arguments it takes.
Perform(s, name, x) ==
  CASE name = "malloc" -> Malloc(s, x[1])
    [] name = "calloc" -> Calloc(s, x[1], x[2])
    [] name = "realloc" -> Realloc(s, x[1], x[2])
    [] name = "free" -> Free(s, x[1])
    [] name \in {"memcpy", "memmove"} -> Memmove(s, x[1], x[2], x[3])
    [] name = "memset" -> Memset(s, x[1], x[2], x[3])
    [] name = "memcmp" -> Memcmp(s, x[1], x[2], x[3])
    [] name = "strlen" -> Strlen(s, x[1])
    [] name = "strcpy" -> Strcpy(s, x[1], x[2])
    [] name = "strncpy" -> Strncpy(s, x[1], x[2], x[3])
    [] name = "strcat" -> Strcat(s, x[1], x[2])
    [] name = "strncat" -> Strncat(s, x[1], x[2], x[3])
    [] name = "strcmp" -> Strcmp(s, x[1], x[2])
    [] name = "strncmp" -> Strncmp(s, x[1], x[2], x[3])
    [] name = "strchr" -> Strchr(s, x[1], x[2])
    [] name = "strrchr" -> Strrchr(s, x[1], x[2])
    [] name = "strstr" -> Strstr(s, x[1], x[2])
    [] name = "strdup" -> Strdup(s, x[1])
    [] name = "puts" -> Puts(s, x[1])
    [] name = "putchar" -> Putchar(s, x[1])
    [] name \in {"exit", "abort"} -> Exit(s)

\* What a program passes to each.
Pointers == Ptrs \cup {HeapBase + a : a \in DOMAIN heap.blocks}
Args(name) ==
  CASE name = "malloc" -> {<<n>> : n \in Sizes}
    [] name = "calloc" -> {<<n, 2>> : n \in Sizes}
    [] name = "realloc" -> Pointers \X Resizes
    [] name \in {"free", "strlen", "strdup", "puts"} -> {<<p>> : p \in Pointers}
    [] name \in {"memcpy", "memmove", "memcmp", "strncpy", "strncat", "strncmp"} ->
         Pointers \X Pointers \X Numbers
    [] name = "memset" -> Pointers \X Chars \X Numbers
    [] name \in {"strcpy", "strcat", "strcmp", "strstr"} -> Pointers \X Pointers
    [] name \in {"strchr", "strrchr"} -> Pointers \X Chars
    [] name = "putchar" -> {<<ch>> : ch \in Chars}
    [] name \in {"exit", "abort"} -> {<<>>}

----------------------------------------------------------------------------
(* Standing in, undoing and replaying. *)

NotLogged(address) == [at |-> address, logged |-> FALSE]

\* _return: the result, if there is one, goes where the caller looks for it.
Return(ret, result) == IF result = {} THEN ret ELSE CHOOSE value \in result : TRUE

\* Mutant: the arena grows outside the record.
RecordedUnmapped(address, s) ==
  [at |-> address, logged |-> TRUE, did |-> [s.did EXCEPT !.maps = {}], ret |-> s.ret,
   before |-> [top |-> heap.top, mapped |-> heap.mapped, mark |-> Len(heap.journal)]]

\* EffectLog.recording, and Heap.snapshot.
Recorded(address, s) ==
  [at |-> address, logged |-> TRUE, did |-> s.did, ret |-> s.ret,
   before |-> [top |-> heap.top, mapped |-> heap.mapped, mark |-> Len(heap.journal)]]

Remember == past' = Append(past, <<machine', heap'>>)

\* _on_code of what is bound at an address the program calls.
Call(address, x) ==
  /\ address \in DOMAIN bound
  /\ LET s == Perform(Entered, bound[address], x)
     IN  /\ machine' = [mem |-> s.mem, ret |-> Return(machine.ret, s.ret)]
         /\ heap' = s.heap
         /\ log' = Append(log, Recorded(address, s))
         /\ exited' = s.stop

\* Nothing is bound there: the function itself runs.
CallReal(address) ==
  /\ address \notin DOMAIN bound
  /\ machine' = [machine EXCEPT !.ret = Real]
  /\ log' = Append(log, NotLogged(address))
  /\ UNCHANGED <<heap, exited>>

Step ==
  /\ ~exited /\ Len(log) < MaxCalls
  /\ \/ \E address \in DOMAIN bound : \E x \in Args(bound[address]) : Call(address, x)
     \/ \E address \in Implemented \cup Others : CallReal(address)
  /\ Remember /\ UNCHANGED bound

\* bind, in place of what was bound there.
Bind(name, address) ==
  /\ bound' = [a \in DOMAIN bound \cup {address} |-> IF a = address THEN name ELSE bound[a]]
  /\ UNCHANGED <<machine, heap, log, exited, past>>

Unbind(address) ==
  /\ Careless \/ \A i \in DOMAIN log : log[i].at # address
  /\ bound' = [a \in DOMAIN bound \ {address} |-> bound[a]]
  /\ UNCHANGED <<machine, heap, log, exited, past>>

\* EffectLog.replay: regions, then memory, then the result.
Apply(m, e) ==
  LET mapped == [a \in DOMAIN m.mem |->
                   IF a \in e.did.maps /\ m.mem[a] = Absent THEN 0 ELSE m.mem[a]]
      Store(mem, w) ==
        IF Mapped(mem, Span(w[1], Len(w[2])))
        THEN [a \in DOMAIN mem |-> IF a \in Span(w[1], Len(w[2])) THEN w[2][a - w[1] + 1] ELSE mem[a]]
        ELSE mem
      stored[i \in 0..Len(e.did.writes)] ==
        IF i = 0 THEN mapped ELSE Store(stored[i - 1], e.did.writes[i])
  IN  [mem |-> stored[Len(e.did.writes)], ret |-> Return(m.ret, e.ret)]

\* _on_code in a replay: what is bound now has its hook, and looks up what
\* was written down; without a hook the function itself runs.
Replay(m, e) ==
  IF e.at \in DOMAIN bound /\ e.logged THEN Apply(m, e) ELSE [m EXCEPT !.ret = Real]

\* What replaying calls makes of a machine.
Replayed(m, calls) ==
  LET after[i \in 0..Len(calls)] == IF i = 0 THEN m ELSE Replay(after[i - 1], calls[i])
  IN  after[Len(calls)]

\* Mutant: the top and the journal are put back, the tables are not.
RestoreTop(h, snap) == [h EXCEPT !.top = snap.top, !.mapped = snap.mapped,
                                 !.journal = SubSeq(@, 1, snap.mark)]

\* Heap.restore
Restore(h, snap) ==
  LET t == H!UndoneTo(snap.mark)
  IN  [blocks |-> t.blocks, freed |-> t.freed, top |-> snap.top, mapped |-> snap.mapped,
       journal |-> SubSeq(h.journal, 1, snap.mark)]

\* _go(k), from a checkpoint after c calls: those from there on are replayed,
\* the log is truncated, and the oldest entry dropped says what the heap was.
Rewind(k, c) ==
  LET gone == {i \in (k + 1)..Len(log) : log[i].logged} IN
  /\ machine' = Replayed(past[c + 1][1], SubSeq(log, c + 1, k))
  /\ log' = SubSeq(log, 1, k)
  /\ heap' = IF gone = {} THEN heap ELSE Restore(heap, log[Min(gone)].before)
  /\ exited' = (exited /\ k = Len(log))
  /\ past' = SubSeq(past, 1, k + 1)
  /\ UNCHANGED bound

Init ==
  /\ \E c \in Contents :
       machine = [mem |-> [a \in Addresses |-> IF a \in Data THEN c[a] ELSE Absent], ret |-> 0]
  /\ heap = [blocks |-> <<>>, freed |-> <<>>, top |-> 0, mapped |-> 0, journal |-> <<>>]
  /\ bound = [name \in Implemented |-> name]
  /\ log = <<>> /\ exited = FALSE
  /\ past = <<<<machine, heap>>>>

Next ==
  \/ Step
  \/ \E b \in Binds : Bind(b[1], b[2])
  \/ \E address \in Unbinds \cap DOMAIN bound : Unbind(address)
  \/ \E k \in 0..Len(log) : \E c \in 0..k : Rewind(k, c)

Spec == Init /\ [][Next]_vars

----------------------------------------------------------------------------
(* What the C library says, for a call it defines. *)

IsString(m, a, n) == Mapped(m, Span(a, n + 1)) /\ m[a + n] = 0 /\ \A i \in 0..(n - 1) : m[a + i] # 0
Terminated(m, a) == \E n \in 0..Limit : IsString(m, a, n)
Length(m, a) == CHOOSE n \in 0..Limit : IsString(m, a, n)
Apart(a, n, b, k) == Span(a, n) \cap Span(b, k) = {}

\* The byte a function that stops at NUL or after n sees at i.
Padded(m, a, i) == IF \E j \in 0..i : m[a + j] = 0 THEN 0 ELSE m[a + i]
Seen(m, a, n) ==
  Mapped(m, {a}) /\ (Mapped(m, Span(a, n)) \/ (Terminated(m, a) /\ Length(m, a) < n))

Copied(m, s, dst, n, Byte(_)) ==
  \A a \in DOMAIN m : s.mem[a] = IF a \in Span(dst, n) THEN Byte(a - dst) ELSE m[a]
Unchanged(s) == s.mem = machine.mem
Sign(v) == IF v = 0 THEN 0 ELSE IF v < Word \div 2 THEN 1 ELSE -1
Result(s, v) == s.ret = {v}

\* The sign of the first difference among n bytes, NUL ending both.
Compared(m, a, b, n, Byte(_, _, _)) ==
  LET differ == {i \in 0..(n - 1) : Byte(m, a, i) # Byte(m, b, i)}
      i == Min(differ)
  IN  IF differ = {} THEN 0 ELSE IF Byte(m, a, i) < Byte(m, b, i) THEN -1 ELSE 1
Plain(m, a, i) == m[a + i]

\* A block no live block shares a byte with, with room for n.
Fresh(s, n) ==
  LET a == Got(s) - HeapBase IN
  \/ Result(s, 0)
  \/ /\ Mapped(s.mem, Span(Got(s), n))
     /\ \A b \in DOMAIN heap.blocks : Apart(a, n, b, heap.blocks[b].size)
Elsewhere(s, n) ==
  \A a \in DOMAIN machine.mem : machine.mem[a] # Absent =>
    a \in Span(Got(s), IF n = 0 THEN 1 ELSE n) \/ s.mem[a] = machine.mem[a]
Asked(p) == past[Len(past)][2].blocks[p - HeapBase].size

LibcAllocates(name, x, s) ==
  CASE name = "malloc" \/ (name = "realloc" /\ x[1] = 0) ->
         LET n == x[Len(x)] IN Fresh(s, n) /\ (Result(s, 0) \/ Elsewhere(s, n))
    [] name = "calloc" ->
         LET n == x[1] * x[2] IN
         /\ Fresh(s, n)
         /\ Result(s, 0) \/ (Elsewhere(s, n) /\ \A a \in Span(Got(s), n) : s.mem[a] = 0)
    [] name = "realloc" /\ x[1] # 0 /\ x[2] # 0 ->
         x[1] - HeapBase \in DOMAIN heap.blocks =>
           \/ Result(s, 0) /\ Unchanged(s)
           \/ /\ Result(s, x[1]) \/ Fresh(s, x[2])
              /\ \A i \in 0..(Least(Asked(x[1]), x[2]) - 1) : s.mem[Got(s) + i] = machine.mem[x[1] + i]
              /\ Elsewhere(s, x[2])
    [] name = "strdup" ->
         Terminated(machine.mem, x[1]) =>
           LET n == Length(machine.mem, x[1]) + 1 IN
           /\ Fresh(s, n)
           /\ Result(s, 0) \/ (/\ Elsewhere(s, n)
                               /\ \A i \in 0..(n - 1) : s.mem[Got(s) + i] = machine.mem[x[1] + i])
    [] OTHER -> TRUE

LibcMoves(name, m, x, s) ==
  CASE name \in {"memcpy", "memmove"} ->
         (/\ Mapped(m, Span(x[1], x[3])) /\ Mapped(m, Span(x[2], x[3]))
          /\ name = "memmove" \/ Apart(x[1], x[3], x[2], x[3]))
         => Copied(m, s, x[1], x[3], LAMBDA i : m[x[2] + i]) /\ Result(s, x[1])
    [] name = "memset" ->
         Mapped(m, Span(x[1], x[3])) => Copied(m, s, x[1], x[3], LAMBDA i : x[2]) /\ Result(s, x[1])
    [] name = "strcpy" ->
         Terminated(m, x[2]) =>
           LET n == Length(m, x[2]) + 1 IN
           Mapped(m, Span(x[1], n)) /\ Apart(x[1], n, x[2], n)
           => Copied(m, s, x[1], n, LAMBDA i : m[x[2] + i]) /\ Result(s, x[1])
    [] name = "strncpy" ->
         Seen(m, x[2], x[3]) /\ Mapped(m, Span(x[1], x[3])) /\ Apart(x[1], x[3], x[2], x[3])
         => Copied(m, s, x[1], x[3], LAMBDA i : Padded(m, x[2], i)) /\ Result(s, x[1])
    [] name \in {"strcat", "strncat"} ->
         LET n == IF name = "strcat" THEN Limit ELSE x[3] IN
         Terminated(m, x[1]) /\ Seen(m, x[2], n) =>
           LET end == x[1] + Length(m, x[1])
               k == CHOOSE k \in 0..n : /\ k = n \/ m[x[2] + k] = 0
                                        /\ \A i \in 0..(k - 1) : m[x[2] + i] # 0
           IN  Mapped(m, Span(end, k + 1)) /\ Apart(x[1], end + k + 1 - x[1], x[2], k + 1)
               => /\ Copied(m, s, end, k + 1, LAMBDA i : IF i = k THEN 0 ELSE m[x[2] + i])
                  /\ Result(s, x[1])
    [] OTHER -> TRUE

LibcFinds(name, m, x, s) ==
  CASE name = "memcmp" ->
         Mapped(m, Span(x[1], x[3])) /\ Mapped(m, Span(x[2], x[3]))
         => Sign(Got(s)) = Compared(m, x[1], x[2], x[3], Plain)
    [] name = "strncmp" ->
         Seen(m, x[1], x[3]) /\ Seen(m, x[2], x[3])
         => Sign(Got(s)) = Compared(m, x[1], x[2], x[3], Padded)
    [] name = "strcmp" ->
         Terminated(m, x[1]) /\ Terminated(m, x[2])
         => LET n == 1 + IF Length(m, x[1]) > Length(m, x[2]) THEN Length(m, x[2]) ELSE Length(m, x[1])
            IN  Sign(Got(s)) = Compared(m, x[1], x[2], n, Padded)
    [] name = "strlen" -> Terminated(m, x[1]) => Result(s, Length(m, x[1]))
    [] name \in {"strchr", "strrchr"} ->
         Terminated(m, x[1]) =>
           LET at == {a \in Span(x[1], Length(m, x[1]) + 1) : m[a] = x[2]} IN
           Result(s, IF at = {} THEN 0 ELSE IF name = "strchr" THEN Min(at) ELSE Max(at))
    [] name = "strstr" ->
         Terminated(m, x[1]) /\ Terminated(m, x[2]) =>
           LET k == Length(m, x[2])
               at == {a \in Span(x[1], Length(m, x[1]) + 1) :
                        a + k <= x[1] + Length(m, x[1]) /\ \A i \in 0..(k - 1) : m[a + i] = m[x[2] + i]}
           IN  Result(s, IF at = {} THEN 0 ELSE Min(at))
    [] OTHER -> TRUE

----------------------------------------------------------------------------
(* Properties. *)

\* The strings a function reads, to their ends.
Strings(name, x) ==
  CASE name \in {"strlen", "strchr", "strrchr", "strdup", "puts"} -> {x[1]}
    [] name \in {"strcpy", "strncpy"} -> {x[2]}
    [] name \in {"strcat", "strncat", "strcmp", "strncmp", "strstr"} -> {x[1], x[2]}
    [] OTHER -> {}

\* There is memory for another chunk behind each.
Roomy(name, x) ==
  \A p \in Strings(name, x) :
    /\ Terminated(machine.mem, p)
    /\ Mapped(machine.mem, Span(p, Length(machine.mem, p) + Chunk))

Right(name, x) ==
  LET s == Perform(Entered, name, x) IN
  /\ LibcAllocates(name, x, s)
  /\ LibcMoves(name, machine.mem, x, s)
  /\ LibcFinds(name, machine.mem, x, s)

\* Whatever the program calls next, where C says what the function does, it
\* does that: to the bytes it is given, to every other byte, and with a block
\* that nothing else lives in; whatever was called, undone and called again
\* before (stubs.py, the implementations).
AsLibc == \A name \in Implemented : \A x \in Args(name) : Right(name, x)

\* The same, of calls on strings that do not end at the end of memory.
AsLibcWithRoom ==
  \A name \in Implemented : \A x \in Args(name) : Roomy(name, x) => Right(name, x)

Latest == past[Len(past)]

\* Calls that have been undone and replayed leave the machine as they did
\* when they were made, also where one failed after it had mapped memory, and
\* whatever has been bound since (stubs.py, "A replay must stand in for the
\* function again"; effects.py:99-101).
MachineReplayed == machine = Latest[1]

\* And the allocator goes back with the machine: the same blocks are live and
\* the same are free, in an arena mapped as far (stubs.py, Heap.restore).
HeapRewound ==
  LET Blocks(h) == H!Places({h.blocks[a] : a \in DOMAIN h.blocks})
      Shelved(h) == H!Places(ToSet(h.freed))
  IN  /\ Blocks(heap) = Blocks(Latest[2]) /\ Shelved(heap) = Shelved(Latest[2])
      /\ heap.top = Latest[2].top /\ heap.mapped = Latest[2].mapped
      /\ \A a \in Span(HeapBase, heap.mapped) : machine.mem[a] # Absent
=============================================================================
