------------------------------ MODULE Syscalls ------------------------------
(***************************************************************************)
(* The kernel under the program (ghidraunicorn/syscalls.py): descriptors   *)
(* and their offsets, the break, the mmap arena; how each call changes     *)
(* them and the machine, what of it is written down, also when it fails    *)
(* half way, and that undoing and replaying from there is exact.           *)
(*                                                                         *)
(* Effects is about when calls are served, logged and replayed; this is    *)
(* about what serving them does.  Addresses count units, PAGE of them to a *)
(* page.  A page holds what was last written to it.                        *)
(***************************************************************************)
EXTENDS Integers, Sequences, FiniteSets, SequencesExt, FiniteSetsExt

CONSTANTS
  Contents,              \* path -> what is in the file
  Stdin,                 \* what is in the standard input
  PAGE,
  Own,                   \* the pages of the program itself
  BrkBase, BrkSize,      \* the heap's first address and its size
  ArenaBase, ArenaSize,  \* the mmap arena's
  Absent, Unreadable,    \* no page; a pointer to nowhere
  Fds, Bufs, Counts, Iovs, Paths, Offsets, Addrs, Lengths, Blocks, Wants,
                         \* the arguments programs pass
  MaxCalls               \* bound

ASSUME LayoutAssumption ==
  /\ PAGE \in Nat \ {0}
  /\ \A n \in {BrkBase, BrkSize, ArenaBase, ArenaSize} : n \in Nat /\ n % PAGE = 0
  /\ BrkBase + BrkSize <= ArenaBase
  /\ MaxCalls \in Nat

\* What files are made of.
Bytes == ToSet(Stdin) \cup UNION {ToSet(Contents[path]) : path \in DOMAIN Contents}

\* Registers hold numbers, an offset one with a sign; files hold data, and a
\* page that is not there holds none.
ASSUME ArgumentsAssumption ==
  /\ Fds \cup Offsets \subseteq Int
  /\ Bufs \cup Counts \cup Addrs \cup Lengths \cup Wants \subseteq Nat
  /\ \A iov \in Iovs : Len(iov) \in Nat
  /\ \A b \in Blocks : b # Unreadable => b.addr \in Nat /\ b.length \in Nat /\ b.fd \in Int
  /\ Stdin \in Seq(Bytes) /\ \A path \in DOMAIN Contents : Contents[path] \in Seq(Bytes)
  /\ Absent \notin Seq(Bytes)

VARIABLES
  machine,               \* what the program sees: memory and the last answer
  kernel,                \* the layer: descriptors, break, arena
  log,                   \* EffectLog.entries of this history
  exited,                \* the target has been told that the program ended
  past                   \* history variable: <<machine, kernel>> before each call and now

vars == <<machine, kernel, log, exited, past>>

Up(n) == ((n + PAGE - 1) \div PAGE) * PAGE
Down(n) == (n \div PAGE) * PAGE
Page(a) == a \div PAGE
Span(start, size) == Page(start)..(Page(start + size) - 1)
Pages == 0..(Page(ArenaBase + ArenaSize) - 1)
Zero == <<>>

----------------------------------------------------------------------------
(* What a handler works with: s is a call in progress. *)

Nothing == [writes |-> <<>>, maps |-> {}, unmaps |-> {}, output |-> <<>>]

Entered == [mem |-> machine.mem, kernel |-> kernel, did |-> Nothing, ret |-> 0,
            error |-> "", stop |-> FALSE]

Answer(s, value) == [s EXCEPT !.ret = value]
Fail(s, error) == [s EXCEPT !.error = error]

Mapped(s, pages) == \A p \in pages : p \in Pages /\ s.mem[p] # Absent

\* write_mem: nothing to write is not an access.
WriteMem(s, at, data) ==
  IF data = <<>> THEN s
  ELSE IF ~Mapped(s, {Page(at)}) THEN Fail(s, "EFAULT")
  ELSE [s EXCEPT !.mem[Page(at)] = data, !.did.writes = Append(@, <<Page(at), data>>)]

\* map: Unicorn refuses to map over anything.
CanMap(s, pages) == \A p \in pages : p \in Pages /\ s.mem[p] = Absent

Map(s, pages) ==
  [s EXCEPT !.mem = [p \in Pages |-> IF p \in pages THEN Zero ELSE s.mem[p]],
            !.did.maps = @ \cup pages]

\* unmap: and to unmap what is not there.
Unmap(s, pages) ==
  [s EXCEPT !.mem = [p \in Pages |-> IF p \in pages THEN Absent ELSE s.mem[p]],
            !.did.unmaps = @ \cup pages]

Data(name) == IF name = "<stdin>" THEN Stdin
              ELSE IF name = "<stdout>" THEN <<>> ELSE Contents[name]
Writable(f) == f.name = "<stdout>"
IsOpen(s, fd) == fd \in DOMAIN s.kernel.files
File(s, fd) == s.kernel.files[fd]
Least(a, b) == IF a < b THEN a ELSE b

----------------------------------------------------------------------------
(* The calls. *)

\* sys_read: what was read is consumed before it is known to arrive.
SysRead(s, fd, buf, n) ==
  IF ~IsOpen(s, fd) \/ Writable(File(s, fd)) THEN Fail(s, "EBADF")
  ELSE LET f == File(s, fd)
           data == SubSeq(Data(f.name), f.offset + 1, Least(f.offset + n, Len(Data(f.name))))
           moved == [s EXCEPT !.kernel.files[fd].offset = @ + Len(data)]
       IN  Answer(WriteMem(moved, buf, data), Len(data))

\* read_mem and the sink.
Emit(s, at, n) ==
  IF n = 0 THEN s
  ELSE IF ~Mapped(s, {Page(at)}) THEN Fail(s, "EFAULT")
  ELSE [s EXCEPT !.did.output = Append(@, <<s.mem[Page(at)], n>>)]

SysWrite(s, fd, buf, n) ==
  IF ~IsOpen(s, fd) \/ ~Writable(File(s, fd)) THEN Fail(s, "EBADF")
  ELSE Answer(Emit(s, buf, n), n)

\* sys_writev: what comes before a bad buffer has been written.
SysWritev(s, fd, iov) ==
  IF ~IsOpen(s, fd) \/ ~Writable(File(s, fd)) THEN Fail(s, "EBADF")
  ELSE LET Written(t, b) == IF t.error # "" THEN t
                            ELSE IF b = Unreadable THEN Fail(t, "EFAULT")
                            ELSE Answer(Emit(t, b.base, b.length), t.ret + b.length)
           after[i \in 0..Len(iov)] == IF i = 0 THEN s ELSE Written(after[i - 1], iov[i])
       IN  after[Len(iov)]

\* sys_open, sys_openat, open_file: numbers are not used twice.
SysOpen(s, path) ==
  IF path = Unreadable THEN Fail(s, "EFAULT")
  ELSE IF path \notin DOMAIN Contents THEN Fail(s, "ENOENT")
  ELSE LET fd == s.kernel.next
           files == s.kernel.files
       IN  Answer([s EXCEPT
             !.kernel.next = fd + 1,
             !.kernel.files = [n \in DOMAIN files \cup {fd} |->
                IF n = fd THEN [name |-> path, offset |-> 0] ELSE files[n]]], fd)

\* sys_close: a standard stream stays open.
SysClose(s, fd) ==
  IF ~IsOpen(s, fd) THEN Fail(s, "EBADF")
  ELSE IF fd <= 2 THEN s
  ELSE [s EXCEPT !.kernel.files = [n \in DOMAIN s.kernel.files \ {fd} |-> s.kernel.files[n]]]

SysLseek(s, fd, offset, whence) ==
  IF ~IsOpen(s, fd) THEN Fail(s, "EBADF")
  ELSE IF Writable(File(s, fd)) THEN Fail(s, "ESPIPE")
  ELSE LET from == CASE whence = "SET" -> 0 [] whence = "CUR" -> File(s, fd).offset
                     [] whence = "END" -> Len(Data(File(s, fd).name)) [] OTHER -> 0
       IN  IF whence \notin {"SET", "CUR", "END"} \/ from + offset < 0 THEN Fail(s, "EINVAL")
           ELSE Answer([s EXCEPT !.kernel.files[fd].offset = from + offset], from + offset)

\* The mapping made, a file is copied in; the mapping stays if there is none.
MapFile(s, start, size, fd) ==
  IF ~CanMap(s, Span(start, size)) THEN Fail(s, "ENOMEM")
  ELSE LET m == Map(s, Span(start, size)) IN
       IF fd < 0 THEN Answer(m, start)
       ELSE IF ~IsOpen(m, fd) THEN Fail(m, "EBADF")
       ELSE Answer(WriteMem(m, start, Data(File(m, fd).name)), start)

\* sys_mmap, with fd = -1 for an anonymous mapping and addr = 0 for one that
\* is not fixed, and free_span: an address is spent before it is mapped.
SysMmap(s, addr, length, fd) ==
  LET size == Up(length)
      start == IF addr # 0 THEN Down(addr) ELSE s.kernel.mmapNext
  IN  IF length = 0 THEN Fail(s, "EINVAL")
      ELSE IF addr # 0
           THEN IF Mapped(s, Span(start, size)) THEN Answer(s, start)
                ELSE MapFile(s, start, size, fd)
           ELSE IF start + size > ArenaBase + ArenaSize THEN Fail(s, "ENOMEM")
                ELSE MapFile([s EXCEPT !.kernel.mmapNext = start + size], start, size, fd)

\* sys_old_mmap: the same, with its arguments in memory.
SysOldMmap(s, block) ==
  IF block = Unreadable THEN Fail(s, "EFAULT")
  ELSE SysMmap(s, block.addr, block.length, block.fd)

SysMunmap(s, addr, length) ==
  LET start == Down(addr)
      size == Up(length + (addr - start))
  IN  IF size = 0 \/ ~Mapped(s, Span(start, size)) THEN Fail(s, "EINVAL")
      ELSE Unmap(s, Span(start, size))

\* Mutant: the break moves although the memory could not be had.
SysBrkAnyway(s, want) ==
  LET k == s.kernel
      grown == Span(k.brkMapped, Up(want) - k.brkMapped)
  IN  IF want < BrkBase \/ want > BrkBase + BrkSize THEN Answer(s, k.brk)
      ELSE IF Up(want) <= k.brkMapped THEN Answer([s EXCEPT !.kernel.brk = want], want)
      ELSE Answer([(IF CanMap(s, grown) THEN Map(s, grown) ELSE s)
                     EXCEPT !.kernel.brk = want, !.kernel.brkMapped = Up(want)], want)

\* sys_brk: answers the old break when it cannot move it; memory it has had
\* stays mapped.
SysBrk(s, want) ==
  LET k == s.kernel
      grown == Span(k.brkMapped, Up(want) - k.brkMapped)
  IN  IF want < BrkBase \/ want > BrkBase + BrkSize THEN Answer(s, k.brk)
      ELSE IF Up(want) <= k.brkMapped THEN Answer([s EXCEPT !.kernel.brk = want], want)
      ELSE IF ~CanMap(s, grown) THEN Answer(s, k.brk)
      ELSE Answer([Map(s, grown) EXCEPT !.kernel.brk = want, !.kernel.brkMapped = Up(want)], want)

SysGetpid(s) == Answer(s, 1)

SysExit(s) == [s EXCEPT !.stop = TRUE]

Unknown(s) == Fail(s, "ENOSYS")

----------------------------------------------------------------------------
(* Dispatching, undoing and replaying. *)

\* Mutant: a descriptor still open keeps its offset, as the object it is
\* would if only the table of descriptors were saved.
RestoreTable(k, snap) ==
  [snap EXCEPT !.files = [fd \in DOMAIN @ |->
     IF fd \in DOMAIN k.files THEN [@[fd] EXCEPT !.offset = k.files[fd].offset] ELSE @[fd]]]

\* _snapshot and _restore: the table, each descriptor's offset, the next
\* number, the break and the arena.
Restore(k, snap) ==
  [files |-> [fd \in DOMAIN snap.files |->
                [name |-> snap.files[fd].name, offset |-> snap.files[fd].offset]],
   next |-> snap.next, brk |-> snap.brk, brkMapped |-> snap.brkMapped,
   mmapNext |-> snap.mmapNext]

\* _apply_result: an error, or what the call returns.
Result(s) == IF s.error # "" THEN <<"error", s.error>> ELSE <<"value", s.ret>>

\* Mutant: a call that fails is recorded as having done nothing.
RecordedDone(s) ==
  [did |-> IF s.error # "" THEN Nothing ELSE s.did, answer |-> Result(s), before |-> kernel]

\* EffectLog.recording: what it did until it returned or failed.
Recorded(s) == [did |-> s.did, answer |-> Result(s), before |-> kernel]

\* _dispatch of a call that has been handled.
Dispatch(s) ==
  /\ ~exited /\ Len(log) < MaxCalls
  /\ machine' = [mem |-> s.mem, answer |-> Result(s)]
  /\ kernel' = s.kernel
  /\ log' = Append(log, Recorded(s))
  /\ exited' = s.stop
  /\ past' = Append(past, <<machine', kernel'>>)

\* EffectLog.replay: regions, then memory, then registers; what Unicorn
\* refuses is passed over.
Replay(m, e) ==
  LET mapped == [p \in Pages |-> IF p \in e.did.maps /\ m.mem[p] = Absent THEN Zero ELSE m.mem[p]]
      unmapped == [p \in Pages |-> IF p \in e.did.unmaps THEN Absent ELSE mapped[p]]
      Store(mem, w) == IF mem[w[1]] = Absent THEN mem ELSE [mem EXCEPT ![w[1]] = w[2]]
      stored[i \in 0..Len(e.did.writes)] ==
        IF i = 0 THEN unmapped ELSE Store(stored[i - 1], e.did.writes[i])
  IN  [mem |-> stored[Len(e.did.writes)], answer |-> e.answer]

\* What replaying calls makes of a machine.
Replayed(m, calls) ==
  LET after[i \in 0..Len(calls)] == IF i = 0 THEN m ELSE Replay(after[i - 1], calls[i])
  IN  after[Len(calls)]

\* _go(k), from a checkpoint after c calls: the calls from there on are
\* replayed, the log is truncated, the layer rewound.
Rewind(k, c) ==
  /\ machine' = Replayed(past[c + 1][1], SubSeq(log, c + 1, k))
  /\ log' = SubSeq(log, 1, k)
  /\ kernel' = IF k = Len(log) THEN kernel ELSE Restore(kernel, log[k + 1].before)
  /\ exited' = (exited /\ k = Len(log))
  /\ past' = SubSeq(past, 1, k + 1)

Init ==
  /\ machine = [mem |-> [p \in Pages |-> IF p \in Own THEN Zero ELSE Absent],
                answer |-> <<"value", 0>>]
  /\ kernel = [files |-> [fd \in 0..1 |->
                  [name |-> IF fd = 0 THEN "<stdin>" ELSE "<stdout>", offset |-> 0]],
               next |-> 3, brk |-> BrkBase, brkMapped |-> BrkBase, mmapNext |-> ArenaBase]
  /\ log = <<>> /\ exited = FALSE
  /\ past = <<<<machine, kernel>>>>

Call ==
  \/ \E fd \in Fds, buf \in Bufs, n \in Counts : Dispatch(SysRead(Entered, fd, buf, n))
  \/ \E fd \in Fds, buf \in Bufs, n \in Counts : Dispatch(SysWrite(Entered, fd, buf, n))
  \/ \E fd \in Fds, iov \in Iovs : Dispatch(SysWritev(Entered, fd, iov))
  \/ \E path \in Paths : Dispatch(SysOpen(Entered, path))
  \/ \E fd \in Fds : Dispatch(SysClose(Entered, fd))
  \/ \E fd \in Fds, offset \in Offsets, whence \in {"SET", "CUR", "END", "other"} :
       Dispatch(SysLseek(Entered, fd, offset, whence))
  \/ \E addr \in Addrs, length \in Lengths, fd \in Fds \cup {-1} :
       Dispatch(SysMmap(Entered, addr, length, fd))
  \/ \E block \in Blocks : Dispatch(SysOldMmap(Entered, block))
  \/ \E addr \in Addrs, length \in Lengths : Dispatch(SysMunmap(Entered, addr, length))
  \/ \E want \in Wants : Dispatch(SysBrk(Entered, want))
  \/ Dispatch(SysGetpid(Entered))
  \/ Dispatch(SysExit(Entered))
  \/ Dispatch(Unknown(Entered))

Next ==
  \/ Call
  \/ \E k \in 0..Len(log) : \E c \in 0..k : Rewind(k, c)

Spec == Init /\ [][Next]_vars

----------------------------------------------------------------------------
(* Properties. *)

Latest == past[Len(past)]

\* Undoing calls puts the layer back as it was before them, descriptors that
\* were opened, closed or moved since included (syscalls.py, _snapshot and
\* _restore).
KernelRewound == kernel = Latest[2]

\* Replaying what was written down of the calls gives the machine they gave,
\* also where a call failed after it had mapped or consumed something
\* (effects.py:99-101, "a replay has to reproduce that too").
MachineReplayed == machine = Latest[1]

\* What the program may use of its heap is there: below the break there is no
\* hole the program has not made itself, and descriptors and arena only grow
\* (sys_brk, open_file, free_span).
KernelSound ==
  LET own == UNION {log[i].did.unmaps : i \in DOMAIN log} IN
  /\ BrkBase <= kernel.brk /\ kernel.brk <= kernel.brkMapped
  /\ kernel.brkMapped <= BrkBase + BrkSize
  /\ \A p \in Span(BrkBase, kernel.brkMapped - BrkBase) : machine.mem[p] # Absent \/ p \in own
  /\ \A fd \in DOMAIN kernel.files : fd < kernel.next /\ kernel.files[fd].offset >= 0
  /\ kernel.mmapNext <= ArenaBase + ArenaSize

\* A call that fails has changed nothing, as on the system it stands for.
FailuresDoNothing ==
  [][Len(log') > Len(log) /\ machine'.answer[1] = "error"
       => kernel' = kernel /\ machine'.mem = machine.mem]_vars

\* A break that has been granted can be used, up to the page it ends in.
BreakUsable ==
  [][kernel'.brk > kernel.brk /\ Len(log') > Len(log)
       => \A p \in Span(kernel.brk, Up(kernel'.brk) - kernel.brk) : machine'.mem[p] # Absent]_vars
=============================================================================
