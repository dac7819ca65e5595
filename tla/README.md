# A verification development for ghidra-unicorn

ghidra-unicorn connects Ghidra's debugger to the Unicorn CPU emulator and gives
it what Unicorn has not: breakpoints with conditions, reverse execution,
emulated system calls and library functions, several threads that drive one
engine, batch triage of crashing inputs, and recorded sessions. This directory
holds TLA+ modules of the parts whose correctness depends on the order in which
things happen, modules of the pure algorithms beside them, TLC configurations
that check them on small instances, and proofs for every instance, checked by
TLAPS.

All paths below are relative to `ghidraunicorn/` unless they say otherwise.


## 1. The system

| component | source | state | operations |
|---|---|---|---|
| History | `timeline.py` | `base` (a full snapshot), `checkpoints` (deltas: the pages written since the one before), `dirty`, `icount`, `_next`, `budget` | `note_instruction`, `note_write`, `note_external_write`, `uncount`, `checkpoint`, `_enforce_budget`, `restore`, `truncate`, `advance_to` |
| Effect logs | `effects.py` | `entries`: one record per system call or stubbed call, with the layer's state before it | `recording`, `replay`, `truncate`, `forget_before` |
| System calls | `syscalls.py` | descriptors and offsets, the break, the next mmap address | one handler per call; `_snapshot`, `_restore` |
| Library stubs | `stubs.py` | bound addresses, the `Heap`: blocks, free list, journal | `_on_code`, one function per stub; `bind`, `unbind`; `allocate`, `release`, `snapshot`, `restore`, `forget` |
| Target | `target.py` | Unicorn engine, `_running` and its lock, `_stop`, `_pending`, `_left`, `_first`, `terminated`, breakpoints, `_hits` | `_emulate` (run, step, advance, step_over), the hooks, `interrupt`, `_go` and the reverse operations on it: `step_back`, `step_back_over`, `resume_back` |
| Ghidra methods | `methods.py` | `STATE.run_thread` | the debugger's buttons, on one worker thread |
| Trace | `commands.py`, `hooks.py` | what Ghidra shows | `put_all`, `preload_memory`, `record_stop`, `record_continued`, `put_*` |
| Console | `console.py`, `__main__.py` | a script, lines Python waits for, failures counted | the same operations from a terminal, on a thread of its own |
| Recording | `recording.py` | an open file, a listener for stops | `command`, `output`, `_on_stop`, `close` |
| Triage | `triage.py` | results, an instruction and time budget, a watchdog thread for each input | one run per input, grouping |
| Observers | `coverage.py`, `provenance.py`, `differential.py` | blocks that ran, reads of the input, two engines side by side | attribution, ranges, comparison |
| Tables | `symbols.py`, `loaders.py`, `context.py` | sorted symbols; segments to map | lookup, description, mapping |
| The rest | `arch.py`, `abi.py`, `schema.xml`, `../debugger-launchers`, `../tools`, `../ghidra_scripts` | | register and argument tables, launch scripts, Ghidra-side scripts |

How they interact. Every forward operation goes through `_emulate`, which takes
`_running` under a lock, enters `emu_start`, and makes a `StopEvent` of how it
came back. While it runs, Unicorn calls the code hook before each instruction:
the hook reports a pending watchpoint, compares watched registers, looks for an
end address, a used-up step and a breakpoint, and otherwise counts the
instruction in the timeline, which may take a checkpoint, fold old ones and tell
the effect logs and the hit log to forget. The system-call and stub layers hook
the same instructions and log what they did. Every backward operation goes
through `_go(k)`: restore the checkpoint at or before `k`, drop the ones after
it, replay the rest with the hooks muted and the logged calls applied instead of
served, rewind the logs and the hits. Stops are published to Ghidra's trace, and
told to an open recording, from whichever thread ran.

What is hard here, and what has to be true of it (the list with lines is under
`hazards` in `PROJECT.json`):

* *History*: a rewind must put back exactly the state recorded, whatever runs,
  faults, edits, folds and rewinds made the checkpoints; the budget must be kept
  and replays must stay short.
* *Effect logs*: a call is served once in every history that contains it; the
  state of the layer goes back with the machine; an entry at exactly the
  instruction reached has not happened.
* *System calls and stubs*: what is written down of a call reproduces it, also
  when it failed half way; descriptors, break, arena and allocator go back with
  the machine; blocks never overlap; each function does what C says of it.
* *Breakpoints*: an enabled breakpoint is never run past; nothing at the end is
  executed; hit and ignore counts are those of where the target is now, after
  any number of rewinds.
* *Reverse search*: running backwards arrives at the newest stop, wherever the
  checkpoints are; stepping back skips calls; arriving counts once.
* *Run control*: one thread at a time moves the machine; the count agrees with
  the machine; Ghidra shows what is; interrupts arrive; nobody waits for ever.
* *Triage*: every verdict is the program's own, however the two brakes race the
  end of the run; the batch ends.
* *Sessions*: a recording, run again, does what was done; the exit status tells.
* *Trace*: what the latest snapshot says of registers, memory, state and
  breakpoints is true.
* *Tables and observers*: overlapping symbols, segments, modules and reads give
  the answer that a definition looking at all of them gives.


## 2. The modules

| module | models | checked by | proved in |
|---|---|---|---|
| `History` | what reverse execution promises, with no checkpoints in it: the abstract specification | refined by `Timeline` | |
| `Timeline` | `timeline.py` and the part of `target.py` that drives it | `MCTimeline`: `timeline_*` | `TimelineProofs` |
| `Effects` | `effects.py` and a layer that is snapshotted and rewound with it; EXTENDS `Timeline` | `MCEffects`: `effects*` | `TimelineProofs` |
| `Syscalls` | `syscalls.py`: what serving each call does, what is recorded of it, undone and replayed | `MCSyscalls`: `syscalls*` | `HostProofs` |
| `Heap` | the allocator of `stubs.py` and malloc, free and realloc on it | `Heap` itself: `heap_any` | `HeapProofs` |
| `Stubs` | the rest of `stubs.py`: the functions, binding, undoing and replaying; uses `Heap`'s operators by INSTANCE | `MCStubs`: `stubs*` | `StubsProofs` |
| `Breakpoints` | breakpoints, hits and the code hook of `target.py` | `MCBreakpoints`: `breakpoints_*` | `ReverseProofs` |
| `ReverseSearch` | `step_back_over` and `resume_back` of `target.py`; EXTENDS `Breakpoints` | `MCReverseSearch`: `reverse_*` | `ReverseProofs` |
| `RunControl` | the threads, `_emulate` and `_go` step by step, interrupt, kill, the published state | `MCRunControl`: `control_*` | `RunControlProofs` |
| `Triage` | `triage.py`: a batch, its brakes and watchdogs, the verdicts and the groups | `MCTriage`: `triage*` | `HostProofs` |
| `Session` | `console.py`, `recording.py` and the end of `__main__.py`: scripts, typed lines, recordings | `MCSession`: `session` | `ConsoleProofs` |
| `Publishing` | `commands.py`, `hooks.py` and the methods that read, edit and refresh: what the trace is told | `MCTables`: `tables` | `ConsoleProofs` |
| `Symbols`, `Coverage`, `Provenance`, `Loaders`, `Differential` | the algorithms of the files of these names, and a reference definition of each | `MCTables`: `tables` | `ConsoleProofs` |
| `Ordering` | what is sorted by keys no two of which are equal | with those that use it | `ConsoleProofs` |
| `Sums` | nothing: lemmas on sums, on counting upwards, on flattened sequences and parts of sequences, for the proofs about `Timeline`, `ReverseSearch`, `Heap`, `Triage`, `Session`, `Syscalls` and `Stubs`, and for those about the tables | | |

Operators named in a comment as a *mutant* are changed forms of a definition: a
plausible mistake, under which the property it was written for fails. No
specification uses them.

### Timeline and History

`machine` is what Unicorn holds: a CPU context and, for each page, its contents
or `Absent`. The program is a constant, `Exec`, with the pages whose write hook
each instruction fires (`Writes`) and the machines whose next instruction faults
(`Faulting`); `ProgramAssumption` says that memory changes only where the hook
fired or a page was mapped or unmapped. `Execute` and `Fault` are one
instruction with the code hook before it; `EditMemory` and `EditRegister` are
`write` and `reg_write` between two runs; `BeginGoto`, `ReplayStep` and
`EndGoto` are `_go`, cut where the replay starts and ends. `hist` is a history
variable: the state the machine had at each instruction still reachable.

`Restorable` says that from each state kept every instruction after it, up to
the next, is what the program computes; `ReplayTracksHistory` that the replay
goes through the recorded states; `RefinesHistory` that machine and history
together implement `History`, where a replay in progress counts as not yet
gone. `ReplayIsShort` bounds the replay by the interval, `BudgetKept` the
deltas by the budget.

Abstractions. A region is one page: splitting and merging of regions in
`_sync_regions` are left out, and the region of the code, always mapped, is not
represented. Sizes are counted in pages plus a constant for the context. Runs
are recorded (`record=True`). `dropped` is only reported. Two branches are left
out because no call reaches them: `truncate` is only called with the icount of a
checkpoint, and `advance_to` finds `_next` beyond its argument. A fault leaves
memory alone. A page mapped by the program stands for one mapped by a system
call or a stub.

### Effects

The layer's state is `kernel`, and `Serve` says what it answers. `Call` is the
code hook followed by the layer's hook: record, write, map, unmap, set
registers, move the layer. `ReplayCall` applies the entry of the instruction
replayed, or, when there is none, leaves the call unserved, where `Exec` says
what becomes of the machine. `EndGotoWithLog` adds `truncate` to `_go`. `Plainly` adds
`forget_before` to every step that may fold a checkpoint. `khist` is `hist` for
the layer. Serving is deterministic given machine and layer, as every handler
is; a call that fails writes the entry of what it did before failing and is not
distinguished; output is not modelled. `Effects` is about *when* calls are
served, logged and replayed; the next two modules are about *what* they do.

### Syscalls

A call in progress is a record `s` with the memory and the layer as they are at
that point, what it `did` so far, and its answer or error; each handler is a
chain of operators on it in source order, so that a failure keeps what came
before it. Addresses count units, `PAGE` of them to a page; a page holds what
was last written to it, and a file is a sequence. `Call` dispatches any call
with any arguments of the small sets; `Rewind` is `_go` from a checkpoint after
`c` calls: replay, truncate, restore. `past` remembers machine and layer before
each call. Left out: the tables of call numbers and conventions, sign extension
and word sizes, calls that answer a constant, the errors' numbers.

### Heap

Blocks, free list, `top`, `mapped` and the journal, with addresses relative to
the base. The free list is a sequence because a Python dictionary iterates in
insertion order and `_fit` picks the first of the best. `log` stands for the
stubs' effect log: the snapshots taken, and the tables at that moment. `Rewind`
and `Forget` are the two ways the log is shortened, with `Heap.restore` and
`Heap.forget` as they call them. Freeing what is not allocated
raises before it changes anything and is no action; `realloc` of NULL or of an
unknown pointer releases nothing and allocates, which is `CallMalloc`. Memory
contents are in `Stubs`.

### Stubs

A step is a call, from the arrival at an address to the return. Memory is bytes
by address and ends where the mapping ends; a string is read a `Chunk` at a time
up to `Limit`, as `read_cstring` does. Each function of `IMPLEMENTATIONS` is an
operator of its name. `Right` states, for each of them, what C says of a call
with defined behaviour, in terms of the whole string or block, and is evaluated
in every reachable state for every argument: `AsLibcWithRoom`. The return
address and the stack pointer are not told apart from the register of the
result; the count of calls is left out. `Binds` and `Unbinds` are what a user
binds and unbinds while the program runs; `Careless` says whether an address is
unbound that has been called. `AsLibcWithRoom` is restricted to strings with
memory for another chunk behind them.

### Breakpoints

`past` is the sequence of states run through; going back shortens it, which is
what `Timeline` is about and is taken as given here. `Hook` is `_on_code` in its
order, `Retire` one instruction with `note_instruction` and the memory hooks,
`Return` the second half of `_emulate`, `Goto` the part of `_go` that concerns
breakpoints. That the history forgets some of its front is a free choice within
`Retire`. A condition is the set of states it holds in; conditions that read
`hits` are out. `Return` may happen at any instruction, which is an interrupt.
`counted` is a history variable: what hits and ignore counts would be if nothing
were ever forgotten or undone.

### ReverseSearch

Adds `StepBackOver` and `ResumeBack` to `Breakpoints`. The past is searched a
window at a time, newest first; a window runs from a checkpoint to the next, and
as the checkpoints may be anywhere, `ResumeBack` takes any set of them. `Insn`
says of each address whether it is a call, a return or neither. `NewestStop` and
`OverCalls` compare with definitions that look at the whole past and know no
windows; `Depth` is the true call depth of a state. Register watches have no
hook a replay could observe, and are not searched for.

### RunControl

Each thread has a program counter, and one action is, as a rule, one access to
what threads share, in source order (a few adjacent assignments are taken
together: the count, `_interrupted` and `terminated` in `Verdict`, the count,
`_stop` and `terminated` in `Advance`; interleavings inside them are not
explored): the guard of a method (`Resume`, `Back`, ...), the test
of `terminated` (`Check`), the lock (`Lock`, `RLock`), entry to `emu_start`,
which forgets earlier requests to stop (`Start`), instructions, `finally`
(`Leave`), reading the PC (`Settle`), the verdict, the listeners (`Notify`), and
likewise for `_go` and for interrupt and kill. The machine is a position: how
many instructions have run. `ending` is what the program does after `End` of
them. Every rewind replays from the start. Stops other than at an exit are not
told apart. `Patient` says whether users press a button, interrupt excepted,
only once the trace has stopped showing a running target, which is when Ghidra
enables it, and `TimesOut` whether `join(5)` may give up.

### Triage

The batch is one thread, the watchdog of each input another: `Wake` is the
end of its wait, `Expire` the two halves of `expire`, the reason and the stop,
which may come when the run is over or has not begun. `Instruction` is one
instruction with the budget's hook before it; `Ends` and `Returns` are the two
ways out of `emu_start`. Whether Unicorn still calls the budget's hook after the
target's own hook has stopped the engine is left open. An input is a record of
how the program behaves on it. Names are numbers; groups that tie may come in
any order. Time passes when it likes (`late`).

### Session

A text is what one line holds: parts with semicolons between them; a part is a
debugger command, one of the recording's commands, `q`, or Python, which may
need more lines. `SplitCommands` and `Push` are `split_commands` and `push`.
`ran` and `spans` are history variables: what has been executed, and how much of
it while each recording was open. `Replays` reads each file back as a script and
compares what that executes. `Capture` and `Deliver` are a stop on the run
thread that is told to the listeners, through a copy of their list.

### Publishing

The trace is its latest snapshot and the objects; a new snapshot knows no memory
until it is put, which is Ghidra's. The target runs, stops, steps, goes back, is
edited and is refreshed; `still` is what it was when it last stood still, and
`Shown` says that the trace tells exactly that. `Preload` is `preload_memory`
with its order of regions, its cap and its window. Below address 0 nothing is
put, and errors there are ignored as the code does. `StoppedOnly` says that Ghidra
reads, edits and refreshes only a target it shows as stopped. At launch the
count in an empty trace is 0.

### The tables

`Symbols`, `Coverage`, `Provenance`, `Loaders` and `Differential` have no
variables: each translates the algorithm of its file and states beside it what
the answer is (`DescribedRight`, `CoveredRight`, `ReadRight`, `LoadedRight`,
`ComparedRight`), by quantifying over all entries. `MCTables` lets the input
grow by an entry at a time, a symbol, a block, a segment, a read or a replay, a
step of two engines, and checks the answers at each. File formats are left out,
except that a coverage file keeps offsets and sizes in fields of limited width.
A differential target maps whole chunks; a terminated engine raises.


## 3. What is checked

Passing runs, with the number of distinct states:

| run | states | shows |
|---|---|---|
| `timeline_static` | 368k | a program with fixed memory, a budget for two small deltas, edits and faults: everything in the history is restored exactly; replays are short, the budget is kept; implements `History` |
| `effects` | 1.4M | the layer is always what it was at the instruction reached; the log holds exactly the calls of the history |
| `syscalls` | 78k | every call with good and bad arguments, undone and replayed from any earlier point: layer and machine are what they were; what is granted is there and granted once |
| `heap_any` | 250k | any calls, rewinds and forgetting: no overlap, everything logged can be undone |
| `stubs` | 17k | every function in every reachable state does what C says; what is recorded reproduces the machine; the allocator goes back with it |
| `breakpoints_execute` | 517k | execute breakpoints under every change between runs: never run past, nothing at the end executed, counts right after rewinds |
| `reverse_watch` | 533k | memory and register watches beside temporary breakpoints, in a program with a call, forwards and backwards: the newest stop is found wherever the checkpoints are, counted once; stepping back skips the call |
| `control_ui` | 4k | Ghidra's buttons, kill included, as Ghidra enables them, on programs that exit, fault or never end: one holder, count and machine agree, the trace shows what is, going back gives a live target, the worker comes back, a caught run ends |
| `triage` | 1.0M | any two inputs, and three that meet in a group, under a budget, a deadline or both, with a watchdog that is early, late or lost: verdicts, groups, and the batch ends |
| `session` | 455k | scripts and lines typed one by one, recordings started, switched and stopped: a recording does again what was done; the exit status tells |
| `tables` | 1.4M | symbols, coverage, reads, segments and engines grown an entry at a time agree with their definitions; the trace says what the target is |

One run ends in a violation: `effects_dirty`. Pages written by a replayed call
are not dirty, so the next delta lacks them, and a later rewind to it does not
put back what the call wrote (`effects.py:166`); `../README.md:514` says that
running forward again gives exactly the same bytes.

### Where the code differs from what is said of it

Each passing run leaves out, by a constant that its configuration names, the
behaviours of the two tables below, and the theorems of section 4 the same by a
hypothesis. The first lists configurations that can be
given to TLC in the same way (`tlc -config X.cfg M`) and end in a violation of
the one property they check, or, for `control_all`, pass: the worker and the
console ask for anything at any time (1.6M states), and still one thread at a
time holds the machine.

| configuration | module | property | what happens | said otherwise by |
|---|---|---|---|---|
| `timeline_fold` | `MCTimeline` | `ReplayTracksHistory` | a region mapped after the base and folded into it unwritten is not reset by a rewind | `target.py:978` |
| `stubs_shrink` | `MCStubs` | `AsLibcWithRoom` | a realloc in place is not undone: after undoing a shrinking, growing copies too little | `../README.md:514` |
| `breakpoints_advance` | `MCBreakpoints` | `StopsAtEnabled` | a temporary breakpoint takes a lasting one at its address out of reach | `target.py:92` |
| `breakpoints_fault` | `MCBreakpoints` | `HitsBehind` | a hit of an instruction that faults stays recorded one instruction ahead | `target.py:124` |
| `reverse_stub` | `MCReverseSearch` | `OverCalls` | a stubbed call has no return in the past; stepping back over it stops inside the caller's caller | `target.py:1065` |
| `control_back` | `MCRunControl` | `AliveAfterGoingBack` | the late verdict of a run terminates a target that has gone back | `methods.py:139` |
| `control_lost` | `MCRunControl` | `InterruptDelivered` | an interrupt right after resume is lost | `methods.py:7` |
| `control_kill` | `MCRunControl` | `NothingRunsAfterKill` | a killed target runs | `methods.py:291` |
| `triage_layers` | `MCTriage` | `BatchEnds` | an input whose declarations the layers cannot use ends the whole batch | `triage.py:419` |

The second lists what shows with the configuration named when a constant or a
property of it is changed as said.

| from | change | property | what happens |
|---|---|---|---|
| `timeline_fold` | `Exec <- RemapExec`, `Writes <- RemapWrites`, `Faulting <- RemapFaulting`, `Budget = 20` | `ReplayTracksHistory` | pages saved before an unmap come back in the region mapped there later (`target.py:978`) |
| `effects` | `Exec <- BranchExec` | `LogCovers` | a program that branches on what a call wrote takes another way after a second rewind, and meets its calls elsewhere (`effects.py:166`) |
| `breakpoints_execute` | `Kinds = {"REGISTER"}`, `MaxBps = 1` | `StopsAfterAccess` | a register watch enabled again stops where nothing has changed |
| `breakpoints_execute` | `Kinds = {"ACCESS"}`, `Toggling = FALSE`, `MaxBps = 1` | `ExitIsFinal` | a watchpoint on the last instruction hides the end, which is then executed |
| `reverse_watch` | `Kinds = {"EXECUTE", "ACCESS"}`, `Advancing = FALSE`, `MaxBps = 1`, `MaxBack = 2` | `ArrivedOnce` | `step_back_over(n)` raises where the history ends, having moved and told nobody |
| `reverse_watch` | `Kinds = {"ACCESS"}`, `Advancing = FALSE`, `MaxBps = 1` | `SameHit` | the condition of a watchpoint is asked after the instruction backwards, and during it forwards (`target.py:1105`) |
| `reverse_watch` | `Kinds = {"REGISTER"}`, `Advancing = FALSE`, `MaxBps = 1` | `SameHit` | running backwards passes register watches |
| `control_all` | `Ops <- ConsoleGoesBack`, `End = 3`, `Endings = {"exit"}`, `MaxICount = 4` | `Landed` | an interrupt cuts a replay short, unnoticed, and the count runs ahead of the machine |
| `control_all` | `Ops <- ButtonsOnly`, `End = 2`, `Endings = {"error"}`, `MaxICount = 4` | `Landed` | the late uncount of a fault moves the count of a target that has gone back |
| `control_all` | `Ops <- ConsoleKills`, `End = 2`, `Endings = {"exit"}` | `ShownAsItIs` | a target killed from the console is shown as stopped |
| `heap_any` | `Ops = {"malloc", "realloc"}`, `MaxCalls = 4` | `SizesUndone` | a realloc in place is not undone (`stubs.py:105`) |
| `heap_any` | `Ops = {"malloc", "free"}`, `MaxCalls = 6` | `AnswersUndone` | undoing an allocation reorders the free list; the same request gets another block |
| `stubs` | `Implemented = {"putchar"}`, `Careless = TRUE` | `MachineReplayed` | an address unbound after it has been called: the replay runs the real function |
| `stubs` | `Implemented = {"malloc"}`, `Unbinds = {"malloc"}`, `Careless = TRUE` | `HeapRewound` | the same of `malloc`: the replay does not map the arena its allocator takes to be mapped |
| `stubs` | `Implemented = {"strlen"}`, `Ptrs = {5}`, `Chunk = 4`, `MaxCalls = 0` | `AsLibc` | a string that ends within a chunk of the end of memory is reported as unreadable (`stubs.py:361`) |
| `stubs` | `Implemented = {"strlen"}`, `Limit = 2`, `MaxCalls = 0` | `AsLibcWithRoom` | a string as long as `read_cstring` goes is given up on (`stubs.py:368`) |
| `stubs` | `Implemented = {"memset"}`, `MaxTransfer = 1`, `MaxCalls = 0` | `AsLibcWithRoom` | more bytes than `MAX_TRANSFER` are refused (`stubs.py:349`) |
| `stubs` | `Word = 8` | `AsLibcWithRoom` | a pointer that is no word comes back as another |
| `stubs` | `Implemented = {"malloc"}`, `Unbinds = {"malloc"}`, `Careless = TRUE` | `AsLibcWithRoom` | `malloc` hands out memory that the replay did not map |
| `syscalls` | `MaxCalls = 4` | `BreakUsable` | a break is granted over memory the program has unmapped since, which is not mapped again |
| `syscalls` | | `FailuresDoNothing` | a read into a bad buffer has consumed the input, and a mapping of a bad file stays |
| `triage` | `Limits <- JustBudget`, `ByPc = TRUE` | `WithinBudget` | an input that takes exactly the instructions allowed and then exits is a timeout |
| `triage` | `Batches <- SameNames` | `CoverageKept` | two inputs of one name in different directories share one coverage file |
| `triage` | `Limits <- JustBudget` | `RowOfRepresentative` | a group shows the outcome and address of its first member beside the decode of its smallest |
| `session` | `Launches <- NoScript`, `Patient = FALSE`, `MaxTyped = 3` | `NeverTooLate` | a stop is told to a recording that has just been closed (`recording.py:102`) |
| `session` | `Launches <- NoScript`, `Typed <- WithReturn`, `MaxTyped = 2` | `Replays` | output with a line break other than a newline puts an uncommented line into the recording (`recording.py:87`) |
| `session` | `Launches <- NoScript`, `Typed <- WithBlocks`, `MaxTyped = 3` | `Replays` | the blank line that ends a block of Python is not in the recording |
| `session` | `Typed <- WithBoth`, `MaxTyped = 2` | `Replays` | a line with two commands is one command when typed and two when replayed |
| `session` | `Launches <- WithScripts`, `MaxTyped = 2` | `Replays` | a script's `q` is recorded, though the session goes on after it |
| `session` | `Launches <- Failing`, `MaxTyped = 0` | `StatusCounts` | the exit status is 1 however many commands have failed |
| `tables` | `Sizes = {0, 1, 6}` | `Described` | a function larger than the search backwards reaches is not found |
| `tables` | `Unique = FALSE` | `Described` | of two symbols of one name, the description of one typed back is the other |
| `tables` | `Sources <- MCSourcesWide` | `Attributed` | a module given as name, base and size, whose size exceeds its base, is taken to end at its size |
| `tables` | `Offsets = 2` | `Attributed` | offsets beyond the field of a coverage file wrap around |
| `tables` | `Late = TRUE` | `Attributed` | recording started late: reads met first in a replay come after later ones |
| `tables` | `From` with -1 | `Attributed` | a read that begins before the buffer and reaches into it is not seen |
| `tables` | `Chunk = 4` | `FirstDisagreement` | of a chunk in which the memory of one engine ends nothing is aligned |
| `tables` | | `UsableSegments` | of two segments in one page the second has the permissions of the first |
| `tables` | `StoppedOnly = FALSE` | `Published` | refreshing a running or terminated target shows it as stopped; memory read during a run stays in the old snapshot |
| `tables` | | `RegionsPublished` | regions the program maps are not shown at the next stop |

### Bounds

* `MaxICount = 4` to `6` with `Interval = 2`: two to three checkpoints, so that a
  rewind can land on, between and before them, and the base can be folded past
  two of them. `Budget` is large enough for one or two deltas, or never reached.
  `MaxDeltas` stops edits, each of which makes a delta, not runs.
* Two pages and two values are enough for a page that is in a delta and one that
  is not, and for a stale value to be told from a fresh one.
* Breakpoints: two (three where a temporary one meets a lasting one), an ignore
  count of one, a program of three instructions that visits one address twice
  and a program of one instruction before a fault; either may be entered
  anywhere. Going backwards, four instructions with a call and its return among
  them and every set of checkpoints.
* RunControl: programs of one to three instructions; one run thread, or two
  where the question is what a second resume can do; `MaxICount` bounds a count
  that an uncounted fault or a cut replay has taken off the machine.
* Syscalls: three calls, two of which can undo each other's ground for the third
  (open, close, read; map, unmap, break); pages of two units, room for two pages
  of heap and two of arena.
* Heap: three units of allocation, sizes that round to one and two of them, and
  five or six calls: enough for a block to be freed, reused, resized and the
  heap to be full. `VIEW` drops how much of the journal has been thrown away.
* Stubs: bytes 0, 1 and 2, memory of seven bytes that begins with two strings
  and ends without a NUL, a heap of three blocks, two calls before the one
  looked at. Two calls allocate and free, and join or overwrite the strings;
  three, in `stubs_shrink`, are needed to resize, undo and resize. `MaxTransfer` and `Limit` are small enough to be exceeded.
* Triage: any two of nine inputs and any three of four; a budget of two
  instructions, met exactly, exceeded and not met; a clock looked at every
  second instruction. Two batches of one input would not show one input's
  watchdog coming during the run of the next.
* Session: four typed lines, or scripts of three; two files and one that cannot
  be opened: recordings are switched, reopened and stopped within four lines.
* Tables: three symbols over five addresses (nested, overlapping, equal, one
  without size); two modules and three blocks; three segments over six pages
  with holes before, between and after; three reads with replays up to six
  records; two steps of two engines; four events of the trace, which is a
  change, a run, a stop and one thing after it.

### Fairness

`control_ui`, `control_lost`, `triage` and `triage_layers` check liveness.
RunControl's `FairSpec` gives each
thread weak fairness for its own next step: the interpreter's threads are
scheduled. It obliges no user to press anything and no breakpoint to be reached
(`HookStops` is excluded). `join(5)` returns after its timeout, which is the
same fairness. Triage's `FairSpec` gives it to the batch's thread, to the clock
and to a watchdog that is due; nothing obliges a program to end, and
`BatchEnds` holds because one brake or the other does.


## 4. What is proved

For every value of the constants, under the assumptions named at the end of this
section and, where one is stated, a hypothesis on the constants. A hypothesis is
there because without it the property is false of the code: the configuration or
row of section 3 named with it shows how.

| theorem | states | hypothesis | false without it |
|---|---|---|---|
| `TimelineProofs!TypeCorrect` | `[]TypeOK` | | |
| `TimelineProofs!ReplaysAreShort` | `[]ReplayIsShort` | | |
| `TimelineProofs!StaysWithinBudget` | `[]BudgetKept` | | |
| `TimelineProofs!EverythingRestorable` | `[]Restorable` | `MapsWritten` | `timeline_fold`; second table, `ReplayTracksHistory` |
| `TimelineProofs!ReplaysTheRecord` | `[]ReplayTracksHistory` | `MapsWritten` | `timeline_fold`; second table, `ReplayTracksHistory` |
| `TimelineProofs!KeepsThePromise` | `RefinesHistory` | `MapsWritten` | `timeline_fold`; second table, `ReplayTracksHistory` |
| `HeapProofs!HandsOutOnce` | `[]Sound` | | |
| `HeapProofs!StaysUndoable` | `[]Undoable` | | |
| `TimelineProofs!LayerRewound` | `[]KernelRewound` | | |
| `TimelineProofs!EntriesPutBack` | `[]EntriesTell` | | |
| `TimelineProofs!LayerKeepsThePromise` | `LayerPromised!HistorySpec` | | |
| `TimelineProofs!CallsCovered` | `[]OnTrack => []LogCovers` | | |
| `TimelineProofs!ReplaysTheCalls` | `[](replaying => Agree(own, machine, hist[ricount]))` | `KeepsApart(own)` | `effects_dirty` |
| `TimelineProofs!LogCoversHistory` | `[]LogCovers` | `KeepsApart(own)` | second table, `LogCovers` |
| `ReverseProofs!HitsConserved` | `[]Conserved` | | |
| `ReverseProofs!NoHitAhead` | `[]HitsBehind` | `QuietFaults` | `breakpoints_fault` |
| `ReverseProofs!NeverRunPast` | `StopsAtEnabled` | `~Advancing` | `breakpoints_advance` |
| `ReverseProofs!NothingPastTheEnd` | `ExitIsFinal` | only execute breakpoints | second table, `ExitIsFinal` |
| `ReverseProofs!BackToTheNewest` | `NewestStop` | | |
| `ReverseProofs!ArrivesOnce` | `[]ArrivedOnce` | `QuietFaults`, `MaxBack = 1` | second table, `ArrivedOnce` |
| `ReverseProofs!WatchesStopAfter` | `StopsAfterAccess` | `~Toggling` | second table, `StopsAfterAccess` |
| `ReverseProofs!StepsBackOver` | `OverCalls` | `DepthAsInsn` | `reverse_stub` |
| `RunControlProofs!TypeCorrect` | `[]TypeOK` | | |
| `RunControlProofs!OneAtATime` | `[]OneHolder` | | |
| `RunControlProofs!BackLands` | `[]Landed` | `OneUserWaits` | second table, `Landed` |
| `RunControlProofs!ShowsTheTarget` | `[]ShownAsItIs` | `OneUserWaits` | second table, `ShownAsItIs` |
| `RunControlProofs!GoingBackRevives` | `AliveAfterGoingBack` | `OneUserWaits` | `control_back` |
| `HostProofs!VerdictsTrue` | `[]Truthful` | | |
| `HostProofs!SortedByFailure` | `[]GroupsRight` | | |
| `ConsoleProofs!StatusIsRight` | `[]StatusTells` | | |
| `ConsoleProofs!RecordingsReplay` | `[]Replays` | `Recordable` | second table, the four rows of `Replays` |
| `HostProofs!LayerPutBack` | `[]KernelRewound` | | |
| `HostProofs!CallsReplayed` | `[]MachineReplayed` | | |
| `HostProofs!HeapStaysSound` | `[]KernelSound` | | |
| `StubsProofs!StubsReplayed` | `[]MachineReplayed` | `~Careless` | second table, `MachineReplayed` |
| `StubsProofs!StubsHeapRewound` | `[]HeapRewound` | `~Careless` | second table, `HeapRewound` |
| `StubsProofs!StubsAsLibc` | `[](ShortStrings /\ SizesStand => AsLibcWithRoom)` | `~Careless`, `Usual` | second table, the four rows of `AsLibcWithRoom`; `stubs_shrink` |
| `ConsoleProofs!PublishedAlways` | `[]Published` | `StoppedOnly` | second table, `Published` |
| `ConsoleProofs!TraceShows` | `PublishSpec => []Shown` | `StoppedOnly` | second table, `Published` |
| `ConsoleProofs!LaunchesShow` | `LaunchedRight` | | |
| `ConsoleProofs!AttributedAlways` | `[]Attributed` | `IsSource`, `Offsets >= 4`, `BlockSizes > 2`, `From \subseteq Nat`, `~Late` | second table, the four rows of `Attributed` |
| `ConsoleProofs!SegmentsLoad` | `[]LoadedSegments` | addresses, lengths and contents are numbers | |
| `ConsoleProofs!EnginesCompared` | `[]FirstDisagreement` | `Chunk \in {1, 2}` | second table, `FirstDisagreement` |
| `ConsoleProofs!SymbolsDescribe` | `[]Described` | `Unique`, `Sizes \subseteq 0..Reach` | second table, the two rows of `Described` |

### TimelineProofs

All theorems about `Timeline` rest on the inductive invariant `IndexInv`. `ReplayIsShort` is
not inductive: it says nothing of `next`, which decides where the next checkpoint
will be. `PaceInv` adds that the base and the deltas are in ascending order with
no gap longer than the interval, that `next` is an interval past the newest, and
that the machine (or the instruction a replay is going to) is in between;
`FreshInv` covers the time before the first instruction, `ReplayInv` a replay in
progress, `HistInv` that every instruction from the base on has a recorded state,
which types need. The lemmas `FoldAt`, `FoldOrdered`, `AppendOrdered` and
`PrefixOrdered` carry the order through folding, taking and dropping
checkpoints; `OverlaySame`, `OverlayAppend` and `OverlayFold` say what the image
made of base and deltas becomes then. `StaysWithinBudget` adds what a list of
deltas holds without its oldest (`HeldSuffix`: exactly what `_enforce_budget`
compares with the budget) and without its newest (`HeldPrefix`: not more, so
`truncate` needs to enforce nothing).

`Sums` has the lemmas on `SumFunctionOnSet` both this and `StepsBackOver` use.
The operator is a recursive function over subsets, so they begin with its
existence and uniqueness, shown like the rest by taking a smallest
counterexample: the library's induction theorems need an operator as parameter,
`NatLessThanWellFounded` and `WFMin` do not. `SumWithout` takes out any term,
`SumGrows` compares a sum with that of a subset, `SumRenumbered` numbers terms
anew, and `SumTelescopes` adds up differences. `UpwardFrom` is induction up to a
number over a *set* of numbers, which needs no operator as parameter: with it
recursive functions can be reasoned about, once the function is shown to exist.
`FlattenTyped` does so for `FlattenSeq`, by which `Triage` and `Session` leave out
what is skipped or blank; `HeapProofs` for the loop that undoes a journal.

### TimelineProofs: going back

`MapsWritten` says that a page a program maps is one it also writes, so that the
write hook marks it dirty; a program with fixed memory (`StaticExec`) is one of
these. `Restorable` and `ReplayTracksHistory` speak of the history only; why
they hold is in the checkpoints and the dirty pages. `RestoreInv` adds to
`IndexInv` (the first three, together `StoredOn`, speak of a set of pages, here
all of them, so that they can be used again where calls are served):

* `CleanOn`: a page that is mapped and not dirty is in the checkpoints as it is.
  This is what lets `_take` save the dirty pages only.
* `ImagesOn`: the last of the checkpoints of an instruction, laid over the ones
  before it and the base, is the state recorded there. The last, because an edit
  at rest makes a second checkpoint at the same instruction.
* `NowOn`: the machine is what the history says, in a replay as well.
* `ChainInv`: the history is what the program computes, except where someone
  edited it, and there is a checkpoint there. Without it nothing says that the
  nearest checkpoint and a replay are enough.
* `SpanInv`: the history has no gap.

`RestoredIsImage` is about `_restore`, `FoldImages`, `AppendImages` and
`PrefixImages` about what becomes of the images when checkpoints are folded,
taken and truncated, `TakesImages` that a checkpoint just taken is the state it
was taken of, `TakesMarks` that an edit keeps its checkpoint as long as the
history reaches it, `NoMarkAhead` that a replay is past every checkpoint left,
`RestoresRecorded` that a restore puts back the recorded state.
`KeepsThePromise` maps each step to one of `History` or a stutter: an instruction
and an edit to their own, the end of a replay to going back, the rest of a replay
and the folding of history to nothing or to forgetting.

### HeapProofs

The tables themselves cannot be what the invariant remembers: a realloc in place
changes the size of a block without a journal entry, and undoing changes the order
of the free list (the two disagreements of section 3). What does survive is the
*places*, address and capacity, of the blocks that are live and of those that are
free. `Remembers` says that there is a function giving the places at every mark
the journal reaches back to, each got from the next by undoing its entry
(`Moved`), with an entry's block where undoing expects it (`Applies`). `HeapInv`
is that such a function exists for the journal as it is (`Now`: also that tables
have each block once, `Fine`, and that places share no byte and lie below the
top, `Apart`) and gives at every logged mark the places of the tables the call
was logged with (`LogInv`).

`UndoneIs` is one entry undone, `UndoneRight` the loop of `restore`, by going
down from the newest mark. `AllocateGood`, `ReleaseGood` and `ResizeGood` carry
the function through the operations on the tables and `Extend` through the
journal, so `realloc`, which allocates and then releases, is two of them in a
row. `RemembersPart` says that a part of a journal remembers what the whole did:
its front is what `restore` leaves, its rear what `forget` leaves. `Sound` then
needs `BlocksCounted`, since `Fine` has no two blocks at one address. A block
that stays on the free list when it is reused breaks `AllocateGood`; one that
does not go back to it when that is undone breaks `UndoneIs`.

### TimelineProofs: the log of effects

The invariant is `EffectsInv`: the log is in the order of the instructions, all
of them in the history and behind the target (`LogInOrder`), and it tells the
layer's state at every instruction `k` still reachable, which is `before` of the
oldest entry from `k` on, or the layer as it is when there is none (`LogTells`).
`LogTells` is what `truncate` uses to restore, and it has to hold for all `k` at
once, because a rewind may go anywhere. `TellsAfterDrop`, `TellsAfterCall` and
`TellsAfterCut` keep it through `forget_before`, a call and `truncate`. No
hypothesis on memory is needed: the layer is rewound even where
memory is not (`effects_dirty`). `EntriesPutBack` is the part of `LogCovers` that
this invariant gives; `LayerKeepsThePromise` the half of `RefinesHistoryBoth` that
concerns the layer.

The rest of `LogCovers` is that just the calls of the history have entries. For
every program and layer it follows from `OnTrack`: where the target comes to rest
there is a call just if there was one (`CallsCovered`, with `CoversInv`, which
says the same of all of the history, in a replay as well). But `OnTrack` is no
property of the code alone. A replayed call marks none of the pages it writes, so
the next delta lacks them, and after a second rewind the machine is not what the
history says. A program that branches on such a page then meets its calls
elsewhere (`BranchExec`).

`KeepsApart(own)` is what a program has to be for that not to happen: no call
touches the pages of `own`, and where the program goes, what it writes there and
which calls it comes to depends on its registers and on `own` only, the rest
being data it passes on. The program of `MCEffects` is one with no page in `own`.
`ApartInv` then is `StoredOn(own)`, which is all that survives of the storage's
invariant, with two more parts: the entries spare `own` (`EntriesSpare`), and
each state of the history leads to the next by what a replay would do, the entry
of a call or the program, except where there was an edit and there is a
checkpoint (`PlayedOn`, as `ChainInv` is without calls). `LeadsAgree` carries
that from one machine to another that agrees with it on `own`, and from one log
to what pruning and truncating leave of it. So a replay meets each call where it
was (`ReplayMeets`), which gives `ReplaysTheCalls` and, with `CallsCovered`,
`LogCoversHistory`.

### ReverseProofs: breakpoints

`HitsConserved` from `CountInv`, which is `Conserved` with the types of
breakpoints and log. `Conserved` compares a counter with the number of
entries of a log that grows, is cut at both ends and is searched. `TallyJoined`
counts in a log put together from two; `EntriesOf` says what asking a set of
breakpoints adds, `CountKeeps` that asking one keeps the balance, `SettleKeeps`
that forgetting old hits keeps it, `UndoKeeps` the same
for going back. Each
stage of the hook (`Registers`, `Execute`, `Accesses`) is shown once to give an
`Answer`, a table and a log in balance, and the actions use that.

`NoHitAhead` adds the order of the log (`OrderInv`); it needs that an instruction
that faults touches nothing watched. `NeverRunPast` needs that each execute
breakpoint is the one its address is looked up to (`AddrInv`), which a temporary
breakpoint at the same address breaks. `NothingPastTheEnd` rests on `EndInv`: no
state but the newest is at an end, and the run that came there is either about to
test it or has stopped there for good.

### ReverseProofs: going back

`BackToTheNewest` has no hypothesis and no invariant but types. Its core is the
lemma that the windows leave no gap: every instruction before the target is in
exactly one window, whatever the set of checkpoints, so the first window in which
something stops, searched from its end, has the newest stop.

`ArrivesOnce` from `ArriveInv`: the log has an instruction and a breakpoint at
most once (`Unique`; the hits of one instruction may be in any order), execute
breakpoints have not been asked about an instruction a run is just coming to
(`Unasked`), a register watch that is in the log has looked (`Looked`), and
whoever stopped a run is in the log (`Told`). `WatchesStopAfter` from `WatchInv`:
a register watch last looked here or one instruction before (`Looks`), for which
it must have been enabled all along, and a watchpoint about to be reported saw
the instruction before (`Reported`). `StepsBackOver` from `OverInv`, that the past
is what the program does: if calls and returns change the depth as `DepthDelta`
says (`DepthAsInsn`, which a stub that returns without a return instruction
breaks), the sum `_prev_over` runs is the difference of two depths
(`DepthsAddUp`), whatever lies in between.

### RunControlProofs

`TypeCorrect` and `OneAtATime` hold for every set of threads, program and set of
requests. The delicate part of the types is that `icount` stays between 0 and its
bound although several threads set it. `OneHolder` is inductive together with
`TypeOK`: a thread enters the set of holders only where `Grab` finds `running`
false, which by the invariant means there is no holder, and leaves it only with
the step that clears `running`. Two lemmas, `Taking` and `LettingGo`, do this
once for all actions.

The other three are about Ghidra's buttons: the console asks for nothing, and the
user presses a button other than interrupt only once the trace has stopped
showing a running target (`OneUserWaits`, the situation of `control_ui`). The
number of run threads is not bounded by this, and the proof is that at most one
of them, or the worker, is busy at any time (`OneBusy`). `CalmInv` says which
threads can be where (`WhoDoesWhat`), that the trace shows a running target just
while there is a run thread or one is about to be started (`ShownRunning`), what
it shows otherwise (`ShownRight`), between which steps the count is not the
position and by how much (`CountRight`, `RunRight`), and what is known on the way
back (`BackRight`). An interrupt is the one request that may come between any two
steps, and none of this depends on whether it does.

### HostProofs: triage

`VerdictsTrue` holds for every batch, limits and clock. A verdict is made from
what the run left behind, so `Truthful` is not inductive. `VerdictInv` adds what
holds on the way to a verdict: `ReasonInv`, that a brake gives its reason before
it stops the engine, and that a reason given is true; `CountInv`, that the budget
has counted exactly the instructions the program has run for as long as nothing
stops it, so that its reason is true when it trips; `HowInv`, that a run whose
engine no brake has stopped ends as its program does. `Hooked` and
`HookedReasons` do the budget's hook once for the three actions it is part of;
`TruthfulKept` carries earlier verdicts over every step that makes none.
Reversing the two halves of `expire` breaks `ReasonInv`, in `ClockStep`.

`SortedByFailure` needs `GroupsInv` beside it: there is one result for each input,
in their order, and a signature tells how its run ended (`SignedInv`: a crash is
signed with the kind of its fault, everything else with its outcome, and no kind
is called like an outcome). So inputs that share a signature share an outcome
(`SameEnd`), a group has the outcome of all its members, and the exit status can
be read off the first group. `SmallestIs` finds the representative, by size, name
and position in turn; `GroupIs` says what a group is, and `AllGroups` that the
sorted sequence has each group once, an injection between finite sets of the same
size being onto. Taking the first member as the representative breaks `GroupIs`.
The attempt found an earlier form of `GroupResults` wanting: it sorted with
`SortSeq` and an order in which two groups may tie, which determines no sequence;
any order of such groups is possible now, as the text of signatures, which breaks
the tie in the code, is abstracted.

### ConsoleProofs: sessions

`StatusTells` is about the end of `main`; the status is made of a count of errors
at the end of the script. What `SessionInv` says while the script runs is
`Faithful`: that the errors and what Python still waits for together tell whether
everything so far was executed. The half that is easily wrong is that errors mean
something was not carried out or failed: an error of the interpreter, which is no
command's, comes only when a line does not continue the block before it
(`CommandPushed`, since a script's commands are stripped and never blank), and
then that block was never executed, so fewer commands were than the script has
come to. `SplitIs` says what a script is split into, `UntilIs` what comes before
the first `q`, `CarriedOutKept` that what is typed later leaves the script's part
of the record alone. A script that ends while Python waits breaks `EndScriptStep`
unless that counts as an error.

`Replays` says what a recording executes; whether it still will after the next
command depends on what it would leave Python waiting for. `RecordInv` adds
`Following`: as long as something may be pushed, the open recording has no `q` in
it and leaves Python waiting for exactly what the console waits for. What a push
executes and leaves behind depends on nothing else (`PushedIs`: `Done` and `Left`
of the buffer and the text), so pushing the same text on both sides keeps them
equal (`NotedIs`, `PushNoted`). `ReadBackMore` and `ReadBackNotes` say what reading
the file again makes of one more line: one more command, or nothing if it is a
comment. `ReplayedMore` is what executing one more command does; `Replayed` is a
recursive function for that reason. `Kept` relates the spans to the open
recording, so that starting a recording in place of another, or of the same file
(`PushKeeps`), ends the one at the length the other begins with.

`Recordable` is the hypothesis, and each part of it is there for one of the
configurations in which `Replays` fails: nothing that is printed has a line break
of another kind in it (`WithReturn`); a typed line is one command that needs no
more lines, without space around it (`WithBlocks`, `WithBoth`); a script that is
followed by a prompt has no `q` (`WithScripts`). A script with blocks of Python in
it is a batch that does not itself start a recording, since that one would miss the
beginning of the block it is started in. The constants of `session` satisfy it.

### HostProofs: system calls

`KernelRewound` and `MachineReplayed` compare the present with the newest recorded
state only, but a rewind may go to any of them, from any checkpoint before. `IInv`
says it of all: there is one state more than entries, each entry has the layer's
state before its call (`Entry`) and, replayed on the machine as it was then, makes
the machine the call left. `HistoryReplayed` concludes that replaying any number
of them goes through the states there were, `HistoryCut` that what is kept of log
and states is such a history again, `HistoryGrows` that one more call makes one.

What is left is one fact about each call, whatever it was given. `Progress` states
it of a call *in progress*, so that it holds where the call fails: what has been
done to memory so far is what replaying the notes made so far would do, the layer
is in order (`IsKernel`), and the heap is there but for what the program gave back
(`HeapThere`). The order matters: a replay maps, unmaps and only then writes, all
in one, so a call that unmapped what it had written would not be reproduced.
`WriteMemIs`, `MapIs` and `UnmapIs` carry `Progress` through the three ways to
touch memory; `Clean` is the condition under which a map may come next. `brk` is
the case with arithmetic: `UpIs` and `SpansArePages` have the pages between two
breaks meet without a gap and within the heap.

The proof needed the loops of `SysWritev` and `Replay` as recursive functions in
place of `FoldLeft`, which takes an operator as parameter; the existence of each
is shown where it is used (`WritingExists`, `HistoryReplayed`). `HostProofs` has the
theorems about `Syscalls` and `Triage`, what serves a program and what runs it; the
specification of `Triage` is called `TriageSpec` so that both can be extended.

### StubsProofs

A stubbed call changes memory, the result and the allocator, and the three are put
back in different ways: memory and result by replaying entries from a checkpoint,
the allocator by undoing its journal down to a mark. The argument has a part for
each and an invariant that ties them.

The allocator's part is `HeapProofs`, of which `HP` is an instance for the heap of
`Stubs` (`SameMalloc`, `SameRelease` and `SameUndone` say that the operators are
the same): that a function giving the places at every mark goes with the journal
(`HP!Now`), that malloc and free keep it, and that undoing goes back along it.
As there, tables are compared as places (`Alike`): a resize in place is not
undone, and the order of the free list is not put back.

The other part is one fact about each function, `Progress`, of a call in
progress: what it has written down so far makes of the memory it found the memory
there is now, and the allocator is on its way from where it was. A replay maps
first and writes then, so mapping is allowed only while nothing is written
(`Clean`); `calloc`, `realloc` and `strdup` allocate before they fill. `IsMemory`,
that of the arena just what the allocator has mapped is there, tells that a
mapping is of memory that was not there: otherwise a replay would clear it.
`MallocIs`, `ReleaseIs`, `WriteIs` and `FailIs` carry `Progress` through what
functions do, the lemma of each function composes them, and `PerformIs` collects
them: whatever is called with whatever arguments, and whether it succeeds, its
record tells what it did.

`IInv` says of *every* entry what the two properties say of the present: there is
one state more than entries (`History`); replaying an entry on the state before
it gives the state after it, and its snapshot has the top and the extent of the
arena from then (`Told`); its mark lies in the journal, in the order of the calls,
and the places there are those the heap had (`Marks`). It is this that lets a
rewind go to any state, from any checkpoint, after any rewinds before.
`HistoryReplayed` is the machine that comes out of replaying; `RestoreIs` what
comes out of undoing; `HistoryAlike` that it is the right snapshot, the oldest of
those dropped, since the calls between that were not stood in for leave the heap
alone; `MarksCut` that what is left fits together.

`~Careless`: an address at which a function is stood in for now, and was called,
stays bound (`UnbindKeeps`). Without a hook a replay runs the function itself, and
neither property survives. Binding at any time is harmless (`BoundKeeps`): an entry
made without a hook is not replayed with one.

For the proof the loops of `Apply` and of a replay became recursive functions in
place of folds, and `Names` says which functions there are.

### StubsProofs: what C says

`StubsAsLibc` is about the next call in any state that calls and rewinds lead to.
From the invariant above it takes that the state is `Ready`: the arena is there as
far as it is mapped, and the allocator's blocks share no byte. The rest concerns one
call, `Going` on, with the memory `m` as the function found it.

What a function does with memory is put into a few terms. `CStringReads` says that
reading in chunks up to the first NUL gives just the string C speaks of (`IsText`),
where there is memory behind it (`Readable`); `WriteSays` that a write makes `m`
into `Over(m, a, data)` and nothing else. Then each function is its lemma:

* `MovesRight` collects the copies. C speaks of bytes by offset, the code of
  sequences it cuts, pads and joins; `FirstSays`, `PaddedIs`, `EndedIs` and `TakenIs`
  say which byte comes where. An overlap needs nothing special, since all is read
  before any is written.
* `FindsRight` collects the comparisons and searches. `CmpIs` is the core: the order
  Python gives two byte strings, a proper prefix being the smaller, is the sign of
  the first difference of the bytes *padded* with NUL, which is how C stops at the
  end of a string and at `n`. `PlacesIs` puts the terminator among the places of
  `strchr`.
* `AllocatesRight` collects `malloc`, `calloc`, `realloc` and `strdup`. `Handed`, in
  `HeapProofs`, is what was missing there: the block in the newest entry of the
  journal is the one handed out, it is new, and no other block has moved or changed
  size. `HandedApart` draws from the places that it shares no byte with a live one,
  `MallocSays` that it lies in mapped memory and that mapping cleared nothing that
  was there (`Granted`). `ReallocSays` reads the old block out of the memory with
  the new one mapped.

The hypotheses are where the code departs from C. Constants, `Usual`: bytes are
numbers, the machine's words hold every address, and no length exceeds
`MAX_TRANSFER`. States: no string is as long as `read_cstring` goes
(`ShortStrings`), and no live block is taken for shorter than the program last
asked for (`SizesStand`). The second fails only of `realloc`, once a call that
shrank a block in place has been undone, which is the violation of
`stubs_shrink`; where a call has undone a growth it holds, and what is copied is
then more than C asks. In `stubs`, `Usual` and `ShortStrings` hold in every
state. That the memory a string ends in goes on for a chunk is part of the
property.

### ConsoleProofs: the trace

`PublishInv` adds to `Shown` that machine and trace are ones (`IsMachine`,
`IsTrace`) and that `still` is the machine while it stands still. What is left is
that every part put into the trace keeps what the other parts say (`Beside`).
`Tells` says that a trace tells of memory nothing but what a machine has; `PutBytes`
and all that is made of it keep that for any range, since it asks the machine. A step
that moved the machine and left bytes in the snapshot would break it; `RecordStop`
does not because its snapshot begins with none. `StoppedOnly` is used where Ghidra
reads or edits: during a run the machine is no longer `still`.

`LaunchedRight` is about a loop over regions in the order of `Rank`. The region of
the program counter is first in it (`InOrder` puts first what nothing comes
before), and is copied whole, or, being too large, through a window around the
counter; the region of the stack is the next, with what the first left of the cap.
The arithmetic of `WindowAt` needs the window to be two pages at least: its start
is rounded down to a page, so it may end up to a page too early.
`TargetsAssumption` says of what is launched that regions are disjoint and memory
is what they hold. The count of what is known is bounded by the total of the loop
through `FS_Union` and `FS_Interval`.

### ConsoleProofs: the tables

The invariants about the inputs (`SymbolsInv`, `CoverageInv`, `SegmentsInv`,
`ReadsInv`, `EnginesInv`) say what they are made of, at any length; only `ReadsInv`
has a history in it: what was recorded of the reads so far has each of them for the
first time behind earlier ones only, which a replay from anywhere leaves true
(`RecordedTo`). The substance is in lemmas about one table each, all of them of
every input and not just of those `MCTables` grows:

* `InOrderIs`: a finite set ordered by a total order becomes a sequence that has
  each of its elements once, and earlier ones first. It rests on counting what comes
  before each; sorting symbols, blocks, mapped regions and regions to preload are
  its uses.
* Symbols: `SortedIs` for what `extend` keeps, and from it that the search of
  `enclosing` backwards gives the innermost function whenever there is one: of two
  that cover an address the one that starts later comes later in the list, so the
  search meets it first, and nothing larger than `Reach` can be passed over (`Sizes`). `describe` passes
  labels within functions, so its loop ends at the label that `Standing` names. A
  rebased table is the sorted one, entry by entry further (`IsMoved`), and so is
  everything that is said of it; sorting it again changes nothing.
* Coverage: `TableIs` has the modules at their places and behind them a region for
  every block that no module covers, none with the span of a module; so the last entry
  with the span of a block (what a dict of spans keeps) is a module whenever one is meant, and base
  and offset give the address back while spans are no longer than an offset counts.
  `IsSource` says that and that a module was declared as it was meant; the lists of
  `tables` satisfy it, those of `MCSourcesWide` do not.
* Provenance: an offset is in one run of its set (`Ranges`), the runs being the
  longest intervals; a read that touches the buffer begins in it (`From`), so the
  hook has seen it.
* Loaders: `MapHoles` goes through the mapped regions in order and maps what is
  between them; its loop invariant has everything below `at` mapped, everything
  mapped so far disjoint, and nothing refused. Over segments, what is mapped is the
  pages of those so far with the permissions of the first there, and what is
  written is what the last of them says.
* Differential runs: the loop of `compare` has stopped or has agreed on every step
  so far. `EnginesInv` says that the registers and the memory of an engine stay
  where they are, which `align` needs: it copies in whole chunks, and the model's
  engines have two or four bytes each, so chunks of one and two end where memory does. Memory
  that ends within a chunk is not aligned there (`differential.py:158`).

To be reasoned about, the folds of these modules became recursive functions over
what they go through, and lists sorted by a key became `InOrder`. The attempts
found two things wanting. `Rank` as a CASE with overlapping branches said less
than the code's order of tests, so it is an IF chain. And the promise of the
preload was false for a window smaller than two pages, which the code's is not
(1 MB): `PublishingAssumption` says so now.

### Assumptions

Those named in the modules the proofs are about: `ProgramAssumption`,
`BoundsAssumption` and `NoneAssumption` of `Timeline`, `ServeAssumption` of
`Effects`, `ProgramAssumption` of `Breakpoints`, `CallsAssumption` of
`ReverseSearch`, `ThreadsAssumption` of `RunControl`, `TriageAssumption` of `Triage`,
`PublishingAssumption` and `TargetsAssumption` of `Publishing`,
`PageAssumption` of `Loaders`, `WidthAssumption` of `Coverage`, `ReachAssumption` of
`Symbols`, `ChunkAssumption` of `Differential`, `BufferAssumption` of `Provenance`,
`SizesAssumption` of `Heap`, `SessionAssumption` of `Session`, `LayoutAssumption`
and `ArgumentsAssumption` of `Syscalls` and of `Stubs`. TLC evaluates
them in every run. They say what the constants range over, except three:
`Timeline`'s `ProgramAssumption` says that memory changes only where the write hook
fired or the map changed, which is what Unicorn does; and `SessionAssumption` that
`record PATH` has a path and fails just when the file can not be opened, and `record off` never
does (`console.py:392-417`); and `TargetsAssumption` that what is launched has disjoint regions,
memory where they are and its program counter in one, as a Unicorn engine that can run has.

### Only model-checked

* `RefinesHistoryBoth` for the machine, which `effects_dirty` refutes: what is
  proved is the layer's half of it and, of the machine, the pages of `own`.
* Liveness: `WorkerComesBack`, `CaughtRunEnds`, `BatchEnds`.


## 5. What is not modelled, and the plan

Left out for good: register and argument tables (`arch.py`, `abi.py`), parsers
and file formats (most of `loaders.py`, `symbols.py`, `context.py`, the header
of `coverage.py`), argument parsing and start-up (`__main__.py`), reports
(`triage.py` from line 663), the console commands' own output and completion,
the P-code engine behind a differential run, module and provenance objects of
the trace, the Ghidra-side panel, tools and launchers: they keep no state whose
order could go wrong, or only copy it.

Next, in this order:

1. Edits by a second thread during a replay in `RunControl`, and `Publishing`
   on the run thread beside them.
2. Temporary breakpoints that outlive the run they were set for, with the
   intention of the user who asks for one at the same address later.
