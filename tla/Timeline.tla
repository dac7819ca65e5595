------------------------------ MODULE Timeline ------------------------------
(***************************************************************************)
(* The storage half of reverse execution (ghidraunicorn/timeline.py) and   *)
(* the part of UnicornTarget that drives it (ghidraunicorn/target.py):     *)
(* a base snapshot, delta checkpoints holding the pages written since the  *)
(* checkpoint before, folding of the oldest deltas into the base when they *)
(* outgrow the budget, and going back by restoring the checkpoint at or    *)
(* before the instruction wanted and re-emulating the rest.                *)
(*                                                                         *)
(* The emulated program is a constant: Exec gives the machine after one    *)
(* instruction, Writes the pages whose write hook that instruction fires.  *)
(* Memory is one page per region; a page that is not mapped is Absent, and *)
(* so is a page a checkpoint does not hold.  `hist` is a history variable: *)
(* the state the machine was last in at each instruction still reachable.  *)
(***************************************************************************)
EXTENDS Naturals, Sequences, FiniteSets, FiniteSetsExt, Functions

CONSTANTS
  Pages, Vals, Ctxs,     \* page addresses, page contents, CPU contexts
  Zero,                  \* the contents Unicorn gives a page it maps
  Absent,                \* no such page: not mapped, or not in a checkpoint
  Exec,                  \* [Machine -> Machine], one instruction
  Writes,                \* [Machine -> SUBSET Pages], what UC_HOOK_MEM_WRITE sees
  Faulting,              \* the machines whose next instruction faults
  Interval,              \* instructions between checkpoints
  Budget,                \* room for delta checkpoints
  CtxSize,               \* room a saved CPU context takes, in pages
  None,                  \* there is no base snapshot yet
  MaxICount,             \* bound: no run goes past this instruction
  MaxDeltas              \* bound: no edit is made once this many deltas are held

Machine == [ctx : Ctxs, mem : [Pages -> Vals \cup {Absent}]]

Mapped(mem) == {p \in Pages : mem[p] # Absent}

ASSUME ProgramAssumption ==
  /\ Zero \in Vals /\ Absent \notin Vals
  /\ Exec \in [Machine -> Machine]
  /\ Writes \in [Machine -> SUBSET Pages]
  /\ Faulting \subseteq Machine
  \* memory changes only where the write hook fired, or where it was mapped
  \* (zeroed) or unmapped
  /\ \A m \in Machine : \A p \in Pages \ Writes[m] :
       LET old == m.mem[p]  new == Exec[m].mem[p]
       IN  new = old \/ new = Absent \/ (old = Absent /\ new = Zero)

\* A page the program maps is one it writes: what restoring relies on.  A
\* program that maps nothing is one of these.
MapsWritten ==
  \A m \in Machine : \A p \in Pages \ Writes[m] :
    m.mem[p] = Absent => Exec[m].mem[p] = Absent

ASSUME BoundsAssumption ==
  /\ Interval \in Nat \ {0} /\ IsFiniteSet(Pages)
  /\ {Budget, CtxSize, MaxICount, MaxDeltas} \subseteq Nat

Checkpoint == [icount : Nat, ctx : Ctxs,
               pages : [Pages -> Vals \cup {Absent}], regions : SUBSET Pages]

ASSUME NoneAssumption == None \notin Checkpoint

VARIABLES
  machine,               \* what Unicorn holds now
  base,                  \* Timeline.base
  checkpoints,           \* Timeline.checkpoints: the deltas, oldest first
  dirty,                 \* Timeline.dirty
  icount,                \* Timeline.icount
  next,                  \* Timeline._next
  replaying,             \* UnicornTarget._replaying
  left,                  \* instructions the replay still has to run
  ricount,               \* UnicornTarget._replay_icount
  hist                   \* history variable

stored == <<base, checkpoints, dirty, icount, next>>
vars == <<machine, stored, replaying, left, ricount, hist>>

----------------------------------------------------------------------------
(* Checkpoints. *)

Snapshot(i, m, pages) ==
  [icount |-> i, ctx |-> m.ctx, regions |-> Mapped(m.mem),
   pages |-> [p \in Pages |-> IF p \in pages THEN m.mem[p] ELSE Absent]]

Size(cp) == Cardinality({p \in Pages : cp.pages[p] # Absent}) + CtxSize

\* What is held once the f oldest of the deltas cs are gone.
Held(cs, f) == SumFunctionOnSet([i \in DOMAIN cs |-> Size(cs[i])], (f + 1)..Len(cs))

\* The image `pages` overwritten by the first n of the deltas cs, in order.
Overlay(pages, cs, n) ==
  [p \in Pages |->
     LET holders == {j \in 1..n : cs[j].pages[p] # Absent}
     IN  IF holders = {} THEN pages[p]
         ELSE cs[CHOOSE j \in holders : \A i \in holders : i <= j].pages[p]]

\* Mutant: at most one delta is folded per checkpoint.
ExcessOnce(cs) == {f \in 0..1 : f = 0 <=> Held(cs, 0) <= Budget}

\* How many of the oldest deltas have to go: as few as fit the budget.
Excess(cs) == {f \in 0..Len(cs) : /\ f = Len(cs) \/ Held(cs, f) <= Budget
                                  /\ \A g \in 0..(f - 1) : Held(cs, g) > Budget}

\* Mutant: the base keeps claiming the instruction it was first taken at.
FoldedBaseStale(b, cs, f) ==
  IF f = 0 THEN b
  ELSE [cs[f] EXCEPT !.pages = Overlay(b.pages, cs, f), !.icount = b.icount]

\* The base after the f oldest deltas were folded into it, one by one.
FoldedBase(b, cs, f) ==
  IF f = 0 THEN b ELSE [cs[f] EXCEPT !.pages = Overlay(b.pages, cs, f)]

\* checkpoint() in state m: a full snapshot the first time, then the pages
\* dirtied since the last one; the budget is enforced before it returns.
TakeCheckpoint(i, m, d) ==
  /\ next' = i + Interval
  /\ IF base = None
     THEN base' = Snapshot(i, m, Pages) /\ checkpoints' = checkpoints
     ELSE LET cs == Append(checkpoints, Snapshot(i, m, d))
          IN  \E f \in Excess(cs) :
                /\ base' = FoldedBase(base, cs, f)
                /\ checkpoints' = SubSeq(cs, f + 1, Len(cs))

\* Timeline.earliest.  Without a base nothing has run: icount is 0.
Earliest(b) == IF b = None THEN 0 ELSE b.icount

\* The history variable: what can still be reached, now that `machine'` is
\* the state at icount'.
Remember == hist' = [i \in Earliest(base')..icount' |->
                       IF i = icount' THEN machine' ELSE hist[i]]

----------------------------------------------------------------------------
(* Going forward, and edits made through the debugger. *)

Init ==
  /\ machine \in Machine
  /\ base = None /\ checkpoints = <<>> /\ dirty = {}
  /\ icount = 0 /\ next = 0
  /\ replaying = FALSE /\ left = 0 /\ ricount = 0
  /\ hist = [i \in 0..0 |-> machine]

\* Mutant: the pages the instruction writes are forgotten with the others.
NoteInstructionClears(written) ==
  IF icount >= next
  THEN TakeCheckpoint(icount, machine, dirty) /\ dirty' = {}
  ELSE /\ dirty' = dirty \cup written
       /\ UNCHANGED <<base, checkpoints, next>>

\* note_instruction: the checkpoint, if one is due, is of the state before the
\* instruction; what the instruction then writes belongs to the next one.
NoteInstruction(written) ==
  IF icount >= next
  THEN TakeCheckpoint(icount, machine, dirty) /\ dirty' = written
  ELSE /\ dirty' = dirty \cup written
       /\ UNCHANGED <<base, checkpoints, next>>

Idle == ~replaying /\ UNCHANGED <<replaying, left, ricount>>

\* One instruction of a run: counted by the code hook, then executed.
Execute ==
  /\ Idle
  /\ icount < MaxICount
  /\ machine \notin Faulting
  /\ machine' = Exec[machine]
  /\ icount' = icount + 1
  /\ NoteInstruction(Writes[machine])
  /\ Remember

\* An instruction whose hook ran but which Unicorn refused: counted, possibly
\* checkpointed, and then uncounted.
Fault ==
  /\ Idle
  /\ machine \in Faulting
  /\ NoteInstruction({})
  /\ UNCHANGED <<machine, icount>>
  /\ Remember

\* Mutant: an edit only marks its pages, as a write by the program would.
EditedUnsaved(m, pages) ==
  /\ Idle
  /\ Len(checkpoints) < MaxDeltas
  /\ machine' = m
  /\ dirty' = dirty \cup pages
  /\ UNCHANGED <<base, checkpoints, next, icount>>
  /\ Remember

\* An edit made through the debugger, between two runs: the memory written is dirty, and once
\* there is a base the state it made is checkpointed on the spot.
Edited(m, pages) ==
  /\ Idle
  /\ Len(checkpoints) < MaxDeltas
  /\ machine' = m
  /\ IF base = None
     THEN dirty' = dirty \cup pages /\ UNCHANGED <<base, checkpoints, next>>
     ELSE TakeCheckpoint(icount, m, dirty \cup pages) /\ dirty' = {}
  /\ UNCHANGED icount
  /\ Remember

\* UnicornTarget.write, then note_external_write
EditMemory(p, v) ==
  /\ p \in Mapped(machine.mem)
  /\ Edited([machine EXCEPT !.mem[p] = v], {p})

\* UnicornTarget.reg_write, then note_external_change
EditRegister(c) == Edited([machine EXCEPT !.ctx = c], {})

----------------------------------------------------------------------------
(* Going back. *)

\* Mutant: the scan gives up one checkpoint too late.
ReachesOneMore(n, k) ==
  /\ \A i \in 1..(n - 1) : checkpoints[i].icount <= k
  /\ \A i \in (n + 1)..Len(checkpoints) : checkpoints[i].icount > k

\* n deltas are at or before instruction k, and no more: checkpoint_at_or_before
\* stops its scan after them, and truncate keeps exactly them.
Reaches(n, k) ==
  /\ \A i \in 1..n : checkpoints[i].icount <= k
  /\ \A i \in (n + 1)..Len(checkpoints) : checkpoints[i].icount > k

Latest(n) == IF n = 0 THEN base ELSE checkpoints[n]

\* What restore leaves in memory for the n-th checkpoint.  _sync_regions
\* unmaps whatever should not be there, and whatever should but has no image
\* in the base, and maps back (zeroed) what is missing; then come the pages
\* of the base and of the deltas, as far as they land in something mapped.
RestoredMem(n) ==
  LET image == Overlay(base.pages, checkpoints, n)
      survives(p) == p \in base.regions /\ machine.mem[p] # Absent
  IN  [p \in Pages |->
         IF p \notin Latest(n).regions THEN Absent
         ELSE IF image[p] # Absent THEN image[p]
         ELSE IF survives(p) THEN machine.mem[p]
         ELSE Zero]

Restored(n) == [ctx |-> Latest(n).ctx, mem |-> RestoredMem(n)]

\* Mutant: the next checkpoint is still due where it was before the rewind.
BeginGotoLate(k) ==
  /\ ~replaying
  /\ base # None
  /\ base.icount <= k /\ k <= icount
  /\ \E n \in 0..Len(checkpoints) :
       LET at == Latest(n).icount IN
       /\ Reaches(n, k)
       /\ machine' = Restored(n)
       /\ checkpoints' = SubSeq(checkpoints, 1, n)
       /\ icount' = at /\ ricount' = at /\ left' = k - at
  /\ dirty' = {}
  /\ replaying' = TRUE
  /\ UNCHANGED <<base, next, hist>>

\* _go(k) up to the replay: bounds check, restore, truncate to the checkpoint.
BeginGoto(k) ==
  /\ ~replaying
  /\ base # None
  /\ base.icount <= k /\ k <= icount
  /\ \E n \in 0..Len(checkpoints) :
       LET at == Latest(n).icount IN
       /\ Reaches(n, k)
       /\ machine' = Restored(n)
       /\ checkpoints' = SubSeq(checkpoints, 1, n)
       /\ icount' = at /\ ricount' = at /\ left' = k - at
       /\ next' = at + Interval
  /\ dirty' = {}
  /\ replaying' = TRUE
  /\ UNCHANGED <<base, hist>>

\* One instruction of _replay_forward: muted, not counted, but the write hook
\* still marks pages.  It can only fault if the replay has diverged.
ReplayStep ==
  /\ replaying /\ left > 0
  /\ machine \notin Faulting
  /\ machine' = Exec[machine]
  /\ dirty' = dirty \cup Writes[machine]
  /\ ricount' = ricount + 1 /\ left' = left - 1
  /\ UNCHANGED <<base, checkpoints, icount, next, replaying, hist>>

\* The replay is over: advance_to(k).
EndGoto ==
  /\ replaying /\ left = 0
  /\ replaying' = FALSE
  /\ icount' = ricount
  /\ next' = IF next < ricount THEN ricount ELSE next
  /\ hist' = [i \in base.icount..ricount |-> hist[i]]
  /\ UNCHANGED <<machine, base, checkpoints, dirty, left, ricount>>

Next ==
  \/ Execute
  \/ Fault
  \/ \E p \in Pages, v \in Vals : EditMemory(p, v)
  \/ \E c \in Ctxs : EditRegister(c)
  \/ \E k \in 0..MaxICount : BeginGoto(k)
  \/ ReplayStep
  \/ EndGoto

Spec == Init /\ [][Next]_vars

----------------------------------------------------------------------------
(* Properties. *)

TypeOK ==
  /\ machine \in Machine
  /\ base \in Checkpoint \cup {None}
  /\ checkpoints \in Seq(Checkpoint)
  /\ dirty \subseteq Pages
  /\ icount \in Nat /\ next \in Nat
  /\ replaying \in BOOLEAN /\ left \in Nat /\ ricount \in Nat
  /\ DOMAIN hist \subseteq Nat
  /\ \A i \in DOMAIN hist : hist[i] \in Machine

\* Every instruction the history reaches can be reached: the checkpoint a
\* goto would start from restores to the state the machine had there, and
\* from it the program runs, without faulting, through the very states it
\* went through the first time.  (timeline.py, restore and _enforce_budget;
\* target.py, _go.)
Restorable ==
  base # None /\ ~replaying =>
    \A k \in base.icount..icount : \E n \in 0..Len(checkpoints) :
      /\ Reaches(n, k)
      /\ Restored(n) = hist[Latest(n).icount]
      /\ \A i \in Latest(n).icount..(k - 1) :
           hist[i] \notin Faulting /\ hist[i + 1] = Exec[hist[i]]

\* A replay goes through the recorded states one by one: what it has reached
\* is what the machine was at that instruction, edits included.
ReplayTracksHistory == replaying => machine = hist[ricount]

\* No replay is longer than one checkpoint interval, whatever mix of runs,
\* edits, faults and rewinds made the checkpoints: the counter of the next
\* checkpoint is recomputed on every one of those paths.
ReplayIsShort ==
  base # None =>
    /\ left <= Interval
    /\ \A k \in base.icount..icount : \E n \in 0..Len(checkpoints) :
         Reaches(n, k) /\ k - Latest(n).icount <= Interval

\* The deltas kept never outgrow the budget (timeline.py:171, _enforce_budget).
BudgetKept == Held(checkpoints, 0) <= Budget

\* Reverse execution as the rest of the program sees it: runs append to the
\* history, edits change its newest state only, old states are given up from
\* the front, and a goto puts back exactly the state recorded.
Promised == INSTANCE History WITH
  State <- Machine, past <- hist,
  first <- Earliest(base), last <- Max(DOMAIN hist),
  now <- IF replaying THEN hist[Max(DOMAIN hist)] ELSE machine

RefinesHistory == Promised!HistorySpec
=============================================================================
