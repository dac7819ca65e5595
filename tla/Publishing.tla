----------------------------- MODULE Publishing -----------------------------
(***************************************************************************)
(* What Ghidra's trace is told of the target (ghidraunicorn/commands.py,   *)
(* hooks.py and the methods of methods.py that read, edit and refresh).    *)
(* The trace here is its latest snapshot.  The machine moves as it likes:  *)
(* what moves it is in the other modules.                                  *)
(***************************************************************************)
EXTENDS Ordering, Sequences, SequencesExt, FiniteSetsExt

CONSTANTS
  TracePage,             \* PAGE_SIZE
  Window, Caps,          \* preload_memory: its window and the caps asked for
  Machines, Layouts,     \* what is launched: to be run, or just to be looked at
  Places,                \* where instructions lead: pairs of PC and SP
  Cells, Vals,           \* what is written, and with what
  Mappable,              \* regions the program may map as it runs
  BreakAt,               \* where breakpoints are set
  StoppedOnly,           \* Ghidra reads, edits and refreshes a stopped target only
  MaxICount, MaxBreaks, MaxEvents

ASSUME PublishingAssumption ==
  /\ TracePage \in Nat \ {0} /\ Window \in Nat /\ Window >= 2 * TracePage
  /\ Caps \subseteq Nat /\ Cells \subseteq Nat
  /\ {MaxICount, MaxBreaks, MaxEvents} \subseteq Nat /\ StoppedOnly \in BOOLEAN

\* A target as it is launched: disjoint regions, what is mapped is what they
\* hold, and the program is in one of them.
IsTarget(m) ==
  /\ m = [regions |-> m.regions, mem |-> [a \in DOMAIN m.mem |-> m.mem[a]], pc |-> m.pc,
          sp |-> m.sp, breaks |-> m.breaks, icount |-> 0, running |-> FALSE,
          terminated |-> FALSE, modules |-> m.modules, input |-> m.input]
  /\ IsFiniteSet(m.regions)
  /\ \A r \in m.regions : /\ r.start \in Nat /\ r.end \in Nat /\ r.start <= r.end
                          /\ \A s \in m.regions : r = s \/ r.end < s.start \/ s.end < r.start
  /\ DOMAIN m.mem = UNION {r.start..r.end : r \in m.regions}
  /\ m.pc \in DOMAIN m.mem /\ m.sp \in Nat

ASSUME TargetsAssumption == \A m \in Machines \cup Layouts : IsTarget(m)

VARIABLES
  machine,               \* the target
  trace,                 \* the latest snapshot and the objects
  still,                 \* history variable: the machine when it last stood still
  events                 \* bound: how much has happened

pvars == <<machine, trace, still, events>>

PageDown(a) == (a \div TracePage) * TracePage
PageUp(a) == PageDown(a + TracePage - 1)
Larger(a, b) == IF a < b THEN b ELSE a
Smaller(a, b) == IF a < b THEN a ELSE b
Holds(r, a) == r.start <= a /\ a <= r.end
SizeOf(r) == r.end - r.start + 1

----------------------------------------------------------------------------
(* What is put into a trace t of a machine m. *)

\* putmem of from..to-1: what is mapped is known, the rest is an error.
PutBytes(t, m, from, to) ==
  LET there == (from..(to - 1)) \cap DOMAIN m.mem
      missing == (from..(to - 1)) \ there
  IN  [t EXCEPT !.bytes = [a \in (DOMAIN @ \cup there) \ missing |->
                             IF a \in there THEN m.mem[a] ELSE @[a]],
                !.errors = (@ \ there) \cup missing]

PutPages(t, m, start, length) == PutBytes(t, m, PageDown(start), PageUp(start + length))

PutState(t, m, state) == [t EXCEPT !.state = state, !.icount = m.icount]
PutProcesses(t) == [t EXCEPT !.state = "STOPPED"]
PutFrames(t, m) == [t EXCEPT !.frame = <<m.pc, m.sp>>]
PutReg(t, m) == [t EXCEPT !.regs = <<m.pc, m.sp>>]
PutRegions(t, m) == [t EXCEPT !.regions = m.regions]

\* put_breakpoints: a register watch has no place to be shown at.
PutBreakpoints(t, m) == [t EXCEPT !.breaks = {b \in m.breaks : b.kind # "REGISTER"}]

----------------------------------------------------------------------------
(* preload_memory *)

Rank(m, r) ==
  IF Holds(r, m.pc) THEN 0
  ELSE IF Holds(r, m.sp) THEN 1
  ELSE IF \E a \in m.input : Holds(r, a) THEN 2
  ELSE IF \E d \in m.modules : d.base <= r.end /\ r.start <= d.end THEN 3
  ELSE IF r.exec THEN 4
  ELSE 5

Before(m, r, s) ==
  \/ Rank(m, r) < Rank(m, s)
  \/ Rank(m, r) = Rank(m, s) /\ SizeOf(r) < SizeOf(s)
  \/ Rank(m, r) = Rank(m, s) /\ SizeOf(r) = SizeOf(s) /\ r.start < s.start

\* Where the window on a region too large begins.
WindowAt(m, r, length) ==
  LET focus == IF Holds(r, m.pc) THEN m.pc ELSE IF Holds(r, m.sp) THEN m.sp ELSE r.start
      low == PageDown(Larger(r.start, focus - length \div 2))
  IN  Larger(r.start, Smaller(low, r.end + 1 - length))

\* One region, with what is left of the cap.
PreloadOne(m, cap, p, r) ==
  LET room == cap - p.total
      length == Smaller(room, Larger(Window, TracePage))
      lo == WindowAt(m, r, length)
      hi == lo + Smaller(length, r.end + 1 - lo)
  IN  IF room <= 0 THEN p
      ELSE IF SizeOf(r) <= room
      THEN [t |-> PutBytes(p.t, m, r.start, r.end + 1), total |-> p.total + SizeOf(r)]
      ELSE IF length < TracePage THEN p
      ELSE [t |-> PutBytes(p.t, m, lo, hi), total |-> p.total + hi - lo]

Preload(t, m, cap) ==
  LET order == InOrder(m.regions, {p \in m.regions \X m.regions : Before(m, p[1], p[2])})
      loaded[i \in 0..Len(order)] ==
        IF i = 0 THEN [t |-> t, total |-> 0] ELSE PreloadOne(m, cap, loaded[i - 1], order[i])
  IN  loaded[Len(order)].t

----------------------------------------------------------------------------

Blank == [bytes |-> <<>>, errors |-> {}, state |-> "", icount |-> 0, frame |-> <<>>,
          regs |-> <<>>, regions |-> {}, breaks |-> {}]

\* put_all
PutAll(m, preload, cap) ==
  LET t == PutBreakpoints(PutRegions(PutReg(PutFrames(PutProcesses(Blank), m), m), m), m)
  IN  IF preload THEN Preload(t, m, cap)
      ELSE PutPages(PutPages(t, m, m.pc, 1), m, m.sp, 1)

\* A new snapshot knows nothing of memory yet; objects stay as they are.
Snapshot(t) == [t EXCEPT !.bytes = <<>>, !.errors = {}]

Shows(m) == IF m.terminated THEN "TERMINATED" ELSE "STOPPED"

\* Mutant: the stop is written into the snapshot of the last one.
RecordStopHere(t, m) ==
  LET stopped == PutPages(PutReg(PutFrames(PutState(t, m, Shows(m)), m), m), m, m.pc, 1)
  IN  PutBreakpoints(IF m.sp = 0 THEN stopped ELSE PutPages(stopped, m, m.sp - 1, 2), m)

\* record_stop.  Below address 0 there is nothing to put, and that is ignored.
RecordStop(t, m) ==
  LET stopped == PutPages(PutReg(PutFrames(PutState(Snapshot(t), m, Shows(m)), m), m), m, m.pc, 1)
  IN  PutBreakpoints(IF m.sp = 0 THEN stopped ELSE PutPages(stopped, m, m.sp - 1, 2), m)

----------------------------------------------------------------------------

\* The machine, the trace, and the machine if it stands still.
Becomes(m, t) ==
  /\ events < MaxEvents /\ events' = events + 1
  /\ machine' = m /\ trace' = t
  /\ still' = IF m.running THEN still ELSE m

\* Some instructions lead to p at count k, write v at c and map what is new.
Ran(m, k, p, c, v, new) ==
  [m EXCEPT !.pc = p[1], !.sp = p[2], !.icount = k,
            !.regions = @ \cup new,
            !.mem = [a \in DOMAIN @ \cup UNION {r.start..r.end : r \in new} |->
                       IF a = c THEN v ELSE IF a \in DOMAIN @ THEN @[a] ELSE 0],
            !.breaks = {[b EXCEPT !.hits = IF b.enabled /\ b.address = p[1] THEN k ELSE @] : b \in @}]

\* Where they may lead.
Afterwards(m, k) ==
  {Ran(m, k, p, c, v, new) :
     p \in Places, c \in Cells, v \in Vals, new \in {{}, Mappable \ m.regions}}

PublishInit ==
  /\ machine \in Machines
  /\ \E preload \in BOOLEAN, cap \in Caps : trace = PutAll(machine, preload, cap)
  /\ still = machine /\ events = 0

\* methods.resume
Resume ==
  /\ ~machine.running /\ ~machine.terminated
  /\ Becomes([machine EXCEPT !.running = TRUE], PutState(trace, machine, "RUNNING"))

Runs ==
  /\ machine.running
  /\ \E m \in Afterwards(machine, Smaller(machine.icount + 1, MaxICount)) : Becomes(m, trace)

\* The run ends: on_stop.
Stops ==
  /\ machine.running
  /\ \E ended \in BOOLEAN :
       LET m == [machine EXCEPT !.running = FALSE, !.terminated = ended]
       IN  Becomes(m, RecordStop(trace, m))

\* step_into, step_over and advance.
Steps ==
  /\ ~machine.running /\ ~machine.terminated
  /\ \E m \in Afterwards(machine, Smaller(machine.icount + 1, MaxICount)), ended \in BOOLEAN :
       LET n == [m EXCEPT !.terminated = ended] IN Becomes(n, RecordStop(trace, n))

\* The reverse methods.
StepsBack ==
  /\ ~machine.running /\ machine.icount > 0
  /\ \E m \in Afterwards(machine, machine.icount - 1) :
       LET n == [m EXCEPT !.terminated = FALSE] IN Becomes(n, RecordStop(trace, n))

\* methods.kill of a target that is not running.
Kill ==
  /\ ~machine.running /\ ~machine.terminated
  /\ LET m == [machine EXCEPT !.terminated = TRUE] IN Becomes(m, RecordStop(trace, m))

MayAsk == StoppedOnly => ~machine.running

ReadMem ==
  /\ MayAsk
  /\ \E a \in Cells : Becomes(machine, PutPages(trace, machine, a, 1))

\* write_mem, and the console's set.
WriteMem ==
  /\ MayAsk
  /\ \E a \in Cells \cap DOMAIN machine.mem, v \in Vals :
       LET m == [machine EXCEPT !.mem[a] = v] IN Becomes(m, PutBytes(trace, m, a, a + 1))

\* write_reg, and the console's regs.
WriteReg ==
  /\ MayAsk
  /\ \E p \in Places :
       LET m == [machine EXCEPT !.pc = p[1], !.sp = p[2]]
       IN  Becomes(m, PutFrames(PutReg(trace, m), m))

\* break_sw_execute and the others, toggle and delete: also during a run.
ChangeBreakpoints ==
  \E breaks \in
      (IF Cardinality(machine.breaks) >= MaxBreaks THEN {}
       ELSE {machine.breaks \cup {[num |-> Cardinality(machine.breaks) + 1, address |-> a, kind |-> kind,
                                   enabled |-> TRUE, hits |-> 0]} :
               a \in BreakAt, kind \in {"EXECUTE", "REGISTER"}})
      \cup {(machine.breaks \ {b}) \cup {[b EXCEPT !.enabled = ~@]} : b \in machine.breaks}
      \cup {machine.breaks \ {b} : b \in {b \in machine.breaks : b.num = Cardinality(machine.breaks)}} :
    LET m == [machine EXCEPT !.breaks = breaks] IN Becomes(m, PutBreakpoints(trace, m))

\* refresh_processes and refresh_threads.
RefreshProcesses ==
  /\ MayAsk /\ (StoppedOnly => ~machine.terminated)
  /\ Becomes(machine, PutProcesses(trace))

\* The other refresh methods, each of its own part.
Refresh ==
  /\ MayAsk
  /\ \E t \in {PutFrames(trace, machine), PutReg(trace, machine),
               PutRegions(trace, machine), PutBreakpoints(trace, machine)} :
       Becomes(machine, t)

PublishNext ==
  \/ Resume \/ Runs \/ Stops \/ Steps \/ StepsBack \/ Kill
  \/ ReadMem \/ WriteMem \/ WriteReg \/ ChangeBreakpoints
  \/ RefreshProcesses \/ Refresh

PublishSpec == PublishInit /\ [][PublishNext]_pvars

----------------------------------------------------------------------------
(* Properties. *)

\* Whatever is run, gone back to, read, edited and refreshed, what the latest
\* snapshot says of registers, of the frame and of the memory it knows is what
\* the machine held when it last stood still; the state and the breakpoints
\* are the target's (commands.py, record_stop, and the methods that publish
\* after an edit).
Shown ==
  /\ trace.state = IF machine.running THEN "RUNNING" ELSE Shows(machine)
  /\ trace.icount = still.icount
  /\ trace.frame = <<still.pc, still.sp>> /\ trace.regs = trace.frame
  /\ \A a \in DOMAIN trace.bytes : a \in DOMAIN still.mem /\ trace.bytes[a] = still.mem[a]
  /\ trace.errors \cap DOMAIN still.mem = {}
  /\ ~machine.running => trace.breaks = {b \in machine.breaks : b.kind # "REGISTER"}

\* At launch no more is copied than the cap allows, and what is copied is what
\* matters: the code at the PC, and the stack if there is room for it too.  The
\* window is two pages at least, or the page of the PC may be next to it
\* (commands.py, preload_memory: "a window of it is copied around whatever made
\* it interesting").
PreloadedRight(m, cap) ==
  LET known == DOMAIN PutAll(m, TRUE, cap).bytes
      Of(a) == CHOOSE r \in m.regions : Holds(r, a)
      Room == cap - SizeOf(Of(m.pc))
  IN  /\ Cardinality(known) <= cap
      /\ cap >= Smaller(SizeOf(Of(m.pc)), 2 * TracePage) => m.pc \in known
      /\ m.sp \in DOMAIN m.mem /\ Of(m.sp) # Of(m.pc)
           /\ Room >= Smaller(SizeOf(Of(m.sp)), 2 * TracePage) => m.sp \in known

LaunchedRight == \A m \in Machines \cup Layouts, cap \in Caps : PreloadedRight(m, cap)

\* The regions shown are those that are mapped.
RegionsShown == ~machine.running => trace.regions = machine.regions
=============================================================================
