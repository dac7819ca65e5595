--------------------------- MODULE ReverseSearch ---------------------------
(***************************************************************************)
(* The searches through the past of UnicornTarget: step_back_over, which   *)
(* undoes whole calls, and resume_back, which runs backwards to the last   *)
(* breakpoint (ghidraunicorn/target.py).  Both replay the past a window at *)
(* a time, from one checkpoint to the next, newest window first.           *)
(***************************************************************************)
EXTENDS Breakpoints

CONSTANTS
  Insn,       \* a state's next instruction: "call", "return" or "plain"
  Depth,      \* how many calls deep a state really is
  MaxBack     \* bound: instructions undone by one step_back_over

ASSUME CallsAssumption ==
  /\ Insn \in [State -> {"call", "return", "plain"}] /\ Depth \in [State -> Nat]
  /\ MaxBack \in Nat \ {0}

At(k) == past[k + 1]

\* Mutant: only calls are recognised.
DepthDeltaCalls(state) == IF Insn[state] = "call" THEN -1 ELSE 0

\* _depth_delta: how the depth changes from behind an instruction to before it.
DepthDelta(state) ==
  CASE Insn[state] = "call" -> -1 [] Insn[state] = "return" -> 1 [] OTHER -> 0

----------------------------------------------------------------------------
(* step_back_over *)

\* _prev_over at instruction k: the newest one where the calls met on the way
\* back make up for the returns, and the oldest there is otherwise.  Each
\* window starts where the one before ended, so the sum runs through.
PrevOver(k) ==
  LET rel == [j \in earliest..k |->
                SumFunctionOnSet([i \in 0..(k - 1) |-> DepthDelta(At(i))], j..(k - 1))]
      level == {j \in earliest..(k - 1) : rel[j] <= 0}
  IN  IF level = {} THEN earliest ELSE Max(level)

\* Where each of n of them leads, as far as the history reaches.
BackOver(n) ==
  {p \in [0..n -> earliest..icount] :
     /\ p[0] = icount
     /\ \A i \in 1..n : p[i] = IF p[i - 1] = earliest THEN earliest ELSE PrevOver(p[i - 1])}

\* step_back_over(n).  When the history ends on the way it raises, the machine
\* having moved: no event is made of that.
StepBackOver(n) ==
  /\ Reversible(icount - 1)
  /\ \E p \in BackOver(n) :
       /\ Rewind(p[n], UndoHits(p[n]))
       /\ event' = IF earliest \in {p[i] : i \in 0..(n - 1)} THEN event ELSE Why("step", None)

----------------------------------------------------------------------------
(* resume_back *)

\* by_address: of two execute breakpoints at an address the later one.
ByAddress(a) ==
  LET here == {n \in Enabled(EXECUTE) : breakpoints[n].at = a}
  IN  IF here = {} THEN None ELSE Max(here)

\* Mutant: an access of a window's last instruction is left to no window.
ScanBackInside(lo, hi) ==
  {c \in [at : lo..hi, num : Set, kind : {EXECUTE, ACCESS}] :
     \/ c.kind = EXECUTE /\ c.num = ByAddress(PC[At(c.at)])
     \/ c.kind = ACCESS /\ c.at > lo /\ c.num \in Enabled(ACCESS)
        /\ breakpoints[c.num].at \in Touches[At(c.at - 1)]}

\* _scan_back: where a breakpoint would have fired in lo..hi.  An access is
\* stopped after, one instruction on.  Register watches have no hook that
\* could be observed.
ScanBack(lo, hi) ==
  {c \in [at : lo..(hi + 1), num : Set, kind : {EXECUTE, ACCESS}] :
     \/ c.kind = EXECUTE /\ c.at <= hi /\ c.num = ByAddress(PC[At(c.at)])
     \/ c.kind = ACCESS /\ c.at > lo /\ c.num \in Enabled(ACCESS)
        /\ breakpoints[c.num].at \in Touches[At(c.at - 1)]}

\* The candidates are sorted by instruction, the accesses at one instruction
\* behind an execute breakpoint there, and tried from the end.
Later(c, d) ==
  \/ c.at > d.at
  \/ c.at = d.at /\ c.kind = ACCESS /\ d.kind = EXECUTE
  \/ c.at = d.at /\ c.kind = d.kind /\ c.num > d.num

\* _first_that_holds: a condition is tested in the state gone back to.
FirstThatHolds(candidates) ==
  LET holds == {c \in candidates : c.at < icount /\ At(c.at) \in breakpoints[c.num].cond}
  IN  {c \in holds : \A d \in holds \ {c} : Later(c, d)}

\* The window of the loop in resume_back that starts at a checkpoint.
Window(cps, lo) == ScanBack(lo, Min({cp \in cps \cup {icount} : cp > lo}) - 1)

\* Mutant: arriving backwards is always a hit.
RecountAlways(r, k, num) ==
  [hits |-> Append(r.hits, [icount |-> k, num |-> num, ignored |-> FALSE]),
   bps |-> [r.bps EXCEPT ![num].hits = @ + 1]]

\* _recount: a hit only where the forward run has not recorded it, when the
\* breakpoint was set later.
Recount(r, k, num) ==
  IF \E i \in DOMAIN r.hits : r.hits[i].icount = k /\ r.hits[i].num = num THEN r
  ELSE [hits |-> Append(r.hits, [icount |-> k, num |-> num, ignored |-> FALSE]),
        bps |-> [r.bps EXCEPT ![num].hits = @ + 1]]

\* resume_back, with checkpoints at cps: the newest window with a candidate
\* that holds, or the start of the history.
ResumeBack(cps) ==
  /\ Reversible(icount - 1)
  /\ LET found == {w \in cps : FirstThatHolds(Window(cps, w)) # {}} IN
     IF found = {}
     THEN /\ Rewind(earliest, UndoHits(earliest))
          /\ event' = Why("stopped", None)
     ELSE \E c \in FirstThatHolds(Window(cps, Max(found))) :
            /\ Rewind(c.at, Recount(UndoHits(c.at), c.at, c.num))
            /\ event' = Why(IF c.kind = ACCESS THEN "watchpoint" ELSE "breakpoint", c.num)

\* Checkpoints may be anywhere after the base.
Checkpoints == {cps \cup {earliest} : cps \in SUBSET ((earliest + 1)..(icount - 1))}

RNext ==
  \/ Next
  \/ \E n \in 1..MaxBack : StepBackOver(n)
  \/ \E cps \in Checkpoints : ResumeBack(cps)

RSpec == Init /\ [][RNext]_vars

----------------------------------------------------------------------------
(* Properties. *)

\* Whether a run that came through instruction k again would stop there at a
\* breakpoint set now, conditions being asked of the state stopped in.  Of two
\* execute breakpoints at an address the later one counts.
StopsHere(k) ==
  \/ \E n \in Enabled(EXECUTE) : n = ByAddress(PC[At(k)]) /\ At(k) \in breakpoints[n].cond
  \/ k > earliest /\ \E n \in Enabled(ACCESS) :
       breakpoints[n].at \in Touches[At(k - 1)] /\ At(k) \in breakpoints[n].cond

Backwards == ~running /\ icount' < icount
ResumedBack ==
  Backwards /\ event'.reason # "step" /\ \E cps \in Checkpoints : ResumeBack(cps)

\* Running backwards arrives at the newest instruction before now where some
\* breakpoint stops, wherever the checkpoints happen to be, and at the start
\* of the history only when there is none (target.py, resume_back: "the most
\* recent hit before now"; the windows must neither overlap nor leave a gap).
NewestStop ==
  [][ResumedBack =>
       /\ \A k \in (icount' + 1)..(icount - 1) : ~StopsHere(k)
       /\ event'.reason # "stopped" => StopsHere(icount')
       /\ event'.reason = "stopped" => icount' = earliest]_vars

\* Having arrived at a breakpoint, forwards or backwards, it has been counted
\* there, once (target.py, _recount).
ArrivedOnce ==
  ~running /\ event # None /\ event.reason \in {"breakpoint", "watchpoint"}
    /\ event.num \in Set
    => Cardinality({i \in DOMAIN hits : hits[i].num = event.num /\ hits[i].icount = icount}) = 1

\* A condition on an access is asked, going forwards, while the instruction
\* runs.  What a forward run would do here:
StopsForwards(k) ==
  \/ \E n \in Enabled(EXECUTE) : breakpoints[n].at = PC[At(k)] /\ At(k) \in breakpoints[n].cond
  \/ k > earliest /\ \E n \in Enabled(ACCESS) :
       breakpoints[n].at \in Touches[At(k - 1)] /\ At(k - 1) \in breakpoints[n].cond
  \/ k > earliest /\ \E n \in Enabled(REGISTER) :
       Reg[At(k - 1)] # Reg[At(k)] /\ At(k) \in breakpoints[n].cond

\* A hit means going backwards what it means going forwards (target.py:1105,
\* "'Hit' means the same thing it means going forwards").
SameHit ==
  [][ResumedBack =>
       /\ \A k \in (icount' + 1)..(icount - 1) : ~StopsForwards(k)
       /\ event'.reason # "stopped" => StopsForwards(icount')]_vars

\* A step back over calls ends no deeper than it started, and goes no further
\* than it must (target.py, _prev_over: "the most recent one before now that
\* ran at the current call depth or shallower").
OverCalls ==
  [][Backwards /\ StepBackOver(1) =>
       /\ \A k \in (icount' + 1)..(icount - 1) : Depth[At(k)] > Depth[Now]
       /\ icount' > earliest => Depth[Now'] <= Depth[Now]]_vars

=============================================================================
