---------------------------- MODULE Breakpoints ----------------------------
(***************************************************************************)
(* Breakpoints, watchpoints and register watches of UnicornTarget          *)
(* (ghidraunicorn/target.py): when a run stops, what counts as a hit, and  *)
(* how going back takes hits back.                                         *)
(*                                                                         *)
(* The past is the sequence of states the program went through: that a     *)
(* goto restores them exactly is Timeline's subject.  The program is a     *)
(* constant: Step gives the next state, PC the address of the next         *)
(* instruction, Touches the data it accesses, Reg the register watched.    *)
(***************************************************************************)
EXTENDS Integers, Sequences, SequencesExt, FiniteSetsExt

CONSTANTS
  State, Addrs, Data,    \* machine states, code and data addresses
  PC, Step, Touches, Reg,
  Faulting,              \* the states whose next instruction faults
  Exits,                 \* end addresses
  Conds,                 \* conditions: the sets of states they hold in
  Kinds,                 \* the kinds of breakpoint users set
  Toggling, Advancing,   \* whether users disable breakpoints, and advance
  None,
  MaxICount, MaxBps, MaxIgnore   \* bounds

EXECUTE == "EXECUTE"
ACCESS == "ACCESS"
REGISTER == "REGISTER"

ASSUME ProgramAssumption ==
  /\ PC \in [State -> Addrs] /\ Step \in [State -> State]
  /\ Touches \in [State -> SUBSET Data] /\ DOMAIN Reg = State
  /\ Faulting \subseteq State /\ Exits \subseteq Addrs
  /\ Conds \subseteq SUBSET State
  /\ Kinds \subseteq {EXECUTE, ACCESS, REGISTER}
  /\ {Toggling, Advancing} \subseteq BOOLEAN
  /\ {MaxICount, MaxBps, MaxIgnore} \subseteq Nat
  /\ None \notin Nat /\ None # [reason |-> "error", num |-> None]

Nums == 1..MaxBps

VARIABLES
  past,                  \* the states at instructions 0, 1, ..., icount
  earliest,              \* Timeline.earliest
  breakpoints, byAddr,   \* UnicornTarget.breakpoints and _bp_by_addr
  nextBp,                \* _next_bp
  hits,                  \* _hits
  running, first, left,  \* _running, _first, _left
  halted,                \* a hook has called emu_stop
  stop, pending,         \* _stop and _pending: the reason, and which breakpoint
  terminated,
  event,                 \* the StopEvent of the last run
  counted                \* history variable: see Conserved

control == <<running, first, left, halted, stop, pending>>
vars == <<past, earliest, breakpoints, byAddr, nextBp, hits, control, terminated, event, counted>>

icount == Len(past) - 1
Now == past[Len(past)]

Why(reason, num) == [reason |-> reason, num |-> num]
Set == DOMAIN breakpoints

----------------------------------------------------------------------------
(* Hits. *)

\* What the hooks are asked of and answer: the breakpoints, the log of hits, and
\* which one stops the run.
AsIs == [bps |-> breakpoints, hits |-> hits, fired |-> None]

\* A breakpoint that has been hit, and a register watch that has looked.
Hit(bp) == [bp EXCEPT !.hits = @ + 1, !.ignore = IF @ > 0 THEN @ - 1 ELSE 0]
Seen(bp) == [bp EXCEPT !.previous = Reg[Now]]

\* Their entries in the log, in any order: they are of one instruction.
Entries(r, S, at) ==
  [i \in 1..Cardinality(S) |->
     LET n == SetToSeq(S)[i] IN [icount |-> at, num |-> n, ignored |-> r.bps[n].ignore > 0]]

\* Of the breakpoints S, asked in the order they were set: those that would
\* stop here, and those asked until one does.
Fires(r, S) == {n \in S : Now \in r.bps[n].cond /\ r.bps[n].ignore = 0}
Met(r, S) == {n \in S : \A m \in Fires(r, S) : n <= m}

\* Mutant: a hit that is let pass is not written down.
CountOnlyStops(r, S, at) ==
  LET hit == {n \in Met(r, S) : Now \in r.bps[n].cond}
  IN  [bps |-> [n \in DOMAIN r.bps |-> IF n \in hit THEN Hit(r.bps[n]) ELSE r.bps[n]],
       hits |-> r.hits \o Entries(r, hit \cap Fires(r, S), at),
       fired |-> IF Fires(r, S) = {} THEN None ELSE Min(Fires(r, S))]

\* _triggers for each of S in turn: a condition that is false is no hit; an
\* ignore count consumes one.  The hit belongs to the instruction the stop
\* belongs to.
Count(r, S, at) ==
  LET hit == {n \in Met(r, S) : Now \in r.bps[n].cond}
  IN  [bps |-> [n \in DOMAIN r.bps |-> IF n \in hit THEN Hit(r.bps[n]) ELSE r.bps[n]],
       hits |-> r.hits \o Entries(r, hit, at),
       fired |-> IF Fires(r, S) = {} THEN None ELSE Min(Fires(r, S))]

\* The breakpoints of a kind that are asked at all.
Enabled(kind) == {n \in Set : breakpoints[n].enabled /\ breakpoints[n].kind = kind}
Changed == {n \in Enabled(REGISTER) : breakpoints[n].previous # Reg[Now]}

\* Mutant: the value compared with moves only when the watch stops.
RegistersMoveOnStop ==
  LET c == Count(AsIs, Changed, icount)
  IN  [c EXCEPT !.bps = [n \in Set |-> IF n = c.fired THEN Seen(@[n]) ELSE @[n]]]

\* _changed_register: `previous` moves whether or not the watch stops.
Registers ==
  LET c == Count(AsIs, Changed, icount)
  IN  [c EXCEPT !.bps = [n \in Set |-> IF n \in Met(AsIs, Changed) THEN Seen(@[n]) ELSE @[n]]]

\* _on_mem, for each access of the instruction: it has been counted already.
Accesses(r) == Count(r, {n \in Enabled(ACCESS) : breakpoints[n].at \in Touches[Now]}, icount + 1)

\* How many hits of a breakpoint are written down, and how many let it pass.
Logged(log, num) == Cardinality({i \in DOMAIN log : log[i].num = num})
LetPass(log, num) == Cardinality({i \in DOMAIN log : log[i].num = num /\ log[i].ignored})

\* _on_history_forgotten: the log loses its oldest hits, up to the first that
\* can still be reached; the counts they made stay.
Reachable(log, oldest) == Min({i \in DOMAIN log : log[i].icount >= oldest} \cup {Len(log) + 1})
Forget(log, oldest) == SubSeq(log, Reachable(log, oldest), Len(log))

\* The history variable follows: what has been forgotten is not undone.
Settle(log, oldest) ==
  counted' = [num \in Nums |->
    LET gone == SubSeq(log, 1, Reachable(log, oldest) - 1)
    IN  [hits |-> counted[num].hits + Logged(gone, num),
         ignore |-> counted[num].ignore - LetPass(gone, num)]]

----------------------------------------------------------------------------
(* Setting breakpoints, between two runs. *)

Idle == ~running /\ UNCHANGED <<past, earliest, control, terminated, event>>

Fresh(kind, at, temporary) ==
  [kind |-> kind, at |-> at, cond |-> State, temporary |-> temporary,
   enabled |-> TRUE, ignore |-> 0, hits |-> 0,
   previous |-> IF kind = REGISTER THEN Reg[Now] ELSE None]

\* add_breakpoint, add_watchpoint, add_register_watch, when a new one is made:
\* an execute breakpoint is the one its address is looked up to.
Extend(bp) ==
  /\ nextBp <= MaxBps
  /\ breakpoints' = [n \in Set \cup {nextBp} |-> IF n = nextBp THEN bp ELSE breakpoints[n]]
  /\ byAddr' = IF bp.kind = EXECUTE THEN [byAddr EXCEPT ![bp.at] = nextBp] ELSE byAddr
  /\ nextBp' = nextBp + 1
  /\ UNCHANGED <<hits, counted>>

\* Where there is an execute breakpoint already, no second one is made.
Add ==
  /\ Idle
  /\ \/ /\ EXECUTE \in Kinds
        /\ \E a \in Addrs :
             /\ \A n \in Set : breakpoints[n].kind = EXECUTE => breakpoints[n].at # a
             /\ Extend(Fresh(EXECUTE, a, FALSE))
     \/ /\ ACCESS \in Kinds
        /\ \E d \in Data : Extend(Fresh(ACCESS, d, FALSE))
     \/ /\ REGISTER \in Kinds
        /\ Extend(Fresh(REGISTER, None, FALSE))

Without(num) ==
  /\ breakpoints' = [n \in Set \ {num} |-> breakpoints[n]]
  /\ byAddr' = [a \in Addrs |-> IF byAddr[a] = num THEN None ELSE byAddr[a]]

\* delete_breakpoint.  Its hits stay in the log.
Delete(num) ==
  /\ Idle
  /\ Without(num)
  /\ UNCHANGED <<nextBp, hits, counted>>

\* enable_breakpoint
Toggle(num) ==
  /\ Toggling /\ Idle
  /\ breakpoints' = [breakpoints EXCEPT ![num].enabled = ~@]
  /\ UNCHANGED <<byAddr, nextBp, hits, counted>>

\* set_condition.  The condition of a new breakpoint always holds.
SetCondition(num, cond) ==
  /\ Idle
  /\ breakpoints' = [breakpoints EXCEPT ![num].cond = cond]
  /\ UNCHANGED <<byAddr, nextBp, hits, counted>>

\* set_ignore_count: what has been let pass so far no longer matters.
SetIgnore(num, n) ==
  /\ Idle
  /\ breakpoints' = [breakpoints EXCEPT ![num].ignore = n]
  /\ counted' = [counted EXCEPT ![num].ignore = n + LetPass(hits, num)]
  /\ UNCHANGED <<byAddr, nextBp, hits>>

----------------------------------------------------------------------------
(* A run. *)

\* The first half of _emulate.
Started(count) ==
  /\ ~running /\ ~terminated
  /\ running' = TRUE /\ first' = TRUE /\ left' = count /\ halted' = FALSE
  /\ stop' = None /\ pending' = None
  /\ UNCHANGED <<past, earliest, hits, terminated, event, counted>>

Run == Started(-1) /\ UNCHANGED <<breakpoints, byAddr, nextBp>>
StepOne == Started(1) /\ UNCHANGED <<breakpoints, byAddr, nextBp>>

\* advance and, at a call, step_over: a temporary breakpoint, then a run.
Advance(a) ==
  /\ Advancing
  /\ nextBp <= MaxBps
  /\ LET bp == Fresh(EXECUTE, a, TRUE)
     IN  breakpoints' = [n \in Set \cup {nextBp} |-> IF n = nextBp THEN bp ELSE breakpoints[n]]
  /\ byAddr' = [byAddr EXCEPT ![a] = nextBp]
  /\ nextBp' = nextBp + 1
  /\ Started(-1)

\* note_instruction, which may shorten the history, and then the instruction.
\* One that faults may have made its accesses first.
Retire(r) ==
  /\ icount < MaxICount
  /\ first' = FALSE /\ left' = IF left > 0 THEN left - 1 ELSE left
  /\ \E oldest \in earliest..icount, m \in {r, Accesses(r)} :
       /\ Now \notin Faulting => m = Accesses(r)
       /\ earliest' = oldest
       /\ breakpoints' = m.bps
       /\ hits' = Forget(m.hits, oldest)
       /\ Settle(m.hits, oldest)
       /\ pending' = IF m.fired # None THEN Why("watchpoint", m.fired) ELSE None
  /\ IF Now \in Faulting
     THEN halted' = TRUE /\ stop' = Why("error", None) /\ UNCHANGED past
     ELSE past' = Append(past, Step[Now]) /\ UNCHANGED <<halted, stop>>

\* A hook stops the run here, before the instruction at PC.
Halt(why, r) ==
  /\ halted' = TRUE /\ stop' = why /\ pending' = None
  /\ breakpoints' = r.bps /\ hits' = r.hits
  /\ UNCHANGED <<past, earliest, first, left, counted>>

\* Mutant: a breakpoint that has been hit before is not asked again.
ExecuteOnce(r) ==
  LET here == {n \in Set : byAddr[PC[Now]] = n /\ r.bps[n].enabled /\ r.bps[n].hits = 0}
  IN  Count(r, here, icount)

\* The execute breakpoint looked up for this address, if there is one.
Execute(r) ==
  LET here == {n \in Set : byAddr[PC[Now]] = n /\ r.bps[n].enabled}
  IN  Count(r, here, icount)

\* _on_code, in the order it looks: a watchpoint of the instruction before, a
\* register that instruction changed, the exemption of a run's first
\* instruction, the exit, the budget of a step, a breakpoint.
Hook ==
  /\ running /\ ~halted
  /\ UNCHANGED <<byAddr, nextBp, running, terminated, event>>
  /\ LET r == Registers
         b == Execute(r)
         exit == PC[Now] \in Exits
     IN
     \/ pending # None /\ Halt(pending, AsIs)
     \/ /\ pending = None
        /\ \/ r.fired # None /\ Halt(Why("watchpoint", r.fired), r)
           \/ r.fired = None /\ first /\ Retire(r)
           \/ /\ r.fired = None /\ ~first
              /\ \/ exit /\ Halt(Why("exit", None), r)
                 \/ ~exit /\ left = 0 /\ Halt(None, r)
                 \/ ~exit /\ left # 0 /\ b.fired # None /\ Halt(Why("breakpoint", b.fired), b)
                 \/ ~exit /\ left # 0 /\ b.fired = None /\ Retire(b)

\* Mutant: arriving at an exit is only noticed by the hook.
VerdictOfHooks ==
  IF stop # None THEN stop
  ELSE IF pending # None THEN pending
  ELSE Why("step", None)

\* What _emulate makes of the run: what a hook said, else a watchpoint no hook
\* came to report, else an exit that Unicorn's own count stopped at.
Verdict ==
  IF stop # None THEN stop
  ELSE IF pending # None THEN pending
  ELSE IF PC[Now] \in Exits THEN Why("exit", None)
  ELSE Why("step", None)

\* emu_start returns, because a hook stopped it, a step's count is used up, or
\* someone interrupted: the second half of _emulate.
Return ==
  /\ running
  /\ running' = FALSE /\ pending' = None
  /\ event' = Verdict
  /\ terminated' = (terminated \/ event'.reason = "exit")
  /\ IF event'.num # None /\ breakpoints[event'.num].temporary
     THEN Without(event'.num)
     ELSE UNCHANGED <<breakpoints, byAddr>>
  /\ UNCHANGED <<past, earliest, nextBp, hits, first, left, halted, stop, counted>>

----------------------------------------------------------------------------
(* Going back. *)

\* Mutant: the hit of the instruction after k is kept.
UndoneLate(log, k) ==
  SubSeq(log, 1, Max({i \in DOMAIN log : log[i].icount <= k + 1} \cup {0}))

\* The hits that survive going back to k, the newest being taken off as long as
\* it is after k: one at k itself stays.
Undone(log, k) == SubSeq(log, 1, Max({i \in DOMAIN log : log[i].icount <= k} \cup {0}))

\* Only leaving the end brings a terminated target back to life.
Terminated(k) == terminated /\ k = icount

\* _undo_hits: hits after k are taken back, with the ignore counts they used.
UndoHits(k) ==
  LET log == Undone(hits, k) IN
  [hits |-> log,
   bps |-> [n \in Set |->
     LET undone == Logged(hits, n) - Logged(log, n)
     IN  [breakpoints[n] EXCEPT
            !.hits = IF @ < undone THEN 0 ELSE @ - undone,
            !.ignore = @ + LetPass(hits, n) - LetPass(log, n)]]]

\* _go(k), with the hits as they are then: the register watches compare with
\* what is there now.
Rewind(k, r) ==
  /\ past' = SubSeq(past, 1, k + 1)
  /\ hits' = r.hits
  /\ breakpoints' = [n \in Set |->
       [r.bps[n] EXCEPT !.previous = IF r.bps[n].kind = REGISTER THEN Reg[past[k + 1]] ELSE None]]
  /\ stop' = None /\ pending' = None
  /\ terminated' = Terminated(k)
  /\ UNCHANGED <<earliest, byAddr, nextBp, running, first, left, halted, counted>>

\* _require_reversible
Reversible(k) == ~running /\ earliest <= k /\ k <= icount

\* goto_icount, step_back
Goto(k) ==
  /\ Reversible(k)
  /\ Rewind(k, UndoHits(k))
  /\ event' = Why("step", None)

----------------------------------------------------------------------------

Init ==
  /\ \E s \in State : PC[s] \notin Exits /\ past = <<s>>
  /\ earliest = 0
  /\ breakpoints = <<>> /\ byAddr = [a \in Addrs |-> None] /\ nextBp = 1
  /\ hits = <<>>
  /\ running = FALSE /\ first = FALSE /\ left = -1 /\ halted = FALSE
  /\ stop = None /\ pending = None
  /\ terminated = FALSE /\ event = None
  /\ counted = [num \in Nums |-> [hits |-> 0, ignore |-> 0]]

Next ==
  \/ Add
  \/ \E num \in Set : Delete(num) \/ Toggle(num)
  \/ \E num \in Set, cond \in Conds : SetCondition(num, cond)
  \/ \E num \in Set, n \in 0..MaxIgnore : SetIgnore(num, n)
  \/ Run \/ StepOne
  \/ \E a \in Addrs : Advance(a)
  \/ Hook
  \/ Return
  \/ \E k \in 0..MaxICount : Goto(k)

Spec == Init /\ [][Next]_vars

----------------------------------------------------------------------------
(* Properties. *)

Bp == [kind : Kinds \cup {EXECUTE}, at : Addrs \cup Data \cup {None}, cond : Conds \cup {State},
       temporary : BOOLEAN, enabled : BOOLEAN, ignore : Nat, hits : Nat,
       previous : {Reg[s] : s \in State} \cup {None}]

TypeOK ==
  /\ past \in Seq(State) /\ past # <<>> /\ earliest \in 0..icount
  /\ Set \subseteq 1..(nextBp - 1) /\ \A n \in Set : breakpoints[n] \in Bp
  /\ \A a \in Addrs : byAddr[a] # None => byAddr[a] \in Set
  /\ hits \in Seq([icount : Nat, num : Nums, ignored : BOOLEAN])

\* Hits and ignore counts are neither lost nor made up: what a breakpoint has
\* counted is what the log can still undo and what the history has forgotten,
\* and every ignore a hit used up comes back with it (target.py, _triggers,
\* _undo_hits, _on_history_forgotten).
Conserved ==
  \A num \in Set :
    /\ breakpoints[num].hits = counted[num].hits + Logged(hits, num)
    /\ breakpoints[num].ignore = counted[num].ignore - LetPass(hits, num)

\* A hit count means how often a breakpoint fired at or before where the
\* target is now, so no hit lies ahead, and the log, which is undone from its
\* newest end, is in order (target.py, Hit and _undo_hits).
HitsBehind ==
  /\ \A i \in DOMAIN hits : hits[i].icount <= icount
  /\ \A i, j \in DOMAIN hits : i < j => hits[i].icount <= hits[j].icount

Retires == Len(past') = Len(past) + 1

\* A run never gets past an enabled breakpoint whose condition holds, but for
\* the instruction it starts at and hits it was told to ignore (_on_code,
\* _bp_by_addr and delete_breakpoint have to agree on what is set where).
StopsAtEnabled ==
  [][Retires /\ ~first =>
       \A num \in Set : LET b == breakpoints[num] IN
         b.kind = EXECUTE /\ b.enabled /\ b.at = PC[Now] /\ Now \in b.cond => b.ignore > 0]_vars

\* Nothing at an end address is ever executed, however the run that arrived
\* there ended (target.py:524, "Arriving at the end is terminal").
ExitIsFinal ==
  [][Retires => PC[Now] \notin Exits]_vars

\* A watchpoint stops right after the instruction that made the access or
\* changed the register, and nowhere else (_on_mem, _changed_register).
StopsAfterAccess ==
  [][running /\ ~running' /\ event'.reason = "watchpoint" =>
       /\ icount > 0
       /\ LET b == breakpoints[event'.num]
              before == past[Len(past) - 1]
          IN  IF b.kind = ACCESS THEN b.at \in Touches[before] ELSE Reg[before] # Reg[Now]]_vars
=============================================================================
