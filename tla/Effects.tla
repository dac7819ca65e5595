------------------------------ MODULE Effects ------------------------------
(***************************************************************************)
(* Reverse execution over instructions that cannot simply be run again:    *)
(* system calls (ghidraunicorn/syscalls.py) and stubbed library functions  *)
(* (stubs.py), whose effects are written down in a log (effects.py) and    *)
(* applied from there by a replay.                                         *)
(*                                                                         *)
(* The layer that answers the calls has a state of its own, `kernel`: file *)
(* offsets, the break, the allocator.  Serve says what it answers to a     *)
(* call made by a machine, and Exec what becomes of the machine if nothing *)
(* answers.  The rest is Timeline.                                         *)
(***************************************************************************)
EXTENDS Timeline

CONSTANTS
  Kernel,                \* the states of the layer
  Calls,                 \* the machines whose next instruction is a call
  Serve                  \* what the layer does then

\* effects.Effect: the pages written, mapped and unmapped on the program's
\* behalf, and the CPU context that results from the registers set.
Effect == [writes : [Pages -> Vals \cup {Absent}], maps : SUBSET Pages,
           unmaps : SUBSET Pages, ctx : Ctxs]

ASSUME ServeAssumption ==
  /\ Calls \subseteq Machine
  /\ Serve \in [Calls \X Kernel -> [effect : Effect, kernel : Kernel]]

VARIABLES
  kernel,                \* the layer's own state
  log,                   \* EffectLog.entries, oldest first
  khist                  \* history variable: hist, for the layer

layer == <<kernel, log, khist>>
effectVars == <<vars, layer>>

Written(effect) == {p \in Pages : effect.writes[p] # Absent}

\* The machine after the effect: regions first, then memory, then registers.
Apply(m, effect) ==
  LET mapped == (Mapped(m.mem) \cup effect.maps) \ effect.unmaps
  IN  [ctx |-> effect.ctx,
       mem |-> [p \in Pages |->
                  IF p \notin mapped THEN Absent
                  ELSE IF effect.writes[p] # Absent THEN effect.writes[p]
                  ELSE IF m.mem[p] # Absent THEN m.mem[p] ELSE Zero]]

\* Mutant: an entry at the oldest instruction is dropped as well.
ForgottenToo(n, oldest) ==
  /\ \A i \in 1..n : log[i].icount <= oldest
  /\ n < Len(log) => log[n + 1].icount > oldest

\* forget_before drops the n oldest entries: it takes one after the other
\* from the front until one is for an instruction the history reaches.
Forgotten(n, oldest) ==
  /\ \A i \in 1..n : log[i].icount < oldest
  /\ n < Len(log) => log[n + 1].icount >= oldest

\* Mutant: an entry at k itself is kept, as a breakpoint hit would be.
TruncatedAfter(k) ==
  \E n \in 0..Len(log) :
    /\ \A i \in (n + 1)..Len(log) : log[i].icount > k
    /\ n > 0 => log[n].icount <= k
    /\ log' = SubSeq(log, 1, n)
    /\ kernel' = IF n = Len(log) THEN kernel ELSE log[n + 1].before

\* truncate(k) keeps the n oldest entries: it takes one after the other from
\* the end until one has happened at k.  The last one taken says what the
\* layer was before it.
Truncated(k) ==
  \E n \in 0..Len(log) :
    /\ \A i \in (n + 1)..Len(log) : log[i].icount >= k
    /\ n > 0 => log[n].icount < k
    /\ log' = SubSeq(log, 1, n)
    /\ kernel' = IF n = Len(log) THEN kernel ELSE log[n + 1].before

RememberLayer == khist' = [i \in Earliest(base')..icount' |->
                             IF i = icount' THEN kernel' ELSE khist[i]]

----------------------------------------------------------------------------

EffectsInit ==
  /\ Init
  /\ kernel \in Kernel /\ log = <<>>
  /\ khist = [i \in 0..0 |-> kernel]

\* Any step of Timeline that is no call.  If it folds a checkpoint away,
\* on_forget prunes the log.
Plainly(step) ==
  /\ step
  /\ \E n \in 0..Len(log) :
       Forgotten(n, Earliest(base')) /\ log' = SubSeq(log, n + 1, Len(log))
  /\ kernel' = kernel
  /\ RememberLayer

\* A call: counted by the code hook like any instruction, then served, and
\* written down together with the layer's state before it.
Call ==
  /\ Idle
  /\ icount < MaxICount
  /\ machine \in Calls
  /\ LET served == Serve[<<machine, kernel>>]
         entry == [icount |-> icount, effect |-> served.effect, before |-> kernel]
     IN  /\ NoteInstruction(Written(served.effect))
         /\ machine' = Apply(machine, served.effect)
         /\ kernel' = served.kernel
         /\ \E n \in 0..Len(log) :
              /\ Forgotten(n, Earliest(base'))
              /\ log' = Append(SubSeq(log, n + 1, Len(log)), entry)
  /\ icount' = icount + 1
  /\ Remember
  /\ RememberLayer

\* A replay that comes to a call applies the entry of the instruction.  That
\* writes memory behind Unicorn's hooks: no page is marked dirty.  Without an
\* entry nothing is done, and the instruction goes on by itself.
ReplayCall ==
  /\ replaying /\ left > 0
  /\ machine \in Calls
  /\ LET found == {i \in DOMAIN log : log[i].icount = ricount}
     IN  IF found = {}
         THEN machine' = Exec[machine] /\ dirty' = dirty \cup Writes[machine]
         ELSE /\ \E i \in found : machine' = Apply(machine, log[i].effect)
              /\ dirty' = dirty
  /\ ricount' = ricount + 1 /\ left' = left - 1
  /\ UNCHANGED <<base, checkpoints, icount, next, replaying, hist, layer>>

\* The end of _go rewinds every log to the instruction reached.
EndGotoWithLog ==
  /\ EndGoto
  /\ Truncated(ricount)
  /\ khist' = [i \in base.icount..ricount |-> khist[i]]

EffectsNext ==
  \/ Plainly(machine \notin Calls /\ (Execute \/ Fault))
  \/ Plainly(\E p \in Pages, v \in Vals : EditMemory(p, v))
  \/ Plainly(\E c \in Ctxs : EditRegister(c))
  \/ Call
  \/ (\E k \in 0..MaxICount : BeginGoto(k)) /\ UNCHANGED layer
  \/ machine \notin Calls /\ ReplayStep /\ UNCHANGED layer
  \/ ReplayCall
  \/ EndGotoWithLog

EffectsSpec == EffectsInit /\ [][EffectsNext]_effectVars

----------------------------------------------------------------------------
(* Properties. *)

\* The layer goes back with the machine: at every instruction it is what it
\* was there, whatever was called, undone and called again since.
\* (effects.py:31-34 and truncate; syscalls.py, _restore.)
KernelRewound ==
  ~replaying => kernel = khist[icount]

\* The log holds one entry for every call of the history, and no other, each
\* with the state to put back if it is undone: a replay neither misses a call
\* nor finds one that belongs to a future that was dropped.
LogCovers ==
  base # None /\ ~replaying =>
    /\ \A i, j \in DOMAIN log : i < j => log[i].icount < log[j].icount
    /\ {log[i].icount : i \in DOMAIN log}
         = {i \in base.icount..(icount - 1) : hist[i] \in Calls}
    /\ \A i \in DOMAIN log : log[i].before = khist[log[i].icount]

\* Machine and layer together are rewound as History promises.
PromisedBoth == INSTANCE History WITH
  State <- Machine \X Kernel,
  past <- [i \in DOMAIN hist |-> <<hist[i], khist[i]>>],
  first <- Earliest(base), last <- Max(DOMAIN hist),
  now <- IF replaying THEN <<hist[Max(DOMAIN hist)], khist[Max(DOMAIN khist)]>>
         ELSE <<machine, kernel>>

RefinesHistoryBoth == PromisedBoth!HistorySpec
=============================================================================
