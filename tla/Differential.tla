---------------------------- MODULE Differential ----------------------------
(***************************************************************************)
(* Two engines stepped side by side until they disagree                    *)
(* (ghidraunicorn/differential.py).  An engine is what it will do: the     *)
(* states its steps lead through, the first the one it is in, until a step *)
(* raises.  A state is [pc, regs, mem]; what is not in memory cannot be    *)
(* read.  A register's name is <<word, capital>>.                          *)
(***************************************************************************)
EXTENDS Integers, Sequences, FiniteSets, SequencesExt, FiniteSetsExt

CONSTANTS Chunk          \* how much align copies at once: 0x1000

ASSUME ChunkAssumption == Chunk \in Nat \ {0}

Lower(names) == {n[1] : n \in names}
Regs(s) == DOMAIN s.regs

\* compare: what is compared, and what only one engine has.
Shared(a, b, only, ignore) ==
  {n \in Regs(a[1]) \cap Regs(b[1]) :
     (only = {} \/ n[1] \in Lower(only)) /\ n[1] \notin Lower(ignore)}

Unmatched(a, b) == (Regs(a[1]) \cup Regs(b[1])) \ (Regs(a[1]) \cap Regs(b[1]))

\* _differences: the program counters, the registers still there, and memory
\* that both can read.
Differences(s, t, shared, watch) ==
  [regs |-> {n \in shared \cap Regs(s) \cap Regs(t) : s.regs[n] # t.regs[n]}
              \cup (IF s.pc # t.pc THEN {<<"pc", FALSE>>} ELSE {}),
   mem |-> {w \in watch : /\ w \subseteq DOMAIN s.mem /\ w \subseteq DOMAIN t.mem
                          /\ \E x \in w : s.mem[x] # t.mem[x]}]

Differ(d) == d.regs # {} \/ d.mem # {}

Agreed == [step |-> 0, at |-> 0, found |-> [regs |-> {}, mem |-> {}]]

\* Mutant: the end is looked for before the engines are compared.
WentEndFirst(a, b, shared, watch, end, r, k) ==
  LET d == Differences(a[k + 1], b[k + 1], shared, watch)
      stepped == [r EXCEPT !.steps = k]
  IN  IF a[k + 1].pc \in end THEN [stepped EXCEPT !.stopped = "reached", !.done = TRUE]
      ELSE IF Differ(d)
      THEN [stepped EXCEPT !.divergence = [step |-> k, at |-> a[k].pc, found |-> d], !.done = TRUE]
      ELSE stepped

\* The loop of compare, at step k that both have taken.
Went(a, b, shared, watch, end, r, k) ==
  LET d == Differences(a[k + 1], b[k + 1], shared, watch)
      stepped == [r EXCEPT !.steps = k]
  IN  IF Differ(d)
      THEN [stepped EXCEPT !.divergence = [step |-> k, at |-> a[k].pc, found |-> d], !.done = TRUE]
      ELSE IF a[k + 1].pc \in end THEN [stepped EXCEPT !.stopped = "reached", !.done = TRUE]
      ELSE stepped

Compare(a, b, steps, only, ignore, watch, end) ==
  LET shared == Shared(a, b, only, ignore)
      after[k \in 0..steps] ==
        IF k = 0 THEN [steps |-> 0, divergence |-> Agreed, unmatched |-> Unmatched(a, b),
                       stopped |-> "", done |-> FALSE]
        ELSE LET r == after[k - 1] IN
             IF r.done THEN r
             ELSE IF k >= Len(a) \/ k >= Len(b) THEN [r EXCEPT !.stopped = "raised", !.done = TRUE]
             ELSE Went(a, b, shared, watch, end, r, k)
  IN  after[steps]

\* align: the regions in chunks, each whole or not at all, then registers.
Align(source, target, regions) ==
  LET chunks == UNION {{r.start + i * Chunk..Min({r.start + (i + 1) * Chunk - 1, r.end}) :
                          i \in 0..((r.end - r.start) \div Chunk)} : r \in regions}
      copied == UNION {c \in chunks : c \subseteq DOMAIN source.mem \cap DOMAIN target.mem}
  IN  [target EXCEPT
         !.mem = [x \in DOMAIN @ |-> IF x \in copied THEN source.mem[x] ELSE @[x]],
         !.regs = [n \in DOMAIN @ |-> IF n \in Regs(source) THEN source.regs[n] ELSE @[n]]]

----------------------------------------------------------------------------
(* Properties, of one comparison. *)

\* The step reported is the first after which the engines differ in what they
\* were asked about; without one they agreed after every step reported, and
\* the run is as long as it was asked to be unless it says why not; nothing
\* both have is left out unasked (differential.py, compare).
ComparedRight(a, b, steps, only, ignore, watch, end) ==
  LET r == Compare(a, b, steps, only, ignore, watch, end)
      Disagree(k) ==
        \/ a[k + 1].pc # b[k + 1].pc
        \/ \E n \in Regs(a[k + 1]) \cap Regs(b[k + 1]) :
             /\ n[1] \notin Lower(ignore)
             /\ only = {} \/ n[1] \in Lower(only)
             /\ a[k + 1].regs[n] # b[k + 1].regs[n]
        \/ \E w \in watch : \E x \in w :
             /\ w \subseteq DOMAIN a[k + 1].mem \cap DOMAIN b[k + 1].mem
             /\ a[k + 1].mem[x] # b[k + 1].mem[x]
  IN  /\ r.steps <= steps /\ r.steps < Len(a) /\ r.steps < Len(b)
      /\ \A k \in 1..r.steps : Disagree(k) <=> r.divergence.step = k
      /\ r.divergence.step = 0 => r.steps = steps \/ r.stopped # ""
      /\ r.stopped = "reached" => \E x \in end : a[r.steps + 1].pc = x

\* Aligned, the engines agree on every register and on all the memory that
\* both have of the regions.
AlignedRight(source, target, regions) ==
  LET t == Align(source, target, regions) IN
  /\ \A n \in Regs(source) \cap Regs(t) : t.regs[n] = source.regs[n]
  /\ \A r \in regions : \A x \in r.start..r.end :
       x \in DOMAIN source.mem \cap DOMAIN t.mem => t.mem[x] = source.mem[x]
=============================================================================
