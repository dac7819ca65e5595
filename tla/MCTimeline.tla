----------------------------- MODULE MCTimeline -----------------------------
(***************************************************************************)
(* Programs and constants for checking Timeline with TLC.                  *)
(***************************************************************************)
EXTENDS Timeline

CONSTANTS p, q          \* two pages

MCPages == {p, q}
MCVals == {0, 1}
MCCtxs == 0..2

MCMachine == [ctx : MCCtxs, mem : [MCPages -> MCVals \cup {Absent}]]

Goes(m, c) == [m EXCEPT !.ctx = c]
Stores(m, a, v) == IF m.mem[a] = Absent THEN m ELSE [m EXCEPT !.mem[a] = v]
Flip(v) == IF v = 0 THEN 1 ELSE 0

\* A loop over two pages that are always mapped: flip p; copy it to q; and,
\* when q is now 0, flip q, which faults if p is 1 (someone edited it).
StaticExec ==
  [m \in MCMachine |->
     CASE m.ctx = 0 -> Goes(Stores(m, p, Flip(m.mem[p])), 1)
       [] m.ctx = 1 -> Goes(Stores(m, q, m.mem[p]), IF m.mem[p] = 0 THEN 2 ELSE 0)
       [] m.ctx = 2 -> Goes(Stores(m, q, Flip(m.mem[q])), 0)]

StaticWrites == [m \in MCMachine |-> IF m.ctx = 0 THEN {p} ELSE {q}]

StaticFaulting ==
  {m \in MCMachine : \/ \E a \in MCPages : m.mem[a] = Absent
                     \/ m.ctx = 2 /\ m.mem[p] = 1}

\* A program that maps q the first time round, and from then on flips it
\* every other instruction.
GrowExec ==
  [m \in MCMachine |->
     CASE m.ctx = 0 -> IF m.mem[q] = Absent THEN Goes([m EXCEPT !.mem[q] = Zero], 1)
                       ELSE Goes(Stores(m, q, Flip(m.mem[q])), 1)
       [] m.ctx = 1 -> Goes(Stores(m, p, Flip(m.mem[p])), 2)
       [] m.ctx = 2 -> Goes(m, 0)]

GrowWrites ==
  [m \in MCMachine |-> CASE m.ctx = 0 /\ m.mem[q] # Absent -> {q}
                         [] m.ctx = 1 -> {p}
                         [] OTHER -> {}]

GrowFaulting == {m \in MCMachine : m.mem[p] = Absent}

\* A program that writes q, unmaps it and maps it again.
RemapExec ==
  [m \in MCMachine |->
     CASE m.ctx = 0 -> Goes(Stores(m, q, 1), 1)
       [] m.ctx = 1 -> Goes([m EXCEPT !.mem[q] = Absent], 2)
       [] m.ctx = 2 -> Goes([m EXCEPT !.mem[q] = IF @ = Absent THEN Zero ELSE @], 2)]

RemapWrites ==
  [m \in MCMachine |-> IF m.ctx = 0 /\ m.mem[q] # Absent THEN {q} ELSE {}]

RemapFaulting == {m \in MCMachine : m.mem[p] = Absent}
=============================================================================
