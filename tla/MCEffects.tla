----------------------------- MODULE MCEffects -----------------------------
(***************************************************************************)
(* A program that reads its input one value at a time, for TLC.            *)
(***************************************************************************)
EXTENDS Effects

CONSTANTS p, q          \* two pages

MCPages == {p, q}
MCVals == {0, 1}
MCCtxs == 0..2
MCKernel == 0..2        \* how much of the input has been read

MCMachine == [ctx : MCCtxs, mem : [MCPages -> MCVals \cup {Absent}]]

\* ctx 0: read one value into p; ctx 1: add it to q; ctx 2: allocate q, or
\* clear it when it is there.
MCCalls == {m \in MCMachine : m.ctx \in {0, 2}}

Input == <<1, 1, 0>>

Nothing == [a \in MCPages |-> Absent]

MCServe ==
  [c \in MCCalls \X MCKernel |->
     IF c[1].ctx = 0
     THEN [effect |-> [writes |-> IF c[1].mem[p] = Absent THEN Nothing
                                  ELSE [Nothing EXCEPT ![p] = Input[c[2] + 1]],
                       maps |-> {}, unmaps |-> {}, ctx |-> 1],
           kernel |-> IF c[2] < 2 THEN c[2] + 1 ELSE 2]
     ELSE [effect |-> [writes |-> IF c[1].mem[q] = Absent THEN Nothing
                                  ELSE [Nothing EXCEPT ![q] = 0],
                       maps |-> {q}, unmaps |-> {}, ctx |-> 0],
           kernel |-> c[2]]]

Sum(a, b) == (a + b) % 2

MCExec ==
  [m \in MCMachine |->
     IF m.ctx = 1
     THEN [ctx |-> 2,
           mem |-> IF m.mem[q] = Absent \/ m.mem[p] = Absent THEN m.mem
                   ELSE [m.mem EXCEPT ![q] = Sum(@, m.mem[p])]]
     ELSE m]

\* Another program: the same, but that it waits while it has a 1 to add.  Where
\* it goes depends on what a call wrote, so it is none that KeepsApart is about.
BranchExec ==
  [m \in MCMachine |-> IF m.ctx = 1 /\ m.mem[p] = 1 THEN m ELSE MCExec[m]]

MCWrites == [m \in MCMachine |-> IF m.ctx = 1 THEN {q} ELSE {}]

MCFaulting == {m \in MCMachine : m.mem[p] = Absent}
=============================================================================
