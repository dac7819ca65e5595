---------------------------- MODULE MCRunControl ----------------------------
(***************************************************************************)
(* Who asks for what, for checking RunControl with TLC.                    *)
(***************************************************************************)
EXTENDS RunControl

CONSTANTS worker, console, r1, r2

OneRunner == {r1}
TwoRunners == {r1, r2}

\* Ghidra's buttons alone, without kill; with it; with a console beside them.
Buttons == {"resume", "step", "back", "interrupt"}
ButtonsOnly == [t \in {worker, console} |-> IF t = worker THEN Buttons ELSE {}]
AllButtons == [t \in {worker, console} |-> IF t = worker THEN Buttons \cup {"kill"} ELSE {}]
ButtonsAndKill ==
  [t \in {worker, console} |-> IF t = worker THEN {"resume", "kill"} ELSE {}]
StartAndStop ==
  [t \in {worker, console} |-> IF t = worker THEN {"resume", "interrupt", "kill"} ELSE {}]
Everything ==
  [t \in {worker, console} |->
     IF t = worker THEN Buttons \cup {"kill"} ELSE {"resume", "step", "back", "kill"}]
ConsoleKills ==
  [t \in {worker, console} |-> IF t = worker THEN {"resume", "interrupt"} ELSE {"kill"}]
ConsoleGoesBack ==
  [t \in {worker, console} |-> IF t = worker THEN {"resume", "interrupt"} ELSE {"back"}]
=============================================================================
