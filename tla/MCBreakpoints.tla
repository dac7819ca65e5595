--------------------------- MODULE MCBreakpoints ---------------------------
(***************************************************************************)
(* Programs of a few instructions for checking Breakpoints.                *)
(***************************************************************************)
EXTENDS Breakpoints

\* 0 to 3 is a program with an exit: 1 and 2 are two visits to address "b",
\* and 2, the last before the exit, reads the data, as 1 does.  4 and 5 are a
\* program that faults at "b".
MCState == 0..5
MCAddrs == {"a", "b", "end"}
MCData == {"d"}

MCPC == [s \in MCState |-> CASE s \in {0, 4} -> "a" [] s = 3 -> "end" [] OTHER -> "b"]
MCStep == [s \in MCState |-> IF s \in {3, 5} THEN s ELSE s + 1]
MCTouches == [s \in MCState |-> IF s \in {1, 2} THEN {"d"} ELSE {}]

\* The register changes in instructions 0 and 2.
MCReg == [s \in MCState |-> IF s > 3 THEN 0 ELSE (s + 1) \div 2]

\* The second program's fault, or one in an instruction that reads the data.
LastFaults == {5}
ReadFaults == {2}
MCExits == {"end"}

\* Two conditions: none, and one that holds on the later visits only.
MCConds == {MCState, {2, 3, 5}}
=============================================================================
