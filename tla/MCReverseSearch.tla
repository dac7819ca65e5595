-------------------------- MODULE MCReverseSearch --------------------------
(***************************************************************************)
(* A program with a call, for checking ReverseSearch.                      *)
(***************************************************************************)
EXTENDS ReverseSearch

\* "a" reads the data, then calls "f", which returns to "a".
MCState == 0..4
MCAddrs == {"a", "call", "f"}
MCData == {"d"}
MCPC == [s \in MCState |-> CASE s \in {0, 4} -> "a" [] s = 1 -> "call" [] OTHER -> "f"]
MCStep == [s \in MCState |-> IF s = 4 THEN 1 ELSE s + 1]
MCTouches == [s \in MCState |-> IF s \in {0, 2, 4} THEN {"d"} ELSE {}]
MCReg == [s \in MCState |-> s \div 2]

\* State 2 is in the function, 3 is its return instruction.
MCDepth == [s \in MCState |-> IF s \in {2, 3} THEN 1 ELSE 0]
MCInsn == [s \in MCState |-> CASE s = 1 -> "call" [] s = 3 -> "return" [] OTHER -> "plain"]

\* A stub stands in for the function and returns without a return instruction.
StubbedInsn == [s \in MCState |-> IF s = 1 THEN "call" ELSE "plain"]

NoStates == {}

\* A condition that tells the instructions of the function apart.  Without
\* SetCondition there is none.
MCConds == {{1, 3, 4}}

\* Entered at its first instruction, or inside the function.
MCInit == Init /\ Now \in {0, 2}
MCSpec == MCInit /\ [][RNext]_vars
=============================================================================
