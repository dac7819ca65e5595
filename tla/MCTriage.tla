------------------------------ MODULE MCTriage ------------------------------
(***************************************************************************)
(* Batches for checking Triage: any two inputs of the kinds there are, and *)
(* any three of those that meet in a group.                                *)
(***************************************************************************)
EXTENDS Triage

In(name, size, length, ending) ==
  [name |-> name, size |-> size, skipped |-> FALSE, length |-> length, at |-> 0,
   kind |-> "READ", ending |-> ending]

Exits == In(1, 3, 1, "exit")
Crashes == In(4, 2, 1, "fault")
AlsoCrashes == In(3, 1, 0, "fault")
Loops == In(6, 2, 0, "loop")
Bookkeeping == [In(9, 1, 0, "exit") EXCEPT !.skipped = TRUE]

Inputs ==
  {Exits, Crashes, AlsoCrashes, Loops, Bookkeeping, In(2, 1, 2, "end"), In(5, 1, 1, "stop"),
   In(7, 1, 0, "load"), In(8, 1, 0, "refuse")}

MCBatches ==
  [1..2 -> Inputs] \cup [1..3 -> {Exits, Crashes, AlsoCrashes, Loops}]

\* An input whose declarations are of no use to the layers.
BadBatches == {<<Exits, In(8, 1, 0, "layers"), Exits>>} \cup [1..2 -> {Exits, Loops}]

\* The files of two fuzzers, which have the same names.
SameNames == {<<Crashes, Exits, [Crashes EXCEPT !.size = 5]>>, <<AlsoCrashes, Crashes, Exits>>}

NoLimit == -1

\* A budget with and without a deadline, and a deadline alone.
MCLimits == {[max |-> 2, timed |-> TRUE], [max |-> 2, timed |-> FALSE],
             [max |-> 0, timed |-> TRUE]}
JustBudget == {[max |-> 2, timed |-> FALSE], [max |-> 1, timed |-> FALSE]}
=============================================================================
