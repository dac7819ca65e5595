----------------------------- MODULE MCSyscalls -----------------------------
(***************************************************************************)
(* A small address space and small files for checking Syscalls.            *)
(***************************************************************************)
EXTENDS Syscalls

\* Page 0 is the program's, 1 and 2 the heap, 3 and 4 the arena; two units
\* to a page.
MCOwn == {0}
MCContents == [f \in {"f"} |-> <<7, 8>>]
MCStdin == <<1, 2, 3>>

MCFds == {0, 1, 3}
MCBufs == {0, 2}
MCCounts == {0, 1, 2}
MCIovs == {<<[base |-> 0, length |-> 1], [base |-> 2, length |-> 1]>>, <<Unreadable>>}
MCPaths == {"f", "none", Unreadable}
MCOffsets == {-1, 1, 3}

\* No address, one inside the heap, one inside the arena, unaligned.
MCAddrs == {0, 2, 7}
MCLengths == {0, 1, 2, 3}
MCBlocks == {[addr |-> 0, length |-> 2, fd |-> 3], Unreadable}
MCWants == {0, 3, 4, 5, 6, 9}
=============================================================================
