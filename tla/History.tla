------------------------------ MODULE History ------------------------------
(***************************************************************************)
(* What reverse execution promises, with no checkpoints in sight: the      *)
(* target keeps the state of its machine at every instruction from `first` *)
(* to `last`, going to one of them puts exactly that state back and makes  *)
(* what came after it a future that has not happened, and the past is lost *)
(* from its old end only.                                                  *)
(*                                                                         *)
(* Timeline.tla and Effects.tla are shown to implement this module.        *)
(***************************************************************************)
EXTENDS Naturals

CONSTANT State          \* the states of the emulated machine

VARIABLES
  now,                  \* the machine, as anything outside the target sees it
  first, last,          \* the instructions the history reaches
  past                  \* past[k]: the state at instruction k, first <= k <= last

historyVars == <<now, first, last, past>>

HistoryTypeOK ==
  /\ now \in State
  /\ first \in Nat /\ last \in Nat /\ first <= last
  /\ past \in [first..last -> State]

HistoryInit ==
  /\ now \in State
  /\ first = 0 /\ last = 0
  /\ past = [i \in 0..0 |-> now]

\* One instruction retires.  Its successor state joins the history, and the
\* oldest part of it may be given up.
Advance ==
  \E s \in State, e \in first..last :
    /\ now' = s
    /\ first' = e /\ last' = last + 1
    /\ past' = [i \in e..(last + 1) |-> IF i = last + 1 THEN s ELSE past[i]]

\* Someone edits the machine between two instructions: the state at the current
\* instruction is now the edited one.
Edit ==
  \E s \in State, e \in first..last :
    /\ now' = s
    /\ first' = e /\ last' = last
    /\ past' = [i \in e..last |-> IF i = last THEN s ELSE past[i]]

\* An old part of the history is given up on its own.
Forget ==
  \E e \in first..last :
    /\ first' = e
    /\ past' = [i \in e..last |-> past[i]]
    /\ UNCHANGED <<now, last>>

\* Going back: the machine is what it was at k, and k is the newest state.
GoTo ==
  \E k \in first..last :
    /\ now' = past[k]
    /\ last' = k /\ first' = first
    /\ past' = [i \in first..k |-> past[i]]

HistoryNext == Advance \/ Edit \/ Forget \/ GoTo

HistorySpec == HistoryInit /\ [][HistoryNext]_historyVars
=============================================================================
