------------------------------- MODULE Triage -------------------------------
(***************************************************************************)
(* Batch triage (ghidraunicorn/triage.py): every input is run on a fresh   *)
(* engine under two brakes, an instruction budget and a deadline, judged,  *)
(* and put into a group with those that failed the same way.               *)
(*                                                                         *)
(* Two kinds of thread: the batch itself, and for each input a watchdog,   *)
(* which may wake when the run it watches is over, or before it starts.    *)
(***************************************************************************)
EXTENDS Integers, Sequences, FiniteSets, SequencesExt

CONSTANTS
  Batches,               \* what there may be to run: sequences of InputRecord
  Limits,                \* [max, timed]: an instruction budget, 0 for none, and
                         \* whether there is a deadline
  ClockEvery,            \* _CLOCK_EVERY
  ByPc,                  \* signature_kind_pc, or signature_kind
  Limit,                 \* --limit, -1 for none
  None

\* An input, and how the program ends on it after so many instructions:
\*   "exit"    at an exit address, which the target's hook sees
\*   "end"     at the end address, where Unicorn stops by itself
\*   "fault"   with the next instruction
\*   "stop"    something in the harness stops the engine
\*   "loop"    never
\*   "load", "layers", "refuse"   the harness raises, what it declares for the
\*             layers can not be used, the target refuses to run
\* Names are numbers: only their order matters, and which are the same.  A kind
\* of fault is UC_ERR_READ_UNMAPPED or the like, and no outcome is called that.
Outcomes == {"ok", "crash", "error", "stopped", "timeout"}
InputRecord ==
  [name : Nat, size : Nat, skipped : BOOLEAN, length : Nat, at : Nat, kind : STRING \ Outcomes,
   ending : {"exit", "end", "fault", "stop", "loop", "load", "layers", "refuse"}]

ASSUME TriageAssumption ==
  /\ \A b \in Batches : b \in Seq(InputRecord) /\ b # <<>>
  /\ Limits \subseteq [max : Nat, timed : BOOLEAN] \ {[max |-> 0, timed |-> FALSE]}
  /\ ClockEvery \in Nat \ {0} /\ Limit \in Int /\ ByPc \in BOOLEAN
  /\ None \notin {"wall", "instructions"}

VARIABLES
  limits,                \* the limits of this batch
  queue,                 \* the inputs collected
  cur,                   \* the one being run
  pc,                    \* where triage_input is
  ran,                   \* instructions the program has completed
  how,                   \* the reason of the StopEvent
  count, tripped,        \* _Budget.count, .tripped, one for each input
  stopped,               \* emu_stop has been called on an input's engine
  timer,                 \* its watchdog
  late,                  \* whether its deadline has passed
  results, groups,       \* TriageReport
  saved                  \* the coverage files: whose blocks are under a name

run == <<cur, pc, ran, how>>
brakes == <<count, tripped, stopped, timer, late>>
batch == <<limits, queue, groups>>
report == <<results, saved>>
triageVars == <<batch, run, brakes, report>>

Positions == DOMAIN queue
Now == queue[cur]

----------------------------------------------------------------------------
(* One input. *)

\* collect_inputs: what the fuzzer leaves lying about is skipped, and the
\* limit, when it makes sense, cuts what remains.
Kept(found) ==
  FlattenSeq([n \in DOMAIN found |-> IF found[n].skipped THEN <<>> ELSE <<found[n]>>])
Collected(found) ==
  IF Limit >= 0 /\ Limit < Len(Kept(found)) THEN SubSeq(Kept(found), 1, Limit) ELSE Kept(found)

\* load_harness, the layers, the observers, _Budget and the watchdog.  Only what
\* load_harness raises is caught.
Load ==
  /\ pc = "load" /\ cur <= Len(queue)
  /\ CASE Now.ending = "load" -> pc' = "judge" /\ how' = "load" /\ UNCHANGED timer
       [] Now.ending = "layers" -> pc' = "died" /\ UNCHANGED <<how, timer>>
       [] OTHER ->
            /\ pc' = "start" /\ how' = None
            /\ timer' = [timer EXCEPT ![cur] = IF limits.timed THEN "set" ELSE "off"]
  /\ ran' = 0
  /\ UNCHANGED <<batch, cur, count, tripped, stopped, late, report>>

\* target.run enters emu_start, which forgets that it has been told to stop.
Start ==
  /\ pc = "start"
  /\ IF Now.ending = "refuse"
     THEN pc' = "cancel" /\ how' = "run" /\ UNCHANGED stopped
     ELSE pc' = "run" /\ stopped' = [stopped EXCEPT ![cur] = FALSE] /\ UNCHANGED how
  /\ UNCHANGED <<batch, cur, ran, count, tripped, timer, late, report>>

\* Mutant: the clock is left to the watchdog.
BudgetWithoutClock(n) ==
  IF limits.max > 0 /\ n > limits.max THEN "instructions" ELSE None

\* _Budget._on_code, at the nth instruction: what it trips on.
Budget(n) ==
  IF limits.max > 0 /\ n > limits.max THEN "instructions"
  ELSE IF limits.timed /\ n % ClockEvery = 0 /\ late[cur] THEN "wall"
  ELSE None

\* Without a budget only the clock's divisor matters.
Counted == IF limits.max = 0 THEN (count[cur] + 1) % ClockEvery ELSE count[cur] + 1

\* The budget's hook runs.
Hook ==
  /\ count' = [count EXCEPT ![cur] = Counted]
  /\ LET trips == Budget(Counted) IN
     /\ stopped' = [stopped EXCEPT ![cur] = @ \/ trips # None]
     /\ tripped' = [tripped EXCEPT ![cur] = IF @ = None THEN trips ELSE @]
  /\ UNCHANGED <<timer, late>>

AtEnd == ran = Now.length /\ Now.ending # "loop"

\* The next instruction of the program, with the hooks before it.
Instruction ==
  /\ pc = "run" /\ ~stopped[cur] /\ ~AtEnd
  /\ Hook
  /\ ran' = IF stopped'[cur] \/ Now.ending = "loop" THEN ran ELSE ran + 1
  /\ UNCHANGED <<batch, cur, pc, how, report>>

\* The run ends by itself.  At an exit address the target's own hook stops it,
\* and Unicorn may or may not call the hooks that come after that one; an
\* instruction that faults has had its hooks called; at the end address there
\* is no hook.
Ends ==
  /\ pc = "run" /\ ~stopped[cur] /\ AtEnd
  /\ \/ Now.ending \in {"exit", "end", "stop"} /\ UNCHANGED brakes
     \/ Now.ending \in {"exit", "fault"} /\ Hook
  /\ IF Now.ending = "fault" /\ stopped'[cur]
     THEN UNCHANGED <<pc, how>>
     ELSE /\ pc' = "cancel"
          /\ how' = CASE Now.ending = "fault" -> "error"
                      [] Now.ending = "stop" -> "stopped"
                      [] OTHER -> "exit"
  /\ UNCHANGED <<batch, cur, ran, report>>

\* emu_start returns because it was told to stop; the target takes the end
\* for what it is if that is where it stopped.
Returns ==
  /\ pc = "run" /\ stopped[cur]
  /\ pc' = "cancel"
  /\ how' = IF AtEnd /\ Now.ending \in {"exit", "end"} THEN "exit" ELSE "stopped"
  /\ UNCHANGED <<batch, cur, ran, brakes, report>>

\* The finally of triage_input: a watchdog that has woken can not be cancelled.
Cancel ==
  /\ pc = "cancel"
  /\ pc' = "judge"
  /\ timer' = [timer EXCEPT ![cur] = IF @ = "set" THEN "off" ELSE @]
  /\ UNCHANGED <<batch, cur, ran, how, count, tripped, stopped, late, report>>

\* What the input did: a fault is a crash even when a brake has tripped.
Outcome ==
  IF how \in {"load", "run"} THEN "error"
  ELSE IF tripped[cur] # None /\ how # "error" THEN "timeout"
  ELSE CASE how = "error" -> "crash" [] how = "exit" -> "ok" [] OTHER -> "stopped"

\* The signature: the fault or the outcome, and where.
Signature(kind, where) == IF ByPc THEN <<kind, where>> ELSE <<kind>>

\* _save_coverage: a file of the input's name in one directory.
Covered(files, name, i) == [n \in DOMAIN files \cup {name} |-> IF n = name THEN i ELSE files[n]]

Judge ==
  /\ pc = "judge"
  /\ LET where == IF how \in {"load", "run"} THEN None
                  ELSE IF Now.ending = "loop" THEN Now.at ELSE Now.at + ran
     IN  /\ results' = Append(results,
              [input |-> cur, outcome |-> Outcome, pc |-> where,
               signature |-> Signature(IF how = "error" THEN Now.kind ELSE Outcome, where)])
         /\ saved' = IF how \in {"load", "run"} THEN saved ELSE Covered(saved, Now.name, cur)
  /\ cur' = cur + 1 /\ pc' = "load"
  /\ UNCHANGED <<batch, ran, how, brakes>>

----------------------------------------------------------------------------
(* The watchdog of an input, from the moment it stops waiting. *)

Pass(i) ==
  /\ timer[i] = "set" /\ ~late[i]
  /\ late' = [late EXCEPT ![i] = TRUE]
  /\ UNCHANGED <<batch, run, count, tripped, stopped, timer, report>>

Wake(i) ==
  /\ timer[i] = "set" /\ late[i]
  /\ timer' = [timer EXCEPT ![i] = "woken"]
  /\ UNCHANGED <<batch, run, count, tripped, stopped, late, report>>

\* Mutant: the engine is stopped first and the reason given afterwards.
ExpireStopFirst(i) ==
  \/ /\ timer[i] = "woken" /\ timer' = [timer EXCEPT ![i] = "marked"]
     /\ stopped' = [stopped EXCEPT ![i] = TRUE] /\ UNCHANGED tripped
  \/ /\ timer[i] = "marked" /\ timer' = [timer EXCEPT ![i] = "off"]
     /\ tripped' = [tripped EXCEPT ![i] = IF @ = None THEN "wall" ELSE @] /\ UNCHANGED stopped

\* _Budget.expire: the reason first, then the stop, of the engine it was made
\* for.
Expire(i) ==
  \/ /\ timer[i] = "woken" /\ timer' = [timer EXCEPT ![i] = "marked"]
     /\ tripped' = [tripped EXCEPT ![i] = IF @ = None THEN "wall" ELSE @] /\ UNCHANGED stopped
  \/ /\ timer[i] = "marked" /\ timer' = [timer EXCEPT ![i] = "off"]
     /\ stopped' = [stopped EXCEPT ![i] = TRUE] /\ UNCHANGED tripped

Watchdog(i) ==
  \/ Wake(i)
  \/ Expire(i) /\ UNCHANGED <<batch, run, count, late, report>>

----------------------------------------------------------------------------
(* The report. *)

Rank(outcome) ==
  CASE outcome = "crash" -> 0 [] outcome = "timeout" -> 1 [] outcome = "error" -> 2
    [] outcome = "stopped" -> 3 [] OTHER -> 4

Smaller(i, j) ==
  LET key(x) == <<queue[x].size, queue[x].name, x>>
  IN  \E n \in 1..3 : /\ key(i)[n] < key(j)[n] \/ (n = 3 /\ i = j)
                      /\ \A m \in 1..(n - 1) : key(i)[m] = key(j)[m]

\* The results that failed in the same way.
Alike(signature) == {n \in DOMAIN results : results[n].signature = signature}

\* Mutant: the first member stands for the group.
GroupByFirst(signature) ==
  LET first == results[Min(Alike(signature))]
  IN  [signature |-> signature, outcome |-> first.outcome, pc |-> first.pc,
       inputs |-> {results[n].input : n \in Alike(signature)}, representative |-> first.input]

\* A CrashGroup: the outcome and address of its first member, the smallest as
\* its representative.
Group(signature) ==
  LET first == results[Min(Alike(signature))]
      inputs == {results[n].input : n \in Alike(signature)}
  IN  [signature |-> signature, outcome |-> first.outcome, pc |-> first.pc, inputs |-> inputs,
       representative |-> CHOOSE i \in inputs : \A j \in inputs : Smaller(i, j)]

\* Crashes first, and larger groups before smaller ones.
Before(g, h) ==
  \/ Rank(g.outcome) < Rank(h.outcome)
  \/ Rank(g.outcome) = Rank(h.outcome) /\ Cardinality(g.inputs) >= Cardinality(h.inputs)

\* group_results: a group for each signature, sorted; the text of a signature,
\* which is left open, decides between two that matter as much.
GroupResults ==
  LET found == {Group(results[n].signature) : n \in DOMAIN results}
  IN  {s \in SetToSeqs(found) : \A g, h \in DOMAIN s : g < h => Before(s[g], s[h])}

Report ==
  /\ pc = "load" /\ cur > Len(queue)
  /\ groups' \in GroupResults /\ pc' = "done"
  /\ UNCHANGED <<limits, queue, cur, ran, how, brakes, report>>

\* main's exit status.
ExitStatus ==
  IF \E n \in DOMAIN results : results[n].outcome = "crash" THEN 1
  ELSE IF \E n \in DOMAIN results : results[n].outcome = "error" THEN 2 ELSE 0

----------------------------------------------------------------------------

TriageInit ==
  /\ limits \in Limits
  /\ \E found \in Batches : queue = Collected(found)
  /\ cur = 1 /\ pc = "load" /\ ran = 0 /\ how = None
  /\ count = [i \in Positions |-> 0] /\ tripped = [i \in Positions |-> None]
  /\ stopped = [i \in Positions |-> FALSE] /\ timer = [i \in Positions |-> "off"]
  /\ late = [i \in Positions |-> FALSE]
  /\ results = <<>> /\ groups = <<>> /\ saved = <<>>

Batch == Load \/ Start \/ Instruction \/ Ends \/ Returns \/ Cancel \/ Judge \/ Report

TriageNext ==
  \/ Batch
  \/ \E i \in Positions : Pass(i) \/ Watchdog(i)
  \/ pc \in {"done", "died"} /\ UNCHANGED triageVars

TriageSpec == TriageInit /\ [][TriageNext]_triageVars

\* The batch's thread runs, time passes, and a watchdog that is due is run.
FairSpec ==
  /\ TriageSpec
  /\ WF_triageVars(Batch)
  /\ \A i \in 1..Max({Len(b) : b \in Batches}) :
       WF_triageVars(i \in Positions /\ Pass(i)) /\ WF_triageVars(i \in Positions /\ Watchdog(i))

----------------------------------------------------------------------------
(* Properties. *)

\* The programs that use up their budget on the way.
Exhausts(i) ==
  limits.max > 0 /\ (queue[i].ending = "loop" \/ queue[i].length >= limits.max)

\* Every verdict is the program's own: no brake, watchdog or engine of another
\* input shows in it, a fault is not hidden by a brake that trips beside it,
\* and a timeout is a run that was late or out of budget (triage_input; "so
\* one input cannot leave state behind for the next").
Truthful ==
  \A n \in DOMAIN results :
    LET i == results[n].input
        r == results[n].outcome
    IN  CASE r = "ok" -> queue[i].ending \in {"exit", "end"}
          [] r = "crash" -> queue[i].ending = "fault"
          [] r = "error" -> queue[i].ending \in {"load", "refuse"}
          [] r = "stopped" -> queue[i].ending = "stop"
          [] r = "timeout" -> late[i] \/ Exhausts(i)

\* The same, with the budget taken at its word: an input that needs no more
\* instructions than it allows has not timed out (triage.py:425 and --help,
\* "instructions a single input may execute").
WithinBudget ==
  \A n \in DOMAIN results :
    LET i == results[n].input IN
    results[n].outcome = "timeout" /\ ~late[i] =>
      queue[i].ending = "loop" \/ queue[i].length > limits.max

\* The groups are the results sorted by how they failed: every result is in
\* one, once, with its like only; the representative is the smallest; no group
\* comes after one that matters less or is smaller; and the batch exits with 1
\* exactly when the first group is a crash (group_results, main).
GroupsRight ==
  pc = "done" =>
    /\ \A n \in DOMAIN results :
         \E g \in DOMAIN groups : /\ {h \in DOMAIN groups : results[n].input \in groups[h].inputs} = {g}
                                  /\ groups[g].signature = results[n].signature
    /\ \A g, h \in DOMAIN groups : g < h =>
         /\ groups[g].signature # groups[h].signature
         /\ Rank(groups[g].outcome) <= Rank(groups[h].outcome)
         /\ groups[g].outcome = groups[h].outcome =>
              Cardinality(groups[g].inputs) >= Cardinality(groups[h].inputs)
    /\ \A g \in DOMAIN groups : \A i \in groups[g].inputs :
         queue[groups[g].representative].size <= queue[i].size
    /\ ExitStatus = 1 <=> groups # <<>> /\ groups[1].outcome = "crash"

\* The row of a group is the row of its representative (triage.py, "so the row
\* shown is the row of the input a human would open").
RowOfRepresentative ==
  \A g \in DOMAIN groups : \A n \in DOMAIN results :
    results[n].input = groups[g].representative => results[n].pc = groups[g].pc

\* Every input that ran has left its own coverage (README.md:445, "each replayed
\* input leaves a drcov file there").
CoverageKept ==
  \A n \in DOMAIN results :
    results[n].outcome # "error" => saved[queue[results[n].input].name] = results[n].input

\* A batch comes to its end whatever the inputs do, as long as there is one
\* brake, and a watchdog that fires before its run has started is made up for
\* (_Budget, "two independent brakes stop a run that never ends").
BatchEnds == <>(pc = "done")
=============================================================================
