----------------------------- MODULE RunControl -----------------------------
(***************************************************************************)
(* Who runs the target, and who stops it.  Ghidra calls the connector's    *)
(* methods (ghidraunicorn/methods.py) on one worker thread; resume starts  *)
(* a run thread; the console (console.py) is a third.  They share one      *)
(* UnicornTarget (target.py), which lets one of them at a time into the    *)
(* emulator, and the state the trace shows for it (commands.py, hooks.py). *)
(*                                                                         *)
(* The program has End instructions and its state is how many have run;    *)
(* what there is at the end is its `ending`.  A breakpoint may stop a run  *)
(* anywhere.  Going back replays from instruction 0.                       *)
(***************************************************************************)
EXTENDS Integers, FiniteSets

CONSTANTS
  Worker, Console, Runners,  \* threads; Runners bounds the run threads alive
  Ops,                   \* Ops[t]: what thread t is asked to do
  End,                   \* the program's length
  Endings,               \* an exit, a faulting instruction, an endless loop
  Patient,               \* whether users wait for a run to be seen to stop
  TimesOut,              \* whether join(5) may give up
  MaxICount,             \* bound on a count that has come off the machine
  None

Threads == {Worker, Console} \cup Runners

ASSUME ThreadsAssumption ==
  /\ Worker # Console /\ {Worker, Console} \cap Runners = {} /\ None \notin Threads \cup {"exit", "breakpoint"}
  /\ Ops \in [{Worker, Console} -> SUBSET {"resume", "step", "back", "interrupt", "kill"}]
  /\ {End, MaxICount} \subseteq Nat /\ Endings \subseteq {"exit", "error", "loop"}
  /\ {Patient, TimesOut} \subseteq BOOLEAN

VARIABLES
  ending,                \* how this program ends
  position,              \* the instruction the machine is at
  icount,                \* Timeline.icount
  running,               \* UnicornTarget._running
  interrupted,           \* _interrupted
  stop,                  \* _stop
  terminated,            \* UnicornTarget.terminated
  owner, stopReq,        \* Unicorn: who is inside emu_start; stop requested
  runThread,             \* commands.STATE.run_thread
  published,             \* the state the trace shows
  pc,                    \* per thread: what it does next
  job                    \* per thread: its local variables

machine == <<ending, position, icount>>
flags == <<running, interrupted, stop, terminated>>
unicorn == <<owner, stopReq>>
vars == <<machine, flags, unicorn, runThread, published, pc, job>>

JobFor(op, k) ==
  [op |-> op, k |-> k, was |-> 0, at |-> 0, error |-> FALSE, exit |-> FALSE]

NoJob == JobFor(None, 0)

Goes(t, step) == pc' = [pc EXCEPT ![t] = step]

\* A thread is done with what it was asked to do.
Finishes(t) ==
  /\ pc' = [pc EXCEPT ![t] = IF t \in Runners THEN "dead" ELSE "idle"]
  /\ job' = [job EXCEPT ![t] = NoJob]

Alive(r) == r \in Runners /\ pc[r] # "dead"

----------------------------------------------------------------------------
(* Being asked, and looking whether the target is free. *)

Asked(t, op, step, k) ==
  /\ pc[t] = "idle" /\ op \in Ops[t]
  /\ Goes(t, step)
  /\ job' = [job EXCEPT ![t] = JobFor(op, k)]
  /\ UNCHANGED <<machine, flags, unicorn, runThread, published>>

Waited == Patient => published # "RUNNING"

\* _require_stopped, console._stopped
Stopped == Waited /\ ~running /\ ~terminated

Resume(t) == Stopped /\ Asked(t, "resume", "continue", 0)
StepOnce(t) == Stopped /\ Asked(t, "step", "check", 0)

\* _require_reversible, then step_back: k is computed from the count now.
Back(t) ==
  /\ Waited /\ ~running /\ icount > 0
  /\ \E k \in 0..(icount - 1) : Asked(t, "back", "rlock", k)

Interrupt(t) == Asked(t, "interrupt", "look", 0)
Kill(t) == Waited /\ Asked(t, "kill", "look", 0)

\* hooks.on_cont: the trace shows a running target before there is one.
Continue(t) ==
  /\ pc[t] = "continue"
  /\ published' = "RUNNING"
  /\ Goes(t, IF t = Worker THEN "spawn" ELSE "check")
  /\ UNCHANGED <<machine, flags, unicorn, runThread, job>>

\* resume starts a thread and returns.
Spawn(t) ==
  /\ pc[t] = "spawn"
  /\ \E r \in Runners :
       /\ pc[r] = "dead"
       /\ runThread' = r
       /\ pc' = [pc EXCEPT ![t] = "idle", ![r] = "check"]
       /\ job' = [job EXCEPT ![t] = NoJob, ![r] = JobFor("resume", 0)]
  /\ UNCHANGED <<machine, flags, unicorn, published>>

----------------------------------------------------------------------------
(* _emulate. *)

\* A terminated target raises.
Check(t) ==
  /\ pc[t] = "check"
  /\ IF terminated THEN Finishes(t) ELSE Goes(t, "lock") /\ UNCHANGED job
  /\ UNCHANGED <<machine, flags, unicorn, runThread, published>>

\* The flag is looked at and set under the lock; a second caller raises.
Grab(t, next) ==
  IF running THEN Finishes(t) /\ UNCHANGED running
  ELSE running' = TRUE /\ Goes(t, next) /\ UNCHANGED job

Lock(t) ==
  /\ pc[t] = "lock"
  /\ Grab(t, "start")
  /\ UNCHANGED <<machine, interrupted, stop, terminated, unicorn, runThread, published>>

\* emu_start forgets a request to stop made before it.
Start(t) ==
  /\ pc[t] = "start"
  /\ stop' = None
  /\ owner' = t /\ stopReq' = FALSE
  /\ Goes(t, "emulating")
  /\ UNCHANGED <<machine, running, interrupted, terminated, runThread, published, job>>

Leaves(t, error) ==
  /\ owner' = None
  /\ Goes(t, "leave")
  /\ job' = [job EXCEPT ![t].error = error]

\* One instruction; the hook counts it first.  A step ends after it.
Instruction(t) ==
  /\ pc[t] = "emulating" /\ icount < MaxICount
  /\ \/ /\ position < End
        /\ position' = position + 1 /\ icount' = icount + 1
        /\ IF job[t].op = "step" THEN Leaves(t, FALSE) ELSE UNCHANGED <<owner, pc, job>>
     \/ /\ position = End /\ ending = "error"
        /\ icount' = icount + 1 /\ position' = position
        /\ Leaves(t, TRUE)
     \/ /\ position = End /\ ending = "loop"
        /\ UNCHANGED <<position, icount>>
        /\ IF job[t].op = "step" THEN Leaves(t, FALSE) ELSE UNCHANGED <<owner, pc, job>>
  /\ UNCHANGED <<ending, flags, stopReq, runThread, published>>

\* The hook stops the run, at the exit or at a breakpoint.
HookStops(t) ==
  /\ pc[t] = "emulating"
  /\ stop' \in IF position = End /\ ending = "exit" THEN {"exit"} ELSE {"breakpoint"}
  /\ Leaves(t, FALSE)
  /\ UNCHANGED <<machine, running, interrupted, terminated, stopReq, runThread, published>>

\* Unicorn sees the request of another thread.
SeesRequest(t) ==
  /\ pc[t] = "emulating" /\ stopReq
  /\ Leaves(t, FALSE)
  /\ UNCHANGED <<machine, flags, stopReq, runThread, published>>

\* Mutant: the flag is left set.
LeaveRunning(t) ==
  /\ pc[t] = "leave"
  /\ Goes(t, "settle")
  /\ UNCHANGED <<machine, flags, unicorn, runThread, published, job>>

\* The finally clause: the target is free before the run is accounted for.
Leave(t) ==
  /\ pc[t] = "leave"
  /\ running' = FALSE
  /\ Goes(t, "settle")
  /\ UNCHANGED <<machine, interrupted, stop, terminated, unicorn, runThread, published, job>>

\* Mutant: an instruction that faulted stays counted.
StaysCounted(t) == icount

\* An instruction that faulted was counted by its hook, and is uncounted.
Uncounted(t) == IF job[t].error /\ icount > 0 THEN icount - 1 ELSE icount

\* Where the run stopped is read first,
Settle(t) ==
  /\ pc[t] = "settle"
  /\ job' = [job EXCEPT ![t].at = position]
  /\ Goes(t, "verdict")
  /\ UNCHANGED <<machine, flags, unicorn, runThread, published>>

\* then what it came to: an exit, reported by the hook or arrived at by a
\* step, ends the target.
Verdict(t) ==
  LET exit == ~job[t].error /\ \/ stop = "exit"
                               \/ stop = None /\ job[t].at = End /\ ending = "exit"
  IN
  /\ pc[t] = "verdict"
  /\ icount' = Uncounted(t)
  /\ interrupted' = FALSE
  /\ terminated' = (terminated \/ exit)
  /\ job' = [job EXCEPT ![t].exit = exit]
  /\ Goes(t, "notify")
  /\ UNCHANGED <<ending, position, running, stop, unicorn, runThread, published>>

\* Mutant: every stop is published as one that can be resumed.
NotifyStopped(t) ==
  /\ pc[t] = "notify"
  /\ published' = "STOPPED"
  /\ Finishes(t)
  /\ UNCHANGED <<machine, flags, unicorn, runThread>>

\* hooks.on_stop, record_stop: the event decides, not the target.
Notify(t) ==
  /\ pc[t] = "notify"
  /\ published' = IF job[t].exit THEN "TERMINATED" ELSE "STOPPED"
  /\ Finishes(t)
  /\ UNCHANGED <<machine, flags, unicorn, runThread>>

----------------------------------------------------------------------------
(* _go, within _reversing. *)

RLock(t) ==
  /\ pc[t] = "rlock"
  /\ Grab(t, "restore")
  /\ UNCHANGED <<machine, interrupted, stop, terminated, unicorn, runThread, published>>

\* The bounds are checked again, with the lock held.
Restore(t) ==
  /\ pc[t] = "restore"
  /\ IF job[t].k > icount
     THEN running' = FALSE /\ Finishes(t) /\ UNCHANGED machine
     ELSE /\ position' = 0 /\ icount' = 0
          /\ job' = [job EXCEPT ![t].was = icount]
          /\ Goes(t, IF job[t].k = 0 THEN "advance" ELSE "replay")
          /\ UNCHANGED <<ending, running>>
  /\ UNCHANGED <<interrupted, stop, terminated, unicorn, runThread, published>>

ReplayStart(t) ==
  /\ pc[t] = "replay"
  /\ owner' = t /\ stopReq' = FALSE
  /\ Goes(t, "replaying")
  /\ UNCHANGED <<machine, flags, runThread, published, job>>

Replay(t) ==
  /\ pc[t] = "replaying"
  /\ position < job[t].k /\ position < End
  /\ position' = position + 1
  /\ UNCHANGED <<ending, icount, flags, unicorn, runThread, published, pc, job>>

\* The instructions asked for have run, or the replay was told to stop.  A
\* count that is off may ask for more than there are.
ReplayEnds(t) ==
  /\ pc[t] = "replaying"
  /\ position \in {job[t].k, End} \/ stopReq
  /\ owner' = None
  /\ Goes(t, "advance")
  /\ UNCHANGED <<machine, flags, stopReq, runThread, published, job>>

\* Mutant: going back leaves a target that has ended ended.
AdvanceOnly(t) ==
  /\ pc[t] = "advance"
  /\ icount' = job[t].k
  /\ stop' = None
  /\ Goes(t, "release")
  /\ UNCHANGED <<ending, position, running, interrupted, terminated, unicorn, runThread, published, job>>

\* The count is set to what was asked for; a target that had ended lives.
Advance(t) ==
  /\ pc[t] = "advance"
  /\ icount' = job[t].k
  /\ stop' = None
  /\ terminated' = (terminated /\ job[t].k >= job[t].was)
  /\ Goes(t, "release")
  /\ UNCHANGED <<ending, position, running, interrupted, unicorn, runThread, published, job>>

Release(t) ==
  /\ pc[t] = "release"
  /\ running' = FALSE
  /\ Goes(t, "notify")
  /\ UNCHANGED <<machine, interrupted, stop, terminated, unicorn, runThread, published, job>>

----------------------------------------------------------------------------
(* interrupt and kill. *)

\* interrupt returns, and kill goes on, when nothing runs.
Look(t) ==
  /\ pc[t] = "look"
  /\ IF running THEN Goes(t, "flag") /\ UNCHANGED job
     ELSE IF job[t].op = "kill" THEN Goes(t, "killing") /\ UNCHANGED job
     ELSE Finishes(t)
  /\ UNCHANGED <<machine, flags, unicorn, runThread, published>>

\* UnicornTarget.interrupt looks again.
Flag(t) ==
  /\ pc[t] = "flag"
  /\ interrupted' = (interrupted \/ running)
  /\ Goes(t, IF running THEN "request" ELSE "join")
  /\ UNCHANGED <<machine, running, stop, terminated, unicorn, runThread, published, job>>

\* Mutant: the flag is all there is to an interrupt.
RequestNothing(t) ==
  /\ pc[t] = "request"
  /\ Goes(t, "join")
  /\ UNCHANGED <<machine, flags, unicorn, runThread, published, job>>

\* emu_stop means whatever runs now.
Request(t) ==
  /\ pc[t] = "request"
  /\ stopReq' = TRUE
  /\ Goes(t, "join")
  /\ UNCHANGED <<machine, flags, owner, runThread, published, job>>

\* Mutant: join without a timeout.
JoinForever(t) ==
  /\ pc[t] = "join"
  /\ t = Worker => ~Alive(runThread)
  /\ IF job[t].op = "kill" THEN Goes(t, "killing") /\ UNCHANGED job ELSE Finishes(t)
  /\ UNCHANGED <<machine, flags, unicorn, runThread, published>>

\* The worker waits for the last run thread, for a while.  The console does
\* not wait.
Join(t) ==
  /\ pc[t] = "join"
  /\ t = Worker => TimesOut \/ ~Alive(runThread)
  /\ IF job[t].op = "kill" THEN Goes(t, "killing") /\ UNCHANGED job ELSE Finishes(t)
  /\ UNCHANGED <<machine, flags, unicorn, runThread, published>>

Killing(t) ==
  /\ pc[t] = "killing"
  /\ IF terminated THEN Finishes(t) /\ UNCHANGED terminated
     ELSE /\ terminated' = TRUE
          /\ job' = [job EXCEPT ![t].exit = TRUE]
          /\ Goes(t, "notify")
  /\ UNCHANGED <<machine, running, interrupted, stop, unicorn, runThread, published>>

----------------------------------------------------------------------------

Init ==
  /\ ending \in Endings
  /\ position = 0 /\ icount = 0
  /\ running = FALSE /\ interrupted = FALSE /\ stop = None /\ terminated = FALSE
  /\ owner = None /\ stopReq = FALSE
  /\ runThread = None /\ published = "STOPPED"
  /\ pc = [t \in Threads |-> IF t \in Runners THEN "dead" ELSE "idle"]
  /\ job = [t \in Threads |-> NoJob]

Users == {Worker, Console}

Ask(t) == Resume(t) \/ StepOnce(t) \/ Back(t) \/ Interrupt(t) \/ Kill(t)

\* What a thread that has been asked does next.
Proceed(t) ==
  \/ Continue(t) \/ Spawn(t)
  \/ Check(t) \/ Lock(t) \/ Start(t)
  \/ Instruction(t) \/ HookStops(t) \/ SeesRequest(t)
  \/ Leave(t) \/ Settle(t) \/ Verdict(t) \/ Notify(t)
  \/ RLock(t) \/ Restore(t) \/ ReplayStart(t) \/ Replay(t) \/ ReplayEnds(t)
  \/ Advance(t) \/ Release(t)
  \/ Look(t) \/ Flag(t) \/ Request(t) \/ Join(t) \/ Killing(t)

Next ==
  \/ \E t \in Users : Ask(t)
  \/ \E t \in Threads : Proceed(t)

Spec == Init /\ [][Next]_vars

\* Threads get to run, but nothing obliges a user to ask for anything, or a
\* program to reach a breakpoint.
FairSpec ==
  /\ Spec
  /\ \A t \in Threads : WF_vars(Proceed(t) /\ ~HookStops(t))

----------------------------------------------------------------------------
(* Properties. *)

Steps == {"idle", "dead", "continue", "spawn", "check", "lock", "start",
          "emulating", "leave", "settle", "verdict", "notify", "rlock", "restore", "replay",
          "replaying", "advance", "release", "look", "flag", "request", "join", "killing"}

Jobs == [op : {"resume", "step", "back", "interrupt", "kill", None},
         k : 0..MaxICount, was : 0..MaxICount, at : 0..End,
         error : BOOLEAN, exit : BOOLEAN]

TypeOK ==
  /\ ending \in Endings /\ position \in 0..End /\ icount \in 0..MaxICount
  /\ running \in BOOLEAN /\ interrupted \in BOOLEAN /\ terminated \in BOOLEAN
  /\ stop \in {"exit", "breakpoint", None}
  /\ owner \in Threads \cup {None} /\ stopReq \in BOOLEAN
  /\ runThread \in Runners \cup {None}
  /\ published \in {"STOPPED", "RUNNING", "TERMINATED"}
  /\ pc \in [Threads -> Steps]
  /\ job \in [Threads -> Jobs]

Holding == {"start", "emulating", "leave", "restore", "replay", "replaying", "advance", "release"}

\* One thread at a time is in the emulator or moves the machine, and the flag
\* everyone looks at says so (target.py, _emulate and _reversing).
OneHolder ==
  /\ running <=> \E t \in Threads : pc[t] \in Holding
  /\ \A t, u \in Threads : pc[t] \in Holding /\ pc[u] \in Holding => t = u
  /\ owner # None => pc[owner] \in {"emulating", "replaying"}

\* When nobody holds the machine and no fault is being accounted for, the
\* count of instructions is the one the machine is at: going back to k lands
\* on k (target.py:978, "Put the machine in the state it had at instruction
\* k").
Landed ==
  ~running /\ (\A t \in Threads : pc[t] \notin {"settle", "verdict"}) => icount = position

Quiet == \A t \in Threads : pc[t] \in {"idle", "dead"}

\* When everyone is done, Ghidra shows the target as it is: it is not left
\* looking like it runs, nor ended or alive against the facts (hooks.py,
\* record_stop, record_continued).
ShownAsItIs ==
  Quiet => published = IF terminated THEN "TERMINATED" ELSE "STOPPED"

\* Going back brings a target that ran to its end or was killed back to life,
\* and none ends but by a kill or where its program does, in whatever order
\* going back is asked for while the end is being reported (methods.py,
\* _require_reversible: "A terminated target is fine here: going back is how
\* you leave that state").
AliveAfterGoingBack ==
  [][/\ ~terminated /\ terminated' => position = End \/ \E t \in Threads : pc[t] = "killing"
     /\ \A t \in Threads : pc[t] = "notify" /\ job[t].op = "back" => ~terminated]_vars

\* A target that has been terminated runs no further (methods.py, kill:
\* "Terminate the target").
NothingRunsAfterKill ==
  [][position' > position /\ ~(\E t \in Threads : pc[t] = "replaying") => ~terminated]_vars

\* The worker, on which every button of the debugger depends, comes back
\* from whatever it was asked for, even when what it waits for never stops.
WorkerComesBack ==
  pc[Worker] \in {"look", "flag", "request", "join", "killing"} ~> pc[Worker] = "idle"

\* A run that an interrupt caught in the emulator ends.
CaughtRunEnds ==
  \A r \in Runners : pc[Worker] = "request" /\ owner = r ~> ~Alive(r)

\* An interrupt that comes after resume has returned stops the run that
\* resume started (methods.py:7-9, "so interrupt can still be delivered while
\* the target runs").
InterruptDelivered ==
  \A r \in Runners :
    pc[Worker] = "look" /\ job[Worker].op = "interrupt" /\ runThread = r /\ Alive(r) ~> ~Alive(r)
=============================================================================
