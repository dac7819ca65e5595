-------------------------- MODULE RunControlProofs --------------------------
(***************************************************************************)
(* However many run threads there are, and whoever asks for what and when, *)
(* one thread at a time holds the emulator; and for one user who waits,    *)
(* the count is where the machine is, Ghidra shows what is, and going back *)
(* brings a target back to life (RunControl).                              *)
(***************************************************************************)
EXTENDS RunControl, TLAPS

\* The bounds are numbers.
LEMMA BoundsAreNumbers == End \in Nat /\ MaxICount \in Nat
BY ThreadsAssumption

\* What the actions make of a thread's local variables.
LEMMA JobsClosed ==
  /\ NoJob \in Jobs
  /\ \A j \in Jobs :
       /\ \A e \in BOOLEAN : [j EXCEPT !.error = e] \in Jobs /\ [j EXCEPT !.exit = e] \in Jobs
       /\ \A i \in 0..MaxICount : [j EXCEPT !.was = i] \in Jobs
       /\ \A i \in 0..End : [j EXCEPT !.at = i] \in Jobs
  /\ \A op \in {"resume", "step", "back", "interrupt", "kill"}, i \in 0..MaxICount :
       JobFor(op, i) \in Jobs
  /\ JobFor("resume", 0) \in Jobs
  /\ \A j \in Jobs : j.k \in 0..MaxICount
<1>1. NoJob \in Jobs  BY BoundsAreNumbers DEF NoJob, JobFor, Jobs
<1>2. ASSUME NEW j \in Jobs, NEW e \in BOOLEAN
      PROVE  [j EXCEPT !.error = e] \in Jobs /\ [j EXCEPT !.exit = e] \in Jobs
  BY DEF Jobs
<1>3. ASSUME NEW j \in Jobs, NEW i \in 0..MaxICount
      PROVE  [j EXCEPT !.was = i] \in Jobs
  BY DEF Jobs
<1>4. ASSUME NEW j \in Jobs, NEW i \in 0..End
      PROVE  [j EXCEPT !.at = i] \in Jobs
  BY DEF Jobs
<1>5. ASSUME NEW op \in {"resume", "step", "back", "interrupt", "kill"}, NEW i \in 0..MaxICount
      PROVE  JobFor(op, i) \in Jobs
  BY BoundsAreNumbers DEF JobFor, Jobs
<1>6. JobFor("resume", 0) \in Jobs  BY BoundsAreNumbers DEF JobFor, Jobs
<1>7. \A j \in Jobs : j.k \in 0..MaxICount  BY DEF Jobs
<1>8. QED  BY <1>1, <1>2, <1>3, <1>4, <1>5, <1>6, <1>7

\* What a thread's taking a step, finishing, and leaving the emulator do to
\* the two variables that say where threads are.
LEMMA ThreadSteps ==
  ASSUME pc \in [Threads -> Steps], job \in [Threads -> Jobs], NEW t \in Threads
  PROVE  /\ \A step \in Steps : Goes(t, step) => pc' \in [Threads -> Steps]
         /\ Finishes(t) => pc' \in [Threads -> Steps] /\ job' \in [Threads -> Jobs]
         /\ \A e \in BOOLEAN : Leaves(t, e) =>
              pc' \in [Threads -> Steps] /\ job' \in [Threads -> Jobs] /\ owner' = None
<1>1. \A step \in Steps : Goes(t, step) => pc' \in [Threads -> Steps]
  BY DEF Goes
<1>2. ASSUME Finishes(t)
      PROVE  pc' \in [Threads -> Steps] /\ job' \in [Threads -> Jobs]
  <2>1. pc' \in [Threads -> Steps]  BY <1>2 DEF Finishes, Steps
  <2>2. job' \in [Threads -> Jobs]  BY <1>2, JobsClosed DEF Finishes
  <2>3. QED  BY <2>1, <2>2
<1>3. ASSUME NEW e \in BOOLEAN, Leaves(t, e)
      PROVE  pc' \in [Threads -> Steps] /\ job' \in [Threads -> Jobs] /\ owner' = None
  <2>1. pc' \in [Threads -> Steps]  BY <1>1, <1>3 DEF Leaves, Steps
  <2>2. job' = [job EXCEPT ![t] = [job[t] EXCEPT !.error = e]]  BY <1>3 DEF Leaves
  <2>3. [job[t] EXCEPT !.error = e] \in Jobs  BY JobsClosed
  <2>4. QED  BY <1>3, <2>1, <2>2, <2>3 DEF Leaves
<1>4. QED  BY <1>1, <1>2, <1>3

\* The same for an assignment to one of its local variables.
LEMMA JobSteps ==
  ASSUME job \in [Threads -> Jobs], NEW t \in Threads
  PROVE  /\ \A e \in BOOLEAN : [job EXCEPT ![t].exit = e] \in [Threads -> Jobs]
         /\ \A i \in 0..MaxICount : [job EXCEPT ![t].was = i] \in [Threads -> Jobs]
         /\ \A i \in 0..End : [job EXCEPT ![t].at = i] \in [Threads -> Jobs]
<1>1. ASSUME NEW e \in BOOLEAN
      PROVE  [job EXCEPT ![t].exit = e] \in [Threads -> Jobs]
  <2>1. [job[t] EXCEPT !.exit = e] \in Jobs  BY JobsClosed
  <2>2. QED  BY <2>1
<1>2. ASSUME NEW i \in 0..MaxICount
      PROVE  [job EXCEPT ![t].was = i] \in [Threads -> Jobs]
  <2>1. [job[t] EXCEPT !.was = i] \in Jobs  BY JobsClosed
  <2>2. QED  BY <2>1
<1>3. ASSUME NEW i \in 0..End
      PROVE  [job EXCEPT ![t].at = i] \in [Threads -> Jobs]
  <2>1. [job[t] EXCEPT !.at = i] \in Jobs  BY JobsClosed
  <2>2. QED  BY <2>1
<1>4. QED  BY <1>1, <1>2, <1>3

\* What an invocation changes.
LEMMA AskType ==
  ASSUME TypeOK, NEW t \in Users, Ask(t)
  PROVE  TypeOK'
<1> USE BoundsAreNumbers DEF TypeOK, machine, flags, unicorn
<1>1. ASSUME NEW op \in {"resume", "step", "interrupt", "kill", "back"},
             NEW step \in {"continue", "check", "look", "rlock"}, NEW k \in 0..MaxICount,
             Asked(t, op, step, k)
      PROVE  TypeOK'
  <2>1. t \in Threads  BY DEF Users, Threads
  <2>2. pc' \in [Threads -> Steps]  BY <1>1, <2>1, ThreadSteps DEF Asked, Steps
  <2>3. JobFor(op, k) \in Jobs  BY JobsClosed
  <2>4. job' \in [Threads -> Jobs]  BY <1>1, <2>1, <2>3 DEF Asked
  <2>5. QED  BY <1>1, <2>2, <2>4 DEF Asked
<1>2. CASE Resume(t)     BY <1>1, <1>2 DEF Resume
<1>3. CASE StepOnce(t)   BY <1>1, <1>3 DEF StepOnce
<1>4. CASE Back(t)
  <2>1. PICK k \in 0..(icount - 1) : Asked(t, "back", "rlock", k)  BY <1>4 DEF Back
  <2>2. k \in 0..MaxICount  OBVIOUS
  <2>3. QED  BY <2>1, <2>2, <1>1
<1>5. CASE Interrupt(t)  BY <1>1, <1>5 DEF Interrupt
<1>6. CASE Kill(t)       BY <1>1, <1>6 DEF Kill
<1>7. QED  BY <1>2, <1>3, <1>4, <1>5, <1>6 DEF Ask

\* What a thread's next step changes, one action after the other.
LEMMA ProceedType ==
  ASSUME TypeOK, NEW t \in Threads, Proceed(t)
  PROVE  TypeOK'
<1> USE BoundsAreNumbers DEF TypeOK, machine, flags, unicorn
<1>1. /\ \A step \in Steps : Goes(t, step) => pc' \in [Threads -> Steps]
      /\ Finishes(t) => pc' \in [Threads -> Steps] /\ job' \in [Threads -> Jobs]
      /\ \A e \in BOOLEAN : Leaves(t, e) =>
           pc' \in [Threads -> Steps] /\ job' \in [Threads -> Jobs] /\ owner' = None
  BY ThreadSteps
<1>2. CASE Continue(t)     BY <1>1, <1>2 DEF Continue, Steps
<1>3. CASE Spawn(t)
  <2>1. PICK r \in Runners :
          /\ runThread' = r
          /\ pc' = [pc EXCEPT ![t] = "idle", ![r] = "check"]
          /\ job' = [job EXCEPT ![t] = NoJob, ![r] = JobFor("resume", 0)]
    BY <1>3 DEF Spawn
  <2>2. pc' \in [Threads -> Steps]  BY <2>1 DEF Steps
  <2>3. NoJob \in Jobs /\ JobFor("resume", 0) \in Jobs  BY JobsClosed
  <2>4. job' \in [Threads -> Jobs]  BY <2>1, <2>3
  <2>5. QED  BY <1>3, <2>1, <2>2, <2>4 DEF Spawn
<1>4. CASE Check(t)        BY <1>1, <1>4 DEF Check, Steps
<1>5. CASE Lock(t)         BY <1>1, <1>5 DEF Lock, Grab, Steps
<1>6. CASE Start(t)        BY <1>1, <1>6 DEF Start, Steps
<1>7. CASE Instruction(t)
  <2>1. position' \in 0..End /\ icount' \in 0..MaxICount
    <3>1. position \in Int /\ icount \in Int  OBVIOUS
    <3>2. CASE position' = position + 1 /\ icount' = icount + 1 /\ position < End
      BY <1>7, <3>1, <3>2 DEF Instruction
    <3>3. CASE position' = position /\ icount' = icount + 1
      BY <1>7, <3>1, <3>3 DEF Instruction
    <3>4. CASE position' = position /\ icount' = icount  BY <3>4
    <3>5. QED  BY <1>7, <3>2, <3>3, <3>4 DEF Instruction
  <2>2. owner' \in Threads \cup {None} /\ pc' \in [Threads -> Steps] /\ job' \in [Threads -> Jobs]
    BY <1>1, <1>7 DEF Instruction
  <2>3. QED  BY <1>7, <2>1, <2>2 DEF Instruction
<1>8. CASE HookStops(t)    BY <1>1, <1>8 DEF HookStops
<1>9. CASE SeesRequest(t)  BY <1>1, <1>9 DEF SeesRequest
<1>10. CASE Leave(t)       BY <1>1, <1>10 DEF Leave, Steps
<1>11. CASE Settle(t)      BY <1>1, <1>11, JobSteps DEF Settle, Steps
<1>12. CASE Verdict(t)
  <2>1. icount' \in 0..MaxICount  BY <1>12 DEF Verdict, Uncounted
  <2>2. job' \in [Threads -> Jobs]  BY <1>12, JobSteps DEF Verdict
  <2>3. pc' \in [Threads -> Steps]  BY <1>1, <1>12 DEF Verdict, Steps
  <2>4. terminated' \in BOOLEAN  BY <1>12 DEF Verdict
  <2>5. QED  BY <1>12, <2>1, <2>2, <2>3, <2>4 DEF Verdict
<1>13. CASE Notify(t)      BY <1>1, <1>13 DEF Notify
<1>14. CASE RLock(t)       BY <1>1, <1>14 DEF RLock, Grab, Steps
<1>15. CASE Restore(t)
  <2>1. CASE job[t].k > icount  BY <1>1, <1>15, <2>1 DEF Restore
  <2>2. CASE ~(job[t].k > icount)
    <3>1. job' \in [Threads -> Jobs]  BY <1>15, <2>2, JobSteps DEF Restore
    <3>2. pc' \in [Threads -> Steps]  BY <1>1, <1>15, <2>2 DEF Restore, Steps
    <3>3. QED  BY <1>15, <2>2, <3>1, <3>2 DEF Restore
  <2>3. QED  BY <2>1, <2>2
<1>16. CASE ReplayStart(t) BY <1>1, <1>16 DEF ReplayStart, Steps
<1>17. CASE Replay(t)      BY <1>17 DEF Replay
<1>18. CASE ReplayEnds(t)  BY <1>1, <1>18 DEF ReplayEnds, Steps
<1>19. CASE Advance(t)
  <2>1. icount' \in 0..MaxICount  BY <1>19, JobsClosed DEF Advance
  <2>2. pc' \in [Threads -> Steps]  BY <1>1, <1>19 DEF Advance, Steps
  <2>3. QED  BY <1>19, <2>1, <2>2 DEF Advance
<1>20. CASE Release(t)     BY <1>1, <1>20 DEF Release, Steps
<1>21. CASE Look(t)        BY <1>1, <1>21 DEF Look, Steps
<1>22. CASE Flag(t)        BY <1>1, <1>22 DEF Flag, Steps
<1>23. CASE Request(t)     BY <1>1, <1>23 DEF Request, Steps
<1>24. CASE Join(t)        BY <1>1, <1>24 DEF Join, Steps
<1>25. CASE Killing(t)     BY <1>1, <1>25, JobSteps DEF Killing, Steps
<1>26. QED
  BY <1>2, <1>3, <1>4, <1>5, <1>6, <1>7, <1>8, <1>9, <1>10, <1>11, <1>12, <1>13, <1>14,
     <1>15, <1>16, <1>17, <1>18, <1>19, <1>20, <1>21, <1>22, <1>23, <1>24, <1>25
  DEF Proceed

\* Every variable keeps its type, whatever threads there are.
THEOREM TypeCorrect == Spec => []TypeOK
<1>1. Init => TypeOK
  <2> SUFFICES ASSUME Init PROVE TypeOK  OBVIOUS
  <2>1. pc \in [Threads -> Steps]  BY DEF Init, Steps
  <2>2. job \in [Threads -> Jobs]  BY JobsClosed DEF Init
  <2>3. position \in 0..End /\ icount \in 0..MaxICount  BY BoundsAreNumbers DEF Init
  <2>4. QED  BY <2>1, <2>2, <2>3 DEF Init, TypeOK
<1>2. TypeOK /\ [Next]_vars => TypeOK'
  <2> SUFFICES ASSUME TypeOK, [Next]_vars PROVE TypeOK'  OBVIOUS
  <2>1. CASE UNCHANGED vars  BY <2>1 DEF vars, machine, flags, unicorn, TypeOK
  <2>2. CASE Next  BY <2>2, AskType, ProceedType DEF Next
  <2>3. QED  BY <2>1, <2>2
<1>3. QED  BY <1>1, <1>2, PTL DEF Spec

----------------------------------------------------------------------------
(* Who holds the emulator.  Each action takes one of these four shapes.    *)

\* A thread that does not hold it moves without taking it.
LEMMA Outside ==
  ASSUME TypeOK, OneHolder, NEW t \in Threads, NEW step \in Steps \ Holding,
         pc[t] \notin Holding, Goes(t, step), UNCHANGED <<running, owner>>
  PROVE  OneHolder'
<1>1. \A u \in Threads : pc'[u] = IF u = t THEN step ELSE pc[u]  BY DEF TypeOK, Goes
<1>2. \A u \in Threads : pc'[u] \in Holding <=> pc[u] \in Holding  BY <1>1
<1>3. owner # None => owner \in Threads /\ owner # t  BY DEF TypeOK, OneHolder, Holding
<1>4. QED  BY <1>1, <1>2, <1>3 DEF OneHolder

\* It is taken when nobody has it.
LEMMA Taking ==
  ASSUME TypeOK, OneHolder, NEW t \in Threads, NEW step \in Holding,
         ~running, running' = TRUE, Goes(t, step), UNCHANGED owner
  PROVE  OneHolder'
<1>1. \A u \in Threads : pc'[u] = IF u = t THEN step ELSE pc[u]  BY DEF TypeOK, Goes
<1>2. \A u \in Threads : pc[u] \notin Holding  BY DEF OneHolder
<1>3. owner = None  BY <1>2 DEF TypeOK, OneHolder, Holding
<1>4. QED  BY <1>1, <1>2, <1>3 DEF OneHolder

\* Its holder goes on, in Unicorn or outside.
LEMMA Holds ==
  ASSUME TypeOK, OneHolder, NEW t \in Threads, NEW step \in Holding,
         pc[t] \in Holding, Goes(t, step), UNCHANGED running,
         \/ owner' = None
         \/ owner' = t /\ step \in {"emulating", "replaying"}
         \/ owner' = owner /\ pc[t] \notin {"emulating", "replaying"}
  PROVE  OneHolder'
<1>1. \A u \in Threads : pc'[u] = IF u = t THEN step ELSE pc[u]  BY DEF TypeOK, Goes
<1>2. \A u \in Threads : pc'[u] \in Holding <=> pc[u] \in Holding  BY <1>1
<1>3. CASE owner' = None  BY <1>1, <1>2, <1>3 DEF OneHolder
<1>4. CASE owner' = t /\ step \in {"emulating", "replaying"}
  BY <1>1, <1>2, <1>4 DEF OneHolder
<1>5. CASE owner' = owner /\ pc[t] \notin {"emulating", "replaying"}
  <2>1. owner # None => owner \in Threads /\ owner # t  BY <1>5 DEF TypeOK, OneHolder
  <2>2. QED  BY <1>1, <1>2, <1>5, <2>1 DEF OneHolder
<1>6. QED  BY <1>3, <1>4, <1>5

\* It is let go of by its holder, who is not in Unicorn.
LEMMA LettingGo ==
  ASSUME TypeOK, OneHolder, NEW t \in Threads, NEW step \in Steps \ Holding,
         pc[t] \in Holding \ {"emulating", "replaying"}, Goes(t, step),
         running' = FALSE, UNCHANGED owner
  PROVE  OneHolder'
<1>1. \A u \in Threads : pc'[u] = IF u = t THEN step ELSE pc[u]  BY DEF TypeOK, Goes
<1>2. \A u \in Threads : pc'[u] \notin Holding  BY <1>1 DEF OneHolder
<1>3. owner # None => pc[owner] \in Holding /\ owner \in Threads  BY DEF TypeOK, OneHolder, Holding
<1>4. owner # None => owner = t  BY <1>3 DEF OneHolder
<1>5. owner = None  BY <1>4 DEF OneHolder
<1>6. QED  BY <1>2, <1>5 DEF OneHolder

\* A thread that finishes is idle, or dead.
LEMMA Finished ==
  ASSUME NEW t, Finishes(t)
  PROVE  \E step \in Steps \ Holding : Goes(t, step)
<1>1. CASE t \in Runners
  <2>1. Goes(t, "dead")  BY <1>1 DEF Finishes, Goes
  <2>2. QED  BY <2>1 DEF Steps, Holding
<1>2. CASE t \notin Runners
  <2>1. Goes(t, "idle")  BY <1>2 DEF Finishes, Goes
  <2>2. QED  BY <2>1 DEF Steps, Holding
<1>3. QED  BY <1>1, <1>2

\* A thread on its way into the emulator gets it, or gives up.
LEMMA Grabbing ==
  ASSUME TypeOK, OneHolder, NEW t \in Threads, NEW step \in Holding,
         pc[t] \notin Holding, Grab(t, step), UNCHANGED owner
  PROVE  OneHolder'
<1>1. CASE running  BY <1>1, Finished, Outside DEF Grab
<1>2. CASE ~running  BY <1>2, Taking DEF Grab
<1>3. QED  BY <1>1, <1>2

\* One action after the other.
LEMMA ProceedHolder ==
  ASSUME TypeOK, OneHolder, NEW t \in Threads, Proceed(t)
  PROVE  OneHolder'
<1> USE DEF flags, unicorn
<1>1. CASE Continue(t)
  <2>1. PICK step \in {"spawn", "check"} : Goes(t, step)  BY <1>1 DEF Continue
  <2>2. QED  BY <1>1, <2>1, Outside DEF Continue, Steps, Holding
<1>2. CASE Spawn(t)
  <2>1. PICK r \in Runners :
          pc[r] = "dead" /\ pc' = [pc EXCEPT ![t] = "idle", ![r] = "check"]
    BY <1>2 DEF Spawn
  <2>2. r \in Threads  BY DEF Threads
  <2>3. \A u \in Threads : pc'[u] = IF u = r THEN "check" ELSE IF u = t THEN "idle" ELSE pc[u]
    BY <2>1, <2>2 DEF TypeOK
  <2>4. \A u \in Threads : pc'[u] \in Holding <=> pc[u] \in Holding
    <3>1. pc[t] = "spawn"  BY <1>2 DEF Spawn
    <3>2. \A step \in {"idle", "check", "dead", "spawn"} : step \notin Holding  BY DEF Holding
    <3>3. QED  BY <2>1, <2>3, <3>1, <3>2
  <2>5. owner # None => owner \in Threads /\ owner # t /\ owner # r
    BY <1>2, <2>1 DEF Spawn, TypeOK, OneHolder
  <2>6. UNCHANGED <<running, owner>>  BY <1>2 DEF Spawn
  <2>7. QED  BY <2>3, <2>4, <2>5, <2>6 DEF OneHolder
<1>3. CASE Check(t)
  <2>1. PICK step \in Steps \ Holding : Goes(t, step)
    BY <1>3, Finished DEF Check, Steps, Holding
  <2>2. QED  BY <1>3, <2>1, Outside DEF Check, Holding
<1>4. CASE Lock(t)         BY <1>4, Grabbing DEF Lock, Holding
<1>5. CASE Start(t)        BY <1>5, Holds DEF Start, Holding
<1>6. CASE Instruction(t)
  <2>1. CASE \E e \in BOOLEAN : Leaves(t, e)
    BY <1>6, <2>1, Holds DEF Instruction, Leaves, Holding
  <2>2. CASE UNCHANGED <<owner, pc>>  BY <1>6, <2>2 DEF Instruction, OneHolder
  <2>3. QED  BY <1>6, <2>1, <2>2 DEF Instruction
<1>7. CASE HookStops(t)    BY <1>7, Holds DEF HookStops, Leaves, Holding
<1>8. CASE SeesRequest(t)  BY <1>8, Holds DEF SeesRequest, Leaves, Holding
<1>9. CASE Leave(t)        BY <1>9, LettingGo DEF Leave, Steps, Holding
<1>10. CASE Settle(t)      BY <1>10, Outside DEF Settle, Steps, Holding
<1>11. CASE Verdict(t)     BY <1>11, Outside DEF Verdict, Steps, Holding
<1>12. CASE Notify(t)      BY <1>12, Finished, Outside DEF Notify, Holding
<1>13. CASE RLock(t)       BY <1>13, Grabbing DEF RLock, Holding
<1>14. CASE Restore(t)
  <2>1. CASE job[t].k > icount
    BY <1>14, <2>1, Finished, LettingGo DEF Restore, Holding
  <2>2. CASE ~(job[t].k > icount)
    <3>1. PICK step \in {"advance", "replay"} : Goes(t, step)  BY <1>14, <2>2 DEF Restore
    <3>2. QED  BY <1>14, <2>2, <3>1, Holds DEF Restore, Holding
  <2>3. QED  BY <2>1, <2>2
<1>15. CASE ReplayStart(t) BY <1>15, Holds DEF ReplayStart, Holding
<1>16. CASE Replay(t)      BY <1>16 DEF Replay, OneHolder
<1>17. CASE ReplayEnds(t)  BY <1>17, Holds DEF ReplayEnds, Holding
<1>18. CASE Advance(t)     BY <1>18, Holds DEF Advance, Holding
<1>19. CASE Release(t)     BY <1>19, LettingGo DEF Release, Steps, Holding
<1>20. CASE Look(t)
  <2>1. PICK step \in Steps \ Holding : Goes(t, step)
    BY <1>20, Finished DEF Look, Steps, Holding
  <2>2. QED  BY <1>20, <2>1, Outside DEF Look, Holding
<1>21. CASE Flag(t)
  <2>1. PICK step \in {"request", "join"} : Goes(t, step)  BY <1>21 DEF Flag
  <2>2. QED  BY <1>21, <2>1, Outside DEF Flag, Steps, Holding
<1>22. CASE Request(t)     BY <1>22, Outside DEF Request, Steps, Holding
<1>23. CASE Join(t)
  <2>1. PICK step \in Steps \ Holding : Goes(t, step)
    BY <1>23, Finished DEF Join, Steps, Holding
  <2>2. QED  BY <1>23, <2>1, Outside DEF Join, Holding
<1>24. CASE Killing(t)
  <2>1. PICK step \in Steps \ Holding : Goes(t, step)
    BY <1>24, Finished DEF Killing, Steps, Holding
  <2>2. QED  BY <1>24, <2>1, Outside DEF Killing, Holding
<1>25. QED
  BY <1>1, <1>2, <1>3, <1>4, <1>5, <1>6, <1>7, <1>8, <1>9, <1>10, <1>11, <1>12, <1>13,
     <1>14, <1>15, <1>16, <1>17, <1>18, <1>19, <1>20, <1>21, <1>22, <1>23, <1>24
  DEF Proceed

\* An invocation takes nothing.
LEMMA AskHolder ==
  ASSUME TypeOK, OneHolder, NEW t \in Users, Ask(t)
  PROVE  OneHolder'
<1>1. PICK step \in {"continue", "check", "rlock", "look"} :
        pc[t] = "idle" /\ Goes(t, step) /\ UNCHANGED <<running, owner>>
  BY DEF Ask, Resume, StepOnce, Back, Interrupt, Kill, Asked, flags, unicorn
<1>2. t \in Threads  BY DEF Users, Threads
<1>3. QED  BY <1>1, <1>2, Outside DEF Steps, Holding

\* At most one thread is in the emulator or moves the machine, and the flag
\* every other looks at says so: of everything the threads share this alone
\* is decided under the lock, and it holds for every number of threads.
THEOREM OneAtATime == Spec => []OneHolder
<1>1. Init => OneHolder  BY DEF Init, OneHolder, Threads, Holding
<1>2. TypeOK /\ OneHolder /\ [Next]_vars => OneHolder'
  <2> SUFFICES ASSUME TypeOK, OneHolder, [Next]_vars PROVE OneHolder'  OBVIOUS
  <2>1. CASE UNCHANGED vars  BY <2>1 DEF vars, flags, unicorn, OneHolder
  <2>2. CASE Next  BY <2>2, AskHolder, ProceedHolder DEF Next
  <2>3. QED  BY <2>1, <2>2
<1>3. QED  BY <1>1, <1>2, TypeCorrect, PTL DEF Spec

----------------------------------------------------------------------------
(* One user at a time, who waits for a run to be seen to stop before asking *)
(* for anything but an interrupt: what Ghidra's buttons are meant for.      *)

OneUserWaits == Patient /\ Ops[Console] = {}

RunSteps == {"check", "lock", "start", "emulating", "leave", "settle", "verdict", "notify"}
BackSteps == {"rlock", "restore", "replay", "replaying", "advance", "release", "notify"}

\* A thread that has been asked for something other than an interrupt.
Busy(t) == pc[t] \notin {"idle", "dead"} /\ job[t].op # "interrupt"

\* Run threads run; the worker does one of the five things it is asked for.
WhoDoesWhat ==
  /\ pc[Console] = "idle"
  /\ \A r \in Runners : pc[r] = "dead" \/ (pc[r] \in RunSteps /\ job[r].op = "resume")
  /\ \/ pc[Worker] = "idle"
     \/ pc[Worker] \in {"continue", "spawn"} /\ job[Worker].op = "resume"
     \/ pc[Worker] \in RunSteps /\ job[Worker].op = "step"
     \/ pc[Worker] \in BackSteps /\ job[Worker].op = "back"
     \/ pc[Worker] \in {"look", "flag", "request", "join"} /\ job[Worker].op = "interrupt"
     \/ pc[Worker] \in {"look", "killing", "notify"} /\ job[Worker].op = "kill"

OneBusy == \A t, u \in Threads : Busy(t) /\ Busy(u) => t = u

\* The trace shows a running target while there is one, or is about to be.
ShownRunning ==
  published = "RUNNING" <=> pc[Worker] = "spawn" \/ \E r \in Runners : pc[r] # "dead"

\* What the trace shows when nothing happens, or nothing has happened yet.
ShownRight ==
  (\A t \in Threads : Busy(t) => pc[t] \in {"look", "killing"}) =>
    published = IF terminated THEN "TERMINATED" ELSE "STOPPED"

\* The count is off while the machine is moved back, and from an instruction
\* that faults until it is uncounted; at no other time.
CountRight ==
  (\A t \in Threads : Busy(t) => pc[t] \notin {"leave", "settle", "verdict",
                                              "replay", "replaying", "advance"}) =>
    icount = position

\* A run, until its verdict: where it has got to, and that it is not over.
RunRight(t) ==
  /\ pc[t] \in {"continue", "spawn", "check", "lock", "start", "emulating",
                "leave", "settle", "verdict"} => ~terminated
  /\ pc[t] = "emulating" => stop = None
  /\ pc[t] \in {"leave", "settle", "verdict"} =>
       /\ icount = position + (IF job[t].error THEN 1 ELSE 0)
       /\ stop = "exit" => position = End
  /\ pc[t] = "verdict" => job[t].at = position

\* Going back, until the count is set: k is behind where the machine was.
BackRight(t) ==
  /\ pc[t] \in {"rlock", "restore"} => job[t].k < icount
  /\ pc[t] \in {"replay", "replaying", "advance"} =>
       job[t].k < job[t].was /\ job[t].k <= End /\ position <= job[t].k
  /\ pc[t] = "replaying" => ~stopReq
  /\ pc[t] = "advance" => position = job[t].k
  /\ pc[t] = "release" => ~terminated
  /\ job[t].op = "back" => ~job[t].exit

\* What is going to be shown is what the target is.
NoticeRight(t) == pc[t] = "notify" => job[t].exit = terminated

BusyRight == \A t \in Threads : Busy(t) => RunRight(t) /\ BackRight(t) /\ NoticeRight(t)

Calm ==
  WhoDoesWhat /\ OneBusy /\ ShownRunning /\ ShownRight /\ CountRight /\ BusyRight

CalmInv == TypeOK /\ OneHolder /\ Calm

\* Threads are what ThreadsAssumption says they are.
LEMMA WhoIsWho ==
  /\ Worker \in Threads /\ Console \in Threads /\ Runners \subseteq Threads
  /\ Worker # Console /\ Worker \notin Runners /\ Console \notin Runners
  /\ \A t \in Threads : t \in Runners \/ t = Worker \/ t = Console
BY ThreadsAssumption DEF Threads

\* A busy thread goes on with what it does; it is neither at the start nor at
\* the end of it.
LEMMA GoesOn ==
  ASSUME CalmInv, NEW t \in Threads, Busy(t), NEW step,
         pc[t] \notin {"continue", "spawn"}, pc'[t] = step, job'[t].op = job[t].op,
         \A u \in Threads : u # t => pc'[u] = pc[u] /\ job'[u] = job[u],
         \/ job[t].op \in {"resume", "step"} /\ step \in RunSteps
         \/ job[t].op = "back" /\ step \in BackSteps
         \/ job[t].op = "kill" /\ step \in {"look", "killing", "notify"},
         published' = published,
         step \in {"look", "killing"} =>
           published = IF terminated' THEN "TERMINATED" ELSE "STOPPED",
         step \notin {"leave", "settle", "verdict", "replay", "replaying", "advance"} =>
           icount' = position',
         RunRight(t)', BackRight(t)', NoticeRight(t)'
  PROVE  Calm'
<1>0. WhoDoesWhat /\ OneBusy /\ ShownRunning
  BY DEF CalmInv, Calm
<1>1. step \notin {"idle", "dead", "continue", "spawn"}
  BY DEF RunSteps, BackSteps
<1>2. \A u \in Threads : u # t => ~Busy(u) /\ ~Busy(u)'
  BY <1>0 DEF OneBusy, Busy
<1>3. Busy(t)'
  BY <1>1 DEF Busy
<1>4. WhoDoesWhat'
  <2>1. CASE t \in Runners
    <3>1. job[t].op = "resume" /\ step \in RunSteps
      BY <1>0, <2>1 DEF WhoDoesWhat, Busy
    <3>2. \A r \in Runners : r # t => pc'[r] = pc[r] /\ job'[r].op = job[r].op
      BY WhoIsWho
    <3>3. \A r \in Runners : pc'[r] = "dead" \/ (pc'[r] \in RunSteps /\ job'[r].op = "resume")
      BY <1>0, <3>1, <3>2 DEF WhoDoesWhat
    <3>4. /\ pc'[Worker] = pc[Worker] /\ job'[Worker] = job[Worker] /\ pc'[Console] = pc[Console]
      BY <2>1, WhoIsWho
    <3> QED
      BY <1>0, <3>3, <3>4 DEF WhoDoesWhat
  <2>2. CASE t = Worker
    <3>1. /\ \A r \in Runners : pc'[r] = pc[r] /\ job'[r] = job[r]
          /\ pc'[Console] = pc[Console]
      BY <2>2, WhoIsWho
    <3>2. \/ pc'[Worker] \in RunSteps /\ job'[Worker].op = "step"
          \/ pc'[Worker] \in BackSteps /\ job'[Worker].op = "back"
          \/ pc'[Worker] \in {"look", "killing", "notify"} /\ job'[Worker].op = "kill"
      BY <1>0, <2>2 DEF WhoDoesWhat, Busy, RunSteps
    <3> QED
      BY <1>0, <3>1, <3>2 DEF WhoDoesWhat
  <2>3. CASE t = Console
    BY <1>0, <2>3 DEF WhoDoesWhat, Busy
  <2> QED
    BY <2>1, <2>2, <2>3, WhoIsWho
<1>5. OneBusy'
  BY <1>2 DEF OneBusy
<1>6. ShownRunning'
  <2>1. pc'[Worker] = "spawn" <=> pc[Worker] = "spawn"
    BY <1>1, WhoIsWho
  <2>2. \A r \in Runners : pc'[r] # "dead" <=> pc[r] # "dead"
    BY <1>1, WhoIsWho DEF Busy
  <2> QED
    BY <1>0, <2>1, <2>2 DEF ShownRunning
<1>7. ShownRight' /\ CountRight'
  BY <1>3 DEF ShownRight, CountRight
<1>8. BusyRight'
  BY <1>2 DEF BusyRight
<1> QED
  BY <1>4, <1>5, <1>6, <1>7, <1>8 DEF Calm

\* A busy thread is done: nobody is busy then.
LEMMA IsDone ==
  ASSUME CalmInv, NEW t \in Threads, Busy(t), Finishes(t),
         pc[t] \notin {"continue", "spawn"},
         published' = IF terminated' THEN "TERMINATED" ELSE "STOPPED",
         icount' = position'
  PROVE  Calm'
<1>0. WhoDoesWhat /\ OneBusy /\ ShownRunning /\ TypeOK
  BY DEF CalmInv, Calm
<1>1. /\ pc'[t] = IF t \in Runners THEN "dead" ELSE "idle"
      /\ \A u \in Threads : u # t => pc'[u] = pc[u] /\ job'[u] = job[u]
  BY <1>0 DEF Finishes, TypeOK
<1>2. \A u \in Threads : ~Busy(u)'
  BY <1>0, <1>1 DEF OneBusy, Busy
<1>3. WhoDoesWhat'
  <2>1. CASE t \in Runners
    <3>1. \A r \in Runners : r # t => pc'[r] = pc[r] /\ job'[r] = job[r]
      BY <1>1, WhoIsWho
    <3>2. pc'[Worker] = pc[Worker] /\ job'[Worker] = job[Worker] /\ pc'[Console] = pc[Console]
      BY <1>1, <2>1, WhoIsWho
    <3> QED
      BY <1>0, <1>1, <2>1, <3>1, <3>2 DEF WhoDoesWhat
  <2>2. CASE t = Worker
    <3>1. /\ \A r \in Runners : pc'[r] = pc[r] /\ job'[r] = job[r]
          /\ pc'[Console] = pc[Console] /\ pc'[Worker] = "idle"
      BY <1>1, <2>2, WhoIsWho
    <3> QED
      BY <1>0, <3>1 DEF WhoDoesWhat
  <2>3. CASE t = Console
    BY <1>0, <2>3 DEF WhoDoesWhat, Busy
  <2> QED
    BY <2>1, <2>2, <2>3, WhoIsWho
<1>4. ShownRunning'
  <2>1. published' # "RUNNING"
    OBVIOUS
  <2>2. ASSUME NEW r \in Runners PROVE pc'[r] = "dead"
    <3>1. ~Busy(r)' /\ (pc'[r] = "dead" \/ (pc'[r] \in RunSteps /\ job'[r].op = "resume"))
      BY <1>2, <1>3, WhoIsWho DEF WhoDoesWhat
    <3> QED
      BY <3>1 DEF Busy, RunSteps
  <2>3. pc'[Worker] # "spawn"
    BY <1>2, <1>3, WhoIsWho DEF WhoDoesWhat, Busy, RunSteps, BackSteps
  <2> QED
    BY <2>1, <2>2, <2>3 DEF ShownRunning
<1>5. OneBusy' /\ ShownRight' /\ CountRight' /\ BusyRight'
  BY <1>2 DEF OneBusy, ShownRight, CountRight, BusyRight
<1> QED
  BY <1>3, <1>4, <1>5 DEF Calm

\* An interrupt under way changes nothing but who is told to stop.
LEMMA Interrupting ==
  ASSUME CalmInv, pc[Worker] \in {"idle", "look", "flag", "request", "join"},
         pc[Worker] # "idle" => job[Worker].op = "interrupt",
         \/ pc'[Worker] \in {"look", "flag", "request", "join"} /\ job'[Worker].op = "interrupt"
         \/ pc'[Worker] = "idle",
         \A u \in Threads : u # Worker => pc'[u] = pc[u] /\ job'[u] = job[u],
         UNCHANGED <<position, icount, stop, terminated, published>>
  PROVE  Calm'
<1>0. WhoDoesWhat /\ OneBusy /\ ShownRunning /\ ShownRight /\ CountRight /\ BusyRight
  BY DEF CalmInv, Calm
<1>1. ~Busy(Worker) /\ ~Busy(Worker)'
  BY DEF Busy
<1>2. \A u \in Threads : Busy(u)' <=> Busy(u)
  BY <1>1 DEF Busy
<1>3. \A u \in Threads : Busy(u) => u \in Runners /\ pc[u] \in RunSteps
  BY <1>0, <1>1, WhoIsWho DEF WhoDoesWhat, Busy
<1>4. \A u \in Threads : Busy(u) => pc'[u] = pc[u] /\ job'[u] = job[u]
  BY <1>3, WhoIsWho
<1>5. /\ \A r \in Runners : pc'[r] = pc[r] /\ job'[r] = job[r]
      /\ pc'[Console] = pc[Console]
  BY WhoIsWho
<1>6. WhoDoesWhat'
  BY <1>0, <1>5 DEF WhoDoesWhat
<1>7. OneBusy'
  BY <1>0, <1>2 DEF OneBusy
<1>8. ShownRunning'
  BY <1>0, <1>5 DEF ShownRunning
<1>9. ShownRight' /\ CountRight'
  BY <1>0, <1>2, <1>4 DEF ShownRight, CountRight
<1>10. BusyRight'
  <2> SUFFICES ASSUME NEW u \in Threads, Busy(u)
               PROVE  RunRight(u)' /\ BackRight(u)' /\ NoticeRight(u)'
    BY <1>2 DEF BusyRight
  <2>1. RunRight(u) /\ BackRight(u) /\ NoticeRight(u) /\ pc[u] \in RunSteps
    BY <1>0, <1>3 DEF BusyRight
  <2>2. pc'[u] = pc[u] /\ job'[u] = job[u]
    BY <1>4
  <2> QED
    BY <2>1, <2>2 DEF RunRight, BackRight, NoticeRight, RunSteps
<1> QED
  BY <1>6, <1>7, <1>8, <1>9, <1>10 DEF Calm

\* Where a thread is tells what it was asked for.
LEMMA WhoIsWhere ==
  ASSUME CalmInv, NEW t \in Threads
  PROVE  /\ pc[t] \in {"check", "lock", "start", "emulating", "leave", "settle", "verdict"} =>
              Busy(t) /\ job[t].op \in {"resume", "step"}
         /\ pc[t] \in {"rlock", "restore", "replay", "replaying", "advance", "release"} =>
              Busy(t) /\ job[t].op = "back"
         /\ pc[t] = "notify" => Busy(t)
         /\ pc[t] \in {"continue", "spawn"} => Busy(t) /\ t = Worker /\ job[t].op = "resume"
         /\ pc[t] = "killing" => Busy(t) /\ t = Worker /\ job[t].op = "kill"
         /\ pc[t] = "look" => t = Worker /\ job[t].op \in {"interrupt", "kill"}
         /\ pc[t] \in {"flag", "request", "join"} => t = Worker /\ job[t].op = "interrupt"
         /\ Busy(t) => t # Console
<1>0. WhoDoesWhat
  BY DEF CalmInv, Calm
<1>1. CASE t \in Runners
  <2>1. t # Worker /\ t # Console
    BY <1>1, WhoIsWho
  <2> QED
    BY <1>0, <1>1, <2>1 DEF WhoDoesWhat, Busy, RunSteps
<1>2. CASE t = Worker
  BY <1>0, <1>2, WhoIsWho DEF WhoDoesWhat, Busy, RunSteps, BackSteps
<1>3. CASE t = Console
  BY <1>0, <1>3 DEF WhoDoesWhat, Busy
<1> QED
  BY <1>1, <1>2, <1>3, WhoIsWho

\* What a busy thread may rely on.
LEMMA Alone ==
  ASSUME CalmInv, NEW t \in Threads, Busy(t)
  PROVE  /\ RunRight(t) /\ BackRight(t) /\ NoticeRight(t)
         /\ \A u \in Threads : Busy(u) => u = t
         /\ pc[t] \notin Holding => ~running
         /\ pc[t] \notin {"leave", "settle", "verdict", "replay", "replaying", "advance"} =>
              icount = position
         /\ pc[t] \in {"look", "killing"} =>
              published = IF terminated THEN "TERMINATED" ELSE "STOPPED"
<1>0. OneBusy /\ ShownRight /\ CountRight /\ BusyRight /\ OneHolder
  BY DEF CalmInv, Calm
<1>1. \A u \in Threads : Busy(u) => u = t
  BY <1>0 DEF OneBusy
<1>2. RunRight(t) /\ BackRight(t) /\ NoticeRight(t)
  BY <1>0 DEF BusyRight
<1>3. ASSUME pc[t] \notin Holding PROVE ~running
  <2> SUFFICES ASSUME running PROVE FALSE
    OBVIOUS
  <2>1. PICK u \in Threads : pc[u] \in Holding
    BY <1>0 DEF OneHolder
  <2>2. Busy(u)
    BY <2>1, WhoIsWhere DEF Holding
  <2> QED
    BY <1>1, <1>3, <2>1, <2>2
<1>4. pc[t] \notin {"leave", "settle", "verdict", "replay", "replaying", "advance"} =>
        icount = position
  BY <1>0, <1>1 DEF CountRight
<1>5. pc[t] \in {"look", "killing"} =>
        published = IF terminated THEN "TERMINATED" ELSE "STOPPED"
  BY <1>0, <1>1 DEF ShownRight
<1> QED
  BY <1>1, <1>2, <1>3, <1>4, <1>5

\* When nobody runs, the idle worker is asked for something.
LEMMA WorkerAsked ==
  ASSUME OneUserWaits, CalmInv, NEW t \in Users, Ask(t)
  PROVE  Calm'
<1>0. /\ WhoDoesWhat /\ OneBusy /\ ShownRunning /\ ShownRight /\ CountRight /\ BusyRight
      /\ TypeOK
  BY DEF CalmInv, Calm
<1>1. t = Worker
  <2>1. \E op \in Ops[t] : TRUE
    BY DEF Ask, Resume, StepOnce, Back, Interrupt, Kill, Asked
  <2> QED
    BY <2>1 DEF Users, OneUserWaits
<1>2. ASSUME NEW op, NEW step, NEW k, Asked(Worker, op, step, k)
      PROVE  /\ pc[Worker] = "idle" /\ pc'[Worker] = step /\ job'[Worker] = JobFor(op, k)
             /\ \A u \in Threads : u # Worker => pc'[u] = pc[u] /\ job'[u] = job[u]
             /\ UNCHANGED <<machine, flags, unicorn, runThread, published>>
  BY <1>0, <1>2, WhoIsWho DEF Asked, Goes, TypeOK
<1>3. CASE Interrupt(Worker)
  <2>1. Asked(Worker, "interrupt", "look", 0)
    BY <1>3 DEF Interrupt
  <2>2. /\ pc[Worker] = "idle" /\ pc'[Worker] = "look" /\ job'[Worker] = JobFor("interrupt", 0)
        /\ \A u \in Threads : u # Worker => pc'[u] = pc[u] /\ job'[u] = job[u]
        /\ UNCHANGED <<machine, flags, unicorn, runThread, published>>
    BY <1>2, <2>1
  <2>3. job'[Worker].op = "interrupt"
    BY <2>2 DEF JobFor
  <2>4. UNCHANGED <<position, icount, stop, terminated, published>>
    BY <2>2 DEF machine, flags
  <2> QED
    BY <2>2, <2>3, <2>4, Interrupting
<1>4. ASSUME Waited, NEW op, NEW step, NEW k, Asked(Worker, op, step, k),
             \/ op = "resume" /\ step = "continue" /\ ~terminated
             \/ op = "step" /\ step = "check" /\ ~terminated
             \/ op = "back" /\ step = "rlock" /\ k < icount
             \/ op = "kill" /\ step = "look"
      PROVE  Calm'
  <2>1. /\ pc[Worker] = "idle" /\ pc'[Worker] = step /\ job'[Worker] = JobFor(op, k)
        /\ \A u \in Threads : u # Worker => pc'[u] = pc[u] /\ job'[u] = job[u]
        /\ UNCHANGED <<machine, flags, unicorn, runThread, published>>
    BY <1>2, <1>4
  <2>2. published # "RUNNING" /\ \A r \in Runners : pc[r] = "dead"
    BY <1>0, <1>4 DEF Waited, OneUserWaits, ShownRunning
  <2>3. \A u \in Threads : ~Busy(u)
    BY <1>0, <2>1, <2>2, WhoIsWho DEF Busy, WhoDoesWhat
  <2>4. \A u \in Threads : u # Worker => ~Busy(u)'
    BY <2>1, <2>3 DEF Busy
  <2>5. /\ icount = position
        /\ published = IF terminated THEN "TERMINATED" ELSE "STOPPED"
    BY <1>0, <2>3 DEF ShownRight, CountRight
  <2>6. /\ job'[Worker].op = op /\ job'[Worker].k = k /\ job'[Worker].exit = FALSE
        /\ icount' = icount /\ position' = position /\ terminated' = terminated
        /\ published' = published
    BY <2>1 DEF JobFor, machine, flags
  <2>7. /\ \A r \in Runners : pc'[r] = pc[r] /\ job'[r] = job[r]
        /\ pc'[Console] = pc[Console]
    BY <2>1, WhoIsWho
  <2>8. WhoDoesWhat'
    BY <1>0, <1>4, <2>1, <2>6, <2>7 DEF WhoDoesWhat, RunSteps, BackSteps
  <2>9. OneBusy'
    BY <2>4 DEF OneBusy
  <2>10. ShownRunning'
    BY <1>4, <2>1, <2>2, <2>6, <2>7 DEF ShownRunning
  <2>11. ShownRight' /\ CountRight'
    BY <2>5, <2>6 DEF ShownRight, CountRight
  <2>12. RunRight(Worker)'
    BY <1>4, <2>1, <2>6 DEF RunRight
  <2>13. BackRight(Worker)' /\ NoticeRight(Worker)'
    BY <1>4, <2>1, <2>6 DEF BackRight, NoticeRight
  <2>14. BusyRight'
    BY <2>4, <2>12, <2>13 DEF BusyRight
  <2> QED
    BY <2>8, <2>9, <2>10, <2>11, <2>14 DEF Calm
<1>5. CASE Resume(Worker)
  BY <1>4, <1>5 DEF Resume, Stopped
<1>6. CASE StepOnce(Worker)
  BY <1>4, <1>6 DEF StepOnce, Stopped
<1>7. CASE Back(Worker)
  <2>1. PICK k \in 0..(icount - 1) : Asked(Worker, "back", "rlock", k)
    BY <1>7 DEF Back
  <2>2. k < icount
    BY <1>0, BoundsAreNumbers DEF TypeOK
  <2>3. Waited
    BY <1>7 DEF Back
  <2> QED
    BY <1>4, <2>1, <2>2, <2>3
<1>8. CASE Kill(Worker)
  BY <1>4, <1>8 DEF Kill
<1> QED
  BY <1>1, <1>3, <1>5, <1>6, <1>7, <1>8 DEF Ask

\* What a thread's step does to where it is and what it knows.
LEMMA Moves ==
  ASSUME TypeOK, NEW t \in Threads, NEW step, Goes(t, step)
  PROVE  /\ pc'[t] = step /\ \A u \in Threads : u # t => pc'[u] = pc[u]
         /\ UNCHANGED job => \A u \in Threads : job'[u] = job[u]
         /\ \A e : job' = [job EXCEPT ![t].error = e] =>
              /\ job'[t] = [job[t] EXCEPT !.error = e]
              /\ \A u \in Threads : u # t => job'[u] = job[u]
         /\ \A e : job' = [job EXCEPT ![t].exit = e] =>
              /\ job'[t] = [job[t] EXCEPT !.exit = e]
              /\ \A u \in Threads : u # t => job'[u] = job[u]
         /\ \A e : job' = [job EXCEPT ![t].at = e] =>
              /\ job'[t] = [job[t] EXCEPT !.at = e]
              /\ \A u \in Threads : u # t => job'[u] = job[u]
         /\ \A e : job' = [job EXCEPT ![t].was = e] =>
              /\ job'[t] = [job[t] EXCEPT !.was = e]
              /\ \A u \in Threads : u # t => job'[u] = job[u]
         /\ job[t] \in Jobs
BY DEF Goes, TypeOK

\* A run leaves the emulator.
LEMMA LeavesCalm ==
  ASSUME CalmInv, NEW t \in Threads, pc[t] = "emulating", NEW e \in BOOLEAN, Leaves(t, e),
         UNCHANGED <<terminated, published>>,
         icount' = position' + (IF e THEN 1 ELSE 0),
         stop' = "exit" => position' = End
  PROVE  Calm'
<1>1. Goes(t, "leave") /\ job' = [job EXCEPT ![t].error = e] /\ TypeOK
  BY DEF Leaves, CalmInv
<1>2. /\ pc'[t] = "leave" /\ job'[t] = [job[t] EXCEPT !.error = e] /\ job[t] \in Jobs
      /\ \A u \in Threads : u # t => pc'[u] = pc[u] /\ job'[u] = job[u]
  BY <1>1, Moves
<1>3. job'[t].op = job[t].op /\ job'[t].error = e
  BY <1>2 DEF Jobs
<1>4. Busy(t) /\ job[t].op \in {"resume", "step"}
  BY WhoIsWhere
<1>5. ~terminated
  BY <1>4, Alone DEF RunRight
<1>6. RunRight(t)' /\ BackRight(t)' /\ NoticeRight(t)'
  BY <1>2, <1>3, <1>4, <1>5 DEF RunRight, BackRight, NoticeRight
<1> QED
  BY <1>2, <1>3, <1>4, <1>6, GoesOn DEF RunSteps

\* The steps of a run.
LEMMA RunCalm ==
  ASSUME CalmInv, NEW t \in Threads,
         \/ Check(t) \/ Lock(t) \/ Start(t) \/ Instruction(t) \/ HookStops(t) \/ SeesRequest(t)
         \/ Leave(t) \/ Settle(t) \/ Verdict(t)
  PROVE  Calm'
<1>0. TypeOK /\ job[t] \in Jobs /\ position \in Nat /\ icount \in Nat /\ End \in Nat
  BY BoundsAreNumbers DEF CalmInv, TypeOK
<1>1. /\ Busy(t) /\ job[t].op \in {"resume", "step"}
      /\ pc[t] \in {"check", "lock", "start", "emulating", "leave", "settle", "verdict"}
  BY WhoIsWhere DEF Check, Lock, Start, Instruction, HookStops, SeesRequest, Leave, Settle, Verdict
<1>2. /\ RunRight(t) /\ ~terminated
      /\ pc[t] \notin Holding => ~running
      /\ pc[t] \notin {"leave", "settle", "verdict"} => icount = position
  BY <1>1, Alone DEF RunRight
<1>3. ASSUME NEW step \in {"lock", "start", "emulating"}, Goes(t, step), UNCHANGED job,
             pc[t] \in {"check", "lock", "start"},
             UNCHANGED <<position, icount, terminated, published>>,
             step = "emulating" => stop' = None
      PROVE  Calm'
  <2>1. /\ pc'[t] = step /\ job'[t] = job[t]
        /\ \A u \in Threads : u # t => pc'[u] = pc[u] /\ job'[u] = job[u]
    BY <1>0, <1>3, Moves
  <2>2. RunRight(t)' /\ BackRight(t)' /\ NoticeRight(t)'
    BY <1>1, <1>2, <1>3, <2>1 DEF RunRight, BackRight, NoticeRight
  <2> QED
    BY <1>1, <1>2, <1>3, <2>1, <2>2, GoesOn DEF RunSteps
<1>4. CASE Check(t)
  BY <1>2, <1>3, <1>4 DEF Check, machine, flags
<1>5. CASE Lock(t)
  <2>1. pc[t] = "lock" /\ ~running
    BY <1>2, <1>5 DEF Lock, Holding
  <2> QED
    BY <1>3, <1>5, <2>1 DEF Lock, Grab, machine
<1>6. CASE Start(t)
  BY <1>3, <1>6 DEF Start, machine
<1>7. CASE Instruction(t)
  <2>1. /\ pc[t] = "emulating" /\ UNCHANGED <<terminated, stop, published>>
        /\ stop = None /\ icount = position /\ stop # "exit"
    BY <1>1, <1>2, <1>7, ThreadsAssumption DEF Instruction, flags, RunRight
  <2>2. CASE \E e \in BOOLEAN : Leaves(t, e)
    <3>1. PICK e \in BOOLEAN : Leaves(t, e)
      BY <2>2
    <3>2. \A f \in BOOLEAN : Leaves(t, f) => e = f
      BY <1>0, <3>1 DEF Leaves, TypeOK, Jobs
    <3>3. ~ UNCHANGED <<owner, pc, job>>
      BY <1>0, <2>1, <3>1 DEF Leaves, Goes, TypeOK
    <3>4. icount' = position' + (IF e THEN 1 ELSE 0)
      <4>1. CASE e
        <5>1. ~Leaves(t, FALSE)
          BY <3>2, <4>1
        <5> QED
          BY <1>0, <1>7, <2>1, <3>3, <4>1, <5>1 DEF Instruction
      <4>2. CASE ~e
        <5>1. ~Leaves(t, TRUE)
          BY <3>2, <4>2
        <5> QED
          <6>1. \/ position' = position + 1 /\ icount' = icount + 1
                \/ UNCHANGED <<position, icount>>
            BY <1>7, <5>1 DEF Instruction
          <6> QED
            BY <1>0, <2>1, <4>2, <6>1
      <4> QED
        BY <4>1, <4>2
    <3> QED
      BY <2>1, <3>1, <3>4, LeavesCalm
  <2>3. CASE UNCHANGED <<owner, pc, job>>
    <3>1. icount' = position'
      <4>1. owner = owner' /\ pc'[t] = "emulating"
        BY <2>1, <2>3
      <4>2. \A e \in BOOLEAN : ~Leaves(t, e)
        BY <1>0, <4>1 DEF Leaves, Goes, TypeOK
      <4> QED
        BY <1>7, <2>1, <4>2 DEF Instruction
    <3>2. RunRight(t)' /\ BackRight(t)' /\ NoticeRight(t)'
      BY <1>1, <1>2, <2>1, <2>3 DEF RunRight, BackRight, NoticeRight
    <3>3. /\ pc'[t] = "emulating" /\ job'[t] = job[t]
          /\ \A u \in Threads : u # t => pc'[u] = pc[u] /\ job'[u] = job[u]
      BY <2>1, <2>3
    <3> QED
      BY <1>1, <2>1, <3>1, <3>2, <3>3, GoesOn DEF RunSteps
  <2> QED
    BY <1>7, <2>2, <2>3 DEF Instruction
<1>8. CASE HookStops(t)
  <2>1. /\ pc[t] = "emulating" /\ Leaves(t, FALSE) /\ UNCHANGED <<terminated, published>>
        /\ icount = position /\ icount' = icount /\ position' = position
        /\ stop' = "exit" => position = End
    BY <1>2, <1>8 DEF HookStops, machine
  <2>2. icount' = position' + (IF FALSE THEN 1 ELSE 0)
    BY <1>0, <2>1
  <2> QED
    BY <2>1, <2>2, LeavesCalm
<1>9. CASE SeesRequest(t)
  <2>1. /\ pc[t] = "emulating" /\ Leaves(t, FALSE) /\ UNCHANGED <<terminated, published>>
        /\ icount = position /\ icount' = icount /\ position' = position
        /\ stop' = stop /\ stop = None
    BY <1>2, <1>9 DEF SeesRequest, machine, flags, RunRight
  <2>2. stop' # "exit"
    BY <2>1, ThreadsAssumption
  <2>3. icount' = position' + (IF FALSE THEN 1 ELSE 0)
    BY <1>0, <2>1
  <2> QED
    BY <2>1, <2>2, <2>3, LeavesCalm
<1>10. CASE Leave(t)
  <2>1. /\ pc[t] = "leave" /\ Goes(t, "settle") /\ UNCHANGED job
        /\ UNCHANGED <<position, icount, stop, terminated, published>>
    BY <1>10 DEF Leave, machine
  <2>2. /\ pc'[t] = "settle" /\ job'[t] = job[t]
        /\ \A u \in Threads : u # t => pc'[u] = pc[u] /\ job'[u] = job[u]
    BY <1>0, <2>1, Moves
  <2>3. RunRight(t)' /\ BackRight(t)' /\ NoticeRight(t)'
    BY <1>1, <1>2, <2>1, <2>2 DEF RunRight, BackRight, NoticeRight
  <2> QED
    BY <1>1, <2>1, <2>2, <2>3, GoesOn DEF RunSteps
<1>11. CASE Settle(t)
  <2>1. /\ pc[t] = "settle" /\ Goes(t, "verdict") /\ job' = [job EXCEPT ![t].at = position]
        /\ UNCHANGED <<position, icount, stop, terminated, published>>
    BY <1>11 DEF Settle, machine, flags
  <2>2. /\ pc'[t] = "verdict" /\ job'[t] = [job[t] EXCEPT !.at = position]
        /\ \A u \in Threads : u # t => pc'[u] = pc[u] /\ job'[u] = job[u]
    BY <1>0, <2>1, Moves
  <2>3. job'[t].op = job[t].op /\ job'[t].at = position /\ job'[t].error = job[t].error
    BY <1>0, <2>2 DEF Jobs
  <2>4. RunRight(t)' /\ BackRight(t)' /\ NoticeRight(t)'
    BY <1>1, <1>2, <2>1, <2>2, <2>3 DEF RunRight, BackRight, NoticeRight
  <2> QED
    BY <1>1, <2>1, <2>2, <2>3, <2>4, GoesOn DEF RunSteps
<1>12. CASE Verdict(t)
  <2>1. PICK exit \in BOOLEAN : /\ terminated' = (terminated \/ exit)
                                /\ job' = [job EXCEPT ![t].exit = exit]
    BY <1>12 DEF Verdict
  <2>2. /\ pc[t] = "verdict" /\ Goes(t, "notify") /\ icount' = Uncounted(t)
        /\ UNCHANGED <<position, published>>
    BY <1>12 DEF Verdict
  <2>3. /\ pc'[t] = "notify" /\ job'[t] = [job[t] EXCEPT !.exit = exit]
        /\ \A u \in Threads : u # t => pc'[u] = pc[u] /\ job'[u] = job[u]
    BY <1>0, <2>1, <2>2, Moves
  <2>4. job'[t].op = job[t].op /\ job'[t].exit = exit
    BY <1>0, <2>3 DEF Jobs
  <2>5. icount' = position'
    <3>1. icount = position + (IF job[t].error THEN 1 ELSE 0)
      BY <1>2, <2>2 DEF RunRight
    <3>2. CASE job[t].error
      BY <1>0, <2>2, <3>1, <3>2 DEF Uncounted
    <3>3. CASE ~job[t].error
      BY <1>0, <2>2, <3>1, <3>3 DEF Uncounted
    <3> QED
      BY <3>2, <3>3
  <2>6. RunRight(t)' /\ BackRight(t)'
    BY <1>1, <2>3, <2>4 DEF RunRight, BackRight
  <2>7. terminated' = exit
    BY <1>0, <1>2, <2>1 DEF TypeOK
  <2>8. NoticeRight(t)'
    BY <2>4, <2>7 DEF NoticeRight
  <2> QED
    BY <1>1, <2>2, <2>3, <2>4, <2>5, <2>6, <2>8, GoesOn DEF RunSteps
<1> QED
  BY <1>4, <1>5, <1>6, <1>7, <1>8, <1>9, <1>10, <1>11, <1>12

\* The steps of going back.
LEMMA BackCalm ==
  ASSUME CalmInv, NEW t \in Threads,
         \/ RLock(t) \/ Restore(t) \/ ReplayStart(t) \/ Replay(t) \/ ReplayEnds(t)
         \/ Advance(t) \/ Release(t)
  PROVE  Calm'
<1>0. /\ TypeOK /\ job[t] \in Jobs /\ position \in 0..End /\ icount \in Nat /\ End \in Nat
      /\ job[t].k \in Nat /\ job[t].was \in Nat
  BY BoundsAreNumbers DEF CalmInv, TypeOK, Jobs
<1>1. /\ Busy(t) /\ job[t].op = "back"
      /\ pc[t] \in {"rlock", "restore", "replay", "replaying", "advance", "release"}
  BY WhoIsWhere DEF RLock, Restore, ReplayStart, Replay, ReplayEnds, Advance, Release
<1>2. /\ BackRight(t) /\ ~job[t].exit
      /\ pc[t] \notin Holding => ~running
      /\ pc[t] \notin {"replay", "replaying", "advance"} => icount = position
  BY <1>1, Alone DEF BackRight
\* It goes on, with what it knows as it was.
<1>3. ASSUME NEW step \in BackSteps \ {"notify"}, Goes(t, step), UNCHANGED job, UNCHANGED published,
             step \notin {"replay", "replaying", "advance"} => icount' = position',
             /\ step \in {"rlock", "restore"} => job[t].k < icount'
             /\ step \in {"replay", "replaying", "advance"} =>
                  job[t].k < job[t].was /\ job[t].k <= End /\ position' <= job[t].k
             /\ step = "replaying" => ~stopReq'
             /\ step = "advance" => position' = job[t].k
             /\ step = "release" => ~terminated'
      PROVE  Calm'
  <2>1. /\ pc'[t] = step /\ job'[t] = job[t]
        /\ \A u \in Threads : u # t => pc'[u] = pc[u] /\ job'[u] = job[u]
    BY <1>0, <1>3, Moves
  <2>2. RunRight(t)' /\ NoticeRight(t)'
    BY <1>3, <2>1 DEF RunRight, NoticeRight, BackSteps
  <2>3. BackRight(t)'
    BY <1>2, <1>3, <2>1 DEF BackRight
  <2>4. step \notin {"leave", "settle", "verdict", "look", "killing"}
    BY <1>3 DEF BackSteps
  <2> QED
    BY <1>1, <1>3, <2>1, <2>2, <2>3, <2>4, GoesOn
<1>4. CASE RLock(t)
  <2>1. pc[t] = "rlock" /\ ~running
    BY <1>2, <1>4 DEF RLock, Holding
  <2>2. /\ Goes(t, "restore") /\ UNCHANGED job /\ UNCHANGED published
        /\ icount' = icount /\ position' = position
    BY <1>4, <2>1 DEF RLock, Grab, machine
  <2>3. job[t].k < icount
    BY <1>2, <2>1 DEF BackRight
  <2> QED
    BY <1>2, <1>3, <2>1, <2>2, <2>3 DEF BackSteps
<1>5. CASE Restore(t)
  <2>1. pc[t] = "restore" /\ job[t].k < icount /\ icount = position
    BY <1>2, <1>5 DEF Restore, BackRight
  <2>2. ~(job[t].k > icount)
    BY <1>0, <2>1
  <2>3. PICK step \in {"advance", "replay"} :
          Goes(t, step) /\ step = (IF job[t].k = 0 THEN "advance" ELSE "replay")
    BY <1>5, <2>2 DEF Restore
  <2>4. /\ position' = 0 /\ icount' = 0 /\ job' = [job EXCEPT ![t].was = icount]
        /\ UNCHANGED published
    BY <1>5, <2>2 DEF Restore
  <2>5. /\ pc'[t] = step /\ job'[t] = [job[t] EXCEPT !.was = icount]
        /\ \A u \in Threads : u # t => pc'[u] = pc[u] /\ job'[u] = job[u]
    BY <1>0, <2>3, <2>4, Moves
  <2>6. /\ job'[t].op = "back" /\ job'[t].was = icount /\ job'[t].k = job[t].k
        /\ job'[t].exit = job[t].exit
    BY <1>0, <1>1, <2>5 DEF Jobs
  <2>7. RunRight(t)' /\ NoticeRight(t)'
    BY <2>5 DEF RunRight, NoticeRight
  <2>8. job[t].k < icount /\ job[t].k <= End /\ 0 <= job[t].k
    BY <1>0, <2>1
  <2>9. BackRight(t)'
    BY <1>2, <2>3, <2>4, <2>5, <2>6, <2>8 DEF BackRight
  <2> QED
    BY <1>1, <2>4, <2>5, <2>6, <2>7, <2>9, GoesOn DEF BackSteps
<1>6. CASE ReplayStart(t)
  <2>1. /\ pc[t] = "replay" /\ Goes(t, "replaying") /\ UNCHANGED job /\ UNCHANGED published
        /\ ~stopReq' /\ position' = position
    BY <1>6 DEF ReplayStart, machine
  <2>2. job[t].k < job[t].was /\ job[t].k <= End /\ position <= job[t].k
    BY <1>2, <2>1 DEF BackRight
  <2> QED
    BY <1>3, <2>1, <2>2 DEF BackSteps
<1>7. CASE Replay(t)
  <2>1. /\ pc[t] = "replaying" /\ position < job[t].k /\ position' = position + 1
        /\ UNCHANGED <<pc, job, published, stopReq>>
    BY <1>7 DEF Replay, unicorn
  <2>2. Goes(t, "replaying")
    BY <1>0, <2>1 DEF Goes, TypeOK
  <2>3. job[t].k < job[t].was /\ job[t].k <= End /\ ~stopReq
    BY <1>2, <2>1 DEF BackRight
  <2>4. position' <= job[t].k
    BY <1>0, <2>1
  <2> QED
    BY <1>3, <2>1, <2>2, <2>3, <2>4 DEF BackSteps
<1>8. CASE ReplayEnds(t)
  <2>1. /\ pc[t] = "replaying" /\ Goes(t, "advance") /\ UNCHANGED job /\ UNCHANGED published
        /\ position' = position /\ (position \in {job[t].k, End} \/ stopReq)
    BY <1>8 DEF ReplayEnds, machine
  <2>2. job[t].k < job[t].was /\ job[t].k <= End /\ ~stopReq /\ position <= job[t].k
    BY <1>2, <2>1 DEF BackRight
  <2>3. position = job[t].k
    BY <1>0, <2>1, <2>2
  <2> QED
    BY <1>3, <2>1, <2>2, <2>3 DEF BackSteps
<1>9. CASE Advance(t)
  <2>1. /\ pc[t] = "advance" /\ Goes(t, "release") /\ UNCHANGED job /\ UNCHANGED published
        /\ position' = position /\ icount' = job[t].k
        /\ terminated' = (terminated /\ job[t].k >= job[t].was)
    BY <1>9 DEF Advance
  <2>2. job[t].k < job[t].was /\ position = job[t].k
    BY <1>2, <2>1 DEF BackRight
  <2>3. ~terminated'
    <3>1. ~(job[t].k >= job[t].was)
      BY <1>0, <2>2
    <3> QED
      BY <2>1, <3>1
  <2> QED
    BY <1>3, <2>1, <2>2, <2>3 DEF BackSteps
<1>10. CASE Release(t)
  <2>1. /\ pc[t] = "release" /\ Goes(t, "notify") /\ UNCHANGED job
        /\ UNCHANGED <<position, icount, terminated, published>>
    BY <1>10 DEF Release, machine
  <2>2. ~terminated /\ icount = position
    BY <1>2, <2>1 DEF BackRight
  <2>3. /\ pc'[t] = "notify" /\ job'[t] = job[t]
        /\ \A u \in Threads : u # t => pc'[u] = pc[u] /\ job'[u] = job[u]
    BY <1>0, <2>1, Moves
  <2>4. job[t].exit \in BOOLEAN /\ terminated \in BOOLEAN
    BY <1>0 DEF Jobs, TypeOK
  <2>5. RunRight(t)' /\ NoticeRight(t)' /\ BackRight(t)'
    BY <1>2, <2>1, <2>2, <2>3, <2>4 DEF RunRight, NoticeRight, BackRight
  <2> QED
    BY <1>1, <2>1, <2>2, <2>3, <2>5, GoesOn DEF BackSteps
<1> QED
  BY <1>4, <1>5, <1>6, <1>7, <1>8, <1>9, <1>10

\* The start of a run thread, the end of everything, interrupts and kills.
LEMMA RestCalm ==
  ASSUME OneUserWaits, CalmInv, NEW t \in Threads,
         \/ Continue(t) \/ Spawn(t) \/ Notify(t)
         \/ Look(t) \/ Flag(t) \/ Request(t) \/ Join(t) \/ Killing(t)
  PROVE  Calm'
<1>0. /\ TypeOK /\ job[t] \in Jobs /\ WhoDoesWhat /\ ShownRunning
  BY DEF CalmInv, TypeOK, Calm
<1>1. CASE Continue(t)
  <2>1. /\ t = Worker /\ pc[t] = "continue" /\ Busy(t) /\ job[t].op = "resume"
        /\ published' = "RUNNING" /\ Goes(t, "spawn") /\ UNCHANGED job
        /\ UNCHANGED <<position, icount, stop, terminated>>
    BY <1>1, WhoIsWhere DEF Continue, machine, flags
  <2>2. /\ pc'[t] = "spawn" /\ job'[t] = job[t]
        /\ \A u \in Threads : u # t => pc'[u] = pc[u] /\ job'[u] = job[u]
    BY <1>0, <2>1, Moves
  <2>3. /\ \A u \in Threads : u # t => ~Busy(u)'
        /\ ~terminated /\ icount = position /\ BackRight(t)
    BY <2>1, <2>2, Alone DEF Busy, RunRight
  <2>4. /\ \A r \in Runners : pc'[r] = pc[r] /\ job'[r] = job[r]
        /\ pc'[Console] = pc[Console]
    BY <2>1, <2>2, WhoIsWho
  <2>5. WhoDoesWhat'
    BY <1>0, <2>1, <2>2, <2>4 DEF WhoDoesWhat
  <2>6. ShownRunning'
    BY <2>1, <2>2 DEF ShownRunning
  <2>7. Busy(t)'
    BY <2>1, <2>2 DEF Busy
  <2>8. OneBusy' /\ ShownRight' /\ CountRight'
    BY <2>1, <2>2, <2>3, <2>7 DEF OneBusy, ShownRight, CountRight
  <2>9. RunRight(t)' /\ BackRight(t)' /\ NoticeRight(t)'
    BY <2>1, <2>2, <2>3 DEF RunRight, BackRight, NoticeRight
  <2> QED
    BY <2>3, <2>5, <2>6, <2>8, <2>9 DEF Calm, BusyRight
<1>2. CASE Spawn(t)
  <2>1. /\ t = Worker /\ pc[t] = "spawn" /\ Busy(t)
        /\ UNCHANGED <<position, icount, stop, terminated, published>>
    BY <1>2, WhoIsWhere DEF Spawn, machine, flags
  <2>2. PICK r \in Runners :
          /\ pc[r] = "dead"
          /\ pc' = [pc EXCEPT ![t] = "idle", ![r] = "check"]
          /\ job' = [job EXCEPT ![t] = NoJob, ![r] = JobFor("resume", 0)]
    BY <1>2 DEF Spawn
  <2>3. r \in Threads /\ r # Worker /\ r # Console
    BY WhoIsWho
  <2>4. /\ pc'[Worker] = "idle" /\ pc'[r] = "check" /\ job'[r] = JobFor("resume", 0)
        /\ \A u \in Threads : u # Worker /\ u # r => pc'[u] = pc[u] /\ job'[u] = job[u]
    BY <1>0, <2>1, <2>2, <2>3 DEF TypeOK
  <2>5. job'[r].op = "resume"
    BY <2>4 DEF JobFor
  <2>6. \A u \in Threads : u # r => ~Busy(u)'
    BY <2>1, <2>4, Alone DEF Busy
  <2>7. Busy(r)'
    BY <2>4, <2>5 DEF Busy
  <2>8. WhoDoesWhat'
    <3>1. \A s \in Runners : s # r => pc'[s] = pc[s] /\ job'[s] = job[s]
      BY <2>4, WhoIsWho
    <3>2. pc'[Console] = pc[Console]
      BY <2>3, <2>4, WhoIsWho
    <3> QED
      BY <1>0, <2>4, <2>5, <3>1, <3>2 DEF WhoDoesWhat, RunSteps
  <2>9. ShownRunning'
    BY <1>0, <2>1, <2>4 DEF ShownRunning
  <2>10. ~terminated /\ icount = position
    BY <2>1, Alone DEF RunRight
  <2>11. OneBusy' /\ ShownRight' /\ CountRight'
    BY <2>1, <2>3, <2>4, <2>6, <2>7, <2>10 DEF OneBusy, ShownRight, CountRight
  <2>12. RunRight(r)' /\ BackRight(r)' /\ NoticeRight(r)'
    BY <2>1, <2>4, <2>5, <2>10 DEF RunRight, BackRight, NoticeRight
  <2> QED
    BY <2>6, <2>8, <2>9, <2>11, <2>12 DEF Calm, BusyRight
<1>3. CASE Notify(t)
  <2>1. /\ pc[t] = "notify" /\ Busy(t) /\ Finishes(t)
        /\ published' = IF job[t].exit THEN "TERMINATED" ELSE "STOPPED"
        /\ UNCHANGED <<position, icount, terminated>>
    BY <1>3, WhoIsWhere DEF Notify, machine, flags
  <2>2. job[t].exit = terminated /\ icount = position
    BY <2>1, Alone DEF NoticeRight
  <2> QED
    BY <2>1, <2>2, IsDone
<1>4. ASSUME t = Worker, pc[t] \in {"look", "flag", "request", "join"}, job[t].op = "interrupt",
             UNCHANGED <<machine, stop, terminated, published>>,
             \/ Finishes(t)
             \/ (\E step \in {"look", "flag", "request", "join"} : Goes(t, step)) /\ UNCHANGED job
      PROVE  Calm'
  <2>1. CASE Finishes(t)
    <3>1. /\ pc'[Worker] = "idle"
          /\ \A u \in Threads : u # Worker => pc'[u] = pc[u] /\ job'[u] = job[u]
      BY <1>0, <1>4, <2>1, WhoIsWho DEF Finishes, TypeOK
    <3> QED
      BY <1>4, <3>1, Interrupting DEF machine
  <2>2. CASE (\E step \in {"look", "flag", "request", "join"} : Goes(t, step)) /\ UNCHANGED job
    <3>1. PICK step \in {"look", "flag", "request", "join"} : Goes(t, step)
      BY <2>2
    <3>2. /\ pc'[Worker] = step /\ job'[Worker].op = "interrupt"
          /\ \A u \in Threads : u # Worker => pc'[u] = pc[u] /\ job'[u] = job[u]
      BY <1>0, <1>4, <2>2, <3>1, Moves
    <3> QED
      BY <1>4, <3>2, Interrupting DEF machine
  <2> QED
    BY <1>4, <2>1, <2>2
<1>5. CASE Look(t)
  <2>1. /\ t = Worker /\ pc[t] = "look" /\ job[t].op \in {"interrupt", "kill"}
        /\ UNCHANGED <<machine, stop, terminated, published>>
    BY <1>5, WhoIsWhere DEF Look, flags
  <2>2. CASE job[t].op = "interrupt"
    <3>1. Finishes(t) \/ (Goes(t, "flag") /\ UNCHANGED job)
      BY <1>5, <2>2 DEF Look
    <3> QED
      BY <1>4, <2>1, <2>2, <3>1
  <2>3. CASE job[t].op = "kill"
    <3>1. Busy(t)
      BY <2>1, <2>3 DEF Busy
    <3>2. ~running /\ icount = position
          /\ published = IF terminated THEN "TERMINATED" ELSE "STOPPED"
      BY <2>1, <3>1, Alone DEF Holding
    <3>3. Goes(t, "killing") /\ UNCHANGED job
      BY <1>5, <2>3, <3>2 DEF Look
    <3>4. /\ pc'[t] = "killing" /\ job'[t] = job[t]
          /\ \A u \in Threads : u # t => pc'[u] = pc[u] /\ job'[u] = job[u]
      BY <1>0, <3>3, Moves
    <3>5. RunRight(t)' /\ BackRight(t)' /\ NoticeRight(t)'
      BY <2>3, <3>4 DEF RunRight, BackRight, NoticeRight
    <3> QED
      BY <2>1, <2>3, <3>1, <3>2, <3>4, <3>5, GoesOn DEF machine
  <2> QED
    BY <2>1, <2>2, <2>3
<1>6. CASE Flag(t)
  <2>1. /\ t = Worker /\ pc[t] = "flag" /\ job[t].op = "interrupt" /\ UNCHANGED job
        /\ UNCHANGED <<machine, stop, terminated, published>>
        /\ \E step \in {"request", "join"} : Goes(t, step)
    BY <1>6, WhoIsWhere DEF Flag
  <2> QED
    BY <1>4, <2>1
<1>7. CASE Request(t)
  <2>1. /\ t = Worker /\ pc[t] = "request" /\ job[t].op = "interrupt" /\ UNCHANGED job
        /\ UNCHANGED <<machine, stop, terminated, published>> /\ Goes(t, "join")
    BY <1>7, WhoIsWhere DEF Request, flags
  <2> QED
    BY <1>4, <2>1
<1>8. CASE Join(t)
  <2>1. /\ t = Worker /\ pc[t] = "join" /\ job[t].op = "interrupt" /\ Finishes(t)
        /\ UNCHANGED <<machine, stop, terminated, published>>
    BY <1>8, WhoIsWhere DEF Join, flags
  <2> QED
    BY <1>4, <2>1
<1>9. CASE Killing(t)
  <2>1. /\ t = Worker /\ pc[t] = "killing" /\ job[t].op = "kill" /\ Busy(t)
        /\ UNCHANGED <<position, icount, published>>
    BY <1>9, WhoIsWhere DEF Killing, machine
  <2>2. icount = position /\ published = IF terminated THEN "TERMINATED" ELSE "STOPPED"
    BY <2>1, Alone
  <2>3. CASE terminated
    <3>1. Finishes(t) /\ UNCHANGED terminated
      BY <1>9, <2>3 DEF Killing
    <3> QED
      BY <2>1, <2>2, <3>1, IsDone
  <2>4. CASE ~terminated
    <3>1. terminated' = TRUE /\ job' = [job EXCEPT ![t].exit = TRUE] /\ Goes(t, "notify")
      BY <1>9, <2>4 DEF Killing
    <3>2. /\ pc'[t] = "notify" /\ job'[t] = [job[t] EXCEPT !.exit = TRUE]
          /\ \A u \in Threads : u # t => pc'[u] = pc[u] /\ job'[u] = job[u]
      BY <1>0, <3>1, Moves
    <3>3. job'[t].op = "kill" /\ job'[t].exit = TRUE
      BY <1>0, <2>1, <3>2 DEF Jobs
    <3>4. RunRight(t)' /\ BackRight(t)' /\ NoticeRight(t)'
      BY <3>1, <3>2, <3>3 DEF RunRight, BackRight, NoticeRight
    <3> QED
      BY <2>1, <2>2, <3>2, <3>3, <3>4, GoesOn
  <2> QED
    BY <2>3, <2>4
<1> QED
  BY <1>1, <1>2, <1>3, <1>5, <1>6, <1>7, <1>8, <1>9

\* So one user who waits keeps everything where it belongs.
LEMMA NextCalm ==
  ASSUME OneUserWaits, CalmInv, [Next]_vars
  PROVE  CalmInv'
<1>1. TypeOK /\ OneHolder
  BY DEF CalmInv
<1>2. CASE Next
  <2>1. TypeOK' /\ OneHolder'
    BY <1>1, <1>2, AskType, ProceedType, AskHolder, ProceedHolder DEF Next
  <2>2. CASE \E t \in Users : Ask(t)
    BY <2>1, <2>2, WorkerAsked DEF CalmInv
  <2>3. CASE \E t \in Threads : Proceed(t)
    BY <2>1, <2>3, RunCalm, BackCalm, RestCalm DEF CalmInv, Proceed
  <2> QED
    BY <1>2, <2>2, <2>3 DEF Next
<1>3. CASE UNCHANGED vars
  BY <1>3 DEF vars, machine, flags, unicorn, CalmInv, TypeOK, OneHolder, Calm, WhoDoesWhat,
              OneBusy, Busy, ShownRunning, ShownRight, CountRight, BusyRight, RunRight,
              BackRight, NoticeRight
<1> QED
  BY <1>2, <1>3

LEMMA InitCalm == Init => CalmInv
<1> SUFFICES ASSUME Init PROVE CalmInv
  OBVIOUS
<1>1. TypeOK /\ OneHolder
  <2>1. pc \in [Threads -> Steps]
    BY DEF Init, Steps
  <2>2. job \in [Threads -> Jobs]
    BY JobsClosed DEF Init
  <2>3. position \in 0..End /\ icount \in 0..MaxICount
    BY BoundsAreNumbers DEF Init
  <2> QED
    BY <2>1, <2>2, <2>3 DEF Init, TypeOK, OneHolder, Threads, Holding
<1>2. \A t \in Threads : pc[t] \in {"idle", "dead"} /\ (t \in Runners <=> pc[t] = "dead")
  BY DEF Init
<1>3. \A t \in Threads : ~Busy(t)
  BY <1>2 DEF Busy
<1>4. WhoDoesWhat /\ ShownRunning
  BY <1>2, WhoIsWho DEF Init, WhoDoesWhat, ShownRunning
<1> QED
  BY <1>1, <1>3, <1>4
  DEF Init, CalmInv, Calm, OneBusy, ShownRight, CountRight, BusyRight

LEMMA StaysCalm == ASSUME OneUserWaits PROVE Spec => []CalmInv
<1>1. Init => CalmInv
  BY InitCalm
<1>2. CalmInv /\ [Next]_vars => CalmInv'
  BY NextCalm
<1> QED
  BY <1>1, <1>2, PTL DEF Spec

\* For one user who waits, the count of instructions is where the machine is
\* whenever nobody runs it, through any number of interrupts, faults, ends and
\* steps back (target.py, _go: "Put the machine in the state it had at
\* instruction k").
THEOREM BackLands == ASSUME OneUserWaits PROVE Spec => []Landed
<1>1. CalmInv => Landed
  <2> SUFFICES ASSUME CalmInv, ~running, \A t \in Threads : pc[t] \notin {"settle", "verdict"}
               PROVE  icount = position
    BY DEF Landed
  <2>1. \A t \in Threads : pc[t] \notin Holding
    BY DEF CalmInv, OneHolder
  <2> QED
    BY <2>1 DEF CalmInv, Calm, CountRight, Holding
<1> QED
  BY <1>1, StaysCalm, PTL

\* For the same user, what Ghidra shows when everyone is done is what the
\* target is (hooks.py, record_stop, record_continued).
THEOREM ShowsTheTarget == ASSUME OneUserWaits PROVE Spec => []ShownAsItIs
<1>1. CalmInv => ShownAsItIs
  <2> SUFFICES ASSUME CalmInv, Quiet
               PROVE  published = IF terminated THEN "TERMINATED" ELSE "STOPPED"
    BY DEF ShownAsItIs
  <2>1. \A t \in Threads : ~Busy(t)
    BY DEF Quiet, Busy
  <2> QED
    BY <2>1 DEF CalmInv, Calm, ShownRight
<1> QED
  BY <1>1, StaysCalm, PTL

\* And going back brings the target back to life, while a run ends it only
\* where the program does (methods.py, _require_reversible).
THEOREM GoingBackRevives == ASSUME OneUserWaits PROVE Spec => AliveAfterGoingBack
<1> DEFINE Alives == 
      /\ ~terminated /\ terminated' => position = End \/ \E t \in Threads : pc[t] = "killing"
      /\ \A t \in Threads : pc[t] = "notify" /\ job[t].op = "back" => ~terminated
<1>1. CalmInv /\ [Next]_vars => [Alives]_vars
  <2> SUFFICES ASSUME CalmInv, Next PROVE Alives
    OBVIOUS
  <2>1. ASSUME NEW t \in Threads, pc[t] = "notify", job[t].op = "back"
        PROVE  ~terminated
    <3>1. BackRight(t) /\ NoticeRight(t)
      BY <2>1, WhoIsWhere, Alone
    <3>2. ~job[t].exit /\ job[t].exit = terminated
      BY <2>1, <3>1 DEF BackRight, NoticeRight
    <3> QED
      BY <3>2
  <2>2. ASSUME ~terminated, terminated'
        PROVE  position = End \/ \E t \in Threads : pc[t] = "killing"
    <3>1. terminated' # terminated
      BY <2>2
    <3>2. ASSUME NEW t \in Users PROVE ~Ask(t)
      BY <3>1 DEF Ask, Resume, StepOnce, Back, Interrupt, Kill, Asked, flags
    <3>3. PICK t \in Threads : Proceed(t)
      BY <3>2 DEF Next
    <3>4. Verdict(t) \/ Advance(t) \/ Killing(t)
      BY <3>1, <3>3
      DEF Proceed, Continue, Spawn, Check, Lock, Start, Instruction, HookStops, SeesRequest,
          Leave, Settle, Notify, RLock, Restore, ReplayStart, Replay, ReplayEnds, Release,
          Look, Flag, Request, Join, flags
    <3>5. CASE Verdict(t)
      <4>1. pc[t] = "verdict"
        BY <3>5 DEF Verdict
      <4>2. RunRight(t)
        BY <4>1, WhoIsWhere, Alone
      <4>3. job[t].at = position /\ (stop = "exit" => position = End)
        BY <4>1, <4>2 DEF RunRight
      <4>4. stop = "exit" \/ job[t].at = End
        BY <2>2, <3>5 DEF Verdict
      <4> QED
        BY <4>3, <4>4
    <3>6. CASE Advance(t)
      BY <2>2, <3>6 DEF Advance
    <3>7. CASE Killing(t)
      BY <3>7 DEF Killing
    <3> QED
      BY <3>4, <3>5, <3>6, <3>7
  <2> QED
    BY <2>1, <2>2
<1>2. Spec => []CalmInv
  BY StaysCalm
<1> QED
  BY <1>1, <1>2, PTL DEF Spec, AliveAfterGoingBack
=============================================================================
