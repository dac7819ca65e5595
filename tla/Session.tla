------------------------------ MODULE Session ------------------------------
(***************************************************************************)
(* A session at the console: the commands of a script, then those typed at *)
(* the prompt, each recorded in a file that is meant to be a transcript    *)
(* and a script at once (console.py, recording.py, __main__.py).           *)
(*                                                                         *)
(* A text is what one line holds: parts with semicolons between them.      *)
(* Python is external: what it makes of a line is in its parts.            *)
(***************************************************************************)
EXTENDS Integers, Sequences, FiniteSets, SequencesExt

CONSTANTS
  Launches,              \* how it may be started: see IsLaunch
  Typed,                 \* the texts that may be typed
  Paths, BadPath,        \* the files of recordings, one of which can not be opened
  Patient,               \* whether nobody types while a stop is being reported
  None,
  MaxTyped, MaxLines     \* bounds: lines typed, lines in a recording that is told
                         \* of a stop

IsList(s) == Len(s) \in Nat /\ DOMAIN s = 1..Len(s)

\* What a part is to the console, and when it is Python, whether it is indented
\* and whether it needs more: a body and a blank line, or only a blank line.
\* What it prints is a sequence of lines, each of which is a sequence of texts:
\* Python takes more characters than a newline for the end of a line.  To record
\* fails when the file can not be opened, and to stop recording never does.
IsPart(x) ==
  /\ DOMAIN x = {"is", "text", "path", "indented", "fails", "opens", "says"}
  /\ x.is \in {"command", "record", "off", "quit", "python", "blank"}
  /\ x.text \in STRING /\ x.path \in Paths \cup {None}
  /\ x.indented \in BOOLEAN /\ x.fails \in BOOLEAN
  /\ x.opens \in {"no", "body", "blank"}
  /\ IsList(x.says)
  /\ x.is = "record" => x.path # None /\ (x.fails <=> x.path = BadPath)
  /\ x.is = "off" => ~x.fails
IsText(t) == IsList(t) /\ t # <<>> /\ \A n \in DOMAIN t : IsPart(t[n])

\* --commands and --commands-file, --batch, --record.
IsLaunch(l) ==
  /\ IsList(l.script) /\ \A n \in DOMAIN l.script : IsText(l.script[n])
  /\ l.batch \in BOOLEAN /\ l.record \in (Paths \ {BadPath}) \cup {None}

ASSUME SessionAssumption ==
  /\ \A l \in Launches : IsLaunch(l)
  /\ \A t \in Typed : IsText(t)
  /\ BadPath \in Paths /\ None \notin Paths
  /\ Patient \in BOOLEAN /\ {MaxTyped, MaxLines} \subseteq Nat

VARIABLES
  launch, phase,         \* how main was called, and where it is
  todo,                  \* what remains of the script
  buffer,                \* the lines Python has not got enough of yet
  errors, failed,        \* UnicornConsole.errors, and main's failed
  recorder,              \* the path of the open recording
  files,                 \* what is in each: lines, of one or more texts
  pending,               \* the recorder a stop from another thread will be told to
  broken,                \* whether that thread has found it closed
  typed, status,
  ran, spans, scripted   \* history variables: what was executed, the part of it
                         \* each recording covers, and the part the script had

console == <<buffer, errors, recorder, files, pending, ran, spans>>
vars == <<launch, phase, todo, failed, broken, typed, status, scripted, console>>

----------------------------------------------------------------------------
(* Texts. *)

\* Without the space around it.
Strip(text) == [n \in DOMAIN text |-> [text[n] EXCEPT !.indented = FALSE]]

\* split_commands: one command for each part, of one line or of several.
Split(text) ==
  FlattenSeq([n \in DOMAIN text |->
    IF text[n].is = "blank" THEN <<>> ELSE <<Strip(<<text[n]>>)>>])
SplitCommands(lines) == FlattenSeq([n \in DOMAIN lines |-> Split(lines[n])])

\* A line taken whole: a debugger command makes arguments of what follows it,
\* which it does not understand.
Whole(text) ==
  IF Len(text) = 1 THEN text[1]
  ELSE [text[1] EXCEPT !.fails = \E n \in DOMAIN text : text[n].fails \/ text[1].is = "command",
                       !.opens = IF @ = "no" THEN "no" ELSE "blank"]

\* What the interpreter says to one more line: run it all, wait, or an error.
Feed(waiting, w) ==
  IF waiting = <<>>
  THEN IF w.indented THEN "error" ELSE IF w.opens = "no" THEN "run" ELSE "more"
  ELSE IF w.is = "blank"
       THEN IF waiting[1].opens = "blank" \/ Len(waiting) > 1 THEN "run" ELSE "more"
       ELSE IF w.indented /\ waiting[1].opens = "body" THEN "more" ELSE "error"

Texts(text) == [n \in DOMAIN text |-> text[n].text]

\* The statements of a line that are executed: up to the first that fails.
Statements(text) ==
  LET fine(n) == \A m \in 1..(n - 1) : ~text[m].fails
      upto == Cardinality({n \in DOMAIN text : fine(n)})
  IN  IF text[1].is = "blank" THEN <<>> ELSE [n \in 1..upto |-> <<text[n].text>>]

OneIf(b) == IF b THEN 1 ELSE 0

\* UnicornConsole.push of anything but quit: a debugger command is executed
\* whatever Python is waiting for.  s has the buffer, the errors and what ran.
Pushed(s, text) ==
  LET w == Whole(text)
      answer == Feed(s.buffer, w)
      block == Append(s.buffer, w)
  IN  IF w.is \notin {"python", "blank"}
      THEN [s EXCEPT !.ran = Append(@, Texts(text)), !.errors = @ + OneIf(w.fails)]
      ELSE CASE answer = "more" ->
                  IF w.is = "blank" THEN s ELSE [s EXCEPT !.buffer = block]
             [] answer = "error" -> [s EXCEPT !.buffer = <<>>, !.errors = @ + 1]
             [] OTHER ->
                  [buffer |-> <<>>,
                   errors |-> s.errors + OneIf(\E n \in DOMAIN block : block[n].fails),
                   ran |-> s.ran \o (IF s.buffer = <<>> THEN Statements(text)
                                     ELSE <<[n \in DOMAIN block |-> block[n].text]>>)]

----------------------------------------------------------------------------
(* The recording. *)

Comment(texts) == [comment |-> TRUE, texts |-> texts]
Plain(text) == [comment |-> FALSE, texts |-> <<Strip(text)>>]

\* SessionRecorder.command
Command(f, text) ==
  IF recorder = None \/ Whole(text).is = "blank" THEN f
  ELSE [f EXCEPT ![recorder] = Append(@, Plain(text))]

\* SessionRecorder.output, of what UnicornConsole.write is given.
Output(f, to, says) ==
  IF to = None THEN f
  ELSE [f EXCEPT ![to] = @ \o [n \in DOMAIN says |-> Comment(says[n])]]

\* _header, and close with its last lines: nothing but comments.
Header == <<Comment(<<>>)>>

\* What a recording is when it is read again: what follows a line break of any
\* kind is a line.
ReadBack(f) ==
  SplitCommands(FlattenSeq([n \in DOMAIN f |->
    IF f[n].comment THEN IF f[n].texts = <<>> THEN <<>> ELSE Tail(f[n].texts)
    ELSE f[n].texts]))

\* stop_recording leaves a recorder that may still be told of a stop.
Closed == IF pending = "open" THEN "closed" ELSE pending
Ended(sp) == IF recorder = None THEN sp ELSE [sp EXCEPT ![recorder].to = Len(ran')]

----------------------------------------------------------------------------
(* The console. *)

State == [buffer |-> buffer, errors |-> errors, ran |-> ran]

\* start_recording closes the recording there is before it opens the next.
StartRecording(f, path) ==
  IF path = BadPath
  THEN /\ errors' = errors + 1 /\ recorder' = None
       /\ files' = f /\ spans' = Ended(spans)
  ELSE /\ errors' = errors /\ recorder' = path
       /\ files' = [f EXCEPT ![path] = Header]
       /\ spans' = [Ended(spans) EXCEPT ![path] = [from |-> Len(ran'), to |-> -1]]

\* Mutant: a command is recorded once it has been carried out.
PushLate(text) ==
  LET w == Whole(text)
      after == Pushed(State, text)
  IN  /\ buffer' = after.buffer /\ ran' = after.ran
      /\ CASE w.is = "record" -> StartRecording(files, w.path) /\ pending' = Closed
           [] w.is = "off" -> /\ recorder' = None /\ spans' = Ended(spans) /\ pending' = Closed
                              /\ UNCHANGED <<errors, files>>
           [] OTHER -> /\ errors' = after.errors
                       /\ files' = Command(Output(files, recorder, w.says), text)
                       /\ UNCHANGED <<recorder, spans, pending>>

\* push of anything but quit: record it, carry it out, record what it says.
Push(text) ==
  LET w == Whole(text)
      after == Pushed(State, text)
      noted == Command(files, text)
  IN  /\ buffer' = after.buffer /\ ran' = after.ran
      /\ CASE w.is = "record" -> StartRecording(noted, w.path) /\ pending' = Closed
           [] w.is = "off" -> /\ recorder' = None /\ spans' = Ended(spans) /\ pending' = Closed
                              /\ files' = noted /\ UNCHANGED errors
           [] OTHER -> /\ errors' = after.errors
                       /\ files' = Output(noted, recorder, w.says)
                       /\ UNCHANGED <<recorder, spans, pending>>

Quits(text) == Whole(text).is = "quit"

\* q is recorded too, and nothing else happens.
Quit(text) ==
  /\ files' = Command(files, text)
  /\ UNCHANGED <<buffer, errors, recorder, pending, ran, spans>>

\* One command of run_script.  q ends the script, not the run.
Script ==
  /\ phase = "script" /\ todo # <<>>
  /\ IF Quits(Head(todo)) THEN Quit(Head(todo)) /\ todo' = <<>>
     ELSE Push(Head(todo)) /\ todo' = Tail(todo)
  /\ UNCHANGED <<launch, phase, failed, broken, typed, status, scripted>>

\* Mutant: what Python is waiting for is forgotten.
EndScriptAnyway ==
  /\ phase = "script" /\ todo = <<>>
  /\ buffer' = <<>> /\ failed' = errors
  /\ phase' = IF launch.batch THEN "leaving" ELSE "prompt"
  /\ scripted' = Len(ran)
  /\ UNCHANGED <<launch, todo, errors, recorder, files, pending, broken, typed, status, ran, spans>>

\* The end of run_script: a script that ends in the middle of something fails.
EndScript ==
  /\ phase = "script" /\ todo = <<>>
  /\ buffer' = <<>> /\ errors' = errors + OneIf(buffer # <<>>)
  /\ files' = Output(files, recorder, IF buffer # <<>> THEN << <<>> >> ELSE <<>>)
  /\ failed' = errors'
  /\ phase' = IF launch.batch THEN "leaving" ELSE "prompt"
  /\ scripted' = Len(ran)
  /\ UNCHANGED <<launch, todo, recorder, pending, broken, typed, status, ran, spans>>

Type(text) ==
  /\ phase = "prompt" /\ typed < MaxTyped
  /\ Patient => pending = None
  /\ IF Quits(text) THEN Quit(text) /\ phase' = "leaving"
     ELSE Push(text) /\ UNCHANGED phase
  /\ typed' = typed + 1
  /\ UNCHANGED <<launch, todo, failed, broken, status, scripted>>

\* Ctrl-D.
EndOfFile ==
  /\ phase = "prompt" /\ phase' = "leaving"
  /\ UNCHANGED <<launch, todo, failed, broken, typed, status, scripted, console>>

\* main: stop_recording, and the exit status.
Leave ==
  /\ phase = "leaving" /\ phase' = "exited"
  /\ recorder' = None /\ pending' = Closed
  /\ status' = IF failed > 0 THEN 1 ELSE 0
  /\ UNCHANGED ran /\ spans' = Ended(spans)
  /\ UNCHANGED <<launch, todo, failed, broken, typed, scripted, buffer, errors, files>>

----------------------------------------------------------------------------
(* A stop of a run that Ghidra started, on the thread of that run: _notify *)
(* goes through a copy of the listeners.                                   *)

Capture ==
  /\ phase = "prompt" /\ pending = None /\ recorder # None
  /\ Len(files[recorder]) <= MaxLines
  /\ pending' = "open"
  /\ UNCHANGED <<launch, phase, todo, failed, broken, typed, status, scripted,
                 buffer, errors, recorder, files, ran, spans>>

\* _on_stop: a note, unless the file has been closed since.
Deliver ==
  /\ pending # None /\ pending' = None
  /\ IF pending = "open"
     THEN files' = [files EXCEPT ![recorder] = Append(@, Comment(<<>>))] /\ UNCHANGED broken
     ELSE broken' = TRUE /\ UNCHANGED files
  /\ UNCHANGED <<launch, phase, todo, failed, typed, status, scripted,
                 buffer, errors, recorder, ran, spans>>

----------------------------------------------------------------------------

Init ==
  /\ launch \in Launches /\ phase = "script"
  /\ todo = SplitCommands(launch.script)
  /\ buffer = <<>> /\ errors = 0 /\ failed = 0
  /\ recorder = launch.record
  /\ files = [p \in Paths |-> IF p = launch.record THEN Header ELSE <<>>]
  /\ spans = [p \in Paths |-> [from |-> 0, to |-> IF p = launch.record THEN -1 ELSE 0]]
  /\ pending = None /\ broken = FALSE /\ typed = 0 /\ status = None
  /\ ran = <<>> /\ scripted = -1

Next ==
  \/ Script \/ EndScript
  \/ \E text \in Typed : Type(text)
  \/ EndOfFile \/ Leave
  \/ Capture \/ Deliver
  \/ phase = "exited" /\ pending = None /\ UNCHANGED vars

Spec == Init /\ [][Next]_vars

----------------------------------------------------------------------------
(* Properties. *)

UntilQuit(texts) ==
  LET quits == {n \in DOMAIN texts : Quits(texts[n])}
  IN  IF quits = {} THEN texts
      ELSE SubSeq(texts, 1, (CHOOSE n \in quits : \A m \in quits : n <= m) - 1)

\* What a script makes of a console that has just been started.
Replayed(texts) ==
  LET fresh == [buffer |-> <<>>, errors |-> 0, ran |-> <<>>]
      after[n \in 0..Len(texts)] ==
        IF n = 0 THEN fresh ELSE Pushed(after[n - 1], texts[n])
  IN  after[Len(texts)]

\* A recording, whenever it is read, is a script that does what was done while
\* it was recorded: the same commands in the same order, nothing of what was
\* printed among them, nothing missing (recording.py, "the recording is already
\* a valid command file"; README.md:397).
Replays ==
  \A p \in Paths :
    LET span == spans[p]
        done == SubSeq(ran, span.from + 1, IF span.to = -1 THEN Len(ran) ELSE span.to)
    IN  Replayed(UntilQuit(ReadBack(files[p]))).ran = done

\* The exit status is 0 only for a script of which everything up to q was
\* carried out and nothing failed, and then always (run_script, "which must
\* not pass for success").
StatusTells ==
  phase = "exited" =>
    LET meant == UntilQuit(SplitCommands(launch.script))
    IN  status = 0 <=> /\ SubSeq(ran, 1, scripted) = [n \in DOMAIN meant |-> Texts(meant[n])]
                       /\ \A n \in DOMAIN meant : ~Whole(meant[n]).fails

\* The exit status is the number of commands that failed (__main__.py:97).
StatusCounts == phase = "exited" => status = failed

\* No stop is told to a recording that has been closed (SessionRecorder.close
\* takes itself off the listeners first).
NeverTooLate == ~broken
=============================================================================
