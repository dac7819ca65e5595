----------------------------- MODULE MCSession -----------------------------
(***************************************************************************)
(* Commands, Python and sessions for checking Session.                     *)
(***************************************************************************)
EXTENDS Session

CONSTANTS fileA, fileB, bad

MCPaths == {fileA, fileB, bad}

Part(is, text) ==
  [is |-> is, text |-> text, path |-> None, indented |-> FALSE, opens |-> "no",
   fails |-> FALSE, says |-> << <<>> >>]

Continue == <<Part("command", "c")>>
Wrong == <<[Part("command", "b nowhere") EXCEPT !.fails = TRUE]>>
Record(p) == <<[Part("record", "record") EXCEPT !.path = p, !.fails = p = bad]>>
Off == <<Part("off", "record off")>>
Q == <<Part("quit", "q")>>
Python == <<[Part("python", "x = 1") EXCEPT !.says = <<>>]>>
Blank == <<Part("blank", "")>>

\* A loop over two lines, and one on one line.
Loop == <<[Part("python", "for i in r:") EXCEPT !.opens = "body"]>>
Body == <<[Part("python", "target.step()") EXCEPT !.indented = TRUE]>>
OneLoop == <<[Part("python", "for i in r: target.step()") EXCEPT !.opens = "blank"]>>

\* Two commands on a line.
Both == <<Part("command", "b main"), Part("command", "c")>>

\* A failure whose message has a carriage return in it.
Returning == <<[Part("python", "fail()") EXCEPT !.fails = TRUE,
                  !.says = << <<Wrong, Continue>> >>]>>

Start(script, batch, record) == [script |-> script, batch |-> batch, record |-> record]

NoScript == {Start(<<>>, FALSE, None), Start(<<>>, FALSE, fileA)}

\* Scripts that go wrong are run as a batch, where nothing follows them, and start
\* no recording while Python waits for more.
MCLaunches ==
  NoScript
  \cup {Start(<<Python, Both>>, FALSE, r) : r \in {None, fileA}}
  \cup {Start(s, TRUE, fileA) :
          s \in [1..3 -> {Continue, Wrong, Python, Loop, Body, OneLoop, Both, Q, Off}]}
  \cup {Start(s, TRUE, fileA) : s \in [1..3 -> {Continue, Wrong, Python, Record(fileB), Off, Q}]}

MCTyped == {Continue, Wrong, Record(fileA), Record(fileB), Record(bad), Off, Q, Python, Blank}

WithBlocks == {Loop, Body, Blank, OneLoop, Python}
WithBoth == {Both, Continue}
WithReturn == {Returning, Python}
WithScripts == {Start(<<Continue, Q>>, FALSE, fileA)}
Failing == {Start(<<Wrong, Wrong>>, TRUE, None)}
=============================================================================
