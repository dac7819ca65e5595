--------------------------- MODULE ConsoleProofs ---------------------------
(***************************************************************************)
(* What a user is told and given.  That the exit status of a session tells *)
(* whether its script was carried out (Session), for every script and      *)
(* whatever is typed afterwards; and that a recording does what was done   *)
(* while it was made, for scripts and lines that can be recorded.  Of what *)
(* MCTables composes, for every content of the tables: that the trace is   *)
(* the target, that names describe addresses, that coverage and provenance *)
(* say what ran and what was read, that a context is loaded as it says,    *)
(* and that two engines are stopped where they first disagree.             *)
(***************************************************************************)
EXTENDS Session, MCTables, Sums, SequenceTheorems

\* The commands a script is split into: one part each, without the space around
\* it, and none is blank.
CommandsOf(script) ==
  UNION {{Strip(<<script[n][m]>>) : m \in {k \in DOMAIN script[n] : script[n][k].is # "blank"}} :
           n \in DOMAIN script}

IsCommand(t) ==
  /\ t = <<t[1]>> /\ IsPart(t[1]) /\ ~ t[1].indented /\ t[1].is # "blank"

LEMMA CommandsAre ==
  ASSUME NEW script, IsList(script), \A n \in DOMAIN script : IsText(script[n]),
         NEW t \in CommandsOf(script)
  PROVE  IsCommand(t)
<1>a. PICK n \in DOMAIN script : \E m \in DOMAIN script[n] :
        t = Strip(<<script[n][m]>>) /\ script[n][m].is # "blank"
  BY DEF CommandsOf
<1>1. PICK m \in DOMAIN script[n] : t = Strip(<<script[n][m]>>) /\ script[n][m].is # "blank"
  BY <1>a
<1>2. PICK p : p = script[n][m]
  OBVIOUS
<1>3. IsPart(p) /\ p.is # "blank"
  BY <1>1, <1>2 DEF IsText
<1>4. PICK q : q = [p EXCEPT !.indented = FALSE]
  OBVIOUS
<1>5. t = <<q>>
  <2>1. t = [i \in 1..1 |-> [<<p>>[i] EXCEPT !.indented = FALSE]]
    BY <1>1, <1>2 DEF Strip
  <2>2. \A i \in 1..1 : <<p>>[i] = p
    OBVIOUS
  <2>3. t = [i \in 1..1 |-> q]
    BY <1>4, <2>1, <2>2
  <2> QED BY <2>3
<1>6. IsPart(q) /\ ~ q.indented /\ q.is # "blank"
  <2>1. /\ DOMAIN q = DOMAIN p /\ q["indented"] = FALSE
        /\ \A x \in DOMAIN p \ {"indented"} : q[x] = p[x]
    BY <1>3, <1>4 DEF IsPart
  <2> QED BY <1>3, <2>1 DEF IsPart
<1> QED
  BY <1>5, <1>6 DEF IsCommand

\* A script is split into commands.
LEMMA SplitIs ==
  ASSUME NEW script, IsList(script), \A n \in DOMAIN script : IsText(script[n])
  PROVE  SplitCommands(script) \in Seq(CommandsOf(script))
<1> DEFINE C == CommandsOf(script)
           parts(n) == [m \in DOMAIN script[n] |->
                          IF script[n][m].is = "blank" THEN <<>> ELSE <<Strip(<<script[n][m]>>)>>]
<1>1. ASSUME NEW n \in DOMAIN script PROVE Split(script[n]) \in Seq(C)
  <2>1. Len(script[n]) \in Nat /\ DOMAIN script[n] = 1..Len(script[n])
    BY DEF IsText, IsList
  <2>2. ASSUME NEW m \in DOMAIN script[n]
        PROVE  (IF script[n][m].is = "blank" THEN <<>> ELSE <<Strip(<<script[n][m]>>)>>) \in Seq(C)
    <3>1. CASE script[n][m].is = "blank"
      BY <3>1
    <3>2. CASE script[n][m].is # "blank"
      <4>1. Strip(<<script[n][m]>>) \in C
        BY <3>2 DEF CommandsOf
      <4> HIDE DEF C
      <4> QED BY <3>2, <4>1
    <3> QED BY <3>1, <3>2
  <2> HIDE DEF C
  <2>3. parts(n) \in [1..Len(script[n]) -> Seq(C)]
    BY <2>1, <2>2
  <2>4. Split(script[n]) = FlattenSeq(parts(n))
    BY DEF Split
  <2> HIDE DEF parts
  <2>5. parts(n) \in Seq(Seq(C))
    BY <2>1, <2>3, SeqDef
  <2> QED BY <2>4, <2>5, FlattenTyped
<1> DEFINE all == [n \in DOMAIN script |-> Split(script[n])]
<1> HIDE DEF C
<1>2. all \in [1..Len(script) -> Seq(C)] /\ Len(script) \in Nat
  BY <1>1 DEF IsList
<1>3. SplitCommands(script) = FlattenSeq(all)
  BY DEF SplitCommands
<1> HIDE DEF all
<1>4. all \in Seq(Seq(C))
  BY <1>2, SeqDef
<1> QED
  BY <1>3, <1>4, FlattenTyped DEF C

\* What comes before the first q.
LEMMA UntilIs ==
  ASSUME NEW S, NEW texts \in Seq(S)
  PROVE  /\ UntilQuit(texts) \in Seq(S)
         /\ Len(UntilQuit(texts)) <= Len(texts)
         /\ \A n \in 1..Len(UntilQuit(texts)) : UntilQuit(texts)[n] = texts[n] /\ ~ Quits(texts[n])
         /\ Len(UntilQuit(texts)) < Len(texts) => Quits(texts[Len(UntilQuit(texts)) + 1])
<1> DEFINE quits == {n \in DOMAIN texts : Quits(texts[n])}
           u == UntilQuit(texts)
<1>0. DOMAIN texts = 1..Len(texts) /\ Len(texts) \in Nat
  OBVIOUS
<1>1. CASE quits = {}
  <2>1. u = texts
    BY <1>1 DEF UntilQuit
  <2>2. \A n \in DOMAIN texts : ~ Quits(texts[n])
    BY <1>1
  <2> HIDE DEF u, quits
  <2>3. Len(u) = Len(texts) /\ \A n \in 1..Len(u) : u[n] = texts[n] /\ ~ Quits(texts[n])
    BY <1>0, <2>1, <2>2
  <2> QED BY <1>0, <2>1, <2>3 DEF u
<1>2. CASE quits # {}
  <2>1. quits \in SUBSET Nat
    BY <1>0
  <2>2. \E n \in quits : \A m \in quits : n <= m
    <3> HIDE DEF quits
    <3> QED BY <1>2, <2>1, LeastOf
  <2>3. PICK n \in quits : /\ n = (CHOOSE k \in quits : \A m \in quits : k <= m)
                           /\ \A m \in quits : n <= m
    BY <2>2
  <2>4. u = SubSeq(texts, 1, n - 1)
    BY <1>2, <2>3 DEF UntilQuit
  <2>5. n \in 1..Len(texts) /\ Quits(texts[n])
    BY <1>0, <2>3
  <2>6. ASSUME NEW m \in 1..(n - 1) PROVE ~ Quits(texts[m])
    <3>1. m \in DOMAIN texts /\ ~ (n <= m)
      BY <1>0, <2>5
    <3> QED BY <2>3, <3>1
  <2> HIDE DEF u, quits
  <2>7. u \in Seq(S) /\ Len(u) = n - 1 /\ \A m \in 1..(n - 1) : u[m] = texts[m]
    BY <2>4, <2>5, SubSeqProperties
  <2>8. Len(u) + 1 = n
    BY <2>5, <2>7
  <2> QED BY <2>5, <2>6, <2>7, <2>8 DEF u
<1> QED
  BY <1>1, <1>2

----------------------------------------------------------------------------
(* The invariant. *)

\* What may be pushed, by the script or at the prompt, and what of it Python
\* may be waiting with.
Pushable == Typed \cup UNION {CommandsOf(l.script) : l \in Launches}
Words == {Whole(t) : t \in Pushable}

SessionType ==
  /\ launch \in Launches /\ phase \in {"script", "prompt", "leaving", "exited"}
  /\ buffer \in Seq(Words) /\ errors \in Nat /\ ran \in Seq(Seq(STRING))

All == SplitCommands(launch.script)
Meant == UntilQuit(All)

\* The script has come to its k-th command.
Reached(k) ==
  \/ todo = SubSeq(All, k + 1, Len(All))
  \/ todo = <<>> /\ k = Len(Meant)

\* What has been executed is the first k commands, unless the errors or what
\* Python waits for tell, and they tell only of what was not executed or failed.
Faithful(k) ==
  /\ Len(ran) <= k /\ (buffer # <<>> => Len(ran) < k)
  /\ errors = 0 /\ buffer = <<>> =>
       /\ Len(ran) = k
       /\ \A n \in 1..k : ran[n] = Texts(Meant[n]) /\ ~ Whole(Meant[n]).fails
  /\ errors # 0 => Len(ran) < k \/ \E n \in 1..k : Whole(Meant[n]).fails

CarriedOut ==
  /\ SubSeq(ran, 1, scripted) = [n \in DOMAIN Meant |-> Texts(Meant[n])]
  /\ \A n \in DOMAIN Meant : ~ Whole(Meant[n]).fails

\* The inductive invariant of a script and of what is typed after it.
SessionInv ==
  /\ SessionType
  /\ phase = "script" => \E k \in 0..Len(Meant) : Reached(k) /\ Faithful(k)
  /\ phase # "script" =>
       scripted \in 0..Len(ran) /\ failed \in Nat /\ (failed = 0 <=> CarriedOut)
  /\ phase = "exited" => status = IF failed > 0 THEN 1 ELSE 0

\* The script, and what of it is meant.
LEMMA MeantIs ==
  ASSUME launch \in Launches
  PROVE  /\ All \in Seq(CommandsOf(launch.script)) /\ Len(All) \in Nat
         /\ Meant \in Seq(CommandsOf(launch.script)) /\ Len(Meant) \in Nat
         /\ DOMAIN Meant = 1..Len(Meant)
         /\ Len(Meant) <= Len(All)
         /\ \A n \in 1..Len(Meant) : Meant[n] = All[n] /\ ~ Quits(All[n])
         /\ Len(Meant) < Len(All) => Quits(All[Len(Meant) + 1])
         /\ \A n \in 1..Len(All) : IsCommand(All[n]) /\ All[n] \in Pushable
<1>1. IsList(launch.script) /\ \A n \in DOMAIN launch.script : IsText(launch.script[n])
  BY SessionAssumption DEF IsLaunch
<1> DEFINE S == CommandsOf(launch.script)
<1>2. \A t \in S : IsCommand(t) /\ t \in Pushable
  <2>1. \A t \in S : IsCommand(t)
    BY <1>1, CommandsAre
  <2> QED BY <2>1 DEF Pushable
<1> HIDE DEF S
<1>3. All \in Seq(S)
  BY <1>1, SplitIs DEF All, S
<1>4. /\ Len(All) \in Nat /\ \A n \in 1..Len(All) : All[n] \in S
  BY <1>3
<1>5. /\ Meant \in Seq(S) /\ Len(Meant) <= Len(All)
      /\ \A n \in 1..Len(Meant) : Meant[n] = All[n] /\ ~ Quits(All[n])
      /\ Len(Meant) < Len(All) => Quits(All[Len(Meant) + 1])
  BY <1>3, UntilIs DEF Meant
<1>6. Len(Meant) \in Nat /\ DOMAIN Meant = 1..Len(Meant)
  BY <1>5
<1> QED
  BY <1>2, <1>3, <1>4, <1>5, <1>6 DEF S

LEMMA CommandIs ==
  ASSUME NEW t, IsCommand(t)
  PROVE  /\ Len(t) = 1 /\ DOMAIN t = 1..1 /\ Whole(t) = t[1]
         /\ t[1].is \in {"command", "record", "off", "quit", "python"}
         /\ t[1].text \in STRING /\ ~ t[1].indented /\ t[1].fails \in BOOLEAN
         /\ t[1].is = "record" => (t[1].fails <=> t[1].path = BadPath)
         /\ t[1].is = "off" => ~ t[1].fails
<1>1. PICK p : t = <<p>> /\ p = t[1]
  BY DEF IsCommand
<1>2. Len(t) = 1 /\ DOMAIN t = 1..1
  BY <1>1
<1>3. Whole(t) = t[1]
  BY <1>2 DEF Whole
<1> QED
  BY <1>2, <1>3 DEF IsCommand, IsPart

\* Whatever is pushed has a text.
LEMMA PushableIs ==
  ASSUME NEW t \in Pushable
  PROVE  /\ Len(t) \in Nat \ {0} /\ DOMAIN t = 1..Len(t)
         /\ \A n \in DOMAIN t : t[n].text \in STRING
         /\ Whole(t) \in Words /\ Whole(t).text \in STRING
<1>1. /\ Len(t) \in Nat \ {0} /\ DOMAIN t = 1..Len(t) /\ \A n \in DOMAIN t : IsPart(t[n])
  <2>1. CASE t \in Typed
    BY <2>1, SessionAssumption DEF IsText, IsList
  <2>2. CASE t \notin Typed
    <3>1. PICK l \in Launches : t \in CommandsOf(l.script)
      BY <2>2 DEF Pushable
    <3>2. IsList(l.script) /\ \A n \in DOMAIN l.script : IsText(l.script[n])
      BY SessionAssumption DEF IsLaunch
    <3>3. IsCommand(t)
      BY <3>1, <3>2, CommandsAre
    <3>4. Len(t) = 1 /\ DOMAIN t = 1..1 /\ IsPart(t[1])
      BY <3>3, CommandIs DEF IsCommand
    <3>5. \A n \in 1..1 : n = 1
      OBVIOUS
    <3> QED BY <3>4, <3>5
  <2> QED BY <2>1, <2>2
<1>2. \A n \in DOMAIN t : t[n].text \in STRING
  BY <1>1 DEF IsPart
<1>3. Whole(t) \in Words
  BY DEF Words
<1>4. Whole(t).text \in STRING
  <2>1. 1 \in DOMAIN t
    BY <1>1
  <2>2. CASE Len(t) = 1
    BY <1>2, <2>1, <2>2 DEF Whole
  <2>3. CASE Len(t) # 1
    <3>1. PICK p : p = t[1]
      OBVIOUS
    <3>2. IsPart(p) /\ p.text \in STRING
      BY <1>1, <1>2, <2>1, <3>1
    <3>3. Whole(t) = [p EXCEPT !.fails = \E n \in DOMAIN t : t[n].fails \/ p.is = "command",
                               !.opens = IF @ = "no" THEN "no" ELSE "blank"]
      BY <2>3, <3>1 DEF Whole
    <3>4. Whole(t)["text"] = p["text"]
      BY <3>2, <3>3 DEF IsPart
    <3> QED BY <3>2, <3>4
  <2> QED BY <2>2, <2>3
<1> QED
  BY <1>1, <1>2, <1>3, <1>4

----------------------------------------------------------------------------
(* What pushing does. *)

LEMMA WordsAre == ASSUME NEW w \in Words PROVE w.text \in STRING
BY PushableIs DEF Words

\* What a console has to do with Python.
IsConsole(s) ==
  /\ s = [buffer |-> s.buffer, errors |-> s.errors, ran |-> s.ran]
  /\ s.buffer \in Seq(Words) /\ s.errors \in Nat /\ s.ran \in Seq(Seq(STRING))

Block(b, t) == Append(b, Whole(t))

\* What Python waits with after a text, and what has been executed then: it
\* depends on what it was waiting with.
Left(b, t) ==
  IF Whole(t).is \notin {"python", "blank"} THEN b
  ELSE IF Feed(b, Whole(t)) # "more" THEN <<>>
  ELSE IF Whole(t).is = "blank" THEN b ELSE Block(b, t)

Done(b, t) ==
  IF Whole(t).is \notin {"python", "blank"} THEN <<Texts(t)>>
  ELSE IF Feed(b, Whole(t)) \in {"more", "error"} THEN <<>>
  ELSE IF b = <<>> THEN Statements(t)
  ELSE <<[n \in DOMAIN Block(b, t) |-> Block(b, t)[n].text]>>

LEMMA StatementsAre == ASSUME NEW t \in Pushable PROVE Statements(t) \in Seq(Seq(STRING))
<1>1. CASE t[1].is = "blank"
  BY <1>1 DEF Statements
<1>2. CASE t[1].is # "blank"
  <2> DEFINE fine(n) == \A m \in 1..(n - 1) : ~ t[m].fails
             F == {n \in DOMAIN t : fine(n)}
  <2>1. IsFiniteSet(DOMAIN t) /\ Cardinality(DOMAIN t) = Len(t) /\ Len(t) \in Nat
    BY PushableIs, FS_Interval
  <2>2. F \subseteq DOMAIN t
    OBVIOUS
  <2> HIDE DEF F
  <2>3. Cardinality(F) \in Nat /\ Cardinality(F) <= Len(t)
    BY <2>1, <2>2, FS_Subset, FS_CardinalityType
  <2>4. Statements(t) = [n \in 1..Cardinality(F) |-> <<t[n].text>>]
    BY <1>2 DEF Statements, F
  <2>5. \A n \in 1..Cardinality(F) : t[n].text \in STRING
    BY <2>3, PushableIs
  <2>6. Statements(t) \in [1..Cardinality(F) -> Seq(STRING)]
    BY <2>4, <2>5
  <2> QED BY <2>3, <2>6, SeqDef
<1> QED
  BY <1>1, <1>2

LEMMA DoneIs ==
  ASSUME NEW b \in Seq(Words), NEW t \in Pushable
  PROVE  Left(b, t) \in Seq(Words) /\ Done(b, t) \in Seq(Seq(STRING))
<1>1. PICK w \in Words : w = Whole(t)
  BY PushableIs
<1>a. Append(b, w) \in Seq(Words)
  OBVIOUS
<1>2. PICK block \in Seq(Words) : block = Block(b, t)
  BY <1>1, <1>a DEF Block
<1>3. Left(b, t) \in Seq(Words)
  BY <1>2 DEF Left
<1>4. Texts(t) \in Seq(STRING)
  <2>1. Texts(t) \in [1..Len(t) -> STRING] /\ Len(t) \in Nat
    BY PushableIs DEF Texts
  <2> QED BY <2>1, SeqDef
<1>5. PICK texts : texts = [n \in DOMAIN block |-> block[n].text]
  OBVIOUS
<1>6. texts \in Seq(STRING)
  <2>1. Len(block) \in Nat /\ DOMAIN block = 1..Len(block) /\ \A n \in DOMAIN block : block[n] \in Words
    BY <1>2
  <2>2. texts \in [1..Len(block) -> STRING]
    BY <1>5, <2>1, WordsAre
  <2> QED BY <2>1, <2>2, SeqDef
<1>7. Done(b, t) \in {<<Texts(t)>>, <<>>, Statements(t), <<texts>>}
  BY <1>2, <1>5 DEF Done
<1>8. \A x \in Seq(STRING) : <<x>> \in Seq(Seq(STRING))
  OBVIOUS
<1>9. <<>> \in Seq(Seq(STRING))
  OBVIOUS
<1> QED
  BY <1>3, <1>4, <1>6, <1>7, <1>8, <1>9, StatementsAre

LEMMA PushedIs ==
  ASSUME NEW s, IsConsole(s), NEW t \in Pushable
  PROVE  LET after == Pushed(s, t) IN
         /\ IsConsole(after) /\ after.buffer = Left(s.buffer, t)
         /\ after.ran = s.ran \o Done(s.buffer, t)
<1>0. PICK b \in Seq(Words) : b = s.buffer
  BY DEF IsConsole
<1>1. PICK e \in Nat : e = s.errors
  BY DEF IsConsole
<1>2. PICK r \in Seq(Seq(STRING)) : r = s.ran
  BY DEF IsConsole
<1>3. s = [buffer |-> b, errors |-> e, ran |-> r]
  BY <1>0, <1>1, <1>2 DEF IsConsole
<1>4. PICK w : w = Whole(t)
  OBVIOUS
<1>5. PICK answer : answer = Feed(b, w)
  OBVIOUS
<1>6. PICK block : block = Block(b, t)
  OBVIOUS
<1>7. block = Append(b, w)
  BY <1>4, <1>6 DEF Block
<1>8. PICK done \in Seq(Seq(STRING)) : done = Done(b, t)
  BY DoneIs
<1>9. Left(b, t) \in Seq(Words)
  BY DoneIs
<1>10. PICK after : after = Pushed(s, t)
  OBVIOUS
<1>11. SUFFICES \E n \in Nat : after = [buffer |-> Left(b, t), errors |-> n, ran |-> r \o done]
  <2>1. PICK all \in Seq(Seq(STRING)) : all = r \o done
    BY ConcatProperties
  <2>2. PICK left \in Seq(Words) : left = Left(b, t)
    BY <1>9
  <2>3. PICK n \in Nat : after = [buffer |-> left, errors |-> n, ran |-> all]
    BY <1>11, <2>1, <2>2
  <2>4. IsConsole(after) /\ after.buffer = left /\ after.ran = all
    BY <2>3 DEF IsConsole
  <2> QED BY <1>0, <1>2, <1>8, <1>10, <2>1, <2>2, <2>4
<1>12. \A c : e + OneIf(c) \in Nat
  BY DEF OneIf
<1>13. r \o <<>> = r
  OBVIOUS
<1>14. CASE w.is \notin {"python", "blank"}
  <2>1. PICK texts : texts = Texts(t)
    OBVIOUS
  <2>2. done = <<texts>> /\ Left(b, t) = b
    BY <1>4, <1>8, <1>14, <2>1 DEF Done, Left
  <2>3. Append(r, texts) = r \o <<texts>>
    OBVIOUS
  <2>4. after = [buffer |-> b, errors |-> e + OneIf(w.fails), ran |-> Append(r, texts)]
    BY <1>3, <1>4, <1>10, <1>14, <2>1 DEF Pushed
  <2>5. PICK n \in Nat : n = e + OneIf(w.fails)
    BY <1>12
  <2>6. after = [buffer |-> Left(b, t), errors |-> n, ran |-> r \o done]
    BY <2>2, <2>3, <2>4, <2>5
  <2> QED BY <2>6
<1>15. CASE w.is \in {"python", "blank"} /\ answer = "more"
  <2>1. done = <<>> /\ Left(b, t) = IF w.is = "blank" THEN b ELSE block
    BY <1>4, <1>5, <1>6, <1>8, <1>15 DEF Done, Left
  <2>2. after = [buffer |-> IF w.is = "blank" THEN b ELSE block, errors |-> e, ran |-> r]
    BY <1>3, <1>4, <1>5, <1>7, <1>10, <1>15 DEF Pushed
  <2>4. r \o done = r
    BY <1>13, <2>1
  <2>5. after = [buffer |-> Left(b, t), errors |-> e, ran |-> r \o done]
    BY <2>1, <2>2, <2>4
  <2> QED BY <2>5
<1>16. CASE w.is \in {"python", "blank"} /\ answer = "error"
  <2>1. done = <<>> /\ Left(b, t) = <<>>
    BY <1>4, <1>5, <1>8, <1>16 DEF Done, Left
  <2>2. after = [buffer |-> <<>>, errors |-> e + 1, ran |-> r]
    BY <1>3, <1>4, <1>5, <1>10, <1>16 DEF Pushed
  <2>3. PICK n \in Nat : n = e + 1
    OBVIOUS
  <2>4. r \o done = r
    BY <1>13, <2>1
  <2>5. after = [buffer |-> Left(b, t), errors |-> n, ran |-> r \o done]
    BY <2>1, <2>2, <2>3, <2>4
  <2> QED BY <2>5
<1>17. CASE w.is \in {"python", "blank"} /\ answer # "more" /\ answer # "error"
  <2>1. /\ done = (IF b = <<>> THEN Statements(t) ELSE <<[n \in DOMAIN block |-> block[n].text]>>)
        /\ Left(b, t) = <<>>
    BY <1>4, <1>5, <1>6, <1>8, <1>17 DEF Done, Left
  <2>2. after = [buffer |-> <<>>, errors |-> e + OneIf(\E n \in DOMAIN block : block[n].fails),
                 ran |-> r \o done]
    BY <1>3, <1>4, <1>5, <1>7, <1>10, <1>17, <2>1 DEF Pushed
  <2>3. PICK n \in Nat : n = e + OneIf(\E m \in DOMAIN block : block[m].fails)
    BY <1>12
  <2>4. after = [buffer |-> Left(b, t), errors |-> n, ran |-> r \o done]
    BY <2>1, <2>2, <2>3
  <2> QED BY <2>4
<1> QED
  BY <1>14, <1>15, <1>16, <1>17

\* Whatever is pushed only adds to what has been executed.
LEMMA PushAdds ==
  ASSUME SessionType, NEW t \in Pushable
  PROVE  LET after == Pushed(State, t) IN
         /\ after.buffer \in Seq(Words) /\ after.errors \in Nat /\ after.ran \in Seq(Seq(STRING))
         /\ Len(ran) <= Len(after.ran) /\ \A n \in 1..Len(ran) : after.ran[n] = ran[n]
<1>1. IsConsole(State) /\ State.buffer = buffer /\ State.ran = ran
  BY DEF IsConsole, State, SessionType
<1>2. PICK after : after = Pushed(State, t)
  OBVIOUS
<1>3. PICK done \in Seq(Seq(STRING)) : done = Done(buffer, t)
  BY DoneIs DEF SessionType
<1>4. IsConsole(after) /\ after.ran = ran \o done
  BY <1>1, <1>2, <1>3, PushedIs
<1>5. ran \in Seq(Seq(STRING))
  BY DEF SessionType
<1>6. /\ Len(ran \o done) = Len(ran) + Len(done) /\ Len(ran) \in Nat /\ Len(done) \in Nat
      /\ \A n \in 1..Len(ran) : (ran \o done)[n] = ran[n]
  BY <1>5, ConcatProperties
<1> QED
  BY <1>2, <1>4, <1>6 DEF IsConsole

\* A command of a script is executed, or begins what Python waits for, or ends
\* it with an error.
LEMMA CommandPushed ==
  ASSUME SessionType, NEW t, IsCommand(t)
  PROVE  LET after == Pushed(State, t) IN
         \/ /\ after.buffer = buffer /\ after.errors = errors + OneIf(t[1].fails)
            /\ after.ran = Append(ran, Texts(t))
         \/ /\ after.buffer = <<t[1]>> /\ after.errors = errors /\ after.ran = ran
            /\ buffer = <<>> /\ t[1].is = "python"
         \/ /\ after.buffer = <<>> /\ after.errors = errors + 1 /\ after.ran = ran
            /\ buffer # <<>> /\ t[1].is = "python"
<1>0. buffer \in Seq(Words) /\ errors \in Nat /\ ran \in Seq(Seq(STRING))
  BY DEF SessionType
<1>1. PICK w : w = t[1]
  OBVIOUS
<1>2. /\ Len(t) = 1 /\ DOMAIN t = 1..1 /\ Whole(t) = w
      /\ w.is \in {"command", "record", "off", "quit", "python"} /\ ~ w.indented
      /\ w.text \in STRING
  BY <1>1, CommandIs
<1>3. PICK after : after = Pushed(State, t)
  OBVIOUS
<1>4. CASE w.is # "python"
  <2>1. /\ after.buffer = buffer /\ after.errors = errors + OneIf(w.fails)
        /\ after.ran = Append(ran, Texts(t))
    BY <1>2, <1>3, <1>4 DEF Pushed, State
  <2> QED BY <1>1, <1>3, <2>1
<1>5. CASE w.is = "python" /\ buffer # <<>>
  <2>1. Feed(buffer, w) = "error"
    BY <1>2, <1>5 DEF Feed
  <2>2. after.buffer = <<>> /\ after.errors = errors + 1 /\ after.ran = ran
    BY <1>2, <1>3, <1>5, <2>1 DEF Pushed, State
  <2> QED BY <1>1, <1>3, <1>5, <2>2
<1>6. CASE w.is = "python" /\ buffer = <<>> /\ w.opens # "no"
  <2>1. Feed(buffer, w) = "more"
    BY <1>2, <1>6 DEF Feed
  <2>2. after.buffer = Append(buffer, w) /\ after.errors = errors /\ after.ran = ran
    BY <1>2, <1>3, <1>6, <2>1 DEF Pushed, State
  <2>3. Append(buffer, w) = <<w>>
    BY <1>6
  <2> QED BY <1>1, <1>3, <1>6, <2>2, <2>3
<1>7. CASE w.is = "python" /\ buffer = <<>> /\ w.opens = "no"
  <2>1. Feed(buffer, w) = "run"
    BY <1>2, <1>7 DEF Feed
  <2>2. PICK block : block = Append(buffer, w)
    OBVIOUS
  <2>3. /\ after.buffer = <<>>
        /\ after.errors = errors + OneIf(\E n \in DOMAIN block : block[n].fails)
        /\ after.ran = ran \o Statements(t)
    BY <1>2, <1>3, <1>7, <2>1, <2>2 DEF Pushed, State
  <2>4. (\E n \in DOMAIN block : block[n].fails) <=> w.fails
    <3>1. block = <<w>>
      BY <1>7, <2>2
    <3>2. DOMAIN block = {1} /\ block[1] = w
      BY <3>1
    <3> QED BY <3>2
  <2>5. after.errors = errors + OneIf(w.fails)
    BY <2>3, <2>4 DEF OneIf
  <2>6. ran \o Statements(t) = Append(ran, Texts(t))
    <3>1. Texts(t) = <<w.text>>
      <4>1. \A n \in 1..1 : t[n].text = w.text
        BY <1>1
      <4>2. Texts(t) = [n \in 1..1 |-> w.text]
        BY <1>2, <4>1 DEF Texts
      <4> QED BY <4>2
    <3>2. Statements(t) = << <<w.text>> >>
      <4> DEFINE fine(n) == \A m \in 1..(n - 1) : ~ t[m].fails
                 F == {n \in DOMAIN t : fine(n)}
      <4>1. fine(1)
        <5>1. 1..(1 - 1) = {}
          OBVIOUS
        <5> QED BY <5>1
      <4> HIDE DEF fine
      <4>2. F = {1}
        BY <1>2, <4>1
      <4> HIDE DEF F
      <4>3. Cardinality(F) = 1
        BY <4>2, FS_Singleton
      <4>4. Statements(t) = [n \in 1..Cardinality(F) |-> <<t[n].text>>]
        BY <1>1, <1>7 DEF Statements, F, fine
      <4>5. \A n \in 1..1 : <<t[n].text>> = <<w.text>>
        BY <1>1
      <4>6. Statements(t) = [n \in 1..1 |-> <<w.text>>]
        BY <4>3, <4>4, <4>5
      <4> HIDE DEF F
      <4> QED BY <4>6
    <3>3. PICK texts : texts = <<w.text>>
      OBVIOUS
    <3>4. texts \in Seq(STRING)
      BY <1>2, <3>3
    <3> QED BY <1>0, <3>1, <3>2, <3>3, <3>4
  <2> QED BY <1>1, <1>3, <1>7, <2>3, <2>5, <2>6
<1> QED
  BY <1>2, <1>4, <1>5, <1>6, <1>7

----------------------------------------------------------------------------
(* The steps. *)

LEMMA RestIs ==
  ASSUME NEW S, NEW s \in Seq(S), NEW k \in Nat, k < Len(s)
  PROVE  LET rest == SubSeq(s, k + 1, Len(s)) IN
         rest # <<>> /\ Head(rest) = s[k + 1] /\ Tail(rest) = SubSeq(s, (k + 1) + 1, Len(s))
<1>0. Len(s) \in Nat /\ k + 1 \in 1..(Len(s) + 1) /\ (k + 1) + 1 \in 1..(Len(s) + 1)
  OBVIOUS
<1>1. PICK rest : rest = SubSeq(s, k + 1, Len(s))
  OBVIOUS
<1>2. PICK less : less = SubSeq(s, (k + 1) + 1, Len(s))
  OBVIOUS
<1>3. /\ rest \in Seq(S) /\ Len(rest) = Len(s) - k
      /\ \A i \in 1..(Len(s) - k) : rest[i] = s[k + i]
  <2>1. /\ rest \in Seq(S)
        /\ Len(rest) = IF k + 1 <= Len(s) THEN Len(s) - (k + 1) + 1 ELSE 0
        /\ \A i \in 1..Len(rest) : rest[i] = s[k + 1 + i - 1]
    BY <1>0, <1>1, SubSeqProperties
  <2>2. Len(rest) = Len(s) - k
    BY <1>0, <2>1
  <2>3. \A i \in 1..(Len(s) - k) : k + 1 + i - 1 = k + i
    OBVIOUS
  <2> QED BY <2>1, <2>2, <2>3
<1>4. /\ less \in Seq(S) /\ Len(less) = Len(s) - k - 1
      /\ \A i \in 1..(Len(s) - k - 1) : less[i] = s[k + 1 + i]
  <2>1. /\ less \in Seq(S)
        /\ Len(less) = IF (k + 1) + 1 <= Len(s) THEN Len(s) - ((k + 1) + 1) + 1 ELSE 0
        /\ \A i \in 1..Len(less) : less[i] = s[(k + 1) + 1 + i - 1]
    BY <1>0, <1>2, SubSeqProperties
  <2>2. Len(less) = Len(s) - k - 1
    BY <1>0, <2>1
  <2>3. \A i \in 1..(Len(s) - k - 1) : (k + 1) + 1 + i - 1 = k + 1 + i
    OBVIOUS
  <2> QED BY <2>1, <2>2, <2>3
<1>5. rest # <<>> /\ Head(rest) = s[k + 1]
  BY <1>0, <1>3
<1>6. /\ Tail(rest) \in Seq(S) /\ Len(Tail(rest)) = Len(s) - k - 1
      /\ \A i \in 1..(Len(s) - k - 1) : Tail(rest)[i] = s[k + 1 + i]
  <2>1. Tail(rest) \in Seq(S) /\ Len(Tail(rest)) = Len(s) - k - 1
    BY <1>0, <1>3, <1>5
  <2>2. ASSUME NEW i \in 1..(Len(s) - k - 1) PROVE Tail(rest)[i] = s[k + 1 + i]
    <3>1. Tail(rest)[i] = rest[i + 1] /\ i + 1 \in 1..(Len(s) - k) /\ k + (i + 1) = k + 1 + i
      BY <1>0, <1>3, <1>5
    <3> QED BY <1>3, <3>1
  <2> QED BY <2>1, <2>2
<1>7. Tail(rest) = less
  BY <1>4, <1>6, SeqEqual
<1> QED
  BY <1>1, <1>2, <1>5, <1>7

\* What pushing a command of the script does to the console.
LEMMA PushIs ==
  ASSUME SessionType, NEW t \in Pushable, Push(t)
  PROVE  /\ buffer' \in Seq(Words) /\ errors' \in Nat /\ ran' \in Seq(Seq(STRING))
         /\ Len(ran) <= Len(ran') /\ \A n \in 1..Len(ran) : ran'[n] = ran[n]
<1>1. PICK after : after = Pushed(State, t)
  OBVIOUS
<1>2. /\ after.buffer \in Seq(Words) /\ after.errors \in Nat /\ after.ran \in Seq(Seq(STRING))
      /\ Len(ran) <= Len(after.ran) /\ \A n \in 1..Len(ran) : after.ran[n] = ran[n]
  BY <1>1, PushAdds
<1>3. buffer' = after.buffer /\ ran' = after.ran
  BY <1>1 DEF Push
<1>4. errors' \in {errors, errors + 1, after.errors}
  BY <1>1 DEF Push, StartRecording
<1>5. errors \in Nat
  BY DEF SessionType
<1> QED
  BY <1>2, <1>3, <1>4, <1>5

LEMMA CommandPushes ==
  ASSUME SessionType, NEW t, IsCommand(t), Push(t)
  PROVE  \/ /\ buffer' = buffer /\ errors' = errors + OneIf(t[1].fails)
            /\ ran' = Append(ran, Texts(t))
         \/ buffer' = <<t[1]>> /\ errors' = errors /\ ran' = ran /\ buffer = <<>>
         \/ buffer' = <<>> /\ errors' = errors + 1 /\ ran' = ran /\ buffer # <<>>
<1>1. PICK w : w = t[1]
  OBVIOUS
<1>2. /\ Whole(t) = w /\ w.fails \in BOOLEAN
      /\ w.is = "record" => (w.fails <=> w.path = BadPath)
      /\ w.is = "off" => ~ w.fails
  BY <1>1, CommandIs
<1>3. PICK after : after = Pushed(State, t)
  OBVIOUS
<1>4. \/ /\ after.buffer = buffer /\ after.errors = errors + OneIf(w.fails)
         /\ after.ran = Append(ran, Texts(t))
      \/ /\ after.buffer = <<w>> /\ after.errors = errors /\ after.ran = ran
         /\ buffer = <<>> /\ w.is = "python"
      \/ /\ after.buffer = <<>> /\ after.errors = errors + 1 /\ after.ran = ran
         /\ buffer # <<>> /\ w.is = "python"
  BY <1>1, <1>3, CommandPushed
<1>5. errors \in Nat
  BY DEF SessionType
<1>6. buffer' = after.buffer /\ ran' = after.ran
  BY <1>3 DEF Push
<1>7. CASE w.is \notin {"record", "off"}
  <2>1. errors' = after.errors
    BY <1>2, <1>3, <1>7 DEF Push
  <2> QED BY <1>1, <1>4, <1>6, <2>1
<1>8. CASE w.is = "record"
  <2>1. StartRecording(Command(files, t), w.path)
    BY <1>2, <1>8 DEF Push
  <2>2. errors' = errors + OneIf(w.fails)
    <3>1. CASE w.path = BadPath
      BY <1>2, <1>8, <2>1, <3>1 DEF StartRecording, OneIf
    <3>2. CASE w.path # BadPath
      BY <1>2, <1>5, <1>8, <2>1, <3>2 DEF StartRecording, OneIf
    <3> QED BY <3>1, <3>2
  <2> QED BY <1>1, <1>4, <1>6, <1>8, <2>2
<1>9. CASE w.is = "off"
  <2>1. errors' = errors
    BY <1>2, <1>9 DEF Push
  <2>2. errors + OneIf(w.fails) = errors
    BY <1>2, <1>5, <1>9 DEF OneIf
  <2> QED BY <1>1, <1>4, <1>6, <1>9, <2>1, <2>2
<1> QED
  BY <1>7, <1>8, <1>9

LEMMA ScriptStep == SessionInv /\ Script => SessionInv'
<1> SUFFICES ASSUME SessionInv, Script PROVE SessionInv'
  OBVIOUS
<1>0. SessionType /\ launch \in Launches /\ phase = "script" /\ todo # <<>>
  BY DEF SessionInv, SessionType, Script
<1>1. PICK k \in 0..Len(Meant) : Reached(k) /\ Faithful(k)
  BY <1>0 DEF SessionInv
<1>2. phase' = phase /\ launch' = launch /\ All' = All /\ Meant' = Meant
  BY DEF Script, All, Meant
<1>3. PICK N \in Nat : N = Len(All)
  BY <1>0, MeantIs
<1>4. PICK M \in Nat : M = Len(Meant)
  BY <1>0, MeantIs
<1>5. /\ M <= N /\ \A n \in 1..M : Meant[n] = All[n] /\ ~ Quits(All[n])
      /\ M < N => Quits(All[M + 1])
      /\ \A n \in 1..N : IsCommand(All[n]) /\ All[n] \in Pushable
  BY <1>0, <1>3, <1>4, MeantIs
<1>6. k \in Nat /\ k <= M /\ todo = SubSeq(All, k + 1, N)
  BY <1>0, <1>1, <1>3, <1>4 DEF Reached
<1>7. All \in Seq(CommandsOf(launch.script))
  BY <1>0, MeantIs
<1>8. k < N
  <2>1. SUFFICES ASSUME k = N PROVE FALSE
    BY <1>5, <1>6
  <2>2. SubSeq(All, k + 1, N) = <<>>
    BY <1>3, <1>7, <2>1, SubSeqProperties
  <2> QED BY <1>0, <1>6, <2>2
<1>9. Head(todo) = All[k + 1] /\ Tail(todo) = SubSeq(All, (k + 1) + 1, N)
  BY <1>3, <1>6, <1>7, <1>8, RestIs
<1>10. PICK t : t = All[k + 1]
  OBVIOUS
<1>11. IsCommand(t) /\ t \in Pushable
  BY <1>5, <1>6, <1>8, <1>10
<1>12. CASE Quits(t)
  <2>1. k = M
    <3>1. SUFFICES ASSUME k < M PROVE FALSE
      BY <1>6
    <3>2. k + 1 \in 1..M
      BY <1>6, <3>1
    <3> QED BY <1>5, <1>10, <1>12, <3>2
  <2>2. todo' = <<>> /\ UNCHANGED <<buffer, errors, ran>>
    BY <1>9, <1>10, <1>12 DEF Script, Quit
  <2>3. Reached(k)' /\ Faithful(k)'
    BY <1>1, <1>2, <1>4, <2>1, <2>2 DEF Reached, Faithful
  <2>4. SessionType'
    BY <1>0, <1>2, <2>2 DEF SessionType
  <2> QED BY <1>0, <1>2, <2>3, <2>4 DEF SessionInv
<1>13. CASE ~ Quits(t)
  <2>1. k + 1 \in 1..M
    <3>1. CASE k = M
      BY <1>5, <1>8, <1>10, <1>13, <3>1
    <3> QED BY <1>6, <3>1
  <2>2. Push(t) /\ todo' = SubSeq(All, (k + 1) + 1, N)
    BY <1>9, <1>10, <1>13 DEF Script
  <2>3. buffer' \in Seq(Words) /\ errors' \in Nat /\ ran' \in Seq(Seq(STRING))
    BY <1>0, <1>11, <2>2, PushIs
  <2>4. SessionType'
    BY <1>0, <1>2, <2>3 DEF SessionType
  <2>5. Reached(k + 1)'
    BY <1>2, <1>3, <2>2 DEF Reached
  <2>6. PICK w : w = t[1]
    OBVIOUS
  <2>7. /\ Meant[k + 1] = t /\ Whole(t) = w /\ w.fails \in BOOLEAN
    BY <1>5, <1>10, <1>11, <2>1, <2>6, CommandIs
  <2>8. /\ ran \in Seq(Seq(STRING)) /\ Len(ran) \in Nat /\ errors \in Nat
        /\ Texts(t) = Texts(Meant[k + 1])
    BY <1>0, <2>7 DEF SessionType
  <2>9. Faithful(k + 1)'
    <3>1. /\ Len(ran) <= k /\ (buffer # <<>> => Len(ran) < k)
          /\ errors = 0 /\ buffer = <<>> =>
               /\ Len(ran) = k
               /\ \A n \in 1..k : ran[n] = Texts(Meant[n]) /\ ~ Whole(Meant[n]).fails
          /\ errors # 0 => Len(ran) < k \/ \E n \in 1..k : Whole(Meant[n]).fails
      BY <1>1 DEF Faithful
    <3>2. \A n \in 1..(k + 1) : n \in 1..k \/ n = k + 1
      BY <1>6
    <3>3. 1..k \subseteq 1..(k + 1) /\ k + 1 \in 1..(k + 1)
      BY <1>6
    <3>4. CASE /\ buffer' = buffer /\ errors' = errors + OneIf(w.fails)
               /\ ran' = Append(ran, Texts(t))
      <4>1. /\ Len(ran') = Len(ran) + 1 /\ ran'[Len(ran) + 1] = Texts(t)
            /\ \A n \in 1..Len(ran) : ran'[n] = ran[n]
        <5>1. Texts(t) \in Seq(STRING)
          <6>1. Texts(t) \in [1..Len(t) -> STRING] /\ Len(t) \in Nat
            BY <1>11, PushableIs DEF Texts
          <6> QED BY <6>1, SeqDef
        <5> QED BY <2>8, <3>4, <5>1, AppendProperties
      <4>2. /\ errors' = 0 <=> errors = 0 /\ ~ w.fails
        BY <2>7, <2>8, <3>4 DEF OneIf
      <4>3. Len(ran') <= k + 1 /\ (buffer' # <<>> => Len(ran') < k + 1)
        BY <1>6, <2>8, <3>1, <3>4, <4>1
      <4>4. ASSUME errors' = 0, buffer' = <<>>
            PROVE  /\ Len(ran') = k + 1
                   /\ \A n \in 1..(k + 1) : ran'[n] = Texts(Meant[n]) /\ ~ Whole(Meant[n]).fails
        <5>1. /\ Len(ran) = k
              /\ \A n \in 1..k : ran[n] = Texts(Meant[n]) /\ ~ Whole(Meant[n]).fails
          BY <3>1, <3>4, <4>2, <4>4
        <5> QED BY <2>7, <3>2, <4>1, <4>2, <4>4, <5>1
      <4>5. ASSUME errors' # 0
            PROVE  Len(ran') < k + 1 \/ \E n \in 1..(k + 1) : Whole(Meant[n]).fails
        <5>1. CASE w.fails
          BY <2>7, <3>3, <5>1
        <5>2. CASE errors # 0
          <6>1. CASE Len(ran) < k
            BY <1>6, <2>8, <4>1, <6>1
          <6>2. CASE \E n \in 1..k : Whole(Meant[n]).fails
            BY <3>3, <6>2
          <6> QED BY <3>1, <5>2, <6>1, <6>2
        <5> QED BY <4>2, <4>5, <5>1, <5>2
      <4> QED BY <1>2, <4>3, <4>4, <4>5 DEF Faithful
    <3>5. CASE buffer' = <<w>> /\ errors' = errors /\ ran' = ran /\ buffer = <<>>
      <4>1. buffer' # <<>> /\ Len(ran') < k + 1
        BY <1>6, <2>8, <3>1, <3>5
      <4> QED BY <1>2, <1>6, <2>8, <4>1 DEF Faithful
    <3>6. CASE buffer' = <<>> /\ errors' = errors + 1 /\ ran' = ran /\ buffer # <<>>
      <4>1. Len(ran') < k + 1 /\ errors' # 0
        BY <1>6, <2>8, <3>1, <3>6
      <4> QED BY <1>2, <1>6, <2>8, <4>1 DEF Faithful
    <3> QED BY <1>0, <1>11, <2>2, <2>6, <3>4, <3>5, <3>6, CommandPushes
  <2>10. k + 1 \in 0..Len(Meant)
    BY <1>4, <2>1
  <2> QED BY <1>0, <1>2, <2>4, <2>5, <2>9, <2>10 DEF SessionInv
<1> QED
  BY <1>12, <1>13

LEMMA EndScriptStep == SessionInv /\ EndScript => SessionInv'
<1> SUFFICES ASSUME SessionInv, EndScript PROVE SessionInv'
  OBVIOUS
<1>0. SessionType /\ launch \in Launches /\ phase = "script" /\ todo = <<>>
  BY DEF SessionInv, SessionType, EndScript
<1>1. PICK k \in 0..Len(Meant) : Reached(k) /\ Faithful(k)
  BY <1>0 DEF SessionInv
<1>2. PICK M \in Nat : M = Len(Meant)
  BY <1>0, MeantIs
<1>3. k = M
  <2>1. CASE todo = SubSeq(All, k + 1, Len(All))
    <3>1. k \in Nat /\ k <= M /\ M <= Len(All) /\ Len(All) \in Nat
      BY <1>0, <1>1, <1>2, MeantIs
    <3>2. CASE k < Len(All)
      <4>1. All \in Seq(CommandsOf(launch.script))
        BY <1>0, MeantIs
      <4> QED BY <1>0, <2>1, <3>1, <3>2, <4>1, RestIs
    <3> QED BY <3>1, <3>2
  <2> QED BY <1>1, <1>2, <2>1 DEF Reached
<1>4. /\ launch' = launch /\ All' = All /\ Meant' = Meant /\ ran' = ran /\ buffer' = <<>>
      /\ errors' = errors + OneIf(buffer # <<>>) /\ failed' = errors'
      /\ phase' \in {"prompt", "leaving"} /\ scripted' = Len(ran)
  BY DEF EndScript, All, Meant
<1>5. /\ ran \in Seq(Seq(STRING)) /\ Len(ran) \in Nat /\ errors \in Nat
      /\ DOMAIN Meant = 1..M
  BY <1>0, <1>2, MeantIs DEF SessionType
<1>6. errors' \in Nat /\ (errors' = 0 <=> errors = 0 /\ buffer = <<>>)
  BY <1>4, <1>5 DEF OneIf
<1>7. SubSeq(ran, 1, Len(ran)) = ran
  BY <1>5
<1>8. errors' = 0 <=> /\ ran = [n \in DOMAIN Meant |-> Texts(Meant[n])]
                      /\ \A n \in DOMAIN Meant : ~ Whole(Meant[n]).fails
  <2>1. ASSUME errors' = 0
        PROVE  /\ ran = [n \in DOMAIN Meant |-> Texts(Meant[n])]
               /\ \A n \in DOMAIN Meant : ~ Whole(Meant[n]).fails
    <3>1. /\ Len(ran) = M
          /\ \A n \in 1..M : ran[n] = Texts(Meant[n]) /\ ~ Whole(Meant[n]).fails
      BY <1>1, <1>3, <1>6, <2>1 DEF Faithful
    <3>2. ran = [n \in 1..M |-> ran[n]]
      BY <1>5, <3>1
    <3> QED BY <1>5, <3>1, <3>2
  <2>2. ASSUME /\ ran = [n \in DOMAIN Meant |-> Texts(Meant[n])]
               /\ \A n \in DOMAIN Meant : ~ Whole(Meant[n]).fails
        PROVE  errors' = 0
    <3>1. Len(ran) = M
      <4>1. DOMAIN ran = 1..M /\ DOMAIN ran = 1..Len(ran)
        BY <1>5, <2>2
      <4> QED BY <1>2, <1>5, <4>1
    <3>2. buffer = <<>>
      BY <1>1, <1>3, <1>5, <3>1 DEF Faithful
    <3>3. errors = 0
      <4>1. ~ (Len(ran) < k) /\ ~ \E n \in 1..k : Whole(Meant[n]).fails
        BY <1>2, <1>3, <1>5, <2>2, <3>1
      <4> QED BY <1>1, <4>1 DEF Faithful
    <3> QED BY <1>6, <3>2, <3>3
  <2> QED BY <2>1, <2>2
<1>9. CarriedOut' <=> /\ ran = [n \in DOMAIN Meant |-> Texts(Meant[n])]
                      /\ \A n \in DOMAIN Meant : ~ Whole(Meant[n]).fails
  BY <1>4, <1>7 DEF CarriedOut
<1>10. scripted' \in 0..Len(ran')
  BY <1>4, <1>5
<1>11. SessionType'
  BY <1>0, <1>4, <1>6 DEF SessionType
<1> QED
  BY <1>4, <1>6, <1>8, <1>9, <1>10, <1>11 DEF SessionInv

\* What the script had stays as it was when more is executed after it.
LEMMA CarriedOutKept ==
  ASSUME launch' = launch, scripted' = scripted,
         ran \in Seq(Seq(STRING)), ran' \in Seq(Seq(STRING)), scripted \in 0..Len(ran),
         Len(ran) <= Len(ran'), \A n \in 1..Len(ran) : ran'[n] = ran[n]
  PROVE  scripted' \in 0..Len(ran') /\ (CarriedOut' <=> CarriedOut)
<1>0. Len(ran) \in Nat /\ Len(ran') \in Nat
  OBVIOUS
<1>1. Meant' = Meant
  BY DEF Meant, All
<1>2. SubSeq(ran', 1, scripted) = SubSeq(ran, 1, scripted)
  <2>1. PICK a : a = SubSeq(ran, 1, scripted)
    OBVIOUS
  <2>2. PICK b : b = SubSeq(ran', 1, scripted)
    OBVIOUS
  <2>3. /\ a \in Seq(Seq(STRING)) /\ Len(a) = scripted
        /\ \A n \in 1..scripted : a[n] = ran[n]
    BY <1>0, <2>1, SubSeqProperties
  <2>4. /\ b \in Seq(Seq(STRING)) /\ Len(b) = scripted
        /\ \A n \in 1..scripted : b[n] = ran'[n]
    <3>1. scripted \in 0..Len(ran')
      BY <1>0
    <3> QED BY <1>0, <2>2, <3>1, SubSeqProperties
  <2>5. \A n \in 1..scripted : a[n] = b[n]
    <3>1. \A n \in 1..scripted : n \in 1..Len(ran)
      BY <1>0
    <3> QED BY <2>3, <2>4, <3>1
  <2>6. \A n \in 1..Len(a) : a[n] = b[n]
    BY <2>3, <2>5
  <2>7. Len(a) = Len(b)
    BY <2>3, <2>4
  <2>8. a = b
    BY <2>3, <2>4, <2>6, <2>7, SeqEqual
  <2> QED BY <2>1, <2>2, <2>8
<1>3. CarriedOut' <=> /\ SubSeq(ran', 1, scripted) = [n \in DOMAIN Meant |-> Texts(Meant[n])]
                      /\ \A n \in DOMAIN Meant : ~ Whole(Meant[n]).fails
  BY <1>1 DEF CarriedOut
<1>4. CarriedOut' <=> CarriedOut
  BY <1>2, <1>3 DEF CarriedOut
<1>5. scripted' \in 0..Len(ran')
  BY <1>0
<1> QED
  BY <1>4, <1>5

LEMMA TypeStep == ASSUME SessionInv, NEW text \in Typed, Type(text) PROVE SessionInv'
<1>0. SessionType /\ phase = "prompt"
  BY DEF SessionInv, Type
<1>1. /\ launch' = launch /\ scripted' = scripted /\ failed' = failed
      /\ phase' \in {"prompt", "leaving"}
  BY <1>0 DEF Type
<1>2. /\ buffer' \in Seq(Words) /\ errors' \in Nat /\ ran' \in Seq(Seq(STRING))
      /\ Len(ran) <= Len(ran') /\ \A n \in 1..Len(ran) : ran'[n] = ran[n]
  <2>1. CASE Quits(text)
    <3>1. UNCHANGED <<buffer, errors, ran>>
      BY <2>1 DEF Type, Quit
    <3> QED BY <1>0, <3>1 DEF SessionType
  <2>2. CASE ~ Quits(text)
    <3>1. Push(text) /\ text \in Pushable
      BY <2>2 DEF Type, Pushable
    <3> QED BY <1>0, <3>1, PushIs
  <2> QED BY <2>1, <2>2
<1>3. scripted \in 0..Len(ran) /\ failed \in Nat /\ (failed = 0 <=> CarriedOut)
      /\ ran \in Seq(Seq(STRING))
  BY <1>0 DEF SessionInv, SessionType
<1>4. scripted' \in 0..Len(ran') /\ (CarriedOut' <=> CarriedOut)
  BY <1>1, <1>2, <1>3, CarriedOutKept
<1>5. SessionType'
  BY <1>0, <1>1, <1>2 DEF SessionType
<1> QED
  BY <1>1, <1>3, <1>4, <1>5 DEF SessionInv

\* Nothing else executes anything.
LEMMA QuietStep ==
  ASSUME SessionInv, phase # "script", UNCHANGED <<launch, failed, scripted, buffer, errors, ran>>,
         phase' \in {"prompt", "leaving", "exited"},
         phase' = "exited" => status' = IF failed > 0 THEN 1 ELSE 0
  PROVE  SessionInv'
<1>1. CarriedOut' <=> CarriedOut
  BY DEF CarriedOut, Meant, All
<1> QED
  BY <1>1 DEF SessionInv, SessionType

LEMMA SessionBegins == Init => SessionInv
<1> SUFFICES ASSUME Init PROVE SessionInv
  OBVIOUS
<1>0. launch \in Launches /\ phase = "script"
  BY DEF Init
<1>1. SessionType
  BY DEF Init, SessionType
<1>2. All \in Seq(CommandsOf(launch.script)) /\ Len(Meant) \in Nat
  BY <1>0, MeantIs
<1>3. SubSeq(All, 0 + 1, Len(All)) = All
  BY <1>2
<1>4. Reached(0)
  BY <1>3 DEF Init, Reached, All
<1>5. Faithful(0)
  <2>1. ran = <<>> /\ errors = 0 /\ buffer = <<>> /\ Len(ran) = 0 /\ 1..0 = {}
    BY DEF Init
  <2> QED BY <2>1 DEF Faithful
<1> QED
  BY <1>0, <1>1, <1>2, <1>4, <1>5 DEF SessionInv

\* The inductive invariant, of every script and whatever is typed (console.py,
\* run_script and interact).
THEOREM SessionHolds == Spec => []SessionInv
<1>1. SessionInv /\ [Next]_vars => SessionInv'
  <2> SUFFICES ASSUME SessionInv, [Next]_vars PROVE SessionInv'
    OBVIOUS
  <2>1. CASE UNCHANGED vars
    <3>1. UNCHANGED <<launch, phase, todo, failed, scripted, status, buffer, errors, ran>>
      BY <2>1 DEF vars, console
    <3>2. All' = All /\ Meant' = Meant
      BY <3>1 DEF All, Meant
    <3> QED BY <3>1, <3>2 DEF SessionInv, SessionType, Reached, Faithful, CarriedOut
  <2>2. CASE EndOfFile
    <3>1. /\ phase # "script" /\ phase' = "leaving"
          /\ UNCHANGED <<launch, failed, scripted, buffer, errors, ran>>
      BY <2>2 DEF EndOfFile, console
    <3> QED BY <3>1, QuietStep
  <2>3. CASE Leave
    <3>1. /\ phase # "script" /\ phase' = "exited" /\ status' = IF failed > 0 THEN 1 ELSE 0
          /\ UNCHANGED <<launch, failed, scripted, buffer, errors, ran>>
      BY <2>3 DEF Leave
    <3> QED BY <3>1, QuietStep
  <2>4. CASE Capture
    <3>1. /\ phase = "prompt" /\ phase' = phase
          /\ UNCHANGED <<launch, failed, scripted, buffer, errors, ran>>
      BY <2>4 DEF Capture
    <3> QED BY <3>1, QuietStep
  <2>5. CASE Deliver
    <3>1. UNCHANGED <<launch, phase, todo, failed, scripted, status, buffer, errors, ran>>
      BY <2>5 DEF Deliver
    <3>2. All' = All /\ Meant' = Meant
      BY <3>1 DEF All, Meant
    <3> QED BY <3>1, <3>2 DEF SessionInv, SessionType, Reached, Faithful, CarriedOut
  <2> QED
    BY <2>1, <2>2, <2>3, <2>4, <2>5, ScriptStep, EndScriptStep, TypeStep DEF Next
<1> QED
  BY SessionBegins, <1>1, PTL DEF Spec

LEMMA StatusIs == SessionInv => StatusTells
<1> SUFFICES ASSUME SessionInv, phase = "exited" PROVE StatusTells
  BY DEF StatusTells
<1>1. failed \in Nat /\ (failed = 0 <=> CarriedOut) /\ status = IF failed > 0 THEN 1 ELSE 0
  BY DEF SessionInv
<1>2. status = 0 <=> CarriedOut
  BY <1>1
<1> QED
  BY <1>2 DEF StatusTells, CarriedOut, Meant, All

\* The exit status is 0 just when the script was carried out up to q and nothing
\* of it failed, whatever was typed afterwards (console.py, run_script).
THEOREM StatusIsRight == Spec => []StatusTells
BY SessionHolds, StatusIs, PTL

----------------------------------------------------------------------------
(* What a script makes of a console. *)

Fresh == [buffer |-> <<>>, errors |-> 0, ran |-> <<>>]

Running(f, texts) ==
  f = [n \in 0..Len(texts) |-> IF n = 0 THEN Fresh ELSE Pushed(f[n - 1], texts[n])]

\* The first n texts have been pushed.
Pushes(f, texts, n) == f[0] = Fresh /\ \A i \in 1..n : f[i] = Pushed(f[i - 1], texts[i])

LEMMA ReplayedIs ==
  ASSUME NEW texts
  PROVE  Replayed(texts) = (CHOOSE f : Running(f, texts))[Len(texts)]
BY DEF Replayed, Running, Fresh

LEMMA RunsMore ==
  ASSUME NEW f, NEW texts, NEW n \in Nat, Pushes(f, texts, n)
  PROVE  \E g : Pushes(g, texts, n + 1) /\ g[n + 1] = Pushed(f[n], texts[n + 1])
<1> DEFINE g == [i \in 0..(n + 1) |-> IF i = n + 1 THEN Pushed(f[n], texts[n + 1]) ELSE f[i]]
<1>1. (n + 1) - 1 = n /\ n + 1 # 0 /\ n \in 0..n
  OBVIOUS
<1>2. g[n + 1] = Pushed(f[n], texts[n + 1]) /\ \A i \in 0..n : g[i] = f[i]
  OBVIOUS
<1> HIDE DEF g
<1>3. ASSUME NEW i \in 1..(n + 1) PROVE g[i] = Pushed(g[i - 1], texts[i])
  <2>1. CASE i = n + 1
    BY <1>1, <1>2, <2>1
  <2>2. CASE i # n + 1
    <3>1. i \in 1..n /\ i \in 0..n /\ i - 1 \in 0..n
      BY <2>2
    <3> QED BY <1>2, <3>1 DEF Pushes
  <2> QED BY <2>1, <2>2
<1>4. g[0] = Fresh
  <2>1. 0 \in 0..n
    OBVIOUS
  <2> QED BY <1>2, <2>1 DEF Pushes
<1> QED
  BY <1>2, <1>3, <1>4 DEF Pushes

LEMMA RunsAll ==
  ASSUME NEW texts, NEW n \in Nat
  PROVE  \E f : Pushes(f, texts, n)
<1> DEFINE Good == {m \in 0..n : \E f : Pushes(f, texts, m)}
<1>1. 0 \in Good
  <2>1. Pushes([i \in {0} |-> Fresh], texts, 0)
    BY DEF Pushes
  <2> QED BY <2>1
<1>2. ASSUME NEW m \in 0..(n - 1), m \in Good PROVE m + 1 \in Good
  <2>1. m \in Nat /\ m + 1 \in 0..n
    OBVIOUS
  <2> QED BY <1>2, <2>1, RunsMore
<1>3. n \in Good
  <2> HIDE DEF Good
  <2> QED BY <1>1, <1>2, UpwardFrom
<1> QED
  BY <1>3

LEMMA ReplayedAt ==
  ASSUME NEW texts, Len(texts) \in Nat, NEW f, Pushes(f, texts, Len(texts))
  PROVE  Replayed(texts) = f[Len(texts)]
<1>1. PICK n \in Nat : n = Len(texts)
  OBVIOUS
<1> DEFINE g == [i \in 0..n |-> f[i]]
<1>2. \A i \in 0..n : g[i] = f[i] /\ (i # 0 => i - 1 \in 0..n /\ i \in 1..n)
  OBVIOUS
<1>3. Running(g, texts)
  <2>1. g = [i \in 0..n |-> g[i]]
    OBVIOUS
  <2> HIDE DEF g
  <2>2. \A i \in 0..n : g[i] = IF i = 0 THEN Fresh ELSE Pushed(g[i - 1], texts[i])
    BY <1>1, <1>2 DEF Pushes
  <2> QED BY <1>1, <2>1, <2>2 DEF Running
<1> HIDE DEF g
<1>4. PICK h : h = (CHOOSE k : Running(k, texts)) /\ Running(h, texts)
  BY <1>3
<1>5. \A i \in 0..n : h[i] = IF i = 0 THEN Fresh ELSE Pushed(h[i - 1], texts[i])
  BY <1>1, <1>4 DEF Running
<1> DEFINE Same == {m \in 0..n : h[m] = f[m]}
<1>6. 0 \in Same
  <2>1. 0 \in 0..n
    OBVIOUS
  <2> QED BY <1>5, <2>1 DEF Pushes
<1>7. ASSUME NEW m \in 0..(n - 1), m \in Same PROVE m + 1 \in Same
  <2>1. m + 1 \in 0..n /\ m + 1 \in 1..n /\ (m + 1) - 1 = m /\ m + 1 # 0
    OBVIOUS
  <2> QED BY <1>1, <1>5, <1>7, <2>1 DEF Pushes
<1>8. n \in Same
  <2> HIDE DEF Same
  <2> QED BY <1>6, <1>7, UpwardFrom
<1> QED
  BY <1>1, <1>4, <1>8, ReplayedIs

LEMMA ReplayedNone == Replayed(<<>>) = Fresh
<1>1. PICK f : Pushes(f, <<>>, 0)
  BY RunsAll
<1>2. Len(<<>>) = 0
  OBVIOUS
<1> QED
  BY <1>1, <1>2, ReplayedAt DEF Pushes

\* One more command is pushed after the others.
LEMMA ReplayedMore ==
  ASSUME NEW S, NEW texts \in Seq(S), NEW t \in S
  PROVE  Replayed(Append(texts, t)) = Pushed(Replayed(texts), t)
<1>1. PICK n \in Nat : n = Len(texts)
  OBVIOUS
<1>2. PICK more : more = Append(texts, t)
  OBVIOUS
<1>3. Len(more) = n + 1 /\ more[n + 1] = t /\ \A i \in 1..n : more[i] = texts[i]
  BY <1>1, <1>2
<1>4. PICK f : Pushes(f, texts, n)
  BY RunsAll
<1>5. Pushes(f, more, n)
  BY <1>3, <1>4 DEF Pushes
<1>6. PICK g : Pushes(g, more, n + 1) /\ g[n + 1] = Pushed(f[n], more[n + 1])
  BY <1>5, RunsMore
<1>7. Replayed(texts) = f[n]
  BY <1>1, <1>4, ReplayedAt
<1>8. Replayed(more) = g[n + 1]
  BY <1>3, <1>6, ReplayedAt
<1> QED
  BY <1>2, <1>3, <1>6, <1>7, <1>8

----------------------------------------------------------------------------
(* What a recording is when it is read again. *)

\* One command, without the space around it, that needs nothing more.
PlainTexts == {t \in Pushable : IsCommand(t) /\ Strip(t) = t}

\* What is printed, line by line.
Said == {<<>>} \cup UNION {{Whole(t).says[n] : n \in DOMAIN Whole(t).says} : t \in Pushable}

Notes == {Comment(x) : x \in Said}
Lines == {Plain(t) : t \in PlainTexts} \cup Notes

\* Nothing that is printed has a line break of another kind in it.
OneLineEach == \A x \in Said : x = <<>> \/ x = <<x[1]>>

\* What a line of the file holds for who reads it as a script.
Held(l) == IF l.comment THEN IF l.texts = <<>> THEN <<>> ELSE Tail(l.texts) ELSE l.texts

LEMMA HeldIs ==
  ASSUME OneLineEach
  PROVE  /\ \A l \in Notes : Held(l) = <<>>
         /\ \A t \in PlainTexts : Held(Plain(t)) = <<t>>
<1>1. ASSUME NEW l \in Notes PROVE Held(l) = <<>>
  <2>1. PICK x \in Said : l = Comment(x)
    BY DEF Notes
  <2>2. x = <<>> \/ x = <<x[1]>>
    BY DEF OneLineEach
  <2>3. PICK y : y = x[1]
    OBVIOUS
  <2>4. Tail(<<y>>) = <<>>
    OBVIOUS
  <2>5. l.comment /\ l.texts = x
    BY <2>1 DEF Comment
  <2> QED BY <2>2, <2>3, <2>4, <2>5 DEF Held
<1>2. ASSUME NEW t \in PlainTexts PROVE Held(Plain(t)) = <<t>>
  BY DEF PlainTexts, Plain, Held
<1> QED
  BY <1>1, <1>2

\* a is made of the elements of f, each mapped by h.
Each(a, f, h) == a = [n \in DOMAIN f |-> h[f[n]]]

\* b is what h makes of f and of l after it, a of f alone.
OneMore(S, T, h, f, l, a, b) ==
  /\ f \in Seq(S) /\ h \in [S -> Seq(T)] /\ l \in S
  /\ Each(a, f, h) /\ Each(b, Append(f, l), h)

\* What is made of them, put together, when there is one more.
LEMMA FlattenMapped ==
  ASSUME NEW S, NEW T, NEW h, NEW f, NEW l, NEW a, NEW b, OneMore(S, T, h, f, l, a, b)
  PROVE  FlattenSeq(a) \in Seq(T) /\ FlattenSeq(b) = FlattenSeq(a) \o h[l]
<1>a. /\ f \in Seq(S) /\ h \in [S -> Seq(T)] /\ l \in S
      /\ Each(a, f, h) /\ Each(b, Append(f, l), h)
  BY DEF OneMore
<1>0. PICK g : g = Append(f, l)
  OBVIOUS
<1>1. PICK k \in Nat : k = Len(f)
  BY <1>a
<1>3. /\ DOMAIN f = 1..k /\ DOMAIN g = 1..(k + 1) /\ g[k + 1] = l
      /\ \A n \in 1..k : g[n] = f[n] /\ f[n] \in S
  BY <1>0, <1>1, <1>a
<1>4. PICK parts : parts = [n \in 1..k |-> h[f[n]]] /\ parts = a
  BY <1>a, <1>3 DEF Each
<1>5. parts \in Seq(Seq(T)) /\ Len(parts) = k
  <2>1. parts \in [1..k -> Seq(T)]
    BY <1>a, <1>3, <1>4
  <2> HIDE <1>4
  <2>2. parts \in Seq(Seq(T))
    BY <2>1, SeqDef
  <2> QED BY <2>1, <2>2
<1>6. PICK more : more = [n \in 1..(k + 1) |-> h[g[n]]] /\ more = b
  BY <1>a, <1>0, <1>3 DEF Each
<1>7. h[l] \in Seq(T)
  BY <1>a
<1>8. more = Append(parts, h[l])
  <2>1. more \in Seq(Seq(T)) /\ Len(more) = k + 1
    <3>1. \A n \in 1..(k + 1) : g[n] \in S
      BY <1>a, <1>3
    <3>2. more \in [1..(k + 1) -> Seq(T)]
      BY <1>a, <1>6, <3>1
    <3> HIDE <1>6
    <3>3. more \in Seq(Seq(T))
      BY <3>2, SeqDef
    <3> QED BY <3>2, <3>3
  <2>2. /\ Append(parts, h[l]) \in Seq(Seq(T)) /\ Len(Append(parts, h[l])) = k + 1
        /\ Append(parts, h[l])[k + 1] = h[l]
        /\ \A n \in 1..k : Append(parts, h[l])[n] = parts[n]
    BY <1>5, <1>7, AppendProperties
  <2>3. \A n \in 1..k : n \in 1..(k + 1) /\ more[n] = parts[n]
    BY <1>3, <1>4, <1>6
  <2>4. more[k + 1] = h[l]
    <3>1. k + 1 \in 1..(k + 1)
      OBVIOUS
    <3> QED BY <1>3, <1>6, <3>1
  <2>5. \A n \in 1..(k + 1) : n \in 1..k \/ n = k + 1
    OBVIOUS
  <2> QED BY <2>1, <2>2, <2>3, <2>4, <2>5, SeqEqual
<1>9. FlattenSeq(parts) \in Seq(T) /\ FlattenSeq(Append(parts, h[l])) = FlattenSeq(parts) \o h[l]
  BY <1>5, <1>7, FlattenTyped, FlattenAppend
<1> QED
  BY <1>4, <1>6, <1>8, <1>9

LEMMA SplitPlain == ASSUME NEW t \in PlainTexts PROVE Split(t) = <<t>>
<1>1. PICK p : t = <<p>> /\ p = t[1]
  BY DEF PlainTexts, IsCommand
<1>2. p.is # "blank" /\ Strip(t) = t
  BY <1>1 DEF PlainTexts, IsCommand
<1>3. DOMAIN t = {1} /\ Strip(<<t[1]>>) = t
  BY <1>1, <1>2
<1>4. PICK s : s = <<t>>
  OBVIOUS
<1>5. Split(t) = FlattenSeq([n \in {1} |-> s])
  <2>1. \A n \in DOMAIN t : (IF t[n].is = "blank" THEN <<>> ELSE <<Strip(<<t[n]>>)>>) = s
    BY <1>1, <1>2, <1>3, <1>4
  <2>2. [n \in DOMAIN t |-> IF t[n].is = "blank" THEN <<>> ELSE <<Strip(<<t[n]>>)>>]
          = [n \in {1} |-> s]
    BY <1>3, <2>1
  <2> QED BY <2>2 DEF Split
<1>6. [n \in {1} |-> s] = Append(<<>>, s)
  <2>1. Append(<<>>, s) = <<s>> /\ <<s>> = [n \in 1..1 |-> s] /\ 1..1 = {1}
    OBVIOUS
  <2> QED BY <2>1
<1>7. PICK S : S = {t}
  OBVIOUS
<1>8. s \in Seq(S) /\ <<>> \in Seq(Seq(S))
  BY <1>4, <1>7
<1>9. FlattenSeq(Append(<<>>, s)) = FlattenSeq(<<>>) \o s
  BY <1>8, FlattenAppend
<1>10. FlattenSeq(<<>>) = <<>>
  BY DEF FlattenSeq
<1>11. <<>> \o s = s
  BY <1>8
<1> QED
  BY <1>4, <1>5, <1>6, <1>9, <1>10, <1>11

LEMMA SplitMore ==
  ASSUME NEW lines \in Seq(PlainTexts), NEW t \in PlainTexts
  PROVE  /\ SplitCommands(lines) \in Seq(PlainTexts)
         /\ SplitCommands(Append(lines, t)) = Append(SplitCommands(lines), t)
<1>a. Append(lines, t) \in Seq(PlainTexts) /\ \A x \in PlainTexts : <<x>> \in Seq(PlainTexts)
  OBVIOUS
<1>2. PICK more \in Seq(PlainTexts) : more = Append(lines, t)
  BY <1>a
<1> DEFINE h == [x \in PlainTexts |-> Split(x)]
<1>1. h \in [PlainTexts -> Seq(PlainTexts)] /\ h[t] = <<t>>
  <2>1. \A x \in PlainTexts : Split(x) = <<x>>
    BY SplitPlain
  <2> QED BY <1>a, <2>1
<1>3. ASSUME NEW s \in Seq(PlainTexts) PROVE SplitCommands(s) = FlattenSeq([n \in DOMAIN s |-> h[s[n]]])
  <2>1. \A n \in DOMAIN s : s[n] \in PlainTexts
    OBVIOUS
  <2>2. [n \in DOMAIN s |-> Split(s[n])] = [n \in DOMAIN s |-> h[s[n]]]
    BY <2>1
  <2> QED BY <2>2 DEF SplitCommands
<1> HIDE DEF h
<1>b. PICK a : Each(a, lines, h)
  BY DEF Each
<1>c. PICK b : Each(b, more, h)
  BY DEF Each
<1>e. OneMore(PlainTexts, PlainTexts, h, lines, t, a, b)
  BY <1>1, <1>2, <1>b, <1>c DEF OneMore
<1>4. FlattenSeq(a) \in Seq(PlainTexts) /\ FlattenSeq(b) = FlattenSeq(a) \o h[t]
  BY <1>e, FlattenMapped
<1>d. SplitCommands(lines) = FlattenSeq(a) /\ SplitCommands(more) = FlattenSeq(b)
  BY <1>3, <1>b, <1>c DEF Each
<1>5. PICK all \in Seq(PlainTexts) : all = SplitCommands(lines)
  BY <1>4, <1>d
<1>6. SplitCommands(more) = all \o <<t>>
  BY <1>1, <1>4, <1>5, <1>d
<1>7. all \o <<t>> = Append(all, t)
  OBVIOUS
<1> QED
  BY <1>2, <1>5, <1>6, <1>7

LEMMA ReadBackMore ==
  ASSUME OneLineEach, NEW f \in Seq(Lines), NEW l \in Lines
  PROVE  /\ ReadBack(f) \in Seq(PlainTexts)
         /\ l \in Notes => ReadBack(Append(f, l)) = ReadBack(f)
         /\ \A t \in PlainTexts : l = Plain(t) => ReadBack(Append(f, l)) = Append(ReadBack(f), t)
<1>1. \A x \in Lines : x \in Notes \/ \E t \in PlainTexts : x = Plain(t)
  BY DEF Lines
<1>2. \A x \in Lines : Held(x) \in Seq(PlainTexts)
  <2>1. /\ \A x \in Notes : Held(x) = <<>>
        /\ \A t \in PlainTexts : Held(Plain(t)) = <<t>>
    BY HeldIs
  <2>2. <<>> \in Seq(PlainTexts) /\ \A t \in PlainTexts : <<t>> \in Seq(PlainTexts)
    OBVIOUS
  <2> QED BY <1>1, <2>1, <2>2
<1>3. Append(f, l) \in Seq(Lines)
  OBVIOUS
<1>4. PICK more \in Seq(Lines) : more = Append(f, l)
  BY <1>3
<1>5. PICK h : h = [x \in Lines |-> Held(x)]
  OBVIOUS
<1>6. h \in [Lines -> Seq(PlainTexts)] /\ h[l] = Held(l)
  BY <1>2, <1>5
<1>7. ASSUME NEW s \in Seq(Lines)
      PROVE  ReadBack(s) = SplitCommands(FlattenSeq([n \in DOMAIN s |-> h[s[n]]]))
  <2>1. \A n \in DOMAIN s : s[n] \in Lines
    OBVIOUS
  <2>2. \A n \in DOMAIN s : (IF s[n].comment
                             THEN IF s[n].texts = <<>> THEN <<>> ELSE Tail(s[n].texts)
                             ELSE s[n].texts) = h[s[n]]
    BY <1>5, <2>1 DEF Held
  <2>3. [n \in DOMAIN s |-> IF s[n].comment
                            THEN IF s[n].texts = <<>> THEN <<>> ELSE Tail(s[n].texts)
                            ELSE s[n].texts] = [n \in DOMAIN s |-> h[s[n]]]
    BY <2>2
  <2> QED BY <2>3 DEF ReadBack
<1>a. PICK a : Each(a, f, h)
  BY DEF Each
<1>b. PICK b : Each(b, more, h)
  BY DEF Each
<1>8. FlattenSeq(a) \in Seq(PlainTexts) /\ FlattenSeq(b) = FlattenSeq(a) \o h[l]
  <2>1. OneMore(Lines, PlainTexts, h, f, l, a, b)
    BY <1>4, <1>6, <1>a, <1>b DEF OneMore
  <2> QED BY <2>1, FlattenMapped
<1>9. PICK held \in Seq(PlainTexts) : held = FlattenSeq(a)
  BY <1>8
<1>10. ReadBack(f) = SplitCommands(held) /\ ReadBack(more) = SplitCommands(held \o Held(l))
  BY <1>6, <1>7, <1>8, <1>9, <1>a, <1>b DEF Each
<1>11. ASSUME l \in Notes PROVE ReadBack(more) = ReadBack(f)
  <2>1. Held(l) = <<>>
    BY <1>11, HeldIs
  <2>2. held \o <<>> = held
    OBVIOUS
  <2> QED BY <1>10, <2>1, <2>2
<1>12. ASSUME NEW t \in PlainTexts, l = Plain(t) PROVE ReadBack(more) = Append(ReadBack(f), t)
  <2>1. Held(l) = <<t>>
    BY <1>12, HeldIs
  <2>2. held \o <<t>> = Append(held, t)
    OBVIOUS
  <2>3. SplitCommands(Append(held, t)) = Append(SplitCommands(held), t)
    BY SplitMore
  <2> QED BY <1>10, <2>1, <2>2, <2>3
<1>13. ReadBack(f) \in Seq(PlainTexts)
  <2>1. CASE PlainTexts = {}
    <3>1. held = <<>>
      BY <2>1
    <3>2. SplitCommands(<<>>) = <<>>
      BY DEF SplitCommands, FlattenSeq
    <3> QED BY <1>10, <3>1, <3>2
  <2>2. CASE PlainTexts # {}
    <3>1. SplitCommands(held) \in Seq(PlainTexts)
      BY <2>2, SplitMore
    <3> QED BY <1>10, <3>1
  <2> QED BY <2>1, <2>2
<1> QED
  BY <1>4, <1>11, <1>12, <1>13

\* Notes are not read.
LEMMA ReadBackNotes ==
  ASSUME OneLineEach, NEW f \in Seq(Lines), NEW c \in Seq(Notes)
  PROVE  f \o c \in Seq(Lines) /\ ReadBack(f \o c) = ReadBack(f)
<1>1. PICK n \in Nat : n = Len(c)
  OBVIOUS
<1>2. c \in Seq(Lines) /\ \A i \in 1..n : c[i] \in Notes /\ c[i] \in Lines
  BY <1>1 DEF Lines
<1>a. SubSeq(c, 1, n) = c /\ SubSeq(c, 1, 0) = <<>> /\ f \o <<>> = f
  BY <1>1
<1>b. ASSUME NEW m \in 0..(n - 1)
      PROVE  /\ SubSeq(c, 1, m) \in Seq(Lines)
             /\ SubSeq(c, 1, m + 1) = Append(SubSeq(c, 1, m), c[m + 1])
  <2>1. m \in Nat /\ m \in 0..Len(c) /\ m + 1 \in 1..Len(c)
    BY <1>1
  <2>2. SubSeq(c, 1, m) \in Seq(Lines) /\ SubSeq(c, 1, m + 1) \in Seq(Lines)
    BY <1>2, <2>1
  <2>3. SubSeq(c, 1, m + 1) = Append(SubSeq(c, 1, m), c[m + 1])
    BY <1>2, <2>1
  <2> QED BY <2>2, <2>3
<1> DEFINE Good == {m \in 0..n : /\ f \o SubSeq(c, 1, m) \in Seq(Lines)
                                 /\ ReadBack(f \o SubSeq(c, 1, m)) = ReadBack(f)}
<1>3. 0 \in Good
  <2>1. 0 \in 0..n
    BY <1>1
  <2> QED BY <1>a, <2>1
<1>4. ASSUME NEW m \in 0..(n - 1), m \in Good PROVE m + 1 \in Good
  <2>1. m \in Nat /\ m + 1 \in 0..n /\ m + 1 \in 1..n
    BY <1>1
  <2>2. PICK part \in Seq(Lines) : part = SubSeq(c, 1, m)
    BY <1>b
  <2>3. PICK l \in Lines : l = c[m + 1] /\ l \in Notes
    BY <1>2, <2>1
  <2>4. PICK fp \in Seq(Lines) : fp = f \o part
    BY <1>4, <2>2
  <2>5. ReadBack(fp) = ReadBack(f)
    BY <1>4, <2>2, <2>4
  <2>6. f \o SubSeq(c, 1, m + 1) = Append(fp, l)
    <3>1. SubSeq(c, 1, m + 1) = Append(part, l)
      BY <1>b, <2>2, <2>3
    <3>2. f \o Append(part, l) = Append(f \o part, l)
      OBVIOUS
    <3> QED BY <2>4, <3>1, <3>2
  <2>7. Append(fp, l) \in Seq(Lines)
    OBVIOUS
  <2>8. ReadBack(Append(fp, l)) = ReadBack(f)
    BY <2>3, <2>5, ReadBackMore
  <2> QED BY <2>1, <2>6, <2>7, <2>8
<1>5. n \in Good
  <2> HIDE DEF Good
  <2> QED BY <1>1, <1>3, <1>4, UpwardFrom
<1> QED
  BY <1>a, <1>5
----------------------------------------------------------------------------
(* What is read again does what was done. *)

\* A command of the script needs nothing more of Python.
Plainly(l) == \A c \in CommandsOf(l.script) : c[1].opens = "no"

\* Lines are typed whole, one command on each, without space around it.  A script
\* has no block in it, or is a batch that starts no recording of its own; what is
\* typed after a script is typed because it did not quit.
Recordable ==
  /\ OneLineEach
  /\ \A t \in Typed : t = <<t[1]>> /\ Strip(t) = t /\ t[1].opens = "no"
  /\ \A l \in Launches :
       \/ Plainly(l) /\ (l.batch \/ \A c \in CommandsOf(l.script) : c[1].is # "quit")
       \/ l.batch /\ \A c \in CommandsOf(l.script) : c[1].is # "record"

\* What may be pushed in this session.
Fits(t) == t \in CommandsOf(launch.script) \/ (t \in Typed /\ ~ launch.batch)

\* Something may still be pushed.
Going == phase = "prompt" \/ (phase = "script" /\ (todo # <<>> \/ ~ launch.batch))

Read(p) == ReadBack(files[p])
Until(p) == IF spans[p].to = -1 THEN Len(ran) ELSE spans[p].to

\* A recording does what was done, and is of no more than was executed.
Kept(p) ==
  /\ spans[p].to = -1 <=> recorder = p
  /\ spans[p].from <= Until(p) /\ Until(p) <= Len(ran)
  /\ Replayed(UntilQuit(Read(p))).ran = SubSeq(ran, spans[p].from + 1, Until(p))

AllKept ==
  /\ SessionType
  /\ recorder \in Paths \cup {None}
  /\ files \in [Paths -> Seq(Lines)]
  /\ spans \in [Paths -> [from : Nat, to : Nat \cup {-1}]]
  /\ Plainly(launch) => buffer = <<>>
  /\ \A p \in Paths : Kept(p)

\* The open recording would leave Python waiting for what the console waits for.
Following ==
  recorder # None =>
    /\ \A n \in DOMAIN Read(recorder) : ~ Quits(Read(recorder)[n])
    /\ Replayed(Read(recorder)).buffer = buffer

\* The inductive invariant of recordings.
RecordInv ==
  /\ AllKept
  /\ Going => Following
  /\ phase = "prompt" => ~ launch.batch
  /\ phase = "script" =>
       /\ todo \in Seq(CommandsOf(launch.script))
       /\ ~ launch.batch => \A n \in DOMAIN todo : ~ Quits(todo[n])

LEMMA StripTwice ==
  ASSUME NEW p
  PROVE  Strip(Strip(<<p>>)) = Strip(<<p>>)
<1>1. PICK q : q = [p EXCEPT !.indented = FALSE]
  OBVIOUS
<1>2. [q EXCEPT !.indented = FALSE] = q
  BY <1>1
<1>3. \A x : DOMAIN <<x>> = {1} /\ <<x>>[1] = x
  OBVIOUS
<1>4. ASSUME NEW x PROVE Strip(<<x>>) = <<[x EXCEPT !.indented = FALSE]>>
  <2>1. PICK y : y = [x EXCEPT !.indented = FALSE]
    OBVIOUS
  <2>2. Strip(<<x>>) = [n \in {1} |-> [<<x>>[n] EXCEPT !.indented = FALSE]]
    BY <1>3 DEF Strip
  <2>3. \A n \in {1} : <<x>>[n] = x
    BY <1>3
  <2>4. Strip(<<x>>) = [n \in {1} |-> y]
    BY <2>1, <2>2, <2>3
  <2>5. <<y>> = [n \in {1} |-> y]
    <3>1. <<y>> = [n \in 1..1 |-> y] /\ 1..1 = {1}
      OBVIOUS
    <3> QED BY <3>1
  <2> QED BY <2>1, <2>4, <2>5
<1> QED
  BY <1>1, <1>2, <1>4

\* What is pushed in a session that can be recorded.
LEMMA FitsIs ==
  ASSUME Recordable, launch \in Launches, NEW t, Fits(t)
  PROVE  /\ t \in Pushable /\ Whole(t) = t[1] /\ IsPart(t[1]) /\ ~ t[1].indented
         /\ t[1].is # "blank" => t \in PlainTexts
         /\ Plainly(launch) => t[1].opens = "no"
         /\ ~ Plainly(launch) => t[1].is # "blank" /\ t[1].is # "record"
<1>a. /\ Plainly(launch) \/ (launch.batch /\ \A c \in CommandsOf(launch.script) : c[1].is # "record")
      /\ \A x \in Typed : x = <<x[1]>> /\ Strip(x) = x /\ x[1].opens = "no"
  BY DEF Recordable
<1>1. CASE t \in CommandsOf(launch.script)
  <2>1. PICK n \in DOMAIN launch.script : \E m \in DOMAIN launch.script[n] :
          t = Strip(<<launch.script[n][m]>>)
    BY <1>1 DEF CommandsOf
  <2>2. Strip(t) = t
    BY <2>1, StripTwice
  <2>3. IsCommand(t)
    <3>1. IsList(launch.script) /\ \A i \in DOMAIN launch.script : IsText(launch.script[i])
      BY SessionAssumption DEF IsLaunch
    <3> QED BY <1>1, <3>1, CommandsAre
  <2>4. t \in Pushable
    BY <1>1 DEF Pushable
  <2>5. t \in PlainTexts /\ Whole(t) = t[1]
    BY <2>2, <2>3, <2>4, CommandIs DEF PlainTexts
  <2> QED BY <1>a, <1>1, <2>3, <2>4, <2>5 DEF IsCommand, Plainly
<1>2. CASE t \in Typed /\ ~ launch.batch
  <2>1. t = <<t[1]>> /\ Strip(t) = t /\ t[1].opens = "no" /\ Plainly(launch)
    BY <1>a, <1>2
  <2>2. PICK p : p = t[1] /\ t = <<p>>
    BY <2>1
  <2>3. Len(t) = 1 /\ DOMAIN t = {1}
    BY <2>2
  <2>4. IsPart(p)
    <3>1. IsText(t)
      BY <1>2, SessionAssumption
    <3> QED BY <2>2, <2>3, <3>1 DEF IsText
  <2>5. ~ p.indented
    <3>1. Strip(t)[1] = [p EXCEPT !.indented = FALSE]
      BY <2>2, <2>3 DEF Strip
    <3>2. p = [p EXCEPT !.indented = FALSE]
      BY <2>1, <2>2, <3>1
    <3>3. "indented" \in DOMAIN p
      BY <2>4 DEF IsPart
    <3> QED BY <3>2, <3>3
  <2>6. Whole(t) = t[1] /\ t \in Pushable
    BY <1>2, <2>3 DEF Whole, Pushable
  <2>7. p.is # "blank" => IsCommand(t)
    BY <2>1, <2>2, <2>4, <2>5 DEF IsCommand
  <2>8. p.is # "blank" => t \in PlainTexts
    BY <2>1, <2>6, <2>7 DEF PlainTexts
  <2> QED BY <2>1, <2>2, <2>4, <2>5, <2>6, <2>8
<1> QED
  BY <1>1, <1>2 DEF Fits

\* Without a block, Python never waits, and a blank line does nothing.
LEMMA NeverWaits ==
  ASSUME Recordable, launch \in Launches, NEW t, Fits(t), Plainly(launch)
  PROVE  Left(<<>>, t) = <<>> /\ (t[1].is = "blank" => Done(<<>>, t) = <<>>)
<1>1. Whole(t) = t[1] /\ ~ t[1].indented /\ t[1].opens = "no"
  BY FitsIs
<1>2. Feed(<<>>, Whole(t)) = "run"
  BY <1>1 DEF Feed
<1>3. Left(<<>>, t) = <<>>
  BY <1>2 DEF Left
<1>4. ASSUME t[1].is = "blank" PROVE Done(<<>>, t) = <<>>
  BY <1>1, <1>2, <1>4 DEF Done, Statements
<1> QED
  BY <1>3, <1>4

LEMMA UntilNone ==
  ASSUME NEW S, NEW s \in Seq(S), \A n \in DOMAIN s : ~ Quits(s[n])
  PROVE  /\ UntilQuit(s) = s
         /\ \A q \in S : Quits(q) => UntilQuit(Append(s, q)) = s
         /\ \A t \in S : ~ Quits(t) => \A n \in DOMAIN Append(s, t) : ~ Quits(Append(s, t)[n])
<1>1. UntilQuit(s) = s
  BY DEF UntilQuit
<1>2. PICK k \in Nat : k = Len(s)
  OBVIOUS
<1>3. \A n \in 1..k : ~ Quits(s[n])
  BY <1>2
<1>4. ASSUME NEW q \in S, Quits(q) PROVE UntilQuit(Append(s, q)) = s
  <2>1. PICK more \in Seq(S) : more = Append(s, q)
    <3>1. Append(s, q) \in Seq(S)
      OBVIOUS
    <3> QED BY <3>1
  <2>2. /\ Len(more) = k + 1 /\ DOMAIN more = 1..(k + 1) /\ more[k + 1] = q
        /\ \A n \in 1..k : more[n] = s[n]
    BY <1>2, <2>1
  <2>3. PICK u \in Seq(S) : u = UntilQuit(more)
    BY UntilIs
  <2>4. /\ Len(u) <= k + 1
        /\ \A n \in 1..Len(u) : u[n] = more[n] /\ ~ Quits(more[n])
        /\ Len(u) < k + 1 => Quits(more[Len(u) + 1])
    BY <2>2, <2>3, UntilIs
  <2>5. Len(u) \in Nat
    OBVIOUS
  <2>6. Len(u) # k + 1
    BY <1>4, <2>2, <2>4
  <2>7. ~ (Len(u) < k)
    <3>1. SUFFICES ASSUME Len(u) < k PROVE FALSE
      OBVIOUS
    <3>2. Len(u) + 1 \in 1..k
      BY <2>5, <3>1
    <3>3. Quits(more[Len(u) + 1])
      BY <2>4, <2>5, <3>1
    <3> QED BY <1>3, <2>2, <3>2, <3>3
  <2>8. Len(u) = k
    BY <2>4, <2>5, <2>6, <2>7
  <2>9. \A n \in 1..Len(u) : u[n] = s[n]
    BY <2>2, <2>4, <2>8
  <2>10. u = s
    BY <1>2, <2>8, <2>9, SeqEqual
  <2> QED BY <2>1, <2>3, <2>10
<1>5. ASSUME NEW t \in S, ~ Quits(t) PROVE \A n \in DOMAIN Append(s, t) : ~ Quits(Append(s, t)[n])
  <2>1. PICK more : more = Append(s, t)
    OBVIOUS
  <2>2. /\ DOMAIN more = 1..(k + 1) /\ more[k + 1] = t /\ \A n \in 1..k : more[n] = s[n]
    BY <1>2, <2>1
  <2>3. \A n \in 1..(k + 1) : n \in 1..k \/ n = k + 1
    OBVIOUS
  <2> QED BY <1>3, <1>5, <2>1, <2>2, <2>3
<1> QED
  BY <1>1, <1>4, <1>5

LEMMA ReplayedTyped ==
  ASSUME NEW texts \in Seq(Pushable)
  PROVE  IsConsole(Replayed(texts))
<1>1. PICK n \in Nat : n = Len(texts)
  OBVIOUS
<1>2. SubSeq(texts, 1, n) = texts /\ SubSeq(texts, 1, 0) = <<>>
  BY <1>1
<1>3. ASSUME NEW m \in 0..(n - 1)
      PROVE  /\ SubSeq(texts, 1, m) \in Seq(Pushable) /\ texts[m + 1] \in Pushable
             /\ SubSeq(texts, 1, m + 1) = Append(SubSeq(texts, 1, m), texts[m + 1])
  <2>1. m \in Nat /\ m \in 0..Len(texts) /\ m + 1 \in 1..Len(texts)
    BY <1>1
  <2>2. SubSeq(texts, 1, m) \in Seq(Pushable) /\ texts[m + 1] \in Pushable
    BY <2>1
  <2>3. SubSeq(texts, 1, m + 1) = Append(SubSeq(texts, 1, m), texts[m + 1])
    BY <2>1
  <2> QED BY <2>2, <2>3
<1> DEFINE Good == {m \in 0..n : IsConsole(Replayed(SubSeq(texts, 1, m)))}
<1>4. 0 \in Good
  <2>1. 0 \in 0..n
    BY <1>1
  <2>2. IsConsole(Fresh)
    BY DEF IsConsole, Fresh
  <2> QED BY <1>2, <2>1, <2>2, ReplayedNone
<1>5. ASSUME NEW m \in 0..(n - 1), m \in Good PROVE m + 1 \in Good
  <2>1. m + 1 \in 0..n
    BY <1>1
  <2>2. PICK part \in Seq(Pushable) : part = SubSeq(texts, 1, m)
    BY <1>3
  <2>3. PICK t \in Pushable : t = texts[m + 1]
    BY <1>3
  <2>4. IsConsole(Replayed(part))
    BY <1>5, <2>2
  <2>5. IsConsole(Pushed(Replayed(part), t))
    BY <2>4, PushedIs
  <2>6. Replayed(Append(part, t)) = Pushed(Replayed(part), t)
    BY ReplayedMore
  <2> QED BY <1>3, <2>1, <2>2, <2>3, <2>5, <2>6
<1>6. n \in Good
  <2> HIDE DEF Good
  <2> QED BY <1>1, <1>4, <1>5, UpwardFrom
<1> QED
  BY <1>2, <1>6

\* The part of a sequence that something covers, when the sequence grows.
LEMMA PartGrows ==
  ASSUME NEW S, NEW s \in Seq(S), NEW d \in Seq(S), NEW a \in Nat, a <= Len(s)
  PROVE  /\ SubSeq(s \o d, a + 1, Len(s \o d)) = SubSeq(s, a + 1, Len(s)) \o d
         /\ \A b \in Nat : b <= Len(s) => SubSeq(s \o d, a + 1, b) = SubSeq(s, a + 1, b)
<1>1. PICK k \in Nat : k = Len(s)
  OBVIOUS
<1>2. PICK m \in Nat : m = Len(d)
  OBVIOUS
<1>3. PICK all \in Seq(S) : all = s \o d
  BY ConcatProperties
<1>4. /\ Len(all) = k + m
      /\ \A i \in 1..(k + m) : all[i] = IF i <= k THEN s[i] ELSE d[i - k]
  BY <1>1, <1>2, <1>3, ConcatProperties
<1>5. \A i \in (a + 1)..(k + m) : all[i] \in S
  <2>1. \A i \in (a + 1)..(k + m) : i \in 1..Len(all)
    BY <1>4
  <2> QED BY <2>1
<1>6. \A i \in (a + 1)..k : s[i] \in S
  BY <1>1
<1>7. ASSUME NEW b \in Nat, b <= k PROVE SubSeq(all, a + 1, b) = SubSeq(s, a + 1, b)
  <2>1. \A i \in (a + 1)..b : s[i] \in S /\ all[i] \in S /\ all[i] = s[i]
    BY <1>4, <1>5, <1>6, <1>7
  <2>2. PICK x : x = SubSeq(all, a + 1, b)
    OBVIOUS
  <2>3. PICK y : y = SubSeq(s, a + 1, b)
    OBVIOUS
  <2>4. /\ x \in Seq(S) /\ Len(x) = (IF a + 1 <= b THEN b - (a + 1) + 1 ELSE 0)
        /\ \A i \in 1..(b - (a + 1) + 1) : x[i] = all[(a + 1) + i - 1]
    BY <2>1, <2>2, SubSeqProperties
  <2>5. /\ y \in Seq(S) /\ Len(y) = (IF a + 1 <= b THEN b - (a + 1) + 1 ELSE 0)
        /\ \A i \in 1..(b - (a + 1) + 1) : y[i] = s[(a + 1) + i - 1]
    BY <2>1, <2>3, SubSeqProperties
  <2>6. \A i \in 1..Len(x) : x[i] = y[i]
    BY <2>1, <2>4, <2>5
  <2>7. x = y
    BY <2>4, <2>5, <2>6, SeqEqual
  <2> QED BY <2>2, <2>3, <2>7
<1>8. SubSeq(all, a + 1, k + m) = SubSeq(s, a + 1, k) \o d
  <2>1. PICK x : x = SubSeq(all, a + 1, k + m)
    OBVIOUS
  <2>2. PICK y \in Seq(S) : y = SubSeq(s, a + 1, k)
    <3>1. SubSeq(s, a + 1, k) \in Seq(S)
      BY <1>6, SubSeqProperties
    <3> QED BY <3>1
  <2>a. Len(y) = k - a /\ \A i \in 1..(k - a) : y[i] = s[a + i]
    <3>1. /\ Len(y) = IF a + 1 <= k THEN k - (a + 1) + 1 ELSE 0
          /\ \A i \in 1..(k - (a + 1) + 1) : y[i] = s[(a + 1) + i - 1]
      BY <1>6, <2>2, SubSeqProperties
    <3>2. k - (a + 1) + 1 = k - a /\ (IF a + 1 <= k THEN k - (a + 1) + 1 ELSE 0) = k - a
      BY <1>1
    <3>3. \A i \in 1..(k - a) : (a + 1) + i - 1 = a + i
      OBVIOUS
    <3> QED BY <3>1, <3>2, <3>3
  <2>3. /\ x \in Seq(S) /\ Len(x) = (k - a) + m
        /\ \A i \in 1..((k - a) + m) : x[i] = all[a + i]
    <3>1. /\ x \in Seq(S)
          /\ Len(x) = IF a + 1 <= k + m THEN (k + m) - (a + 1) + 1 ELSE 0
          /\ \A i \in 1..((k + m) - (a + 1) + 1) : x[i] = all[(a + 1) + i - 1]
      <4>1. a + 1 \in Int /\ k + m \in Int
        OBVIOUS
      <4>2. PICK lo \in Int : lo = a + 1
        BY <4>1
      <4>3. PICK hi \in Int : hi = k + m
        BY <4>1
      <4>4. x = SubSeq(all, lo, hi) /\ \A i \in lo..hi : all[i] \in S
        BY <1>5, <2>1, <4>2, <4>3
      <4>5. /\ x \in Seq(S) /\ Len(x) = IF lo <= hi THEN hi - lo + 1 ELSE 0
            /\ \A i \in 1..(hi - lo + 1) : x[i] = all[lo + i - 1]
        BY <4>4, SubSeqProperties
      <4> QED BY <4>2, <4>3, <4>5
    <3>2. /\ (k + m) - (a + 1) + 1 = (k - a) + m
          /\ (IF a + 1 <= k + m THEN (k + m) - (a + 1) + 1 ELSE 0) = (k - a) + m
      BY <1>1
    <3>3. \A i \in 1..((k - a) + m) : (a + 1) + i - 1 = a + i
      OBVIOUS
    <3> QED BY <3>1, <3>2, <3>3
  <2>4. PICK z \in Seq(S) : z = y \o d
    BY ConcatProperties
  <2>5. /\ Len(z) = (k - a) + m
        /\ \A i \in 1..((k - a) + m) : z[i] = IF i <= k - a THEN y[i] ELSE d[i - (k - a)]
    <3>a. k - a \in Nat
      BY <1>1
    <3>1. PICK c \in Nat : c = k - a
      BY <3>a
    <3>2. /\ Len(z) = c + m
          /\ \A i \in 1..(c + m) : z[i] = IF i <= c THEN y[i] ELSE d[i - c]
      <4>1. /\ Len(z) = Len(y) + Len(d)
            /\ \A i \in 1..(Len(y) + Len(d)) : z[i] = IF i <= Len(y) THEN y[i] ELSE d[i - Len(y)]
        BY <2>4, ConcatProperties
      <4>2. Len(y) = c /\ Len(d) = m
        BY <1>2, <2>a, <3>1
      <4> QED BY <4>1, <4>2
    <3> QED BY <3>1, <3>2
  <2>6. \A i \in 1..Len(x) : x[i] = z[i]
    <3> SUFFICES ASSUME NEW i \in 1..((k - a) + m) PROVE x[i] = z[i]
      BY <2>3
    <3>a. a + i \in 1..(k + m)
      BY <1>1
    <3>1. a + i \in 1..(k + m) /\ x[i] = all[a + i]
      BY <2>3, <3>a
    <3>2. CASE i <= k - a
      <4>1. a + i <= k /\ i \in 1..(k - a)
        BY <3>2
      <4> QED BY <1>4, <2>5, <2>a, <3>1, <3>2, <4>1
    <3>3. CASE ~ (i <= k - a)
      <4>1. ~ (a + i <= k) /\ (a + i) - k = i - (k - a)
        BY <3>3
      <4> QED BY <1>4, <2>5, <3>1, <3>3, <4>1
    <3> QED BY <3>2, <3>3
  <2>7. x = z
    BY <2>3, <2>5, <2>6, SeqEqual
  <2> QED BY <2>1, <2>2, <2>4, <2>7
<1> QED
  BY <1>1, <1>3, <1>4, <1>7, <1>8

\* What is printed is never read.
LEMMA OutputIs ==
  ASSUME OneLineEach, NEW f \in [Paths -> Seq(Lines)], NEW to \in Paths \cup {None},
         NEW says, IsList(says), \A n \in DOMAIN says : says[n] \in Said
  PROVE  /\ Output(f, to, says) \in [Paths -> Seq(Lines)]
         /\ \A p \in Paths : ReadBack(Output(f, to, says)[p]) = ReadBack(f[p])
<1>1. CASE to = None
  BY <1>1 DEF Output
<1>2. CASE to # None
  <2>1. PICK notes : notes = [n \in DOMAIN says |-> Comment(says[n])]
    OBVIOUS
  <2>2. notes \in Seq(Notes)
    <3>1. notes \in [1..Len(says) -> Notes] /\ Len(says) \in Nat
      BY <2>1 DEF IsList, Notes
    <3> QED BY <3>1, SeqDef
  <2>3. to \in Paths /\ f[to] \in Seq(Lines)
    BY <1>2
  <2>4. f[to] \o notes \in Seq(Lines) /\ ReadBack(f[to] \o notes) = ReadBack(f[to])
    BY <2>2, <2>3, ReadBackNotes
  <2>5. Output(f, to, says) = [f EXCEPT ![to] = f[to] \o notes]
    BY <1>2, <2>1 DEF Output
  <2> QED BY <2>3, <2>4, <2>5
<1> QED
  BY <1>1, <1>2

LEMMA ReadIs ==
  ASSUME OneLineEach, files \in [Paths -> Seq(Lines)], NEW p \in Paths
  PROVE  Read(p) \in Seq(PlainTexts) /\ Read(p) \in Seq(Pushable) /\ IsConsole(Replayed(Read(p)))
<1>1. PICK f \in Seq(Lines) : f = files[p]
  OBVIOUS
<1>2. ReadBack(f) \in Seq(PlainTexts)
  <2>1. Comment(<<>>) \in Lines
    BY DEF Lines, Notes, Said
  <2> QED BY <2>1, ReadBackMore
<1>3. PlainTexts \subseteq Pushable
  BY DEF PlainTexts
<1>4. ReadBack(f) \in Seq(Pushable)
  BY <1>2, <1>3, SeqMonotonic
<1> QED
  BY <1>1, <1>2, <1>4, ReplayedTyped DEF Read

\* What the recording is after a text has been noted, and what it does then.
LEMMA NotedIs ==
  ASSUME Recordable, AllKept, Following, NEW t, Fits(t)
  PROVE  /\ Command(files, t) \in [Paths -> Seq(Lines)]
         /\ \A q \in Paths : q # recorder => Command(files, t)[q] = files[q]
         /\ recorder # None /\ ~ Quits(t) =>
              LET read == ReadBack(Command(files, t)[recorder])
              IN  /\ read \in Seq(PlainTexts) /\ \A n \in DOMAIN read : ~ Quits(read[n])
                  /\ Replayed(read).buffer = Left(buffer, t)
                  /\ Replayed(read).ran = Replayed(Read(recorder)).ran \o Done(buffer, t)
         /\ recorder # None /\ Quits(t) =>
              UntilQuit(ReadBack(Command(files, t)[recorder])) = Read(recorder)
<1>0. /\ launch \in Launches /\ OneLineEach /\ files \in [Paths -> Seq(Lines)]
      /\ recorder \in Paths \cup {None} /\ buffer \in Seq(Words)
  BY DEF AllKept, SessionType, Recordable
<1>1. /\ t \in Pushable /\ Whole(t) = t[1]
      /\ t[1].is # "blank" => t \in PlainTexts
      /\ ~ Plainly(launch) => t[1].is # "blank"
  BY <1>0, FitsIs
<1>2. CASE recorder = None
  BY <1>0, <1>2 DEF Command
<1>3. CASE recorder # None /\ t[1].is = "blank"
  <2>1. Command(files, t) = files /\ ~ Quits(t)
    BY <1>1, <1>3 DEF Command, Quits
  <2>2. Plainly(launch) /\ buffer = <<>>
    BY <1>1, <1>3 DEF AllKept
  <2>3. Left(buffer, t) = <<>> /\ Done(buffer, t) = <<>>
    BY <1>0, <1>3, <2>2, NeverWaits
  <2>4. PICK read \in Seq(PlainTexts) : read = Read(recorder) /\ IsConsole(Replayed(read))
    BY <1>0, <1>3, ReadIs
  <2>5. Replayed(read).ran \o <<>> = Replayed(read).ran
    BY <2>4 DEF IsConsole
  <2>6. (\A n \in DOMAIN read : ~ Quits(read[n])) /\ Replayed(read).buffer = <<>>
    BY <1>3, <2>2, <2>4 DEF Following
  <2> QED BY <1>0, <2>1, <2>3, <2>4, <2>5, <2>6 DEF Read
<1>4. CASE recorder # None /\ t[1].is # "blank"
  <2>1. t \in PlainTexts /\ Plain(t) \in Lines
    BY <1>1, <1>4 DEF Lines
  <2>2. PICK f \in Seq(Lines) : f = files[recorder]
    BY <1>0, <1>4
  <2>a. Append(f, Plain(t)) \in Seq(Lines)
    BY <2>1
  <2>3. Command(files, t) = [files EXCEPT ![recorder] = Append(f, Plain(t))]
    BY <1>0, <1>1, <1>4, <2>2 DEF Command
  <2>4. /\ Command(files, t) \in [Paths -> Seq(Lines)]
        /\ Command(files, t)[recorder] = Append(f, Plain(t))
        /\ \A q \in Paths : q # recorder => Command(files, t)[q] = files[q]
    BY <1>0, <1>4, <2>a, <2>3
  <2>5. PICK read \in Seq(PlainTexts) : read = Read(recorder) /\ IsConsole(Replayed(read))
    BY <1>0, <1>4, ReadIs
  <2>6. ReadBack(Append(f, Plain(t))) = Append(read, t)
    BY <1>0, <2>1, <2>2, <2>5, ReadBackMore DEF Read
  <2>7. (\A n \in DOMAIN read : ~ Quits(read[n])) /\ Replayed(read).buffer = buffer
    BY <1>4, <2>5 DEF Following
  <2>8. ASSUME Quits(t) PROVE UntilQuit(Append(read, t)) = read
    BY <2>1, <2>7, <2>8, UntilNone
  <2>9. ASSUME ~ Quits(t)
        PROVE  \A n \in DOMAIN Append(read, t) : ~ Quits(Append(read, t)[n])
    BY <2>1, <2>7, <2>9, UntilNone
  <2>10. Append(read, t) \in Seq(PlainTexts)
    BY <2>1
  <2>11. Replayed(Append(read, t)) = Pushed(Replayed(read), t)
    BY <2>1, ReplayedMore
  <2>12. /\ Pushed(Replayed(read), t).buffer = Left(buffer, t)
         /\ Pushed(Replayed(read), t).ran = Replayed(read).ran \o Done(buffer, t)
    BY <1>1, <2>5, <2>7, PushedIs
  <2> QED BY <2>4, <2>5, <2>6, <2>8, <2>9, <2>10, <2>11, <2>12
<1> QED
  BY <1>2, <1>3, <1>4

\* What a recording covers up to now, or up to where it ended.
Extent(sp, q) == IF sp[q].to = -1 THEN Len(ran') ELSE sp[q].to

\* With the file f and the spans sp, what was done after the step is kept.
KeptNow(f, sp, q) ==
  /\ sp[q].from <= Extent(sp, q) /\ Extent(sp, q) <= Len(ran')
  /\ Replayed(UntilQuit(ReadBack(f[q]))).ran = SubSeq(ran', sp[q].from + 1, Extent(sp, q))

LEMMA PushNoted ==
  ASSUME Recordable, AllKept, Following, NEW t, Fits(t), ~ Quits(t), Push(t)
  PROVE  /\ buffer' = Left(buffer, t)
         /\ Len(ran) <= Len(ran')
         /\ Plainly(launch) => buffer' = <<>>
         /\ \A q \in Paths : KeptNow(Command(files, t), spans, q)
<1>0. /\ launch \in Launches /\ OneLineEach /\ SessionType
      /\ buffer \in Seq(Words) /\ errors \in Nat /\ ran \in Seq(Seq(STRING))
      /\ spans \in [Paths -> [from : Nat, to : Nat \cup {-1}]]
      /\ \A q \in Paths : Kept(q)
  BY DEF AllKept, SessionType, Recordable
<1>1. t \in Pushable
  BY <1>0, FitsIs
<1>2. PICK d \in Seq(Seq(STRING)) : d = Done(buffer, t)
  BY <1>0, <1>1, DoneIs
<1>3. buffer' = Left(buffer, t) /\ ran' = ran \o d
  <2>1. IsConsole(State) /\ State.buffer = buffer /\ State.ran = ran
    BY <1>0 DEF IsConsole, State
  <2>2. buffer' = Pushed(State, t).buffer /\ ran' = Pushed(State, t).ran
    BY DEF Push
  <2> QED BY <1>1, <1>2, <2>1, <2>2, PushedIs
<1>4. Len(ran) \in Nat /\ Len(ran') \in Nat /\ Len(ran) <= Len(ran')
  BY <1>0, <1>2, <1>3
<1>5. ASSUME Plainly(launch) PROVE buffer' = <<>>
  BY <1>0, <1>3, <1>5, NeverWaits DEF AllKept
<1>6. ASSUME NEW q \in Paths PROVE KeptNow(Command(files, t), spans, q)
  <2>1. PICK a \in Nat : a = spans[q].from
    BY <1>0
  <2>2. PICK b \in Nat \cup {-1} : b = spans[q].to
    BY <1>0
  <2>3. /\ b = -1 <=> recorder = q
        /\ Until(q) = (IF b = -1 THEN Len(ran) ELSE b)
        /\ Extent(spans, q) = (IF b = -1 THEN Len(ran') ELSE b)
        /\ a <= Until(q) /\ Until(q) <= Len(ran)
        /\ Replayed(UntilQuit(Read(q))).ran = SubSeq(ran, a + 1, Until(q))
    BY <1>0, <2>1, <2>2 DEF Kept, Until, Extent
  <2>4. a <= Len(ran)
    BY <1>4, <2>3
  <2>5. CASE recorder = q
    <3>1. PICK read \in Seq(PlainTexts) :
            /\ read = ReadBack(Command(files, t)[q]) /\ \A n \in DOMAIN read : ~ Quits(read[n])
            /\ Replayed(read).ran = Replayed(Read(q)).ran \o d
      <4>1. recorder # None
        BY <2>5, SessionAssumption
      <4> QED BY <1>2, <2>5, <4>1, NotedIs
    <3>2. UntilQuit(read) = read
      BY <3>1, UntilNone
    <3>3. UntilQuit(Read(q)) = Read(q)
      <4>1. Read(q) \in Seq(PlainTexts)
        BY <1>0, ReadIs DEF AllKept
      <4>2. \A n \in DOMAIN Read(q) : ~ Quits(Read(q)[n])
        BY <2>5, SessionAssumption DEF Following
      <4> QED BY <4>1, <4>2, UntilNone
    <3>4. Replayed(read).ran = SubSeq(ran, a + 1, Len(ran)) \o d
      BY <2>3, <2>5, <3>1, <3>3
    <3>5. SubSeq(ran', a + 1, Len(ran')) = SubSeq(ran, a + 1, Len(ran)) \o d
      BY <1>0, <1>3, <2>4, PartGrows
    <3>6. Extent(spans, q) = Len(ran') /\ a <= Len(ran')
      BY <1>4, <2>3, <2>4, <2>5
    <3>7. Replayed(UntilQuit(ReadBack(Command(files, t)[q]))).ran = SubSeq(ran', a + 1, Len(ran'))
      BY <3>1, <3>2, <3>4, <3>5
    <3> QED BY <1>4, <2>1, <3>6, <3>7 DEF KeptNow
  <2>6. CASE recorder # q
    <3>1. Command(files, t)[q] = files[q]
      BY <2>6, NotedIs
    <3>2. b \in Nat /\ b <= Len(ran) /\ a <= b
      BY <2>3, <2>6
    <3>3. SubSeq(ran', a + 1, b) = SubSeq(ran, a + 1, b)
      BY <1>0, <1>3, <2>4, <3>2, PartGrows
    <3>4. Extent(spans, q) = b /\ Until(q) = b /\ b <= Len(ran')
      BY <1>4, <2>3, <3>2
    <3>5. Replayed(UntilQuit(ReadBack(Command(files, t)[q]))).ran = SubSeq(ran', a + 1, b)
      BY <2>3, <3>1, <3>3, <3>4 DEF Read
    <3> QED BY <2>1, <3>2, <3>4, <3>5 DEF KeptNow
  <2> QED BY <2>5, <2>6
<1> QED
  BY <1>3, <1>4, <1>5, <1>6

LEMMA HeaderReads ==
  ASSUME OneLineEach
  PROVE  Header \in Seq(Lines) /\ ReadBack(Header) = <<>> /\ UntilQuit(<<>>) = <<>>
<1>1. Comment(<<>>) \in Notes /\ Comment(<<>>) \in Lines
  BY DEF Notes, Lines, Said
<1>2. PICK c : c = Comment(<<>>)
  OBVIOUS
<1>3. Header = <<c>> /\ Append(<<>>, c) = <<c>> /\ <<c>> \in Seq(Lines) /\ <<>> \in Seq(Lines)
  BY <1>1, <1>2 DEF Header
<1>4. ReadBack(Append(<<>>, c)) = ReadBack(<<>>)
  BY <1>1, <1>2, <1>3, ReadBackMore
<1>5. ReadBack(<<>>) = <<>>
  BY DEF ReadBack, SplitCommands, FlattenSeq
<1>6. UntilQuit(<<>>) = <<>>
  <2>1. <<>> \in Seq({}) /\ DOMAIN <<>> = {}
    OBVIOUS
  <2> QED BY <2>1, UntilNone
<1> QED
  BY <1>3, <1>4, <1>5, <1>6

LEMMA PushKeeps ==
  ASSUME Recordable, AllKept, Following, NEW t, Fits(t), ~ Quits(t), Push(t),
         launch' = launch, phase' = phase
  PROVE  AllKept' /\ Following'
<1>0. /\ launch \in Launches /\ OneLineEach /\ SessionType
      /\ files \in [Paths -> Seq(Lines)] /\ recorder \in Paths \cup {None}
      /\ spans \in [Paths -> [from : Nat, to : Nat \cup {-1}]]
      /\ \A q \in Paths : Kept(q)
  BY DEF AllKept, SessionType, Recordable
<1>1. PICK w : w = t[1]
  OBVIOUS
<1>2. /\ t \in Pushable /\ Whole(t) = w /\ IsPart(w)
      /\ ~ Plainly(launch) => w.is # "record"
  BY <1>0, <1>1, FitsIs
<1>3. SessionType'
  <2>1. buffer' \in Seq(Words) /\ errors' \in Nat /\ ran' \in Seq(Seq(STRING))
    BY <1>0, <1>2, PushIs
  <2> QED BY <1>0, <2>1 DEF SessionType
<1>4. PICK n \in Nat : n = Len(ran')
  BY <1>3 DEF SessionType
<1>5. PICK noted \in [Paths -> Seq(Lines)] :
        noted = Command(files, t) /\ \A q \in Paths : q # recorder => noted[q] = files[q]
  BY NotedIs
<1>6. /\ buffer' = Left(buffer, t)
      /\ Plainly(launch) => buffer' = <<>>
      /\ \A q \in Paths : KeptNow(noted, spans, q)
  BY <1>5, PushNoted
<1>7. \A q \in Paths : spans[q].to = -1 <=> recorder = q
  BY <1>0 DEF Kept
<1>8. Plainly(launch') => buffer' = <<>>
  BY <1>6
<1>9. \A q \in Paths : Extent(spans', q) = Until(q)'
  BY DEF Extent, Until
<1>10. ASSUME NEW q \in Paths, KeptNow(files', spans', q), spans'[q].to = -1 <=> recorder' = q
       PROVE  Kept(q)'
  BY <1>9, <1>10 DEF KeptNow, Kept, Read
<1>11. CASE w.is \notin {"record", "off"}
  <2>1. files' = Output(noted, recorder, w.says) /\ recorder' = recorder /\ spans' = spans
    BY <1>2, <1>5, <1>11 DEF Push
  <2>2. IsList(w.says) /\ \A m \in DOMAIN w.says : w.says[m] \in Said
    <3>1. IsList(w.says)
      BY <1>2 DEF IsPart
    <3>2. \A m \in DOMAIN w.says : w.says[m] \in Said
      BY <1>2 DEF Said
    <3> QED BY <3>1, <3>2
  <2>3. /\ files' \in [Paths -> Seq(Lines)]
        /\ \A q \in Paths : ReadBack(files'[q]) = ReadBack(noted[q])
    BY <1>0, <2>1, <2>2, OutputIs
  <2>4. \A q \in Paths : KeptNow(files', spans', q)
    BY <1>6, <2>1, <2>3 DEF KeptNow, Extent
  <2>5. \A q \in Paths : Kept(q)'
    BY <1>7, <1>10, <2>1, <2>4
  <2>6. AllKept'
    BY <1>0, <1>3, <1>8, <2>1, <2>3, <2>5 DEF AllKept
  <2>7. Following'
    <3>1. SUFFICES ASSUME recorder # None
                   PROVE  /\ \A m \in DOMAIN ReadBack(files'[recorder]) : ~ Quits(ReadBack(files'[recorder])[m])
                          /\ Replayed(ReadBack(files'[recorder])).buffer = buffer'
      BY <2>1 DEF Following, Read
    <3>2. ReadBack(files'[recorder]) = ReadBack(Command(files, t)[recorder])
      BY <1>0, <1>5, <2>3, <3>1
    <3> QED BY <1>6, <3>1, <3>2, NotedIs
  <2> QED BY <2>6, <2>7
<1>12. /\ Ended(spans) \in [Paths -> [from : Nat, to : Nat \cup {-1}]]
       /\ \A q \in Paths : /\ Ended(spans)[q].to # -1
                           /\ KeptNow(noted, Ended(spans), q)
  <2>1. CASE recorder = None
    BY <1>0, <1>6, <1>7, <2>1, SessionAssumption DEF Ended
  <2>2. CASE recorder # None
    <3>1. PICK s : s = [spans[recorder] EXCEPT !.to = n]
      OBVIOUS
    <3>2. Ended(spans) = [spans EXCEPT ![recorder] = s]
      BY <1>4, <2>2, <3>1 DEF Ended
    <3>3. /\ s \in [from : Nat, to : Nat \cup {-1}] /\ s.to = n
          /\ s.from = spans[recorder].from
      BY <1>0, <2>2, <3>1
    <3>4. /\ Ended(spans) \in [Paths -> [from : Nat, to : Nat \cup {-1}]]
          /\ Ended(spans)[recorder] = s
          /\ \A q \in Paths : q # recorder => Ended(spans)[q] = spans[q]
      BY <1>0, <2>2, <3>2, <3>3
    <3>5. ASSUME NEW q \in Paths
          PROVE  /\ Ended(spans)[q].to # -1 /\ Extent(Ended(spans), q) = Extent(spans, q)
                 /\ Ended(spans)[q].from = spans[q].from
      BY <1>4, <1>7, <3>3, <3>4 DEF Extent
    <3>6. \A q \in Paths : KeptNow(noted, Ended(spans), q)
      BY <1>6, <3>5 DEF KeptNow
    <3> QED BY <3>4, <3>5, <3>6
  <2> QED BY <2>1, <2>2
<1>13. CASE \/ w.is = "off"
            \/ w.is = "record" /\ w.path = BadPath
  <2>1. files' = noted /\ recorder' = None /\ spans' = Ended(spans)
    BY <1>2, <1>5, <1>13 DEF Push, StartRecording
  <2>2. \A q \in Paths : Kept(q)'
    BY <1>10, <1>12, <2>1, SessionAssumption
  <2> QED BY <1>0, <1>3, <1>8, <1>12, <2>1, <2>2 DEF AllKept, Following
<1>14. CASE w.is = "record" /\ w.path # BadPath
  <2>1. PICK p \in Paths : p = w.path
    BY <1>2, <1>14 DEF IsPart
  <2>2. PICK s : s = [from |-> n, to |-> -1]
    OBVIOUS
  <2>3. /\ files' = [noted EXCEPT ![p] = Header] /\ recorder' = p
        /\ spans' = [Ended(spans) EXCEPT ![p] = s]
    BY <1>2, <1>4, <1>5, <1>14, <2>1, <2>2 DEF Push, StartRecording
  <2>4. s \in [from : Nat, to : Nat \cup {-1}] /\ s.from = n /\ s.to = -1
    BY <2>2
  <2>5. /\ files' \in [Paths -> Seq(Lines)] /\ files'[p] = Header
        /\ \A q \in Paths : q # p => files'[q] = noted[q]
    BY <1>0, <2>3, HeaderReads
  <2>6. /\ spans' \in [Paths -> [from : Nat, to : Nat \cup {-1}]] /\ spans'[p] = s
        /\ \A q \in Paths : q # p => spans'[q] = Ended(spans)[q]
    BY <1>12, <2>3, <2>4
  <2>7. ReadBack(files'[p]) = <<>> /\ Replayed(<<>>) = Fresh /\ UntilQuit(<<>>) = <<>>
    BY <1>0, <2>5, HeaderReads, ReplayedNone
  <2>8. KeptNow(files', spans', p)
    <3>1. SubSeq(ran', n + 1, n) = <<>>
      OBVIOUS
    <3>2. Extent(spans', p) = n
      BY <1>4, <2>4, <2>6 DEF Extent
    <3>3. Replayed(UntilQuit(ReadBack(files'[p]))).ran = SubSeq(ran', n + 1, n)
      <4>1. Fresh.ran = <<>>
        BY DEF Fresh
      <4>2. Replayed(UntilQuit(ReadBack(files'[p]))) = Fresh
        BY <2>7
      <4> QED BY <3>1, <4>1, <4>2
    <3>4. spans'[p].from = n /\ n <= n /\ n <= Len(ran')
      BY <1>4, <2>4, <2>6
    <3> QED BY <3>2, <3>3, <3>4 DEF KeptNow
  <2>9. ASSUME NEW q \in Paths, q # p PROVE KeptNow(files', spans', q)
    <3>1. files'[q] = noted[q] /\ spans'[q] = Ended(spans)[q]
      BY <2>5, <2>6, <2>9
    <3> QED BY <1>12, <3>1 DEF KeptNow, Extent
  <2>10. \A q \in Paths : Kept(q)'
    <3>1. \A q \in Paths : spans'[q].to = -1 <=> recorder' = q
      BY <1>12, <2>3, <2>4, <2>6
    <3> QED BY <1>10, <2>8, <2>9, <3>1
  <2>11. buffer' = <<>>
    BY <1>2, <1>6, <1>14
  <2>12. Following'
    BY <2>3, <2>7, <2>11 DEF Following, Read, Fresh
  <2> QED BY <1>0, <1>3, <1>8, <2>3, <2>5, <2>6, <2>10, <2>12 DEF AllKept
<1> QED
  BY <1>11, <1>13, <1>14

\* Nothing is executed, and the recordings say what they said.
LEMMA StillKept ==
  ASSUME AllKept, UNCHANGED <<launch, recorder, spans, ran>>,
         phase' \in {"script", "prompt", "leaving", "exited"},
         buffer' \in {buffer, <<>>}, errors' \in Nat, files' \in [Paths -> Seq(Lines)],
         \A p \in Paths : UntilQuit(ReadBack(files'[p])) = UntilQuit(Read(p))
  PROVE  AllKept'
<1>1. SessionType'
  <2>1. SessionType /\ <<>> \in Seq(Words)
    BY DEF AllKept
  <2>2. buffer' \in Seq(Words)
    BY <2>1 DEF SessionType
  <2>3. launch' \in Launches /\ ran' \in Seq(Seq(STRING))
    BY <2>1 DEF SessionType
  <2> QED BY <2>2, <2>3 DEF SessionType
<1>2. ASSUME NEW p \in Paths PROVE Kept(p)'
  <2>1. Kept(p) /\ Until(p)' = Until(p)
    BY DEF AllKept, Until
  <2> QED BY <2>1 DEF Kept, Read
<1>3. Plainly(launch') => buffer' = <<>>
  BY DEF AllKept
<1> QED
  BY <1>1, <1>2, <1>3 DEF AllKept

LEMMA QuitKeeps ==
  ASSUME Recordable, AllKept, Following, NEW t, Fits(t), Quits(t), Quit(t),
         launch' = launch, phase' \in {"script", "prompt", "leaving", "exited"}
  PROVE  AllKept'
<1>1. /\ files' = Command(files, t) /\ UNCHANGED <<recorder, spans, ran, buffer, errors>>
      /\ errors \in Nat
  BY DEF Quit, AllKept, SessionType
<1>2. /\ files' \in [Paths -> Seq(Lines)]
      /\ \A q \in Paths : q # recorder => files'[q] = files[q]
      /\ recorder # None => UntilQuit(ReadBack(files'[recorder])) = Read(recorder)
  BY <1>1, NotedIs
<1>3. ASSUME NEW p \in Paths PROVE UntilQuit(ReadBack(files'[p])) = UntilQuit(Read(p))
  <2>1. CASE p # recorder
    BY <1>2, <2>1 DEF Read
  <2>2. CASE p = recorder
    <3>1. recorder # None
      BY <2>2, SessionAssumption
    <3>2. Read(p) \in Seq(PlainTexts)
      BY ReadIs DEF AllKept, Recordable
    <3>3. \A n \in DOMAIN Read(p) : ~ Quits(Read(p)[n])
      BY <2>2, <3>1 DEF Following
    <3>4. UntilQuit(Read(p)) = Read(p)
      BY <3>2, <3>3, UntilNone
    <3> QED BY <1>2, <2>2, <3>1, <3>4
  <2> QED BY <2>1, <2>2
<1> QED
  BY <1>1, <1>2, <1>3, StillKept

LEMMA RecordScript == Recordable /\ RecordInv /\ Script => RecordInv'
<1> SUFFICES ASSUME Recordable, RecordInv, Script PROVE RecordInv'
  OBVIOUS
<1>0. /\ AllKept /\ launch \in Launches /\ phase = "script" /\ todo # <<>>
      /\ todo \in Seq(CommandsOf(launch.script))
      /\ ~ launch.batch => \A n \in DOMAIN todo : ~ Quits(todo[n])
  BY DEF Script, RecordInv, AllKept, SessionType
<1>1. Following
  BY <1>0 DEF RecordInv, Going
<1>2. launch' = launch /\ phase' = phase
  BY DEF Script
<1>3. /\ Head(todo) \in CommandsOf(launch.script) /\ Tail(todo) \in Seq(CommandsOf(launch.script))
      /\ Head(todo) = todo[1] /\ 1 \in DOMAIN todo
      /\ \A n \in DOMAIN Tail(todo) : n + 1 \in DOMAIN todo /\ Tail(todo)[n] = todo[n + 1]
  BY <1>0
<1>4. PICK t : t = Head(todo) /\ Fits(t)
  BY <1>3 DEF Fits
<1>5. CASE Quits(t)
  <2>1. Quit(t) /\ todo' = <<>> /\ launch.batch
    BY <1>0, <1>3, <1>4, <1>5 DEF Script
  <2>2. AllKept'
    BY <1>0, <1>1, <1>2, <1>4, <1>5, <2>1, QuitKeeps
  <2>3. todo' \in Seq(CommandsOf(launch'.script))
    BY <2>1
  <2> QED BY <1>0, <1>2, <2>1, <2>2, <2>3 DEF RecordInv, Going
<1>6. CASE ~ Quits(t)
  <2>1. Push(t) /\ todo' = Tail(todo)
    BY <1>4, <1>6 DEF Script
  <2>2. AllKept' /\ Following'
    BY <1>0, <1>1, <1>2, <1>4, <1>6, <2>1, PushKeeps
  <2>3. todo' \in Seq(CommandsOf(launch'.script))
    BY <1>2, <1>3, <2>1
  <2>4. ~ launch'.batch => \A n \in DOMAIN todo' : ~ Quits(todo'[n])
    BY <1>0, <1>2, <1>3, <2>1
  <2>5. phase' # "prompt"
    BY <1>0, <1>2
  <2> QED BY <2>2, <2>3, <2>4, <2>5 DEF RecordInv
<1> QED
  BY <1>5, <1>6

LEMMA RecordEndScript == Recordable /\ RecordInv /\ EndScript => RecordInv'
<1> SUFFICES ASSUME Recordable, RecordInv, EndScript PROVE RecordInv'
  OBVIOUS
<1>0. /\ AllKept /\ launch \in Launches /\ phase = "script" /\ OneLineEach
      /\ files \in [Paths -> Seq(Lines)] /\ recorder \in Paths \cup {None} /\ errors \in Nat
  BY DEF EndScript, RecordInv, AllKept, SessionType, Recordable
<1>1. /\ UNCHANGED <<launch, recorder, spans, ran>> /\ buffer' = <<>>
      /\ errors' = errors + OneIf(buffer # <<>>)
      /\ phase' = IF launch.batch THEN "leaving" ELSE "prompt"
  BY DEF EndScript
<1>2. PICK says : /\ says \in {<< <<>> >>, <<>>} /\ files' = Output(files, recorder, says)
  BY DEF EndScript
<1>3. IsList(says) /\ \A n \in DOMAIN says : says[n] \in Said
  <2>1. CASE says = <<>>
    BY <2>1 DEF IsList
  <2>2. CASE says = << <<>> >>
    <3>1. Len(says) = 1 /\ DOMAIN says = 1..1 /\ says[1] = <<>> /\ 1..1 = {1}
      BY <2>2
    <3> QED BY <3>1 DEF IsList, Said
  <2> QED BY <1>2, <2>1, <2>2
<1>4. /\ files' \in [Paths -> Seq(Lines)]
      /\ \A p \in Paths : ReadBack(files'[p]) = Read(p)
  BY <1>0, <1>2, <1>3, OutputIs DEF Read
<1>5. errors' \in Nat
  BY <1>0, <1>1 DEF OneIf
<1>6. AllKept'
  BY <1>0, <1>1, <1>4, <1>5, StillKept
<1>7. ASSUME phase' = "prompt" PROVE ~ launch'.batch /\ Following'
  <2>1. ~ launch.batch /\ launch' = launch
    BY <1>1, <1>7
  <2>2. Following /\ Plainly(launch)
    BY <1>0, <2>1 DEF RecordInv, Going, Recordable
  <2>3. buffer' = buffer
    BY <1>0, <1>1, <2>2 DEF AllKept
  <2>4. recorder # None => recorder \in Paths /\ Read(recorder)' = Read(recorder)
    BY <1>0, <1>1, <1>4 DEF Read
  <2> QED BY <1>1, <2>1, <2>2, <2>3, <2>4 DEF Following
<1>8. phase' \in {"leaving", "prompt"}
  BY <1>1
<1> QED
  BY <1>6, <1>7, <1>8 DEF RecordInv, Going

LEMMA RecordType ==
  ASSUME Recordable, RecordInv, NEW text \in Typed, Type(text) PROVE RecordInv'
<1>0. AllKept /\ phase = "prompt" /\ ~ launch.batch /\ Following /\ launch' = launch
  BY DEF RecordInv, Type, Going
<1>1. Fits(text)
  BY <1>0 DEF Fits
<1>2. CASE Quits(text)
  <2>1. Quit(text) /\ phase' = "leaving"
    BY <1>2 DEF Type
  <2>2. AllKept'
    BY <1>0, <1>1, <1>2, <2>1, QuitKeeps
  <2> QED BY <2>1, <2>2 DEF RecordInv, Going
<1>3. CASE ~ Quits(text)
  <2>1. Push(text) /\ phase' = phase
    BY <1>3 DEF Type
  <2>2. AllKept' /\ Following'
    BY <1>0, <1>1, <1>3, <2>1, PushKeeps
  <2> QED BY <1>0, <2>1, <2>2 DEF RecordInv
<1> QED
  BY <1>2, <1>3

LEMMA RecordLeave == Recordable /\ RecordInv /\ Leave => RecordInv'
<1> SUFFICES ASSUME Recordable, RecordInv, Leave PROVE RecordInv'
  OBVIOUS
<1>0. /\ AllKept /\ SessionType /\ recorder \in Paths \cup {None}
      /\ spans \in [Paths -> [from : Nat, to : Nat \cup {-1}]]
      /\ \A p \in Paths : Kept(p)
  BY DEF RecordInv, AllKept
<1>1. /\ phase' = "exited" /\ recorder' = None /\ spans' = Ended(spans)
      /\ UNCHANGED <<launch, buffer, errors, files, ran>>
  BY DEF Leave
<1>2. PICK n \in Nat : n = Len(ran) /\ n = Len(ran')
  BY <1>0, <1>1 DEF SessionType
<1>3. /\ spans' \in [Paths -> [from : Nat, to : Nat \cup {-1}]]
      /\ \A p \in Paths : /\ spans'[p].to # -1 /\ spans'[p].from = spans[p].from
                          /\ Until(p)' = Until(p)
  <2>1. CASE recorder = None
    <3>1. spans' = spans /\ \A p \in Paths : spans[p].to # -1
      BY <1>0, <1>1, <2>1, SessionAssumption DEF Ended, Kept
    <3> QED BY <1>0, <3>1 DEF Until
  <2>2. CASE recorder # None
    <3>1. PICK s : s = [spans[recorder] EXCEPT !.to = n]
      OBVIOUS
    <3>2. spans' = [spans EXCEPT ![recorder] = s]
      BY <1>1, <1>2, <2>2, <3>1 DEF Ended
    <3>3. /\ s \in [from : Nat, to : Nat \cup {-1}] /\ s.to = n
          /\ s.from = spans[recorder].from
      BY <1>0, <2>2, <3>1
    <3>4. /\ spans' \in [Paths -> [from : Nat, to : Nat \cup {-1}]] /\ spans'[recorder] = s
          /\ \A p \in Paths : p # recorder => spans'[p] = spans[p]
      BY <1>0, <2>2, <3>2, <3>3
    <3>5. \A p \in Paths : spans[p].to = -1 <=> recorder = p
      BY <1>0 DEF Kept
    <3> QED BY <1>2, <3>3, <3>4, <3>5 DEF Until
  <2> QED BY <2>1, <2>2
<1>4. ASSUME NEW p \in Paths PROVE Kept(p)'
  <2>1. Read(p)' = Read(p) /\ recorder' # p
    BY <1>1, SessionAssumption DEF Read
  <2> QED BY <1>0, <1>1, <1>2, <1>3, <2>1 DEF Kept
<1>5. SessionType' /\ (Plainly(launch') => buffer' = <<>>)
  BY <1>0, <1>1 DEF SessionType, AllKept
<1>6. AllKept'
  BY <1>0, <1>1, <1>3, <1>4, <1>5 DEF AllKept
<1> QED
  BY <1>1, <1>6 DEF RecordInv, Going

\* Nothing is pushed, and what is written is not read.
LEMMA RecordQuiet ==
  ASSUME RecordInv, UNCHANGED <<launch, todo, buffer, errors, recorder, ran, spans>>,
         phase' \in {phase, "leaving"}, files' \in [Paths -> Seq(Lines)],
         \A p \in Paths : ReadBack(files'[p]) = Read(p)
  PROVE  RecordInv'
<1>1. AllKept'
  BY StillKept DEF RecordInv, AllKept, SessionType
<1>2. recorder # None => recorder \in Paths /\ Read(recorder)' = Read(recorder)
  BY DEF RecordInv, AllKept, Read
<1>3. Following => Following'
  BY <1>2 DEF Following
<1>4. Going' => Going
  BY DEF Going
<1> QED
  BY <1>1, <1>3, <1>4 DEF RecordInv

LEMMA RecordDeliver == Recordable /\ RecordInv /\ Deliver => RecordInv'
<1> SUFFICES ASSUME Recordable, RecordInv, Deliver PROVE RecordInv'
  OBVIOUS
<1>1. /\ UNCHANGED <<launch, phase, todo, buffer, errors, recorder, ran, spans>>
      /\ OneLineEach /\ files \in [Paths -> Seq(Lines)] /\ recorder \in Paths \cup {None}
  BY DEF Deliver, RecordInv, AllKept, Recordable
<1>2. PICK c \in Notes : c = Comment(<<>>)
  BY DEF Notes, Said
<1>3. files' \in [Paths -> Seq(Lines)] /\ \A p \in Paths : ReadBack(files'[p]) = Read(p)
  <2>1. CASE files' = files
    BY <1>1, <2>1 DEF Read
  <2>2. CASE files' = [files EXCEPT ![recorder] = Append(@, c)] /\ recorder # None
    <3>1. PICK f \in Seq(Lines) : f = files[recorder]
      BY <1>1, <2>2
    <3>2. c \in Lines /\ Append(f, c) \in Seq(Lines)
      BY <1>2 DEF Lines
    <3>3. ReadBack(Append(f, c)) = ReadBack(f)
      BY <1>1, <1>2, <3>2, ReadBackMore
    <3> QED BY <1>1, <2>2, <3>1, <3>2, <3>3 DEF Read
  <2>3. CASE files' = [files EXCEPT ![recorder] = Append(@, c)] /\ recorder = None
    <3>1. files' = files
      BY <1>1, <2>3, SessionAssumption
    <3> QED BY <2>1, <3>1
  <2> QED BY <1>2, <2>1, <2>2, <2>3 DEF Deliver
<1> QED
  BY <1>1, <1>3, RecordQuiet

LEMMA RecordBegins == Recordable /\ Init => RecordInv
<1> SUFFICES ASSUME Recordable, Init PROVE RecordInv
  OBVIOUS
<1>1. /\ launch \in Launches /\ phase = "script" /\ todo = All /\ buffer = <<>> /\ errors = 0
      /\ recorder = launch.record /\ ran = <<>> /\ OneLineEach
      /\ files = [p \in Paths |-> IF p = launch.record THEN Header ELSE <<>>]
      /\ spans = [p \in Paths |-> [from |-> 0, to |-> IF p = launch.record THEN -1 ELSE 0]]
  BY DEF Init, All, Recordable
<1>2. SessionType /\ recorder \in Paths \cup {None}
  <2>1. launch.record \in Paths \cup {None}
    BY <1>1, SessionAssumption DEF IsLaunch
  <2> QED BY <1>1, <2>1 DEF SessionType
<1>3. /\ Header \in Seq(Lines) /\ <<>> \in Seq(Lines) /\ ReadBack(Header) = <<>>
      /\ ReadBack(<<>>) = <<>> /\ UntilQuit(<<>>) = <<>>
  <2>1. ReadBack(<<>>) = <<>>
    BY DEF ReadBack, SplitCommands, FlattenSeq
  <2> QED BY <1>1, <2>1, HeaderReads
<1>4. files \in [Paths -> Seq(Lines)] /\ \A p \in Paths : Read(p) = <<>>
  BY <1>1, <1>3 DEF Read
<1>5. spans \in [Paths -> [from : Nat, to : Nat \cup {-1}]]
  BY <1>1
<1>6. Fresh.ran = <<>> /\ Fresh.buffer = <<>> /\ Replayed(<<>>) = Fresh
  BY ReplayedNone DEF Fresh
<1>7. ASSUME NEW p \in Paths PROVE Kept(p)
  <2>1. spans[p].from = 0 /\ (spans[p].to = -1 <=> recorder = p)
    BY <1>1
  <2>2. Until(p) = 0 /\ Len(ran) = 0
    BY <1>1 DEF Until
  <2>3. SubSeq(ran, 0 + 1, 0) = <<>>
    OBVIOUS
  <2>4. Replayed(UntilQuit(Read(p))).ran = <<>>
    BY <1>3, <1>4, <1>6
  <2> QED BY <2>1, <2>2, <2>3, <2>4 DEF Kept
<1>8. AllKept
  BY <1>1, <1>2, <1>4, <1>5, <1>7 DEF AllKept
<1>9. Following
  <2>1. recorder # None => Read(recorder) = <<>>
    BY <1>2, <1>4
  <2> QED BY <1>1, <1>6, <2>1 DEF Following
<1>10. /\ todo \in Seq(CommandsOf(launch.script))
       /\ ~ launch.batch => \A n \in DOMAIN todo : ~ Quits(todo[n])
  <2>1. /\ All \in Seq(CommandsOf(launch.script)) /\ DOMAIN All = 1..Len(All)
        /\ \A n \in 1..Len(All) : IsCommand(All[n])
    BY <1>1, MeantIs
  <2>2. ASSUME ~ launch.batch, NEW n \in DOMAIN All PROVE ~ Quits(All[n])
    <3>1. PICK t : t = All[n]
      OBVIOUS
    <3>2. t \in CommandsOf(launch.script) /\ Whole(t) = t[1]
      BY <2>1, <3>1, CommandIs
    <3>3. t[1].is # "quit"
      BY <1>1, <2>2, <3>2 DEF Recordable
    <3> QED BY <3>1, <3>2, <3>3 DEF Quits
  <2> QED BY <1>1, <2>1, <2>2
<1> QED
  BY <1>1, <1>8, <1>9, <1>10 DEF RecordInv

LEMMA RecordStep == Recordable /\ RecordInv /\ [Next]_vars => RecordInv'
<1> SUFFICES ASSUME Recordable, RecordInv, [Next]_vars PROVE RecordInv'
  OBVIOUS
<1>1. files \in [Paths -> Seq(Lines)] /\ \A p \in Paths : ReadBack(files[p]) = Read(p)
  BY DEF RecordInv, AllKept, Read
<1>2. CASE UNCHANGED vars
  BY <1>1, <1>2, RecordQuiet DEF vars, console
<1>3. CASE EndOfFile
  BY <1>1, <1>3, RecordQuiet DEF EndOfFile, console
<1>4. CASE Capture
  BY <1>1, <1>4, RecordQuiet DEF Capture
<1> QED
  BY <1>2, <1>3, <1>4, RecordScript, RecordEndScript, RecordType, RecordLeave, RecordDeliver DEF Next

LEMMA RecordIs == RecordInv => Replays
<1> SUFFICES ASSUME RecordInv, NEW p \in Paths
             PROVE  Replayed(UntilQuit(ReadBack(files[p]))).ran =
                      SubSeq(ran, spans[p].from + 1, IF spans[p].to = -1 THEN Len(ran) ELSE spans[p].to)
  BY DEF Replays
<1> QED
  BY DEF RecordInv, AllKept, Kept, Read, Until

\* A recording, whenever it is read, is a script that does what was done while it
\* was recorded, where one command is typed on a line, a script that has blocks in
\* it is a batch that starts no recording, and nothing that is printed has a line
\* break of another kind in it (recording.py).
THEOREM RecordingsReplay == Recordable => (Spec => []Replays)
<1> SUFFICES ASSUME Recordable PROVE Spec => []Replays
  OBVIOUS
<1>1. Init => RecordInv
  BY RecordBegins
<1>2. RecordInv /\ [Next]_vars => RecordInv'
  BY RecordStep
<1>3. RecordInv => Replays
  BY RecordIs
<1> QED
  BY <1>1, <1>2, <1>3, PTL DEF Spec

----------------------------------------------------------------------------
(* What is put in order (Ordering). *)

\* A strict total order on S.
Orders(R, S) ==
  /\ \A x, y \in S : x # y => <<x, y>> \in R \/ <<y, x>> \in R
  /\ \A x \in S : <<x, x>> \notin R
  /\ \A x, y, z \in S : <<x, y>> \in R /\ <<y, z>> \in R => <<x, z>> \in R

\* The elements of S before x, and how many they are.
Below(S, R, x) == {y \in S : <<y, x>> \in R}

LEMMA BelowGrows ==
  ASSUME NEW S, IsFiniteSet(S), NEW R, Orders(R, S), NEW x \in S, NEW z \in S, <<x, z>> \in R
  PROVE  /\ Cardinality(Below(S, R, x)) \in Nat /\ Cardinality(Below(S, R, z)) \in Nat
         /\ Cardinality(Below(S, R, x)) < Cardinality(Below(S, R, z))
<1>1. PICK below : below = Below(S, R, z)
  OBVIOUS
<1>2. Below(S, R, x) \in SUBSET below /\ below \in SUBSET S
  BY <1>1 DEF Below, Orders
<1>3. x \in below /\ x \notin Below(S, R, x)
  BY <1>1 DEF Below, Orders
<1>4. IsFiniteSet(below) /\ IsFiniteSet(Below(S, R, x))
  <2>1. IsFiniteSet(below)
    BY <1>2, FS_Subset
  <2> QED BY <1>2, <2>1, FS_Subset
<1>5. Cardinality(below) \in Nat /\ Cardinality(Below(S, R, x)) \in Nat
  BY <1>4, FS_CardinalityType
<1>6. /\ Cardinality(Below(S, R, x)) <= Cardinality(below)
      /\ Cardinality(below) = Cardinality(Below(S, R, x)) => below = Below(S, R, x)
  BY <1>2, <1>4, FS_Subset
<1> QED
  BY <1>1, <1>3, <1>5, <1>6

\* Every element has its place.
LEMMA InOrderIs ==
  ASSUME NEW S, IsFiniteSet(S), NEW R, Orders(R, S)
  PROVE  /\ InOrder(S, R) \in Seq(S) /\ Len(InOrder(S, R)) = Cardinality(S)
         /\ Cardinality(S) \in Nat
         /\ \A x \in S : \E i \in 1..Cardinality(S) : InOrder(S, R)[i] = x
         /\ \A i, j \in 1..Cardinality(S) : i < j => <<InOrder(S, R)[i], InOrder(S, R)[j]>> \in R
<1>1. PICK n \in Nat : n = Cardinality(S)
  BY FS_CardinalityType
<1>2. PICK rank : rank = [x \in S |-> Cardinality(Below(S, R, x)) + 1]
  OBVIOUS
<1>3. \A x, z \in S : <<x, z>> \in R => rank[x] < rank[z]
  BY <1>2, BelowGrows
<1>4. ASSUME NEW x \in S PROVE rank[x] \in 1..n
  <2>1. Below(S, R, x) \in SUBSET S /\ x \notin Below(S, R, x)
    BY DEF Below, Orders
  <2>2. /\ IsFiniteSet(Below(S, R, x)) /\ Cardinality(Below(S, R, x)) <= n
        /\ Cardinality(Below(S, R, x)) = n => Below(S, R, x) = S
    BY <1>1, <2>1, FS_Subset
  <2>3. Cardinality(Below(S, R, x)) \in Nat
    BY <2>2, FS_CardinalityType
  <2>4. Cardinality(Below(S, R, x)) # n
    BY <2>1, <2>2
  <2> QED BY <1>2, <2>2, <2>3, <2>4
<1>5. \A x, z \in S : rank[x] = rank[z] => x = z
  <2> SUFFICES ASSUME NEW x \in S, NEW z \in S, rank[x] = rank[z], x # z PROVE FALSE
    OBVIOUS
  <2>1. <<x, z>> \in R \/ <<z, x>> \in R
    BY DEF Orders
  <2>2. rank[x] \in Int /\ rank[z] \in Int
    BY <1>4
  <2> QED BY <1>3, <2>1, <2>2
<1>6. rank \in Surjection(S, 1..n)
  <2>1. PICK places : places = 1..n
    OBVIOUS
  <2>2. Cardinality(places) = n /\ IsFiniteSet(places)
    BY <2>1, FS_Interval
  <2>3. rank \in Injection(S, places)
    BY <1>2, <1>4, <1>5, <2>1 DEF Injection, IsInjective
  <2>4. rank \in Surjection(S, places)
    BY <1>1, <2>2, <2>3, FS_Injection
  <2> QED BY <2>1, <2>4
<1>7. ASSUME NEW i \in 1..n
      PROVE  InOrder(S, R)[i] \in S /\ rank[InOrder(S, R)[i]] = i
  <2>1. PICK x \in S : rank[x] = i
    BY <1>6 DEF Surjection
  <2>2. Cardinality(Below(S, R, x)) = i - 1
    <3>1. Cardinality(Below(S, R, x)) \in Nat
      <4>1. Below(S, R, x) \in SUBSET S
        BY DEF Below
      <4> QED BY <4>1, FS_Subset, FS_CardinalityType
    <3> QED BY <1>2, <2>1, <3>1
  <2>3. PICK y : y = (CHOOSE x2 \in S : Cardinality({v \in S : <<v, x2>> \in R}) = i - 1)
    OBVIOUS
  <2>4. y \in S /\ Cardinality(Below(S, R, y)) = i - 1
    BY <2>2, <2>3 DEF Below
  <2>5. InOrder(S, R)[i] = y
    BY <1>1, <2>3 DEF InOrder
  <2> QED BY <1>2, <2>4, <2>5
<1>8. PICK s : s = InOrder(S, R)
  OBVIOUS
<1>9. s \in [1..n -> S]
  <2> DEFINE at(i) == CHOOSE x \in S : Cardinality({y \in S : <<y, x>> \in R}) = i - 1
  <2>1. s = [i \in 1..n |-> at(i)]
    BY <1>1, <1>8 DEF InOrder
  <2> HIDE DEF at
  <2>2. \A i \in 1..n : s[i] \in S
    BY <1>7, <1>8
  <2> QED BY <2>1, <2>2
<1>10. s \in Seq(S) /\ Len(s) = n
  BY <1>9, SeqDef
<1>11. ASSUME NEW x \in S PROVE \E i \in 1..n : s[i] = x
  <2>1. rank[x] \in 1..n
    BY <1>4
  <2>2. s[rank[x]] \in S /\ rank[s[rank[x]]] = rank[x]
    BY <1>7, <1>8, <2>1
  <2> QED BY <1>5, <2>1, <2>2
<1>12. ASSUME NEW i \in 1..n, NEW j \in 1..n, i < j PROVE <<s[i], s[j]>> \in R
  <2>1. s[i] \in S /\ s[j] \in S /\ rank[s[i]] = i /\ rank[s[j]] = j
    BY <1>7, <1>8
  <2>2. s[i] # s[j]
    BY <1>12, <2>1
  <2>3. <<s[i], s[j]>> \in R \/ <<s[j], s[i]>> \in R
    <3>1. \A x, y \in S : x # y => <<x, y>> \in R \/ <<y, x>> \in R
      BY DEF Orders
    <3> QED BY <2>1, <2>2, <3>1
  <2>4. CASE <<s[j], s[i]>> \in R
    <3>1. rank[s[j]] < rank[s[i]]
      BY <1>3, <2>1, <2>4
    <3> QED BY <1>12, <2>1, <3>1
  <2> QED BY <2>3, <2>4
<1> QED
  BY <1>1, <1>8, <1>10, <1>11, <1>12

----------------------------------------------------------------------------
(* The trace of a target (Publishing). *)

\* The shape of a target, and of a trace.
IsMachine(m) ==
  /\ m = [regions |-> m.regions, mem |-> [a \in DOMAIN m.mem |-> m.mem[a]], pc |-> m.pc,
          sp |-> m.sp, breaks |-> m.breaks, icount |-> m.icount, running |-> m.running,
          terminated |-> m.terminated, modules |-> m.modules, input |-> m.input]
  /\ m.running \in BOOLEAN /\ m.terminated \in BOOLEAN

IsTrace(t) ==
  t = [bytes |-> t.bytes, errors |-> t.errors, state |-> t.state, icount |-> t.icount,
       frame |-> t.frame, regs |-> t.regs, regions |-> t.regions, breaks |-> t.breaks]

\* What it says of memory is so.
Tells(t, m) ==
  /\ \A a \in DOMAIN t.bytes : a \in DOMAIN m.mem /\ t.bytes[a] = m.mem[a]
  /\ t.errors \cap DOMAIN m.mem = {}

\* Two traces that differ in memory only.
Beside(t, u) ==
  /\ u.state = t.state /\ u.icount = t.icount /\ u.frame = t.frame /\ u.regs = t.regs
  /\ u.regions = t.regions /\ u.breaks = t.breaks

LEMMA PutBytesIs ==
  ASSUME NEW t, IsTrace(t), NEW m, Tells(t, m), NEW from, NEW to
  PROVE  /\ IsTrace(PutBytes(t, m, from, to)) /\ Tells(PutBytes(t, m, from, to), m)
         /\ Beside(t, PutBytes(t, m, from, to))
<1>1. PICK there : there = (from..(to - 1)) \cap DOMAIN m.mem
  OBVIOUS
<1>2. PICK missing : missing = (from..(to - 1)) \ there
  OBVIOUS
<1>3. PICK bytes : bytes = [a \in (DOMAIN t.bytes \cup there) \ missing |->
                              IF a \in there THEN m.mem[a] ELSE t.bytes[a]]
  OBVIOUS
<1>4. PICK missed : missed = (t.errors \ there) \cup missing
  OBVIOUS
<1>5. PICK u : u = PutBytes(t, m, from, to)
  OBVIOUS
<1>6. u = [t EXCEPT !.bytes = bytes, !.errors = missed]
  BY <1>1, <1>2, <1>3, <1>4, <1>5 DEF PutBytes
<1>7. u = [bytes |-> bytes, errors |-> missed, state |-> t.state, icount |-> t.icount,
           frame |-> t.frame, regs |-> t.regs, regions |-> t.regions, breaks |-> t.breaks]
  BY <1>6 DEF IsTrace
<1>8. u.bytes = bytes /\ u.errors = missed /\ IsTrace(u) /\ Beside(t, u)
  BY <1>7 DEF IsTrace, Beside
<1>9. \A a \in DOMAIN bytes : a \in DOMAIN m.mem /\ bytes[a] = m.mem[a]
  BY <1>1, <1>3 DEF Tells
<1>10. missed \cap DOMAIN m.mem = {}
  BY <1>1, <1>2, <1>4 DEF Tells
<1> QED
  BY <1>5, <1>8, <1>9, <1>10 DEF Tells

LEMMA PutPagesIs ==
  ASSUME NEW t, IsTrace(t), NEW m, Tells(t, m), NEW start, NEW length
  PROVE  /\ IsTrace(PutPages(t, m, start, length)) /\ Tells(PutPages(t, m, start, length), m)
         /\ Beside(t, PutPages(t, m, start, length))
BY PutBytesIs DEF PutPages

LEMMA PreloadOneIs ==
  ASSUME NEW m, NEW cap, NEW p, NEW r, IsTrace(p.t), Tells(p.t, m)
  PROVE  /\ IsTrace(PreloadOne(m, cap, p, r).t) /\ Tells(PreloadOne(m, cap, p, r).t, m)
         /\ Beside(p.t, PreloadOne(m, cap, p, r).t)
<1>1. PICK q : q = PreloadOne(m, cap, p, r)
  OBVIOUS
<1>2. q.t = p.t \/ \E from, to : q.t = PutBytes(p.t, m, from, to)
  BY <1>1 DEF PreloadOne
<1>3. Beside(p.t, p.t)
  BY DEF Beside
<1> QED
  BY <1>1, <1>2, <1>3, PutBytesIs

\* The loop of preload_memory over the first n of the regions.
Loading(f, t, m, cap, order, n) ==
  f = [i \in 0..n |-> IF i = 0 THEN [t |-> t, total |-> 0]
                      ELSE PreloadOne(m, cap, f[i - 1], order[i])]

OrderOf(m) == InOrder(m.regions, {p \in m.regions \X m.regions : Before(m, p[1], p[2])})

LEMMA PreloadLoads ==
  ASSUME NEW t, NEW m, NEW cap, NEW n \in Nat, n = Len(OrderOf(m))
  PROVE  \E f : Loading(f, t, m, cap, OrderOf(m), n) /\ Preload(t, m, cap) = f[n].t
<1>1. PICK order : order = OrderOf(m)
  OBVIOUS
<1>2. PICK f : f = (CHOOSE g : Loading(g, t, m, cap, order, n))
  OBVIOUS
<1>3. Preload(t, m, cap) = f[n].t
  BY <1>1, <1>2 DEF Preload, OrderOf, Loading
<1> DEFINE Good == {k \in 0..n : \E g : Loading(g, t, m, cap, order, k)}
<1>4. 0 \in Good
  <2> DEFINE g == [i \in 0..0 |-> [t |-> t, total |-> 0]]
  <2>1. Loading(g, t, m, cap, order, 0)
    BY DEF Loading
  <2> QED BY <2>1
<1>5. ASSUME NEW k \in 0..(n - 1), k \in Good PROVE k + 1 \in Good
  <2>1. PICK g : Loading(g, t, m, cap, order, k)
    BY <1>5
  <2> DEFINE h == [i \in 0..(k + 1) |-> IF i = k + 1 THEN PreloadOne(m, cap, g[k], order[k + 1]) ELSE g[i]]
  <2>2. \A i \in 0..k : g[i] = IF i = 0 THEN [t |-> t, total |-> 0]
                               ELSE PreloadOne(m, cap, g[i - 1], order[i])
    BY <2>1 DEF Loading
  <2>3. ASSUME NEW i \in 0..(k + 1)
        PROVE  h[i] = IF i = 0 THEN [t |-> t, total |-> 0]
                      ELSE PreloadOne(m, cap, h[i - 1], order[i])
    <3>1. CASE i = k + 1
      <4>1. h[i] = PreloadOne(m, cap, g[k], order[k + 1])
        BY <3>1
      <4>2. h[k] = g[k] /\ i - 1 = k /\ i # 0
        BY <3>1
      <4> HIDE DEF h
      <4> QED BY <3>1, <4>1, <4>2
    <3>2. CASE i # k + 1 /\ i # 0
      <4>1. i \in 0..k /\ h[i] = g[i]
        BY <3>2
      <4>2. i - 1 \in 0..(k + 1) /\ i - 1 # k + 1
        BY <3>2
      <4>3. h[i - 1] = g[i - 1]
        BY <4>2
      <4> HIDE DEF h
      <4> QED BY <2>2, <3>2, <4>1, <4>3
    <3>3. CASE i = 0
      <4>1. i \in 0..k /\ h[i] = g[i] /\ i # k + 1
        BY <3>3
      <4> HIDE DEF h
      <4> QED BY <2>2, <3>3, <4>1
    <3> QED BY <3>1, <3>2, <3>3
  <2>4. h = [i \in 0..(k + 1) |-> h[i]]
    OBVIOUS
  <2> HIDE DEF h
  <2>5. Loading(h, t, m, cap, order, k + 1)
    BY <2>3, <2>4 DEF Loading
  <2>6. k + 1 \in 0..n
    OBVIOUS
  <2> QED BY <2>5, <2>6
<1>6. n \in Good
  <2> HIDE DEF Good
  <2> QED BY <1>4, <1>5, UpwardFrom
<1>7. Loading(f, t, m, cap, order, n)
  BY <1>2, <1>6
<1> QED
  BY <1>1, <1>3, <1>7

LEMMA PreloadIs ==
  ASSUME NEW t, IsTrace(t), NEW m, Tells(t, m), NEW cap, Len(OrderOf(m)) \in Nat
  PROVE  /\ IsTrace(Preload(t, m, cap)) /\ Tells(Preload(t, m, cap), m)
         /\ Beside(t, Preload(t, m, cap))
<1>1. PICK n \in Nat : n = Len(OrderOf(m))
  OBVIOUS
<1>2. PICK f : Loading(f, t, m, cap, OrderOf(m), n) /\ Preload(t, m, cap) = f[n].t
  BY <1>1, PreloadLoads
<1> DEFINE Good == {k \in 0..n : IsTrace(f[k].t) /\ Tells(f[k].t, m) /\ Beside(t, f[k].t)}
<1>3. 0 \in Good
  BY <1>2 DEF Loading, Beside
<1>4. ASSUME NEW k \in 0..(n - 1), k \in Good PROVE k + 1 \in Good
  <2>1. f[k + 1] = PreloadOne(m, cap, f[k], OrderOf(m)[k + 1])
    BY <1>2 DEF Loading
  <2>2. k + 1 \in 0..n
    OBVIOUS
  <2>3. PICK q : q = f[k + 1]
    OBVIOUS
  <2>4. IsTrace(q.t) /\ Tells(q.t, m) /\ Beside(f[k].t, q.t)
    BY <1>4, <2>1, <2>3, PreloadOneIs
  <2>5. Beside(t, q.t)
    BY <1>4, <2>4 DEF Beside
  <2> QED BY <2>2, <2>3, <2>4, <2>5
<1>5. n \in Good
  <2> HIDE DEF Good
  <2> QED BY <1>3, <1>4, UpwardFrom
<1> QED
  BY <1>2, <1>5

\* What a trace t says of a machine m that stands still.
ShownOf(t, m) ==
  /\ t.state = Shows(m) /\ t.icount = m.icount
  /\ t.frame = <<m.pc, m.sp>> /\ t.regs = <<m.pc, m.sp>>
  /\ Tells(t, m) /\ t.breaks = {b \in m.breaks : b.kind # "REGISTER"}

\* What each of them puts, and that it leaves the rest.
LEMMA PutStateIs ==
  ASSUME NEW t, IsTrace(t), NEW m, NEW state
  PROVE  /\ IsTrace(PutState(t, m, state))
         /\ PutState(t, m, state).bytes = t.bytes
         /\ PutState(t, m, state).errors = t.errors
         /\ PutState(t, m, state).state = state
         /\ PutState(t, m, state).icount = m.icount
         /\ PutState(t, m, state).frame = t.frame
         /\ PutState(t, m, state).regs = t.regs
         /\ PutState(t, m, state).regions = t.regions
         /\ PutState(t, m, state).breaks = t.breaks
<1>1. PICK u : u = PutState(t, m, state)
  OBVIOUS
<1>2. u = [bytes |-> t.bytes, errors |-> t.errors, state |-> state, icount |-> m.icount,
           frame |-> t.frame, regs |-> t.regs, regions |-> t.regions, breaks |-> t.breaks]
  BY <1>1 DEF PutState, IsTrace
<1>3. /\ IsTrace(u) /\ u.bytes = t.bytes /\ u.errors = t.errors /\ u.state = state /\ u.icount = m.icount
      /\ u.frame = t.frame /\ u.regs = t.regs /\ u.regions = t.regions /\ u.breaks = t.breaks
  BY <1>2 DEF IsTrace
<1> QED
  BY <1>1, <1>3

LEMMA PutProcessesIs ==
  ASSUME NEW t, IsTrace(t)
  PROVE  /\ IsTrace(PutProcesses(t))
         /\ PutProcesses(t).bytes = t.bytes
         /\ PutProcesses(t).errors = t.errors
         /\ PutProcesses(t).state = "STOPPED"
         /\ PutProcesses(t).icount = t.icount
         /\ PutProcesses(t).frame = t.frame
         /\ PutProcesses(t).regs = t.regs
         /\ PutProcesses(t).regions = t.regions
         /\ PutProcesses(t).breaks = t.breaks
<1>1. PICK u : u = PutProcesses(t)
  OBVIOUS
<1>2. u = [bytes |-> t.bytes, errors |-> t.errors, state |-> "STOPPED", icount |-> t.icount,
           frame |-> t.frame, regs |-> t.regs, regions |-> t.regions, breaks |-> t.breaks]
  BY <1>1 DEF PutProcesses, IsTrace
<1>3. /\ IsTrace(u) /\ u.bytes = t.bytes /\ u.errors = t.errors /\ u.state = "STOPPED" /\ u.icount = t.icount
      /\ u.frame = t.frame /\ u.regs = t.regs /\ u.regions = t.regions /\ u.breaks = t.breaks
  BY <1>2 DEF IsTrace
<1> QED
  BY <1>1, <1>3

LEMMA PutFramesIs ==
  ASSUME NEW t, IsTrace(t), NEW m
  PROVE  /\ IsTrace(PutFrames(t, m))
         /\ PutFrames(t, m).bytes = t.bytes
         /\ PutFrames(t, m).errors = t.errors
         /\ PutFrames(t, m).state = t.state
         /\ PutFrames(t, m).icount = t.icount
         /\ PutFrames(t, m).frame = <<m.pc, m.sp>>
         /\ PutFrames(t, m).regs = t.regs
         /\ PutFrames(t, m).regions = t.regions
         /\ PutFrames(t, m).breaks = t.breaks
<1>1. PICK u : u = PutFrames(t, m)
  OBVIOUS
<1>2. u = [bytes |-> t.bytes, errors |-> t.errors, state |-> t.state, icount |-> t.icount,
           frame |-> <<m.pc, m.sp>>, regs |-> t.regs, regions |-> t.regions, breaks |-> t.breaks]
  BY <1>1 DEF PutFrames, IsTrace
<1>3. /\ IsTrace(u) /\ u.bytes = t.bytes /\ u.errors = t.errors /\ u.state = t.state /\ u.icount = t.icount
      /\ u.frame = <<m.pc, m.sp>> /\ u.regs = t.regs /\ u.regions = t.regions /\ u.breaks = t.breaks
  BY <1>2 DEF IsTrace
<1> QED
  BY <1>1, <1>3

LEMMA PutRegIs ==
  ASSUME NEW t, IsTrace(t), NEW m
  PROVE  /\ IsTrace(PutReg(t, m))
         /\ PutReg(t, m).bytes = t.bytes
         /\ PutReg(t, m).errors = t.errors
         /\ PutReg(t, m).state = t.state
         /\ PutReg(t, m).icount = t.icount
         /\ PutReg(t, m).frame = t.frame
         /\ PutReg(t, m).regs = <<m.pc, m.sp>>
         /\ PutReg(t, m).regions = t.regions
         /\ PutReg(t, m).breaks = t.breaks
<1>1. PICK u : u = PutReg(t, m)
  OBVIOUS
<1>2. u = [bytes |-> t.bytes, errors |-> t.errors, state |-> t.state, icount |-> t.icount,
           frame |-> t.frame, regs |-> <<m.pc, m.sp>>, regions |-> t.regions, breaks |-> t.breaks]
  BY <1>1 DEF PutReg, IsTrace
<1>3. /\ IsTrace(u) /\ u.bytes = t.bytes /\ u.errors = t.errors /\ u.state = t.state /\ u.icount = t.icount
      /\ u.frame = t.frame /\ u.regs = <<m.pc, m.sp>> /\ u.regions = t.regions /\ u.breaks = t.breaks
  BY <1>2 DEF IsTrace
<1> QED
  BY <1>1, <1>3

LEMMA PutRegionsIs ==
  ASSUME NEW t, IsTrace(t), NEW m
  PROVE  /\ IsTrace(PutRegions(t, m))
         /\ PutRegions(t, m).bytes = t.bytes
         /\ PutRegions(t, m).errors = t.errors
         /\ PutRegions(t, m).state = t.state
         /\ PutRegions(t, m).icount = t.icount
         /\ PutRegions(t, m).frame = t.frame
         /\ PutRegions(t, m).regs = t.regs
         /\ PutRegions(t, m).regions = m.regions
         /\ PutRegions(t, m).breaks = t.breaks
<1>1. PICK u : u = PutRegions(t, m)
  OBVIOUS
<1>2. u = [bytes |-> t.bytes, errors |-> t.errors, state |-> t.state, icount |-> t.icount,
           frame |-> t.frame, regs |-> t.regs, regions |-> m.regions, breaks |-> t.breaks]
  BY <1>1 DEF PutRegions, IsTrace
<1>3. /\ IsTrace(u) /\ u.bytes = t.bytes /\ u.errors = t.errors /\ u.state = t.state /\ u.icount = t.icount
      /\ u.frame = t.frame /\ u.regs = t.regs /\ u.regions = m.regions /\ u.breaks = t.breaks
  BY <1>2 DEF IsTrace
<1> QED
  BY <1>1, <1>3

LEMMA PutBreakpointsIs ==
  ASSUME NEW t, IsTrace(t), NEW m
  PROVE  /\ IsTrace(PutBreakpoints(t, m))
         /\ PutBreakpoints(t, m).bytes = t.bytes
         /\ PutBreakpoints(t, m).errors = t.errors
         /\ PutBreakpoints(t, m).state = t.state
         /\ PutBreakpoints(t, m).icount = t.icount
         /\ PutBreakpoints(t, m).frame = t.frame
         /\ PutBreakpoints(t, m).regs = t.regs
         /\ PutBreakpoints(t, m).regions = t.regions
         /\ PutBreakpoints(t, m).breaks = {b \in m.breaks : b.kind # "REGISTER"}
<1>1. PICK shown : shown = {b \in m.breaks : b.kind # "REGISTER"}
  OBVIOUS
<1>2. PICK u : u = PutBreakpoints(t, m)
  OBVIOUS
<1>3. u = [bytes |-> t.bytes, errors |-> t.errors, state |-> t.state, icount |-> t.icount,
           frame |-> t.frame, regs |-> t.regs, regions |-> t.regions, breaks |-> shown]
  BY <1>1, <1>2 DEF PutBreakpoints, IsTrace
<1>4. /\ IsTrace(u) /\ u.bytes = t.bytes /\ u.errors = t.errors /\ u.state = t.state /\ u.icount = t.icount
      /\ u.frame = t.frame /\ u.regs = t.regs /\ u.regions = t.regions /\ u.breaks = shown
  BY <1>3 DEF IsTrace
<1> QED
  BY <1>1, <1>2, <1>4

\* Whatever the trace said, after a stop it shows the machine that stopped.
LEMMA RecordStopIs ==
  ASSUME NEW t, IsTrace(t), NEW m
  PROVE  IsTrace(RecordStop(t, m)) /\ ShownOf(RecordStop(t, m), m)
<1>1. PICK t1 : t1 = Snapshot(t)
  OBVIOUS
<1>2. t1 = [bytes |-> <<>>, errors |-> {}, state |-> t.state, icount |-> t.icount,
            frame |-> t.frame, regs |-> t.regs, regions |-> t.regions, breaks |-> t.breaks]
  BY <1>1 DEF Snapshot, IsTrace
<1>3. IsTrace(t1) /\ t1.bytes = <<>> /\ t1.errors = {}
  BY <1>2 DEF IsTrace
<1>4. PICK t2 : t2 = PutState(t1, m, Shows(m))
  OBVIOUS
<1>5. IsTrace(t2) /\ t2.bytes = <<>> /\ t2.errors = {} /\ t2.state = Shows(m) /\ t2.icount = m.icount
  BY <1>3, <1>4, PutStateIs
<1>6. PICK t3 : t3 = PutFrames(t2, m)
  OBVIOUS
<1>7. /\ IsTrace(t3) /\ t3.bytes = <<>> /\ t3.errors = {} /\ t3.state = Shows(m)
      /\ t3.icount = m.icount /\ t3.frame = <<m.pc, m.sp>>
  BY <1>5, <1>6, PutFramesIs
<1>8. PICK t4 : t4 = PutReg(t3, m)
  OBVIOUS
<1>9. /\ IsTrace(t4) /\ t4.bytes = <<>> /\ t4.errors = {} /\ t4.state = Shows(m)
      /\ t4.icount = m.icount /\ t4.frame = <<m.pc, m.sp>> /\ t4.regs = <<m.pc, m.sp>>
  BY <1>7, <1>8, PutRegIs
<1>10. Tells(t4, m)
  <2>1. DOMAIN t4.bytes = {}
    BY <1>9
  <2> QED BY <1>9, <2>1 DEF Tells
<1>11. PICK t5 : t5 = PutPages(t4, m, m.pc, 1)
  OBVIOUS
<1>12. IsTrace(t5) /\ Tells(t5, m) /\ Beside(t4, t5)
  BY <1>9, <1>10, <1>11, PutPagesIs
<1>13. PICK t6 : t6 = IF m.sp = 0 THEN t5 ELSE PutPages(t5, m, m.sp - 1, 2)
  OBVIOUS
<1>14. IsTrace(t6) /\ Tells(t6, m) /\ Beside(t4, t6)
  <2>1. CASE m.sp = 0
    BY <1>12, <1>13, <2>1
  <2>2. CASE m.sp # 0
    <3>1. t6 = PutPages(t5, m, m.sp - 1, 2)
      BY <1>13, <2>2
    <3>2. IsTrace(t6) /\ Tells(t6, m) /\ Beside(t5, t6)
      BY <1>12, <3>1, PutPagesIs
    <3> QED BY <1>12, <3>2 DEF Beside
  <2> QED BY <2>1, <2>2
<1>15. PICK u : u = PutBreakpoints(t6, m)
  OBVIOUS
<1>16. u = RecordStop(t, m)
  BY <1>1, <1>4, <1>6, <1>8, <1>11, <1>13, <1>15 DEF RecordStop
<1>17. /\ IsTrace(u) /\ u.bytes = t6.bytes /\ u.errors = t6.errors
       /\ u.state = t6.state /\ u.icount = t6.icount /\ u.frame = t6.frame /\ u.regs = t6.regs
       /\ u.breaks = {b \in m.breaks : b.kind # "REGISTER"}
  BY <1>14, <1>15, PutBreakpointsIs
<1>18. Tells(u, m)
  BY <1>14, <1>17 DEF Tells
<1>19. u.state = Shows(m) /\ u.icount = m.icount /\ u.frame = <<m.pc, m.sp>> /\ u.regs = <<m.pc, m.sp>>
  BY <1>9, <1>14, <1>17 DEF Beside
<1> QED
  BY <1>16, <1>17, <1>18, <1>19 DEF ShownOf

\* The inductive invariant: what `Shown` says, of a machine and a trace that are
\* ones, and `still` is the machine while it stands still.
PublishInv ==
  /\ IsMachine(machine) /\ IsTrace(trace)
  /\ ~machine.running => still = machine
  /\ Shown

LEMMA RanIs ==
  ASSUME NEW m, IsMachine(m), NEW k, NEW x \in Afterwards(m, k)
  PROVE  IsMachine(x) /\ x.running = m.running /\ x.terminated = m.terminated
<1>1. PICK p \in Places, c \in Cells, v \in Vals, new \in {{}, Mappable \ m.regions} :
        x = Ran(m, k, p, c, v, new)
  BY DEF Afterwards
<1>2. PICK mem : mem = [a \in DOMAIN m.mem \cup UNION {r.start..r.end : r \in new} |->
                          IF a = c THEN v ELSE IF a \in DOMAIN m.mem THEN m.mem[a] ELSE 0]
  OBVIOUS
<1>3. PICK breaks : breaks = {[b EXCEPT !.hits = IF b.enabled /\ b.address = p[1] THEN k ELSE @] :
                                b \in m.breaks}
  OBVIOUS
<1>4. PICK pc : pc = p[1]
  OBVIOUS
<1>5. x = [m EXCEPT !.pc = pc, !.sp = p[2], !.icount = k, !.regions = @ \cup new,
           !.mem = mem, !.breaks = breaks]
  BY <1>1, <1>2, <1>3, <1>4 DEF Ran
<1>6. x = [regions |-> m.regions \cup new, mem |-> mem, pc |-> pc, sp |-> p[2], breaks |-> breaks,
           icount |-> k, running |-> m.running, terminated |-> m.terminated,
           modules |-> m.modules, input |-> m.input]
  BY <1>5 DEF IsMachine
<1>7. mem = [a \in DOMAIN mem |-> mem[a]]
  BY <1>2
<1>8. m.running \in BOOLEAN /\ m.terminated \in BOOLEAN
  BY DEF IsMachine
<1>9. x.running = m.running /\ x.terminated = m.terminated /\ x.mem = mem
  BY <1>6
<1> QED
  BY <1>6, <1>7, <1>8, <1>9 DEF IsMachine

\* The target with only whether it runs and whether it has ended changed.
LEMMA EndedIs ==
  ASSUME NEW m, IsMachine(m), NEW x, NEW running \in BOOLEAN, NEW ended \in BOOLEAN,
         \/ x = [m EXCEPT !.running = running, !.terminated = ended]
         \/ x = [m EXCEPT !.running = running] /\ ended = m.terminated
         \/ x = [m EXCEPT !.terminated = ended] /\ running = m.running
  PROVE  /\ IsMachine(x) /\ x.running = running /\ x.terminated = ended
         /\ x.icount = m.icount /\ x.breaks = m.breaks
<1>1. x = [regions |-> m.regions, mem |-> m.mem, pc |-> m.pc, sp |-> m.sp, breaks |-> m.breaks,
           icount |-> m.icount, running |-> running, terminated |-> ended,
           modules |-> m.modules, input |-> m.input]
  BY DEF IsMachine
<1>2. m.mem = [a \in DOMAIN m.mem |-> m.mem[a]]
  BY DEF IsMachine
<1>3. x.running = running /\ x.terminated = ended /\ x.mem = m.mem /\ x.icount = m.icount /\ x.breaks = m.breaks
  BY <1>1
<1> QED
  BY <1>1, <1>2, <1>3 DEF IsMachine

\* Shown is what ShownOf says, while the target stands still.
LEMMA ShownStill ==
  ASSUME ~machine.running, still = machine
  PROVE  Shown <=> ShownOf(trace, machine)
BY DEF Shown, ShownOf, Tells

LEMMA ShownAfter ==
  ASSUME NEW m, IsMachine(m), NEW t, IsTrace(t), ~m.running, ShownOf(t, m), Becomes(m, t)
  PROVE  PublishInv'
<1>1. machine' = m /\ trace' = t /\ still' = m
  BY DEF Becomes
<1> QED
  BY <1>1 DEF PublishInv, Shown, ShownOf, Tells

LEMMA StopShown ==
  ASSUME PublishInv, NEW m, IsMachine(m), ~m.running, Becomes(m, RecordStop(trace, m))
  PROVE  PublishInv'
<1>1. PICK t : t = RecordStop(trace, m)
  OBVIOUS
<1>2. IsTrace(t) /\ ShownOf(t, m)
  BY <1>1, RecordStopIs DEF PublishInv
<1> QED
  BY <1>1, <1>2, ShownAfter

LEMMA ResumeShown ==
  ASSUME PublishInv, Resume PROVE PublishInv'
<1>1. PICK m : m = [machine EXCEPT !.running = TRUE]
  OBVIOUS
<1>2. PICK t : t = PutState(trace, machine, "RUNNING")
  OBVIOUS
<1>3. IsMachine(m) /\ m.running = TRUE /\ m.icount = machine.icount
  <2>1. IsMachine(machine) /\ machine.terminated \in BOOLEAN /\ TRUE \in BOOLEAN
    BY DEF PublishInv, IsMachine
  <2>2. PICK yes \in BOOLEAN : yes = TRUE
    OBVIOUS
  <2>3. PICK ended \in BOOLEAN : ended = machine.terminated
    BY <2>1
  <2>4. m = [machine EXCEPT !.running = yes]
    BY <1>1, <2>2
  <2>5. IsMachine(m) /\ m.running = yes /\ m.icount = machine.icount
    BY <2>1, <2>3, <2>4, EndedIs
  <2> QED BY <2>2, <2>5
<1>4. /\ IsTrace(t) /\ t.bytes = trace.bytes /\ t.errors = trace.errors /\ t.state = "RUNNING"
      /\ t.icount = machine.icount /\ t.frame = trace.frame /\ t.regs = trace.regs
  BY <1>2, PutStateIs DEF PublishInv
<1>5. machine' = m /\ trace' = t /\ still' = still /\ still = machine
  BY <1>1, <1>2, <1>3 DEF Resume, Becomes, PublishInv
<1> QED
  BY <1>3, <1>4, <1>5 DEF PublishInv, Shown

LEMMA RunsShown ==
  ASSUME PublishInv, Runs PROVE PublishInv'
<1>1. PICK m \in Afterwards(machine, Smaller(machine.icount + 1, MaxICount)) : Becomes(m, trace)
  BY DEF Runs
<1>2. IsMachine(m) /\ m.running = TRUE
  BY <1>1, RanIs DEF PublishInv, Runs, IsMachine
<1>3. machine' = m /\ trace' = trace /\ still' = still
  BY <1>1, <1>2 DEF Becomes
<1> QED
  BY <1>2, <1>3 DEF PublishInv, Shown, Runs

LEMMA StopsShown ==
  ASSUME PublishInv, Stops \/ Steps \/ StepsBack \/ Kill PROVE PublishInv'
<1>1. CASE Stops
  <2>3. PICK ended \in BOOLEAN : \E m : /\ m = [machine EXCEPT !.running = FALSE, !.terminated = ended]
                                        /\ Becomes(m, RecordStop(trace, m))
    BY <1>1 DEF Stops
  <2>1. PICK m : /\ m = [machine EXCEPT !.running = FALSE, !.terminated = ended]
                 /\ Becomes(m, RecordStop(trace, m))
    BY <2>3
  <2>2. IsMachine(m) /\ ~m.running
    BY <2>1, EndedIs DEF PublishInv
  <2> QED BY <2>1, <2>2, StopShown
<1>2. CASE Steps
  <2>1. PICK m \in Afterwards(machine, Smaller(machine.icount + 1, MaxICount)), ended \in BOOLEAN :
          \E n : n = [m EXCEPT !.terminated = ended] /\ Becomes(n, RecordStop(trace, n))
    BY <1>2 DEF Steps
  <2>2. IsMachine(m) /\ m.running = FALSE
    BY <1>2, <2>1, RanIs DEF PublishInv, Steps, IsMachine
  <2>3. PICK n : n = [m EXCEPT !.terminated = ended] /\ Becomes(n, RecordStop(trace, n))
    BY <2>1
  <2>4. IsMachine(n) /\ ~n.running
    BY <2>2, <2>3, EndedIs
  <2> QED BY <2>3, <2>4, StopShown
<1>3. CASE StepsBack
  <2>1. PICK m \in Afterwards(machine, machine.icount - 1) :
          \E n : n = [m EXCEPT !.terminated = FALSE] /\ Becomes(n, RecordStop(trace, n))
    BY <1>3 DEF StepsBack
  <2>2. IsMachine(m) /\ m.running = FALSE
    BY <1>3, <2>1, RanIs DEF PublishInv, StepsBack, IsMachine
  <2>3. PICK n : n = [m EXCEPT !.terminated = FALSE] /\ Becomes(n, RecordStop(trace, n))
    BY <2>1
  <2>4. IsMachine(n) /\ ~n.running
    BY <2>2, <2>3, EndedIs
  <2> QED BY <2>3, <2>4, StopShown
<1>4. CASE Kill
  <2>1. PICK m : m = [machine EXCEPT !.terminated = TRUE] /\ Becomes(m, RecordStop(trace, m))
    BY <1>4 DEF Kill
  <2>2. IsMachine(m) /\ ~m.running
    <3>1. IsMachine(machine) /\ ~machine.running /\ machine.running \in BOOLEAN
      BY <1>4 DEF PublishInv, Kill, IsMachine
    <3>2. PICK yes \in BOOLEAN : yes = TRUE
      OBVIOUS
    <3>3. PICK no \in BOOLEAN : no = machine.running
      BY <3>1
    <3>4. m = [machine EXCEPT !.terminated = yes]
      BY <2>1, <3>2
    <3>5. IsMachine(m) /\ m.running = no
      BY <3>1, <3>3, <3>4, EndedIs
    <3> QED BY <3>1, <3>3, <3>5
  <2> QED BY <2>1, <2>2, StopShown
<1> QED
  BY <1>1, <1>2, <1>3, <1>4

LEMMA ReadMemShown ==
  ASSUME PublishInv, StoppedOnly, ReadMem PROVE PublishInv'
<1>1. ~machine.running /\ still = machine
  BY DEF ReadMem, MayAsk, PublishInv
<1>2. PICK a, t : t = PutPages(trace, machine, a, 1) /\ Becomes(machine, t)
  BY DEF ReadMem
<1>3. IsMachine(machine) /\ IsTrace(trace) /\ ShownOf(trace, machine)
  BY <1>1, ShownStill DEF PublishInv
<1>4. IsTrace(t) /\ Tells(t, machine) /\ Beside(trace, t)
  BY <1>2, <1>3, PutPagesIs DEF ShownOf
<1>5. ShownOf(t, machine)
  BY <1>3, <1>4 DEF ShownOf, Beside
<1> QED
  BY <1>1, <1>2, <1>3, <1>4, <1>5, ShownAfter

\* The byte that is written is put, the others are as they were.
LEMMA WriteMemShown ==
  ASSUME PublishInv, StoppedOnly, WriteMem, Cells \subseteq Nat PROVE PublishInv'
<1>1. ~machine.running /\ still = machine
  BY DEF WriteMem, MayAsk, PublishInv
<1>20. PICK a \in Cells \cap DOMAIN machine.mem, v \in Vals :
         \E m : m = [machine EXCEPT !.mem[a] = v] /\ Becomes(m, PutBytes(trace, m, a, a + 1))
  BY DEF WriteMem
<1>2. PICK m : m = [machine EXCEPT !.mem[a] = v] /\ Becomes(m, PutBytes(trace, m, a, a + 1))
  BY <1>20
<1>3. IsMachine(machine) /\ IsTrace(trace) /\ ShownOf(trace, machine)
  BY <1>1, ShownStill DEF PublishInv
<1>4. PICK mem : mem = [machine.mem EXCEPT ![a] = v]
  OBVIOUS
<1>5. m = [regions |-> machine.regions, mem |-> mem, pc |-> machine.pc, sp |-> machine.sp,
           breaks |-> machine.breaks, icount |-> machine.icount, running |-> machine.running,
           terminated |-> machine.terminated, modules |-> machine.modules, input |-> machine.input]
  BY <1>2, <1>3, <1>4 DEF IsMachine
<1>6. mem = [b \in DOMAIN machine.mem |-> IF b = a THEN v ELSE machine.mem[b]]
  BY <1>3, <1>4 DEF IsMachine
<1>7. /\ IsMachine(m) /\ ~m.running /\ m.mem = mem /\ m.pc = machine.pc /\ m.sp = machine.sp
      /\ m.breaks = machine.breaks /\ m.icount = machine.icount /\ m.terminated = machine.terminated
  <2>1. m.running \in BOOLEAN /\ m.terminated \in BOOLEAN /\ mem = [b \in DOMAIN mem |-> mem[b]] /\ m.mem = mem
    BY <1>3, <1>5, <1>6 DEF IsMachine
  <2> QED BY <1>1, <1>5, <2>1 DEF IsMachine
<1>8. PICK t : t = PutBytes(trace, m, a, a + 1)
  OBVIOUS
<1>9. a..((a + 1) - 1) = {a}
  <2>1. a \in Nat
    BY <1>2
  <2> QED BY <2>1
<1>10. t = [trace EXCEPT !.bytes = [b \in DOMAIN trace.bytes \cup {a} |->
                                      IF b \in {a} THEN mem[b] ELSE trace.bytes[b]],
                         !.errors = trace.errors \ {a}]
  <2>1. {a} \cap DOMAIN m.mem = {a} /\ {a} \ {a} = {}
    BY <1>2, <1>6, <1>7
  <2>2. (DOMAIN trace.bytes \cup {a}) \ {} = DOMAIN trace.bytes \cup {a}
    OBVIOUS
  <2>3. (trace.errors \ {a}) \cup {} = trace.errors \ {a}
    OBVIOUS
  <2> QED BY <1>7, <1>8, <1>9, <2>1, <2>2, <2>3 DEF PutBytes
<1>11. PICK bytes : bytes = [b \in DOMAIN trace.bytes \cup {a} |->
                               IF b \in {a} THEN mem[b] ELSE trace.bytes[b]]
  OBVIOUS
<1>12. t = [bytes |-> bytes, errors |-> trace.errors \ {a}, state |-> trace.state,
            icount |-> trace.icount, frame |-> trace.frame, regs |-> trace.regs,
            regions |-> trace.regions, breaks |-> trace.breaks]
  BY <1>3, <1>10, <1>11 DEF IsTrace
<1>13. IsTrace(t) /\ t.bytes = bytes /\ t.errors = trace.errors \ {a} /\ Beside(trace, t)
  BY <1>12 DEF IsTrace, Beside
<1>14. Tells(t, m)
  <2>1. Tells(trace, machine) /\ DOMAIN mem = DOMAIN machine.mem
    BY <1>3, <1>6 DEF ShownOf
  <2>2. \A b \in DOMAIN bytes : b \in DOMAIN mem /\ bytes[b] = mem[b]
    BY <1>2, <1>6, <1>11, <2>1 DEF Tells
  <2>3. t.errors \cap DOMAIN mem = {}
    BY <1>13, <2>1 DEF Tells
  <2> QED BY <1>7, <1>13, <2>2, <2>3 DEF Tells
<1>15. ShownOf(t, m)
  BY <1>3, <1>7, <1>13, <1>14 DEF ShownOf, Beside, Shows
<1> QED
  BY <1>2, <1>7, <1>8, <1>13, <1>15, ShownAfter

LEMMA WriteRegShown ==
  ASSUME PublishInv, StoppedOnly, WriteReg PROVE PublishInv'
<1>1. ~machine.running /\ still = machine
  BY DEF WriteReg, MayAsk, PublishInv
<1>2. PICK pc, sp, m : m = [machine EXCEPT !.pc = pc, !.sp = sp] /\ Becomes(m, PutFrames(PutReg(trace, m), m))
  BY DEF WriteReg
<1>3. IsMachine(machine) /\ IsTrace(trace) /\ ShownOf(trace, machine)
  BY <1>1, ShownStill DEF PublishInv
<1>4. m = [regions |-> machine.regions, mem |-> machine.mem, pc |-> pc, sp |-> sp,
           breaks |-> machine.breaks, icount |-> machine.icount, running |-> machine.running,
           terminated |-> machine.terminated, modules |-> machine.modules, input |-> machine.input]
  BY <1>2, <1>3 DEF IsMachine
<1>5. /\ m.mem = machine.mem /\ m.breaks = machine.breaks /\ m.icount = machine.icount
      /\ m.terminated = machine.terminated /\ m.running = machine.running
  BY <1>4
<1>6. IsMachine(m) /\ ~m.running
  BY <1>1, <1>3, <1>4, <1>5 DEF IsMachine
<1>7. PICK t1 : t1 = PutReg(trace, m)
  OBVIOUS
<1>8. /\ IsTrace(t1) /\ t1.bytes = trace.bytes /\ t1.errors = trace.errors /\ t1.state = trace.state
      /\ t1.icount = trace.icount /\ t1.regs = <<m.pc, m.sp>> /\ t1.breaks = trace.breaks
  BY <1>3, <1>7, PutRegIs
<1>9. PICK t : t = PutFrames(t1, m)
  OBVIOUS
<1>10. /\ IsTrace(t) /\ t.bytes = t1.bytes /\ t.errors = t1.errors /\ t.state = t1.state
       /\ t.icount = t1.icount /\ t.frame = <<m.pc, m.sp>> /\ t.regs = t1.regs /\ t.breaks = t1.breaks
  BY <1>8, <1>9, PutFramesIs
<1>11. ShownOf(t, m)
  BY <1>3, <1>5, <1>8, <1>10 DEF ShownOf, Tells, Shows
<1> QED
  BY <1>2, <1>6, <1>7, <1>9, <1>10, <1>11, ShownAfter

LEMMA ChangeBreakpointsShown ==
  ASSUME PublishInv, ChangeBreakpoints PROVE PublishInv'
<1>1. PICK breaks, m : m = [machine EXCEPT !.breaks = breaks] /\ Becomes(m, PutBreakpoints(trace, m))
  BY DEF ChangeBreakpoints
<1>2. m = [regions |-> machine.regions, mem |-> machine.mem, pc |-> machine.pc, sp |-> machine.sp,
           breaks |-> breaks, icount |-> machine.icount, running |-> machine.running,
           terminated |-> machine.terminated, modules |-> machine.modules, input |-> machine.input]
  BY <1>1 DEF IsMachine, PublishInv
<1>3. /\ m.mem = machine.mem /\ m.icount = machine.icount /\ m.pc = machine.pc /\ m.sp = machine.sp
      /\ m.terminated = machine.terminated /\ m.running = machine.running
  BY <1>2
<1>4. IsMachine(m)
  BY <1>2, <1>3 DEF IsMachine, PublishInv
<1>5. PICK t : t = PutBreakpoints(trace, m)
  OBVIOUS
<1>6. /\ IsTrace(t) /\ t.bytes = trace.bytes /\ t.errors = trace.errors /\ t.state = trace.state
      /\ t.icount = trace.icount /\ t.frame = trace.frame /\ t.regs = trace.regs
      /\ t.breaks = {b \in m.breaks : b.kind # "REGISTER"}
  BY <1>5, PutBreakpointsIs DEF PublishInv
<1>7. CASE machine.running
  <2>1. machine' = m /\ trace' = t /\ still' = still
    BY <1>1, <1>3, <1>5, <1>7 DEF Becomes
  <2> QED BY <1>3, <1>4, <1>6, <1>7, <2>1 DEF PublishInv, Shown
<1>8. CASE ~machine.running
  <2>1. ShownOf(trace, machine)
    BY <1>8, ShownStill DEF PublishInv
  <2>2. ShownOf(t, m)
    BY <1>3, <1>6, <2>1 DEF ShownOf, Tells, Shows
  <2> QED BY <1>1, <1>3, <1>4, <1>5, <1>6, <1>8, <2>2, ShownAfter
<1> QED
  BY <1>7, <1>8

LEMMA RefreshShown ==
  ASSUME PublishInv, StoppedOnly, RefreshProcesses \/ Refresh PROVE PublishInv'
<1>1. ~machine.running /\ still = machine
  BY DEF RefreshProcesses, Refresh, MayAsk, PublishInv
<1>2. IsMachine(machine) /\ IsTrace(trace) /\ ShownOf(trace, machine)
  BY <1>1, ShownStill DEF PublishInv
<1>3. CASE RefreshProcesses
  <2>1. PICK t : t = PutProcesses(trace)
    OBVIOUS
  <2>2. /\ IsTrace(t) /\ t.bytes = trace.bytes /\ t.errors = trace.errors /\ t.state = "STOPPED"
        /\ t.icount = trace.icount /\ t.frame = trace.frame /\ t.regs = trace.regs /\ t.breaks = trace.breaks
    BY <1>2, <2>1, PutProcessesIs
  <2>3. ~machine.terminated
    BY <1>3 DEF RefreshProcesses
  <2>4. ShownOf(t, machine)
    BY <1>2, <2>2, <2>3 DEF ShownOf, Tells, Shows
  <2> QED BY <1>1, <1>2, <1>3, <2>1, <2>2, <2>4, ShownAfter DEF RefreshProcesses
<1>4. CASE Refresh
  <2>1. PICK t \in {PutFrames(trace, machine), PutReg(trace, machine),
                    PutRegions(trace, machine), PutBreakpoints(trace, machine)} :
          Becomes(machine, t)
    BY <1>4 DEF Refresh
  <2>2. CASE t = PutFrames(trace, machine)
    <3>1. /\ IsTrace(t) /\ t.bytes = trace.bytes /\ t.errors = trace.errors /\ t.state = trace.state
          /\ t.icount = trace.icount /\ t.frame = <<machine.pc, machine.sp>> /\ t.regs = trace.regs
          /\ t.breaks = trace.breaks
      BY <1>2, <2>2, PutFramesIs
    <3>2. ShownOf(t, machine)
      BY <1>2, <3>1 DEF ShownOf, Tells
    <3> QED BY <1>1, <1>2, <2>1, <3>1, <3>2, ShownAfter
  <2>3. CASE t = PutReg(trace, machine)
    <3>1. /\ IsTrace(t) /\ t.bytes = trace.bytes /\ t.errors = trace.errors /\ t.state = trace.state
          /\ t.icount = trace.icount /\ t.frame = trace.frame /\ t.regs = <<machine.pc, machine.sp>>
          /\ t.breaks = trace.breaks
      BY <1>2, <2>3, PutRegIs
    <3>2. ShownOf(t, machine)
      BY <1>2, <3>1 DEF ShownOf, Tells
    <3> QED BY <1>1, <1>2, <2>1, <3>1, <3>2, ShownAfter
  <2>4. CASE t = PutRegions(trace, machine)
    <3>1. /\ IsTrace(t) /\ t.bytes = trace.bytes /\ t.errors = trace.errors /\ t.state = trace.state
          /\ t.icount = trace.icount /\ t.frame = trace.frame /\ t.regs = trace.regs
          /\ t.breaks = trace.breaks
      BY <1>2, <2>4, PutRegionsIs
    <3>2. ShownOf(t, machine)
      BY <1>2, <3>1 DEF ShownOf, Tells
    <3> QED BY <1>1, <1>2, <2>1, <3>1, <3>2, ShownAfter
  <2>5. CASE t = PutBreakpoints(trace, machine)
    <3>1. /\ IsTrace(t) /\ t.bytes = trace.bytes /\ t.errors = trace.errors /\ t.state = trace.state
          /\ t.icount = trace.icount /\ t.frame = trace.frame /\ t.regs = trace.regs
          /\ t.breaks = {b \in machine.breaks : b.kind # "REGISTER"}
      BY <1>2, <2>5, PutBreakpointsIs
    <3>2. ShownOf(t, machine)
      BY <1>2, <3>1 DEF ShownOf, Tells
    <3> QED BY <1>1, <1>2, <2>1, <3>1, <3>2, ShownAfter
  <2> QED BY <2>1, <2>2, <2>3, <2>4, <2>5
<1> QED
  BY <1>3, <1>4

----------------------------------------------------------------------------
(* What is loaded right after launch (Publishing). *)

LEMMA RankIs ==
  ASSUME NEW m, NEW r
  PROVE  /\ Rank(m, r) \in 0..5
         /\ Rank(m, r) = 0 <=> Holds(r, m.pc)
         /\ Rank(m, r) = 1 <=> Holds(r, m.sp) /\ ~Holds(r, m.pc)
<1>1. CASE Holds(r, m.pc)
  BY <1>1 DEF Rank
<1>2. CASE ~Holds(r, m.pc) /\ Holds(r, m.sp)
  BY <1>2 DEF Rank
<1>3. CASE ~Holds(r, m.pc) /\ ~Holds(r, m.sp)
  <2>1. PICK fed \in BOOLEAN : fed <=> \E a \in m.input : Holds(r, a)
    OBVIOUS
  <2>2. PICK module \in BOOLEAN : module <=> \E d \in m.modules : d.base <= r.end /\ r.start <= d.end
    OBVIOUS
  <2>3. Rank(m, r) = IF fed THEN 2 ELSE IF module THEN 3 ELSE IF r.exec THEN 4 ELSE 5
    BY <1>3, <2>1, <2>2 DEF Rank
  <2> QED BY <1>3, <2>3
<1> QED
  BY <1>1, <1>2, <1>3

\* The two ends of a region, and the places in it.
LEMMA RegionOf ==
  ASSUME NEW m, IsTarget(m), NEW r \in m.regions
  PROVE  /\ r.start \in Nat /\ r.end \in Nat /\ r.start <= r.end /\ SizeOf(r) \in Nat /\ SizeOf(r) > 0
         /\ \A a \in r.start..r.end : a \in DOMAIN m.mem /\ Holds(r, a)
         /\ \A s \in m.regions : \A a \in Nat : Holds(r, a) /\ Holds(s, a) => r = s
         /\ \A s \in m.regions : r.start = s.start => r = s
<1>1. r.start \in Nat /\ r.end \in Nat /\ r.start <= r.end
  BY DEF IsTarget
<1>2. \A s \in m.regions : s.start \in Nat /\ s.end \in Nat /\ s.start <= s.end /\ (r = s \/ r.end < s.start \/ s.end < r.start)
  BY DEF IsTarget
<1>3. DOMAIN m.mem = UNION {s.start..s.end : s \in m.regions}
  BY DEF IsTarget
<1>4. SizeOf(r) \in Nat /\ SizeOf(r) > 0
  BY <1>1 DEF SizeOf
<1>5. \A a \in r.start..r.end : a \in DOMAIN m.mem /\ Holds(r, a)
  BY <1>1, <1>3 DEF Holds
<1>6. \A s \in m.regions : \A a \in Nat : Holds(r, a) /\ Holds(s, a) => r = s
  BY <1>1, <1>2 DEF Holds
<1>7. \A s \in m.regions : r.start = s.start => r = s
  BY <1>1, <1>2
<1> QED
  BY <1>1, <1>4, <1>5, <1>6, <1>7

\* The key the regions are sorted by tells every two of them apart.
LEMMA BeforeOrders ==
  ASSUME NEW m, IsTarget(m)
  PROVE  /\ \A x, y \in m.regions : x # y => Before(m, x, y) \/ Before(m, y, x)
         /\ \A x \in m.regions : ~Before(m, x, x)
         /\ \A x, y, z \in m.regions : Before(m, x, y) /\ Before(m, y, z) => Before(m, x, z)
<1>1. \A x \in m.regions : Rank(m, x) \in Int /\ SizeOf(x) \in Int /\ x.start \in Int
  BY RankIs, RegionOf
<1>2. ASSUME NEW x \in m.regions, NEW y \in m.regions, x # y PROVE Before(m, x, y) \/ Before(m, y, x)
  <2>1. x.start # y.start
    BY <1>2, RegionOf
  <2> QED BY <1>1, <2>1 DEF Before
<1>3. ASSUME NEW x \in m.regions PROVE ~Before(m, x, x)
  BY <1>1 DEF Before
<1>4. ASSUME NEW x \in m.regions, NEW y \in m.regions, NEW z \in m.regions, Before(m, x, y), Before(m, y, z)
      PROVE  Before(m, x, z)
  BY <1>1, <1>4 DEF Before
<1> QED
  BY <1>2, <1>3, <1>4

\* The regions in the order they are loaded in.
LEMMA OrderIs ==
  ASSUME NEW m, IsTarget(m)
  PROVE  /\ OrderOf(m) \in Seq(m.regions) /\ Len(OrderOf(m)) = Cardinality(m.regions)
         /\ Cardinality(m.regions) \in Nat
         /\ \A r \in m.regions : \E i \in 1..Cardinality(m.regions) : OrderOf(m)[i] = r
         /\ \A i, j \in 1..Cardinality(m.regions) : i < j => Before(m, OrderOf(m)[i], OrderOf(m)[j])
<1>1. PICK R : R = {p \in m.regions \X m.regions : Before(m, p[1], p[2])}
  OBVIOUS
<1>2. \A x, y \in m.regions : <<x, y>> \in R <=> Before(m, x, y)
  BY <1>1
<1>3. Orders(R, m.regions)
  BY <1>2, BeforeOrders DEF Orders
<1>4. IsFiniteSet(m.regions)
  BY DEF IsTarget
<1>5. PICK order : order = OrderOf(m)
  OBVIOUS
<1>6. order = InOrder(m.regions, R)
  BY <1>1, <1>5 DEF OrderOf
<1>7. /\ order \in Seq(m.regions) /\ Len(order) = Cardinality(m.regions)
      /\ Cardinality(m.regions) \in Nat
      /\ \A r \in m.regions : \E i \in 1..Cardinality(m.regions) : order[i] = r
      /\ \A i, j \in 1..Cardinality(m.regions) : i < j => <<order[i], order[j]>> \in R
  <2>1. PICK S : S = m.regions
    OBVIOUS
  <2>2. Orders(R, S) /\ IsFiniteSet(S) /\ order = InOrder(S, R)
    BY <1>3, <1>4, <1>6, <2>1
  <2>3. /\ order \in Seq(S) /\ Len(order) = Cardinality(S) /\ Cardinality(S) \in Nat
        /\ \A r \in S : \E i \in 1..Cardinality(S) : order[i] = r
        /\ \A i, j \in 1..Cardinality(S) : i < j => <<order[i], order[j]>> \in R
    BY <2>2, InOrderIs
  <2> QED BY <2>1, <2>3
<1>8. \A i \in 1..Cardinality(m.regions) : order[i] \in m.regions
  BY <1>7
<1> QED
  BY <1>2, <1>5, <1>7, <1>8

\* The snapshot of the launch, before memory is put into it.
Launched(m) == PutBreakpoints(PutRegions(PutReg(PutFrames(PutProcesses(Blank), m), m), m), m)

LEMMA LaunchedIs ==
  ASSUME NEW m
  PROVE  /\ IsTrace(Launched(m)) /\ Launched(m).bytes = <<>> /\ Launched(m).errors = {}
         /\ Launched(m).state = "STOPPED" /\ Launched(m).icount = 0
         /\ Launched(m).frame = <<m.pc, m.sp>> /\ Launched(m).regs = <<m.pc, m.sp>>
         /\ Launched(m).breaks = {b \in m.breaks : b.kind # "REGISTER"}
<1>1. IsTrace(Blank) /\ Blank.bytes = <<>> /\ Blank.errors = {} /\ Blank.icount = 0
  <2>1. PICK b : b = Blank
    OBVIOUS
  <2>2. b = [bytes |-> <<>>, errors |-> {}, state |-> "", icount |-> 0, frame |-> <<>>,
             regs |-> <<>>, regions |-> {}, breaks |-> {}]
    BY <2>1 DEF Blank
  <2>3. b.bytes = <<>> /\ b.errors = {} /\ b.icount = 0 /\ IsTrace(b)
    BY <2>2 DEF IsTrace
  <2> QED BY <2>1, <2>3
<1>2. PICK t1 : t1 = PutProcesses(Blank)
  OBVIOUS
<1>3. IsTrace(t1) /\ t1.bytes = <<>> /\ t1.errors = {} /\ t1.icount = 0 /\ t1.state = "STOPPED"
  BY <1>1, <1>2, PutProcessesIs
<1>4. PICK t2 : t2 = PutFrames(t1, m)
  OBVIOUS
<1>5. /\ IsTrace(t2) /\ t2.bytes = <<>> /\ t2.errors = {} /\ t2.icount = 0 /\ t2.state = "STOPPED"
      /\ t2.frame = <<m.pc, m.sp>>
  BY <1>3, <1>4, PutFramesIs
<1>6. PICK t3 : t3 = PutReg(t2, m)
  OBVIOUS
<1>7. /\ IsTrace(t3) /\ t3.bytes = <<>> /\ t3.errors = {} /\ t3.icount = 0 /\ t3.state = "STOPPED"
      /\ t3.frame = <<m.pc, m.sp>> /\ t3.regs = <<m.pc, m.sp>>
  BY <1>5, <1>6, PutRegIs
<1>8. PICK t4 : t4 = PutRegions(t3, m)
  OBVIOUS
<1>9. /\ IsTrace(t4) /\ t4.bytes = <<>> /\ t4.errors = {} /\ t4.icount = 0 /\ t4.state = "STOPPED"
      /\ t4.frame = <<m.pc, m.sp>> /\ t4.regs = <<m.pc, m.sp>>
  BY <1>7, <1>8, PutRegionsIs
<1>10. PICK t5 : t5 = PutBreakpoints(t4, m)
  OBVIOUS
<1>11. /\ IsTrace(t5) /\ t5.bytes = <<>> /\ t5.errors = {} /\ t5.icount = 0 /\ t5.state = "STOPPED"
       /\ t5.frame = <<m.pc, m.sp>> /\ t5.regs = <<m.pc, m.sp>>
       /\ t5.breaks = {b \in m.breaks : b.kind # "REGISTER"}
  BY <1>9, <1>10, PutBreakpointsIs
<1>12. t5 = Launched(m)
  BY <1>2, <1>4, <1>6, <1>8, <1>10 DEF Launched
<1> QED
  BY <1>11, <1>12

LEMMA LaunchShown ==
  ASSUME NEW m, IsTarget(m), NEW preload, NEW cap
  PROVE  /\ IsTrace(PutAll(m, preload, cap)) /\ ShownOf(PutAll(m, preload, cap), m)
         /\ IsMachine(m) /\ ~m.running
<1>1. PICK t : t = Launched(m)
  OBVIOUS
<1>2. /\ IsTrace(t) /\ t.bytes = <<>> /\ t.errors = {} /\ t.icount = 0 /\ t.state = "STOPPED"
      /\ t.frame = <<m.pc, m.sp>> /\ t.regs = <<m.pc, m.sp>>
      /\ t.breaks = {b \in m.breaks : b.kind # "REGISTER"}
  BY <1>1, LaunchedIs
<1>3. Tells(t, m)
  <2>1. DOMAIN t.bytes = {}
    BY <1>2
  <2> QED BY <1>2, <2>1 DEF Tells
<1>4. PICK u : u = PutAll(m, preload, cap)
  OBVIOUS
<1>5. u = IF preload THEN Preload(t, m, cap) ELSE PutPages(PutPages(t, m, m.pc, 1), m, m.sp, 1)
  BY <1>1, <1>4 DEF PutAll, Launched
<1>6. IsTrace(u) /\ Tells(u, m) /\ Beside(t, u)
  <2>1. CASE preload
    <3>1. u = Preload(t, m, cap)
      BY <1>5, <2>1
    <3>2. Len(OrderOf(m)) \in Nat
      BY OrderIs
    <3> QED BY <1>2, <1>3, <3>1, <3>2, PreloadIs
  <2>2. CASE ~preload
    <3>1. PICK v : v = PutPages(t, m, m.pc, 1)
      OBVIOUS
    <3>2. u = PutPages(v, m, m.sp, 1)
      BY <1>5, <2>2, <3>1
    <3>3. IsTrace(v) /\ Tells(v, m) /\ Beside(t, v)
      BY <1>2, <1>3, <3>1, PutPagesIs
    <3>4. IsTrace(u) /\ Tells(u, m) /\ Beside(v, u)
      BY <3>2, <3>3, PutPagesIs
    <3> QED BY <3>3, <3>4 DEF Beside
  <2> QED BY <2>1, <2>2
<1>7. /\ m = [regions |-> m.regions, mem |-> [a \in DOMAIN m.mem |-> m.mem[a]], pc |-> m.pc,
          sp |-> m.sp, breaks |-> m.breaks, icount |-> 0, running |-> FALSE,
          terminated |-> FALSE, modules |-> m.modules, input |-> m.input]
      /\ m.mem = [a \in DOMAIN m.mem |-> m.mem[a]]
  <2>1. m = [regions |-> m.regions, mem |-> [a \in DOMAIN m.mem |-> m.mem[a]], pc |-> m.pc,
          sp |-> m.sp, breaks |-> m.breaks, icount |-> 0, running |-> FALSE,
          terminated |-> FALSE, modules |-> m.modules, input |-> m.input]
    BY DEF IsTarget
  <2>2. PICK mem : mem = [a \in DOMAIN m.mem |-> m.mem[a]]
    OBVIOUS
  <2>3. m.mem = mem
    BY <2>1, <2>2
  <2> QED BY <2>1, <2>2, <2>3
<1>8. m.icount = 0 /\ m.running = FALSE /\ m.terminated = FALSE
  BY <1>7
<1>9. IsMachine(m)
  BY <1>7, <1>8 DEF IsMachine
<1>10. ShownOf(u, m)
  BY <1>2, <1>6, <1>8 DEF ShownOf, Beside, Shows
<1> QED
  BY <1>4, <1>6, <1>8, <1>9, <1>10

LEMMA PageDownIs ==
  ASSUME NEW a \in Int
  PROVE  PageDown(a) \in Int /\ PageDown(a) <= a /\ a < PageDown(a) + TracePage
<1>1. PICK q : q = a \div TracePage
  OBVIOUS
<1>2. TracePage \in Nat /\ TracePage > 0
  BY PublishingAssumption
<1>3. q \in Int /\ a = TracePage * q + (a % TracePage) /\ a % TracePage \in 0..(TracePage - 1)
  BY <1>1, <1>2
<1>4. PICK v \in Int : v = q * TracePage
  BY <1>2, <1>3
<1>5. TracePage * q = v
  BY <1>2, <1>3, <1>4
<1> QED
  BY <1>1, <1>2, <1>3, <1>4, <1>5 DEF PageDown

\* What the window on a region r too large for it is, around the focus.
LEMMA WindowIs ==
  ASSUME NEW m, IsTarget(m), NEW r \in m.regions, NEW length \in Nat, length > 0, length < SizeOf(r)
  PROVE  /\ WindowAt(m, r, length) \in r.start..r.end
         /\ WindowAt(m, r, length) + length <= r.end + 1
         /\ length + 1 >= 2 * TracePage /\ Holds(r, m.pc) => m.pc \in WindowAt(m, r, length)..(WindowAt(m, r, length) + length - 1)
         /\ length + 1 >= 2 * TracePage /\ ~Holds(r, m.pc) /\ Holds(r, m.sp) => m.sp \in WindowAt(m, r, length)..(WindowAt(m, r, length) + length - 1)
<1>1. PICK focus : focus = IF Holds(r, m.pc) THEN m.pc ELSE IF Holds(r, m.sp) THEN m.sp ELSE r.start
  OBVIOUS
<1>2. PICK start, end : start = r.start /\ end = r.end
  OBVIOUS
<1>3. start \in Nat /\ end \in Nat /\ start <= end /\ length <= end - start
  BY <1>2, RegionOf DEF SizeOf
<1>4. m.pc \in Nat /\ m.sp \in Nat
  <2>1. PICK s \in m.regions : m.pc \in s.start..s.end
    BY DEF IsTarget
  <2>2. s.start \in Nat /\ s.end \in Nat
    BY <2>1, RegionOf
  <2> QED BY <2>1, <2>2 DEF IsTarget
<1>5. focus \in Nat /\ start <= focus /\ focus <= end
  BY <1>1, <1>2, <1>3, <1>4 DEF Holds
<1>6. PICK half : half = length \div 2
  OBVIOUS
<1>7. half \in Nat /\ 2 * half <= length /\ length <= 2 * half + 1
  BY <1>6
<1>8. PICK wanted : wanted = Larger(start, focus - half)
  OBVIOUS
<1>9. wanted \in Int /\ start <= wanted /\ focus - half <= wanted /\ wanted <= focus
  BY <1>3, <1>5, <1>7, <1>8 DEF Larger
<1>10. PICK low : low = PageDown(wanted)
  OBVIOUS
<1>11. low \in Int /\ low <= wanted /\ wanted < low + TracePage
  BY <1>9, <1>10, PageDownIs
<1>12. PICK lo : lo = Larger(start, Smaller(low, end + 1 - length))
  OBVIOUS
<1>13. WindowAt(m, r, length) = lo
  BY <1>1, <1>2, <1>6, <1>8, <1>10, <1>12 DEF WindowAt
<1>14. lo \in start..end /\ lo + length <= end + 1 /\ lo <= focus
  BY <1>3, <1>5, <1>9, <1>11, <1>12 DEF Larger, Smaller
<1>15. ASSUME length + 1 >= 2 * TracePage PROVE focus <= lo + length - 1
  <2>1. TracePage \in Nat /\ TracePage > 0
    BY PublishingAssumption
  <2>2. CASE end + 1 - length <= low
    BY <1>3, <1>5, <1>11, <1>12, <2>2 DEF Larger, Smaller
  <2>3. CASE low < end + 1 - length
    <3>1. low <= lo
      BY <1>3, <1>11, <1>12, <2>3 DEF Larger, Smaller
    <3>2. focus <= wanted + half
      BY <1>5, <1>7, <1>9
    <3>3. half + TracePage <= length
      BY <1>7, <1>15, <2>1
    <3> QED BY <1>5, <1>7, <1>9, <1>11, <1>14, <2>1, <3>1, <3>2, <3>3
  <2> QED BY <1>3, <1>11, <2>2, <2>3
<1>16. ASSUME length + 1 >= 2 * TracePage PROVE focus \in lo..(lo + length - 1)
  BY <1>5, <1>14, <1>15, <1>16
<1> QED
  BY <1>1, <1>2, <1>13, <1>14, <1>16

\* A region, with what is left of the cap: no more than is left is copied, and
\* the place it is copied for is, if there is room for two pages or for all.
LEMMA PreloadOneRoom ==
  ASSUME NEW m, IsTarget(m), NEW r \in m.regions, NEW cap \in Nat, NEW p, p.total \in Nat, p.total <= cap,
         IsTrace(p.t), Tells(p.t, m)
  PROVE  LET q == PreloadOne(m, cap, p, r)
             room == cap - p.total
         IN  /\ q.total \in Nat /\ q.total <= cap /\ p.total <= q.total
             /\ DOMAIN p.t.bytes \subseteq DOMAIN q.t.bytes
             /\ \E from \in Int : DOMAIN q.t.bytes \subseteq DOMAIN p.t.bytes \cup from..(from + (q.total - p.total) - 1)
             /\ room >= SizeOf(r) => q.total = p.total + SizeOf(r)
             /\ room >= Smaller(SizeOf(r), 2 * TracePage) =>
                  /\ Holds(r, m.pc) => m.pc \in DOMAIN q.t.bytes
                  /\ ~Holds(r, m.pc) /\ Holds(r, m.sp) => m.sp \in DOMAIN q.t.bytes
<1>1. PICK q : q = PreloadOne(m, cap, p, r)
  OBVIOUS
<1>2. PICK room : room = cap - p.total
  OBVIOUS
<1>3. room \in Nat
  BY <1>2
<1>4. PICK size \in Nat : size = SizeOf(r)
  BY RegionOf
<1>5. PICK start, end : start = r.start /\ end = r.end
  OBVIOUS
<1>6. start \in Nat /\ end \in Nat /\ start <= end /\ size = end - start + 1
  BY <1>4, <1>5, RegionOf DEF SizeOf
<1>7. \A a \in start..end : a \in DOMAIN m.mem
  BY <1>5, RegionOf
<1>8. TracePage \in Nat /\ TracePage > 0 /\ Window \in Nat /\ Window >= 2 * TracePage
  BY PublishingAssumption
<1>9. ASSUME NEW from \in Int, NEW to \in Int, start <= from, from <= to, to <= end + 1
      PROVE  DOMAIN PutBytes(p.t, m, from, to).bytes = DOMAIN p.t.bytes \cup from..(to - 1)
  <2>1. PICK there : there = from..(to - 1)
    OBVIOUS
  <2>2. there \cap DOMAIN m.mem = there /\ there \ there = {}
    BY <1>6, <1>7, <1>9, <2>1
  <2>3. PICK bytes : bytes = [a \in DOMAIN p.t.bytes \cup there |-> IF a \in there THEN m.mem[a] ELSE p.t.bytes[a]]
    OBVIOUS
  <2>4. PICK missed : missed = (p.t.errors \ there) \cup {}
    OBVIOUS
  <2>5. (DOMAIN p.t.bytes \cup there) \ {} = DOMAIN p.t.bytes \cup there
    OBVIOUS
  <2>6. PutBytes(p.t, m, from, to) = [p.t EXCEPT !.bytes = bytes, !.errors = missed]
    BY <2>1, <2>2, <2>3, <2>4, <2>5 DEF PutBytes
  <2>7. PutBytes(p.t, m, from, to).bytes = bytes
    <3>1. PICK t : t = p.t
      OBVIOUS
    <3>2. [t EXCEPT !.bytes = bytes, !.errors = missed].bytes = bytes
      BY <3>1 DEF IsTrace
    <3> QED BY <2>6, <3>1, <3>2
  <2> QED BY <2>1, <2>3, <2>7
<1>10. CASE room = 0
  <2>1. q = p
    BY <1>1, <1>2, <1>3, <1>10 DEF PreloadOne
  <2>2. ~(room >= Smaller(size, 2 * TracePage))
    BY <1>6, <1>8, <1>10 DEF Smaller
  <2>3. ~(room >= size)
    BY <1>6, <1>10
  <2>4. DOMAIN q.t.bytes \subseteq DOMAIN p.t.bytes \cup 0..(0 + (q.total - p.total) - 1)
    BY <2>1
  <2> QED BY <1>1, <1>2, <1>4, <2>1, <2>2, <2>3, <2>4
<1>11. CASE room # 0 /\ size <= room
  <2>1. q = [t |-> PutBytes(p.t, m, start, end + 1), total |-> p.total + size]
    BY <1>1, <1>2, <1>3, <1>4, <1>5, <1>11 DEF PreloadOne
  <2>2. q.total = p.total + size /\ q.t = PutBytes(p.t, m, start, end + 1)
    BY <2>1
  <2>3. DOMAIN q.t.bytes = DOMAIN p.t.bytes \cup start..((end + 1) - 1)
    BY <1>6, <1>9, <2>2
  <2>4. start..((end + 1) - 1) = start..end /\ start + (q.total - p.total) - 1 = end
    BY <1>6, <2>2
  <2>5. q.total \in Nat /\ q.total <= cap /\ p.total <= q.total
    BY <1>2, <1>6, <1>11, <2>2
  <2>6. \A a \in Nat : Holds(r, a) => a \in start..end
    BY <1>5, <1>6 DEF Holds
  <2>7. m.pc \in Nat /\ m.sp \in Nat
    <3>1. PICK s \in m.regions : m.pc \in s.start..s.end
      BY DEF IsTarget
    <3>2. s.start \in Nat /\ s.end \in Nat
      BY <3>1, RegionOf
    <3> QED BY <3>1, <3>2 DEF IsTarget
  <2>8. /\ Holds(r, m.pc) => m.pc \in DOMAIN q.t.bytes
        /\ Holds(r, m.sp) => m.sp \in DOMAIN q.t.bytes
    BY <2>3, <2>4, <2>6, <2>7
  <2>9. start \in Int /\ DOMAIN q.t.bytes \subseteq DOMAIN p.t.bytes \cup start..(start + (q.total - p.total) - 1)
    BY <1>6, <2>3, <2>4
  <2>10. DOMAIN p.t.bytes \subseteq DOMAIN q.t.bytes
    BY <2>3
  <2> QED BY <1>1, <1>4, <2>2, <2>5, <2>8, <2>9, <2>10
<1>12. CASE room # 0 /\ room < size
  <2>1. PICK length : length = Smaller(room, Larger(Window, TracePage))
    OBVIOUS
  <2>2. length \in Nat /\ length > 0 /\ length <= room /\ length < size
        /\ (room >= 2 * TracePage => length >= 2 * TracePage)
    BY <1>3, <1>8, <1>12, <2>1 DEF Smaller, Larger
  <2>3. PICK lo : lo = WindowAt(m, r, length)
    OBVIOUS
  <2>4. /\ lo \in start..end /\ lo + length <= end + 1
        /\ length + 1 >= 2 * TracePage /\ Holds(r, m.pc) => m.pc \in lo..(lo + length - 1)
        /\ length + 1 >= 2 * TracePage /\ ~Holds(r, m.pc) /\ Holds(r, m.sp) => m.sp \in lo..(lo + length - 1)
    BY <1>4, <1>5, <2>2, <2>3, WindowIs
  <2>5. PICK hi : hi = lo + Smaller(length, end + 1 - lo)
    OBVIOUS
  <2>6. hi = lo + length /\ lo \in Int /\ hi \in Int
    BY <1>6, <2>2, <2>4, <2>5 DEF Smaller
  <2>7. q = IF length < TracePage THEN p ELSE [t |-> PutBytes(p.t, m, lo, hi), total |-> p.total + hi - lo]
    BY <1>1, <1>2, <1>3, <1>4, <1>5, <1>12, <2>1, <2>3, <2>5 DEF PreloadOne
  <2>8. room >= Smaller(size, 2 * TracePage) => room >= 2 * TracePage
    BY <1>3, <1>6, <1>8, <1>12 DEF Smaller
  <2>9. CASE length < TracePage
    <3>1. q = p
      BY <2>7, <2>9
    <3>2. ~(room >= Smaller(size, 2 * TracePage))
      BY <1>3, <1>8, <2>2, <2>8, <2>9
    <3>3. DOMAIN q.t.bytes \subseteq DOMAIN p.t.bytes \cup 0..(0 + (q.total - p.total) - 1)
      BY <3>1
    <3> QED BY <1>1, <1>2, <1>3, <1>4, <1>12, <3>1, <3>2, <3>3
  <2>10. CASE ~(length < TracePage)
    <3>1. q.t = PutBytes(p.t, m, lo, hi) /\ q.total = p.total + hi - lo
      BY <2>7, <2>10
    <3>2. q.total = p.total + length
      BY <2>2, <2>6, <3>1
    <3>3. DOMAIN q.t.bytes = DOMAIN p.t.bytes \cup lo..(hi - 1)
      BY <1>6, <1>9, <2>2, <2>4, <2>6, <3>1
    <3>4. hi - 1 = lo + length - 1 /\ lo + (q.total - p.total) - 1 = hi - 1
      BY <2>2, <2>6, <3>2
    <3>5. q.total \in Nat /\ q.total <= cap /\ p.total <= q.total
      BY <1>2, <2>2, <3>2
    <3>6. DOMAIN q.t.bytes \subseteq DOMAIN p.t.bytes \cup lo..(lo + (q.total - p.total) - 1)
      BY <3>3, <3>4
    <3>7. DOMAIN p.t.bytes \subseteq DOMAIN q.t.bytes
      BY <3>3
    <3>8. ASSUME room >= Smaller(size, 2 * TracePage)
          PROVE  /\ Holds(r, m.pc) => m.pc \in DOMAIN q.t.bytes
                 /\ ~Holds(r, m.pc) /\ Holds(r, m.sp) => m.sp \in DOMAIN q.t.bytes
      <4>1. length + 1 >= 2 * TracePage
        BY <1>8, <2>2, <2>8, <3>8
      <4> QED BY <2>4, <3>3, <3>4, <4>1
    <3>9. ~(room >= size)
      BY <1>3, <1>12
    <3> QED BY <1>1, <1>2, <1>4, <2>6, <3>5, <3>6, <3>7, <3>8, <3>9
  <2> QED BY <2>9, <2>10
<1> QED
  BY <1>3, <1>10, <1>11, <1>12

\* What is loaded after k of the regions.
LoadedSoFar(m, cap, t, p) ==
  /\ p.total \in Nat /\ p.total <= cap /\ IsTrace(p.t) /\ Tells(p.t, m)
  /\ IsFiniteSet(DOMAIN p.t.bytes) /\ Cardinality(DOMAIN p.t.bytes) <= p.total

LEMMA PreloadStep ==
  ASSUME NEW m, IsTarget(m), NEW r \in m.regions, NEW cap \in Nat, NEW t, NEW p,
         LoadedSoFar(m, cap, t, p)
  PROVE  LoadedSoFar(m, cap, t, PreloadOne(m, cap, p, r))
<1>1. PICK q : q = PreloadOne(m, cap, p, r)
  OBVIOUS
<1>2. IsTrace(q.t) /\ Tells(q.t, m)
  BY <1>1, PreloadOneIs DEF LoadedSoFar
<1>3. PICK from \in Int : /\ q.total \in Nat /\ q.total <= cap /\ p.total <= q.total
                          /\ DOMAIN q.t.bytes \subseteq DOMAIN p.t.bytes \cup from..(from + (q.total - p.total) - 1)
  BY <1>1, PreloadOneRoom DEF LoadedSoFar
<1>4. PICK old : old = DOMAIN p.t.bytes
  OBVIOUS
<1>5. PICK new : new = from..(from + (q.total - p.total) - 1)
  OBVIOUS
<1>6. PICK d \in Nat : d = q.total - p.total
  BY <1>3 DEF LoadedSoFar
<1>7. IsFiniteSet(new) /\ Cardinality(new) = d
  <2>1. PICK to \in Int : to = from + d - 1
    OBVIOUS
  <2>2. new = from..to
    BY <1>5, <1>6, <2>1
  <2>3. IsFiniteSet(from..to) /\ Cardinality(from..to) = IF from > to THEN 0 ELSE to - from + 1
    BY FS_Interval
  <2> QED BY <2>1, <2>2, <2>3
<1>8. IsFiniteSet(old) /\ Cardinality(old) \in Nat /\ Cardinality(old) <= p.total
  BY <1>4, FS_CardinalityType DEF LoadedSoFar
<1>9. IsFiniteSet(old \cup new) /\ Cardinality(old \cup new) <= Cardinality(old) + d
  <2>1. /\ IsFiniteSet(old \cup new) /\ IsFiniteSet(old \cap new)
        /\ Cardinality(old \cup new) = Cardinality(old) + Cardinality(new) - Cardinality(old \cap new)
    <3>1. IsFiniteSet(old \cap new)
      BY <1>8, FS_Intersection
    <3> QED BY <1>7, <1>8, <3>1, FS_Union
  <2>2. Cardinality(old \cap new) \in Nat
    BY <2>1, FS_CardinalityType
  <2> QED BY <1>7, <1>8, <2>1, <2>2
<1>10. PICK now : now = DOMAIN q.t.bytes
  OBVIOUS
<1>11. now \in SUBSET (old \cup new)
  BY <1>3, <1>4, <1>5, <1>10
<1>12. /\ IsFiniteSet(now) /\ Cardinality(now) <= Cardinality(old \cup new)
  <2>1. PICK both : both = old \cup new
    OBVIOUS
  <2>2. IsFiniteSet(both) /\ now \in SUBSET both
    BY <1>9, <1>11, <2>1
  <2>3. IsFiniteSet(now) /\ Cardinality(now) <= Cardinality(both)
    BY <2>2, FS_Subset
  <2> QED BY <2>1, <2>3
<1>13. Cardinality(now) \in Nat /\ Cardinality(old \cup new) \in Nat
  <2>1. PICK both : both = old \cup new
    OBVIOUS
  <2>2. Cardinality(both) \in Nat
    BY <1>9, <2>1, FS_CardinalityType
  <2>3. Cardinality(now) \in Nat
    BY <1>12, FS_CardinalityType
  <2> QED BY <2>1, <2>2, <2>3
<1>14. Cardinality(now) <= q.total
  <2>1. PICK held \in Nat : held = Cardinality(old)
    BY <1>8
  <2>2. PICK all \in Nat : all = Cardinality(old \cup new)
    BY <1>13
  <2>3. PICK have \in Nat : have = Cardinality(now)
    BY <1>13
  <2>4. held <= p.total /\ all <= held + d /\ have <= all
    BY <1>8, <1>9, <1>12, <2>1, <2>2, <2>3
  <2>5. p.total \in Nat /\ q.total = p.total + d
    BY <1>3, <1>6 DEF LoadedSoFar
  <2> QED BY <2>3, <2>4, <2>5
<1> QED
  BY <1>1, <1>2, <1>3, <1>10, <1>12, <1>14 DEF LoadedSoFar

\* The region a mapped place is in.
Around(m, a) == CHOOSE r \in m.regions : Holds(r, a)

LEMMA AroundIs ==
  ASSUME NEW m, IsTarget(m), NEW a \in Nat, a \in DOMAIN m.mem
  PROVE  /\ Around(m, a) \in m.regions /\ Holds(Around(m, a), a)
         /\ \A r \in m.regions : Holds(r, a) => r = Around(m, a)
<1>1. PICK s \in m.regions : a \in s.start..s.end
  BY DEF IsTarget
<1>2. Holds(s, a)
  BY <1>1, RegionOf
<1>3. PICK r : r = Around(m, a)
  OBVIOUS
<1>4. r \in m.regions /\ Holds(r, a)
  BY <1>2, <1>3 DEF Around
<1> QED
  BY <1>3, <1>4, RegionOf

\* The region of the PC is loaded first, that of the stack pointer next.
LEMMA FirstTwo ==
  ASSUME NEW m, IsTarget(m)
  PROVE  /\ 1 \in 1..Cardinality(m.regions) /\ OrderOf(m)[1] = Around(m, m.pc)
         /\ m.sp \in DOMAIN m.mem /\ Around(m, m.sp) # Around(m, m.pc) =>
              2 \in 1..Cardinality(m.regions) /\ OrderOf(m)[2] = Around(m, m.sp)
<1>1. PICK n \in Nat : n = Cardinality(m.regions)
  BY OrderIs
<1>2. PICK order : order = OrderOf(m)
  OBVIOUS
<1>3. /\ \A i \in 1..n : order[i] \in m.regions
      /\ \A r \in m.regions : \E i \in 1..n : order[i] = r
      /\ \A i, j \in 1..n : i < j => Before(m, order[i], order[j])
  <2>1. order \in Seq(m.regions) /\ Len(order) = n
    BY <1>1, <1>2, OrderIs
  <2>2. \A i \in 1..n : order[i] \in m.regions
    BY <2>1
  <2>3. \A r \in m.regions : \E i \in 1..n : order[i] = r
    BY <1>1, <1>2, OrderIs
  <2>4. \A i, j \in 1..n : i < j => Before(m, order[i], order[j])
    BY <1>1, <1>2, OrderIs
  <2> QED BY <2>2, <2>3, <2>4
<1>4. m.pc \in Nat /\ m.pc \in DOMAIN m.mem /\ m.sp \in Nat
  <2>1. PICK s \in m.regions : m.pc \in s.start..s.end
    BY DEF IsTarget
  <2>2. s.start \in Nat /\ s.end \in Nat
    BY <2>1, RegionOf
  <2> QED BY <2>1, <2>2 DEF IsTarget
<1>5. PICK code : code = Around(m, m.pc)
  OBVIOUS
<1>6. code \in m.regions /\ Holds(code, m.pc) /\ \A r \in m.regions : Holds(r, m.pc) => r = code
  BY <1>4, <1>5, AroundIs
<1>7. \A r, s \in m.regions : Before(m, r, s) => Rank(m, r) <= Rank(m, s) /\ r # s
  <2>1. \A r \in m.regions : ~Before(m, r, r)
    BY BeforeOrders
  <2>2. \A r \in m.regions : Rank(m, r) \in Int
    BY RankIs
  <2>3. \A r, s \in m.regions : Before(m, r, s) => Rank(m, r) <= Rank(m, s)
    BY <2>2 DEF Before
  <2> QED BY <2>1, <2>3
<1>8. 1 \in 1..n /\ order[1] = code
  <2>1. PICK i \in 1..n : order[i] = code
    BY <1>3, <1>6
  <2>2. 1 \in 1..n
    BY <2>1
  <2>3. CASE 1 < i
    <3>1. Before(m, order[1], code) /\ order[1] \in m.regions
      BY <1>3, <2>1, <2>2, <2>3
    <3>2. Rank(m, order[1]) <= Rank(m, code) /\ order[1] # code
      BY <1>6, <1>7, <3>1
    <3>3. Rank(m, code) = 0 /\ Rank(m, order[1]) \in 0..5
      BY <1>6, RankIs
    <3>4. Holds(order[1], m.pc)
      BY <3>2, <3>3, RankIs
    <3> QED BY <1>6, <3>1, <3>2, <3>4
  <2> QED BY <2>1, <2>2, <2>3
<1>9. ASSUME m.sp \in DOMAIN m.mem, Around(m, m.sp) # code
      PROVE  2 \in 1..n /\ order[2] = Around(m, m.sp)
  <2>1. PICK stack : stack = Around(m, m.sp)
    OBVIOUS
  <2>2. stack \in m.regions /\ Holds(stack, m.sp) /\ \A r \in m.regions : Holds(r, m.sp) => r = stack
    BY <1>4, <1>9, <2>1, AroundIs
  <2>3. ~Holds(stack, m.pc)
    BY <1>6, <1>9, <2>1, <2>2
  <2>4. PICK i \in 1..n : order[i] = stack
    BY <1>3, <2>2
  <2>5. i # 1
    BY <1>8, <1>9, <2>1, <2>4
  <2>6. 2 \in 1..n
    BY <2>4, <2>5
  <2>7. CASE 2 < i
    <3>1. Before(m, order[2], stack) /\ order[2] \in m.regions
      BY <1>3, <2>4, <2>6, <2>7
    <3>2. Rank(m, order[2]) <= Rank(m, stack) /\ order[2] # stack
      BY <1>7, <2>2, <3>1
    <3>3. Rank(m, stack) = 1 /\ Rank(m, order[2]) \in 0..5
      BY <2>2, <2>3, RankIs
    <3>4. Before(m, order[1], order[2])
      BY <1>3, <1>8, <2>6
    <3>5. order[2] # code
      BY <1>6, <1>7, <1>8, <3>1, <3>4
    <3>6. ~Holds(order[2], m.pc)
      BY <1>6, <3>1, <3>5
    <3>7. Rank(m, order[2]) = 1
      BY <3>2, <3>3, <3>6, RankIs
    <3>8. Holds(order[2], m.sp)
      BY <3>7, RankIs
    <3> QED BY <2>2, <3>1, <3>2, <3>8
  <2> QED BY <2>1, <2>4, <2>5, <2>6, <2>7
<1> QED
  BY <1>1, <1>2, <1>5, <1>8, <1>9

\* What preload_memory promises of a launch.
LEMMA PreloadedIs ==
  ASSUME NEW m, IsTarget(m), NEW cap \in Nat
  PROVE  PreloadedRight(m, cap)
<1>1. PICK n \in Nat : n = Len(OrderOf(m)) /\ n = Cardinality(m.regions)
  BY OrderIs
<1>2. PICK order : order = OrderOf(m)
  OBVIOUS
<1>3. \A i \in 1..n : order[i] \in m.regions
  <2>1. order \in Seq(m.regions) /\ Len(order) = n
    BY <1>1, <1>2, OrderIs
  <2> QED BY <2>1
<1>4. PICK t : t = Launched(m)
  OBVIOUS
<1>5. PICK f : Loading(f, t, m, cap, order, n) /\ Preload(t, m, cap) = f[n].t
  <2>1. \E f : Loading(f, t, m, cap, OrderOf(m), n) /\ Preload(t, m, cap) = f[n].t
    <3>1. n = Len(OrderOf(m))
      BY <1>1
    <3> QED BY <3>1, PreloadLoads
  <2> QED BY <1>2, <2>1
<1>6. f[0] = [t |-> t, total |-> 0]
  BY <1>5 DEF Loading
<1>7. \A k \in 0..(n - 1) : f[k + 1] = PreloadOne(m, cap, f[k], order[k + 1])
  <2> SUFFICES ASSUME NEW k \in 0..(n - 1) PROVE f[k + 1] = PreloadOne(m, cap, f[k], order[k + 1])
    OBVIOUS
  <2>1. k + 1 \in 0..n /\ k + 1 # 0 /\ (k + 1) - 1 = k
    OBVIOUS
  <2> QED BY <1>5, <2>1 DEF Loading
<1>8. LoadedSoFar(m, cap, t, f[0])
  <2>1. IsTrace(t) /\ t.bytes = <<>> /\ t.errors = {}
    BY <1>4, LaunchedIs
  <2>2. DOMAIN t.bytes = {}
    BY <2>1
  <2>3. Tells(t, m)
    BY <2>1, <2>2 DEF Tells
  <2>4. IsFiniteSet(DOMAIN t.bytes) /\ Cardinality(DOMAIN t.bytes) = 0
    BY <2>2, FS_EmptySet
  <2> QED BY <1>6, <2>1, <2>3, <2>4 DEF LoadedSoFar
<1>9. \A k \in 0..n : LoadedSoFar(m, cap, t, f[k])
  <2> SUFFICES ASSUME NEW j \in 0..n PROVE LoadedSoFar(m, cap, t, f[j])
    OBVIOUS
  <2> DEFINE Good == {k \in 0..j : LoadedSoFar(m, cap, t, f[k])}
  <2>1. 0 \in Good
    BY <1>8
  <2>2. ASSUME NEW k \in 0..(j - 1), k \in Good PROVE k + 1 \in Good
    <3>1. k \in 0..(n - 1) /\ k + 1 \in 0..j /\ k + 1 \in 1..n
      OBVIOUS
    <3>2. LoadedSoFar(m, cap, t, PreloadOne(m, cap, f[k], order[k + 1]))
      <4>1. PICK r \in m.regions : r = order[k + 1]
        BY <1>3, <3>1
      <4>2. LoadedSoFar(m, cap, t, f[k])
        BY <2>2
      <4> QED BY <4>1, <4>2, PreloadStep
    <3> QED BY <1>7, <3>1, <3>2
  <2>3. j \in Good
    <3>1. j \in Nat
      OBVIOUS
    <3> HIDE DEF Good
    <3> QED BY <2>1, <2>2, <3>1, UpwardFrom
  <2> QED BY <2>3
<1>10. PICK known : known = DOMAIN PutAll(m, TRUE, cap).bytes
  OBVIOUS
<1>11. PutAll(m, TRUE, cap) = f[n].t
  BY <1>4, <1>5 DEF PutAll, Launched
<1>12. Cardinality(known) <= cap
  <2>1. n \in 0..n
    BY <1>1
  <2>2. /\ f[n].total \in Nat /\ f[n].total <= cap /\ IsFiniteSet(known) /\ Cardinality(known) <= f[n].total
    BY <1>9, <1>10, <1>11, <2>1 DEF LoadedSoFar
  <2>3. Cardinality(known) \in Nat
    BY <2>2, FS_CardinalityType
  <2> QED BY <2>2, <2>3
<1>13. ASSUME NEW k \in 0..n PROVE DOMAIN f[k].t.bytes \subseteq known
  <2> DEFINE Good == {i \in 0..(n - k) : DOMAIN f[k].t.bytes \subseteq DOMAIN f[k + i].t.bytes}
  <2>1. 0 \in Good
    <3>1. k + 0 = k /\ 0 \in 0..(n - k)
      OBVIOUS
    <3> QED BY <3>1
  <2>2. ASSUME NEW i \in 0..((n - k) - 1), i \in Good PROVE i + 1 \in Good
    <3>1. k + i \in 0..(n - 1) /\ i + 1 \in 0..(n - k) /\ (k + i) + 1 \in 1..n /\ k + (i + 1) = (k + i) + 1 /\ k + i \in 0..n
      OBVIOUS
    <3>2. PICK p : p = f[k + i]
      OBVIOUS
    <3>3. LoadedSoFar(m, cap, t, p)
      BY <1>9, <3>1, <3>2
    <3>4. PICK r \in m.regions : r = order[(k + i) + 1]
      BY <1>3, <3>1
    <3>5. f[(k + i) + 1] = PreloadOne(m, cap, p, r)
      BY <1>7, <3>1, <3>2, <3>4
    <3>6. DOMAIN p.t.bytes \subseteq DOMAIN f[(k + i) + 1].t.bytes
      BY <3>3, <3>5, PreloadOneRoom DEF LoadedSoFar
    <3>7. DOMAIN f[k].t.bytes \subseteq DOMAIN p.t.bytes
      BY <2>2, <3>2
    <3>8. DOMAIN f[k].t.bytes \subseteq DOMAIN f[k + (i + 1)].t.bytes
      BY <3>1, <3>6, <3>7
    <3> QED BY <3>1, <3>8
  <2>3. n - k \in Good
    <3>1. n - k \in Nat
      OBVIOUS
    <3> HIDE DEF Good
    <3> QED BY <2>1, <2>2, <3>1, UpwardFrom
  <2>4. k + (n - k) = n
    OBVIOUS
  <2> QED BY <1>10, <1>11, <2>3, <2>4
<1>14. PICK code : code = Around(m, m.pc)
  OBVIOUS
<1>15. PICK stack : stack = Around(m, m.sp)
  OBVIOUS
<1>16. m.pc \in Nat /\ m.pc \in DOMAIN m.mem /\ m.sp \in Nat
  <2>1. PICK s \in m.regions : m.pc \in s.start..s.end
    BY DEF IsTarget
  <2>2. s.start \in Nat /\ s.end \in Nat
    BY <2>1, RegionOf
  <2> QED BY <2>1, <2>2 DEF IsTarget
<1>17. code \in m.regions /\ Holds(code, m.pc)
  BY <1>14, <1>16, AroundIs
<1>18. PICK size \in Nat : size = SizeOf(code) /\ size > 0
  BY <1>17, RegionOf
<1>19. 1 \in 1..n /\ order[1] = code
  BY <1>1, <1>2, <1>14, FirstTwo
<1>20. f[1] = PreloadOne(m, cap, f[0], code)
  <2>1. 0 \in 0..(n - 1) /\ 0 + 1 = 1
    BY <1>19
  <2> QED BY <1>7, <1>19, <2>1
<1>21. /\ cap >= size => f[1].total = size
       /\ cap >= Smaller(size, 2 * TracePage) => m.pc \in DOMAIN f[1].t.bytes
  <2>1. PICK p : p = f[0]
    OBVIOUS
  <2>2. p.total = 0 /\ IsTrace(p.t) /\ Tells(p.t, m)
    BY <1>6, <1>8, <2>1 DEF LoadedSoFar
  <2>3. 0 \in Nat /\ 0 <= cap /\ cap - 0 = cap /\ 0 + size = size
    OBVIOUS
  <2>4. PICK q : q = f[1]
    OBVIOUS
  <2>5. q = PreloadOne(m, cap, p, code)
    BY <1>20, <2>1, <2>4
  <2>6. /\ cap - p.total >= SizeOf(code) => q.total = p.total + SizeOf(code)
        /\ cap - p.total >= Smaller(SizeOf(code), 2 * TracePage) =>
             (Holds(code, m.pc) => m.pc \in DOMAIN q.t.bytes)
    BY <1>17, <2>2, <2>3, <2>5, PreloadOneRoom
  <2> QED BY <1>17, <1>18, <2>2, <2>3, <2>4, <2>6
<1>22. ASSUME cap >= Smaller(size, 2 * TracePage) PROVE m.pc \in known
  <2>1. 1 \in 0..n
    BY <1>19
  <2> QED BY <1>13, <1>21, <1>22, <2>1
<1>23. ASSUME m.sp \in DOMAIN m.mem, stack # code, cap - size >= Smaller(SizeOf(stack), 2 * TracePage)
       PROVE  m.sp \in known
  <2>1. stack \in m.regions /\ Holds(stack, m.sp)
    BY <1>15, <1>16, <1>23, AroundIs
  <2>2. ~Holds(stack, m.pc)
    BY <1>14, <1>16, <1>23, <2>1, AroundIs
  <2>3. 2 \in 1..n /\ order[2] = stack
    BY <1>1, <1>2, <1>14, <1>15, <1>23, FirstTwo
  <2>4. PICK p : p = f[1]
    OBVIOUS
  <2>5. f[2] = PreloadOne(m, cap, p, stack)
    <3>1. 1 \in 0..(n - 1) /\ 1 + 1 = 2
      BY <2>3
    <3> QED BY <1>7, <2>3, <2>4, <3>1
  <2>6. SizeOf(stack) \in Nat /\ SizeOf(stack) > 0
    BY <2>1, RegionOf
  <2>7. Smaller(SizeOf(stack), 2 * TracePage) >= 0
    BY <2>6, PublishingAssumption DEF Smaller
  <2>8. TracePage \in Nat
    BY PublishingAssumption
  <2>9. PICK least \in Nat : least = Smaller(SizeOf(stack), 2 * TracePage)
    BY <2>6, <2>8 DEF Smaller
  <2>10. cap >= size
    BY <1>23, <2>9
  <2>11. p.total = size
    BY <1>21, <2>4, <2>10
  <2>12. LoadedSoFar(m, cap, t, p)
    <3>1. 1 \in 0..n
      BY <1>19
    <3> QED BY <1>9, <2>4, <3>1
  <2>13. PICK q : q = f[2]
    OBVIOUS
  <2>14. cap - p.total >= Smaller(SizeOf(stack), 2 * TracePage) =>
           (~Holds(stack, m.pc) /\ Holds(stack, m.sp) => m.sp \in DOMAIN q.t.bytes)
    BY <2>1, <2>5, <2>12, <2>13, PreloadOneRoom DEF LoadedSoFar
  <2>15. m.sp \in DOMAIN f[2].t.bytes
    BY <1>23, <2>1, <2>2, <2>11, <2>13, <2>14
  <2>16. 2 \in 0..n
    BY <2>3
  <2> QED BY <1>13, <2>15, <2>16
<1> QED
  BY <1>10, <1>12, <1>14, <1>15, <1>18, <1>22, <1>23 DEF PreloadedRight, Around

----------------------------------------------------------------------------
(* One behaviour of MCTables is of one component. *)

\* What the components but Publishing are given, by its shape.
IsInput(i) ==
  \/ i = [kind |-> "trace"]
  \/ i = [kind |-> "symbols", table |-> i.table]
  \/ i = [kind |-> "coverage", modules |-> i.modules, raw |-> i.raw]
  \/ i = [kind |-> "segments", segments |-> i.segments]
  \/ i = [kind |-> "engines", a |-> i.a, b |-> i.b]
  \/ i = [kind |-> "reads", reads |-> i.reads, at |-> i.at, far |-> i.far, accesses |-> i.accesses]

\* One behaviour is of one component.
LEMMA KindStays ==
  ASSUME IsInput(input), [MCNext]_<<input, pvars>>
  PROVE  /\ IsInput(input') /\ input'.kind = input.kind
         /\ input.kind = "trace" => [PublishNext]_pvars
<1>1. CASE UNCHANGED <<input, pvars>>
  BY <1>1 DEF pvars
<1>2. CASE input.kind = "trace" /\ PublishNext /\ UNCHANGED input
  BY <1>2
<1>3. CASE Extend
  <2>1. input.kind = "symbols"
    BY <1>3 DEF Extend
  <2>2. input = [kind |-> "symbols", table |-> input.table]
    BY <2>1 DEF IsInput
  <2>3. PICK table : input' = [input EXCEPT !.table = table]
    BY <1>3 DEF Extend
  <2>4. input' = [kind |-> "symbols", table |-> table]
    BY <2>2, <2>3
  <2>5. input'.kind = "symbols" /\ input'.table = table
    BY <2>4
  <2> QED BY <2>1, <2>4, <2>5 DEF IsInput
<1>4. CASE OnBlock
  <2>1. input.kind = "coverage"
    BY <1>4 DEF OnBlock
  <2>2. input = [kind |-> "coverage", modules |-> input.modules, raw |-> input.raw]
    BY <2>1 DEF IsInput
  <2>3. PICK raw : input' = [input EXCEPT !.raw = raw]
    BY <1>4 DEF OnBlock
  <2>4. input' = [kind |-> "coverage", modules |-> input.modules, raw |-> raw]
    BY <2>2, <2>3
  <2>5. input'.kind = "coverage" /\ input'.raw = raw /\ input'.modules = input.modules
    BY <2>4
  <2> QED BY <2>1, <2>4, <2>5 DEF IsInput
<1>5. CASE AddSegment
  <2>1. input.kind = "segments"
    BY <1>5 DEF AddSegment
  <2>2. input = [kind |-> "segments", segments |-> input.segments]
    BY <2>1 DEF IsInput
  <2>3. PICK segments : input' = [input EXCEPT !.segments = segments]
    BY <1>5 DEF AddSegment
  <2>4. input' = [kind |-> "segments", segments |-> segments]
    BY <2>2, <2>3
  <2>5. input'.kind = "segments" /\ input'.segments = segments
    BY <2>4
  <2> QED BY <2>1, <2>4, <2>5 DEF IsInput
<1>6. CASE EnginesStep
  <2>1. input.kind = "engines"
    BY <1>6 DEF EnginesStep
  <2>2. input = [kind |-> "engines", a |-> input.a, b |-> input.b]
    BY <2>1 DEF IsInput
  <2>3. PICK s, t : input' \in {[input EXCEPT !.a = Append(@, s), !.b = Append(@, t)],
                                [input EXCEPT !.a = Append(@, s)],
                                [input EXCEPT !.b = Append(@, t)]}
    BY <1>6 DEF EnginesStep
  <2>4. PICK a2, b2 : a2 = Append(input.a, s) /\ b2 = Append(input.b, t)
    OBVIOUS
  <2>5. \/ input' = [input EXCEPT !.a = a2, !.b = b2]
        \/ input' = [input EXCEPT !.a = a2]
        \/ input' = [input EXCEPT !.b = b2]
    BY <2>3, <2>4
  <2>6. \/ input' = [kind |-> "engines", a |-> a2, b |-> b2]
        \/ input' = [kind |-> "engines", a |-> a2, b |-> input.b]
        \/ input' = [kind |-> "engines", a |-> input.a, b |-> b2]
    <3>1. PICK i : i = input
      OBVIOUS
    <3>7. PICK a1, b1 : a1 = i.a /\ b1 = i.b
      OBVIOUS
    <3>2. i = [kind |-> "engines", a |-> a1, b |-> b1]
      BY <2>2, <3>1, <3>7
    <3>3. PICK j : j = [i EXCEPT !.a = a2, !.b = b2]
      OBVIOUS
    <3>6. j = [kind |-> "engines", a |-> a2, b |-> b2]
      BY <3>2, <3>3
    <3>4. [i EXCEPT !.a = a2] = [kind |-> "engines", a |-> a2, b |-> i.b]
      BY <3>2
    <3>5. [i EXCEPT !.b = b2] = [kind |-> "engines", a |-> i.a, b |-> b2]
      BY <3>2
    <3> QED BY <2>5, <3>1, <3>3, <3>4, <3>5, <3>6
  <2>7. ASSUME NEW a, NEW b, input' = [kind |-> "engines", a |-> a, b |-> b]
        PROVE  IsInput(input') /\ input'.kind = "engines"
    <3>1. input'.kind = "engines" /\ input'.a = a /\ input'.b = b
      BY <2>7
    <3> QED BY <2>7, <3>1 DEF IsInput
  <2> QED BY <2>1, <2>6, <2>7
<1>7. CASE Reads \/ ReplaysReads
  <2>1. input.kind = "reads"
    BY <1>7 DEF Reads, ReplaysReads
  <2>2. input = [kind |-> "reads", reads |-> input.reads, at |-> input.at, far |-> input.far, accesses |-> input.accesses]
    BY <2>1 DEF IsInput
  <2>3. ASSUME NEW at, NEW far, NEW accesses,
               input' = [kind |-> "reads", reads |-> input.reads, at |-> at, far |-> far, accesses |-> accesses]
        PROVE  IsInput(input') /\ input'.kind = "reads"
    <3>1. /\ input'.kind = "reads" /\ input'.reads = input.reads /\ input'.at = at
          /\ input'.far = far /\ input'.accesses = accesses
      BY <2>3
    <3> QED BY <2>3, <3>1 DEF IsInput
  <2>4. CASE Reads
    <3>1. PICK at, far, accesses : input' = [input EXCEPT !.at = at, !.far = far, !.accesses = accesses]
      BY <2>4 DEF Reads
    <3>2. PICK i : i = input
      OBVIOUS
    <3>7. PICK reads, at1, far1, accesses1 : reads = i.reads /\ at1 = i.at /\ far1 = i.far /\ accesses1 = i.accesses
      OBVIOUS
    <3>3. i = [kind |-> "reads", reads |-> reads, at |-> at1, far |-> far1, accesses |-> accesses1]
      BY <2>2, <3>2, <3>7
    <3>6. PICK j : j = [i EXCEPT !.at = at, !.far = far, !.accesses = accesses]
      OBVIOUS
    <3>4. j = [kind |-> "reads", reads |-> reads, at |-> at, far |-> far, accesses |-> accesses]
      BY <3>3, <3>6
    <3>5. input' = [kind |-> "reads", reads |-> input.reads, at |-> at, far |-> far, accesses |-> accesses]
      BY <3>1, <3>2, <3>4, <3>6, <3>7
    <3> QED BY <2>1, <2>3, <3>5
  <2>5. CASE ReplaysReads
    <3>1. PICK at, accesses : input' = [input EXCEPT !.at = at, !.accesses = accesses]
      BY <2>5 DEF ReplaysReads
    <3>2. PICK i : i = input
      OBVIOUS
    <3>7. PICK reads, at1, far1, accesses1 : reads = i.reads /\ at1 = i.at /\ far1 = i.far /\ accesses1 = i.accesses
      OBVIOUS
    <3>3. i = [kind |-> "reads", reads |-> reads, at |-> at1, far |-> far1, accesses |-> accesses1]
      BY <2>2, <3>2, <3>7
    <3>6. PICK j : j = [i EXCEPT !.at = at, !.accesses = accesses]
      OBVIOUS
    <3>4. j = [kind |-> "reads", reads |-> reads, at |-> at, far |-> far1, accesses |-> accesses]
      BY <3>3, <3>6
    <3>5. input' = [kind |-> "reads", reads |-> input.reads, at |-> at, far |-> input.far, accesses |-> accesses]
      BY <3>1, <3>2, <3>4, <3>6, <3>7
    <3> QED BY <2>1, <2>3, <3>5
  <2> QED BY <1>7, <2>4, <2>5
<1> QED
  BY <1>1, <1>2, <1>3, <1>4, <1>5, <1>6, <1>7 DEF MCNext, TablesNext

LEMMA InputInit ==
  ASSUME MCInit PROVE IsInput(input) /\ (input.kind = "trace" => PublishInit)
<1>1. CASE input = [kind |-> "trace"] /\ PublishInit
  BY <1>1 DEF IsInput
<1>2. CASE TablesInit
  <2>1. CASE input = [kind |-> "symbols", table |-> <<>>]
    <3>1. input.kind = "symbols" /\ input.table = <<>>
      BY <2>1
    <3> QED BY <2>1, <3>1 DEF IsInput
  <2>2. CASE \E modules \in Sources : input = [kind |-> "coverage", modules |-> modules, raw |-> {}]
    <3>1. PICK modules : input = [kind |-> "coverage", modules |-> modules, raw |-> {}]
      BY <2>2
    <3>2. input.kind = "coverage" /\ input.modules = modules /\ input.raw = {}
      BY <3>1
    <3> QED BY <3>1, <3>2 DEF IsInput
  <2>3. CASE input = [kind |-> "segments", segments |-> <<>>]
    <3>1. input.kind = "segments" /\ input.segments = <<>>
      BY <2>3
    <3> QED BY <2>3, <3>1 DEF IsInput
  <2>4. CASE \E v \in {0, 1}, top \in {1, 3} :
               input = [kind |-> "engines", a |-> <<LeftEngine(v)>>, b |-> <<RightEngine(top)>>]
    <3>1. PICK a, b : input = [kind |-> "engines", a |-> a, b |-> b]
      BY <2>4
    <3>2. input.kind = "engines" /\ input.a = a /\ input.b = b
      BY <3>1
    <3> QED BY <3>1, <3>2 DEF IsInput
  <2>5. CASE \E reads \in [1..3 -> MCReads] :
               input = [kind |-> "reads", reads |-> reads, at |-> 0, far |-> 0, accesses |-> <<>>]
    <3>1. PICK reads : input = [kind |-> "reads", reads |-> reads, at |-> 0, far |-> 0, accesses |-> <<>>]
      BY <2>5
    <3>2. input.kind = "reads" /\ input.reads = reads /\ input.at = 0 /\ input.far = 0 /\ input.accesses = <<>>
      BY <3>1
    <3> QED BY <3>1, <3>2 DEF IsInput
  <2> QED BY <1>2, <2>1, <2>2, <2>3, <2>4, <2>5 DEF TablesInit
<1> QED
  BY <1>1, <1>2 DEF MCInit

LEMMA PublishInitShown ==
  ASSUME PublishInit PROVE PublishInv
<1>1. PICK preload \in BOOLEAN, cap \in Caps : trace = PutAll(machine, preload, cap)
  BY DEF PublishInit
<1>2. IsTarget(machine) /\ still = machine
  BY TargetsAssumption DEF PublishInit
<1>3. IsTrace(trace) /\ ShownOf(trace, machine) /\ IsMachine(machine) /\ ~machine.running
  BY <1>1, <1>2, LaunchShown
<1> QED
  BY <1>2, <1>3, ShownStill DEF PublishInv

LEMMA PublishNextShown ==
  ASSUME StoppedOnly, PublishInv, [PublishNext]_pvars PROVE PublishInv'
<1>1. CASE UNCHANGED pvars
  BY <1>1 DEF pvars, PublishInv, Shown
<1>2. CASE WriteMem
  BY <1>2, WriteMemShown, PublishingAssumption
<1> QED
  BY <1>1, <1>2, ResumeShown, RunsShown, StopsShown, ReadMemShown, WriteRegShown,
     ChangeBreakpointsShown, RefreshShown DEF PublishNext

\* The trace of a target is the target, whatever the program does, as long as
\* Ghidra edits the target only while it stands still (methods.py, commands.py).
THEOREM TraceShows ==
  ASSUME StoppedOnly PROVE PublishSpec => []Shown
<1>1. PublishInit => PublishInv
  BY PublishInitShown
<1>2. PublishInv /\ [PublishNext]_pvars => PublishInv'
  BY PublishNextShown
<1>3. PublishInv => Shown
  BY DEF PublishInv
<1> QED
  BY <1>1, <1>2, <1>3, PTL DEF PublishSpec

\* Right after launch, whatever the layout and the cap, no more is copied than
\* the cap allows, the code at the program counter is if there is room for it,
\* and so is the stack if there is still room (commands.py, preload_memory).
THEOREM LaunchesShow == LaunchedRight
<1> SUFFICES ASSUME NEW m \in Machines \cup Layouts, NEW cap \in Caps PROVE PreloadedRight(m, cap)
  BY DEF LaunchedRight
<1>1. IsTarget(m)
  BY TargetsAssumption
<1>2. cap \in Nat
  BY PublishingAssumption
<1> QED
  BY <1>1, <1>2, PreloadedIs

\* The trace shows the target as it last stood still, and what is copied at
\* launch is what matters, in the behaviours of MCTables that run a target
\* (commands.py, record_stop and preload_memory).
THEOREM PublishedAlways ==
  ASSUME StoppedOnly PROVE MCSpec => []Published
<1> DEFINE Inv == IsInput(input) /\ (input.kind = "trace" => PublishInv)
<1>1. MCInit => Inv
  BY InputInit, PublishInitShown
<1>2. Inv /\ [MCNext]_<<input, pvars>> => Inv'
  BY KindStays, PublishNextShown
<1>3. Inv => Published
  BY LaunchesShow DEF PublishInv, Published
<1> QED
  BY <1>1, <1>2, <1>3, PTL DEF MCSpec

----------------------------------------------------------------------------
(* Two engines (Differential). *)

\* The engines a and b differ after step k in what was asked about.
Disagreement(a, b, only, ignore, watch, k) ==
  \/ a[k + 1].pc # b[k + 1].pc
  \/ \E n \in Regs(a[k + 1]) \cap Regs(b[k + 1]) :
       /\ n[1] \notin Lower(ignore)
       /\ only = {} \/ n[1] \in Lower(only)
       /\ a[k + 1].regs[n] # b[k + 1].regs[n]
  \/ \E w \in watch : \E x \in w :
       /\ w \subseteq DOMAIN a[k + 1].mem \cap DOMAIN b[k + 1].mem
       /\ a[k + 1].mem[x] # b[k + 1].mem[x]

LEMMA DifferIs ==
  ASSUME NEW a, NEW b, NEW only, NEW ignore, NEW watch, NEW k,
         Regs(a[k + 1]) = Regs(a[1]), Regs(b[k + 1]) = Regs(b[1])
  PROVE  Differ(Differences(a[k + 1], b[k + 1], Shared(a, b, only, ignore), watch))
           <=> Disagreement(a, b, only, ignore, watch, k)
<1>1. PICK s, t : s = a[k + 1] /\ t = b[k + 1]
  OBVIOUS
<1>2. PICK shared : shared = Shared(a, b, only, ignore)
  OBVIOUS
<1>3. \A n : n \in shared \cap Regs(s) \cap Regs(t)
               <=> /\ n \in Regs(s) \cap Regs(t)
                   /\ only = {} \/ n[1] \in Lower(only)
                   /\ n[1] \notin Lower(ignore)
  BY <1>1, <1>2 DEF Shared
<1>4. PICK regs : regs = {n \in shared \cap Regs(s) \cap Regs(t) : s.regs[n] # t.regs[n]}
                           \cup (IF s.pc # t.pc THEN {<<"pc", FALSE>>} ELSE {})
  OBVIOUS
<1>5. PICK mem : mem = {w \in watch : /\ w \subseteq DOMAIN s.mem /\ w \subseteq DOMAIN t.mem
                                      /\ \E x \in w : s.mem[x] # t.mem[x]}
  OBVIOUS
<1>6. PICK d : d = Differences(s, t, shared, watch)
  OBVIOUS
<1>7. d.regs = regs /\ d.mem = mem
  BY <1>4, <1>5, <1>6 DEF Differences
<1>8. regs # {} <=> \/ s.pc # t.pc
                    \/ \E n \in shared \cap Regs(s) \cap Regs(t) : s.regs[n] # t.regs[n]
  BY <1>4
<1>9. mem # {} <=> \E w \in watch : \E x \in w : w \subseteq DOMAIN s.mem \cap DOMAIN t.mem /\ s.mem[x] # t.mem[x]
  BY <1>5
<1>10. (\E n \in shared \cap Regs(s) \cap Regs(t) : s.regs[n] # t.regs[n])
         <=> \E n \in Regs(s) \cap Regs(t) : /\ n[1] \notin Lower(ignore)
                                             /\ only = {} \/ n[1] \in Lower(only)
                                             /\ s.regs[n] # t.regs[n]
  BY <1>3
<1>11. Differ(d) <=> regs # {} \/ mem # {}
  BY <1>7 DEF Differ
<1> QED
  BY <1>1, <1>2, <1>6, <1>8, <1>9, <1>10, <1>11 DEF Disagreement

\* What compare returns, and what is so of it after k steps were asked for.
Result(steps, divergence, unmatched, stopped, done) ==
  [steps |-> steps, divergence |-> divergence, unmatched |-> unmatched, stopped |-> stopped, done |-> done]

Comparing(a, b, only, ignore, watch, end, k, r) ==
  /\ r = Result(r.steps, r.divergence, r.unmatched, r.stopped, r.done)
  /\ r.steps \in 0..k /\ r.done \in BOOLEAN /\ r.divergence.step \in Nat
  /\ r.steps < Len(a) /\ r.steps < Len(b)
  /\ ~r.done => r.steps = k /\ r.divergence.step = 0 /\ r.stopped = ""
  /\ r.done => r.divergence.step # 0 \/ r.stopped # ""
  /\ \A j \in 1..r.steps : Disagreement(a, b, only, ignore, watch, j) <=> r.divergence.step = j
  /\ r.stopped = "reached" => \E x \in end : a[r.steps + 1].pc = x

LEMMA ComparingIs ==
  ASSUME NEW a, NEW b, NEW only, NEW ignore, NEW watch, NEW end, NEW k,
         NEW s \in 0..k, NEW d, NEW u, NEW p, NEW e \in BOOLEAN,
         s < Len(a), s < Len(b), d.step \in Nat,
         ~e => s = k /\ d.step = 0 /\ p = "",
         e => d.step # 0 \/ p # "",
         \A j \in 1..s : Disagreement(a, b, only, ignore, watch, j) <=> d.step = j,
         p = "reached" => \E x \in end : a[s + 1].pc = x
  PROVE  Comparing(a, b, only, ignore, watch, end, k, Result(s, d, u, p, e))
<1>1. PICK r : r = Result(s, d, u, p, e)
  OBVIOUS
<1>2. r.steps = s /\ r.divergence = d /\ r.unmatched = u /\ r.stopped = p /\ r.done = e
  BY <1>1 DEF Result
<1>3. Comparing(a, b, only, ignore, watch, end, k, r)
  BY <1>1, <1>2 DEF Comparing
<1> QED
  BY <1>1, <1>3

\* The step of the loop.
CompareStep(a, b, shared, watch, end, r, k) ==
  IF r.done THEN r
  ELSE IF k >= Len(a) \/ k >= Len(b) THEN [r EXCEPT !.stopped = "raised", !.done = TRUE]
  ELSE Went(a, b, shared, watch, end, r, k)

\* The registers of an engine are the same after every step.
Steady(a) == \A k \in 1..Len(a) : Regs(a[k]) = Regs(a[1])

LEMMA ComparingStep ==
  ASSUME NEW a, NEW b, Len(a) \in Nat, Len(b) \in Nat, Steady(a), Steady(b),
         NEW only, NEW ignore, NEW watch, NEW end, NEW k \in Nat, NEW r,
         Comparing(a, b, only, ignore, watch, end, k, r)
  PROVE  Comparing(a, b, only, ignore, watch, end, k + 1,
                   CompareStep(a, b, Shared(a, b, only, ignore), watch, end, r, k + 1))
<1>1. PICK s, d, u, p, e :
        /\ r = Result(s, d, u, p, e) /\ s \in 0..k /\ e \in BOOLEAN
        /\ s < Len(a) /\ s < Len(b) /\ d.step \in Nat
        /\ ~e => s = k /\ d.step = 0 /\ p = ""
        /\ e => d.step # 0 \/ p # ""
        /\ \A j \in 1..s : Disagreement(a, b, only, ignore, watch, j) <=> d.step = j
        /\ p = "reached" => \E x \in end : a[s + 1].pc = x
  <2>1. PICK s, d, u, p, e : s = r.steps /\ d = r.divergence /\ u = r.unmatched /\ p = r.stopped /\ e = r.done
    OBVIOUS
  <2> QED BY <2>1 DEF Comparing
<1>8. s \in 0..k /\ s \in 0..(k + 1) /\ e \in BOOLEAN
  <2>1. s \in 0..k
    BY <1>1
  <2>2. e \in BOOLEAN
    BY <1>1
  <2> QED BY <2>1, <2>2
<1>2. PICK shared : shared = Shared(a, b, only, ignore)
  OBVIOUS
<1>3. PICK q : q = CompareStep(a, b, shared, watch, end, r, k + 1)
  OBVIOUS
<1>4. r.done = e
  BY <1>1 DEF Result
<1>5. CASE e
  <2>1. q = r
    BY <1>3, <1>4, <1>5 DEF CompareStep
  <2>2. s \in 0..(k + 1)
    BY <1>8
  <2> QED BY <1>1, <1>2, <1>3, <1>5, <2>1, <2>2, ComparingIs
<1>6. CASE ~e /\ (k + 1 >= Len(a) \/ k + 1 >= Len(b))
  <2>1. q = [r EXCEPT !.stopped = "raised", !.done = TRUE]
    BY <1>3, <1>4, <1>6 DEF CompareStep
  <2>2. PICK p2, yes : p2 = "raised" /\ yes = TRUE
    OBVIOUS
  <2>3. q = Result(s, d, u, p2, yes)
    <3>1. q = [r EXCEPT !.stopped = p2, !.done = yes]
      BY <2>1, <2>2
    <3>2. r = Result(s, d, u, p, e)
      BY <1>1
    <3> QED BY <3>1, <3>2 DEF Result
  <2>4. s \in 0..(k + 1) /\ p2 # "" /\ p2 # "reached"
    BY <1>8, <2>2
  <2> QED BY <1>1, <1>2, <1>3, <2>2, <2>3, <2>4, ComparingIs
<1>7. CASE ~e /\ ~(k + 1 >= Len(a)) /\ ~(k + 1 >= Len(b))
  <2>1. q = Went(a, b, shared, watch, end, r, k + 1)
    BY <1>3, <1>4, <1>7 DEF CompareStep
  <2>2. PICK found : found = Differences(a[(k + 1) + 1], b[(k + 1) + 1], shared, watch)
    OBVIOUS
  <2>3. /\ k + 1 \in 0..(k + 1) /\ k + 1 < Len(a) /\ k + 1 < Len(b) /\ k + 1 # 0 /\ k + 1 \in Nat
        /\ (k + 1) + 1 \in 1..Len(a) /\ (k + 1) + 1 \in 1..Len(b)
    BY <1>7
  <2>4. Differ(found) <=> Disagreement(a, b, only, ignore, watch, k + 1)
    <3>1. Regs(a[(k + 1) + 1]) = Regs(a[1]) /\ Regs(b[(k + 1) + 1]) = Regs(b[1])
      BY <2>3 DEF Steady
    <3> QED BY <1>2, <2>2, <3>1, DifferIs
  <2>5. s = k /\ d.step = 0 /\ p = "" /\ e = FALSE
    BY <1>1, <1>7
  <2>6. \A j \in 1..k : ~Disagreement(a, b, only, ignore, watch, j)
    <3> SUFFICES ASSUME NEW j \in 1..k PROVE ~Disagreement(a, b, only, ignore, watch, j)
      OBVIOUS
    <3>2. s = k
      BY <2>5
    <3>1. j # 0 /\ j \in 1..s
      BY <3>2
    <3> QED BY <1>1, <2>5, <3>1
  <2>7. PICK r2 : r2 = [r EXCEPT !.steps = k + 1]
    OBVIOUS
  <2>8. r2 = Result(k + 1, d, u, p, e)
    <3>1. r = Result(s, d, u, p, e)
      BY <1>1
    <3> QED BY <2>7, <3>1 DEF Result
  <2>9. CASE Differ(found)
    <3>1. PICK d2 : d2 = [step |-> k + 1, at |-> a[k + 1].pc, found |-> found]
      OBVIOUS
    <3>2. q = [r2 EXCEPT !.divergence = d2, !.done = TRUE]
      BY <2>1, <2>2, <2>7, <2>9, <3>1 DEF Went
    <3>3. PICK yes : yes = TRUE
      OBVIOUS
    <3>4. q = Result(k + 1, d2, u, p, yes)
      <4>1. q = [r2 EXCEPT !.divergence = d2, !.done = yes]
        BY <3>2, <3>3
      <4> QED BY <2>8, <4>1 DEF Result
    <3>5. d2.step = k + 1
      BY <3>1
    <3>6. \A j \in 1..(k + 1) : Disagreement(a, b, only, ignore, watch, j) <=> d2.step = j
      <4> SUFFICES ASSUME NEW j \in 1..(k + 1) PROVE Disagreement(a, b, only, ignore, watch, j) <=> d2.step = j
        OBVIOUS
      <4>1. CASE j = k + 1
        BY <2>4, <2>9, <3>5, <4>1
      <4>2. CASE j # k + 1
        <5>1. j \in 1..k
          BY <4>2
        <5> QED BY <2>6, <3>5, <4>2, <5>1
      <4> QED BY <4>1, <4>2
    <3>7. p # "reached"
      BY <2>5
    <3> QED BY <1>2, <1>3, <2>3, <3>3, <3>4, <3>5, <3>6, <3>7, ComparingIs
  <2>10. ASSUME ~Differ(found)
         PROVE  \A j \in 1..(k + 1) : Disagreement(a, b, only, ignore, watch, j) <=> d.step = j
    <3> SUFFICES ASSUME NEW j \in 1..(k + 1) PROVE ~Disagreement(a, b, only, ignore, watch, j) /\ d.step # j
      OBVIOUS
    <3>1. CASE j = k + 1
      BY <2>3, <2>4, <2>5, <2>10, <3>1
    <3>2. CASE j # k + 1
      <4>1. j \in 1..k /\ j # 0
        BY <3>2
      <4> QED BY <2>5, <2>6, <4>1
    <3> QED BY <3>1, <3>2
  <2>11. CASE ~Differ(found) /\ a[(k + 1) + 1].pc \in end
    <3>1. q = [r2 EXCEPT !.stopped = "reached", !.done = TRUE]
      BY <2>1, <2>2, <2>7, <2>11 DEF Went
    <3>2. PICK p2, yes : p2 = "reached" /\ yes = TRUE
      OBVIOUS
    <3>3. q = Result(k + 1, d, u, p2, yes)
      <4>1. q = [r2 EXCEPT !.stopped = p2, !.done = yes]
        BY <3>1, <3>2
      <4> QED BY <2>8, <4>1 DEF Result
    <3>4. p2 # ""
      BY <3>2
    <3>5. \E x \in end : a[(k + 1) + 1].pc = x
      BY <2>11
    <3>6. \A j \in 1..(k + 1) : Disagreement(a, b, only, ignore, watch, j) <=> d.step = j
      BY <2>10, <2>11
    <3> QED BY <1>1, <1>2, <1>3, <2>3, <3>2, <3>3, <3>4, <3>5, <3>6, ComparingIs
  <2>12. CASE ~Differ(found) /\ ~(a[(k + 1) + 1].pc \in end)
    <3>1. q = r2
      BY <2>1, <2>2, <2>7, <2>12 DEF Went
    <3>2. \A j \in 1..(k + 1) : Disagreement(a, b, only, ignore, watch, j) <=> d.step = j
      BY <2>10, <2>12
    <3>3. p # "reached" /\ ~e
      BY <1>7, <2>5
    <3> QED BY <1>1, <1>2, <1>3, <2>3, <2>5, <2>8, <3>1, <3>2, <3>3, ComparingIs
  <2> QED BY <2>9, <2>11, <2>12
<1> QED
  BY <1>5, <1>6, <1>7

\* However long the engines run and whatever they are asked about.
LEMMA ComparedIs ==
  ASSUME NEW a, NEW b, Len(a) \in Nat \ {0}, Len(b) \in Nat \ {0}, Steady(a), Steady(b),
         NEW steps \in Nat, NEW only, NEW ignore, NEW watch, NEW end
  PROVE  ComparedRight(a, b, steps, only, ignore, watch, end)
<1>1. PICK shared : shared = Shared(a, b, only, ignore)
  OBVIOUS
<1>2. PICK first : first = Result(0, Agreed, Unmatched(a, b), "", FALSE)
  OBVIOUS
<1> DEFINE Loop(f, n) == f = [k \in 0..n |-> IF k = 0 THEN first
                                             ELSE CompareStep(a, b, shared, watch, end, f[k - 1], k)]
<1>3. PICK f : f = (CHOOSE loop : Loop(loop, steps))
  OBVIOUS
<1>4. Compare(a, b, steps, only, ignore, watch, end) = f[steps]
  BY <1>1, <1>2, <1>3 DEF Compare, CompareStep, Result
<1>5. Loop(f, steps)
  <2> DEFINE Good == {n \in 0..steps : \E g : Loop(g, n)}
  <2>1. 0 \in Good
    <3>1. PICK g : g = [k \in 0..0 |-> first]
      OBVIOUS
    <3>2. \A k \in 0..0 : k = 0
      OBVIOUS
    <3>3. Loop(g, 0)
      BY <3>1, <3>2
    <3>4. 0 \in 0..steps
      OBVIOUS
    <3> HIDE DEF Loop
    <3> QED BY <3>3, <3>4
  <2>2. ASSUME NEW n \in 0..(steps - 1), n \in Good PROVE n + 1 \in Good
    <3>1. PICK g : Loop(g, n)
      BY <2>2
    <3>2. PICK next : next = CompareStep(a, b, shared, watch, end, g[n], n + 1)
      OBVIOUS
    <3>3. PICK h : h = [k \in 0..(n + 1) |-> IF k = n + 1 THEN next ELSE g[k]]
      OBVIOUS
    <3>4. ASSUME NEW k \in 0..(n + 1)
          PROVE  h[k] = IF k = 0 THEN first ELSE CompareStep(a, b, shared, watch, end, h[k - 1], k)
      <4>1. CASE k = n + 1
        <5>1. h[k] = next /\ h[k - 1] = g[n] /\ k # 0
          BY <3>3, <4>1
        <5> QED BY <3>2, <4>1, <5>1
      <4>2. CASE k # n + 1 /\ k # 0
        <5>1. k \in 0..n /\ h[k] = g[k] /\ h[k - 1] = g[k - 1]
          BY <3>3, <4>2
        <5> QED BY <3>1, <4>2, <5>1
      <4>3. CASE k = 0
        <5>1. k \in 0..n /\ h[k] = g[k]
          BY <3>3, <4>3
        <5> QED BY <3>1, <4>3, <5>1
      <4> QED BY <4>1, <4>2, <4>3
    <3>5. h = [k \in 0..(n + 1) |-> h[k]]
      BY <3>3
    <3>6. Loop(h, n + 1)
      BY <3>4, <3>5
    <3>7. n + 1 \in 0..steps
      OBVIOUS
    <3> QED BY <3>6, <3>7
  <2>3. steps \in Good
    <3> HIDE DEF Good
    <3> QED BY <2>1, <2>2, UpwardFrom
  <2> QED BY <1>3, <2>3
<1> DEFINE Good == {k \in 0..steps : Comparing(a, b, only, ignore, watch, end, k, f[k])}
<1>6. 0 \in Good
  <2>1. f[0] = first
    BY <1>5
  <2>2. Agreed.step = 0
    BY DEF Agreed
  <2>3. Comparing(a, b, only, ignore, watch, end, 0, first)
    <3>1. PICK d, p, e : d = Agreed /\ p = "" /\ e = FALSE
      OBVIOUS
    <3>2. first = Result(0, d, Unmatched(a, b), p, e)
      BY <1>2, <3>1
    <3>7. p # "reached" /\ p = ""
      BY <3>1
    <3>8. d.step = 0
      BY <2>2, <3>1
    <3>9. e \in BOOLEAN /\ ~e
      BY <3>1
    <3>3. 0 \in 0..0 /\ 0 \in Nat
      OBVIOUS
    <3>10. PICK u : u = Unmatched(a, b)
      OBVIOUS
    <3>4. 0 < Len(a) /\ 0 < Len(b)
      OBVIOUS
    <3>5. \A j \in 1..0 : Disagreement(a, b, only, ignore, watch, j) <=> d.step = j
      OBVIOUS
    <3>11. d.step \in Nat
      BY <3>8
    <3>6. Comparing(a, b, only, ignore, watch, end, 0, Result(0, d, u, p, e))
      BY <3>3, <3>4, <3>5, <3>7, <3>8, <3>9, <3>11, ComparingIs
    <3> QED BY <3>2, <3>6, <3>10
  <2> QED BY <2>1, <2>3
<1>7. ASSUME NEW k \in 0..(steps - 1), k \in Good PROVE k + 1 \in Good
  <2>1. f[k + 1] = CompareStep(a, b, shared, watch, end, f[k], k + 1)
    <3>1. k + 1 \in 0..steps /\ k + 1 # 0 /\ (k + 1) - 1 = k
      OBVIOUS
    <3> QED BY <1>5, <3>1
  <2>2. Comparing(a, b, only, ignore, watch, end, k, f[k]) /\ k \in Nat /\ k + 1 \in 0..steps
    BY <1>7
  <2>3. Comparing(a, b, only, ignore, watch, end, k + 1, f[k + 1])
    BY <1>1, <2>1, <2>2, ComparingStep
  <2> QED BY <2>2, <2>3
<1>8. steps \in Good
  <2> HIDE DEF Good
  <2> QED BY <1>6, <1>7, UpwardFrom
<1>9. PICK r : r = Compare(a, b, steps, only, ignore, watch, end)
  OBVIOUS
<1>10. Comparing(a, b, only, ignore, watch, end, steps, r)
  BY <1>4, <1>8, <1>9
<1>11. r.steps \in 0..steps /\ r.steps <= steps /\ r.steps < Len(a) /\ r.steps < Len(b)
  <2>1. PICK s : s = r.steps
    OBVIOUS
  <2>2. s \in 0..steps
    BY <1>10, <2>1 DEF Comparing
  <2>3. s < Len(a) /\ s < Len(b)
    BY <1>10, <2>1 DEF Comparing
  <2> QED BY <2>1, <2>2, <2>3
<1>12. \A k \in 1..r.steps : Disagreement(a, b, only, ignore, watch, k) <=> r.divergence.step = k
  BY <1>10 DEF Comparing
<1>13. r.divergence.step = 0 => r.steps = steps \/ r.stopped # ""
  BY <1>10 DEF Comparing
<1>14. r.stopped = "reached" => \E x \in end : a[r.steps + 1].pc = x
  BY <1>10 DEF Comparing
<1> QED
  BY <1>9, <1>11, <1>12, <1>13, <1>14 DEF ComparedRight, Disagreement

\* Every chunk of every region is mapped on both sides or has nothing that is.
WholeChunks(source, target, regions) ==
  \A r \in regions : \A i \in 0..((r.end - r.start) \div Chunk) :
    LET chunk == r.start + i * Chunk..Min({r.start + (i + 1) * Chunk - 1, r.end})
        both == DOMAIN source.mem \cap DOMAIN target.mem
    IN  chunk \subseteq both \/ chunk \cap both = {}

LEMMA MinOfTwo ==
  ASSUME NEW a \in Int, NEW b \in Int
  PROVE  Min({a, b}) \in Int /\ Min({a, b}) <= a /\ Min({a, b}) <= b /\ (Min({a, b}) = a \/ Min({a, b}) = b)
<1>1. CASE a <= b
  <2>1. \A x \in {a, b} : a <= x
    BY <1>1
  <2>2. PICK m : m = Min({a, b})
    OBVIOUS
  <2>3. m \in {a, b} /\ \A x \in {a, b} : m <= x
    BY <2>1, <2>2 DEF Min
  <2> QED BY <2>2, <2>3
<1>2. CASE b <= a
  <2>1. \A x \in {a, b} : b <= x
    BY <1>2
  <2>2. PICK m : m = Min({a, b})
    OBVIOUS
  <2>3. m \in {a, b} /\ \A x \in {a, b} : m <= x
    BY <2>1, <2>2 DEF Min
  <2> QED BY <2>2, <2>3
<1> QED
  BY <1>1, <1>2

\* A place of a region is in one of its chunks.
LEMMA InChunk ==
  ASSUME NEW start \in Int, NEW end \in Int, NEW x \in start..end
  PROVE  \E i \in 0..((end - start) \div Chunk) :
           x \in start + i * Chunk..Min({start + (i + 1) * Chunk - 1, end})
<1>1. Chunk \in Nat /\ Chunk > 0
  BY ChunkAssumption
<1>2. PICK i : i = (x - start) \div Chunk
  OBVIOUS
<1>3. PICK n : n = (end - start) \div Chunk
  OBVIOUS
<1>4. PICK rest : rest = (x - start) % Chunk
  OBVIOUS
<1>5. PICK left : left = (end - start) % Chunk
  OBVIOUS
<1>6. i \in Int /\ rest \in 0..(Chunk - 1) /\ x - start = Chunk * i + rest
  BY <1>1, <1>2, <1>4
<1>7. n \in Int /\ left \in 0..(Chunk - 1) /\ end - start = Chunk * n + left
  BY <1>1, <1>3, <1>5
<1>8. i >= 0 /\ i <= n
  <2>1. x - start >= 0 /\ x - start <= end - start
    OBVIOUS
  <2>2. PICK ci \in Int : ci = Chunk * i
    BY <1>1, <1>6
  <2>3. PICK cn \in Int : cn = Chunk * n
    BY <1>1, <1>7
  <2>4. i >= 0
    <3>1. SUFFICES ASSUME i <= -1 PROVE FALSE
      BY <1>6
    <3>2. ci <= -Chunk
      BY <1>1, <1>6, <2>2, <3>1
    <3> QED BY <1>1, <1>6, <2>1, <2>2, <3>2
  <2>5. i <= n
    <3>1. SUFFICES ASSUME n + 1 <= i PROVE FALSE
      BY <1>6, <1>7
    <3>2. cn + Chunk <= ci
      BY <1>1, <1>6, <1>7, <2>2, <2>3, <3>1
    <3> QED BY <1>1, <1>6, <1>7, <2>1, <2>2, <2>3, <3>2
  <2> QED BY <2>4, <2>5
<1>9. PICK at \in Int : at = i * Chunk
  BY <1>1, <1>6
<1>10. (i + 1) * Chunk = at + Chunk /\ Chunk * i = at
  BY <1>1, <1>6, <1>9
<1>11. PICK last : last = Min({start + (i + 1) * Chunk - 1, end})
  OBVIOUS
<1>12. start + (i + 1) * Chunk - 1 \in Int /\ start + (i + 1) * Chunk - 1 = start + at + Chunk - 1
  BY <1>1, <1>9, <1>10
<1>13. last \in Int /\ (last = start + at + Chunk - 1 \/ last = end)
  BY <1>11, <1>12, MinOfTwo
<1>14. x \in start + i * Chunk..last
  BY <1>1, <1>6, <1>9, <1>10, <1>13
<1>15. i \in 0..n
  BY <1>6, <1>7, <1>8
<1> QED
  BY <1>3, <1>11, <1>14, <1>15

LEMMA AlignedIs ==
  ASSUME NEW source, NEW target, NEW regions,
         target = [pc |-> target.pc, regs |-> target.regs, mem |-> target.mem],
         \A r \in regions : r.start \in Int /\ r.end \in Int,
         WholeChunks(source, target, regions)
  PROVE  AlignedRight(source, target, regions)
<1>1. PICK chunks : chunks = UNION {{r.start + i * Chunk..Min({r.start + (i + 1) * Chunk - 1, r.end}) :
                                       i \in 0..((r.end - r.start) \div Chunk)} : r \in regions}
  OBVIOUS
<1>2. PICK both : both = DOMAIN source.mem \cap DOMAIN target.mem
  OBVIOUS
<1>3. PICK copied : copied = UNION {c \in chunks : c \subseteq both}
  OBVIOUS
<1>4. PICK mem : mem = [x \in DOMAIN target.mem |-> IF x \in copied THEN source.mem[x] ELSE target.mem[x]]
  OBVIOUS
<1>5. PICK regs : regs = [n \in DOMAIN target.regs |-> IF n \in Regs(source) THEN source.regs[n] ELSE target.regs[n]]
  OBVIOUS
<1>6. PICK t : t = Align(source, target, regions)
  OBVIOUS
<1>7. t = [target EXCEPT !.mem = mem, !.regs = regs]
  BY <1>1, <1>2, <1>3, <1>4, <1>5, <1>6 DEF Align
<1>8. t.mem = mem /\ t.regs = regs
  BY <1>7
<1>9. \A n \in Regs(source) \cap Regs(t) : t.regs[n] = source.regs[n]
  BY <1>5, <1>8 DEF Regs
<1>10. ASSUME NEW r \in regions, NEW x \in r.start..r.end, x \in DOMAIN source.mem \cap DOMAIN mem
       PROVE  mem[x] = source.mem[x]
  <2>1. x \in both
    BY <1>2, <1>4, <1>10
  <2>2. PICK i \in 0..((r.end - r.start) \div Chunk) :
          x \in r.start + i * Chunk..Min({r.start + (i + 1) * Chunk - 1, r.end})
    <3>1. PICK start, end : start = r.start /\ end = r.end
      OBVIOUS
    <3>2. start \in Int /\ end \in Int /\ x \in start..end
      BY <1>10, <3>1
    <3>3. \E i \in 0..((end - start) \div Chunk) :
            x \in start + i * Chunk..Min({start + (i + 1) * Chunk - 1, end})
      BY <3>2, InChunk
    <3> QED BY <3>1, <3>3
  <2>3. PICK chunk : chunk = r.start + i * Chunk..Min({r.start + (i + 1) * Chunk - 1, r.end})
    OBVIOUS
  <2>4. chunk \subseteq both \/ chunk \cap both = {}
    BY <1>2, <2>3 DEF WholeChunks
  <2>5. chunk \subseteq both
    BY <2>1, <2>2, <2>3, <2>4
  <2>6. chunk \in chunks
    <3>1. PICK row : row = {r.start + j * Chunk..Min({r.start + (j + 1) * Chunk - 1, r.end}) :
                              j \in 0..((r.end - r.start) \div Chunk)}
      OBVIOUS
    <3>2. chunk \in row
      BY <2>3, <3>1
    <3>3. row \in {{s.start + j * Chunk..Min({s.start + (j + 1) * Chunk - 1, s.end}) :
                      j \in 0..((s.end - s.start) \div Chunk)} : s \in regions}
      BY <3>1
    <3> QED BY <1>1, <3>2, <3>3
  <2>7. x \in copied
    BY <1>3, <2>2, <2>3, <2>5, <2>6
  <2> QED BY <1>4, <1>10, <2>7
<1> QED
  BY <1>6, <1>8, <1>9, <1>10 DEF AlignedRight

\* The states of an engine that has the registers K and the memory D.
States(K, D) == [pc : Int, regs : [K -> Int], mem : [D -> Int]]

NamesOf(other) == {<<"r", FALSE>>, other}

LEMMA EngineIs ==
  ASSUME NEW other, NEW v \in Int, NEW w \in Int, NEW top \in Int, NEW f \in [0..top -> Int]
  PROVE  [pc |-> 0, regs |-> Registers(other, v, w), mem |-> f] \in States(NamesOf(other), 0..top)
<1>1. PICK K : K = NamesOf(other)
  OBVIOUS
<1>2. PICK regs : regs = Registers(other, v, w)
  OBVIOUS
<1>3. regs = [n \in K |-> IF n = other THEN w ELSE v]
  BY <1>1, <1>2 DEF Registers, NamesOf
<1>4. regs \in [K -> Int]
  BY <1>3
<1> QED
  BY <1>1, <1>2, <1>4 DEF States

LEMMA AfterIs ==
  ASSUME NEW K, NEW D, NEW s \in States(K, D), NEW t \in After(s)
  PROVE  t \in States(K, D)
<1>1. PICK pc \in {0, 1}, v \in {0, 1}, w \in {0, 1} :
        t = [s EXCEPT !.pc = pc, !.regs[<<"r", FALSE>>] = v, !.mem[0] = w]
  BY DEF After
<1>2. PICK key : key = <<"r", FALSE>>
  OBVIOUS
<1>3. PICK p, f, g : p = s.pc /\ f = s.regs /\ g = s.mem
  OBVIOUS
<1>4. s = [pc |-> p, regs |-> f, mem |-> g]
  BY <1>3 DEF States
<1>5. f \in [K -> Int] /\ g \in [D -> Int]
  BY <1>3 DEF States
<1>6. PICK regs : regs = [f EXCEPT ![key] = v]
  OBVIOUS
<1>7. PICK mem : mem = [g EXCEPT ![0] = w]
  OBVIOUS
<1>8. v \in Int /\ w \in Int /\ pc \in Int
  OBVIOUS
<1>9. regs \in [K -> Int]
  BY <1>5, <1>6, <1>8
<1>10. mem \in [D -> Int]
  BY <1>5, <1>7, <1>8
<1>11. t = [pc |-> pc, regs |-> regs, mem |-> mem]
  BY <1>1, <1>2, <1>4, <1>6, <1>7
<1> QED
  BY <1>8, <1>9, <1>10, <1>11 DEF States

LEMMA SteadyIs ==
  ASSUME NEW K, NEW D, NEW a \in Seq(States(K, D)), Len(a) \in Nat \ {0}
  PROVE  Steady(a)
<1>1. PICK S : S = States(K, D)
  OBVIOUS
<1>2. a \in Seq(S)
  BY <1>1
<1>3. ASSUME NEW k \in 1..Len(a) PROVE Regs(a[k]) = K
  <2>1. a[k] \in S
    BY <1>2
  <2>2. a[k].regs \in [K -> Int]
    BY <1>1, <2>1 DEF States
  <2> QED BY <2>2 DEF Regs
<1>4. 1 \in 1..Len(a)
  OBVIOUS
<1> QED
  BY <1>3, <1>4 DEF Steady

\* The engines of a run: what each has of registers and memory never changes.
\* The two engines, each with the registers and the memory it began with.
EnginesFrom(a, b, top) ==
  /\ a \in Seq(States(NamesOf(<<"s", FALSE>>), 0..3)) /\ Len(a) \in Nat \ {0}
  /\ b \in Seq(States(NamesOf(<<"s", TRUE>>), 0..top)) /\ Len(b) \in Nat \ {0}

EnginesInv == input.kind = "engines" => \E top \in {1, 3} : EnginesFrom(input.a, input.b, top)

\* A step more.
LEMMA Appended ==
  ASSUME NEW K, NEW D, NEW a \in Seq(States(K, D)), Len(a) \in Nat \ {0}, NEW s \in After(Last(a))
  PROVE  Append(a, s) \in Seq(States(K, D)) /\ Len(Append(a, s)) \in Nat \ {0}
<1>1. PICK S : S = States(K, D)
  OBVIOUS
<1>2. PICK l : l = Last(a)
  OBVIOUS
<1>3. l \in S
  BY <1>1, <1>2 DEF Last
<1>4. s \in S
  BY <1>1, <1>2, <1>3, AfterIs
<1> QED
  BY <1>1, <1>4

LEMMA EnginesInit == ASSUME MCInit PROVE EnginesInv
<1> SUFFICES ASSUME input.kind = "engines" PROVE \E top \in {1, 3} : EnginesFrom(input.a, input.b, top)
  BY DEF EnginesInv
<1>1. PICK v \in {0, 1}, top \in {1, 3} :
        input = [kind |-> "engines", a |-> <<LeftEngine(v)>>, b |-> <<RightEngine(top)>>]
  <2>1. TablesInit
    <3>1. ASSUME input = [kind |-> "trace"] PROVE FALSE
      BY <3>1
    <3> QED BY <3>1 DEF MCInit
  <2>2. ASSUME input = [kind |-> "symbols", table |-> <<>>] PROVE FALSE
    BY <2>2
  <2>3. ASSUME NEW modules, input = [kind |-> "coverage", modules |-> modules, raw |-> {}] PROVE FALSE
    BY <2>3
  <2>4. ASSUME input = [kind |-> "segments", segments |-> <<>>] PROVE FALSE
    BY <2>4
  <2>5. ASSUME NEW reads, input = [kind |-> "reads", reads |-> reads, at |-> 0, far |-> 0, accesses |-> <<>>]
        PROVE  FALSE
    BY <2>5
  <2> QED BY <2>1, <2>2, <2>3, <2>4, <2>5 DEF TablesInit
<1>2. PICK l, r : l = LeftEngine(v) /\ r = RightEngine(top)
  OBVIOUS
<1>3. input.a = <<l>> /\ input.b = <<r>>
  BY <1>1, <1>2
<1>4. l \in States(NamesOf(<<"s", FALSE>>), 0..3)
  <2>1. PICK other : other = <<"s", FALSE>>
    OBVIOUS
  <2>2. PICK f : f = [x \in 0..3 |-> x % 2]
    OBVIOUS
  <2>3. f \in [0..3 -> Int] /\ v \in Int /\ 0 \in Int /\ 3 \in Int
    BY <2>2
  <2>4. [pc |-> 0, regs |-> Registers(other, v, 0), mem |-> f] \in States(NamesOf(other), 0..3)
    BY <2>3, EngineIs
  <2> QED BY <1>2, <2>1, <2>2, <2>4 DEF LeftEngine
<1>5. r \in States(NamesOf(<<"s", TRUE>>), 0..top)
  <2>1. PICK other : other = <<"s", TRUE>>
    OBVIOUS
  <2>2. PICK f : f = [x \in 0..top |-> 0]
    OBVIOUS
  <2>3. f \in [0..top -> Int] /\ 0 \in Int /\ 1 \in Int /\ top \in Int
    BY <2>2
  <2>4. [pc |-> 0, regs |-> Registers(other, 0, 1), mem |-> f] \in States(NamesOf(other), 0..top)
    BY <2>3, EngineIs
  <2> QED BY <1>2, <2>1, <2>2, <2>4 DEF RightEngine
<1>6. ASSUME NEW S, NEW x \in S PROVE <<x>> \in Seq(S) /\ Len(<<x>>) \in Nat \ {0}
  OBVIOUS
<1>7. EnginesFrom(input.a, input.b, top)
  BY <1>3, <1>4, <1>5, <1>6 DEF EnginesFrom
<1> QED
  BY <1>7

LEMMA EnginesNext ==
  ASSUME IsInput(input), EnginesInv, [MCNext]_<<input, pvars>> PROVE EnginesInv'
<1> SUFFICES ASSUME input'.kind = "engines" PROVE \E top \in {1, 3} : EnginesFrom(input'.a, input'.b, top)
  BY DEF EnginesInv
<1>1. input.kind = "engines"
  BY KindStays
<1>2. PICK top \in {1, 3} : EnginesFrom(input.a, input.b, top)
  BY <1>1 DEF EnginesInv
<1>3. CASE input' = input
  BY <1>2, <1>3
<1>4. CASE EnginesStep
  <2>1. PICK s \in After(Last(input.a)), t \in After(Last(input.b)) :
          input' \in {[input EXCEPT !.a = Append(@, s), !.b = Append(@, t)],
                      [input EXCEPT !.a = Append(@, s)],
                      [input EXCEPT !.b = Append(@, t)]}
    BY <1>4 DEF EnginesStep
  <2>2. PICK a1, b1 : a1 = input.a /\ b1 = input.b
    OBVIOUS
  <2>3. PICK a2, b2 : a2 = Append(a1, s) /\ b2 = Append(b1, t)
    OBVIOUS
  <2>4. PICK i : i = input
    OBVIOUS
  <2>5. i = [kind |-> "engines", a |-> a1, b |-> b1]
    BY <1>1, <2>2, <2>4 DEF IsInput
  <2>6. \/ input' = [i EXCEPT !.a = a2, !.b = b2]
        \/ input' = [i EXCEPT !.a = a2]
        \/ input' = [i EXCEPT !.b = b2]
    BY <2>1, <2>2, <2>3, <2>4
  <2>7. (input'.a = a1 \/ input'.a = a2) /\ (input'.b = b1 \/ input'.b = b2)
    <3>1. ASSUME NEW j, j = [i EXCEPT !.a = a2, !.b = b2] PROVE j.a = a2 /\ j.b = b2
      <4>1. j = [kind |-> "engines", a |-> a2, b |-> b2]
        BY <2>5, <3>1
      <4> QED BY <4>1
    <3>2. ASSUME NEW j, j = [i EXCEPT !.a = a2] PROVE j.a = a2 /\ j.b = b1
      <4>1. j = [kind |-> "engines", a |-> a2, b |-> b1]
        BY <2>5, <3>2
      <4> QED BY <4>1
    <3>3. ASSUME NEW j, j = [i EXCEPT !.b = b2] PROVE j.a = a1 /\ j.b = b2
      <4>1. j = [kind |-> "engines", a |-> a1, b |-> b2]
        BY <2>5, <3>3
      <4> QED BY <4>1
    <3>4. PICK j : j = input'
      OBVIOUS
    <3> QED BY <2>6, <3>1, <3>2, <3>3, <3>4
  <2>8. PICK K, L, D, E : K = NamesOf(<<"s", FALSE>>) /\ L = NamesOf(<<"s", TRUE>>) /\ D = 0..3 /\ E = 0..top
    OBVIOUS
  <2>9. /\ a1 \in Seq(States(K, D)) /\ Len(a1) \in Nat \ {0}
        /\ b1 \in Seq(States(L, E)) /\ Len(b1) \in Nat \ {0}
    BY <1>2, <2>2, <2>8 DEF EnginesFrom
  <2>10. a2 \in Seq(States(K, D)) /\ Len(a2) \in Nat \ {0}
    BY <2>1, <2>2, <2>3, <2>9, Appended
  <2>11. b2 \in Seq(States(L, E)) /\ Len(b2) \in Nat \ {0}
    BY <2>1, <2>2, <2>3, <2>9, Appended
  <2>12. EnginesFrom(input'.a, input'.b, top)
    BY <2>7, <2>8, <2>9, <2>10, <2>11 DEF EnginesFrom
  <2> QED BY <2>12
<1>5. input' = input \/ EnginesStep
  <2>1. ASSUME MCNext PROVE input' = input \/ EnginesStep
    <3>1. input.kind # "trace" /\ input.kind # "symbols" /\ input.kind # "coverage"
          /\ input.kind # "segments" /\ input.kind # "reads"
      BY <1>1
    <3> QED BY <2>1, <3>1 DEF MCNext, TablesNext, Extend, OnBlock, AddSegment, Reads, ReplaysReads
  <2> QED BY <2>1
<1> QED
  BY <1>3, <1>4, <1>5

LEMMA EnginesWhole ==
  ASSUME Chunk \in {1, 2}, NEW top \in {1, 3}, NEW source, NEW target,
         DOMAIN source.mem = 0..3, DOMAIN target.mem = 0..top
  PROVE  WholeChunks(source, target, {[start |-> 0, end |-> 3]})
<1>1. PICK both : both = DOMAIN source.mem \cap DOMAIN target.mem
  OBVIOUS
<1>2. both = 0..top
  BY <1>1
<1>3. ASSUME NEW i \in 0..(3 \div Chunk)
      PROVE  LET chunk == 0 + i * Chunk..Min({0 + (i + 1) * Chunk - 1, 3})
             IN  chunk \subseteq both \/ chunk \cap both = {}
  <2>1. PICK low, high : low = 0 + i * Chunk /\ high = 0 + (i + 1) * Chunk - 1
    OBVIOUS
  <2>2. PICK last : last = Min({high, 3})
    OBVIOUS
  <2>3. \/ i = 0 /\ low = 0 /\ high \in {0, 1}
        \/ i = 1 /\ low = 1 /\ high = 1
        \/ i = 1 /\ low = 2 /\ high = 3
        \/ i = 2 /\ low = 2 /\ high = 2
        \/ i = 3 /\ low = 3 /\ high = 3
    <3>1. CASE Chunk = 1
      <4>1. i \in 0..3
        BY <3>1
      <4>2. low = i /\ high = i
        BY <2>1, <3>1, <4>1
      <4> QED BY <4>1, <4>2
    <3>2. CASE Chunk = 2
      <4>1. i \in 0..1
        BY <3>2
      <4>2. low = i * 2 /\ high = (i + 1) * 2 - 1
        BY <2>1, <3>2, <4>1
      <4> QED BY <4>1, <4>2
    <3> QED BY <3>1, <3>2
  <2>4. high \in Int /\ high <= 3
    BY <2>3
  <2>5. last = high
    <3>1. PICK three \in Int : three = 3
      OBVIOUS
    <3>2. PICK lower : lower = Min({high, three})
      OBVIOUS
    <3>3. lower \in Int /\ lower <= high /\ lower <= three /\ (lower = high \/ lower = three)
      BY <2>4, <3>2, MinOfTwo
    <3> QED BY <2>2, <2>4, <3>1, <3>2, <3>3
  <2>6. low..high \subseteq both \/ low..high \cap both = {}
    BY <1>2, <2>3
  <2> QED BY <2>1, <2>2, <2>5, <2>6
<1>4. PICK s, e : s = 0 /\ e = 3
  OBVIOUS
<1>5. PICK r : r = [start |-> s, end |-> e]
  OBVIOUS
<1>6. r.start = 0 /\ r.end = 3
  BY <1>4, <1>5
<1>7. (3 - 0) \div Chunk = 3 \div Chunk
  OBVIOUS
<1>8. WholeChunks(source, target, {r})
  BY <1>1, <1>3, <1>6, <1>7 DEF WholeChunks
<1> QED
  BY <1>4, <1>5, <1>8

LEMMA EnginesRight ==
  ASSUME Chunk \in {1, 2}, MaxSteps \in Nat, EnginesInv PROVE FirstDisagreement
<1> SUFFICES ASSUME input.kind = "engines"
             PROVE  /\ \A only \in {{}, {<<"r", TRUE>>}}, ignore \in {{}, {<<"r", FALSE>>}},
                          watch \in {{}, {{0, 1}}, {{0, 3}}}, end \in {{}, {1}} :
                         ComparedRight(input.a, input.b, MaxSteps, only, ignore, watch, end)
                    /\ Len(input.a) = 1 =>
                         AlignedRight(input.a[1], input.b[1], {[start |-> 0, end |-> 3]})
  BY DEF FirstDisagreement
<1>1. PICK top \in {1, 3} : EnginesFrom(input.a, input.b, top)
  BY DEF EnginesInv
<1>2. PICK a, b : a = input.a /\ b = input.b
  OBVIOUS
<1>3. PICK K, L, D, E : K = NamesOf(<<"s", FALSE>>) /\ L = NamesOf(<<"s", TRUE>>) /\ D = 0..3 /\ E = 0..top
  OBVIOUS
<1>4. /\ a \in Seq(States(K, D)) /\ Len(a) \in Nat \ {0}
      /\ b \in Seq(States(L, E)) /\ Len(b) \in Nat \ {0}
  BY <1>1, <1>2, <1>3 DEF EnginesFrom
<1>5. Steady(a) /\ Steady(b)
  BY <1>4, SteadyIs
<1>6. \A only, ignore, watch, end : ComparedRight(a, b, MaxSteps, only, ignore, watch, end)
  BY <1>4, <1>5, ComparedIs
<1>7. AlignedRight(a[1], b[1], {[start |-> 0, end |-> 3]})
  <2>1. PICK S, T : S = States(K, D) /\ T = States(L, E)
    OBVIOUS
  <2>2. a[1] \in S /\ b[1] \in T
    BY <1>4, <2>1
  <2>3. PICK source, target : source = a[1] /\ target = b[1]
    OBVIOUS
  <2>4. source.mem \in [D -> Int] /\ target.mem \in [E -> Int]
    BY <2>1, <2>2, <2>3 DEF States
  <2>5. target = [pc |-> target.pc, regs |-> target.regs, mem |-> target.mem]
    BY <2>1, <2>2, <2>3 DEF States
  <2>6. DOMAIN source.mem = 0..3 /\ DOMAIN target.mem = 0..top
    BY <1>3, <2>4
  <2>7. PICK regions : regions = {[start |-> 0, end |-> 3]}
    OBVIOUS
  <2>8. WholeChunks(source, target, regions)
    BY <2>6, <2>7, EnginesWhole
  <2>9. \A r \in regions : r.start \in Int /\ r.end \in Int
    <3>1. PICK s, e : s = 0 /\ e = 3
      OBVIOUS
    <3>2. regions = {[start |-> s, end |-> e]}
      BY <2>7, <3>1
    <3>3. \A r \in regions : r.start = s /\ r.end = e
      BY <3>2
    <3> QED BY <3>1, <3>3
  <2>10. AlignedRight(source, target, regions)
    BY <2>5, <2>8, <2>9, AlignedIs
  <2> QED BY <2>3, <2>7, <2>10
<1> QED
  BY <1>2, <1>6, <1>7

\* However long the engines run, a differential run stops at the first step after
\* which they differ in anything it was asked about, and aligning two of them
\* leaves nothing that differs where both have memory (differential.py, compare
\* and align); in chunks that end where the engines' memory does.
THEOREM EnginesCompared ==
  ASSUME Chunk \in {1, 2}, MaxSteps \in Nat PROVE MCSpec => []FirstDisagreement
<1> DEFINE Inv == IsInput(input) /\ EnginesInv
<1>1. MCInit => Inv
  BY InputInit, EnginesInit
<1>2. Inv /\ [MCNext]_<<input, pvars>> => Inv'
  BY KindStays, EnginesNext
<1>3. Inv => FirstDisagreement
  BY EnginesRight
<1> QED
  BY <1>1, <1>2, <1>3, PTL DEF MCSpec

----------------------------------------------------------------------------
(* A context (Loaders). *)

\* What Min and Max are of a set that has an element.
LEMMA MinIs ==
  ASSUME NEW S \in SUBSET Nat, S # {}
  PROVE  Min(S) \in S /\ \A x \in S : Min(S) <= x
<1>1. PICK m : m = Min(S)
  OBVIOUS
<1>2. \E u \in S : \A v \in S : u <= v
  BY LeastOf
<1>3. m \in S /\ \A x \in S : m <= x
  BY <1>1, <1>2 DEF Min
<1> QED
  BY <1>1, <1>3

LEMMA MaxIs ==
  ASSUME NEW n \in Nat, NEW S \in SUBSET (0..n), S # {}
  PROVE  Max(S) \in S /\ \A x \in S : x <= Max(S)
<1>1. PICK T : T = {x \in 0..n : n - x \in S}
  OBVIOUS
<1>2. PICK s \in S : TRUE
  OBVIOUS
<1>3. n - s \in T
  <2>1. n - s \in 0..n /\ n - (n - s) = s
    BY <1>2
  <2> QED BY <1>1, <1>2, <2>1
<1>4. T \in SUBSET Nat /\ T # {}
  <2>1. \A x \in T : x \in Nat
    BY <1>1
  <2> QED BY <1>3, <2>1
<1>5. PICK t \in T : \A v \in T : t <= v
  BY <1>4, LeastOf
<1>6. PICK top : top = n - t
  OBVIOUS
<1>7. top \in S /\ t \in 0..n
  BY <1>1, <1>5, <1>6
<1>8. ASSUME NEW x \in S PROVE top >= x
  <2>1. n - x \in 0..n /\ n - (n - x) = x
    OBVIOUS
  <2>2. n - x \in T
    BY <1>1, <2>1
  <2>3. t <= n - x
    BY <1>5, <2>2
  <2> QED BY <1>6, <1>7, <2>3
<1>9. PICK m : m = Max(S)
  OBVIOUS
<1>10. m \in S /\ \A x \in S : m >= x
  BY <1>7, <1>8, <1>9 DEF Max
<1>11. \A x \in S : x <= m
  BY <1>10
<1> QED
  BY <1>9, <1>10, <1>11

LEMMA PagesAre ==
  ASSUME NEW a \in Int
  PROVE  Down(a) \in Int /\ Up(a) \in Int /\ Down(a) <= a /\ a <= Up(a)
<1>1. PAGE \in Nat /\ PAGE > 0
  BY PageAssumption
<1>2. PICK q, s : q = a \div PAGE /\ s = (a + PAGE - 1) \div PAGE
  OBVIOUS
<1>3. q \in Int /\ a = PAGE * q + (a % PAGE) /\ a % PAGE \in 0..(PAGE - 1)
  BY <1>1, <1>2
<1>4. PICK b \in Int : b = a + PAGE - 1
  BY <1>1
<1>5. s \in Int /\ b = PAGE * s + (b % PAGE) /\ b % PAGE \in 0..(PAGE - 1)
  BY <1>1, <1>2, <1>4
<1>6. PICK v \in Int, w \in Int : v = q * PAGE /\ w = s * PAGE
  BY <1>1, <1>3, <1>5
<1>7. PAGE * q = v /\ PAGE * s = w
  BY <1>1, <1>3, <1>5, <1>6
<1>8. Down(a) = v /\ Up(a) = w
  BY <1>2, <1>6 DEF Down, Up
<1>9. v <= a
  BY <1>1, <1>3, <1>7
<1>10. a <= w
  BY <1>1, <1>4, <1>5, <1>7
<1> QED
  BY <1>8, <1>9, <1>10

\* The engine's memory: regions apart from each other, and nothing refused.
IsMemory(uc) ==
  /\ uc = [regions |-> uc.regions, written |-> uc.written, refused |-> FALSE]
  /\ IsFiniteSet(uc.regions)
  /\ \A r \in uc.regions : r.start \in Int /\ r.end \in Int /\ r.start < r.end
  /\ \A q, r \in uc.regions : q = r \/ q.end <= r.start \/ r.end <= q.start

LEMMA MemMapIs ==
  ASSUME NEW uc, IsMemory(uc), NEW from \in Int, NEW to \in Int, from < to, NEW perms,
         \A r \in uc.regions : r.end <= from \/ to <= r.start
  PROVE  /\ IsMemory(MemMap(uc, from, to, perms))
         /\ MemMap(uc, from, to, perms).regions = uc.regions \cup {[start |-> from, end |-> to, perms |-> perms]}
         /\ MemMap(uc, from, to, perms).written = uc.written
<1>1. PICK regions, written, no : regions = uc.regions /\ written = uc.written /\ no = FALSE
  OBVIOUS
<1>2. uc = [regions |-> regions, written |-> written, refused |-> no]
  BY <1>1 DEF IsMemory
<1>3. PICK n : n = [start |-> from, end |-> to, perms |-> perms]
  OBVIOUS
<1>4. PICK after : after = regions \cup {n}
  OBVIOUS
<1>5. ~ \E r \in uc.regions : from < r.end /\ r.start < to
  BY DEF IsMemory
<1>6. PICK new : new = MemMap(uc, from, to, perms)
  OBVIOUS
<1>7. new = [uc EXCEPT !.regions = after]
  BY <1>1, <1>3, <1>4, <1>5, <1>6 DEF MemMap
<1>8. new = [regions |-> after, written |-> written, refused |-> no]
  BY <1>2, <1>7
<1>9. new.regions = after /\ new.written = written
  BY <1>8
<1>10. new = [regions |-> new.regions, written |-> new.written, refused |-> FALSE]
  BY <1>1, <1>8, <1>9
<1>11. IsFiniteSet(after)
  <2>1. IsFiniteSet(regions)
    BY <1>1 DEF IsMemory
  <2> QED BY <1>4, <2>1, FS_AddElement
<1>12. n.start = from /\ n.end = to
  BY <1>3
<1>13. \A r \in after : r.start \in Int /\ r.end \in Int /\ r.start < r.end
  BY <1>1, <1>4, <1>12 DEF IsMemory
<1>14. \A q, r \in after : q = r \/ q.end <= r.start \/ r.end <= q.start
  <2> SUFFICES ASSUME NEW q \in after, NEW r \in after
               PROVE  q = r \/ q.end <= r.start \/ r.end <= q.start
    OBVIOUS
  <2>1. CASE q \in regions /\ r \in regions
    BY <1>1, <2>1 DEF IsMemory
  <2>2. CASE q = n /\ r \in regions
    BY <1>1, <1>12, <2>2
  <2>3. CASE r = n /\ q \in regions
    BY <1>1, <1>12, <2>3
  <2> QED BY <1>4, <2>1, <2>2, <2>3
<1>15. IsMemory(new)
  BY <1>9, <1>10, <1>11, <1>13, <1>14 DEF IsMemory
<1> QED
  BY <1>1, <1>3, <1>4, <1>6, <1>9, <1>15

\* Where the loop of _map_segment is after i of the regions that were there:
\* what it mapped lies behind it, and it left no hole.
Piece(u, at, done) == [uc |-> u, at |-> at, done |-> done]

Holes(old, from, to, perms, before, i, u, at, done) ==
  /\ at \in Int /\ from <= at /\ done \in BOOLEAN
  /\ IsMemory(u) /\ u.written = old.written /\ old.regions \subseteq u.regions
  /\ \A r \in u.regions \ old.regions :
       r.end <= at /\ r.end <= to /\ from <= r.start /\ r.perms = perms
  /\ \A a \in Int : from <= a /\ a < at /\ a < to => \E r \in u.regions : r.start <= a /\ a < r.end
  /\ \A j \in 1..Len(before) : \/ before[j].end <= at
                               \/ to <= before[j].start
                               \/ i < j /\ ~done

\* The regions there, the lowest first.
Ascending(before, regions) ==
  /\ before \in Seq(regions) /\ \A x \in regions : \E j \in 1..Len(before) : before[j] = x
  /\ \A j, k \in 1..Len(before) : j < k => before[j].start < before[k].start

LEMMA HolesStep ==
  ASSUME NEW old, IsMemory(old), NEW from \in Int, NEW to \in Int, NEW perms,
         NEW before, Ascending(before, old.regions),
         NEW i \in Nat, i + 1 \in 1..Len(before), NEW u, NEW at, NEW done,
         Holes(old, from, to, perms, before, i, u, at, done)
  PROVE  \E u2, at2, done2 :
           /\ MapBefore(Piece(u, at, done), before[i + 1], to, perms) = Piece(u2, at2, done2)
           /\ Holes(old, from, to, perms, before, i + 1, u2, at2, done2)
<1>9. before \in Seq(old.regions) /\ \A x \in old.regions : \E j \in 1..Len(before) : before[j] = x
  BY DEF Ascending
<1>10. \A j, k \in 1..Len(before) : j < k => before[j].start < before[k].start
  BY DEF Ascending
<1>1. PICK c, r : c = Piece(u, at, done) /\ r = before[i + 1]
  OBVIOUS
<1>2. c.uc = u /\ c.at = at /\ c.done = done
  BY <1>1 DEF Piece
<1>3. r \in old.regions /\ r.start \in Int /\ r.end \in Int /\ r.start < r.end
  <2>1. PICK S : S = old.regions
    OBVIOUS
  <2>2. r \in S
    BY <1>1, <1>9, <2>1
  <2> QED BY <2>1, <2>2 DEF IsMemory
<1>4. /\ at \in Int /\ from <= at /\ done \in BOOLEAN
      /\ IsMemory(u) /\ u.written = old.written /\ old.regions \subseteq u.regions
  BY DEF Holes
<1>5. ASSUME done \/ r.end <= at
      PROVE  Holes(old, from, to, perms, before, i + 1, u, at, done)
  <2>1. \A j \in 1..Len(before) : \/ before[j].end <= at
                                  \/ to <= before[j].start
                                  \/ i + 1 < j /\ ~done
    <3> SUFFICES ASSUME NEW j \in 1..Len(before)
                 PROVE  before[j].end <= at \/ to <= before[j].start \/ (i + 1 < j /\ ~done)
      OBVIOUS
    <3>1. before[j].end <= at \/ to <= before[j].start \/ (i < j /\ ~done)
      BY DEF Holes
    <3>2. i < j => i + 1 < j \/ j = i + 1
      OBVIOUS
    <3> QED BY <1>1, <1>5, <3>1, <3>2
  <2> QED BY <2>1 DEF Holes
<1>6. CASE done \/ r.end <= at
  <2>1. MapBefore(c, r, to, perms) = c
    BY <1>2, <1>6 DEF MapBefore
  <2> QED BY <1>1, <1>5, <1>6, <2>1
<1>7. CASE ~(done \/ r.end <= at) /\ r.start >= to
  <2>1. PICK yes : yes = TRUE
    OBVIOUS
  <2>2. MapBefore(c, r, to, perms) = [c EXCEPT !.done = yes]
    BY <1>2, <1>7, <2>1 DEF MapBefore
  <2>3. MapBefore(c, r, to, perms) = Piece(u, at, yes)
    <3>1. c = [uc |-> u, at |-> at, done |-> done]
      BY <1>1 DEF Piece
    <3> QED BY <2>2, <3>1 DEF Piece
  <2>4. \A j \in 1..Len(before) : before[j].end <= at \/ to <= before[j].start
    <3> SUFFICES ASSUME NEW j \in 1..Len(before) PROVE before[j].end <= at \/ to <= before[j].start
      OBVIOUS
    <3>1. before[j].end <= at \/ to <= before[j].start \/ i < j
      BY DEF Holes
    <3>2. CASE j = i + 1
      BY <1>1, <1>3, <1>7, <3>2
    <3>3. CASE i + 1 < j
      <4>1. before[i + 1].start < before[j].start
        BY <1>10, <3>3
      <4>2. before[j].start \in Int
        <5>1. PICK S : S = old.regions
          OBVIOUS
        <5>2. before[j] \in S
          BY <1>9, <5>1
        <5> QED BY <5>1, <5>2 DEF IsMemory
      <4> QED BY <1>1, <1>3, <1>7, <4>1, <4>2
    <3> QED BY <3>1, <3>2, <3>3
  <2>5. Holes(old, from, to, perms, before, i + 1, u, at, yes)
    BY <2>1, <2>4 DEF Holes
  <2> QED BY <1>1, <2>3, <2>5
<1>8. CASE ~(done \/ r.end <= at) /\ ~(r.start >= to)
  <2>1. PICK u2 : u2 = IF r.start > at THEN MemMap(u, at, r.start, perms) ELSE u
    OBVIOUS
  <2>2. PICK no : no = FALSE
    OBVIOUS
  <2>3. MapBefore(c, r, to, perms) = Piece(u2, r.end, no)
    BY <1>2, <1>8, <2>1, <2>2 DEF MapBefore, Piece
  <2>4. at < r.end /\ r.start < to /\ ~done
    BY <1>3, <1>4, <1>8
  <2>5. \A j \in 1..Len(before) : \/ before[j].end <= r.end
                                  \/ to <= before[j].start
                                  \/ i + 1 < j /\ ~no
    <3> SUFFICES ASSUME NEW j \in 1..Len(before)
                 PROVE  before[j].end <= r.end \/ to <= before[j].start \/ (i + 1 < j /\ ~no)
      OBVIOUS
    <3>1. before[j].end <= at \/ to <= before[j].start \/ (i < j /\ ~done)
      BY DEF Holes
    <3>2. before[j].end \in Int
      <4>1. PICK S : S = old.regions
        OBVIOUS
      <4>2. before[j] \in S
        BY <1>9, <4>1
      <4> QED BY <4>1, <4>2 DEF IsMemory
    <3>3. before[j].end <= at => before[j].end <= r.end
      BY <1>3, <1>4, <2>4, <3>2
    <3>4. i < j => i + 1 < j \/ j = i + 1
      OBVIOUS
    <3>5. j = i + 1 => before[j].end <= r.end
      BY <1>1, <1>3
    <3> QED BY <2>2, <3>1, <3>3, <3>4, <3>5
  <2>6. CASE ~(r.start > at)
    <3>1. u2 = u
      BY <2>1, <2>6
    <3>2. \A q \in u.regions \ old.regions :
            q.end <= r.end /\ q.end <= to /\ from <= q.start /\ q.perms = perms
      <4> SUFFICES ASSUME NEW q \in u.regions \ old.regions
                   PROVE  q.end <= r.end /\ q.end <= to /\ from <= q.start /\ q.perms = perms
        OBVIOUS
      <4>1. q.end <= at /\ q.end <= to /\ from <= q.start /\ q.perms = perms
        BY DEF Holes
      <4>2. q.end \in Int
        BY <1>4 DEF IsMemory
      <4> QED BY <1>3, <1>4, <2>4, <4>1, <4>2
    <3>3. \A a \in Int : from <= a /\ a < r.end /\ a < to => \E q \in u.regions : q.start <= a /\ a < q.end
      <4> SUFFICES ASSUME NEW a \in Int, from <= a, a < r.end, a < to
                   PROVE  \E q \in u.regions : q.start <= a /\ a < q.end
        OBVIOUS
      <4>1. CASE a < at
        BY <4>1 DEF Holes
      <4>2. CASE ~(a < at)
        <5>1. r \in u.regions /\ r.start <= a
          BY <1>3, <1>4, <2>6, <4>2
        <5> QED BY <5>1
      <4> QED BY <4>1, <4>2
    <3>4. from <= r.end
      BY <1>3, <1>4, <2>4
    <3>5. Holes(old, from, to, perms, before, i + 1, u, r.end, no)
      BY <1>3, <1>4, <2>2, <2>5, <3>2, <3>3, <3>4 DEF Holes
    <3> QED BY <1>1, <2>3, <3>1, <3>5
  <2>7. CASE r.start > at
    <3>1. \A q \in u.regions : q.end <= at \/ r.start <= q.start
      <4> SUFFICES ASSUME NEW q \in u.regions PROVE q.end <= at \/ r.start <= q.start
        OBVIOUS
      <4>1. CASE q \notin old.regions
        BY <4>1 DEF Holes
      <4>2. CASE q \in old.regions
        <5>1. PICK j \in 1..Len(before) : before[j] = q
          BY <1>9, <4>2
        <5>2. q.end <= at \/ to <= q.start \/ i < j
          BY <5>1 DEF Holes
        <5>3. q.start \in Int
          BY <1>4 DEF IsMemory
        <5>4. to <= q.start => r.start <= q.start
          BY <1>3, <2>4, <5>3
        <5>5. i < j => j = i + 1 \/ i + 1 < j
          OBVIOUS
        <5>6. i + 1 < j => r.start < q.start
          BY <1>1, <1>10, <5>1
        <5>7. j = i + 1 => q = r
          BY <1>1, <5>1
        <5>8. r.start < q.start => r.start <= q.start
          <6>1. PICK x \in Int, y \in Int : x = r.start /\ y = q.start
            BY <1>3, <5>3
          <6>2. x < y => x <= y
            BY <6>1
          <6> QED BY <6>1, <6>2
        <5>9. q = r => r.start <= q.start
          BY <1>3
        <5>10. i < j => r.start <= q.start
          <6>1. CASE j = i + 1
            BY <5>7, <5>9, <6>1
          <6>2. CASE i + 1 < j
            BY <5>6, <5>8, <6>2
          <6> QED BY <5>5, <6>1, <6>2
        <5> QED BY <5>2, <5>4, <5>10
      <4> QED BY <4>1, <4>2
    <3>2. PICK n : n = [start |-> at, end |-> r.start, perms |-> perms]
      OBVIOUS
    <3>3. IsMemory(u2) /\ u2.regions = u.regions \cup {n} /\ u2.written = u.written
      <4>1. u2 = MemMap(u, at, r.start, perms)
        BY <2>1, <2>7
      <4>2. at < r.start
        BY <1>3, <1>4, <2>7
      <4>3. PICK start \in Int : start = r.start
        BY <1>3
      <4>4. \A q \in u.regions : q.end <= at \/ start <= q.start
        BY <3>1, <4>3
      <4>5. PICK new : new = MemMap(u, at, start, perms)
        OBVIOUS
      <4>6. IsMemory(new) /\ new.written = u.written
            /\ new.regions = u.regions \cup {[start |-> at, end |-> start, perms |-> perms]}
        BY <1>4, <4>2, <4>3, <4>4, <4>5, MemMapIs
      <4>7. u2 = new /\ n = [start |-> at, end |-> start, perms |-> perms]
        BY <3>2, <4>1, <4>3, <4>5
      <4> QED BY <4>6, <4>7
    <3>4. n.start = at /\ n.end = r.start /\ n.perms = perms
      BY <3>2
    <3>5. \A q \in u2.regions \ old.regions :
            q.end <= r.end /\ q.end <= to /\ from <= q.start /\ q.perms = perms
      <4> SUFFICES ASSUME NEW q \in u2.regions \ old.regions
                   PROVE  q.end <= r.end /\ q.end <= to /\ from <= q.start /\ q.perms = perms
        OBVIOUS
      <4>1. CASE q = n
        BY <1>3, <1>4, <2>4, <3>4, <4>1
      <4>2. CASE q \in u.regions
        <5>1. q.end <= at /\ q.end <= to /\ from <= q.start /\ q.perms = perms
          BY <4>2 DEF Holes
        <5>2. q.end \in Int
          BY <1>4, <4>2 DEF IsMemory
        <5> QED BY <1>3, <1>4, <2>4, <5>1, <5>2
      <4> QED BY <3>3, <4>1, <4>2
    <3>6. \A a \in Int : from <= a /\ a < r.end /\ a < to => \E q \in u2.regions : q.start <= a /\ a < q.end
      <4> SUFFICES ASSUME NEW a \in Int, from <= a, a < r.end, a < to
                   PROVE  \E q \in u2.regions : q.start <= a /\ a < q.end
        OBVIOUS
      <4>1. CASE a < at
        <5>1. \E q \in u.regions : q.start <= a /\ a < q.end
          BY <4>1 DEF Holes
        <5> QED BY <3>3, <5>1
      <4>2. CASE ~(a < at) /\ a < r.start
        <5>1. n \in u2.regions /\ n.start <= a /\ a < n.end
          BY <1>4, <3>3, <3>4, <4>2
        <5> QED BY <5>1
      <4>3. CASE ~(a < r.start)
        <5>1. r \in u2.regions /\ r.start <= a
          BY <1>3, <1>4, <3>3, <4>3
        <5> QED BY <5>1
      <4> QED BY <4>1, <4>2, <4>3
    <3>7. from <= r.end
      BY <1>3, <1>4, <2>4
    <3>8. u2.written = old.written /\ old.regions \subseteq u2.regions
      BY <1>4, <3>3
    <3>9. Holes(old, from, to, perms, before, i + 1, u2, r.end, no)
      BY <1>3, <2>2, <2>5, <3>3, <3>5, <3>6, <3>7, <3>8 DEF Holes
    <3> QED BY <1>1, <2>3, <3>9
  <2> QED BY <2>6, <2>7
<1> QED
  BY <1>6, <1>7, <1>8

MappedIn(uc, a) == \E r \in uc.regions : r.start <= a /\ a < r.end

\* What is mapped stays as it is, and the rest of the pages is mapped alike.
LEMMA HolesAre ==
  ASSUME NEW old, IsMemory(old), NEW from \in Int, NEW to \in Int, from < to, NEW perms
  PROVE  /\ IsMemory(MapHoles(old, from, to, perms))
         /\ MapHoles(old, from, to, perms).written = old.written
         /\ old.regions \subseteq MapHoles(old, from, to, perms).regions
         /\ \A r \in MapHoles(old, from, to, perms).regions \ old.regions :
              from <= r.start /\ r.end <= to /\ r.perms = perms
         /\ \A a \in Int : from <= a /\ a < to => MappedIn(MapHoles(old, from, to, perms), a)
<1>1. PICK regions : regions = old.regions
  OBVIOUS
<1>2. PICK R : R = {p \in regions \X regions : p[1].start < p[2].start}
  OBVIOUS
<1>3. IsFiniteSet(regions) /\ \A r \in regions : r.start \in Int /\ r.end \in Int /\ r.start < r.end
  BY <1>1 DEF IsMemory
<1>4. \A x, y \in regions : <<x, y>> \in R <=> x.start < y.start
  BY <1>2
<1>5. Orders(R, regions)
  <2>1. ASSUME NEW x \in regions, NEW y \in regions, x # y PROVE <<x, y>> \in R \/ <<y, x>> \in R
    <3>1. x.end <= y.start \/ y.end <= x.start
      BY <1>1, <2>1 DEF IsMemory
    <3>2. PICK xs \in Int, xe \in Int, ys \in Int, ye \in Int : xs = x.start /\ xe = x.end /\ ys = y.start /\ ye = y.end
      BY <1>3
    <3>3. xs < xe /\ ys < ye
      BY <1>3, <3>2
    <3>4. xs < ys \/ ys < xs
      BY <3>1, <3>2, <3>3
    <3> QED BY <1>4, <3>2, <3>4
  <2>2. ASSUME NEW x \in regions PROVE <<x, x>> \notin R
    <3>1. PICK xs \in Int : xs = x.start
      BY <1>3
    <3>2. ~(xs < xs)
      BY <3>1
    <3> QED BY <1>4, <3>1, <3>2
  <2>3. ASSUME NEW x \in regions, NEW y \in regions, NEW z \in regions, <<x, y>> \in R, <<y, z>> \in R
        PROVE  <<x, z>> \in R
    <3>1. PICK xs \in Int, ys \in Int, zs \in Int : xs = x.start /\ ys = y.start /\ zs = z.start
      BY <1>3
    <3>2. xs < ys /\ ys < zs
      BY <1>4, <2>3, <3>1
    <3>3. xs < zs
      BY <3>1, <3>2
    <3> QED BY <1>4, <3>1, <3>3
  <2> QED BY <2>1, <2>2, <2>3 DEF Orders
<1>6. PICK before : before = InOrder(regions, R)
  OBVIOUS
<1>7. /\ before \in Seq(regions) /\ Len(before) = Cardinality(regions)
      /\ \A x \in regions : \E i \in 1..Len(before) : before[i] = x
      /\ \A i, j \in 1..Len(before) : i < j => <<before[i], before[j]>> \in R
  BY <1>3, <1>5, <1>6, InOrderIs
<1>8. \A i, j \in 1..Len(before) : i < j => before[i].start < before[j].start
  <2> SUFFICES ASSUME NEW i \in 1..Len(before), NEW j \in 1..Len(before), i < j
               PROVE  before[i].start < before[j].start
    OBVIOUS
  <2>1. before[i] \in regions /\ before[j] \in regions
    BY <1>7
  <2>2. <<before[i], before[j]>> \in R
    BY <1>7
  <2> QED BY <1>4, <2>1, <2>2
<1>9. PICK n \in Nat : n = Len(before)
  BY <1>7
<1>10. PICK first : first = [uc |-> old, at |-> from, done |-> FALSE]
  OBVIOUS
<1> DEFINE Loop(f, m) == f = [i \in 0..m |-> IF i = 0 THEN first ELSE MapBefore(f[i - 1], before[i], to, perms)]
<1>11. PICK c : c = (CHOOSE loop : Loop(loop, n))
  OBVIOUS
<1>12. MapHoles(old, from, to, perms)
         = IF c[n].at < to THEN MemMap(c[n].uc, c[n].at, to, perms) ELSE c[n].uc
  BY <1>1, <1>2, <1>6, <1>9, <1>10, <1>11 DEF MapHoles
<1>13. Loop(c, n)
  <2> DEFINE Good == {m \in 0..n : \E g : Loop(g, m)}
  <2>1. 0 \in Good
    <3>1. PICK g : g = [k \in 0..0 |-> first]
      OBVIOUS
    <3>2. \A k \in 0..0 : k = 0
      OBVIOUS
    <3>3. Loop(g, 0)
      BY <3>1, <3>2
    <3>4. 0 \in 0..n
      OBVIOUS
    <3> HIDE DEF Loop
    <3> QED BY <3>3, <3>4
  <2>2. ASSUME NEW m \in 0..(n - 1), m \in Good PROVE m + 1 \in Good
    <3>1. PICK g : Loop(g, m)
      BY <2>2
    <3>2. PICK next : next = MapBefore(g[m], before[m + 1], to, perms)
      OBVIOUS
    <3>3. PICK h : h = [k \in 0..(m + 1) |-> IF k = m + 1 THEN next ELSE g[k]]
      OBVIOUS
    <3>4. ASSUME NEW k \in 0..(m + 1)
          PROVE  h[k] = IF k = 0 THEN first ELSE MapBefore(h[k - 1], before[k], to, perms)
      <4>1. CASE k = m + 1
        <5>1. h[k] = next /\ h[k - 1] = g[m] /\ k # 0
          BY <3>3, <4>1
        <5> QED BY <3>2, <4>1, <5>1
      <4>2. CASE k # m + 1 /\ k # 0
        <5>1. k \in 0..m /\ h[k] = g[k] /\ h[k - 1] = g[k - 1]
          BY <3>3, <4>2
        <5> QED BY <3>1, <4>2, <5>1
      <4>3. CASE k = 0
        <5>1. k \in 0..m /\ h[k] = g[k]
          BY <3>3, <4>3
        <5> QED BY <3>1, <4>3, <5>1
      <4> QED BY <4>1, <4>2, <4>3
    <3>5. h = [k \in 0..(m + 1) |-> h[k]]
      BY <3>3
    <3>6. Loop(h, m + 1)
      BY <3>4, <3>5
    <3>7. m + 1 \in 0..n
      OBVIOUS
    <3> QED BY <3>6, <3>7
  <2>3. n \in Good
    <3> HIDE DEF Good
    <3> QED BY <2>1, <2>2, UpwardFrom
  <2> QED BY <1>11, <2>3
<1>14. c[0] = first /\ \A i \in 0..(n - 1) : c[i + 1] = MapBefore(c[i], before[i + 1], to, perms)
  <2>1. c[0] = first
    BY <1>13
  <2>2. ASSUME NEW i \in 0..(n - 1) PROVE c[i + 1] = MapBefore(c[i], before[i + 1], to, perms)
    <3>1. i + 1 \in 0..n /\ i + 1 # 0 /\ (i + 1) - 1 = i
      OBVIOUS
    <3> QED BY <1>13, <3>1
  <2> QED BY <2>1, <2>2
<1> HIDE DEF Loop
<1> DEFINE Right(i) == \E u, at, done : c[i] = Piece(u, at, done)
                                        /\ Holes(old, from, to, perms, before, i, u, at, done)
           Good == {i \in 0..n : Right(i)}
<1>15. 0 \in Good
  <2>1. PICK no : no = FALSE
    OBVIOUS
  <2>2. c[0] = Piece(old, from, no)
    BY <1>10, <1>14, <2>1 DEF Piece
  <2>3. Holes(old, from, to, perms, before, 0, old, from, no)
    <3>1. \A j \in 1..Len(before) : 0 < j /\ ~no
      BY <2>1
    <3>2. no \in BOOLEAN
      BY <2>1
    <3>3. from <= from /\ \A a \in Int : ~(from <= a /\ a < from)
      OBVIOUS
    <3> QED BY <3>1, <3>2, <3>3 DEF Holes
  <2>4. Right(0) /\ 0 \in 0..n
    BY <2>2, <2>3
  <2> QED BY <2>4
<1>16. ASSUME NEW i \in 0..(n - 1), i \in Good PROVE i + 1 \in Good
  <2>1. PICK u, at, done : c[i] = Piece(u, at, done) /\ Holes(old, from, to, perms, before, i, u, at, done)
    BY <1>16
  <2>2. Ascending(before, old.regions)
    BY <1>1, <1>7, <1>8 DEF Ascending
  <2>3. i \in Nat /\ i + 1 \in 1..Len(before) /\ i + 1 \in 0..n
    BY <1>9
  <2>4. \E u2, at2, done2 :
           /\ MapBefore(Piece(u, at, done), before[i + 1], to, perms) = Piece(u2, at2, done2)
           /\ Holes(old, from, to, perms, before, i + 1, u2, at2, done2)
    BY <2>1, <2>2, <2>3, HolesStep
  <2>5. Right(i + 1)
    BY <1>14, <2>1, <2>4
  <2> QED BY <2>3, <2>5
<1>17. n \in Good
  <2> HIDE DEF Good
  <2> QED BY <1>15, <1>16, UpwardFrom
<1>18. PICK u, at, done : c[n] = Piece(u, at, done) /\ Holes(old, from, to, perms, before, n, u, at, done)
  BY <1>17
<1>19. c[n].at = at /\ c[n].uc = u
  BY <1>18 DEF Piece
<1>20. /\ at \in Int /\ from <= at /\ IsMemory(u) /\ u.written = old.written /\ old.regions \subseteq u.regions
       /\ \A r \in u.regions \ old.regions :
            r.end <= at /\ r.end <= to /\ from <= r.start /\ r.perms = perms
       /\ \A a \in Int : from <= a /\ a < at /\ a < to => MappedIn(u, a)
  BY <1>18 DEF Holes, MappedIn
<1>21. \A j \in 1..Len(before) : before[j].end <= at \/ to <= before[j].start
  <2>1. \A j \in 1..Len(before) : ~(n < j)
    BY <1>9
  <2> QED BY <1>18, <2>1 DEF Holes
<1>22. PICK new : new = MapHoles(old, from, to, perms)
  OBVIOUS
<1>23. CASE at < to
  <2>1. new = MemMap(u, at, to, perms)
    BY <1>12, <1>19, <1>22, <1>23
  <2>2. \A r \in u.regions : r.end <= at \/ to <= r.start
    <3> SUFFICES ASSUME NEW r \in u.regions PROVE r.end <= at \/ to <= r.start
      OBVIOUS
    <3>1. CASE r \in regions
      <4>1. PICK j \in 1..Len(before) : before[j] = r
        BY <1>7, <3>1
      <4> QED BY <1>21, <4>1
    <3>2. CASE r \notin regions
      BY <1>1, <1>20, <3>2
    <3> QED BY <3>1, <3>2
  <2>3. PICK p : p = [start |-> at, end |-> to, perms |-> perms]
    OBVIOUS
  <2>4. IsMemory(new) /\ new.regions = u.regions \cup {p} /\ new.written = u.written
    <3>1. IsMemory(u) /\ at \in Int
      BY <1>20
    <3> QED BY <1>23, <2>1, <2>2, <2>3, <3>1, MemMapIs
  <2>5. p.start = at /\ p.end = to /\ p.perms = perms
    BY <2>3
  <2>6. ASSUME NEW r \in new.regions \ old.regions PROVE from <= r.start /\ r.end <= to /\ r.perms = perms
    <3>1. CASE r = p
      BY <1>20, <2>5, <3>1
    <3>2. CASE r \in u.regions
      BY <1>20, <2>6, <3>2
    <3> QED BY <2>4, <3>1, <3>2
  <2>7. ASSUME NEW a \in Int, from <= a, a < to PROVE MappedIn(new, a)
    <3>1. CASE a < at
      <4>1. MappedIn(u, a)
        BY <1>20, <2>7, <3>1
      <4> QED BY <2>4, <4>1 DEF MappedIn
    <3>2. CASE ~(a < at)
      <4>1. p \in new.regions /\ p.start <= a /\ a < p.end
        BY <1>20, <2>4, <2>5, <2>7, <3>2
      <4> QED BY <4>1 DEF MappedIn
    <3> QED BY <3>1, <3>2
  <2>8. new.written = old.written /\ old.regions \subseteq new.regions
    BY <1>20, <2>4
  <2> QED BY <1>22, <2>4, <2>6, <2>7, <2>8
<1>24. CASE ~(at < to)
  <2>1. new = u
    BY <1>12, <1>19, <1>22, <1>24
  <2>2. \A a \in Int : from <= a /\ a < to => MappedIn(new, a)
    <3> SUFFICES ASSUME NEW a \in Int, from <= a, a < to PROVE MappedIn(new, a)
      OBVIOUS
    <3>1. a < at
      BY <1>20, <1>24
    <3> QED BY <1>20, <2>1, <3>1
  <2> QED BY <1>20, <1>22, <2>1, <2>2
<1> QED
  BY <1>23, <1>24

Segments ==
  {s \in [start : Nat, end : Nat, name : Names, perms : Rights, content : Seq(Nat)] : s.start <= s.end}

\* The segment has a byte of content for the address, and which.
Says(s, a) == a - s.start \in 0..(Len(s.content) - 1) /\ a \in Bytes(s)
Text(s, a) == s.content[a - s.start + 1]

\* The memory after i of the segments.
LoadedTo(g, i, u) ==
  /\ IsMemory(u)
  /\ \A a \in Int : MappedIn(u, a) => \E j \in 1..i : a \in PagesOf(g[j])
  /\ \A j \in 1..i : \A a \in PagesOf(g[j]) :
       /\ MappedIn(u, a)
       /\ (\A k \in 1..(j - 1) : a \notin PagesOf(g[k])) => \A r \in MappedAt(u, a) : r.perms = g[j].perms
  /\ \A a \in DOMAIN u.written : a \in Int /\ \E j \in 1..i : Says(g[j], a)
  /\ \A j \in 1..i, a \in Int : Says(g[j], a) =>
       /\ a \in DOMAIN u.written
       /\ (\A k \in (j + 1)..i : ~Says(g[k], a)) => u.written[a] = Text(g[j], a)

\* The bytes of a segment go where it says, and nothing else changes.
LEMMA WriteIs ==
  ASSUME NEW uc, IsMemory(uc), NEW s \in Segments
  PROVE  /\ IsMemory(MemWrite(uc, s)) /\ MemWrite(uc, s).regions = uc.regions
         /\ \A a : a \in DOMAIN MemWrite(uc, s).written
                     <=> a \in DOMAIN uc.written \/ (a \in Int /\ Says(s, a))
         /\ \A a \in Int : Says(s, a) => MemWrite(uc, s).written[a] = Text(s, a)
         /\ \A a \in DOMAIN uc.written : ~(a \in Int /\ Says(s, a)) => MemWrite(uc, s).written[a] = uc.written[a]
<1>1. PICK start \in Nat, end \in Nat, content \in Seq(Nat) :
        start = s.start /\ end = s.end /\ content = s.content /\ start <= end
  BY DEF Segments
<1>2. PICK len \in Nat : len = Len(content)
  OBVIOUS
<1>3. PICK size \in Nat : size = end - start
  BY <1>1
<1>4. PICK n : n = Min({size, len})
  OBVIOUS
<1>5. n \in Int /\ n <= size /\ n <= len /\ (n = size \/ n = len)
  <2>1. size \in Int /\ len \in Int
    OBVIOUS
  <2> QED BY <1>4, <2>1, MinOfTwo
<1>6. PICK to : to = start..(start + n - 1)
  OBVIOUS
<1>7. \A a : a \in to <=> a \in Int /\ Says(s, a)
  <2>1. ASSUME NEW a \in Int PROVE a \in to <=> Says(s, a)
    <3>1. Says(s, a) <=> a - start \in 0..(len - 1) /\ a \in start..(end - 1)
      BY <1>1, <1>2 DEF Says, Bytes
    <3>2. a \in to <=> start <= a /\ a - start < n
      BY <1>5, <1>6
    <3>3. a - start \in 0..(len - 1) /\ a \in start..(end - 1) <=> start <= a /\ a - start < len /\ a - start < size
      BY <1>3
    <3> QED BY <1>5, <3>1, <3>2, <3>3
  <2>2. \A a : a \in to => a \in Int
    BY <1>5, <1>6
  <2> QED BY <2>1, <2>2
<1>8. PICK regions, written, no : regions = uc.regions /\ written = uc.written /\ no = FALSE
  OBVIOUS
<1>9. uc = [regions |-> regions, written |-> written, refused |-> no]
  BY <1>8 DEF IsMemory
<1>10. PICK text : text = [a \in DOMAIN written \cup to |-> IF a \in to THEN content[a - start + 1] ELSE written[a]]
  OBVIOUS
<1>11. PICK new : new = MemWrite(uc, s)
  OBVIOUS
<1>12. new = [uc EXCEPT !.written = text]
  <2>1. Min({s.end - s.start, Len(s.content)}) = n
    BY <1>1, <1>2, <1>3, <1>4
  <2> QED BY <1>1, <1>6, <1>8, <1>10, <1>11, <2>1 DEF MemWrite
<1>13. new = [regions |-> regions, written |-> text, refused |-> no]
  BY <1>9, <1>12
<1>14. new.regions = regions /\ new.written = text
  BY <1>13
<1>15. IsMemory(new)
  <2>1. new = [regions |-> new.regions, written |-> new.written, refused |-> FALSE]
    BY <1>8, <1>13, <1>14
  <2> QED BY <1>8, <1>14, <2>1 DEF IsMemory
<1>16. \A a : a \in DOMAIN text <=> a \in DOMAIN written \/ a \in to
  BY <1>10
<1>17. \A a \in to : text[a] = content[a - start + 1]
  BY <1>10
<1>18. \A a \in DOMAIN written : a \notin to => text[a] = written[a]
  BY <1>10
<1>19. \A a \in to : text[a] = Text(s, a)
  BY <1>1, <1>17 DEF Text
<1> QED
  BY <1>7, <1>8, <1>11, <1>14, <1>15, <1>16, <1>18, <1>19

LEMMA SegmentStep ==
  ASSUME NEW g, NEW i \in Nat, NEW u, LoadedTo(g, i, u), g[i + 1] \in Segments
  PROVE  LoadedTo(g, i + 1, MapSegment(u, g[i + 1]))
<1>1. PICK s : s = g[i + 1]
  OBVIOUS
<1>2. PICK start \in Nat, end \in Nat : start = s.start /\ end = s.end /\ start <= end
  BY <1>1 DEF Segments
<1>3. PICK from \in Int, to \in Int : from = Down(s.start) /\ to = Up(s.end) /\ from <= start /\ end <= to
  <2>1. start \in Int /\ end \in Int
    OBVIOUS
  <2> QED BY <1>2, <2>1, PagesAre
<1>4. PagesOf(s) = from..(to - 1)
  BY <1>3 DEF PagesOf
<1>5. PICK new : new = MapSegment(u, s)
  OBVIOUS
<1>6. /\ IsMemory(u)
      /\ \A a \in Int : MappedIn(u, a) => \E j \in 1..i : a \in PagesOf(g[j])
      /\ \A j \in 1..i : \A a \in PagesOf(g[j]) :
           /\ MappedIn(u, a)
           /\ (\A k \in 1..(j - 1) : a \notin PagesOf(g[k])) => \A r \in MappedAt(u, a) : r.perms = g[j].perms
  BY DEF LoadedTo
<1>7. /\ \A a \in DOMAIN u.written : a \in Int /\ \E j \in 1..i : Says(g[j], a)
      /\ \A j \in 1..i, a \in Int : Says(g[j], a) =>
           /\ a \in DOMAIN u.written
           /\ (\A k \in (j + 1)..i : ~Says(g[k], a)) => u.written[a] = Text(g[j], a)
  BY DEF LoadedTo
<1>8. \A j \in 1..(i + 1) : j \in 1..i \/ j = i + 1
  OBVIOUS
<1>9. i + 1 \in 1..(i + 1) /\ \A j \in 1..i : j \in 1..(i + 1)
  OBVIOUS
<1>10. CASE to <= from
  <2>1. new = u
    BY <1>3, <1>5, <1>10 DEF MapSegment
  <2>2. \A a \in Int : a \notin PagesOf(s)
    BY <1>4, <1>10
  <2>3. \A a \in Int : ~Says(s, a)
    <3>1. Bytes(s) = start..(end - 1)
      BY <1>2 DEF Bytes
    <3>2. start..(end - 1) = {}
      BY <1>3, <1>10
    <3> QED BY <3>1, <3>2 DEF Says
  <2>4. \A a \in Int : MappedIn(u, a) => \E j \in 1..(i + 1) : a \in PagesOf(g[j])
    BY <1>6, <1>9
  <2>5. ASSUME NEW j \in 1..(i + 1), NEW a \in PagesOf(g[j])
        PROVE  /\ MappedIn(u, a)
               /\ (\A k \in 1..(j - 1) : a \notin PagesOf(g[k])) => \A r \in MappedAt(u, a) : r.perms = g[j].perms
    <3>1. PagesOf(s) = {}
      BY <1>3, <1>4, <1>10
    <3>2. j # i + 1
      BY <1>1, <3>1
    <3> QED BY <1>6, <1>8, <3>2
  <2>6. \A a \in DOMAIN u.written : a \in Int /\ \E j \in 1..(i + 1) : Says(g[j], a)
    BY <1>7, <1>9
  <2>7. ASSUME NEW j \in 1..(i + 1), NEW a \in Int, Says(g[j], a)
        PROVE  /\ a \in DOMAIN u.written
               /\ (\A k \in (j + 1)..(i + 1) : ~Says(g[k], a)) => u.written[a] = Text(g[j], a)
    <3>1. j # i + 1
      BY <1>1, <2>3, <2>7
    <3>2. j \in 1..i
      BY <1>8, <3>1
    <3>3. \A k \in (j + 1)..i : k \in (j + 1)..(i + 1)
      OBVIOUS
    <3> QED BY <1>7, <2>7, <3>2, <3>3
  <2>8. LoadedTo(g, i + 1, u)
    BY <1>6, <2>4, <2>5, <2>6, <2>7 DEF LoadedTo
  <2> QED BY <1>1, <1>5, <2>1, <2>8
<1>11. CASE ~(to <= from)
  <2>1. PICK h : h = MapHoles(u, from, to, s.perms)
    OBVIOUS
  <2>2. new = MemWrite(h, s)
    BY <1>3, <1>5, <1>11, <2>1 DEF MapSegment
  <2>3. /\ IsMemory(h) /\ h.written = u.written /\ u.regions \subseteq h.regions
        /\ \A r \in h.regions \ u.regions : from <= r.start /\ r.end <= to /\ r.perms = s.perms
        /\ \A a \in Int : from <= a /\ a < to => MappedIn(h, a)
    <3>1. from < to
      BY <1>11
    <3> QED BY <1>6, <2>1, <3>1, HolesAre
  <2>4. /\ IsMemory(new) /\ new.regions = h.regions
        /\ \A a : a \in DOMAIN new.written <=> a \in DOMAIN u.written \/ (a \in Int /\ Says(s, a))
        /\ \A a \in Int : Says(s, a) => new.written[a] = Text(s, a)
        /\ \A a \in DOMAIN u.written : ~(a \in Int /\ Says(s, a)) => new.written[a] = u.written[a]
    <3>1. s \in Segments
      BY <1>1
    <3> QED BY <2>2, <2>3, <3>1, WriteIs
  <2>5. \A a \in Int : MappedIn(u, a) => MappedIn(new, a)
    BY <2>3, <2>4 DEF MappedIn
  <2>6. ASSUME NEW a \in Int, MappedIn(u, a), NEW r \in MappedAt(new, a) PROVE r \in MappedAt(u, a)
    <3>1. PICK q \in u.regions : q.start <= a /\ a < q.end
      BY <2>6 DEF MappedIn
    <3>2. r \in h.regions /\ q \in h.regions /\ r.start <= a /\ a < r.end
      BY <2>3, <2>4 DEF MappedAt
    <3>3. q = r \/ q.end <= r.start \/ r.end <= q.start
      BY <2>3, <3>2 DEF IsMemory
    <3>4. q.start \in Int /\ q.end \in Int /\ r.start \in Int /\ r.end \in Int
      BY <2>3, <3>2 DEF IsMemory
    <3>5. q = r
      BY <3>1, <3>2, <3>3, <3>4
    <3> QED BY <3>1, <3>2, <3>5 DEF MappedAt
  <2>7. ASSUME NEW a \in Int, MappedIn(new, a) PROVE \E j \in 1..(i + 1) : a \in PagesOf(g[j])
    <3>1. PICK r \in h.regions : r.start <= a /\ a < r.end
      BY <2>4, <2>7 DEF MappedIn
    <3>2. CASE r \in u.regions
      <4>1. MappedIn(u, a)
        BY <3>1, <3>2 DEF MappedIn
      <4> QED BY <1>6, <1>9, <4>1
    <3>3. CASE r \notin u.regions
      <4>1. from <= r.start /\ r.end <= to
        BY <2>3, <3>3
      <4>2. r.start \in Int /\ r.end \in Int
        BY <2>3 DEF IsMemory
      <4>3. a \in PagesOf(s)
        BY <1>4, <3>1, <4>1, <4>2
      <4> QED BY <1>1, <1>9, <4>3
    <3> QED BY <3>2, <3>3
  <2>8. ASSUME NEW j \in 1..(i + 1), NEW a \in PagesOf(g[j])
        PROVE  /\ MappedIn(new, a)
               /\ (\A k \in 1..(j - 1) : a \notin PagesOf(g[k])) => \A r \in MappedAt(new, a) : r.perms = g[j].perms
    <3>1. CASE j \in 1..i
      <4>1. /\ MappedIn(u, a)
            /\ (\A k \in 1..(j - 1) : a \notin PagesOf(g[k])) => \A r \in MappedAt(u, a) : r.perms = g[j].perms
        BY <1>6, <3>1
      <4>2. a \in Int
        <5>1. PICK q \in u.regions : q.start <= a /\ a < q.end
          BY <4>1 DEF MappedIn
        <5> QED BY <2>8 DEF PagesOf
      <4>3. MappedIn(new, a)
        BY <2>5, <4>1, <4>2
      <4>4. \A r \in MappedAt(new, a) : r \in MappedAt(u, a)
        BY <2>6, <4>1, <4>2
      <4> QED BY <4>1, <4>3, <4>4
    <3>2. CASE j = i + 1
      <4>1. a \in Int /\ from <= a /\ a < to
        BY <1>1, <1>4, <3>2
      <4>2. MappedIn(new, a)
        BY <2>3, <2>4, <4>1 DEF MappedIn
      <4>3. ASSUME \A k \in 1..(j - 1) : a \notin PagesOf(g[k]), NEW r \in MappedAt(new, a)
            PROVE  r.perms = s.perms
        <5>1. ~MappedIn(u, a)
          <6>1. 1..(j - 1) = 1..i
            BY <3>2
          <6> QED BY <1>6, <4>1, <4>3, <6>1
        <5>2. r \in h.regions /\ r.start <= a /\ a < r.end
          BY <2>4 DEF MappedAt
        <5>3. r \notin u.regions
          BY <5>1, <5>2 DEF MappedIn
        <5> QED BY <2>3, <5>2, <5>3
      <4> QED BY <1>1, <3>2, <4>2, <4>3
    <3> QED BY <1>8, <3>1, <3>2
  <2>9. \A a \in DOMAIN new.written : a \in Int /\ \E j \in 1..(i + 1) : Says(g[j], a)
    BY <1>1, <1>7, <1>9, <2>4
  <2>10. ASSUME NEW j \in 1..(i + 1), NEW a \in Int, Says(g[j], a)
         PROVE  /\ a \in DOMAIN new.written
                /\ (\A k \in (j + 1)..(i + 1) : ~Says(g[k], a)) => new.written[a] = Text(g[j], a)
    <3>1. CASE j \in 1..i
      <4>1. /\ a \in DOMAIN u.written
            /\ (\A k \in (j + 1)..i : ~Says(g[k], a)) => u.written[a] = Text(g[j], a)
        BY <1>7, <2>10, <3>1
      <4>2. a \in DOMAIN new.written
        BY <2>4, <4>1
      <4>3. ASSUME \A k \in (j + 1)..(i + 1) : ~Says(g[k], a) PROVE new.written[a] = Text(g[j], a)
        <5>1. i + 1 \in (j + 1)..(i + 1) /\ \A k \in (j + 1)..i : k \in (j + 1)..(i + 1)
          BY <3>1
        <5>2. ~Says(s, a) /\ \A k \in (j + 1)..i : ~Says(g[k], a)
          BY <1>1, <4>3, <5>1
        <5> QED BY <2>4, <4>1, <5>2
      <4> QED BY <4>2, <4>3
    <3>2. CASE j = i + 1
      BY <1>1, <2>4, <2>10, <3>2
    <3> QED BY <1>8, <3>1, <3>2
  <2>11. LoadedTo(g, i + 1, new)
    BY <2>4, <2>7, <2>8, <2>9, <2>10 DEF LoadedTo
  <2> QED BY <1>1, <1>5, <2>11
<1> QED
  BY <1>10, <1>11

\* Whatever the segments, one after the other.
LEMMA LoadingIs ==
  ASSUME NEW g \in Seq(Segments)
  PROVE  LoadedTo(g, Len(g), Loaded(g))
<1>1. PICK n \in Nat : n = Len(g)
  OBVIOUS
<1> DEFINE Loop(f, m) == f = [i \in 0..m |-> IF i = 0 THEN Empty ELSE MapSegment(f[i - 1], g[i])]
<1>2. PICK uc : uc = (CHOOSE loop : Loop(loop, n))
  OBVIOUS
<1>3. Loaded(g) = uc[n]
  BY <1>1, <1>2 DEF Loaded
<1>4. Loop(uc, n)
  <2> DEFINE Good == {m \in 0..n : \E f : Loop(f, m)}
  <2>1. 0 \in Good
    <3>1. PICK f : f = [k \in 0..0 |-> Empty]
      OBVIOUS
    <3>2. \A k \in 0..0 : k = 0
      OBVIOUS
    <3>3. Loop(f, 0)
      BY <3>1, <3>2
    <3>4. 0 \in 0..n
      OBVIOUS
    <3> HIDE DEF Loop
    <3> QED BY <3>3, <3>4
  <2>2. ASSUME NEW m \in 0..(n - 1), m \in Good PROVE m + 1 \in Good
    <3>1. PICK f : Loop(f, m)
      BY <2>2
    <3>2. PICK next : next = MapSegment(f[m], g[m + 1])
      OBVIOUS
    <3>3. PICK h : h = [k \in 0..(m + 1) |-> IF k = m + 1 THEN next ELSE f[k]]
      OBVIOUS
    <3>4. ASSUME NEW k \in 0..(m + 1)
          PROVE  h[k] = IF k = 0 THEN Empty ELSE MapSegment(h[k - 1], g[k])
      <4>1. CASE k = m + 1
        <5>1. h[k] = next /\ h[k - 1] = f[m] /\ k # 0
          BY <3>3, <4>1
        <5> QED BY <3>2, <4>1, <5>1
      <4>2. CASE k # m + 1 /\ k # 0
        <5>1. k \in 0..m /\ h[k] = f[k] /\ h[k - 1] = f[k - 1]
          BY <3>3, <4>2
        <5> QED BY <3>1, <4>2, <5>1
      <4>3. CASE k = 0
        <5>1. k \in 0..m /\ h[k] = f[k]
          BY <3>3, <4>3
        <5> QED BY <3>1, <4>3, <5>1
      <4> QED BY <4>1, <4>2, <4>3
    <3>5. h = [k \in 0..(m + 1) |-> h[k]]
      BY <3>3
    <3>6. Loop(h, m + 1)
      BY <3>4, <3>5
    <3>7. m + 1 \in 0..n
      OBVIOUS
    <3> QED BY <3>6, <3>7
  <2>3. n \in Good
    <3> HIDE DEF Good
    <3> QED BY <2>1, <2>2, UpwardFrom
  <2> QED BY <1>2, <2>3
<1>5. uc[0] = Empty /\ \A i \in 0..(n - 1) : uc[i + 1] = MapSegment(uc[i], g[i + 1])
  <2>1. uc[0] = Empty
    BY <1>4
  <2>2. ASSUME NEW i \in 0..(n - 1) PROVE uc[i + 1] = MapSegment(uc[i], g[i + 1])
    <3>1. i + 1 \in 0..n /\ i + 1 # 0 /\ (i + 1) - 1 = i
      OBVIOUS
    <3> QED BY <1>4, <3>1
  <2> QED BY <2>1, <2>2
<1> HIDE DEF Loop
<1> DEFINE Good == {i \in 0..n : LoadedTo(g, i, uc[i])}
<1>6. 0 \in Good
  <2>1. PICK none, no : none = {} /\ no = FALSE
    OBVIOUS
  <2>2. PICK e : e = Empty
    OBVIOUS
  <2>3. e.regions = {} /\ e.refused = FALSE /\ DOMAIN e.written = {}
    BY <2>2 DEF Empty
  <2>4. e = [regions |-> e.regions, written |-> e.written, refused |-> FALSE]
    BY <2>2 DEF Empty
  <2>5. IsMemory(e)
    BY <2>3, <2>4, FS_EmptySet DEF IsMemory
  <2>6. \A j \in 1..0 : FALSE
    OBVIOUS
  <2>7. LoadedTo(g, 0, e)
    BY <2>3, <2>5, <2>6 DEF LoadedTo, MappedIn
  <2> QED BY <1>5, <2>2, <2>7
<1>7. ASSUME NEW i \in 0..(n - 1), i \in Good PROVE i + 1 \in Good
  <2>1. LoadedTo(g, i, uc[i]) /\ i \in Nat /\ i + 1 \in 0..n /\ i + 1 \in 1..n
    BY <1>7
  <2>2. g[i + 1] \in Segments
    BY <1>1, <2>1
  <2>3. LoadedTo(g, i + 1, uc[i + 1])
    BY <1>5, <2>1, <2>2, SegmentStep
  <2> QED BY <2>1, <2>3
<1>8. n \in Good
  <2> HIDE DEF Good
  <2> QED BY <1>6, <1>7, UpwardFrom
<1> QED
  BY <1>1, <1>3, <1>8

\* All that have a name are in the module of the name.
LEMMA ModulesHold ==
  ASSUME NEW g \in Seq(Segments), NEW i \in 1..Len(g), g[i].name # NoName
  PROVE  \E m \in Modules(g) : m.name = g[i].name /\ m.base <= g[i].start /\ g[i].end <= m.base + m.size
<1>1. PICK n \in Nat : n = Len(g)
  OBVIOUS
<1>2. PICK name : name = g[i].name
  OBVIOUS
<1>3. PICK segs : segs = {s \in ToSet(g) : s.name = name}
  OBVIOUS
<1>4. PICK names : names = {s.name : s \in ToSet(g)} \ {NoName}
  OBVIOUS
<1>5. ToSet(g) = {g[j] : j \in 1..n}
  BY <1>1 DEF ToSet
<1>6. g[i] \in segs /\ name \in names
  BY <1>1, <1>2, <1>3, <1>4, <1>5
<1>7. PICK bottoms, tops : bottoms = {s.start : s \in segs} /\ tops = {s.end : s \in segs}
  OBVIOUS
<1>8. \A s \in segs : s \in Segments
  BY <1>1, <1>3, <1>5
<1>9. \A s \in segs : s.start \in Nat /\ s.end \in Nat
  BY <1>8 DEF Segments
<1>10. PICK last \in Nat : tops \in SUBSET (0..last)
  <2> DEFINE Good == {k \in 0..n : \E b \in Nat : \A j \in 1..k : g[j].end <= b}
  <2>1. 0 \in Good
    <3>1. 0 \in Nat /\ 0 \in 0..n /\ \A j \in 1..0 : g[j].end <= 0
      OBVIOUS
    <3> QED BY <3>1
  <2>2. ASSUME NEW k \in 0..(n - 1), k \in Good PROVE k + 1 \in Good
    <3>1. PICK b \in Nat : \A j \in 1..k : g[j].end <= b
      BY <2>2
    <3>2. k + 1 \in 1..n /\ k + 1 \in 0..n
      OBVIOUS
    <3>3. \A j \in 1..(k + 1) : g[j] \in Segments
      BY <1>1
    <3>4. \A j \in 1..(k + 1) : g[j].end \in Nat
      BY <3>3 DEF Segments
    <3>5. PICK e \in Nat : e = g[k + 1].end
      BY <3>4
    <3>6. PICK c \in Nat : b <= c /\ e <= c
      <4>1. CASE b <= e
        BY <4>1
      <4>2. CASE e <= b
        BY <4>2
      <4> QED BY <4>1, <4>2
    <3>7. ASSUME NEW j \in 1..(k + 1) PROVE g[j].end <= c
      <4>1. PICK f \in Nat : f = g[j].end
        BY <3>4
      <4>2. f <= b \/ f = e
        <5>1. j \in 1..k \/ j = k + 1
          OBVIOUS
        <5> QED BY <3>1, <3>5, <4>1, <5>1
      <4>3. f <= c
        BY <3>6, <4>2
      <4> QED BY <4>1, <4>3
    <3> QED BY <3>2, <3>7
  <2>3. n \in Good
    <3> HIDE DEF Good
    <3> QED BY <2>1, <2>2, UpwardFrom
  <2>4. PICK b \in Nat : \A j \in 1..n : g[j].end <= b
    BY <2>3
  <2>5. ASSUME NEW t \in tops PROVE t \in 0..b
    <3>1. PICK s \in segs : t = s.end
      BY <1>7
    <3>2. PICK j \in 1..n : s = g[j]
      BY <1>3, <1>5
    <3>3. t \in Nat /\ t <= b
      BY <1>9, <2>4, <3>1, <3>2
    <3> QED BY <3>3
  <2> QED BY <2>5
<1>11. g[i].start \in bottoms /\ g[i].end \in tops
  BY <1>6, <1>7
<1>12. bottoms \in SUBSET Nat
  BY <1>7, <1>9
<1>13. PICK base, top : base = Min(bottoms) /\ top = Max(tops)
  OBVIOUS
<1>14. base \in Nat /\ base <= g[i].start
  BY <1>11, <1>12, <1>13, MinIs
<1>15. top \in Nat /\ g[i].end <= top
  <2>1. top \in tops /\ \A x \in tops : x <= top
    BY <1>10, <1>11, <1>13, MaxIs
  <2>2. top \in 0..last
    BY <1>10, <2>1
  <2>3. g[i].end <= top
    BY <1>11, <2>1
  <2> QED BY <2>2, <2>3
<1>16. PICK m : m = [name |-> name, base |-> base, size |-> top - base]
  OBVIOUS
<1>17. m \in Modules(g)
  <2>1. names # {}
    BY <1>6
  <2>2. {[name |-> q, base |-> Min({s.start : s \in {s \in ToSet(g) : s.name = q}}),
          size |-> Max({s.end : s \in {s \in ToSet(g) : s.name = q}})
                     - Min({s.start : s \in {s \in ToSet(g) : s.name = q}})] : q \in names} = Modules(g)
    BY <1>4, <2>1 DEF Modules
  <2>3. \A q \in names : [name |-> q, base |-> Min({s.start : s \in {s \in ToSet(g) : s.name = q}}),
                          size |-> Max({s.end : s \in {s \in ToSet(g) : s.name = q}})
                                     - Min({s.start : s \in {s \in ToSet(g) : s.name = q}})] \in Modules(g)
    BY <2>2
  <2> QED BY <1>3, <1>6, <1>7, <1>13, <1>16, <2>3
<1>18. m.name = name /\ m.base = base /\ m.size = top - base
  BY <1>16
<1>19. base + (top - base) = top
  BY <1>14, <1>15
<1> QED
  BY <1>2, <1>14, <1>15, <1>17, <1>18, <1>19

LEMMA SegmentsRight ==
  ASSUME NEW g \in Seq(Segments)
  PROVE  LoadedRight(g)
<1>1. PICK n \in Nat : n = Len(g)
  OBVIOUS
<1>2. PICK uc : uc = Loaded(g)
  OBVIOUS
<1>3. LoadedTo(g, n, uc)
  BY <1>1, <1>2, LoadingIs
<1>4. DOMAIN g = 1..n /\ ToSet(g) = {g[j] : j \in 1..n}
  BY <1>1 DEF ToSet
<1>5. \A j \in 1..n : g[j] \in Segments
  BY <1>1
<1>6. \A j \in 1..n : g[j].start \in Nat /\ g[j].end \in Nat
  BY <1>5 DEF Segments
<1>7. PICK all : all = UNION {PagesOf(s) : s \in ToSet(g)}
  OBVIOUS
<1>8. \A a : a \in all <=> \E j \in 1..n : a \in PagesOf(g[j])
  BY <1>4, <1>7
<1>9. /\ IsMemory(uc)
      /\ \A a \in Int : MappedIn(uc, a) => \E j \in 1..n : a \in PagesOf(g[j])
      /\ \A j \in 1..n : \A a \in PagesOf(g[j]) :
           /\ MappedIn(uc, a)
           /\ (\A k \in 1..(j - 1) : a \notin PagesOf(g[k])) => \A r \in MappedAt(uc, a) : r.perms = g[j].perms
  BY <1>3 DEF LoadedTo
<1>10. /\ \A a \in DOMAIN uc.written : a \in Int /\ \E j \in 1..n : Says(g[j], a)
       /\ \A j \in 1..n, a \in Int : Says(g[j], a) =>
            /\ a \in DOMAIN uc.written
            /\ (\A k \in (j + 1)..n : ~Says(g[k], a)) => uc.written[a] = Text(g[j], a)
  BY <1>3 DEF LoadedTo
<1>11. ~uc.refused
  BY <1>9 DEF IsMemory
<1>12. ASSUME NEW a \in all
       PROVE  {r.perms : r \in MappedAt(uc, a)} = {g[Min({j \in DOMAIN g : a \in PagesOf(g[j])})].perms}
  <2>1. PICK S : S = {j \in 1..n : a \in PagesOf(g[j])}
    OBVIOUS
  <2>2. PICK k : k = Min(S)
    OBVIOUS
  <2>3. S \in SUBSET Nat /\ S # {}
    BY <1>8, <1>12, <2>1
  <2>4. k \in S /\ \A j \in S : k <= j
    BY <2>2, <2>3, MinIs
  <2>5. k \in 1..n /\ a \in PagesOf(g[k])
    BY <2>1, <2>4
  <2>6. \A j \in 1..(k - 1) : a \notin PagesOf(g[j])
    <3> SUFFICES ASSUME NEW j \in 1..(k - 1), a \in PagesOf(g[j]) PROVE FALSE
      OBVIOUS
    <3>1. j \in 1..n /\ ~(k <= j)
      BY <2>5
    <3> QED BY <2>1, <2>4, <3>1
  <2>7. MappedIn(uc, a) /\ \A r \in MappedAt(uc, a) : r.perms = g[k].perms
    BY <1>9, <2>5, <2>6
  <2>8. PICK r : r \in MappedAt(uc, a)
    BY <2>7 DEF MappedIn, MappedAt
  <2>9. {r1.perms : r1 \in MappedAt(uc, a)} = {g[k].perms}
    BY <2>7, <2>8
  <2> QED BY <1>4, <2>1, <2>2, <2>9
<1>13. ASSUME NEW r \in uc.regions PROVE r.start..(r.end - 1) \subseteq all
  <2>1. r.start \in Int /\ r.end \in Int
    BY <1>9 DEF IsMemory
  <2>2. ASSUME NEW a \in r.start..(r.end - 1) PROVE a \in all
    <3>1. a \in Int /\ r.start <= a /\ a < r.end
      BY <2>1
    <3>2. MappedIn(uc, a)
      BY <3>1 DEF MappedIn
    <3> QED BY <1>8, <1>9, <3>1, <3>2
  <2> QED BY <2>2
<1> DEFINE Holding(a) == {i \in DOMAIN g : a - g[i].start \in 0..(Len(g[i].content) - 1) /\ a \in Bytes(g[i])}
<1>14. \A a, i : i \in Holding(a) <=> i \in 1..n /\ Says(g[i], a)
  BY <1>4 DEF Says
<1>15. ASSUME NEW i \in 1..n, NEW a, Says(g[i], a) PROVE a \in Int /\ a \in all
  <2>1. PICK start \in Nat, end \in Nat : start = g[i].start /\ end = g[i].end
    BY <1>6
  <2>2. a \in start..(end - 1)
    BY <1>15, <2>1 DEF Says, Bytes
  <2>3. PICK from \in Int, to \in Int : from = Down(g[i].start) /\ to = Up(g[i].end) /\ from <= start /\ end <= to
    <3>1. start \in Int /\ end \in Int
      OBVIOUS
    <3> QED BY <2>1, <3>1, PagesAre
  <2>4. a \in PagesOf(g[i])
    BY <2>2, <2>3 DEF PagesOf
  <2> QED BY <1>8, <2>2, <2>4
<1> HIDE DEF Holding
<1>16. DOMAIN uc.written = {a \in all : Holding(a) # {}}
  <2>1. ASSUME NEW a \in DOMAIN uc.written PROVE a \in all /\ Holding(a) # {}
    <3>1. PICK j \in 1..n : Says(g[j], a)
      BY <1>10
    <3> QED BY <1>14, <1>15, <3>1
  <2>2. ASSUME NEW a \in all, Holding(a) # {} PROVE a \in DOMAIN uc.written
    <3>1. PICK j \in 1..n : Says(g[j], a)
      BY <1>14, <2>2
    <3> QED BY <1>10, <1>15, <3>1
  <2> QED BY <2>1, <2>2
<1>17. ASSUME NEW a \in DOMAIN uc.written
       PROVE  uc.written[a] = g[Max(Holding(a))].content[a - g[Max(Holding(a))].start + 1]
  <2>1. PICK S, k : S = Holding(a) /\ k = Max(S)
    OBVIOUS
  <2>2. S \in SUBSET (0..n) /\ S # {}
    <3>1. ASSUME NEW i \in S PROVE i \in 0..n
      <4>1. i \in 1..n
        BY <1>14, <2>1
      <4> QED BY <4>1
    <3> QED BY <1>16, <2>1, <3>1
  <2>3. k \in S /\ \A i \in S : i <= k
    BY <2>1, <2>2, MaxIs
  <2>4. k \in 1..n /\ Says(g[k], a) /\ a \in Int
    BY <1>10, <1>14, <2>1, <2>3
  <2>5. \A j \in (k + 1)..n : ~Says(g[j], a)
    <3> SUFFICES ASSUME NEW j \in (k + 1)..n, Says(g[j], a) PROVE FALSE
      OBVIOUS
    <3>1. j \in 1..n /\ ~(j <= k)
      BY <2>4
    <3>2. j \in S
      BY <1>14, <2>1, <3>1
    <3> QED BY <2>3, <3>1, <3>2
  <2>6. uc.written[a] = Text(g[k], a)
    BY <1>10, <2>4, <2>5
  <2> QED BY <2>1, <2>6 DEF Text
<1>18. ASSUME NEW s \in {s \in ToSet(g) : s.name # NoName}
       PROVE  \E m \in Modules(g) : m.name = s.name /\ m.base <= s.start /\ s.end <= m.base + m.size
  <2>1. PICK i \in 1..n : s = g[i]
    BY <1>4
  <2>2. i \in 1..Len(g) /\ g[i].name # NoName
    BY <1>1, <1>18, <2>1
  <2>3. \E m \in Modules(g) : m.name = g[i].name /\ m.base <= g[i].start /\ g[i].end <= m.base + m.size
    BY <2>2, ModulesHold
  <2> QED BY <2>1, <2>3
<1> QED
  BY <1>2, <1>7, <1>11, <1>12, <1>13, <1>16, <1>17, <1>18 DEF LoadedRight, Holding

\* What the context holds is a list of segments, of any length.
SegmentsInv == input.kind = "segments" => input.segments \in Seq(Segments)

LEMMA SegmentsInit == ASSUME MCInit PROVE SegmentsInv
<1> SUFFICES ASSUME input.kind = "segments" PROVE input.segments \in Seq(Segments)
  BY DEF SegmentsInv
<1>1. input = [kind |-> "segments", segments |-> <<>>]
  <2>1. TablesInit
    <3>1. ASSUME input = [kind |-> "trace"] PROVE FALSE
      BY <3>1
    <3> QED BY <3>1 DEF MCInit
  <2>2. ASSUME input = [kind |-> "symbols", table |-> <<>>] PROVE FALSE
    BY <2>2
  <2>3. ASSUME NEW modules, input = [kind |-> "coverage", modules |-> modules, raw |-> {}] PROVE FALSE
    BY <2>3
  <2>4. ASSUME NEW a, NEW b, input = [kind |-> "engines", a |-> a, b |-> b] PROVE FALSE
    BY <2>4
  <2>5. ASSUME NEW reads, input = [kind |-> "reads", reads |-> reads, at |-> 0, far |-> 0, accesses |-> <<>>]
        PROVE  FALSE
    BY <2>5
  <2> QED BY <2>1, <2>2, <2>3, <2>4, <2>5 DEF TablesInit
<1> QED
  BY <1>1

LEMMA SegmentsNext ==
  ASSUME Starts \subseteq Nat, Lengths \subseteq Nat, Contents \subseteq Nat,
         IsInput(input), SegmentsInv, [MCNext]_<<input, pvars>>
  PROVE  SegmentsInv'
<1> SUFFICES ASSUME input'.kind = "segments" PROVE input'.segments \in Seq(Segments)
  BY DEF SegmentsInv
<1>1. input.kind = "segments"
  BY KindStays
<1>2. PICK g \in Seq(Segments) : g = input.segments
  BY <1>1 DEF SegmentsInv
<1>3. CASE input' = input
  BY <1>2, <1>3
<1>4. CASE AddSegment
  <2>1. PICK s \in Starts, l \in Lengths, c \in Contents, name \in Names, p \in Rights :
          input' = [input EXCEPT !.segments =
                      Append(@, [start |-> s, end |-> s + l, name |-> name, perms |-> p,
                                 content |-> [i \in 1..c |-> Len(@) + 1]])]
    BY <1>4 DEF AddSegment
  <2>2. PICK content : content = [i \in 1..c |-> Len(g) + 1]
    OBVIOUS
  <2>3. PICK n : n = [start |-> s, end |-> s + l, name |-> name, perms |-> p, content |-> content]
    OBVIOUS
  <2>4. PICK after : after = Append(g, n)
    OBVIOUS
  <2>5. PICK i : i = input
    OBVIOUS
  <2>6. i = [kind |-> "segments", segments |-> g]
    BY <1>1, <1>2, <2>5 DEF IsInput
  <2>7. input' = [i EXCEPT !.segments = after]
    BY <1>2, <2>1, <2>2, <2>3, <2>4, <2>5
  <2>8. input'.segments = after
    BY <2>6, <2>7
  <2>9. content \in Seq(Nat)
    <3>1. c \in Nat /\ Len(g) + 1 \in Nat
      OBVIOUS
    <3>2. content \in [1..c -> Nat]
      BY <2>2, <3>1
    <3> QED BY <3>1, <3>2, SeqDef
  <2>10. s \in Nat /\ s + l \in Nat /\ s <= s + l
    OBVIOUS
  <2>11. n \in [start : Nat, end : Nat, name : Names, perms : Rights, content : Seq(Nat)]
    BY <2>3, <2>9, <2>10
  <2>12. n.start <= n.end
    <3>1. n.start = s /\ n.end = s + l
      BY <2>3
    <3> QED BY <2>10, <3>1
  <2>13. n \in Segments
    BY <2>11, <2>12 DEF Segments
  <2> QED BY <2>4, <2>8, <2>13
<1>5. input' = input \/ AddSegment
  <2>1. ASSUME MCNext PROVE input' = input \/ AddSegment
    <3>1. input.kind # "trace" /\ input.kind # "symbols" /\ input.kind # "coverage"
          /\ input.kind # "engines" /\ input.kind # "reads"
      BY <1>1
    <3> QED BY <2>1, <3>1 DEF MCNext, TablesNext, Extend, OnBlock, EnginesStep, Reads, ReplaysReads
  <2> QED BY <2>1
<1> QED
  BY <1>3, <1>4, <1>5

\* Whatever segments a context has, in whatever order: memory is what the last
\* of them says of it, every page of theirs is mapped as the first said, and what
\* has a name is in its module (loaders.py, _map_segment).
THEOREM SegmentsLoad ==
  ASSUME Starts \subseteq Nat, Lengths \subseteq Nat, Contents \subseteq Nat
  PROVE  MCSpec => []LoadedSegments
<1> DEFINE Inv == IsInput(input) /\ SegmentsInv
<1>1. MCInit => Inv
  BY InputInit, SegmentsInit
<1>2. Inv /\ [MCNext]_<<input, pvars>> => Inv'
  BY KindStays, SegmentsNext
<1>3. Inv => LoadedSegments
  BY SegmentsRight DEF LoadedSegments, SegmentsInv
<1> QED
  BY <1>1, <1>2, <1>3, PTL DEF MCSpec

----------------------------------------------------------------------------
(* What the program read of its input (Provenance). *)

\* What the hook adds: of what was read, in order, what it is called for.
LEMMA OnReadIs ==
  ASSUME NEW S, NEW acc \in Seq(S), NEW r \in S
  PROVE  /\ OnRead(acc, r) \in Seq(S)
         /\ Hooked(r) => Len(OnRead(acc, r)) = Len(acc) + 1 /\ OnRead(acc, r)[Len(acc) + 1] = r
         /\ ~Hooked(r) => OnRead(acc, r) = acc
         /\ \A j \in 1..Len(acc) : j \in 1..Len(OnRead(acc, r)) /\ OnRead(acc, r)[j] = acc[j]
<1>1. CASE Hooked(r)
  <2>1. OnRead(acc, r) = Append(acc, r)
    BY <1>1 DEF OnRead
  <2> QED BY <1>1, <2>1
<1>2. CASE ~Hooked(r)
  <2>1. OnRead(acc, r) = acc
    BY <1>2 DEF OnRead
  <2> QED BY <1>2, <2>1
<1> QED
  BY <1>1, <1>2

\* after has all that was recorded before, in its place, and behind it reads
\* of the sequence only.
Longer(S, acc, s, after) ==
  /\ after \in Seq(S) /\ Len(acc) <= Len(after)
  /\ \A j \in 1..Len(acc) : after[j] = acc[j]
  /\ \A j \in (Len(acc) + 1)..Len(after) : \E i \in 1..Len(s) : after[j] = s[i] /\ Hooked(s[i])

LEMMA LongerStep ==
  ASSUME NEW S, NEW acc \in Seq(S), NEW s \in Seq(S), NEW i \in 1..Len(s), NEW after, Longer(S, acc, s, after)
  PROVE  Longer(S, acc, s, OnRead(after, s[i]))
<1>1. PICK n \in Nat, m \in Nat : n = Len(acc) /\ m = Len(after)
  BY DEF Longer
<1>2. PICK new : new = OnRead(after, s[i])
  OBVIOUS
<1>3. s[i] \in S
  OBVIOUS
<1>4. after \in Seq(S) /\ n <= m
  BY <1>1 DEF Longer
<1>5. /\ new \in Seq(S)
      /\ Hooked(s[i]) => Len(new) = m + 1 /\ new[m + 1] = s[i]
      /\ ~Hooked(s[i]) => new = after
      /\ \A j \in 1..m : j \in 1..Len(new) /\ new[j] = after[j]
  <2>1. PICK r \in S : r = s[i]
    BY <1>3
  <2>2. /\ OnRead(after, r) \in Seq(S)
        /\ Hooked(r) => Len(OnRead(after, r)) = Len(after) + 1 /\ OnRead(after, r)[Len(after) + 1] = r
        /\ ~Hooked(r) => OnRead(after, r) = after
        /\ \A j \in 1..Len(after) : j \in 1..Len(OnRead(after, r)) /\ OnRead(after, r)[j] = after[j]
    BY <1>4, OnReadIs
  <2> QED BY <1>1, <1>2, <2>1, <2>2
<1>6. CASE ~Hooked(s[i])
  BY <1>2, <1>5, <1>6
<1>7. CASE Hooked(s[i])
  <2>1. Len(new) = m + 1 /\ new[m + 1] = s[i]
    BY <1>5, <1>7
  <2>2. \A j \in 1..n : new[j] = acc[j]
    <3> SUFFICES ASSUME NEW j \in 1..n PROVE new[j] = acc[j]
      OBVIOUS
    <3>1. j \in 1..m
      BY <1>4
    <3>2. after[j] = acc[j]
      BY <1>1 DEF Longer
    <3> QED BY <1>5, <3>1, <3>2
  <2>3. ASSUME NEW j \in (n + 1)..(m + 1) PROVE \E h \in 1..Len(s) : new[j] = s[h] /\ Hooked(s[h])
    <3>1. CASE j = m + 1
      BY <1>7, <2>1, <3>1
    <3>2. CASE j # m + 1
      <4>1. j \in (n + 1)..m /\ j \in 1..m
        BY <1>4, <3>2
      <4>2. \E h \in 1..Len(s) : after[j] = s[h] /\ Hooked(s[h])
        BY <1>1, <4>1 DEF Longer
      <4> QED BY <1>5, <4>1, <4>2
    <3> QED BY <3>1, <3>2
  <2>4. n <= m + 1
    BY <1>4
  <2> QED BY <1>1, <1>2, <1>5, <2>1, <2>2, <2>3, <2>4 DEF Longer
<1> QED
  BY <1>6, <1>7

LEMMA RecordedIs ==
  ASSUME NEW S, NEW acc \in Seq(S), NEW s \in Seq(S)
  PROVE  /\ Longer(S, acc, s, Recorded(acc, s))
         /\ Len(s) = 1 => Recorded(acc, s) = OnRead(acc, s[1])
<1>1. PICK n \in Nat : n = Len(s)
  OBVIOUS
<1> DEFINE Loop(f, m) == f = [i \in 0..m |-> IF i = 0 THEN acc ELSE OnRead(f[i - 1], s[i])]
<1>2. PICK f : f = (CHOOSE loop : Loop(loop, n))
  OBVIOUS
<1>3. Recorded(acc, s) = f[n]
  BY <1>1, <1>2 DEF Recorded
<1>4. Loop(f, n)
  <2> DEFINE Good == {m \in 0..n : \E g : Loop(g, m)}
  <2>1. 0 \in Good
    <3>1. PICK g : g = [k \in 0..0 |-> acc]
      OBVIOUS
    <3>2. \A k \in 0..0 : k = 0
      OBVIOUS
    <3>3. Loop(g, 0)
      BY <3>1, <3>2
    <3>4. 0 \in 0..n
      OBVIOUS
    <3> HIDE DEF Loop
    <3> QED BY <3>3, <3>4
  <2>2. ASSUME NEW m \in 0..(n - 1), m \in Good PROVE m + 1 \in Good
    <3>1. PICK g : Loop(g, m)
      BY <2>2
    <3>2. PICK next : next = OnRead(g[m], s[m + 1])
      OBVIOUS
    <3>3. PICK h : h = [k \in 0..(m + 1) |-> IF k = m + 1 THEN next ELSE g[k]]
      OBVIOUS
    <3>4. ASSUME NEW k \in 0..(m + 1)
          PROVE  h[k] = IF k = 0 THEN acc ELSE OnRead(h[k - 1], s[k])
      <4>1. CASE k = m + 1
        <5>1. h[k] = next /\ h[k - 1] = g[m] /\ k # 0
          BY <3>3, <4>1
        <5> QED BY <3>2, <4>1, <5>1
      <4>2. CASE k # m + 1 /\ k # 0
        <5>1. k \in 0..m /\ h[k] = g[k] /\ h[k - 1] = g[k - 1]
          BY <3>3, <4>2
        <5> QED BY <3>1, <4>2, <5>1
      <4>3. CASE k = 0
        <5>1. k \in 0..m /\ h[k] = g[k]
          BY <3>3, <4>3
        <5> QED BY <3>1, <4>3, <5>1
      <4> QED BY <4>1, <4>2, <4>3
    <3>5. h = [k \in 0..(m + 1) |-> h[k]]
      BY <3>3
    <3>6. Loop(h, m + 1)
      BY <3>4, <3>5
    <3>7. m + 1 \in 0..n
      OBVIOUS
    <3> QED BY <3>6, <3>7
  <2>3. n \in Good
    <3> HIDE DEF Good
    <3> QED BY <2>1, <2>2, UpwardFrom
  <2> QED BY <1>2, <2>3
<1>5. f[0] = acc /\ \A i \in 0..(n - 1) : f[i + 1] = OnRead(f[i], s[i + 1])
  <2>1. f[0] = acc
    BY <1>4
  <2>2. ASSUME NEW i \in 0..(n - 1) PROVE f[i + 1] = OnRead(f[i], s[i + 1])
    <3>1. i + 1 \in 0..n /\ i + 1 # 0 /\ (i + 1) - 1 = i
      OBVIOUS
    <3> QED BY <1>4, <3>1
  <2> QED BY <2>1, <2>2
<1> HIDE DEF Loop
<1> DEFINE Good == {i \in 0..n : Longer(S, acc, s, f[i])}
<1>6. 0 \in Good
  <2>1. Len(acc) \in Nat /\ (Len(acc) + 1)..Len(acc) = {}
    OBVIOUS
  <2>2. Longer(S, acc, s, acc)
    BY <2>1 DEF Longer
  <2> QED BY <1>5, <2>2
<1>7. ASSUME NEW i \in 0..(n - 1), i \in Good PROVE i + 1 \in Good
  <2>1. Longer(S, acc, s, f[i]) /\ i + 1 \in 0..n /\ i + 1 \in 1..Len(s)
    BY <1>1, <1>7
  <2>2. Longer(S, acc, s, f[i + 1])
    BY <1>5, <2>1, LongerStep
  <2> QED BY <2>1, <2>2
<1>8. n \in Good
  <2> HIDE DEF Good
  <2> QED BY <1>6, <1>7, UpwardFrom
<1>9. ASSUME n = 1 PROVE f[n] = OnRead(acc, s[1])
  <2>1. 0 \in 0..(n - 1)
    BY <1>9
  <2>2. f[0 + 1] = OnRead(f[0], s[0 + 1])
    BY <1>5, <2>1
  <2> QED BY <1>5, <1>9, <2>2
<1> QED
  BY <1>1, <1>3, <1>8, <1>9

\* A run of a set of offsets has every one of it, and there is one for each.
LEMMA RangesAre ==
  ASSUME NEW n \in Nat, NEW X \in SUBSET (0..n), NEW o \in Nat
  PROVE  /\ o \in X => Cardinality({r \in Ranges(X) : r[1] <= o /\ o <= r[2]}) = 1
         /\ o \notin X => Cardinality({r \in Ranges(X) : r[1] <= o /\ o <= r[2]}) = 0
<1>1. PICK In : In = {r \in Ranges(X) : r[1] <= o /\ o <= r[2]}
  OBVIOUS
<1>2. \A x \in X : x \in Nat /\ x <= n
  OBVIOUS
<1>3. \A r : r \in In <=> /\ r \in X \X X /\ r[1] <= r[2] /\ r[1]..r[2] \subseteq X
                          /\ r[1] - 1 \notin X /\ r[2] + 1 \notin X
                          /\ r[1] <= o /\ o <= r[2]
  BY <1>1 DEF Ranges
<1>4. ASSUME o \notin X PROVE In = {}
  <2> SUFFICES ASSUME NEW r \in In PROVE FALSE
    OBVIOUS
  <2>1. PICK a \in Nat, b \in Nat : a = r[1] /\ b = r[2]
    <3>1. r \in X \X X
      BY <1>3
    <3>2. r[1] \in X /\ r[2] \in X
      BY <3>1
    <3> QED BY <1>2, <3>2
  <2>2. o \in a..b
    BY <1>3, <2>1
  <2> QED BY <1>3, <1>4, <2>1, <2>2
<1>5. ASSUME o \in X PROVE \E r : In = {r}
  <2>1. PICK L : L = {a \in Nat : a <= o /\ a..o \subseteq X}
    OBVIOUS
  <2>2. PICK H : H = {b \in 0..n : o <= b /\ o..b \subseteq X}
    OBVIOUS
  <2>3. o \in L /\ L \in SUBSET Nat
    <3>1. o..o = {o}
      OBVIOUS
    <3>2. o \in L
      BY <1>5, <2>1, <3>1
    <3>3. \A a \in L : a \in Nat
      BY <2>1
    <3> QED BY <3>2, <3>3
  <2>4. o \in H /\ H \in SUBSET (0..n)
    <3>1. o..o = {o} /\ o \in 0..n
      BY <1>5
    <3>2. o \in H
      BY <1>5, <2>2, <3>1
    <3>3. \A b \in H : b \in 0..n
      BY <2>2
    <3> QED BY <3>2, <3>3
  <2>5. PICK a \in L : \A x \in L : a <= x
    <3>1. L # {}
      BY <2>3
    <3> QED BY <2>3, <3>1, LeastOf
  <2>6. PICK b \in H : \A x \in H : x <= b
    <3>1. H # {}
      BY <2>4
    <3> QED BY <2>4, <3>1, MaxIs
  <2>7. a \in Nat /\ a <= o /\ a..o \subseteq X
    BY <2>1, <2>5
  <2>8. b \in 0..n /\ o <= b /\ o..b \subseteq X
    BY <2>2, <2>6
  <2>9. a - 1 \notin X
    <3> SUFFICES ASSUME a - 1 \in X PROVE FALSE
      OBVIOUS
    <3>1. a - 1 \in Nat /\ a - 1 <= o
      BY <1>2, <2>7
    <3>2. (a - 1)..o \subseteq X
      <4>1. \A x \in (a - 1)..o : x = a - 1 \/ x \in a..o
        BY <2>7
      <4> QED BY <2>7, <4>1
    <3>3. a - 1 \in L
      BY <2>1, <3>1, <3>2
    <3>4. ~(a <= a - 1)
      BY <2>7
    <3> QED BY <2>5, <3>3, <3>4
  <2>10. b + 1 \notin X
    <3> SUFFICES ASSUME b + 1 \in X PROVE FALSE
      OBVIOUS
    <3>1. b + 1 \in 0..n /\ o <= b + 1
      BY <2>8
    <3>2. o..(b + 1) \subseteq X
      <4>1. \A x \in o..(b + 1) : x = b + 1 \/ x \in o..b
        BY <2>8
      <4> QED BY <2>8, <4>1
    <3>3. b + 1 \in H
      BY <2>2, <3>1, <3>2
    <3>4. ~(b + 1 <= b)
      BY <2>8
    <3> QED BY <2>6, <3>3, <3>4
  <2>11. a..b \subseteq X
    <3>1. \A x \in a..b : x \in a..o \/ x \in o..b
      BY <2>7, <2>8
    <3> QED BY <2>7, <2>8, <3>1
  <2>12. PICK r : r = <<a, b>>
    OBVIOUS
  <2>13. r[1] = a /\ r[2] = b /\ a \in X /\ b \in X /\ a <= b
    <3>1. a \in a..o /\ b \in o..b /\ a <= b
      BY <2>7, <2>8
    <3> QED BY <2>7, <2>8, <2>12, <3>1
  <2>14. r \in In
    BY <1>3, <2>7, <2>8, <2>9, <2>10, <2>11, <2>12, <2>13
  <2>15. ASSUME NEW q \in In PROVE q = r
    <3>8. q \in X \X X
      BY <1>3
    <3>9. q = <<q[1], q[2]>> /\ q[1] \in X /\ q[2] \in X
      BY <3>8
    <3>10. PICK c, d : c = q[1] /\ d = q[2]
      OBVIOUS
    <3>1. c = q[1] /\ d = q[2] /\ c \in Nat /\ d \in Nat
      BY <1>2, <3>9, <3>10
    <3>2. c..d \subseteq X /\ c - 1 \notin X /\ d + 1 \notin X /\ c <= o /\ o <= d
      BY <1>3, <3>1
    <3>3. ~(a < c)
      <4> SUFFICES ASSUME a < c PROVE FALSE
        OBVIOUS
      <4>1. c - 1 \in a..b
        BY <2>7, <2>8, <3>1, <3>2
      <4> QED BY <2>11, <3>2, <4>1
    <3>4. ~(c < a)
      <4> SUFFICES ASSUME c < a PROVE FALSE
        OBVIOUS
      <4>1. a - 1 \in c..d
        BY <2>7, <3>1, <3>2
      <4> QED BY <2>9, <3>2, <4>1
    <3>5. ~(b < d)
      <4> SUFFICES ASSUME b < d PROVE FALSE
        OBVIOUS
      <4>1. b + 1 \in c..d
        BY <2>8, <3>1, <3>2
      <4> QED BY <2>10, <3>2, <4>1
    <3>6. ~(d < b)
      <4> SUFFICES ASSUME d < b PROVE FALSE
        OBVIOUS
      <4>1. d + 1 \in a..b
        BY <2>7, <2>8, <3>1, <3>2
      <4> QED BY <2>11, <3>2, <4>1
    <3>7. a = c /\ b = d
      BY <2>7, <2>8, <3>1, <3>3, <3>4, <3>5, <3>6
    <3> QED BY <2>12, <3>7, <3>9, <3>10
  <2> QED BY <2>14, <2>15
<1>6. o \in X => Cardinality(In) = 1
  BY <1>5, FS_Singleton
<1>7. o \notin X => Cardinality(In) = 0
  BY <1>4, FS_EmptySet
<1> QED
  BY <1>1, <1>6, <1>7

\* What is recorded of the first far of the reads: reads that the hook saw,
\* and each for the first time behind earlier ones only.
RecordedTo(reads, far, acc) ==
  /\ \A j \in 1..Len(acc) : \E i \in 1..far : acc[j] = reads[i] /\ Hooked(reads[i])
  /\ \A i \in 1..far : Hooked(reads[i]) =>
       \E j \in 1..Len(acc) : /\ acc[j] = reads[i]
                              /\ \A k \in 1..(j - 1) : \E h \in 1..(i - 1) : acc[k] = reads[h]

ReadsInv ==
  input.kind = "reads" =>
    /\ input.reads \in Seq(MCReads) /\ Len(input.reads) = 3
    /\ input.far \in 0..3 /\ input.at \in 0..input.far
    /\ input.accesses \in Seq(MCReads)
    /\ RecordedTo(input.reads, input.far, input.accesses)

\* A read that touches the buffer begins in it, and the hook sees it.
LEMMA TouchingHooked ==
  ASSUME From \subseteq Nat, NEW r \in MCReads, NEW o \in Buffer, o \in OffsetsOf(r)
  PROVE  Hooked(r)
<1>1. PICK a \in From, n \in {1, 2}, pc \in {0, 1} : r = [at |-> a, size |-> n, pc |-> pc]
  BY DEF MCReads
<1>2. r.at = a /\ a \in Nat
  BY <1>1
<1>3. a <= o
  BY <1>2 DEF OffsetsOf
<1>4. BufferLength \in Nat /\ o \in 0..(BufferLength - 1)
  BY BufferAssumption DEF Buffer
<1>5. a \in 0..(BufferLength - 1)
  BY <1>2, <1>3, <1>4
<1> QED
  BY <1>2, <1>5 DEF Hooked, Buffer

LEMMA ReadsRight ==
  ASSUME From \subseteq Nat, NEW reads \in Seq(MCReads), NEW acc \in Seq(MCReads),
         RecordedTo(reads, Len(reads), acc)
  PROVE  ReadRight(reads, acc)
<1>1. PICK n \in Nat, m \in Nat : n = Len(reads) /\ m = Len(acc)
  OBVIOUS
<1>2. DOMAIN reads = 1..n /\ DOMAIN acc = 1..m
  BY <1>1
<1>3. /\ \A j \in 1..m : \E i \in 1..n : acc[j] = reads[i] /\ Hooked(reads[i])
      /\ \A i \in 1..n : Hooked(reads[i]) =>
           \E j \in 1..m : /\ acc[j] = reads[i]
                           /\ \A k \in 1..(j - 1) : \E h \in 1..(i - 1) : acc[k] = reads[h]
  BY <1>1 DEF RecordedTo
<1>4. ToSet(acc) = {acc[j] : j \in 1..m}
  BY <1>2 DEF ToSet
<1>5. BufferLength \in Nat /\ BufferLength - 1 \in Nat /\ Buffer = 0..(BufferLength - 1)
  BY BufferAssumption DEF Buffer
<1>6. ASSUME NEW i \in 1..n, NEW o \in Buffer, o \in OffsetsOf(reads[i]) PROVE Hooked(reads[i])
  <2>1. reads[i] \in MCReads
    BY <1>1
  <2> QED BY <1>6, <2>1, TouchingHooked
<1>7. PICK X : X = OffsetsRead(acc)
  OBVIOUS
<1>8. ASSUME NEW o \in Buffer
      PROVE  o \in X <=> \E i \in 1..n : o \in OffsetsOf(reads[i])
  <2>1. o \in X <=> \E j \in 1..m : o \in OffsetsOf(acc[j])
    <3>1. PICK S : S = ToSet(acc)
      OBVIOUS
    <3>2. PICK all : all = UNION {OffsetsOf(r) : r \in S}
      OBVIOUS
    <3>3. o \in all <=> \E r \in S : o \in OffsetsOf(r)
      BY <3>2
    <3>4. X = all \cap Buffer
      BY <1>7, <3>1, <3>2 DEF OffsetsRead
    <3>5. (\E r \in S : o \in OffsetsOf(r)) <=> \E j \in 1..m : o \in OffsetsOf(acc[j])
      BY <1>4, <3>1
    <3> QED BY <3>3, <3>4, <3>5
  <2>2. ASSUME NEW j \in 1..m, o \in OffsetsOf(acc[j]) PROVE \E i \in 1..n : o \in OffsetsOf(reads[i])
    BY <1>3, <2>2
  <2>3. ASSUME NEW i \in 1..n, o \in OffsetsOf(reads[i]) PROVE \E j \in 1..m : o \in OffsetsOf(acc[j])
    BY <1>3, <1>6, <2>3
  <2> QED BY <2>1, <2>2, <2>3
<1>9. ASSUME NEW o \in Buffer
      PROVE  LET Touching == {i \in DOMAIN reads : o \in OffsetsOf(reads[i])}
             IN  /\ Cardinality({r \in ReadRanges(acc) : r[1] <= o /\ o <= r[2]}) = (IF Touching = {} THEN 0 ELSE 1)
                 /\ Cardinality({r \in UnreadRanges(acc) : r[1] <= o /\ o <= r[2]}) = (IF Touching = {} THEN 1 ELSE 0)
  <2>1. PICK T : T = {i \in DOMAIN reads : o \in OffsetsOf(reads[i])}
    OBVIOUS
  <2>2. T # {} <=> o \in X
    BY <1>2, <1>8, <2>1
  <2>3. PICK last \in Nat : last = BufferLength - 1
    BY <1>5
  <2>4. PICK Y : Y = Buffer \ X
    OBVIOUS
  <2>5. X \in SUBSET (0..last) /\ Y \in SUBSET (0..last) /\ o \in Nat
    <3>1. Buffer = 0..last
      BY <1>5, <2>3
    <3>2. X \subseteq Buffer
      BY <1>7 DEF OffsetsRead
    <3>3. o \in Nat
      BY <3>1
    <3> QED BY <2>4, <3>1, <3>2, <3>3
  <2>6. /\ o \in X => Cardinality({r \in Ranges(X) : r[1] <= o /\ o <= r[2]}) = 1
        /\ o \notin X => Cardinality({r \in Ranges(X) : r[1] <= o /\ o <= r[2]}) = 0
    BY <2>5, RangesAre
  <2>7. /\ o \in Y => Cardinality({r \in Ranges(Y) : r[1] <= o /\ o <= r[2]}) = 1
        /\ o \notin Y => Cardinality({r \in Ranges(Y) : r[1] <= o /\ o <= r[2]}) = 0
    BY <2>5, RangesAre
  <2>8. ReadRanges(acc) = Ranges(X) /\ UnreadRanges(acc) = Ranges(Y)
    BY <1>7, <2>4 DEF ReadRanges, UnreadRanges
  <2>9. o \in Y <=> o \notin X
    BY <2>4
  <2> QED BY <2>1, <2>2, <2>6, <2>7, <2>8, <2>9
<1>10. ASSUME NEW o \in Buffer, NEW i \in 1..n
       PROVE  o \in ReadsAt(acc, reads[i].pc)
                <=> \E j \in 1..n : o \in OffsetsOf(reads[j]) /\ reads[j].pc = reads[i].pc
  <2>1. PICK pc : pc = reads[i].pc
    OBVIOUS
  <2>2. o \in ReadsAt(acc, pc) <=> \E j \in 1..m : acc[j].pc = pc /\ o \in OffsetsOf(acc[j])
    <3>1. PICK S : S = {r \in ToSet(acc) : r.pc = pc}
      OBVIOUS
    <3>2. PICK all : all = UNION {OffsetsOf(r) : r \in S}
      OBVIOUS
    <3>3. o \in all <=> \E r \in S : o \in OffsetsOf(r)
      BY <3>2
    <3>4. ReadsAt(acc, pc) = all \cap Buffer
      BY <3>1, <3>2 DEF ReadsAt
    <3>5. (\E r \in S : o \in OffsetsOf(r)) <=> \E j \in 1..m : acc[j].pc = pc /\ o \in OffsetsOf(acc[j])
      BY <1>4, <3>1
    <3> QED BY <3>3, <3>4, <3>5
  <2>3. ASSUME NEW j \in 1..m, acc[j].pc = pc, o \in OffsetsOf(acc[j])
        PROVE  \E h \in 1..n : o \in OffsetsOf(reads[h]) /\ reads[h].pc = pc
    <3>1. PICK h \in 1..n : acc[j] = reads[h]
      BY <1>3
    <3> QED BY <2>3, <3>1
  <2>4. ASSUME NEW h \in 1..n, o \in OffsetsOf(reads[h]), reads[h].pc = pc
        PROVE  \E j \in 1..m : acc[j].pc = pc /\ o \in OffsetsOf(acc[j])
    <3>1. PICK j \in 1..m : acc[j] = reads[h]
      BY <1>3, <1>6, <2>4
    <3> QED BY <2>4, <3>1
  <2> QED BY <2>1, <2>2, <2>3, <2>4
<1>11. ASSUME NEW o \in Buffer
       PROVE  LET Touching == {i \in DOMAIN reads : o \in OffsetsOf(reads[i])}
              IN  FirstRead(acc, o) = {reads[i] : i \in {i \in Touching : i = Min(Touching)}}
  <2>1. PICK T : T = {i \in DOMAIN reads : o \in OffsetsOf(reads[i])}
    OBVIOUS
  <2>2. PICK U : U = {j \in DOMAIN acc : o \in OffsetsOf(acc[j])}
    OBVIOUS
  <2>3. FirstRead(acc, o) = IF U = {} THEN {} ELSE {acc[Min(U)]}
    BY <2>2 DEF FirstRead
  <2>4. CASE T = {}
    <3>1. U = {}
      <4> SUFFICES ASSUME NEW j \in U PROVE FALSE
        OBVIOUS
      <4>1. PICK i \in 1..n : acc[j] = reads[i]
        BY <1>2, <1>3, <2>2
      <4> QED BY <1>2, <2>1, <2>2, <2>4, <4>1
    <3> QED BY <2>1, <2>3, <2>4, <3>1
  <2>5. CASE T # {}
    <3>1. T \in SUBSET Nat
      BY <1>2, <2>1
    <3>2. PICK i : i = Min(T)
      OBVIOUS
    <3>3. i \in T /\ \A x \in T : i <= x
      BY <2>5, <3>1, <3>2, MinIs
    <3>4. i \in 1..n /\ o \in OffsetsOf(reads[i])
      BY <1>2, <2>1, <3>3
    <3>5. PICK j \in 1..m : /\ acc[j] = reads[i]
                            /\ \A k \in 1..(j - 1) : \E h \in 1..(i - 1) : acc[k] = reads[h]
      BY <1>3, <1>6, <3>4
    <3>6. j \in U
      BY <1>2, <2>2, <3>4, <3>5
    <3>7. \A k \in 1..(j - 1) : k \notin U
      <4> SUFFICES ASSUME NEW k \in 1..(j - 1), k \in U PROVE FALSE
        OBVIOUS
      <4>1. PICK h \in 1..(i - 1) : acc[k] = reads[h]
        BY <3>5
      <4>2. h \in 1..n /\ ~(i <= h)
        BY <3>4
      <4>3. h \in T
        BY <1>2, <2>1, <2>2, <4>1, <4>2
      <4> QED BY <3>3, <4>2, <4>3
    <3>8. U \in SUBSET Nat /\ U # {}
      BY <1>2, <2>2, <3>6
    <3>9. PICK u : u = Min(U)
      OBVIOUS
    <3>10. u \in U /\ u <= j
      BY <3>6, <3>8, <3>9, MinIs
    <3>11. u \in 1..m
      BY <1>2, <2>2, <3>10
    <3>12. u = j
      <4> SUFFICES ASSUME u # j PROVE FALSE
        OBVIOUS
      <4>1. u \in 1..(j - 1)
        BY <3>10, <3>11
      <4> QED BY <3>7, <3>10, <4>1
    <3>13. FirstRead(acc, o) = {reads[i]}
      BY <2>3, <3>5, <3>8, <3>9, <3>12
    <3>14. {x \in T : x = Min(T)} = {i}
      BY <3>2, <3>3
    <3>15. {reads[x] : x \in {y \in T : y = Min(T)}} = {reads[i]}
      BY <3>14
    <3> QED BY <2>1, <3>13, <3>15
  <2> QED BY <2>4, <2>5
<1>12. SUFFICES ASSUME NEW o \in Buffer
                PROVE  LET Touching == {i \in DOMAIN reads : o \in OffsetsOf(reads[i])}
                       IN  /\ Cardinality({r \in ReadRanges(acc) : r[1] <= o /\ o <= r[2]}) = (IF Touching = {} THEN 0 ELSE 1)
                           /\ Cardinality({r \in UnreadRanges(acc) : r[1] <= o /\ o <= r[2]}) = (IF Touching = {} THEN 1 ELSE 0)
                           /\ \A i \in DOMAIN reads :
                                o \in ReadsAt(acc, reads[i].pc) <=> \E j \in Touching : reads[j].pc = reads[i].pc
                           /\ FirstRead(acc, o) = {reads[i] : i \in {i \in Touching : i = Min(Touching)}}
  BY DEF ReadRight
<1>13. PICK T : T = {i \in DOMAIN reads : o \in OffsetsOf(reads[i])}
  OBVIOUS
<1>14. \A i \in DOMAIN reads : o \in ReadsAt(acc, reads[i].pc) <=> \E j \in T : reads[j].pc = reads[i].pc
  <2> SUFFICES ASSUME NEW i \in DOMAIN reads
               PROVE  o \in ReadsAt(acc, reads[i].pc) <=> \E j \in T : reads[j].pc = reads[i].pc
    OBVIOUS
  <2>1. o \in ReadsAt(acc, reads[i].pc)
          <=> \E j \in 1..n : o \in OffsetsOf(reads[j]) /\ reads[j].pc = reads[i].pc
    BY <1>2, <1>10
  <2> QED BY <1>2, <1>13, <2>1
<1>15. Cardinality({r \in ReadRanges(acc) : r[1] <= o /\ o <= r[2]}) = (IF T = {} THEN 0 ELSE 1)
  BY <1>9, <1>13
<1>16. Cardinality({r \in UnreadRanges(acc) : r[1] <= o /\ o <= r[2]}) = (IF T = {} THEN 1 ELSE 0)
  BY <1>9, <1>13
<1>17. FirstRead(acc, o) = {reads[i] : i \in {i \in T : i = Min(T)}}
  BY <1>11, <1>13
<1> QED
  BY <1>13, <1>14, <1>15, <1>16, <1>17

LEMMA ReadsInit == ASSUME MCInit PROVE ReadsInv
<1> SUFFICES ASSUME input.kind = "reads"
             PROVE  /\ input.reads \in Seq(MCReads) /\ Len(input.reads) = 3
                    /\ input.far \in 0..3 /\ input.at \in 0..input.far
                    /\ input.accesses \in Seq(MCReads)
                    /\ RecordedTo(input.reads, input.far, input.accesses)
  BY DEF ReadsInv
<1>1. PICK reads \in [1..3 -> MCReads] :
        input = [kind |-> "reads", reads |-> reads, at |-> 0, far |-> 0, accesses |-> <<>>]
  <2>1. TablesInit
    <3>1. ASSUME input = [kind |-> "trace"] PROVE FALSE
      BY <3>1
    <3> QED BY <3>1 DEF MCInit
  <2>2. ASSUME input = [kind |-> "symbols", table |-> <<>>] PROVE FALSE
    BY <2>2
  <2>3. ASSUME NEW modules, input = [kind |-> "coverage", modules |-> modules, raw |-> {}] PROVE FALSE
    BY <2>3
  <2>4. ASSUME NEW a, NEW b, input = [kind |-> "engines", a |-> a, b |-> b] PROVE FALSE
    BY <2>4
  <2>5. ASSUME input = [kind |-> "segments", segments |-> <<>>] PROVE FALSE
    BY <2>5
  <2> QED BY <2>1, <2>2, <2>3, <2>4, <2>5 DEF TablesInit
<1>2. input.reads = reads /\ input.at = 0 /\ input.far = 0 /\ input.accesses = <<>>
  BY <1>1
<1>3. reads \in Seq(MCReads) /\ Len(reads) = 3
  <2>1. 3 \in Nat
    OBVIOUS
  <2>2. reads \in Seq(MCReads)
    BY <2>1, SeqDef
  <2>3. DOMAIN reads = 1..3
    OBVIOUS
  <2> QED BY <2>2, <2>3
<1>4. <<>> \in Seq(MCReads) /\ Len(<<>>) = 0
  OBVIOUS
<1>5. RecordedTo(reads, 0, <<>>)
  <2>1. \A j \in 1..0 : FALSE
    OBVIOUS
  <2> QED BY <1>4, <2>1 DEF RecordedTo
<1> QED
  BY <1>2, <1>3, <1>4, <1>5

\* The program reads on: it comes to a read for the first time, or to one it
\* went back behind.
LEMMA ReadsOn ==
  ASSUME NEW reads \in Seq(MCReads), NEW far \in Nat, NEW acc \in Seq(MCReads), RecordedTo(reads, far, acc),
         NEW k \in 1..Len(reads), k <= far + 1
  PROVE  RecordedTo(reads, IF k > far THEN k ELSE far, OnRead(acc, reads[k]))
<1>11. PICK r : r = reads[k]
  OBVIOUS
<1>12. PICK new : new = OnRead(acc, r)
  OBVIOUS
<1>1. new = OnRead(acc, r) /\ r = reads[k]
  BY <1>11, <1>12
<1>2. PICK n \in Nat : n = Len(acc)
  OBVIOUS
<1>3. /\ new \in Seq(MCReads)
      /\ Hooked(r) => Len(new) = n + 1 /\ new[n + 1] = r
      /\ ~Hooked(r) => new = acc
      /\ \A j \in 1..n : j \in 1..Len(new) /\ new[j] = acc[j]
  <2>1. r \in MCReads
    BY <1>1
  <2>2. /\ OnRead(acc, r) \in Seq(MCReads)
        /\ Hooked(r) => Len(OnRead(acc, r)) = Len(acc) + 1 /\ OnRead(acc, r)[Len(acc) + 1] = r
        /\ ~Hooked(r) => OnRead(acc, r) = acc
        /\ \A j \in 1..Len(acc) : j \in 1..Len(OnRead(acc, r)) /\ OnRead(acc, r)[j] = acc[j]
    BY <2>1, OnReadIs
  <2> QED BY <1>2, <1>12, <2>2
<1>4. PICK far2 \in Nat : far2 = (IF k > far THEN k ELSE far)
  <2>1. k \in Nat
    OBVIOUS
  <2> QED BY <2>1
<1>5. far <= far2 /\ k <= far2 /\ (far2 = far \/ (far2 = far + 1 /\ k = far + 1))
  <2>1. k \in Nat
    OBVIOUS
  <2>2. CASE k > far
    <3>1. far2 = k /\ k = far + 1
      BY <1>4, <2>1, <2>2
    <3> QED BY <2>1, <3>1
  <2>3. CASE ~(k > far)
    <3>1. far2 = far
      BY <1>4, <2>3
    <3> QED BY <2>1, <2>3, <3>1
  <2> QED BY <2>2, <2>3
<1>6. /\ \A j \in 1..n : \E i \in 1..far : acc[j] = reads[i] /\ Hooked(reads[i])
      /\ \A i \in 1..far : Hooked(reads[i]) =>
           \E j \in 1..n : /\ acc[j] = reads[i]
                           /\ \A x \in 1..(j - 1) : \E h \in 1..(i - 1) : acc[x] = reads[h]
  BY <1>2 DEF RecordedTo
<1>7. \A j \in 1..Len(new) : j \in 1..n \/ (j = n + 1 /\ Hooked(r) /\ new[j] = r)
  BY <1>2, <1>3
<1>8. ASSUME NEW j \in 1..Len(new) PROVE \E i \in 1..far2 : new[j] = reads[i] /\ Hooked(reads[i])
  <2>1. CASE j \in 1..n
    <3>1. PICK i \in 1..far : acc[j] = reads[i] /\ Hooked(reads[i])
      BY <1>6, <2>1
    <3>2. i \in 1..far2
      BY <1>5
    <3> QED BY <1>3, <2>1, <3>1, <3>2
  <2>2. CASE j = n + 1 /\ Hooked(r) /\ new[j] = r
    <3>1. k \in 1..far2
      BY <1>5
    <3> QED BY <1>1, <2>2, <3>1
  <2> QED BY <1>7, <2>1, <2>2
<1>9. ASSUME NEW i \in 1..far2, Hooked(reads[i])
      PROVE  \E j \in 1..Len(new) : /\ new[j] = reads[i]
                                    /\ \A x \in 1..(j - 1) : \E h \in 1..(i - 1) : new[x] = reads[h]
  <2>1. CASE i \in 1..far
    <3>1. PICK j \in 1..n : /\ acc[j] = reads[i]
                            /\ \A x \in 1..(j - 1) : \E h \in 1..(i - 1) : acc[x] = reads[h]
      BY <1>6, <1>9, <2>1
    <3>2. j \in 1..Len(new) /\ new[j] = reads[i]
      BY <1>3, <3>1
    <3>3. \A x \in 1..(j - 1) : new[x] = acc[x]
      <4>1. \A x \in 1..(j - 1) : x \in 1..n
        OBVIOUS
      <4> QED BY <1>3, <4>1
    <3>4. \A x \in 1..(j - 1) : \E h \in 1..(i - 1) : new[x] = reads[h]
      BY <3>1, <3>3
    <3> QED BY <3>2, <3>4
  <2>2. CASE i \notin 1..far
    <3>1. i = k /\ i - 1 = far
      BY <1>5, <2>2
    <3>2. Len(new) = n + 1 /\ new[n + 1] = reads[i]
      BY <1>1, <1>3, <1>9, <3>1
    <3>3. \A x \in 1..n : \E h \in 1..(i - 1) : new[x] = reads[h]
      <4> SUFFICES ASSUME NEW x \in 1..n PROVE \E h \in 1..(i - 1) : new[x] = reads[h]
        OBVIOUS
      <4>1. PICK h \in 1..far : acc[x] = reads[h]
        BY <1>6
      <4>2. new[x] = acc[x]
        BY <1>3
      <4> QED BY <3>1, <4>1, <4>2
    <3>4. n + 1 \in 1..Len(new) /\ (n + 1) - 1 = n
      BY <3>2
    <3> QED BY <3>2, <3>3, <3>4
  <2> QED BY <2>1, <2>2
<1>10. RecordedTo(reads, far2, new)
  BY <1>8, <1>9 DEF RecordedTo
<1> QED
  BY <1>1, <1>4, <1>10

\* The program went back: what it does again is recorded again.
LEMMA ReadsAgain ==
  ASSUME NEW reads \in Seq(MCReads), NEW far \in 0..Len(reads), NEW acc \in Seq(MCReads), RecordedTo(reads, far, acc),
         NEW to \in 0..far, NEW from \in 0..to
  PROVE  /\ Recorded(acc, SubSeq(reads, from + 1, to)) \in Seq(MCReads)
         /\ RecordedTo(reads, far, Recorded(acc, SubSeq(reads, from + 1, to)))
<1>1. PICK s : s = SubSeq(reads, from + 1, to)
  OBVIOUS
<1>2. s \in Seq(MCReads) /\ Len(s) = to - from /\ \A i \in 1..(to - from) : s[i] = reads[from + i]
  <2>1. from \in Nat /\ to \in from..Len(reads)
    <3>1. PICK n \in Nat : n = Len(reads)
      OBVIOUS
    <3>2. far \in 0..n
      BY <3>1
    <3> QED BY <3>1, <3>2
  <2> QED BY <1>1, <2>1, PartIs
<1>3. PICK new : new = Recorded(acc, s)
  OBVIOUS
<1>4. Longer(MCReads, acc, s, new)
  BY <1>2, <1>3, RecordedIs
<1>5. PICK n \in Nat, m \in Nat : n = Len(acc) /\ m = Len(new)
  BY <1>4 DEF Longer
<1>6. new \in Seq(MCReads) /\ n <= m /\ \A j \in 1..n : new[j] = acc[j]
  BY <1>4, <1>5 DEF Longer
<1>7. /\ \A j \in 1..n : \E i \in 1..far : acc[j] = reads[i] /\ Hooked(reads[i])
      /\ \A i \in 1..far : Hooked(reads[i]) =>
           \E j \in 1..n : /\ acc[j] = reads[i]
                           /\ \A x \in 1..(j - 1) : \E h \in 1..(i - 1) : acc[x] = reads[h]
  BY <1>5 DEF RecordedTo
<1>8. ASSUME NEW j \in 1..m PROVE \E i \in 1..far : new[j] = reads[i] /\ Hooked(reads[i])
  <2>1. CASE j \in 1..n
    BY <1>6, <1>7, <2>1
  <2>2. CASE j \notin 1..n
    <3>1. j \in (Len(acc) + 1)..Len(new)
      BY <1>5, <2>2
    <3>2. PICK i \in 1..Len(s) : new[j] = s[i] /\ Hooked(s[i])
      BY <1>4, <3>1 DEF Longer
    <3>3. i \in 1..(to - from) /\ from + i \in 1..far
      BY <1>2
    <3>4. s[i] = reads[from + i]
      BY <1>2, <3>3
    <3> QED BY <3>2, <3>3, <3>4
  <2> QED BY <2>1, <2>2
<1>9. ASSUME NEW i \in 1..far, Hooked(reads[i])
      PROVE  \E j \in 1..m : /\ new[j] = reads[i]
                             /\ \A x \in 1..(j - 1) : \E h \in 1..(i - 1) : new[x] = reads[h]
  <2>1. PICK j \in 1..n : /\ acc[j] = reads[i]
                          /\ \A x \in 1..(j - 1) : \E h \in 1..(i - 1) : acc[x] = reads[h]
    BY <1>7, <1>9
  <2>2. j \in 1..m /\ new[j] = reads[i]
    BY <1>6, <2>1
  <2>3. \A x \in 1..(j - 1) : x \in 1..n
    OBVIOUS
  <2>4. \A x \in 1..(j - 1) : new[x] = acc[x]
    BY <1>6, <2>3
  <2>5. \A x \in 1..(j - 1) : \E h \in 1..(i - 1) : new[x] = reads[h]
    BY <2>1, <2>4
  <2> QED BY <2>2, <2>5
<1>10. RecordedTo(reads, far, new)
  BY <1>5, <1>8, <1>9 DEF RecordedTo
<1> QED
  BY <1>1, <1>3, <1>6, <1>10

LEMMA ReadsNext ==
  ASSUME ~Late, IsInput(input), ReadsInv, [MCNext]_<<input, pvars>> PROVE ReadsInv'
<1> SUFFICES ASSUME input'.kind = "reads"
             PROVE  /\ input'.reads \in Seq(MCReads) /\ Len(input'.reads) = 3
                    /\ input'.far \in 0..3 /\ input'.at \in 0..input'.far
                    /\ input'.accesses \in Seq(MCReads)
                    /\ RecordedTo(input'.reads, input'.far, input'.accesses)
  BY DEF ReadsInv
<1>1. input.kind = "reads"
  BY KindStays
<1>2. PICK i : i = input
  OBVIOUS
<1>9. PICK reads, far, at, acc : reads = i.reads /\ far = i.far /\ at = i.at /\ acc = i.accesses
  OBVIOUS
<1>3. /\ reads \in Seq(MCReads) /\ far \in 0..3 /\ at \in 0..far /\ acc \in Seq(MCReads)
      /\ reads = i.reads /\ far = i.far /\ at = i.at /\ acc = i.accesses
      /\ Len(reads) = 3 /\ RecordedTo(reads, far, acc)
  BY <1>1, <1>2, <1>9 DEF ReadsInv
<1>4. i = [kind |-> "reads", reads |-> reads, at |-> at, far |-> far, accesses |-> acc]
  BY <1>1, <1>2, <1>3 DEF IsInput
<1>5. CASE input' = input
  BY <1>2, <1>3, <1>5
<1>6. CASE Reads
  <2>1. PICK k : k = at + 1
    OBVIOUS
  <2>2. at < 3 /\ k \in 1..3 /\ k <= far + 1
    <3>1. at < 3
      BY <1>2, <1>3, <1>6 DEF Reads
    <3> QED BY <1>3, <2>1, <3>1
  <2>3. PICK far2 : far2 = (IF k > far THEN k ELSE far)
    OBVIOUS
  <2>4. far2 \in 0..3 /\ k \in 0..far2
    BY <1>3, <2>2, <2>3
  <2>5. PICK new : new = Recorded(acc, <<reads[k]>>)
    OBVIOUS
  <2>6. input' = [i EXCEPT !.at = k, !.far = far2, !.accesses = new]
    BY <1>2, <1>3, <1>6, <2>1, <2>3, <2>5 DEF Reads
  <2>7. PICK j : j = [i EXCEPT !.at = k, !.far = far2, !.accesses = new]
    OBVIOUS
  <2>8. j = [kind |-> "reads", reads |-> reads, at |-> k, far |-> far2, accesses |-> new]
    BY <1>4, <2>7
  <2>13. j.reads = reads /\ j.at = k /\ j.far = far2 /\ j.accesses = new
    BY <2>8
  <2>14. input' = j
    BY <2>6, <2>7
  <2>9. input'.reads = reads /\ input'.at = k /\ input'.far = far2 /\ input'.accesses = new
    BY <2>13, <2>14
  <2>10. PICK r \in MCReads : r = reads[k]
    <3>1. k \in 1..Len(reads)
      BY <1>3, <2>2
    <3> QED BY <1>3, <3>1
  <2>11. new = OnRead(acc, r) /\ new \in Seq(MCReads)
    <3>1. PICK s : s = <<r>>
      OBVIOUS
    <3>2. s \in Seq(MCReads) /\ Len(s) = 1 /\ s[1] = r
      BY <3>1
    <3>5. s \in Seq(MCReads) /\ acc \in Seq(MCReads)
      BY <1>3, <3>2
    <3>4. Len(s) = 1 => Recorded(acc, s) = OnRead(acc, s[1])
      BY <3>5, RecordedIs
    <3>3. new = OnRead(acc, r)
      BY <2>5, <2>10, <3>1, <3>2, <3>4
    <3> QED BY <3>3, <3>5, OnReadIs
  <2>12. RecordedTo(reads, far2, new)
    <3>1. far \in Nat /\ k \in 1..Len(reads) /\ k <= far + 1
      BY <1>3, <2>2
    <3>2. RecordedTo(reads, IF k > far THEN k ELSE far, OnRead(acc, reads[k]))
      BY <1>3, <3>1, ReadsOn
    <3> QED BY <2>3, <2>10, <2>11, <3>2
  <2> QED BY <1>3, <2>4, <2>9, <2>11, <2>12
<1>7. CASE ReplaysReads
  <2>1. PICK k \in 0..(at - 1) : \E from \in 0..k :
          input' = [i EXCEPT !.at = k, !.accesses = Recorded(@, SubSeq(reads, from + 1, k))]
    BY <1>2, <1>3, <1>7 DEF ReplaysReads
  <2>9. PICK from \in 0..k : input' = [i EXCEPT !.at = k, !.accesses = Recorded(@, SubSeq(reads, from + 1, k))]
    BY <2>1
  <2>2. PICK new : new = Recorded(acc, SubSeq(reads, from + 1, k))
    OBVIOUS
  <2>3. PICK j : j = [i EXCEPT !.at = k, !.accesses = new]
    OBVIOUS
  <2>4. j = [kind |-> "reads", reads |-> reads, at |-> k, far |-> far, accesses |-> new]
    BY <1>4, <2>3
  <2>5. input' = j
    BY <1>3, <2>9, <2>2, <2>3
  <2>6. input'.reads = reads /\ input'.at = k /\ input'.far = far /\ input'.accesses = new
    BY <2>4, <2>5
  <2>10. k \in 0..(at - 1)
    OBVIOUS
  <2>7. k \in 0..far /\ far \in 0..Len(reads)
    BY <1>3, <2>10
  <2>8. new \in Seq(MCReads) /\ RecordedTo(reads, far, new)
    BY <1>3, <2>2, <2>7, ReadsAgain
  <2> QED BY <1>3, <2>6, <2>7, <2>8
<1>8. input' = input \/ Reads \/ ReplaysReads
  <2>1. ASSUME MCNext PROVE input' = input \/ Reads \/ ReplaysReads
    <3>1. input.kind # "trace" /\ input.kind # "symbols" /\ input.kind # "coverage"
          /\ input.kind # "engines" /\ input.kind # "segments"
      BY <1>1
    <3> QED BY <2>1, <3>1 DEF MCNext, TablesNext, Extend, OnBlock, EnginesStep, AddSegment
  <2> QED BY <2>1
<1> QED
  BY <1>5, <1>6, <1>7, <1>8

LEMMA ReadsAttributed ==
  ASSUME From \subseteq Nat, ReadsInv, input.kind = "reads"
  PROVE  ReadRight(SubSeq(input.reads, 1, input.far), input.accesses)
<1>1. PICK reads \in Seq(MCReads), far \in 0..3, acc \in Seq(MCReads) :
        /\ reads = input.reads /\ far = input.far /\ acc = input.accesses
        /\ Len(reads) = 3 /\ RecordedTo(reads, far, acc)
  <2>1. PICK reads, far, acc : reads = input.reads /\ far = input.far /\ acc = input.accesses
    OBVIOUS
  <2> QED BY <2>1 DEF ReadsInv
<1>2. PICK s : s = SubSeq(reads, 0 + 1, far)
  OBVIOUS
<1>3. s \in Seq(MCReads) /\ Len(s) = far /\ \A i \in 1..far : s[i] = reads[i]
  <2>1. PICK zero \in Nat : zero = 0
    OBVIOUS
  <2>2. far \in zero..Len(reads) /\ far - zero = far /\ \A i \in 1..far : zero + i = i
    BY <1>1, <2>1
  <2>3. /\ SubSeq(reads, zero + 1, far) \in Seq(MCReads) /\ Len(SubSeq(reads, zero + 1, far)) = far - zero
        /\ \A i \in 1..(far - zero) : SubSeq(reads, zero + 1, far)[i] = reads[zero + i]
    BY <2>2, PartIs
  <2> QED BY <1>2, <2>1, <2>2, <2>3
<1>4. RecordedTo(s, Len(s), acc)
  <2>1. \A j \in 1..Len(acc) : \E i \in 1..far : acc[j] = reads[i] /\ Hooked(reads[i])
    BY <1>1 DEF RecordedTo
  <2>2. ASSUME NEW i \in 1..far, Hooked(s[i])
        PROVE  \E j \in 1..Len(acc) : /\ acc[j] = s[i]
                                      /\ \A k \in 1..(j - 1) : \E h \in 1..(i - 1) : acc[k] = s[h]
    <3>1. PICK j \in 1..Len(acc) : /\ acc[j] = reads[i]
                                   /\ \A k \in 1..(j - 1) : \E h \in 1..(i - 1) : acc[k] = reads[h]
      BY <1>1, <1>3, <2>2 DEF RecordedTo
    <3>2. \A h \in 1..(i - 1) : s[h] = reads[h]
      <4>1. \A h \in 1..(i - 1) : h \in 1..far
        OBVIOUS
      <4> QED BY <1>3, <4>1
    <3> QED BY <1>3, <3>1, <3>2
  <2>3. \A j \in 1..Len(acc) : \E i \in 1..far : acc[j] = s[i] /\ Hooked(s[i])
    BY <1>3, <2>1
  <2> QED BY <1>3, <2>2, <2>3 DEF RecordedTo
<1>5. ReadRight(s, acc)
  BY <1>3, <1>4, ReadsRight
<1> QED
  BY <1>1, <1>2, <1>5

----------------------------------------------------------------------------
(* A coverage file (Coverage). *)

\* Modules that reach as far as they were meant to, which an offset counts.
IsSource(modules) ==
  /\ Len(modules) \in Nat /\ DOMAIN modules = 1..Len(modules)
  /\ \A i \in DOMAIN modules :
       /\ modules[i].base \in Int /\ modules[i].meant \in Int
       /\ Normalised(modules[i]).end = modules[i].meant
       /\ modules[i].meant - modules[i].base <= Offsets

\* Regions of memory: apart from each other, and an offset counts each.
AreRegions(regions) ==
  /\ \A r \in regions : r.first \in Int /\ r.last \in Int /\ r.last + 1 - r.first <= Offsets
  /\ \A q, r \in regions : q = r \/ q.last < r.first \/ r.last < q.first

LEMMA DeclaredIs ==
  ASSUME NEW modules, IsSource(modules)
  PROVE  /\ DOMAIN Declared(modules) = 1..Len(modules) /\ Len(Declared(modules)) = Len(modules)
         /\ \A i \in 1..Len(modules) : /\ Declared(modules)[i].base = modules[i].base
                                       /\ Declared(modules)[i].end = modules[i].meant
<1>1. PICK n \in Nat : n = Len(modules) /\ DOMAIN modules = 1..n
  BY DEF IsSource
<1>2. PICK d : d = Declared(modules)
  OBVIOUS
<1>3. d = [i \in 1..n |-> Normalised(modules[i])]
  BY <1>1, <1>2 DEF Declared
<1>4. DOMAIN d = 1..n /\ Len(d) = n
  BY <1>3
<1>5. ASSUME NEW i \in 1..n PROVE d[i].base = modules[i].base /\ d[i].end = modules[i].meant
  <2>1. d[i] = Normalised(modules[i])
    BY <1>3
  <2>2. PICK m : m = Normalised(modules[i])
    OBVIOUS
  <2>3. m.base = modules[i].base
    BY <2>2 DEF Normalised
  <2>4. m.end = modules[i].meant
    BY <1>1, <2>2 DEF IsSource
  <2> QED BY <2>1, <2>2, <2>3, <2>4
<1> QED
  BY <1>1, <1>2, <1>4, <1>5

\* There is one span of an address or none, the address is in it, and it is
\* that of a module if there is a module at the address.
LEMMA SpanIs ==
  ASSUME NEW modules, IsSource(modules), NEW regions, AreRegions(regions), NEW fallback \in BOOLEAN, NEW a \in Int
  PROVE  /\ \A s \in SpanOf(Declared(modules), regions, fallback, a) :
              /\ s.base \in Int /\ s.end \in Int /\ s.base <= a /\ a < s.end /\ s.end - s.base <= Offsets
              /\ SpanOf(Declared(modules), regions, fallback, a) = {s}
              /\ \A t \in SpanOf(Declared(modules), regions, fallback, a) : t = s
         /\ (\E i \in 1..Len(modules) : modules[i].base <= a /\ a < modules[i].meant) =>
              \E i \in 1..Len(modules) : \E s \in SpanOf(Declared(modules), regions, fallback, a) :
                s.base = modules[i].base /\ s.end = modules[i].meant
         /\ fallback /\ (\E r \in regions : r.first <= a /\ a <= r.last) =>
              SpanOf(Declared(modules), regions, fallback, a) # {}
<1>1. PICK n \in Nat : n = Len(modules)
  BY DEF IsSource
<1>2. PICK d : d = Declared(modules)
  OBVIOUS
<1>3. /\ DOMAIN d = 1..n
      /\ \A i \in 1..n : d[i].base = modules[i].base /\ d[i].end = modules[i].meant
  BY <1>1, <1>2, DeclaredIs
<1>4. \A i \in 1..n : /\ modules[i].base \in Int /\ modules[i].meant \in Int
                      /\ modules[i].meant - modules[i].base <= Offsets
  BY <1>1 DEF IsSource
<1>5. PICK here : here = {i \in DOMAIN d : d[i].base <= a /\ a < d[i].end}
  OBVIOUS
<1>6. \A i : i \in here <=> i \in 1..n /\ modules[i].base <= a /\ a < modules[i].meant
  BY <1>3, <1>5
<1>7. PICK there : there = {r \in regions : r.first <= a /\ a <= r.last}
  OBVIOUS
<1>8. PICK found : found = SpanOf(Declared(modules), regions, fallback, a)
  OBVIOUS
<1>9. found = IF here # {} THEN {[base |-> d[Min(here)].base, end |-> d[Min(here)].end]}
              ELSE IF fallback THEN {[base |-> r.first, end |-> r.last + 1] : r \in there}
              ELSE {}
  BY <1>2, <1>5, <1>7, <1>8 DEF SpanOf
<1>10. CASE here # {}
  <2>1. PICK i : i = Min(here)
    OBVIOUS
  <2>2. i \in here
    <3>1. here \in SUBSET Nat
      BY <1>6
    <3> QED BY <1>10, <2>1, <3>1, MinIs
  <2>3. i \in 1..n /\ modules[i].base <= a /\ a < modules[i].meant
    BY <1>6, <2>2
  <2>4. PICK s : s = [base |-> d[i].base, end |-> d[i].end]
    OBVIOUS
  <2>5. s.base = modules[i].base /\ s.end = modules[i].meant
    BY <1>3, <2>3, <2>4
  <2>6. found = {s}
    BY <1>9, <1>10, <2>1, <2>4
  <2> QED BY <1>1, <1>4, <1>8, <2>3, <2>5, <2>6
<1>11. CASE here = {}
  <2>1. ~ \E i \in 1..Len(modules) : modules[i].base <= a /\ a < modules[i].meant
    BY <1>1, <1>6, <1>11
  <2>2. CASE ~fallback
    BY <1>8, <1>9, <1>11, <2>1, <2>2
  <2>3. CASE fallback
    <3>1. found = {[base |-> r.first, end |-> r.last + 1] : r \in there}
      BY <1>9, <1>11, <2>3
    <3>2. \A q, r \in there : q = r
      <4> SUFFICES ASSUME NEW q \in there, NEW r \in there PROVE q = r
        OBVIOUS
      <4>1. q \in regions /\ r \in regions /\ q.first <= a /\ a <= q.last /\ r.first <= a /\ a <= r.last
        BY <1>7
      <4>2. q.first \in Int /\ q.last \in Int /\ r.first \in Int /\ r.last \in Int
        BY <4>1 DEF AreRegions
      <4>3. q = r \/ q.last < r.first \/ r.last < q.first
        BY <4>1 DEF AreRegions
      <4> QED BY <4>1, <4>2, <4>3
    <3>3. ASSUME NEW s \in found
          PROVE  /\ s.base \in Int /\ s.end \in Int /\ s.base <= a /\ a < s.end /\ s.end - s.base <= Offsets
                 /\ found = {s} /\ \A t \in found : t = s
      <4>1. PICK r \in there : s = [base |-> r.first, end |-> r.last + 1]
        BY <3>1
      <4>2. s.base = r.first /\ s.end = r.last + 1
        BY <4>1
      <4>3. r.first \in Int /\ r.last \in Int /\ r.last + 1 - r.first <= Offsets /\ r.first <= a /\ a <= r.last
        BY <1>7 DEF AreRegions
      <4>4. there = {r}
        BY <3>2
      <4>5. found = {s}
        BY <3>1, <4>1, <4>4
      <4> QED BY <4>2, <4>3, <4>5
    <3>4. (\E r \in regions : r.first <= a /\ a <= r.last) => found # {}
      BY <1>7, <3>1
    <3> QED BY <1>8, <2>1, <3>3, <3>4
  <2> QED BY <2>2, <2>3
<1> QED
  BY <1>10, <1>11

\* The table after i of the blocks: the modules in their places, behind them
\* found that no module has, and one for each block so far.
Tabled(modules, regions, fallback, blocks, S, i, table) ==
  /\ table \in Seq(S) /\ Len(modules) <= Len(table)
  /\ \A j \in 1..Len(modules) : table[j] = Declared(modules)[j]
  /\ \A j \in (Len(modules) + 1)..Len(table) : \A k \in 1..Len(modules) :
       ~(table[j].base = table[k].base /\ table[j].end = table[k].end)
  /\ \A k \in 1..i : \A s \in SpanOf(Declared(modules), regions, fallback, blocks[k].at) : With(table, s) # {}

LEMMA TableStep ==
  ASSUME NEW modules, IsSource(modules), NEW regions, AreRegions(regions), NEW fallback \in BOOLEAN,
         NEW blocks, NEW S, NEW i \in Nat, blocks[i + 1].at \in Int, NEW table,
         \A s : [name |-> "region", base |-> s.base, end |-> s.end] \in S
                  \/ s \notin SpanOf(Declared(modules), regions, fallback, blocks[i + 1].at),
         Tabled(modules, regions, fallback, blocks, S, i, table)
  PROVE  Tabled(modules, regions, fallback, blocks, S, i + 1,
                Add(table, SpanOf(Declared(modules), regions, fallback, blocks[i + 1].at)))
<1>1. PICK n \in Nat : n = Len(modules)
  BY DEF IsSource
<1>2. PICK found : found = SpanOf(Declared(modules), regions, fallback, blocks[i + 1].at)
  OBVIOUS
<1>3. /\ table \in Seq(S) /\ n <= Len(table)
      /\ \A j \in 1..n : table[j] = Declared(modules)[j]
      /\ \A j \in (n + 1)..Len(table) : \A k \in 1..n :
           ~(table[j].base = table[k].base /\ table[j].end = table[k].end)
      /\ \A k \in 1..i : \A s \in SpanOf(Declared(modules), regions, fallback, blocks[k].at) : With(table, s) # {}
  BY <1>1 DEF Tabled
<1>4. PICK m \in Nat : m = Len(table)
  BY <1>3
<1>5. \A k \in 1..(i + 1) : k \in 1..i \/ k = i + 1
  OBVIOUS
<1>6. PICK span : span = (CHOOSE s \in found : TRUE)
  OBVIOUS
<1>7. found # {} => span \in found
  BY <1>6
<1>8. PICK new : new = Add(table, found)
  OBVIOUS
<1>9. CASE found = {} \/ With(table, span) # {}
  <2>1. new = table
    BY <1>6, <1>8, <1>9 DEF Add
  <2>2. \A s \in found : With(table, s) # {}
    <3> SUFFICES ASSUME NEW s \in found PROVE With(table, s) # {}
      OBVIOUS
    <3>1. found = {s}
      BY <1>2, SpanIs
    <3>2. s = span
      BY <1>7, <3>1
    <3> QED BY <1>9, <3>2
  <2>3. \A k \in 1..(i + 1) : \A s \in SpanOf(Declared(modules), regions, fallback, blocks[k].at) : With(table, s) # {}
    <3> SUFFICES ASSUME NEW k \in 1..(i + 1), NEW s \in SpanOf(Declared(modules), regions, fallback, blocks[k].at)
                 PROVE  With(table, s) # {}
      OBVIOUS
    <3> QED BY <1>2, <1>3, <1>5, <2>2
  <2>4. Tabled(modules, regions, fallback, blocks, S, i + 1, table)
    BY <1>1, <1>3, <2>3 DEF Tabled
  <2> QED BY <1>2, <1>8, <2>1, <2>4
<1>10. CASE ~(found = {} \/ With(table, span) # {})
  <2>1. PICK e : e = [name |-> "region", base |-> span.base, end |-> span.end]
    OBVIOUS
  <2>2. e \in S
    BY <1>2, <1>7, <1>10, <2>1
  <2>3. new = Append(table, e)
    BY <1>6, <1>8, <1>10, <2>1 DEF Add
  <2>4. new \in Seq(S) /\ Len(new) = m + 1 /\ new[m + 1] = e /\ \A j \in 1..m : new[j] = table[j]
    BY <1>3, <1>4, <2>2, <2>3
  <2>5. DOMAIN table = 1..m /\ DOMAIN new = 1..(m + 1)
    BY <1>3, <1>4, <2>4
  <2>6. e.base = span.base /\ e.end = span.end
    BY <2>1
  <2>7. \A j \in 1..m : ~(table[j].base = span.base /\ table[j].end = span.end)
    BY <1>10, <2>5 DEF With
  <2>8. \A j \in 1..n : j \in 1..m
    BY <1>3, <1>4
  <2>9. \A j \in 1..n : new[j] = Declared(modules)[j]
    BY <1>3, <2>4, <2>8
  <2>10. ASSUME NEW j \in (n + 1)..(m + 1), NEW k \in 1..n
         PROVE  ~(new[j].base = new[k].base /\ new[j].end = new[k].end)
    <3>1. new[k] = table[k] /\ k \in 1..m
      BY <2>4, <2>8
    <3>2. CASE j = m + 1
      <4>1. new[j].base = span.base /\ new[j].end = span.end
        BY <2>4, <2>6, <3>2
      <4> QED BY <2>7, <3>1, <4>1
    <3>3. CASE j # m + 1
      <4>1. j \in (n + 1)..m /\ j \in 1..m
        BY <3>3
      <4> QED BY <1>3, <1>4, <2>4, <3>1, <4>1
    <3> QED BY <3>2, <3>3
  <2>11. \A s : With(table, s) # {} => With(new, s) # {}
    <3> SUFFICES ASSUME NEW s, NEW j \in With(table, s) PROVE j \in With(new, s)
      OBVIOUS
    <3>1. j \in 1..m /\ table[j].base = s.base /\ table[j].end = s.end
      BY <2>5 DEF With
    <3>2. j \in 1..(m + 1) /\ new[j] = table[j]
      BY <2>4, <3>1
    <3> QED BY <2>5, <3>1, <3>2 DEF With
  <2>12. \A s \in found : With(new, s) # {}
    <3> SUFFICES ASSUME NEW s \in found PROVE With(new, s) # {}
      OBVIOUS
    <3>1. found = {s}
      BY <1>2, SpanIs
    <3>2. s = span
      BY <1>7, <3>1
    <3>3. m + 1 \in DOMAIN new /\ new[m + 1].base = s.base /\ new[m + 1].end = s.end
      BY <2>4, <2>5, <2>6, <3>2
    <3> QED BY <3>3 DEF With
  <2>13. \A k \in 1..(i + 1) : \A s \in SpanOf(Declared(modules), regions, fallback, blocks[k].at) : With(new, s) # {}
    <3> SUFFICES ASSUME NEW k \in 1..(i + 1), NEW s \in SpanOf(Declared(modules), regions, fallback, blocks[k].at)
                 PROVE  With(new, s) # {}
      OBVIOUS
    <3>1. CASE k \in 1..i
      BY <1>3, <2>11, <3>1
    <3>2. CASE k = i + 1
      BY <1>2, <2>12, <3>2
    <3> QED BY <1>5, <3>1, <3>2
  <2>14. n <= m + 1
    BY <1>3, <1>4
  <2>15. Tabled(modules, regions, fallback, blocks, S, i + 1, new)
    BY <1>1, <2>4, <2>9, <2>10, <2>13, <2>14 DEF Tabled
  <2> QED BY <1>2, <1>8, <2>15
<1> QED
  BY <1>9, <1>10

\* Blocks that ran.
AreBlocks(raw) ==
  /\ IsFiniteSet(raw)
  /\ \A b \in raw : b.at \in Int /\ b.size \in Int /\ b = [at |-> b.at, size |-> b.size]

\* As the code sorts them.
Sooner(raw) == {p \in raw \X raw : \/ p[1].at < p[2].at
                                   \/ p[1].at = p[2].at /\ p[1].size < p[2].size}

LEMMA BlocksOrdered == ASSUME NEW raw, AreBlocks(raw) PROVE Orders(Sooner(raw), raw)
<1>1. PICK R : R = Sooner(raw)
  OBVIOUS
<1>2. ASSUME NEW x \in raw, NEW y \in raw
      PROVE  <<x, y>> \in R <=> x.at < y.at \/ (x.at = y.at /\ x.size < y.size)
  <2>1. PICK p : p = <<x, y>>
    OBVIOUS
  <2>2. p \in raw \X raw /\ p[1] = x /\ p[2] = y
    BY <2>1
  <2>3. p \in R <=> p[1].at < p[2].at \/ (p[1].at = p[2].at /\ p[1].size < p[2].size)
    BY <1>1, <2>2 DEF Sooner
  <2> QED BY <2>1, <2>2, <2>3
<1>3. \A x \in raw : x.at \in Int /\ x.size \in Int
  BY DEF AreBlocks
<1>4. ASSUME NEW x \in raw, NEW y \in raw, x # y PROVE <<x, y>> \in R \/ <<y, x>> \in R
  <2>1. PICK a \in Int, b \in Int, c \in Int, d \in Int : a = x.at /\ b = x.size /\ c = y.at /\ d = y.size
    BY <1>3
  <2>2. ~(a = c /\ b = d)
    <3> SUFFICES ASSUME a = c, b = d PROVE FALSE
      OBVIOUS
    <3>1. x = [at |-> a, size |-> b] /\ y = [at |-> c, size |-> d]
      BY <2>1 DEF AreBlocks
    <3> QED BY <1>4, <3>1
  <2>3. a < c \/ (a = c /\ b < d) \/ c < a \/ (c = a /\ d < b)
    BY <2>2
  <2> QED BY <1>2, <2>1, <2>3
<1>5. \A x \in raw : <<x, x>> \notin R
  <2> SUFFICES ASSUME NEW x \in raw, <<x, x>> \in R PROVE FALSE
    OBVIOUS
  <2>1. PICK a \in Int, b \in Int : a = x.at /\ b = x.size
    BY <1>3
  <2> QED BY <1>2, <2>1
<1>6. ASSUME NEW x \in raw, NEW y \in raw, NEW z \in raw, <<x, y>> \in R, <<y, z>> \in R PROVE <<x, z>> \in R
  <2>1. PICK a \in Int, b \in Int, c \in Int, d \in Int, e \in Int, f \in Int :
          a = x.at /\ b = x.size /\ c = y.at /\ d = y.size /\ e = z.at /\ f = z.size
    BY <1>3
  <2>2. a < c \/ (a = c /\ b < d)
    BY <1>2, <1>6, <2>1
  <2>3. c < e \/ (c = e /\ d < f)
    BY <1>2, <1>6, <2>1
  <2>4. a < e \/ (a = e /\ b < f)
    BY <2>2, <2>3
  <2> QED BY <1>2, <2>1, <2>4
<1> QED
  BY <1>1, <1>4, <1>5, <1>6 DEF Orders

\* What an entry of the table may be.
Rows(modules, regions, fallback, raw) ==
  {Declared(modules)[i] : i \in 1..Len(modules)} \cup
  {[name |-> "region", base |-> s.base, end |-> s.end] :
     s \in UNION {SpanOf(Declared(modules), regions, fallback, b.at) : b \in raw}}

TableFor(modules, regions, fallback, raw, table) ==
  /\ Len(table) \in Nat /\ DOMAIN table = 1..Len(table) /\ Len(modules) <= Len(table)
  /\ \A j \in 1..Len(modules) : table[j] = Declared(modules)[j]
  /\ \A j \in (Len(modules) + 1)..Len(table) : \A k \in 1..Len(modules) :
       ~(table[j].base = table[k].base /\ table[j].end = table[k].end)
  /\ \A b \in raw : \A s \in SpanOf(Declared(modules), regions, fallback, b.at) : With(table, s) # {}

\* The table of the file has the modules in their places, spans that no module
\* has behind them, and one for each block.
LEMMA TableIs ==
  ASSUME NEW modules, IsSource(modules), NEW regions, AreRegions(regions), NEW fallback \in BOOLEAN,
         NEW raw, AreBlocks(raw)
  PROVE  TableFor(modules, regions, fallback, raw, Table(modules, raw, regions, fallback))
<1> DEFINE blocks == InOrder(raw, {p \in raw \X raw : \/ p[1].at < p[2].at
                                                      \/ p[1].at = p[2].at /\ p[1].size < p[2].size})
<1> DEFINE d == Declared(modules)
<1> DEFINE Spans(i) == SpanOf(d, regions, fallback, blocks[i].at)
<1> DEFINE Loop(f, m) == f = [i \in 0..m |-> IF i = 0 THEN d ELSE Add(f[i - 1], Spans(i))]
<1>7. PICK uc : uc = (CHOOSE loop : Loop(loop, Len(blocks)))
  OBVIOUS
<1>8. Table(modules, raw, regions, fallback) = uc[Len(blocks)]
  BY <1>7 DEF Table
<1>1. blocks = InOrder(raw, Sooner(raw))
  BY DEF Sooner
<1>6. d = Declared(modules)
  OBVIOUS
<1> HIDE DEF Spans, blocks, d
<1>2. PICK n \in Nat : n = Cardinality(raw)
  BY FS_CardinalityType DEF AreBlocks
<1>3. /\ blocks \in Seq(raw) /\ Len(blocks) = n
      /\ \A b \in raw : \E i \in 1..n : blocks[i] = b
  <2>1. IsFiniteSet(raw) /\ Orders(Sooner(raw), raw)
    BY BlocksOrdered DEF AreBlocks
  <2> QED BY <1>1, <1>2, <2>1, InOrderIs
<1>4. \A i \in 1..n : blocks[i] \in raw
  BY <1>3
<1>5. \A i \in 1..n : blocks[i].at \in Int
  BY <1>4 DEF AreBlocks
<1>9. Loop(uc, n)
  <2> DEFINE Good == {m \in 0..n : \E f : Loop(f, m)}
  <2>1. 0 \in Good
    <3>1. PICK f : f = [k \in 0..0 |-> d]
      OBVIOUS
    <3>2. \A k \in 0..0 : k = 0
      OBVIOUS
    <3>3. Loop(f, 0)
      BY <3>1, <3>2
    <3>4. 0 \in 0..n
      OBVIOUS
    <3> HIDE DEF Loop
    <3> QED BY <3>3, <3>4
  <2>2. ASSUME NEW m \in 0..(n - 1), m \in Good PROVE m + 1 \in Good
    <3>1. PICK f : Loop(f, m)
      BY <2>2
    <3>2. PICK next : next = Add(f[m], Spans(m + 1))
      OBVIOUS
    <3>3. PICK h : h = [k \in 0..(m + 1) |-> IF k = m + 1 THEN next ELSE f[k]]
      OBVIOUS
    <3>4. ASSUME NEW k \in 0..(m + 1)
          PROVE  h[k] = IF k = 0 THEN d ELSE Add(h[k - 1], Spans(k))
      <4>1. CASE k = m + 1
        <5>1. h[k] = next /\ h[k - 1] = f[m] /\ k # 0
          BY <3>3, <4>1
        <5> QED BY <3>2, <4>1, <5>1
      <4>2. CASE k # m + 1 /\ k # 0
        <5>1. k \in 0..m /\ h[k] = f[k] /\ h[k - 1] = f[k - 1]
          BY <3>3, <4>2
        <5> QED BY <3>1, <4>2, <5>1
      <4>3. CASE k = 0
        <5>1. k \in 0..m /\ h[k] = f[k]
          BY <3>3, <4>3
        <5> QED BY <3>1, <4>3, <5>1
      <4> QED BY <4>1, <4>2, <4>3
    <3>5. h = [k \in 0..(m + 1) |-> h[k]]
      BY <3>3
    <3>6. Loop(h, m + 1)
      BY <3>4, <3>5
    <3>7. m + 1 \in 0..n
      OBVIOUS
    <3> QED BY <3>6, <3>7
  <2>3. n \in Good
    <3> HIDE DEF Good
    <3> QED BY <2>1, <2>2, UpwardFrom
  <2> QED BY <1>3, <1>7, <2>3
<1>10. uc[0] = d /\ \A i \in 0..(n - 1) : uc[i + 1] = Add(uc[i], Spans(i + 1))
  <2>1. uc[0] = d
    BY <1>9
  <2>2. ASSUME NEW i \in 0..(n - 1) PROVE uc[i + 1] = Add(uc[i], Spans(i + 1))
    <3>1. i + 1 \in 0..n /\ i + 1 # 0 /\ (i + 1) - 1 = i
      OBVIOUS
    <3> QED BY <1>9, <3>1
  <2> QED BY <2>1, <2>2
<1> HIDE DEF Loop
<1>11. PICK S : S = Rows(modules, regions, fallback, raw)
  OBVIOUS
<1>12. ASSUME NEW i \in 1..n, NEW s \in Spans(i) PROVE [name |-> "region", base |-> s.base, end |-> s.end] \in S
  <2>1. s \in UNION {SpanOf(d, regions, fallback, b.at) : b \in raw}
    BY <1>4 DEF Spans
  <2> QED BY <1>6, <1>11, <2>1 DEF Rows
<1>13. PICK k \in Nat : k = Len(modules)
  BY DEF IsSource
<1>14. DOMAIN d = 1..k /\ Len(d) = k /\ d \in Seq(S)
  <2>1. DOMAIN d = 1..k /\ Len(d) = k
    BY <1>6, <1>13, DeclaredIs
  <2>2. \A i \in 1..k : d[i] \in S
    BY <1>6, <1>11, <1>13 DEF Rows
  <2>3. d = [i \in 1..k |-> d[i]]
    <3>1. d = [i \in DOMAIN modules |-> Normalised(modules[i])]
      BY <1>6 DEF Declared
    <3> QED BY <2>1, <3>1
  <2>4. d \in [1..k -> S]
    BY <2>2, <2>3
  <2> QED BY <2>1, <2>4, SeqDef
<1> DEFINE Good == {i \in 0..n : Tabled(modules, regions, fallback, blocks, S, i, uc[i])}
<1>15. 0 \in Good
  <2>1. \A j \in 1..0 : FALSE
    OBVIOUS
  <2>2. \A j \in (k + 1)..Len(d) : FALSE
    BY <1>14
  <2>3. Tabled(modules, regions, fallback, blocks, S, 0, d)
    BY <1>6, <1>13, <1>14, <2>1, <2>2 DEF Tabled
  <2> QED BY <1>10, <2>3
<1>16. ASSUME NEW i \in 0..(n - 1), i \in Good PROVE i + 1 \in Good
  <2>1. Tabled(modules, regions, fallback, blocks, S, i, uc[i]) /\ i \in Nat /\ i + 1 \in 0..n /\ i + 1 \in 1..n
    BY <1>16
  <2>2. \A s : \/ [name |-> "region", base |-> s.base, end |-> s.end] \in S
               \/ s \notin SpanOf(Declared(modules), regions, fallback, blocks[i + 1].at)
    BY <1>6, <1>12, <2>1 DEF Spans
  <2>3. blocks[i + 1].at \in Int
    BY <1>5, <2>1
  <2>4. Tabled(modules, regions, fallback, blocks, S, i + 1,
               Add(uc[i], SpanOf(Declared(modules), regions, fallback, blocks[i + 1].at)))
    BY <2>1, <2>2, <2>3, TableStep
  <2>5. Tabled(modules, regions, fallback, blocks, S, i + 1, uc[i + 1])
    BY <1>6, <1>10, <2>4 DEF Spans
  <2> QED BY <2>1, <2>5
<1>17. n \in Good
  <2> HIDE DEF Good
  <2> QED BY <1>15, <1>16, UpwardFrom
<1>18. PICK table : table = uc[n]
  OBVIOUS
<1>19. /\ table \in Seq(S) /\ k <= Len(table)
       /\ \A j \in 1..k : table[j] = Declared(modules)[j]
       /\ \A j \in (k + 1)..Len(table) : \A m \in 1..k :
            ~(table[j].base = table[m].base /\ table[j].end = table[m].end)
       /\ \A j \in 1..n : \A s \in SpanOf(Declared(modules), regions, fallback, blocks[j].at) : With(table, s) # {}
  BY <1>13, <1>17, <1>18 DEF Tabled
<1>20. \A b \in raw : \A s \in SpanOf(Declared(modules), regions, fallback, b.at) : With(table, s) # {}
  BY <1>3, <1>19
<1>21. Len(table) \in Nat /\ DOMAIN table = 1..Len(table)
  BY <1>19
<1>22. table = Table(modules, raw, regions, fallback)
  BY <1>3, <1>8, <1>13, <1>18
<1>23. TableFor(modules, regions, fallback, raw, table)
  BY <1>13, <1>19, <1>20, <1>21 DEF TableFor
<1> QED
  BY <1>22, <1>23

\* Behind the first k, which are those of the modules, none has the span of one
\* of them.
Behind(table, k) ==
  \A j \in (k + 1)..Len(table) : \A m \in 1..k : ~(table[j].base = table[m].base /\ table[j].end = table[m].end)

LEMMA SmallRest == ASSUME NEW o \in Nat \ {0}, NEW x \in 0..(o - 1) PROVE x % o = x
<1>1. PICK q, r : q = x \div o /\ r = x % o
  OBVIOUS
<1>2. q \in Int /\ r \in 0..(o - 1) /\ x = o * q + r
  <2>1. x \in Int /\ o \in Nat /\ o > 0
    OBVIOUS
  <2>2. q \in Int /\ x = o * q + (x % o) /\ x % o \in 0..(o - 1)
    BY <1>1, <2>1
  <2> QED BY <1>1, <2>2
<1>3. CASE q = 0
  BY <1>1, <1>2, <1>3
<1>4. CASE q >= 1
  <2>1. o * q >= o
    BY <1>2, <1>4
  <2> QED BY <1>2, <2>1
<1>5. CASE q <= -1
  <2>1. o * q <= -o
    BY <1>2, <1>5
  <2> QED BY <1>2, <2>1
<1> QED
  BY <1>2, <1>3, <1>4, <1>5

\* A block goes into the file under the last entry of its span, as far behind
\* the start as it was, and is read back as what it is.
LEMMA EntryIs ==
  ASSUME NEW k \in Nat, NEW table, Len(table) \in Nat, DOMAIN table = 1..Len(table), k <= Len(table),
         Behind(table, k), NEW s, s.base \in Int, s.end \in Int, s.end - s.base <= Offsets, With(table, s) # {},
         NEW a \in Int, s.base <= a, a < s.end, NEW size \in 0..(BlockSizes - 1)
  PROVE  /\ Max(With(table, s)) \in 1..Len(table)
         /\ table[Max(With(table, s))].base = s.base /\ table[Max(With(table, s))].end = s.end
         /\ (a - s.base) % Offsets = a - s.base
         /\ size % BlockSizes = size
         /\ (\E m \in 1..k : table[m].base = s.base /\ table[m].end = s.end) => Max(With(table, s)) \in 1..k
<1>1. PICK n \in Nat : n = Len(table)
  OBVIOUS
<1>2. PICK S, id : S = With(table, s) /\ id = Max(S)
  OBVIOUS
<1>3. \A j : j \in S <=> j \in 1..n /\ table[j].base = s.base /\ table[j].end = s.end
  BY <1>1, <1>2 DEF With
<1>4. S \in SUBSET (0..n) /\ S # {}
  <2>1. ASSUME NEW j \in S PROVE j \in 0..n
    <3>1. j \in 1..n
      BY <1>3
    <3> QED BY <3>1
  <2> QED BY <1>2, <2>1
<1>5. id \in S /\ \A j \in S : j <= id
  BY <1>2, <1>4, MaxIs
<1>6. id \in 1..n /\ table[id].base = s.base /\ table[id].end = s.end
  BY <1>3, <1>5
<1>7. (a - s.base) % Offsets = a - s.base
  <2>1. PICK o \in Nat \ {0}, base \in Int, end \in Int : o = Offsets /\ base = s.base /\ end = s.end
    BY WidthAssumption
  <2>2. PICK x \in Nat : x = a - base
    BY <2>1
  <2>3. x \in 0..(o - 1)
    BY <2>1, <2>2
  <2>4. x % o = x
    BY <2>3, SmallRest
  <2> QED BY <2>1, <2>2, <2>4
<1>8. size % BlockSizes = size
  <2>1. PICK o \in Nat \ {0} : o = BlockSizes
    BY WidthAssumption
  <2>2. size \in 0..(o - 1)
    BY <2>1
  <2>3. size % o = size
    BY <2>2, SmallRest
  <2> QED BY <2>1, <2>3
<1>9. ASSUME NEW m \in 1..k, table[m].base = s.base, table[m].end = s.end PROVE id \in 1..k
  <2> SUFFICES ASSUME id \notin 1..k PROVE FALSE
    OBVIOUS
  <2>1. id \in (k + 1)..n
    BY <1>6
  <2>2. ~(table[id].base = table[m].base /\ table[id].end = table[m].end)
    BY <1>1, <2>1 DEF Behind
  <2> QED BY <1>6, <1>9, <2>2
<1> QED
  BY <1>1, <1>2, <1>6, <1>7, <1>8, <1>9

\* A reader of the file gets the blocks that ran.
LEMMA WrittenRight ==
  ASSUME NEW modules, IsSource(modules), NEW regions, AreRegions(regions), NEW fallback \in BOOLEAN,
         NEW raw, AreBlocks(raw), \A b \in raw : b.size \in 0..(BlockSizes - 1)
  PROVE  CoveredRight(modules, [i \in DOMAIN modules |-> modules[i].meant], raw, regions, fallback)
<1>1. PICK k \in Nat : k = Len(modules) /\ DOMAIN modules = 1..k
  BY DEF IsSource
<1>2. PICK meant : meant = [i \in DOMAIN modules |-> modules[i].meant]
  OBVIOUS
<1>3. \A i \in 1..k : meant[i] = modules[i].meant
  BY <1>1, <1>2
<1>4. PICK d : d = Declared(modules)
  OBVIOUS
<1>5. \A i \in 1..k : d[i].base = modules[i].base /\ d[i].end = modules[i].meant
  BY <1>1, <1>4, DeclaredIs
<1>6. PICK table : table = Table(modules, raw, regions, fallback)
  OBVIOUS
<1>7. /\ Len(table) \in Nat /\ DOMAIN table = 1..Len(table) /\ k <= Len(table)
      /\ \A j \in 1..k : table[j] = d[j]
      /\ Behind(table, k)
      /\ \A b \in raw : \A s \in SpanOf(d, regions, fallback, b.at) : With(table, s) # {}
  <2>1. TableFor(modules, regions, fallback, raw, table)
    BY <1>6, TableIs
  <2> QED BY <1>1, <1>4, <2>1 DEF Behind, TableFor
<1> DEFINE Entry(b, s) == [id |-> Max(With(table, s)), start |-> (b.at - s.base) % Offsets, size |-> b.size % BlockSizes]
<1> DEFINE Entries(b) == {Entry(b, s) : s \in SpanOf(d, regions, fallback, b.at)}
<1>8. PICK w : w = Written(modules, raw, regions, fallback)
  OBVIOUS
<1>9. w.table = table /\ w.blocks = UNION {Entries(b) : b \in raw}
  BY <1>4, <1>6, <1>8 DEF Written
<1>10. ASSUME NEW b \in raw, NEW s \in SpanOf(d, regions, fallback, b.at), NEW e, e = Entry(b, s)
       PROVE  /\ e.id \in 1..Len(table) /\ table[e.id].base = s.base /\ table[e.id].base + e.start = b.at
              /\ e.size = b.size
              /\ [at |-> w.table[e.id].base + e.start, size |-> e.size] = b
              /\ (\E m \in 1..k : table[m].base = s.base /\ table[m].end = s.end) =>
                   /\ e.id \in 1..k /\ modules[e.id].base = s.base /\ meant[e.id] = s.end
  <2>1. b.at \in Int /\ b.size \in 0..(BlockSizes - 1) /\ b = [at |-> b.at, size |-> b.size]
    BY DEF AreBlocks
  <2>2. s.base \in Int /\ s.end \in Int /\ s.base <= b.at /\ b.at < s.end /\ s.end - s.base <= Offsets
    BY <1>4, <2>1, SpanIs
  <2>3. With(table, s) # {}
    BY <1>7
  <2>4. PICK id : id = Max(With(table, s))
    OBVIOUS
  <2>10. Behind(table, k) /\ Len(table) \in Nat /\ DOMAIN table = 1..Len(table) /\ k <= Len(table)
    BY <1>7
  <2>5. /\ id \in 1..Len(table)
        /\ table[id].base = s.base /\ table[id].end = s.end
        /\ (b.at - s.base) % Offsets = b.at - s.base
        /\ b.size % BlockSizes = b.size
        /\ (\E m \in 1..k : table[m].base = s.base /\ table[m].end = s.end) => id \in 1..k
    <3>1. PICK a \in Int, size \in 0..(BlockSizes - 1) : a = b.at /\ size = b.size
      BY <2>1
    <3>2. s.base <= a /\ a < s.end
      BY <2>2, <3>1
    <3>3. /\ Max(With(table, s)) \in 1..Len(table)
          /\ table[Max(With(table, s))].base = s.base /\ table[Max(With(table, s))].end = s.end
          /\ (a - s.base) % Offsets = a - s.base
          /\ size % BlockSizes = size
          /\ (\E m \in 1..k : table[m].base = s.base /\ table[m].end = s.end) => Max(With(table, s)) \in 1..k
      BY <2>2, <2>3, <2>10, <3>2, EntryIs
    <3> QED BY <2>4, <3>1, <3>3
  <2>6. e.id = id /\ e.start = b.at - s.base /\ e.size = b.size
    BY <1>10, <2>4, <2>5
  <2>7. table[id].base + e.start = b.at
    <3>1. PICK x \in Int, y \in Int : x = s.base /\ y = b.at
      BY <2>1, <2>2
    <3>2. x + (y - x) = y
      OBVIOUS
    <3> QED BY <2>5, <2>6, <3>1, <3>2
  <2>8. [at |-> w.table[e.id].base + e.start, size |-> e.size] = b
    BY <1>9, <2>1, <2>6, <2>7
  <2>9. id \in 1..k => modules[id].base = s.base /\ meant[id] = s.end
    BY <1>3, <1>5, <1>7, <2>5
  <2> QED BY <2>5, <2>6, <2>7, <2>8, <2>9
<1> HIDE DEF Entry
<1>11. ASSUME NEW t \in FileTells(w) PROVE t \in raw
  <2>1. PICK e \in w.blocks : t = [at |-> w.table[e.id].base + e.start, size |-> e.size]
    BY DEF FileTells
  <2>2. PICK b \in raw : e \in Entries(b)
    BY <1>9
  <2>3. PICK s \in SpanOf(d, regions, fallback, b.at) : e = Entry(b, s)
    BY <2>2
  <2>4. t = b
    BY <1>10, <2>1, <2>3
  <2> QED BY <2>4
<1>12. PICK inside : inside = {b \in raw : \E i \in DOMAIN modules : modules[i].base <= b.at /\ b.at < meant[i]}
  OBVIOUS
<1>13. ASSUME NEW b \in inside
       PROVE  b \in raw /\ \E i \in 1..k : \E s \in SpanOf(d, regions, fallback, b.at) :
                             s.base = modules[i].base /\ s.end = modules[i].meant
  <2>1. b \in raw /\ \E i \in 1..k : modules[i].base <= b.at /\ b.at < modules[i].meant
    BY <1>1, <1>3, <1>12
  <2>2. b.at \in Int
    BY <2>1 DEF AreBlocks
  <2>3. \E i \in 1..k : \E s \in SpanOf(d, regions, fallback, b.at) :
          s.base = modules[i].base /\ s.end = modules[i].meant
    BY <1>1, <1>4, <2>1, <2>2, SpanIs
  <2> QED BY <2>1, <2>3
<1>14. ASSUME NEW b \in raw, (b \in inside \/ fallback), \E r \in regions : r.first <= b.at /\ b.at <= r.last
       PROVE  b \in FileTells(w)
  <2>1. b.at \in Int
    BY DEF AreBlocks
  <2>2. PICK s : s \in SpanOf(d, regions, fallback, b.at)
    <3>1. CASE b \in inside
      BY <1>13, <3>1
    <3>2. CASE fallback
      <4>1. \E r \in regions : r.first <= b.at /\ b.at <= r.last
        BY <1>14
      <4>2. SpanOf(Declared(modules), regions, fallback, b.at) # {}
        BY <2>1, <3>2, <4>1, SpanIs
      <4> QED BY <1>4, <4>2
    <3> QED BY <1>14, <3>1, <3>2
  <2>3. PICK e : e = Entry(b, s)
    OBVIOUS
  <2>4. e \in w.blocks
    BY <1>9, <2>2, <2>3
  <2>5. b = [at |-> w.table[e.id].base + e.start, size |-> e.size]
    BY <1>10, <2>2, <2>3
  <2> QED BY <2>4, <2>5 DEF FileTells
<1>15. ASSUME NEW b \in inside
       PROVE  \E e \in w.blocks : /\ e.id \in DOMAIN modules
                                  /\ modules[e.id].base + e.start = b.at /\ e.size = b.size
                                  /\ b.at < meant[e.id]
  <2>1. b \in raw
    BY <1>13
  <2>2. b.at \in Int
    BY <2>1 DEF AreBlocks
  <2>3. PICK i \in 1..k : \E s \in SpanOf(d, regions, fallback, b.at) :
                             s.base = modules[i].base /\ s.end = modules[i].meant
    BY <1>13
  <2>4. PICK s \in SpanOf(d, regions, fallback, b.at) : s.base = modules[i].base /\ s.end = modules[i].meant
    BY <2>3
  <2>5. PICK e : e = Entry(b, s)
    OBVIOUS
  <2>6. e \in w.blocks
    BY <1>9, <2>1, <2>5
  <2>7. i \in 1..k /\ table[i].base = s.base /\ table[i].end = s.end
    BY <1>5, <1>7, <2>4
  <2>8. e.id \in 1..k /\ modules[e.id].base = s.base /\ meant[e.id] = s.end
    BY <1>10, <2>1, <2>5, <2>7
  <2>9. table[e.id].base = s.base /\ table[e.id].base + e.start = b.at /\ e.size = b.size
    BY <1>10, <2>1, <2>5
  <2>10. b.at < s.end
    BY <1>4, <2>2, SpanIs
  <2>11. modules[e.id].base + e.start = b.at
    BY <2>8, <2>9
  <2> QED BY <1>1, <2>6, <2>8, <2>9, <2>10, <2>11
<1>16. FileTells(w) \subseteq raw
  BY <1>11
<1> QED
  BY <1>2, <1>8, <1>12, <1>14, <1>15, <1>16 DEF CoveredRight

\* The regions of the model, one behind the other.
LEMMA RegionsAre == ASSUME Offsets >= 4 PROVE AreRegions(Regions)
<1>1. PICK p : p = [first |-> 0, last |-> 3]
  OBVIOUS
<1>2. PICK q : q = [first |-> 4, last |-> 7]
  OBVIOUS
<1>3. p.first = 0 /\ p.last = 3 /\ q.first = 4 /\ q.last = 7
  BY <1>1, <1>2
<1>4. \A r \in Regions : r = p \/ r = q
  BY <1>1, <1>2 DEF Regions
<1>5. Offsets \in Int
  BY WidthAssumption
<1>6. ASSUME NEW r \in Regions PROVE r.first \in Int /\ r.last \in Int /\ r.last + 1 - r.first <= Offsets
  <2>1. CASE r = p
    BY <1>3, <1>5, <2>1
  <2>2. CASE r = q
    BY <1>3, <1>5, <2>2
  <2> QED BY <1>4, <2>1, <2>2
<1>7. ASSUME NEW r \in Regions, NEW s \in Regions PROVE r = s \/ r.last < s.first \/ s.last < r.first
  <2>1. p.last < q.first
    BY <1>3
  <2> QED BY <1>4, <2>1
<1> QED
  BY <1>6, <1>7 DEF AreRegions

\* The modules are those declared, and blocks of one or two bytes ran.
CoverageInv ==
  input.kind = "coverage" =>
    /\ input.modules \in Sources
    /\ AreBlocks(input.raw) /\ \A b \in input.raw : b.size \in {1, 2}

LEMMA CoverageInit == ASSUME MCInit PROVE CoverageInv
<1> SUFFICES ASSUME input.kind = "coverage"
             PROVE  /\ input.modules \in Sources
                    /\ AreBlocks(input.raw) /\ \A b \in input.raw : b.size \in {1, 2}
  BY DEF CoverageInv
<1>1. PICK modules \in Sources : input = [kind |-> "coverage", modules |-> modules, raw |-> {}]
  <2>1. TablesInit
    <3>1. ASSUME input = [kind |-> "trace"] PROVE FALSE
      BY <3>1
    <3> QED BY <3>1 DEF MCInit
  <2>2. ASSUME input = [kind |-> "symbols", table |-> <<>>] PROVE FALSE
    BY <2>2
  <2>3. ASSUME input = [kind |-> "segments", segments |-> <<>>] PROVE FALSE
    BY <2>3
  <2>4. ASSUME NEW a, NEW b, input = [kind |-> "engines", a |-> a, b |-> b] PROVE FALSE
    BY <2>4
  <2>5. ASSUME NEW reads, input = [kind |-> "reads", reads |-> reads, at |-> 0, far |-> 0, accesses |-> <<>>]
        PROVE  FALSE
    BY <2>5
  <2> QED BY <2>1, <2>2, <2>3, <2>4, <2>5 DEF TablesInit
<1>2. input.modules = modules /\ input.raw = {}
  BY <1>1
<1> QED
  BY <1>2, FS_EmptySet DEF AreBlocks

LEMMA CoverageNext ==
  ASSUME IsInput(input), CoverageInv, [MCNext]_<<input, pvars>> PROVE CoverageInv'
<1> SUFFICES ASSUME input'.kind = "coverage"
             PROVE  /\ input'.modules \in Sources
                    /\ AreBlocks(input'.raw) /\ \A b \in input'.raw : b.size \in {1, 2}
  BY DEF CoverageInv, AreBlocks
<1>1. input.kind = "coverage"
  BY KindStays
<1>2. PICK i : i = input
  OBVIOUS
<1>3. PICK modules, raw : modules = i.modules /\ raw = i.raw
  OBVIOUS
<1>4. modules \in Sources /\ AreBlocks(raw) /\ \A b \in raw : b.size \in {1, 2}
  BY <1>1, <1>2, <1>3 DEF CoverageInv
<1>5. i = [kind |-> "coverage", modules |-> modules, raw |-> raw]
  BY <1>1, <1>2, <1>3 DEF IsInput
<1>6. CASE input' = input
  BY <1>2, <1>3, <1>4, <1>6
<1>7. CASE OnBlock
  <2>1. PICK r \in Regions, a \in 0..7, size \in {1, 2} : input' = [i EXCEPT !.raw = @ \cup {[at |-> a, size |-> size]}]
    BY <1>2, <1>7 DEF OnBlock
  <2>2. PICK b : b = [at |-> a, size |-> size]
    OBVIOUS
  <2>3. b.at = a /\ b.size = size /\ b = [at |-> b.at, size |-> b.size]
    BY <2>2
  <2>4. PICK new : new = raw \cup {b}
    OBVIOUS
  <2>5. PICK j : j = [i EXCEPT !.raw = new]
    OBVIOUS
  <2>6. input' = j
    BY <1>3, <2>1, <2>2, <2>4, <2>5
  <2>7. j = [kind |-> "coverage", modules |-> modules, raw |-> new]
    BY <1>5, <2>5
  <2>8. j.modules = modules /\ j.raw = new
    BY <2>7
  <2>9. IsFiniteSet(new)
    BY <1>4, <2>4, FS_AddElement DEF AreBlocks
  <2>10. a \in Int /\ size \in Int /\ size \in {1, 2}
    OBVIOUS
  <2>11. \A c \in new : c.at \in Int /\ c.size \in Int /\ c = [at |-> c.at, size |-> c.size]
    BY <1>4, <2>3, <2>4, <2>10 DEF AreBlocks
  <2>12. \A c \in new : c.size \in {1, 2}
    BY <1>4, <2>3, <2>4, <2>10
  <2>13. AreBlocks(new)
    BY <2>9, <2>11 DEF AreBlocks
  <2> QED BY <1>4, <2>6, <2>8, <2>12, <2>13
<1>8. input' = input \/ OnBlock
  <2>1. ASSUME MCNext PROVE input' = input \/ OnBlock
    <3>1. input.kind # "trace" /\ input.kind # "symbols" /\ input.kind # "segments"
          /\ input.kind # "engines" /\ input.kind # "reads"
      BY <1>1
    <3> QED BY <2>1, <3>1 DEF MCNext, TablesNext, Extend, AddSegment, EnginesStep, Reads, ReplaysReads
  <2> QED BY <2>1
<1> QED
  BY <1>6, <1>7, <1>8

\* A coverage file says what ran and of which module it was a part, for every
\* list of modules that are declared as far as they were meant to reach, no
\* further than an offset counts (coverage.py, to_writer); and the provenance of
\* the input says what was read and by what first, in a recording that started
\* before the first read (provenance.py).
THEOREM AttributedAlways ==
  ASSUME \A modules \in Sources : IsSource(modules), Offsets >= 4, BlockSizes > 2, From \subseteq Nat, ~Late
  PROVE  MCSpec => []Attributed
<1> DEFINE Inv == IsInput(input) /\ CoverageInv /\ ReadsInv
<1>1. MCInit => Inv
  BY InputInit, CoverageInit, ReadsInit
<1>2. Inv /\ [MCNext]_<<input, pvars>> => Inv'
  BY KindStays, CoverageNext, ReadsNext
<1>3. Inv => Attributed
  <2> SUFFICES ASSUME CoverageInv, ReadsInv PROVE Attributed
    OBVIOUS
  <2>1. ASSUME input.kind = "coverage", NEW fallback \in BOOLEAN
        PROVE  CoveredRight(input.modules, [i \in DOMAIN input.modules |-> input.modules[i].meant],
                            input.raw, Regions, fallback)
    <3>8. PICK modules \in Sources : modules = input.modules
      BY <2>1 DEF CoverageInv
    <3>9. PICK raw : raw = input.raw
      OBVIOUS
    <3>1. modules = input.modules /\ raw = input.raw
      BY <3>8, <3>9
    <3>2. IsSource(modules) /\ AreRegions(Regions)
      BY RegionsAre
    <3>3. AreBlocks(raw) /\ \A b \in raw : b.size \in {1, 2}
      BY <2>1, <3>1 DEF CoverageInv
    <3>4. PICK sizes \in Nat : sizes = BlockSizes
      BY WidthAssumption
    <3>5. 1 \in 0..(sizes - 1) /\ 2 \in 0..(sizes - 1)
      BY <3>4
    <3>6. \A b \in raw : b.size \in 0..(BlockSizes - 1)
      BY <3>3, <3>4, <3>5
    <3>7. CoveredRight(modules, [i \in DOMAIN modules |-> modules[i].meant], raw, Regions, fallback)
      BY <3>2, <3>3, <3>6, WrittenRight
    <3> QED BY <3>1, <3>7
  <2>2. ASSUME input.kind = "reads"
        PROVE  ReadRight(SubSeq(input.reads, 1, input.far), input.accesses)
    BY <2>2, ReadsAttributed
  <2> QED BY <2>1, <2>2 DEF Attributed
<1> QED
  BY <1>1, <1>2, <1>3, PTL DEF MCSpec

----------------------------------------------------------------------------
(* Names and addresses (Symbols). *)

\* A symbol, whatever its name is, as long as its words can be compared.
IsSymbol(s) ==
  /\ s = [name |-> s.name, address |-> s.address, size |-> s.size, kind |-> s.kind]
  /\ s.address \in Int /\ s.size \in Nat /\ s.name[1] \in Int

IsTable(table) ==
  /\ Len(table) \in Nat /\ table = [i \in 1..Len(table) |-> table[i]]
  /\ \A i \in 1..Len(table) : IsSymbol(table[i])

\* What comes first is not preceded by what comes later.
Ordered(table) == \A i, j \in 1..Len(table) : i < j => ~Precedes(table[j], table[i])

\* The places of the list, by what is in them and then as they are.
Ranked(table) ==
  {p \in (DOMAIN table) \X (DOMAIN table) :
     \/ Precedes(table[p[1]], table[p[2]])
     \/ ~Precedes(table[p[2]], table[p[1]]) /\ p[1] < p[2]}

LEMMA IsPlace ==
  ASSUME NEW table, IsTable(table), NEW i \in 1..Len(table), NEW j \in 1..Len(table)
  PROVE  <<i, j>> \in Ranked(table) <=> \/ Precedes(table[i], table[j])
                                        \/ ~Precedes(table[j], table[i]) /\ i < j
<1>1. PICK p : p = <<i, j>>
  OBVIOUS
<1>2. p \in (DOMAIN table) \X (DOMAIN table) /\ p[1] = i /\ p[2] = j
  <2>1. DOMAIN table = 1..Len(table)
    BY DEF IsTable
  <2> QED BY <1>1, <2>1
<1> QED
  BY <1>1, <1>2 DEF Ranked

\* The keys of a symbol that the order compares, one after the other.
Keys(s, a, k, w, c) ==
  /\ a = s.address /\ k = (IF s.kind = "function" THEN 0 ELSE 1)
  /\ w = s.name[1] /\ c = (IF s.name[2] THEN 0 ELSE 1)

LEMMA KeysAre ==
  ASSUME NEW s, IsSymbol(s)
  PROVE  \E a \in Int, k \in Int, w \in Int, c \in Int : Keys(s, a, k, w, c)
<1>1. PICK k \in Int : k = (IF s.kind = "function" THEN 0 ELSE 1)
  OBVIOUS
<1>2. PICK c \in Int : c = (IF s.name[2] THEN 0 ELSE 1)
  OBVIOUS
<1> QED
  BY <1>1, <1>2 DEF IsSymbol, Keys

Less(a, k, w, c, b, l, x, d) ==
  a < b \/ (a = b /\ (k < l \/ (k = l /\ (w < x \/ (w = x /\ c < d)))))

LEMMA PrecedesIs ==
  ASSUME NEW s, NEW t, NEW a \in Int, NEW k \in Int, NEW w \in Int, NEW c \in Int,
         NEW b \in Int, NEW l \in Int, NEW x \in Int, NEW d \in Int,
         Keys(s, a, k, w, c), Keys(t, b, l, x, d)
  PROVE  Precedes(s, t) <=> Less(a, k, w, c, b, l, x, d)
<1>2. Earlier(s.name, t.name) <=> w < x \/ (w = x /\ c < d)
  BY DEF Earlier, Keys
<1>3. (s.kind = "function" /\ t.kind # "function") <=> k < l
  BY DEF Keys
<1>4. ((s.kind = "function") = (t.kind = "function")) <=> k = l
  BY DEF Keys
<1>5. a = s.address /\ b = t.address
  BY DEF Keys
<1> QED
  BY <1>2, <1>3, <1>4, <1>5 DEF Precedes, Less

LEMMA PlacesOrdered == ASSUME NEW table, IsTable(table) PROVE Orders(Ranked(table), 1..Len(table))
<1>1. PICK n \in Nat : n = Len(table)
  BY DEF IsTable
<1>2. PICK R : R = Ranked(table)
  OBVIOUS
<1>3. \A i, j \in 1..n : <<i, j>> \in R <=> \/ Precedes(table[i], table[j])
                                            \/ ~Precedes(table[j], table[i]) /\ i < j
  BY <1>1, <1>2, IsPlace
<1>4. \A i \in 1..n : IsSymbol(table[i])
  BY <1>1 DEF IsTable
<1>5. ASSUME NEW i \in 1..n, NEW j \in 1..n, i # j PROVE <<i, j>> \in R \/ <<j, i>> \in R
  <2>1. i < j \/ j < i
    BY <1>5
  <2> QED BY <1>3, <2>1
<1>6. ASSUME NEW i \in 1..n PROVE <<i, i>> \notin R
  <2>1. PICK a \in Int, k \in Int, w \in Int, c \in Int : Keys(table[i], a, k, w, c)
    BY <1>4, KeysAre
  <2>2. Precedes(table[i], table[i]) <=> Less(a, k, w, c, a, k, w, c)
    BY <2>1, PrecedesIs
  <2>3. ~Precedes(table[i], table[i])
    BY <2>2 DEF Less
  <2>4. ~(i < i)
    OBVIOUS
  <2> QED BY <1>3, <2>3, <2>4
<1>7. ASSUME NEW i \in 1..n, NEW j \in 1..n, NEW h \in 1..n, <<i, j>> \in R, <<j, h>> \in R PROVE <<i, h>> \in R
  <2>1. PICK a \in Int, k \in Int, w \in Int, c \in Int : Keys(table[i], a, k, w, c)
    BY <1>4, KeysAre
  <2>2. PICK b \in Int, l \in Int, x \in Int, d \in Int : Keys(table[j], b, l, x, d)
    BY <1>4, KeysAre
  <2>3. PICK e \in Int, m \in Int, y \in Int, f \in Int : Keys(table[h], e, m, y, f)
    BY <1>4, KeysAre
  <2>4. Precedes(table[i], table[j]) <=> Less(a, k, w, c, b, l, x, d)
    BY <2>1, <2>2, PrecedesIs
  <2>5. Precedes(table[j], table[i]) <=> Less(b, l, x, d, a, k, w, c)
    BY <2>1, <2>2, PrecedesIs
  <2>6. Precedes(table[j], table[h]) <=> Less(b, l, x, d, e, m, y, f)
    BY <2>2, <2>3, PrecedesIs
  <2>7. Precedes(table[h], table[j]) <=> Less(e, m, y, f, b, l, x, d)
    BY <2>2, <2>3, PrecedesIs
  <2>8. Precedes(table[i], table[h]) <=> Less(a, k, w, c, e, m, y, f)
    BY <2>1, <2>3, PrecedesIs
  <2>9. Precedes(table[h], table[i]) <=> Less(e, m, y, f, a, k, w, c)
    BY <2>1, <2>3, PrecedesIs
  <2>10. Less(a, k, w, c, b, l, x, d) \/ (~Less(b, l, x, d, a, k, w, c) /\ i < j)
    BY <1>3, <1>7, <2>4, <2>5
  <2>11. Less(b, l, x, d, e, m, y, f) \/ (~Less(e, m, y, f, b, l, x, d) /\ j < h)
    BY <1>3, <1>7, <2>6, <2>7
  <2>12. Less(a, k, w, c, e, m, y, f) \/ (~Less(e, m, y, f, a, k, w, c) /\ i < h)
    BY <2>10, <2>11 DEF Less
  <2> QED BY <1>3, <2>8, <2>9, <2>12
<1> QED
  BY <1>1, <1>2, <1>5, <1>6, <1>7 DEF Orders

\* Sorting loses nothing and puts what has a smaller key first.
LEMMA SortedIs ==
  ASSUME NEW table, IsTable(table)
  PROVE  /\ IsTable(Sorted(table)) /\ Len(Sorted(table)) = Len(table)
         /\ Ordered(Sorted(table))
         /\ \A i \in 1..Len(table) : \E j \in 1..Len(table) : Sorted(table)[j] = table[i]
         /\ \A j \in 1..Len(table) : \E i \in 1..Len(table) : Sorted(table)[j] = table[i]
<1>1. PICK n \in Nat : n = Len(table)
  BY DEF IsTable
<1>2. DOMAIN table = 1..n
  BY <1>1 DEF IsTable
<1>3. PICK places : places = InOrder(1..n, Ranked(table))
  OBVIOUS
<1>4. /\ places \in Seq(1..n)
      /\ \A i \in 1..n : \E j \in 1..n : places[j] = i
      /\ \A i, j \in 1..n : i < j => <<places[i], places[j]>> \in Ranked(table)
      /\ Len(places) = n
  <2>1. PICK S : S = 1..n
    OBVIOUS
  <2>2. IsFiniteSet(S) /\ Cardinality(S) = n
    BY <2>1, FS_Interval
  <2>3. Orders(Ranked(table), S)
    BY <1>1, <2>1, PlacesOrdered
  <2>4. /\ InOrder(S, Ranked(table)) \in Seq(S) /\ Len(InOrder(S, Ranked(table))) = Cardinality(S)
        /\ \A x \in S : \E i \in 1..Cardinality(S) : InOrder(S, Ranked(table))[i] = x
        /\ \A i, j \in 1..Cardinality(S) : i < j => <<InOrder(S, Ranked(table))[i], InOrder(S, Ranked(table))[j]>> \in Ranked(table)
    BY <2>2, <2>3, InOrderIs
  <2> QED BY <1>3, <2>1, <2>2, <2>4
<1>5. PICK list : list = Sorted(table)
  OBVIOUS
<1>6. list = [k \in 1..n |-> table[places[k]]]
  BY <1>2, <1>3, <1>5 DEF Sorted, Ranked
<1>7. \A k \in 1..n : places[k] \in 1..n
  BY <1>4
<1>8. \A k \in 1..n : list[k] = table[places[k]]
  BY <1>6
<1>9. Len(list) = n /\ list = [k \in 1..n |-> list[k]]
  BY <1>6
<1>10. IsTable(list)
  BY <1>1, <1>7, <1>8, <1>9 DEF IsTable
<1>11. ASSUME NEW i \in 1..n, NEW j \in 1..n, i < j PROVE ~Precedes(list[j], list[i])
  <2>1. <<places[i], places[j]>> \in Ranked(table)
    BY <1>4, <1>11
  <2>2. PICK x \in 1..n, y \in 1..n : x = places[i] /\ y = places[j]
    BY <1>7
  <2>3. Precedes(table[x], table[y]) \/ ~Precedes(table[y], table[x])
    BY <1>1, <2>1, <2>2, IsPlace
  <2>4. ~(Precedes(table[x], table[y]) /\ Precedes(table[y], table[x]))
    <3>1. IsSymbol(table[x]) /\ IsSymbol(table[y])
      BY <1>1 DEF IsTable
    <3>2. PICK a \in Int, k \in Int, w \in Int, c \in Int : Keys(table[x], a, k, w, c)
      BY <3>1, KeysAre
    <3>3. PICK b \in Int, l \in Int, v \in Int, d \in Int : Keys(table[y], b, l, v, d)
      BY <3>1, KeysAre
    <3>4. Precedes(table[x], table[y]) <=> Less(a, k, w, c, b, l, v, d)
      BY <3>2, <3>3, PrecedesIs
    <3>5. Precedes(table[y], table[x]) <=> Less(b, l, v, d, a, k, w, c)
      BY <3>2, <3>3, PrecedesIs
    <3>6. ~(Less(a, k, w, c, b, l, v, d) /\ Less(b, l, v, d, a, k, w, c))
      BY DEF Less
    <3> QED BY <3>4, <3>5, <3>6
  <2> QED BY <1>8, <2>2, <2>3, <2>4
<1>12. Ordered(list)
  BY <1>9, <1>11 DEF Ordered
<1>13. ASSUME NEW i \in 1..n PROVE \E j \in 1..n : list[j] = table[i]
  <2>1. PICK j \in 1..n : places[j] = i
    BY <1>4
  <2> QED BY <1>8, <2>1
<1> QED
  BY <1>1, <1>5, <1>7, <1>8, <1>9, <1>10, <1>12, <1>13

\* A list in order: nothing is lost, and addresses rise.
InList(list, table) ==
  /\ Len(list) \in Nat /\ DOMAIN list = 1..Len(list)
  /\ \A i \in 1..Len(list) : list[i].address \in Int /\ list[i].size \in Nat
  /\ \A i, j \in 1..Len(list) : i <= j => list[i].address <= list[j].address
  /\ \A s : s \in ToSet(table) <=> \E i \in 1..Len(list) : s = list[i]

LEMMA SortedList ==
  ASSUME NEW table, IsTable(table)
  PROVE  InList(Sorted(table), table)
<1>1. PICK n \in Nat : n = Len(table)
  BY DEF IsTable
<1>2. PICK list : list = Sorted(table)
  OBVIOUS
<1>3. /\ IsTable(list) /\ Len(list) = n /\ Ordered(list)
      /\ \A i \in 1..n : \E j \in 1..n : list[j] = table[i]
      /\ \A j \in 1..n : \E i \in 1..n : list[j] = table[i]
  BY <1>1, <1>2, SortedIs
<1>4. DOMAIN list = 1..n /\ \A i \in 1..n : IsSymbol(list[i])
  BY <1>3 DEF IsTable
<1>5. \A i \in 1..n : list[i].address \in Int /\ list[i].size \in Nat
  BY <1>4 DEF IsSymbol
<1>6. ASSUME NEW i \in 1..n, NEW j \in 1..n, i <= j PROVE list[i].address <= list[j].address
  <2>1. CASE i = j
    BY <1>5, <2>1
  <2>2. CASE i < j
    <3>1. ~Precedes(list[j], list[i])
      BY <1>3, <2>2 DEF Ordered
    <3>2. ~(list[j].address < list[i].address)
      BY <3>1 DEF Precedes
    <3>3. PICK x \in Int, y \in Int : x = list[i].address /\ y = list[j].address
      BY <1>5
    <3> QED BY <3>2, <3>3
  <2> QED BY <1>6, <2>1, <2>2
<1>7. ToSet(table) = {table[i] : i \in 1..n}
  <2>1. DOMAIN table = 1..n
    BY <1>1 DEF IsTable
  <2> QED BY <2>1 DEF ToSet
<1>8. ASSUME NEW s PROVE s \in ToSet(table) <=> \E i \in 1..n : s = list[i]
  <2>1. ASSUME s \in ToSet(table) PROVE \E i \in 1..n : s = list[i]
    <3>1. PICK i \in 1..n : s = table[i]
      BY <1>7, <2>1
    <3>2. PICK j \in 1..n : list[j] = table[i]
      BY <1>3
    <3> QED BY <3>1, <3>2
  <2>2. ASSUME NEW j \in 1..n, s = list[j] PROVE s \in ToSet(table)
    <3>1. PICK i \in 1..n : list[j] = table[i]
      BY <1>3
    <3> QED BY <1>7, <2>2, <3>1
  <2> QED BY <2>1, <2>2
<1> QED
  BY <1>2, <1>3, <1>4, <1>5, <1>6, <1>8 DEF InList

\* No symbol is larger than what enclosing looks back.
Short(table) == \A s \in ToSet(table) : s.size <= Reach

\* enclosing finds the innermost of those that cover the address.
LEMMA EnclosingIs ==
  ASSUME NEW table, IsTable(table), Short(table), NEW a \in Int
  PROVE  /\ Covers(table, a) = {} => Enclosing(table, a) = {}
         /\ Covers(table, a) # {} => \E s \in Covers(table, a) :
              Enclosing(table, a) = Found(s, a) /\ \A t \in Covers(table, a) : t.address <= s.address
<1>1. PICK list : list = Sorted(table)
  OBVIOUS
<1>2. InList(list, table)
  BY <1>1, SortedList
<1>3. PICK n \in Nat : n = Len(list)
  BY <1>2 DEF InList
<1>4. /\ DOMAIN list = 1..n
      /\ \A i \in 1..n : list[i].address \in Int /\ list[i].size \in Nat
      /\ \A i, j \in 1..n : i <= j => list[i].address <= list[j].address
      /\ \A s : s \in ToSet(table) <=> \E i \in 1..n : s = list[i]
  BY <1>2, <1>3 DEF InList
<1>5. PICK covering : covering = {i \in Sized(list, a) : Reaches(list[i], a)}
  OBVIOUS
<1>6. PICK far : far = {i \in Sized(list, a) : a - list[i].address > Reach}
  OBVIOUS
<1>7. PICK last : last = Max(covering)
  OBVIOUS
<1>8. Enclosing(table, a) = IF covering = {} \/ \E i \in far : i > last THEN {} ELSE Found(list[last], a)
  BY <1>1, <1>5, <1>6, <1>7 DEF Enclosing
<1>9. \A i : i \in Sized(list, a) <=> i \in 1..n /\ list[i].address <= a /\ list[i].size > 0
  BY <1>4 DEF Sized, UpTo
<1>10. ASSUME NEW s PROVE s \in Covers(table, a) <=> \E i \in covering : s = list[i]
  <2>1. ASSUME s \in Covers(table, a) PROVE \E i \in covering : s = list[i]
    <3>1. PICK i \in 1..n : s = list[i]
      BY <1>4, <2>1 DEF Covers
    <3>2. s.size > 0 /\ Reaches(s, a)
      BY <2>1 DEF Covers
    <3>3. s.address <= a
      BY <3>2 DEF Reaches
    <3> QED BY <1>5, <1>9, <3>1, <3>2, <3>3
  <2>2. ASSUME NEW i \in covering, s = list[i] PROVE s \in Covers(table, a)
    <3>1. i \in 1..n /\ list[i].size > 0 /\ Reaches(list[i], a)
      BY <1>5, <1>9
    <3> QED BY <1>4, <2>2, <3>1 DEF Covers
  <2> QED BY <2>1, <2>2
<1>11. CASE covering = {}
  <2>1. Covers(table, a) = {}
    BY <1>10, <1>11
  <2> QED BY <1>8, <1>11, <2>1
<1>12. CASE covering # {}
  <2>1. covering \in SUBSET (0..n)
    <3>1. ASSUME NEW i \in covering PROVE i \in 0..n
      <4>1. i \in 1..n
        BY <1>5, <1>9
      <4> QED BY <4>1
    <3> QED BY <3>1
  <2>2. last \in covering /\ \A i \in covering : i <= last
    BY <1>7, <1>12, <2>1, MaxIs
  <2>3. last \in 1..n /\ list[last].size > 0 /\ Reaches(list[last], a)
    BY <1>5, <1>9, <2>2
  <2>4. PICK s : s = list[last]
    OBVIOUS
  <2>5. s \in Covers(table, a)
    BY <1>10, <2>2, <2>4
  <2>6. ASSUME NEW t \in Covers(table, a) PROVE t.address <= s.address
    <3>1. PICK i \in covering : t = list[i]
      BY <1>10
    <3>2. i \in 1..n /\ i <= last
      BY <1>5, <1>9, <2>2
    <3> QED BY <1>4, <2>3, <2>4, <3>1, <3>2
  <2>7. ASSUME NEW i \in far, i > last PROVE FALSE
    <3>1. i \in 1..n /\ a - list[i].address > Reach
      BY <1>6, <1>9
    <3>2. PICK x \in Int, y \in Int, z \in Nat : x = list[last].address /\ y = list[i].address /\ z = s.size
      BY <1>4, <2>3, <2>4, <3>1
    <3>3. x <= y
      BY <1>4, <2>3, <2>7, <3>1, <3>2
    <3>4. z > 0 /\ a < x + z
      BY <2>3, <2>4, <3>2 DEF Reaches
    <3>5. z <= Reach
      BY <2>5, <3>2 DEF Short, Covers
    <3>6. Reach \in Nat /\ a - y > Reach
      BY <3>1, <3>2, ReachAssumption
    <3> QED BY <3>3, <3>4, <3>5, <3>6
  <2>8. Enclosing(table, a) = Found(s, a)
    BY <1>8, <1>12, <2>4, <2>7
  <2> QED BY <2>5, <2>6, <2>8
<1> QED
  BY <1>11, <1>12

\* describe says what there is to say of the address.
LEMMA DescribeRight ==
  ASSUME NEW table, IsTable(table), Short(table), NEW a \in Int
  PROVE  DescribedRight(table, a) /\ \A f \in Describe(table, a) : \E s \in ToSet(table) : f = [symbol |-> s, offset |-> a - s.address]
<1>1. PICK list : list = Sorted(table)
  OBVIOUS
<1>2. InList(list, table)
  BY <1>1, SortedList
<1>3. PICK n \in Nat : n = Len(list)
  BY <1>2 DEF InList
<1>4. /\ DOMAIN list = 1..n
      /\ \A i \in 1..n : list[i].address \in Int /\ list[i].size \in Nat
      /\ \A i, j \in 1..n : i <= j => list[i].address <= list[j].address
      /\ \A s : s \in ToSet(table) <=> \E i \in 1..n : s = list[i]
  BY <1>2, <1>3 DEF InList
<1>5. \A s \in ToSet(table) : s.address \in Int /\ s.size \in Nat
  BY <1>4
<1>6. ASSUME NEW f, NEW s \in ToSet(table), f = [symbol |-> s, offset |-> a - s.address]
      PROVE  f.symbol = s /\ f.symbol.address + f.offset = a
  <2>1. PICK x \in Int : x = s.address
    BY <1>5
  <2>2. f.symbol = s /\ f.offset = a - x
    BY <1>6, <2>1
  <2>3. x + (a - x) = a
    OBVIOUS
  <2> QED BY <2>1, <2>2, <2>3
<1>7. PICK d : d = Describe(table, a)
  OBVIOUS
<1>8. CASE Covers(table, a) # {}
  <2>1. PICK s \in Covers(table, a) :
          Enclosing(table, a) = Found(s, a) /\ \A t \in Covers(table, a) : t.address <= s.address
    BY <1>8, EnclosingIs
  <2>2. PICK f : f = [symbol |-> s, offset |-> a - s.address]
    OBVIOUS
  <2>3. Enclosing(table, a) = {f}
    BY <2>1, <2>2 DEF Found
  <2>4. d = {f}
    BY <1>7, <2>3 DEF Describe
  <2>5. s \in ToSet(table)
    BY DEF Covers
  <2>6. f.symbol = s /\ f.symbol.address + f.offset = a
    BY <1>6, <2>2, <2>5
  <2>7. DescribedRight(table, a)
    BY <1>7, <1>8, <2>1, <2>4, <2>6 DEF DescribedRight
  <2> QED BY <1>7, <2>2, <2>4, <2>5, <2>7
<1>9. CASE Covers(table, a) = {}
  <2>1. Enclosing(table, a) = {}
    BY <1>9, EnclosingIs
  <2>2. PICK ends : ends = {i \in UpTo(list, a) :
                              \/ a - list[i].address > MaxOffset \/ list[i].size > 0
                              \/ Enclosing(table, list[i].address) = {}}
    OBVIOUS
  <2>3. PICK m, s : m = Max(ends) /\ s = list[m]
    OBVIOUS
  <2>4. d = IF ends = {} \/ a - s.address > MaxOffset \/ s.size > 0 THEN {} ELSE Found(s, a)
    BY <1>1, <1>7, <2>1, <2>2, <2>3 DEF Describe
  <2>5. \A i : i \in UpTo(list, a) <=> i \in 1..n /\ list[i].address <= a
    BY <1>4 DEF UpTo
  <2>6. ASSUME NEW t \in ToSet(table)
        PROVE  (Enclosing(table, t.address) = {}) <=> (Covers(table, t.address) = {})
    <3>1. t.address \in Int
      BY <1>5
    <3>2. /\ Covers(table, t.address) = {} => Enclosing(table, t.address) = {}
          /\ Covers(table, t.address) # {} => \E u \in Covers(table, t.address) :
               Enclosing(table, t.address) = Found(u, t.address)
      BY <3>1, EnclosingIs
    <3> QED BY <3>2 DEF Found
  <2>7. PICK alone : alone = {t \in ToSet(table) : t.address <= a /\ t.size = 0 /\ Covers(table, t.address) = {}}
    OBVIOUS
  <2>8. PICK marks : marks = alone \cup {t \in ToSet(table) : t.size > 0 /\ t.address <= a}
    OBVIOUS
  <2>9. Standing(table, a) = {t \in alone : a - t.address <= MaxOffset /\ \A u \in marks : u.address <= t.address}
    BY <2>7, <2>8 DEF Standing
  <2>10. ASSUME NEW u \in marks PROVE \E i \in ends : u = list[i]
    <3>1. u \in ToSet(table) /\ u.address <= a
      BY <2>7, <2>8
    <3>2. PICK i \in 1..n : u = list[i]
      BY <1>4, <3>1
    <3>3. u.size > 0 \/ Enclosing(table, u.address) = {}
      BY <2>6, <2>7, <2>8, <3>1
    <3> QED BY <2>2, <2>5, <3>1, <3>2, <3>3
  <2>11. ends \in SUBSET (0..n)
    <3>1. ASSUME NEW i \in ends PROVE i \in 0..n
      <4>1. i \in 1..n
        BY <2>2, <2>5
      <4> QED BY <4>1
    <3> QED BY <3>1
  <2>12. ends # {} => m \in ends /\ \A i \in ends : i <= m
    BY <2>3, <2>11, MaxIs
  <2>13. ends # {} => m \in 1..n /\ s \in ToSet(table) /\ s.address <= a
    BY <1>4, <2>2, <2>3, <2>5, <2>12
  <2>14. ASSUME NEW u \in marks PROVE ends # {} /\ u.address <= s.address
    <3>1. PICK i \in ends : u = list[i]
      BY <2>10
    <3>2. i \in 1..n /\ i <= m /\ m \in 1..n
      BY <2>2, <2>5, <2>12, <2>13
    <3> QED BY <1>4, <2>3, <3>1, <3>2
  <2>15. ASSUME ends # {}, ~(a - s.address > MaxOffset), ~(s.size > 0) PROVE s \in Standing(table, a)
    <3>1. m \in ends /\ s \in ToSet(table) /\ s.address <= a
      BY <2>12, <2>13, <2>15
    <3>2. PICK x \in Int : x = s.address
      BY <1>5, <3>1
    <3>3. Enclosing(table, s.address) = {}
      BY <2>2, <2>3, <2>15, <3>1
    <3>4. Covers(table, s.address) = {}
      BY <2>6, <3>1, <3>3
    <3>5. s.size = 0
      BY <1>5, <2>15, <3>1
    <3>6. s \in alone
      BY <2>7, <3>1, <3>4, <3>5
    <3>7. a - s.address <= MaxOffset
      BY <2>15, <3>2, ReachAssumption
    <3> QED BY <2>9, <2>14, <3>6, <3>7
  <2>16. ASSUME Standing(table, a) # {} PROVE ends # {} /\ ~(a - s.address > MaxOffset) /\ ~(s.size > 0)
    <3>1. PICK t : t \in Standing(table, a)
      BY <2>16
    <3>2. t \in alone /\ a - t.address <= MaxOffset /\ \A u \in marks : u.address <= t.address
      BY <2>9, <3>1
    <3>3. t \in marks /\ t \in ToSet(table) /\ Covers(table, t.address) = {}
      BY <2>7, <2>8, <3>2
    <3>4. ends # {} /\ t.address <= s.address
      BY <2>14, <3>3
    <3>5. s \in ToSet(table) /\ s.address <= a
      BY <2>13, <3>4
    <3>6. PICK x \in Int, y \in Int, z \in Nat : x = t.address /\ y = s.address /\ z = s.size
      BY <1>5, <3>3, <3>5
    <3>7. ~(a - s.address > MaxOffset)
      BY <3>2, <3>4, <3>6, ReachAssumption
    <3>8. ASSUME s.size > 0 PROVE FALSE
      <4>1. s \in marks
        BY <2>8, <3>5, <3>8
      <4>2. y = x
        BY <3>2, <3>4, <3>6, <4>1
      <4>3. Reaches(s, s.address)
        BY <3>6, <3>8 DEF Reaches
      <4>4. s \in Covers(table, t.address)
        BY <3>5, <3>6, <3>8, <4>2, <4>3 DEF Covers
      <4> QED BY <3>3, <4>4
    <3> QED BY <3>4, <3>7, <3>8
  <2>17. CASE ends = {} \/ a - s.address > MaxOffset \/ s.size > 0
    <3>1. d = {} /\ Standing(table, a) = {}
      BY <2>4, <2>16, <2>17
    <3>2. DescribedRight(table, a)
      BY <1>7, <1>9, <3>1 DEF DescribedRight
    <3> QED BY <1>7, <3>1, <3>2
  <2>18. CASE ~(ends = {} \/ a - s.address > MaxOffset \/ s.size > 0)
    <3>1. PICK f : f = [symbol |-> s, offset |-> a - s.address]
      OBVIOUS
    <3>2. d = {f}
      BY <2>4, <2>18, <3>1 DEF Found
    <3>3. s \in ToSet(table) /\ s \in Standing(table, a)
      BY <2>13, <2>15, <2>18
    <3>4. f.symbol = s /\ f.symbol.address + f.offset = a
      BY <1>6, <3>1, <3>3
    <3>5. DescribedRight(table, a)
      BY <1>7, <1>9, <3>2, <3>3, <3>4 DEF DescribedRight
    <3> QED BY <1>7, <3>1, <3>2, <3>3, <3>5
  <2> QED BY <2>17, <2>18
<1> QED
  BY <1>8, <1>9

\* Typed back, a name that is nobody else's means the symbol it is of.
LEMMA TypedBackRight ==
  ASSUME NEW table, IsTable(table), Short(table), NEW a \in Int,
         \A i, j \in 1..Len(table) : table[i].name = table[j].name => i = j
  PROVE  TypedBack(table, a)
<1> SUFFICES ASSUME NEW f \in Describe(table, a), NEW t \in Lookup(table, f.symbol.name)
             PROVE  t.address + f.offset = a
  BY DEF TypedBack
<1>1. PICK n \in Nat : n = Len(table)
  BY DEF IsTable
<1>2. DOMAIN table = 1..n
  BY <1>1 DEF IsTable
<1>3. PICK s \in ToSet(table) : f = [symbol |-> s, offset |-> a - s.address]
  BY DescribeRight
<1>4. f.symbol = s /\ f.offset = a - s.address
  BY <1>3
<1>5. PICK i \in 1..n : s = table[i]
  BY <1>2 DEF ToSet
<1>6. PICK exact : exact = {j \in DOMAIN table : table[j].name = s.name}
  OBVIOUS
<1>7. i \in exact /\ \A j \in exact : j = i
  BY <1>1, <1>2, <1>5, <1>6
<1>8. Min(exact) \in exact
  <2>1. exact \in SUBSET Nat
    BY <1>2, <1>6
  <2> QED BY <1>7, <2>1, MinIs
<1>9. Lookup(table, s.name) = {table[Min(exact)]}
  BY <1>6, <1>7 DEF Lookup
<1>10. t = s
  BY <1>4, <1>5, <1>7, <1>8, <1>9
<1>11. PICK x \in Int : x = s.address
  BY <1>1, <1>5 DEF IsTable, IsSymbol
<1>12. x + (a - x) = a
  OBVIOUS
<1> QED
  BY <1>4, <1>10, <1>11, <1>12

\* What is in order already stays as it is.
LEMMA SortedAgain ==
  ASSUME NEW table, IsTable(table), Ordered(table)
  PROVE  Sorted(table) = table
<1>1. PICK n \in Nat : n = Len(table)
  BY DEF IsTable
<1>2. DOMAIN table = 1..n /\ table = [k \in 1..n |-> table[k]]
  BY <1>1 DEF IsTable
<1>3. PICK R : R = Ranked(table)
  OBVIOUS
<1>4. ASSUME NEW i \in 1..n, NEW j \in 1..n PROVE <<i, j>> \in R <=> i < j
  <2>1. <<i, j>> \in R <=> Precedes(table[i], table[j]) \/ (~Precedes(table[j], table[i]) /\ i < j)
    BY <1>1, <1>3, IsPlace
  <2>2. i < j => ~Precedes(table[j], table[i])
    BY <1>1 DEF Ordered
  <2>3. j < i => ~Precedes(table[i], table[j])
    BY <1>1 DEF Ordered
  <2>4. i = j => <<i, j>> \notin R
    BY <1>1, <1>3, PlacesOrdered DEF Orders
  <2>5. i < j \/ j < i \/ i = j
    OBVIOUS
  <2>6. ~(j < i /\ i < j)
    OBVIOUS
  <2> QED BY <2>1, <2>2, <2>3, <2>4, <2>5, <2>6
<1>5. PICK S : S = 1..n
  OBVIOUS
<1>6. Cardinality(S) = n
  BY <1>5, FS_Interval
<1>7. ASSUME NEW x \in 1..n PROVE Cardinality({y \in S : <<y, x>> \in R}) = x - 1
  <2>1. PICK before : before = 1..(x - 1)
    OBVIOUS
  <2>2. {y \in S : <<y, x>> \in R} = before
    BY <1>4, <1>5, <2>1
  <2>3. Cardinality(before) = x - 1
    <3>1. 1 \in Int /\ x - 1 \in Int /\ (x - 1) - 1 + 1 = x - 1
      OBVIOUS
    <3> QED BY <2>1, <3>1, FS_Interval
  <2> QED BY <2>2, <2>3
<1>8. PICK places : places = InOrder(S, R)
  OBVIOUS
<1>9. ASSUME NEW i \in 1..n PROVE places[i] = i
  <2>1. PICK y : y = (CHOOSE x \in S : Cardinality({z \in S : <<z, x>> \in R}) = i - 1)
    OBVIOUS
  <2>2. places[i] = y
    BY <1>6, <1>8, <2>1 DEF InOrder
  <2>3. i \in S /\ Cardinality({z \in S : <<z, i>> \in R}) = i - 1
    BY <1>5, <1>7
  <2>4. y \in S /\ Cardinality({z \in S : <<z, y>> \in R}) = i - 1
    BY <2>1, <2>3
  <2>5. y \in 1..n /\ Cardinality({z \in S : <<z, y>> \in R}) = y - 1
    BY <1>5, <1>7, <2>4
  <2> QED BY <2>2, <2>4, <2>5
<1>10. Sorted(table) = [k \in 1..n |-> table[places[k]]]
  BY <1>2, <1>3, <1>5, <1>8 DEF Sorted, Ranked
<1>11. [k \in 1..n |-> table[places[k]]] = [k \in 1..n |-> table[k]]
  BY <1>9
<1> QED
  BY <1>2, <1>10, <1>11

\* A list, entry by entry at addresses `delta` further.
IsMoved(moved, list, delta) ==
  /\ Len(moved) = Len(list) /\ DOMAIN moved = 1..Len(list)
  /\ \A i \in 1..Len(list) : moved[i] = [list[i] EXCEPT !.address = @ + delta]

\* The same symbol at an address `delta` further.
IsFurther(sym, other, delta) ==
  /\ other = [name |-> sym.name, address |-> sym.address + delta, size |-> sym.size, kind |-> sym.kind]
  /\ other.name = sym.name /\ other.address = sym.address + delta
  /\ other.size = sym.size /\ other.kind = sym.kind

LEMMA MovedEntry ==
  ASSUME NEW list, IsTable(list), NEW delta \in Int, NEW moved, IsMoved(moved, list, delta), NEW i \in 1..Len(list)
  PROVE  IsFurther(list[i], moved[i], delta)
<1>1. PICK s : s = list[i]
  OBVIOUS
<1>2. s = [name |-> s.name, address |-> s.address, size |-> s.size, kind |-> s.kind]
  BY <1>1 DEF IsTable, IsSymbol
<1>3. PICK name, address, size, kind : name = s.name /\ address = s.address /\ size = s.size /\ kind = s.kind
  OBVIOUS
<1>4. s = [name |-> name, address |-> address, size |-> size, kind |-> kind]
  BY <1>2, <1>3
<1>5. PICK t : t = [s EXCEPT !.address = address + delta]
  OBVIOUS
<1>6. t = [name |-> name, address |-> address + delta, size |-> size, kind |-> kind]
  BY <1>4, <1>5
<1>7. moved[i] = t
  BY <1>1, <1>3, <1>5 DEF IsMoved
<1>8. t.name = name /\ t.address = address + delta /\ t.size = size /\ t.kind = kind
  BY <1>6
<1> QED
  BY <1>1, <1>3, <1>6, <1>7, <1>8 DEF IsFurther

LEMMA RebasedTable ==
  ASSUME NEW table, IsTable(table), NEW delta \in Int, delta # 0
  PROVE  /\ IsMoved(Rebase(table, delta), Sorted(table), delta)
         /\ IsTable(Rebase(table, delta)) /\ Sorted(Rebase(table, delta)) = Rebase(table, delta)
<1>1. PICK list : list = Sorted(table)
  OBVIOUS
<1>2. IsTable(list) /\ Ordered(list)
  BY <1>1, SortedIs
<1>3. PICK n \in Nat : n = Len(list)
  BY <1>2 DEF IsTable
<1>4. DOMAIN list = 1..n
  BY <1>2, <1>3 DEF IsTable
<1>5. PICK moved : moved = Rebase(table, delta)
  OBVIOUS
<1>6. moved = [i \in 1..n |-> [list[i] EXCEPT !.address = @ + delta]]
  BY <1>1, <1>4, <1>5 DEF Rebase
<1>7. IsMoved(moved, list, delta)
  BY <1>3, <1>6 DEF IsMoved
<1>8. ASSUME NEW i \in 1..n
      PROVE  /\ moved[i] = [name |-> list[i].name, address |-> list[i].address + delta,
                            size |-> list[i].size, kind |-> list[i].kind]
             /\ moved[i].name = list[i].name /\ moved[i].address = list[i].address + delta
             /\ moved[i].size = list[i].size /\ moved[i].kind = list[i].kind
  <2>1. i \in 1..Len(list)
    BY <1>3
  <2>2. IsFurther(list[i], moved[i], delta)
    BY <1>2, <1>7, <2>1, MovedEntry
  <2> QED BY <2>2 DEF IsFurther
<1>9. \A i \in 1..n : list[i].address \in Int /\ list[i].size \in Nat /\ list[i].name[1] \in Int
  BY <1>2, <1>3 DEF IsTable, IsSymbol
<1>10. IsTable(moved)
  <2>1. Len(moved) = n /\ moved = [i \in 1..n |-> moved[i]]
    BY <1>6
  <2>2. ASSUME NEW i \in 1..n PROVE IsSymbol(moved[i])
    <3>1. moved[i] = [name |-> moved[i].name, address |-> moved[i].address,
                      size |-> moved[i].size, kind |-> moved[i].kind]
      BY <1>8
    <3>2. moved[i].address \in Int /\ moved[i].size \in Nat /\ moved[i].name[1] \in Int
      <4>1. PICK x \in Int : x = list[i].address
        BY <1>9
      <4>2. moved[i].address = x + delta /\ moved[i].size = list[i].size /\ moved[i].name = list[i].name
        BY <1>8, <4>1
      <4> QED BY <1>9, <4>2
    <3> QED BY <3>1, <3>2 DEF IsSymbol
  <2> QED BY <2>1, <2>2 DEF IsTable
<1>11. ASSUME NEW i \in 1..n, NEW j \in 1..n, i < j PROVE ~Precedes(moved[j], moved[i])
  <2>1. ~Precedes(list[j], list[i])
    BY <1>2, <1>3, <1>11 DEF Ordered
  <2>2. PICK x \in Int, y \in Int : x = list[i].address /\ y = list[j].address
    BY <1>9
  <2>3. moved[i].address = x + delta /\ moved[j].address = y + delta
    BY <1>8, <2>2
  <2>4. moved[j].address < moved[i].address <=> list[j].address < list[i].address
    BY <2>2, <2>3
  <2>5. moved[j].address = moved[i].address <=> list[j].address = list[i].address
    BY <2>2, <2>3
  <2>6. moved[i].name = list[i].name /\ moved[j].name = list[j].name
        /\ moved[i].kind = list[i].kind /\ moved[j].kind = list[j].kind
    BY <1>8
  <2> QED BY <2>1, <2>4, <2>5, <2>6 DEF Precedes
<1>12. Ordered(moved)
  <2>1. Len(moved) = n
    BY <1>3, <1>7 DEF IsMoved
  <2> QED BY <1>11, <2>1 DEF Ordered
<1>13. Sorted(moved) = moved
  BY <1>10, <1>12, SortedAgain
<1> QED
  BY <1>1, <1>5, <1>7, <1>10, <1>13

\* What was found, at an address further on.
Further(found, delta) == {[f EXCEPT !.symbol.address = @ + delta] : f \in found}

LEMMA FurtherNone ==
  ASSUME NEW found, NEW delta
  PROVE  /\ found = {} <=> Further(found, delta) = {}
<1> QED
  BY DEF Further

LEMMA FoundMoved ==
  ASSUME NEW list, IsTable(list), NEW delta \in Int, NEW moved, IsMoved(moved, list, delta),
         NEW i \in 1..Len(list), NEW a \in Int
  PROVE  Further(Found(list[i], a), delta) = Found(moved[i], a + delta)
<1>1. PICK s : s = list[i]
  OBVIOUS
<1>2. PICK x \in Int : x = s.address
  BY <1>1 DEF IsTable, IsSymbol
<1>3. PICK t : t = [s EXCEPT !.address = x + delta]
  OBVIOUS
<1>4. moved[i] = t /\ t.address = x + delta
  <2>1. moved[i] = t
    BY <1>1, <1>2, <1>3 DEF IsMoved
  <2>2. IsFurther(list[i], moved[i], delta)
    BY MovedEntry
  <2>3. moved[i].address = list[i].address + delta
    BY <2>2 DEF IsFurther
  <2> QED BY <1>1, <1>2, <2>1, <2>3
<1>5. PICK o \in Int : o = a - x
  OBVIOUS
<1>6. PICK f : f = [symbol |-> s, offset |-> o]
  OBVIOUS
<1>7. PICK g : g = [symbol |-> t, offset |-> o]
  OBVIOUS
<1>8. Found(s, a) = {f}
  BY <1>2, <1>5, <1>6 DEF Found
<1>9. (a + delta) - t.address = o
  BY <1>4, <1>5
<1>10. Found(t, a + delta) = {g}
  BY <1>7, <1>9 DEF Found
<1>11. PICK h : h = [f EXCEPT !.symbol.address = @ + delta]
  OBVIOUS
<1>12. h = g
  <2>1. f.symbol = s
    BY <1>6
  <2>2. h = [f EXCEPT !.symbol = [s EXCEPT !.address = x + delta]]
    BY <1>2, <1>11, <2>1
  <2>3. [f EXCEPT !.symbol = t] = g
    BY <1>6, <1>7
  <2> QED BY <1>3, <2>2, <2>3
<1>13. Further(Found(s, a), delta) = {g}
  BY <1>8, <1>11, <1>12 DEF Further
<1> QED
  BY <1>1, <1>4, <1>10, <1>13

\* What encloses an address encloses it where both have moved to.
LEMMA EnclosingMoved ==
  ASSUME NEW table, IsTable(table), NEW delta \in Int, delta # 0, NEW a \in Int
  PROVE  Further(Enclosing(table, a), delta) = Enclosing(Rebase(table, delta), a + delta)
<1>1. PICK list, moved : list = Sorted(table) /\ moved = Rebase(table, delta)
  OBVIOUS
<1>2. IsTable(list) /\ IsMoved(moved, list, delta) /\ IsTable(moved) /\ Sorted(moved) = moved
  BY <1>1, RebasedTable, SortedIs
<1>3. PICK n \in Nat : n = Len(list)
  BY <1>2 DEF IsTable
<1>4. DOMAIN list = 1..n /\ DOMAIN moved = 1..n
  BY <1>2, <1>3 DEF IsTable, IsMoved
<1>5. \A i \in 1..n : list[i].address \in Int /\ list[i].size \in Nat
  BY <1>2, <1>3 DEF IsTable, IsSymbol
<1>6. ASSUME NEW i \in 1..n PROVE moved[i].address = list[i].address + delta /\ moved[i].size = list[i].size
  <2>1. IsTable(list) /\ IsMoved(moved, list, delta) /\ i \in 1..Len(list)
    BY <1>2, <1>3
  <2>2. IsFurther(list[i], moved[i], delta)
    BY <2>1, MovedEntry
  <2> QED BY <2>2 DEF IsFurther
<1> DEFINE covering(l, b) == {i \in Sized(l, b) : Reaches(l[i], b)}
<1> DEFINE far(l, b) == {i \in Sized(l, b) : b - l[i].address > Reach}
<1>7. ASSUME NEW i PROVE i \in Sized(list, a) <=> i \in 1..n /\ list[i].address <= a /\ list[i].size > 0
  BY <1>4 DEF Sized, UpTo
<1>8. ASSUME NEW i PROVE i \in Sized(moved, a + delta) <=> i \in 1..n /\ list[i].address <= a /\ list[i].size > 0
  <2>1. i \in Sized(moved, a + delta) <=> i \in 1..n /\ moved[i].address <= a + delta /\ moved[i].size > 0
    BY <1>4 DEF Sized, UpTo
  <2>2. CASE i \in 1..n
    <3>1. PICK x \in Int : x = list[i].address
      BY <1>5, <2>2
    <3>2. moved[i].address = x + delta /\ moved[i].size = list[i].size
      BY <1>6, <2>2, <3>1
    <3> QED BY <2>1, <3>1, <3>2
  <2>3. CASE i \notin 1..n
    BY <2>1, <2>3
  <2> QED BY <2>2, <2>3
<1>9. Sized(moved, a + delta) = Sized(list, a)
  BY <1>7, <1>8
<1>10. ASSUME NEW i \in 1..n
       PROVE  /\ Reaches(moved[i], a + delta) <=> Reaches(list[i], a)
              /\ (a + delta) - moved[i].address > Reach <=> a - list[i].address > Reach
  <2>1. PICK x \in Int, z \in Nat : x = list[i].address /\ z = list[i].size
    BY <1>5
  <2>2. moved[i].address = x + delta /\ moved[i].size = z
    BY <1>6, <2>1
  <2>3. Reach \in Nat
    BY ReachAssumption
  <2>4. Reaches(list[i], a) <=> x <= a /\ a < x + (IF z = 0 THEN 1 ELSE z)
    BY <2>1 DEF Reaches
  <2>5. Reaches(moved[i], a + delta) <=> x + delta <= a + delta /\ a + delta < (x + delta) + (IF z = 0 THEN 1 ELSE z)
    BY <2>2 DEF Reaches
  <2>6. PICK y \in Int : y = (IF z = 0 THEN 1 ELSE z)
    OBVIOUS
  <2>7. (x + delta <= a + delta /\ a + delta < (x + delta) + y) <=> (x <= a /\ a < x + y)
    OBVIOUS
  <2>8. (a + delta) - moved[i].address = a - list[i].address
    BY <2>1, <2>2
  <2> QED BY <2>4, <2>5, <2>6, <2>7, <2>8
<1>11. \A i \in Sized(list, a) : i \in 1..n
  BY <1>7
<1>12. covering(moved, a + delta) = covering(list, a)
  BY <1>9, <1>10, <1>11
<1>13. far(moved, a + delta) = far(list, a)
  BY <1>9, <1>10, <1>11
<1>14. PICK last : last = Max(covering(list, a))
  OBVIOUS
<1>15. Enclosing(table, a) = IF covering(list, a) = {} \/ \E i \in far(list, a) : i > last THEN {} ELSE Found(list[last], a)
  BY <1>1, <1>14 DEF Enclosing
<1>16. Enclosing(moved, a + delta) = IF covering(list, a) = {} \/ \E i \in far(list, a) : i > last THEN {} ELSE Found(moved[last], a + delta)
  <2>1. Enclosing(moved, a + delta) =
          IF covering(moved, a + delta) = {} \/ \E i \in far(moved, a + delta) : i > Max(covering(moved, a + delta))
          THEN {} ELSE Found(moved[Max(covering(moved, a + delta))], a + delta)
    BY <1>2 DEF Enclosing
  <2> QED BY <1>12, <1>13, <1>14, <2>1
<1>17. CASE covering(list, a) = {} \/ \E i \in far(list, a) : i > last
  BY <1>1, <1>15, <1>16, <1>17, FurtherNone
<1>18. CASE ~(covering(list, a) = {} \/ \E i \in far(list, a) : i > last)
  <2>1. covering(list, a) \in SUBSET (0..n)
    <3>1. ASSUME NEW i \in covering(list, a) PROVE i \in 0..n
      <4>1. i \in 1..n
        BY <1>11
      <4> QED BY <4>1
    <3> QED BY <3>1
  <2>2. last \in covering(list, a)
    <3> HIDE DEF covering
    <3> QED BY <1>14, <1>18, <2>1, MaxIs
  <2>3. last \in 1..Len(list)
    BY <1>3, <1>11, <2>2
  <2>4. Further(Found(list[last], a), delta) = Found(moved[last], a + delta)
    BY <1>2, <2>3, FoundMoved
  <2> QED BY <1>1, <1>15, <1>16, <1>18, <2>4
<1> QED
  BY <1>17, <1>18

\* The table where it was moved to says what it said where it was.
LEMMA RebaseRight ==
  ASSUME NEW table, IsTable(table), NEW delta \in Int, delta # 0, NEW a \in Int
  PROVE  RebasedRight(table, a, delta)
<1>1. PICK list, moved : list = Sorted(table) /\ moved = Rebase(table, delta)
  OBVIOUS
<1>2. IsTable(list) /\ IsMoved(moved, list, delta) /\ IsTable(moved) /\ Sorted(moved) = moved
  BY <1>1, RebasedTable, SortedIs
<1>3. PICK n \in Nat : n = Len(list)
  BY <1>2 DEF IsTable
<1>4. DOMAIN list = 1..n /\ DOMAIN moved = 1..n
  BY <1>2, <1>3 DEF IsTable, IsMoved
<1>5. \A i \in 1..n : list[i].address \in Int /\ list[i].size \in Nat
  BY <1>2, <1>3 DEF IsTable, IsSymbol
<1>6. ASSUME NEW i \in 1..n PROVE moved[i].address = list[i].address + delta /\ moved[i].size = list[i].size
  <2>1. IsTable(list) /\ IsMoved(moved, list, delta) /\ i \in 1..Len(list)
    BY <1>2, <1>3
  <2>2. IsFurther(list[i], moved[i], delta)
    BY <2>1, MovedEntry
  <2> QED BY <2>2 DEF IsFurther
<1>7. ASSUME NEW b \in Int
      PROVE  /\ Further(Enclosing(table, b), delta) = Enclosing(moved, b + delta)
             /\ Enclosing(table, b) = {} <=> Enclosing(moved, b + delta) = {}
  <2>1. Further(Enclosing(table, b), delta) = Enclosing(moved, b + delta)
    BY <1>1, EnclosingMoved
  <2> QED BY <2>1, FurtherNone
<1> DEFINE ends(t, l, b) == {i \in UpTo(l, b) : \/ b - l[i].address > MaxOffset \/ l[i].size > 0
                                              \/ Enclosing(t, l[i].address) = {}}
<1>8. ASSUME NEW i \in 1..n
      PROVE  /\ moved[i].address <= a + delta <=> list[i].address <= a
             /\ (a + delta) - moved[i].address = a - list[i].address
             /\ Enclosing(moved, moved[i].address) = {} <=> Enclosing(table, list[i].address) = {}
  <2>1. PICK x \in Int : x = list[i].address
    BY <1>5
  <2>2. moved[i].address = x + delta
    BY <1>6, <2>1
  <2>3. x + delta <= a + delta <=> x <= a
    OBVIOUS
  <2>4. (a + delta) - (x + delta) = a - x
    OBVIOUS
  <2>5. Enclosing(table, x) = {} <=> Enclosing(moved, x + delta) = {}
    BY <1>7
  <2> QED BY <2>1, <2>2, <2>3, <2>4, <2>5
<1>9. UpTo(moved, a + delta) = UpTo(list, a)
  BY <1>4, <1>8 DEF UpTo
<1>10. \A i \in UpTo(list, a) : i \in 1..n
  BY <1>4 DEF UpTo
<1>11. ends(moved, moved, a + delta) = ends(table, list, a)
  BY <1>6, <1>8, <1>9, <1>10
<1>12. PICK m : m = Max(ends(table, list, a))
  OBVIOUS
<1>13. Describe(table, a) =
         IF Enclosing(table, a) # {} THEN Enclosing(table, a)
         ELSE IF ends(table, list, a) = {} \/ a - list[m].address > MaxOffset \/ list[m].size > 0 THEN {}
         ELSE Found(list[m], a)
  BY <1>1, <1>12 DEF Describe
<1>14. Describe(moved, a + delta) =
         IF Enclosing(moved, a + delta) # {} THEN Enclosing(moved, a + delta)
         ELSE IF ends(table, list, a) = {} \/ (a + delta) - moved[m].address > MaxOffset \/ moved[m].size > 0 THEN {}
         ELSE Found(moved[m], a + delta)
  <2>1. Describe(moved, a + delta) =
          IF Enclosing(moved, a + delta) # {} THEN Enclosing(moved, a + delta)
          ELSE IF \/ ends(moved, moved, a + delta) = {}
                  \/ (a + delta) - moved[Max(ends(moved, moved, a + delta))].address > MaxOffset
                  \/ moved[Max(ends(moved, moved, a + delta))].size > 0 THEN {}
          ELSE Found(moved[Max(ends(moved, moved, a + delta))], a + delta)
    BY <1>2 DEF Describe
  <2> QED BY <1>11, <1>12, <2>1
<1>19. SUFFICES Further(Describe(table, a), delta) = Describe(moved, a + delta)
  BY <1>1 DEF RebasedRight, Further
<1>15. CASE Enclosing(table, a) # {}
  BY <1>7, <1>13, <1>14, <1>15
<1>16. CASE Enclosing(table, a) = {} /\ ends(table, list, a) = {}
  BY <1>7, <1>13, <1>14, <1>16, FurtherNone
<1>17. CASE Enclosing(table, a) = {} /\ ends(table, list, a) # {}
  <2>1. ends(table, list, a) \in SUBSET (0..n)
    <3>1. ASSUME NEW i \in ends(table, list, a) PROVE i \in 0..n
      <4>1. i \in 1..n
        BY <1>10
      <4> QED BY <4>1
    <3> QED BY <3>1
  <2>2. m \in ends(table, list, a)
    <3> HIDE DEF ends
    <3> QED BY <1>12, <1>17, <2>1, MaxIs
  <2>3. m \in 1..n
    BY <1>10, <2>2
  <2>4. Further(Found(list[m], a), delta) = Found(moved[m], a + delta)
    BY <1>2, <1>3, <2>3, FoundMoved
  <2>5. (a + delta) - moved[m].address = a - list[m].address /\ moved[m].size = list[m].size
    BY <1>6, <1>8, <2>3
  <2>6. Enclosing(moved, a + delta) = {}
    BY <1>7, <1>17
  <2>7. CASE a - list[m].address > MaxOffset \/ list[m].size > 0
    <3>1. Describe(table, a) = {} /\ Describe(moved, a + delta) = {}
      BY <1>13, <1>14, <1>17, <2>5, <2>6, <2>7
    <3> QED BY <3>1, FurtherNone
  <2>8. CASE ~(a - list[m].address > MaxOffset \/ list[m].size > 0)
    <3>1. Describe(table, a) = Found(list[m], a) /\ Describe(moved, a + delta) = Found(moved[m], a + delta)
      BY <1>13, <1>14, <1>17, <2>5, <2>6, <2>8
    <3> QED BY <2>4, <3>1
  <2> QED BY <2>7, <2>8
<1> QED
  BY <1>15, <1>16, <1>17

\* The symbols there may be, and a table of them in which no name comes twice.
AllSymbols == {Symbol(name, a, size, Kind(size)) : name \in NameSet, a \in Addresses, size \in Sizes}
SymbolsInv ==
  input.kind = "symbols" =>
    /\ input.table \in Seq(AllSymbols)
    /\ \A i, j \in 1..Len(input.table) : input.table[i].name = input.table[j].name => i = j

LEMMA AreSymbols ==
  ASSUME Spelled \subseteq Nat, Spelled # {}, Addresses \subseteq Nat, Sizes \subseteq 0..Reach, NEW s \in AllSymbols
  PROVE  IsSymbol(s) /\ s.size <= Reach
<1>1. PICK name \in NameSet, a \in Addresses, size \in Sizes : s = Symbol(name, a, size, Kind(size))
  BY DEF AllSymbols
<1>2. PICK kind : kind = Kind(size)
  OBVIOUS
<1>3. s = [name |-> name, address |-> a, size |-> size, kind |-> kind]
  BY <1>1, <1>2 DEF Symbol
<1>4. s.name = name /\ s.address = a /\ s.size = size /\ s.kind = kind
  BY <1>3
<1>5. name[1] \in Int
  <2>1. PICK m : m = Min(Spelled)
    OBVIOUS
  <2>2. m \in Spelled
    <3>1. Spelled \in SUBSET Nat /\ Spelled # {}
      OBVIOUS
    <3> QED BY <2>1, <3>1, MinIs
  <2>3. name \in {<<w, FALSE>> : w \in Spelled} \/ name = <<m, TRUE>>
    BY <2>1 DEF NameSet
  <2>4. CASE name = <<m, TRUE>>
    BY <2>2, <2>4
  <2>5. CASE name \in {<<w, FALSE>> : w \in Spelled}
    <3>1. PICK w \in Spelled : name = <<w, FALSE>>
      BY <2>5
    <3> QED BY <3>1
  <2> QED BY <2>3, <2>4, <2>5
<1>6. Reach \in Nat
  BY ReachAssumption
<1>7. a \in Int /\ size \in Nat /\ size <= Reach
  BY <1>6
<1> QED
  BY <1>3, <1>4, <1>5, <1>7 DEF IsSymbol

LEMMA SymbolsInit == ASSUME MCInit PROVE SymbolsInv
<1> SUFFICES ASSUME input.kind = "symbols"
             PROVE  /\ input.table \in Seq(AllSymbols)
                    /\ \A i, j \in 1..Len(input.table) : input.table[i].name = input.table[j].name => i = j
  BY DEF SymbolsInv
<1>1. input = [kind |-> "symbols", table |-> <<>>]
  <2>1. TablesInit
    <3>1. ASSUME input = [kind |-> "trace"] PROVE FALSE
      BY <3>1
    <3> QED BY <3>1 DEF MCInit
  <2>2. ASSUME input = [kind |-> "segments", segments |-> <<>>] PROVE FALSE
    BY <2>2
  <2>3. ASSUME NEW modules, input = [kind |-> "coverage", modules |-> modules, raw |-> {}] PROVE FALSE
    BY <2>3
  <2>4. ASSUME NEW a, NEW b, input = [kind |-> "engines", a |-> a, b |-> b] PROVE FALSE
    BY <2>4
  <2>5. ASSUME NEW reads, input = [kind |-> "reads", reads |-> reads, at |-> 0, far |-> 0, accesses |-> <<>>]
        PROVE  FALSE
    BY <2>5
  <2> QED BY <2>1, <2>2, <2>3, <2>4, <2>5 DEF TablesInit
<1>2. input.table = <<>>
  BY <1>1
<1> QED
  BY <1>2

LEMMA SymbolsNext ==
  ASSUME Unique, IsInput(input), SymbolsInv, [MCNext]_<<input, pvars>> PROVE SymbolsInv'
<1> SUFFICES ASSUME input'.kind = "symbols"
             PROVE  /\ input'.table \in Seq(AllSymbols)
                    /\ \A i, j \in 1..Len(input'.table) : input'.table[i].name = input'.table[j].name => i = j
  BY DEF SymbolsInv
<1>1. input.kind = "symbols"
  BY KindStays
<1>2. PICK i : i = input
  OBVIOUS
<1>3. PICK t : t = i.table
  OBVIOUS
<1>4. t \in Seq(AllSymbols) /\ \A j, k \in 1..Len(t) : t[j].name = t[k].name => j = k
  BY <1>1, <1>2, <1>3 DEF SymbolsInv
<1>5. i = [kind |-> "symbols", table |-> t]
  BY <1>1, <1>2, <1>3 DEF IsInput
<1>6. CASE input' = input
  BY <1>2, <1>3, <1>4, <1>6
<1>7. CASE Extend
  <2>1. PICK name \in NameSet, a \in Addresses, size \in Sizes :
          /\ \A j \in DOMAIN t : t[j].name # name
          /\ input' = [i EXCEPT !.table = Append(@, Symbol(name, a, size, Kind(size)))]
    BY <1>2, <1>3, <1>7 DEF Extend
  <2>2. PICK s : s = Symbol(name, a, size, Kind(size))
    OBVIOUS
  <2>3. s \in AllSymbols
    BY <2>2 DEF AllSymbols
  <2>4. s.name = name
    BY <2>2 DEF Symbol
  <2>5. PICK new : new = Append(t, s)
    OBVIOUS
  <2>6. PICK n \in Nat : n = Len(t)
    BY <1>4
  <2>7. new \in Seq(AllSymbols) /\ Len(new) = n + 1 /\ new[n + 1] = s /\ \A j \in 1..n : new[j] = t[j]
    BY <1>4, <2>3, <2>5, <2>6
  <2>8. DOMAIN t = 1..n
    BY <1>4, <2>6
  <2>9. ASSUME NEW j \in 1..(n + 1), NEW k \in 1..(n + 1), new[j].name = new[k].name PROVE j = k
    <3>1. \A x \in 1..(n + 1) : x \in 1..n \/ x = n + 1
      OBVIOUS
    <3>2. \A x \in 1..n : new[x].name # name
      BY <2>1, <2>7, <2>8
    <3>3. new[n + 1].name = name
      BY <2>4, <2>7
    <3>4. CASE j = n + 1 \/ k = n + 1
      BY <2>9, <3>1, <3>2, <3>3, <3>4
    <3>5. CASE j \in 1..n /\ k \in 1..n
      BY <1>4, <2>6, <2>7, <2>9, <3>5
    <3> QED BY <3>1, <3>4, <3>5
  <2>10. PICK j : j = [i EXCEPT !.table = new]
    OBVIOUS
  <2>11. input' = j
    BY <1>3, <2>1, <2>2, <2>5, <2>10
  <2>12. j = [kind |-> "symbols", table |-> new]
    BY <1>5, <2>10
  <2>13. j.table = new
    BY <2>12
  <2> QED BY <2>7, <2>9, <2>11, <2>13
<1>8. input' = input \/ Extend
  <2>1. ASSUME MCNext PROVE input' = input \/ Extend
    <3>1. input.kind # "trace" /\ input.kind # "coverage" /\ input.kind # "segments"
          /\ input.kind # "engines" /\ input.kind # "reads"
      BY <1>1
    <3> QED BY <2>1, <3>1 DEF MCNext, TablesNext, OnBlock, AddSegment, EnginesStep, Reads, ReplaysReads
  <2> QED BY <2>1
<1> QED
  BY <1>6, <1>7, <1>8

\* What an address is called is the innermost function around it or the label
\* before it, the name typed back means the address, and moving the image moves
\* the names with it, for every table in which no name comes twice and nothing is
\* larger than what `enclosing` looks back (symbols.py, describe, lookup and
\* rebase).
THEOREM SymbolsDescribe ==
  ASSUME Unique, Spelled \subseteq Nat, Spelled # {}, Sizes \subseteq 0..Reach,
         NEW last \in Nat, Addresses \subseteq 0..last, Addresses # {}
  PROVE  MCSpec => []Described
<1> DEFINE Inv == IsInput(input) /\ SymbolsInv
<1>1. MCInit => Inv
  BY InputInit, SymbolsInit
<1>2. Inv /\ [MCNext]_<<input, pvars>> => Inv'
  BY KindStays, SymbolsNext
<1>3. Inv => Described
  <2> SUFFICES ASSUME SymbolsInv, input.kind = "symbols", NEW a \in Addresses \cup {Max(Addresses) + 1, Max(Addresses) + 2}
               PROVE  /\ DescribedRight(input.table, a)
                      /\ TypedBack(input.table, a)
                      /\ RebasedRight(input.table, a, 3)
    BY DEF Described
  <2>1. PICK table \in Seq(AllSymbols) : table = input.table
    BY DEF SymbolsInv
  <2>2. PICK n \in Nat : n = Len(table)
    OBVIOUS
  <2>3. Addresses \subseteq Nat
    OBVIOUS
  <2>4. \A i \in 1..n : IsSymbol(table[i]) /\ table[i].size <= Reach
    <3> SUFFICES ASSUME NEW i \in 1..n PROVE IsSymbol(table[i]) /\ table[i].size <= Reach
      OBVIOUS
    <3>1. table[i] \in AllSymbols
      BY <2>2
    <3> QED BY <2>3, <3>1, AreSymbols
  <2>5. DOMAIN table = 1..n /\ table = [i \in 1..n |-> table[i]]
    BY <2>2
  <2>6. IsTable(table)
    BY <2>2, <2>4, <2>5 DEF IsTable
  <2>7. Short(table)
    BY <2>4, <2>5 DEF Short, ToSet
  <2>8. \A i, j \in 1..Len(table) : table[i].name = table[j].name => i = j
    BY <2>1 DEF SymbolsInv
  <2>9. a \in Int
    <3>1. PICK m : m = Max(Addresses)
      OBVIOUS
    <3>2. m \in Addresses
      <4>1. Addresses \in SUBSET (0..last) /\ Addresses # {}
        OBVIOUS
      <4> QED BY <3>1, <4>1, MaxIs
    <3>3. m \in Int
      BY <3>2
    <3>4. a \in Addresses \/ a = m + 1 \/ a = m + 2
      BY <3>1
    <3>5. CASE a \in Addresses
      BY <3>5
    <3>6. CASE a = m + 1 \/ a = m + 2
      BY <3>3, <3>6
    <3> QED BY <3>4, <3>5, <3>6
  <2>10. DescribedRight(table, a)
    BY <2>6, <2>7, <2>9, DescribeRight
  <2>11. TypedBack(table, a)
    BY <2>6, <2>7, <2>8, <2>9, TypedBackRight
  <2>12. RebasedRight(table, a, 3)
    <3>1. PICK delta \in Int : delta = 3
      OBVIOUS
    <3>2. RebasedRight(table, a, delta)
      <4>1. delta # 0
        BY <3>1
      <4> QED BY <2>6, <2>9, <4>1, RebaseRight
    <3> QED BY <3>1, <3>2
  <2> QED BY <2>1, <2>10, <2>11, <2>12
<1> QED
  BY <1>1, <1>2, <1>3, PTL DEF MCSpec
=============================================================================
