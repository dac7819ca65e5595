------------------------------ MODULE MCTables ------------------------------
(***************************************************************************)
(* The components that keep or compute tables, side by side: one behaviour *)
(* is of one of them.  Publishing runs as it is; of the four others the    *)
(* input grows by one entry at a time - a symbol, a block that ran, a      *)
(* segment, a step of the engines - and what the code makes of it is       *)
(* looked at each time.                                                    *)
(***************************************************************************)
EXTENDS Symbols, Coverage, Loaders, Differential, Provenance, Publishing

CONSTANTS
  Spelled, Addresses, Sizes, MaxSymbols,     \* symbols, and whether two may share a name
  Unique,
  Sources, MaxBlocks,                        \* lists of modules, blocks
  Starts, Lengths, Contents, Rights, Names,  \* segments
  MaxSegments,
  MaxSteps,
  From,                                      \* where a read may begin
  Late                                       \* recording starts after the first read

VARIABLE input

\* Three names, of which two differ in case only.
NameSet == {<<w, FALSE>> : w \in Spelled} \cup {<<Min(Spelled), TRUE>>}
Kind(size) == IF size = 0 THEN "label" ELSE "function"

Regions == {[first |-> 0, last |-> 3], [first |-> 4, last |-> 7]}

\* Modules as they are declared, each with the end it was meant to have.
Module(base, third, form, meant) ==
  [name |-> "m", base |-> base, third |-> third, form |-> form, meant |-> meant]
MCSources == {<<>>,
              <<Module(2, 3, "last", 4)>>,
              <<Module(1, 2, "size", 3), Module(4, 2, "triple", 6)>>,
              <<Module(0, 4, "size", 4), Module(2, 4, "triple", 4)>>,
              <<Module(3, 5, "triple", 5), Module(3, 5, "triple", 5)>>}
MCSourcesWide == {<<Module(1, 6, "triple", 7)>>, <<Module(1, 3, "triple", 4)>>}

\* One engine lacks a register of the other and half of its memory.
Registers(other, v, w) == [n \in {<<"r", FALSE>>, other} |-> IF n = other THEN w ELSE v]
LeftEngine(v) ==
  [pc |-> 0, regs |-> Registers(<<"s", FALSE>>, v, 0), mem |-> [x \in 0..3 |-> x % 2]]
RightEngine(top) ==
  [pc |-> 0, regs |-> Registers(<<"s", TRUE>>, 0, 1), mem |-> [x \in 0..top |-> 0]]

\* A target of two regions, to which the program may add one, and where it
\* goes: the stack pointer is also just past the stack, and nowhere.
Target(regions, pc, sp, modules, start) ==
  [regions |-> regions, mem |-> [a \in UNION {r.start..r.end : r \in regions} |-> 0],
   pc |-> pc, sp |-> sp, breaks |-> {}, icount |-> 0, running |-> FALSE, terminated |-> FALSE,
   modules |-> modules, input |-> start]
Region(start, end, exec) == [start |-> start, end |-> end, exec |-> exec]
MCMachines == {Target({Region(0, 3, TRUE), Region(6, 7, FALSE)}, 0, 6, {}, {})}
MCPlaces == {<<0, 6>>, <<3, 8>>, <<1, 0>>}
MCMappable == {Region(4, 5, FALSE)}

\* Layouts for the preload: the code first, last or in the middle of regions
\* larger and smaller than what there is room for.
MCLayouts ==
  {Target({Region(0, 7, FALSE), Region(8, 15, TRUE), Region(18, 19, FALSE)}, pc, sp, modules, start) :
     pc \in {8, 11, 13, 15, 18}, sp \in {1, 4, 7, 9, 19, 20},
     modules \in {{}, {[base |-> 0, end |-> 3]}}, start \in {{}, {5}}}

\* What the instructions read, three of them at two addresses.
MCReads == {[at |-> a, size |-> n, pc |-> pc] : a \in From, n \in {1, 2}, pc \in {0, 1}}

TablesInit ==
  \/ input = [kind |-> "symbols", table |-> <<>>]
  \/ \E modules \in Sources : input = [kind |-> "coverage", modules |-> modules, raw |-> {}]
  \/ input = [kind |-> "segments", segments |-> <<>>]
  \/ \E v \in {0, 1}, top \in {1, 3} :
       input = [kind |-> "engines", a |-> <<LeftEngine(v)>>, b |-> <<RightEngine(top)>>]
  \/ \E reads \in [1..3 -> MCReads] :
       input = [kind |-> "reads", reads |-> reads, at |-> 0, far |-> 0, accesses |-> <<>>]

\* extend, of one symbol.
Extend ==
  /\ input.kind = "symbols" /\ Len(input.table) < MaxSymbols
  /\ \E name \in NameSet, a \in Addresses, size \in Sizes :
       /\ Unique => \A i \in DOMAIN input.table : input.table[i].name # name
       /\ input' = [input EXCEPT !.table = Append(@, Symbol(name, a, size, Kind(size)))]

\* _on_block
OnBlock ==
  /\ input.kind = "coverage" /\ Cardinality(input.raw) < MaxBlocks
  /\ \E r \in Regions, a \in 0..7, size \in {1, 2} :
       /\ r.first <= a /\ a <= r.last
       /\ input' = [input EXCEPT !.raw = @ \cup {[at |-> a, size |-> size]}]

\* One more segment of the context: what it holds is its place in the list.
AddSegment ==
  /\ input.kind = "segments" /\ Len(input.segments) < MaxSegments
  /\ \E s \in Starts, n \in Lengths, c \in Contents, name \in Names, p \in Rights :
       input' = [input EXCEPT !.segments =
                   Append(@, [start |-> s, end |-> s + n, name |-> name, perms |-> p,
                              content |-> [i \in 1..c |-> Len(@) + 1]])]

\* What a step of an engine may lead to.
After(s) == {[s EXCEPT !.pc = pc, !.regs[<<"r", FALSE>>] = v, !.mem[0] = w] :
               pc \in {0, 1}, v \in {0, 1}, w \in {0, 1}}

\* Both engines step, or one of them cannot.
EnginesStep ==
  /\ input.kind = "engines" /\ Len(input.a) = Len(input.b) /\ Len(input.a) <= MaxSteps
  /\ \E s \in After(Last(input.a)), t \in After(Last(input.b)) :
       input' \in {[input EXCEPT !.a = Append(@, s), !.b = Append(@, t)],
                   [input EXCEPT !.a = Append(@, s)],
                   [input EXCEPT !.b = Append(@, t)]}

\* The program reads, and goes back: what is replayed is recorded again.
Reads ==
  /\ input.kind = "reads" /\ input.at < Len(input.reads)
  /\ LET k == input.at + 1 IN
     input' = [input EXCEPT !.at = k, !.far = IF k > @ THEN k ELSE @,
                            !.accesses = IF Late /\ k = 1 /\ input.far = 0 THEN @
                                         ELSE Recorded(@, <<input.reads[k]>>)]

ReplaysReads ==
  /\ input.kind = "reads" /\ Len(input.accesses) < 6
  /\ \E k \in 0..(input.at - 1) : \E from \in 0..k :
       input' = [input EXCEPT !.at = k, !.accesses = Recorded(@, SubSeq(input.reads, from + 1, k))]

TablesNext == Extend \/ OnBlock \/ AddSegment \/ EnginesStep \/ Reads \/ ReplaysReads

MCInit ==
  \/ input = [kind |-> "trace"] /\ PublishInit
  \/ TablesInit /\ machine = <<>> /\ trace = <<>> /\ still = <<>> /\ events = 0

MCNext ==
  \/ input.kind = "trace" /\ PublishNext /\ UNCHANGED input
  \/ TablesNext /\ UNCHANGED pvars

MCSpec == MCInit /\ [][MCNext]_<<input, pvars>>

----------------------------------------------------------------------------

\* What the listing, the console and the triage report call an address: the
\* innermost function around it, or the label before it; typed back it means
\* the same address, and moving the image moves the names with it
\* (symbols.py, describe, lookup and rebase).
Described ==
  input.kind = "symbols" =>
    \A a \in Addresses \cup {Max(Addresses) + 1, Max(Addresses) + 2} :
      /\ DescribedRight(input.table, a)
      /\ TypedBack(input.table, a)
      /\ RebasedRight(input.table, a, 3)

\* A coverage file says exactly what ran, and of which module it was a part
\* (coverage.py, to_writer), and the provenance of the input exactly what was
\* read, and by which instruction first (provenance.py).
Attributed ==
  /\ input.kind = "coverage" =>
       \A fallback \in BOOLEAN :
         CoveredRight(input.modules, [i \in DOMAIN input.modules |-> input.modules[i].meant],
                      input.raw, Regions, fallback)
  /\ input.kind = "reads" => ReadRight(SubSeq(input.reads, 1, input.far), input.accesses)

\* Whatever the order and the overlaps of the segments, the memory is what the
\* last of them says and every page of them is there
\* (loaders.py, _map_segment).
LoadedSegments == input.kind = "segments" => LoadedRight(input.segments)

\* A segment that overlaps none can be used for what it says, also when it has
\* a page in common with another (loaders.py, _perms).
UsableSegments == input.kind = "segments" => PermittedAll(input.segments)

\* A differential run stops at the first step after which the engines differ
\* in anything it was asked about (differential.py, compare and align).
FirstDisagreement ==
  input.kind = "engines" =>
    /\ \A only \in {{}, {<<"r", TRUE>>}}, ignore \in {{}, {<<"r", FALSE>>}},
          watch \in {{}, {{0, 1}}, {{0, 3}}}, end \in {{}, {1}} :
         ComparedRight(input.a, input.b, MaxSteps, only, ignore, watch, end)
    /\ Len(input.a) = 1 =>
         AlignedRight(input.a[1], input.b[1], {[start |-> 0, end |-> 3]})

\* The trace of a target is the target (Publishing), also right after launch,
\* whatever the layout and the cap.
Published ==
  input.kind = "trace" => Shown /\ LaunchedRight

RegionsPublished == input.kind = "trace" => RegionsShown
=============================================================================
