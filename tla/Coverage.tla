------------------------------ MODULE Coverage ------------------------------
(***************************************************************************)
(* Basic blocks of a run, attributed to modules when they are saved, in    *)
(* drcov's table of 32-bit offsets and 16-bit sizes                        *)
(* (ghidraunicorn/coverage.py).                                            *)
(***************************************************************************)
EXTENDS Ordering, Sequences, SequencesExt, FiniteSetsExt

CONSTANTS Offsets, BlockSizes      \* 2^32 and 2^16

ASSUME WidthAssumption == {Offsets, BlockSizes} \subseteq Nat \ {0}

\* _normalise: an object with a size, one with a last address, or a triple
\* whose third part is an end or a size.
Normalised(m) ==
  [name |-> m.name, base |-> m.base,
   end |-> CASE m.form = "size" -> m.base + m.third
             [] m.form = "last" -> m.third + 1
             [] m.form = "triple" -> IF m.third > m.base THEN m.third ELSE m.base + m.third]

\* Mutant: the last byte of a region is outside it.
SpanOfOpen(modules, regions, fallback, a) ==
  LET here == {i \in DOMAIN modules : modules[i].base <= a /\ a < modules[i].end}
      there == {r \in regions : r.first <= a /\ a < r.last}
  IN  IF here # {} THEN {[base |-> modules[Min(here)].base, end |-> modules[Min(here)].end]}
      ELSE IF fallback THEN {[base |-> r.first, end |-> r.last + 1] : r \in there}
      ELSE {}

\* _module_for: the first module there, or else the region that is mapped.
\* A region is from its first to its last address.
SpanOf(modules, regions, fallback, a) ==
  LET here == {i \in DOMAIN modules : modules[i].base <= a /\ a < modules[i].end}
      there == {r \in regions : r.first <= a /\ a <= r.last}
  IN  IF here # {} THEN {[base |-> modules[Min(here)].base, end |-> modules[Min(here)].end]}
      ELSE IF fallback THEN {[base |-> r.first, end |-> r.last + 1] : r \in there}
      ELSE {}

Declared(modules) == [i \in DOMAIN modules |-> Normalised(modules[i])]

\* The entries of a table with a span, and the table with one for it.
With(table, span) == {i \in DOMAIN table : table[i].base = span.base /\ table[i].end = span.end}
Add(table, spans) ==
  LET span == CHOOSE s \in spans : TRUE
  IN  IF spans = {} \/ With(table, span) # {} THEN table
      ELSE Append(table, [name |-> "region", base |-> span.base, end |-> span.end])

\* The modules of the file: those declared, and behind them one for each
\* region in the order its first block comes.
Table(modules, raw, regions, fallback) ==
  LET blocks == InOrder(raw, {p \in raw \X raw : \/ p[1].at < p[2].at
                                                 \/ p[1].at = p[2].at /\ p[1].size < p[2].size})
      table[i \in 0..Len(blocks)] ==
        IF i = 0 THEN Declared(modules)
        ELSE Add(table[i - 1], SpanOf(Declared(modules), regions, fallback, blocks[i].at))
  IN  table[Len(blocks)]

\* to_writer: of modules with one span the last has the blocks.
Written(modules, raw, regions, fallback) ==
  LET table == Table(modules, raw, regions, fallback)
      Entries(b) == {[id |-> Max(With(table, span)), start |-> (b.at - span.base) % Offsets,
                      size |-> b.size % BlockSizes] :
                       span \in SpanOf(Declared(modules), regions, fallback, b.at)}
  IN  [table |-> table, blocks |-> UNION {Entries(b) : b \in raw}]

----------------------------------------------------------------------------

\* What a reader of the file makes of it.
FileTells(w) == {[at |-> w.table[b.id].base + b.start, size |-> b.size] : b \in w.blocks}

\* A reader of the file gets the blocks that ran and no other, but for those
\* in no module when regions are not asked for; and a block of a module is
\* read as that module's (coverage.py, SessionCoverage: "reported rather than
\* silently dropped").  `meant` says how far a module was meant to reach.
CoveredRight(modules, meant, raw, regions, fallback) ==
  LET w == Written(modules, raw, regions, fallback)
      inside == {b \in raw : \E i \in DOMAIN modules : modules[i].base <= b.at /\ b.at < meant[i]}
  IN  /\ FileTells(w) \subseteq raw
      /\ \A b \in raw : (b \in inside \/ fallback) /\ (\E r \in regions : r.first <= b.at /\ b.at <= r.last)
                        => b \in FileTells(w)
      /\ \A b \in inside : \E e \in w.blocks :
           /\ e.id \in DOMAIN modules
           /\ modules[e.id].base + e.start = b.at /\ e.size = b.size
           /\ b.at < meant[e.id]
=============================================================================
