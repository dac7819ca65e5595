------------------------------ MODULE Symbols -------------------------------
(***************************************************************************)
(* Names for addresses and addresses for names                             *)
(* (ghidraunicorn/symbols.py).  A name is <<word, capital>>: two names     *)
(* with one word differ in case only.                                      *)
(***************************************************************************)
EXTENDS Ordering, Sequences, SequencesExt, FiniteSetsExt

CONSTANTS
  Reach,                 \* how far back enclosing looks beyond a symbol
  MaxOffset              \* max_offset: how far a label without a size reaches

ASSUME ReachAssumption == Reach \in Nat /\ MaxOffset \in Nat

Symbol(name, address, size, kind) ==
  [name |-> name, address |-> address, size |-> size, kind |-> kind]

\* Every symbol covers at least the byte it is at.
Reaches(s, a) == s.address <= a /\ a < s.address + (IF s.size = 0 THEN 1 ELSE s.size)

Earlier(n, m) == n[1] < m[1] \/ (n[1] = m[1] /\ n[2] /\ ~m[2])

\* extend: by address, functions first, then by name.
Precedes(s, t) ==
  \/ s.address < t.address
  \/ /\ s.address = t.address
     /\ \/ s.kind = "function" /\ t.kind # "function"
        \/ (s.kind = "function") = (t.kind = "function") /\ Earlier(s.name, t.name)

\* What has the same key stays in the order it is in.
Sorted(table) ==
  LET Sooner(i, j) ==
        Precedes(table[i], table[j]) \/ (~Precedes(table[j], table[i]) /\ i < j)
      places == InOrder(DOMAIN table, {p \in (DOMAIN table) \X (DOMAIN table) : Sooner(p[1], p[2])})
  IN  [k \in DOMAIN table |-> table[places[k]]]

Found(s, a) == {[symbol |-> s, offset |-> a - s.address]}

\* lookup: the first of that name given, or one that differs in case only.
Lookup(table, name) ==
  LET exact == {i \in DOMAIN table : table[i].name = name}
      sorted == Sorted(table)
      alike == {i \in DOMAIN sorted : sorted[i].name[1] = name[1]}
  IN  IF exact # {} THEN {table[Min(exact)]}
      ELSE IF alike # {} THEN {sorted[Min(alike)]} ELSE {}

\* How many of a sorted list start at or before an address: bisect_right.
UpTo(list, a) == {i \in DOMAIN list : list[i].address <= a}
Sized(list, a) == {i \in UpTo(list, a) : list[i].size > 0}

\* nearest: of those that share the address, the first.
Nearest(table, a) ==
  LET list == Sorted(table) IN
  IF UpTo(list, a) = {} THEN {}
  ELSE LET last == list[Max(UpTo(list, a))].address
       IN  Found(list[Min({i \in DOMAIN list : list[i].address = last})], a)

\* Mutant: only the nearest symbol with a size is asked.
EnclosingNearest(table, a) ==
  LET list == Sorted(table)
      sized == Sized(list, a)
  IN  IF sized = {} \/ ~Reaches(list[Max(sized)], a) THEN {} ELSE Found(list[Max(sized)], a)

\* enclosing: the last one that covers the address, unless on the way back
\* there is one that does not and is too far behind.
Enclosing(table, a) ==
  LET list == Sorted(table)
      covering == {i \in Sized(list, a) : Reaches(list[i], a)}
      last == Max(covering)
      far == {i \in Sized(list, a) : a - list[i].address > Reach}
  IN  IF covering = {} \/ \E i \in far : i > last THEN {} ELSE Found(list[last], a)

\* describe: a function that covers the address, or else a label that stands
\* on its own and is near enough, with no function in between.
Describe(table, a) ==
  LET list == Sorted(table)
      ends == {i \in UpTo(list, a) :
                 \/ a - list[i].address > MaxOffset \/ list[i].size > 0
                 \/ Enclosing(table, list[i].address) = {}}
      s == list[Max(ends)]
  IN  IF Enclosing(table, a) # {} THEN Enclosing(table, a)
      ELSE IF ends = {} \/ a - s.address > MaxOffset \/ s.size > 0 THEN {}
      ELSE Found(s, a)

\* rebase, of a table exported at one base to another.
Rebase(table, delta) ==
  IF delta = 0 THEN table
  ELSE [i \in DOMAIN Sorted(table) |-> [Sorted(table)[i] EXCEPT !.address = @ + delta]]

----------------------------------------------------------------------------
(* Properties, of one table. *)

Covers(table, a) == {s \in ToSet(table) : s.size > 0 /\ Reaches(s, a)}

\* The labels in no function, near enough, with no function and no such label
\* between them and the address.
Standing(table, a) ==
  LET alone == {s \in ToSet(table) : s.address <= a /\ s.size = 0 /\ Covers(table, s.address) = {}}
  IN  {s \in alone : /\ a - s.address <= MaxOffset
                     /\ \A t \in alone \cup {t \in ToSet(table) : t.size > 0 /\ t.address <= a} :
                          t.address <= s.address}

\* An address inside a function is described by the innermost function there,
\* one outside by the nearest label that stands alone, and one that has
\* neither by nothing (symbols.py, describe).
DescribedRight(table, a) ==
  LET d == Describe(table, a) IN
  /\ \A f \in d : f.symbol.address + f.offset = a
  /\ IF Covers(table, a) # {}
     THEN \E f \in d : /\ f.symbol \in Covers(table, a)
                       /\ \A s \in Covers(table, a) : s.address <= f.symbol.address
     ELSE IF Standing(table, a) # {} THEN \E f \in d : f.symbol \in Standing(table, a)
     ELSE d = {}

\* What is printed for an address, typed back in, is that address.
TypedBack(table, a) ==
  \A f \in Describe(table, a) : \A s \in Lookup(table, f.symbol.name) : s.address + f.offset = a

\* A rebased table says of the shifted address what the table said.
RebasedRight(table, a, delta) ==
  {[f EXCEPT !.symbol.address = @ + delta] : f \in Describe(table, a)}
    = Describe(Rebase(table, delta), a + delta)
=============================================================================
