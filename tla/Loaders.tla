------------------------------ MODULE Loaders -------------------------------
(***************************************************************************)
(* Loading an afl-unicorn context: segments, which may overlap and share   *)
(* pages, become the engine's memory and the list of modules; and what of  *)
(* the two layers under the program is installed                           *)
(* (ghidraunicorn/loaders.py).                                             *)
(***************************************************************************)
EXTENDS Ordering, Sequences, SequencesExt, FiniteSetsExt

CONSTANTS
  PAGE,
  NoName                 \* a segment without a name, or with one in brackets

ASSUME PageAssumption == PAGE \in Nat \ {0}

\* Unicorn's memory: its regions, disjoint and with exclusive ends, what was
\* written at each address, and whether a mapping was refused.
Empty == [regions |-> {}, written |-> <<>>, refused |-> FALSE]

Down(a) == (a \div PAGE) * PAGE
Up(a) == ((a + PAGE - 1) \div PAGE) * PAGE

\* mem_map: nothing may be mapped there, and it is whole pages.
MemMap(uc, from, to, perms) ==
  IF \E r \in uc.regions : from < r.end /\ r.start < to
  THEN [uc EXCEPT !.refused = TRUE]
  ELSE [uc EXCEPT !.regions = @ \cup {[start |-> from, end |-> to, perms |-> perms]}]

\* mem_write of the content, cut to the length of the segment.
MemWrite(uc, seg) ==
  LET n == Min({seg.end - seg.start, Len(seg.content)})
      to == seg.start..(seg.start + n - 1)
  IN  [uc EXCEPT !.written = [a \in DOMAIN @ \cup to |->
         IF a \in to THEN seg.content[a - seg.start + 1] ELSE @[a]]]

\* Mutant: a hole before a region is mapped to the end of the segment.
MapBeforeLong(c, r, to, perms) ==
  IF c.done \/ r.end <= c.at THEN c
  ELSE IF r.start >= to THEN [c EXCEPT !.done = TRUE]
  ELSE [uc |-> IF r.start > c.at THEN MemMap(c.uc, c.at, to, perms) ELSE c.uc,
        at |-> r.end, done |-> FALSE]

\* The hole before one of the regions there, from where the last one ended.
MapBefore(c, r, to, perms) ==
  IF c.done \/ r.end <= c.at THEN c
  ELSE IF r.start >= to THEN [c EXCEPT !.done = TRUE]
  ELSE [uc |-> IF r.start > c.at THEN MemMap(c.uc, c.at, r.start, perms) ELSE c.uc,
        at |-> r.end, done |-> FALSE]

\* What of from..to is not mapped yet, in pieces between the regions there.
MapHoles(uc, from, to, perms) ==
  LET before == InOrder(uc.regions, {p \in uc.regions \X uc.regions : p[1].start < p[2].start})
      c[i \in 0..Len(before)] ==
        IF i = 0 THEN [uc |-> uc, at |-> from, done |-> FALSE]
        ELSE MapBefore(c[i - 1], before[i], to, perms)
      last == c[Len(before)]
  IN  IF last.at < to THEN MemMap(last.uc, last.at, to, perms) ELSE last.uc

\* _map_segment
MapSegment(uc, seg) ==
  IF Up(seg.end) <= Down(seg.start) THEN uc
  ELSE MemWrite(MapHoles(uc, Down(seg.start), Up(seg.end), seg.perms), seg)

\* load_context: the memory, one segment after the other.
Loaded(segments) ==
  LET uc[i \in 0..Len(segments)] == IF i = 0 THEN Empty ELSE MapSegment(uc[i - 1], segments[i])
  IN  uc[Len(segments)]

\* default_modules: one over what can be executed, or over everything.
DefaultModules(uc) ==
  LET exec == {r \in uc.regions : "x" \in r.perms}
      over == IF exec = {} THEN uc.regions ELSE exec
  IN  IF over = {} THEN {}
      ELSE LET base == Min({r.start : r \in over})
           IN  {[name |-> NoName, base |-> base, size |-> Max({r.end : r \in over}) - base]}

\* And the modules: for each name, from its first segment to its last.
Modules(segments) ==
  LET Named(name) == {s \in ToSet(segments) : s.name = name}
      names == {s.name : s \in ToSet(segments)} \ {NoName}
  IN  IF names = {} THEN DefaultModules(Loaded(segments))
      ELSE {LET base == Min({s.start : s \in Named(name)})
            IN  [name |-> name, base |-> base, size |-> Max({s.end : s \in Named(name)}) - base] :
              name \in names}

----------------------------------------------------------------------------
(* Properties, of one list of segments. *)

Bytes(s) == s.start..(s.end - 1)
PagesOf(s) == Down(s.start)..(Up(s.end) - 1)
MappedAt(uc, a) == {r \in uc.regions : r.start <= a /\ a < r.end}

\* However the segments lie, the engine refuses none of them; an address is
\* mapped when it is in a page of some segment, with the permissions of the
\* first; a byte is what the last segment with content there says; and every
\* segment lies in its module (loaders.py, _map_segment and load_context).
LoadedRight(segments) ==
  LET uc == Loaded(segments)
      all == UNION {PagesOf(s) : s \in ToSet(segments)}
      Holding(a) == {i \in DOMAIN segments : a - segments[i].start \in 0..(Len(segments[i].content) - 1)
                                          /\ a \in Bytes(segments[i])}
      First(a) == segments[Min({i \in DOMAIN segments : a \in PagesOf(segments[i])})]
  IN  /\ ~uc.refused
      /\ \A a \in all : {r.perms : r \in MappedAt(uc, a)} = {First(a).perms}
      /\ \A r \in uc.regions : r.start..(r.end - 1) \subseteq all
      /\ DOMAIN uc.written = {a \in all : Holding(a) # {}}
      /\ \A a \in DOMAIN uc.written :
           uc.written[a] = segments[Max(Holding(a))].content[a - segments[Max(Holding(a))].start + 1]
      /\ \A s \in {s \in ToSet(segments) : s.name # NoName} : \E m \in Modules(segments) :
           m.name = s.name /\ m.base <= s.start /\ s.end <= m.base + m.size

\* What a segment may be used for it can be used for.
PermittedAll(segments) ==
  \A s \in ToSet(segments) : \A a \in Bytes(s) :
    \A r \in MappedAt(Loaded(segments), a) : s.perms \subseteq r.perms
=============================================================================
