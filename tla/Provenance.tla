----------------------------- MODULE Provenance -----------------------------
(***************************************************************************)
(* Which bytes of the input were read, and by what                         *)
(* (ghidraunicorn/provenance.py).  A read is [at, size, pc]; `at` counts   *)
(* from the start of the buffer.                                           *)
(***************************************************************************)
EXTENDS Integers, Sequences, FiniteSets, SequencesExt, FiniteSetsExt

CONSTANT BufferLength

ASSUME BufferAssumption == BufferLength \in Nat \ {0}

Buffer == 0..(BufferLength - 1)

\* Unicorn calls a hook on a range for accesses that begin in it.
Hooked(r) == r.at \in Buffer

\* Access.offsets: an access of no size is of one byte.
OffsetsOf(r) == r.at..(r.at + (IF r.size = 0 THEN 1 ELSE r.size) - 1)

\* _on_read, of one read and of a sequence of them.
OnRead(accesses, r) == IF Hooked(r) THEN Append(accesses, r) ELSE accesses
Recorded(accesses, reads) ==
  LET after[i \in 0..Len(reads)] == IF i = 0 THEN accesses ELSE OnRead(after[i - 1], reads[i])
  IN  after[Len(reads)]

\* offsets_read, and by_pc and reads_at.
OffsetsRead(accesses) == Buffer \cap UNION {OffsetsOf(r) : r \in ToSet(accesses)}
ReadsAt(accesses, pc) ==
  Buffer \cap UNION {OffsetsOf(r) : r \in {r \in ToSet(accesses) : r.pc = pc}}

\* ranges: the runs of a set of offsets, as <<first, last>>.
Ranges(offsets) ==
  {r \in offsets \X offsets :
     /\ r[1] <= r[2] /\ r[1]..r[2] \subseteq offsets
     /\ r[1] - 1 \notin offsets /\ r[2] + 1 \notin offsets}

ReadRanges(accesses) == Ranges(OffsetsRead(accesses))
UnreadRanges(accesses) == Ranges(Buffer \ OffsetsRead(accesses))

\* first_read: the first recorded that touches an offset.
FirstRead(accesses, o) ==
  LET touching == {i \in DOMAIN accesses : o \in OffsetsOf(accesses[i])}
  IN  IF touching = {} THEN {} ELSE {accesses[Min(touching)]}

----------------------------------------------------------------------------
(* Properties, of the reads of a program and what is recorded of them.     *)

\* Every byte of the input is in exactly one of the two lists, in that of the
\* bytes read when some read of the program reached it; an instruction is said
\* to have read what it read; and the first to read a byte is the first in
\* execution order, however often stretches were replayed
\* (provenance.py, first_read and unread_ranges).
ReadRight(reads, accesses) ==
  LET Touching(o) == {i \in DOMAIN reads : o \in OffsetsOf(reads[i])}
      In(ranges, o) == {r \in ranges : r[1] <= o /\ o <= r[2]}
  IN  \A o \in Buffer :
        /\ Cardinality(In(ReadRanges(accesses), o)) = (IF Touching(o) = {} THEN 0 ELSE 1)
        /\ Cardinality(In(UnreadRanges(accesses), o)) = (IF Touching(o) = {} THEN 1 ELSE 0)
        /\ \A i \in DOMAIN reads :
             o \in ReadsAt(accesses, reads[i].pc)
               <=> \E j \in Touching(o) : reads[j].pc = reads[i].pc
        /\ FirstRead(accesses, o) = {reads[i] : i \in {i \in Touching(o) : i = Min(Touching(o))}}
=============================================================================
