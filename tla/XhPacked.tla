------------------------------ MODULE XhPacked ------------------------------
(* The packed relocations of Android (xHook/xh_elf.c): the sleb128 decoder, *)
(* with the width of its integers, and the iterator that reads groups of    *)
(* relocations from the byte stream.                                        *)
EXTENDS PackedTables

CONSTANTS Streams              \* [bytes, rela, list, cut]: a table, what was packed into it,
                               \* and how: [nums, at, packed], see WellPacked

VARIABLES stream,              \* the table the iterator reads
          it,                  \* the iterator
          emitted,             \* history: the relocations it has returned
          ended                \* it has returned NULL

packedVars == <<stream, it, emitted, ended>>

\* sleb128_decoder_next.  The number of bytes is that up to the first without a
\* continuation bit; their bits are added at their shifts, and those that do not fit
\* are lost; the sign is extended only when bits are left above the last chunk.
Lengths(bytes, cur) ==
  {n \in 1..(Len(bytes) - cur + 1) :
     ~ByteOf(bytes, cur, n).more /\ \A k \in 1..(n - 1) : ByteOf(bytes, cur, k).more}
Value(bytes, cur, n) ==
  LET value[k \in 0..n] ==
        IF k = 0 THEN 0 ELSE (value[k - 1] + ByteOf(bytes, cur, k).bits * TwoTo(Chunk * (k - 1))) % Word
  IN value[n]
Sign(bytes, cur, n) ==
  IF Chunk * n < Width /\ ByteOf(bytes, cur, n).bits >= TwoTo(Chunk - 1) THEN Word - TwoTo(Chunk * n) ELSE 0

\* What it reads at a position: [ok, val, cur].  A byte past the end of the table is an error.
Sleb(bytes, cur) ==
  LET n == CHOOSE k \in Lengths(bytes, cur) : TRUE
  IN IF Lengths(bytes, cur) = {} THEN [ok |-> FALSE, cur |-> Len(bytes) + 1, val |-> 0]
     ELSE [ok |-> TRUE, cur |-> cur + n, val |-> Value(bytes, cur, n) + Sign(bytes, cur, n)]

\* Reads into one field of an iterator; after an error it stays as it is.
Stored(i, f, r) ==
  IF r.ok THEN [i EXCEPT ![f] = r.val, !.cur = r.cur] ELSE [i EXCEPT !.ok = FALSE, !.cur = r.cur]
Into(i, f) == IF i.ok THEN Stored(i, f, Sleb(stream.bytes, i.cur)) ELSE i

\* Reads a number that is added to one field.
Added(i, f) == IF i.ok THEN [i EXCEPT ![f] = (@ + i.val) % Word] ELSE i
Onto(i, f) == Added(Into(i, "val"), f)

\* packed_reloc_iterator_init: zero everywhere, then the count and the first offset.
Opened ==
  LET zero == [ok |-> TRUE, cur |-> 1, count |-> 0, size |-> 0, flags |-> 0, delta |-> 0,
               index |-> 0, group |-> 0, offset |-> 0, info |-> 0, addend |-> 0, val |-> 0]
  IN [Into(Into(zero, "count"), "offset") EXCEPT !.ok = TRUE]   \* the error is not looked at

\* What a group gives for its relocations; an addend for a table without addends
\* is an error.
GroupDelta(i) == IF ByDelta(i.flags) THEN Into(i, "delta") ELSE i
GroupInfo(i) == IF ByInfo(i.flags) THEN Into(i, "info") ELSE i
GroupAddend(i) ==
  IF ~HasAddend(i.flags) THEN [i EXCEPT !.addend = 0]
  ELSE IF ~ByAddend(i.flags) THEN i
  ELSE IF stream.rela THEN Onto(i, "addend") ELSE [i EXCEPT !.ok = FALSE]

\* The header of a group.
GroupFields(i) ==
  [GroupAddend(GroupInfo(GroupDelta(Into(Into(i, "size"), "flags")))) EXCEPT !.group = 0]

\* What a relocation has of its own.
OwnOffset(i) ==
  IF i.ok /\ ByDelta(i.flags) THEN [i EXCEPT !.offset = (@ + i.delta) % Word] ELSE Onto(i, "offset")
OwnInfo(i) == IF ByInfo(i.flags) THEN i ELSE Into(i, "info")

OfOwn(i) == stream.rela /\ HasAddend(i.flags) /\ ~ByAddend(i.flags)

\* Mutant of OwnAddend: the addend of a relocation is not added to the last one's.
OwnAddendAbsolute(i) == IF OfOwn(i) THEN Into(i, "addend") ELSE i

OwnAddend(i) == IF OfOwn(i) THEN Onto(i, "addend") ELSE i

Advanced(i) == OwnAddend(OwnInfo(OwnOffset(IF i.group = i.size THEN GroupFields(i) ELSE i)))

Relocation(i) == [offset |-> i.offset, info |-> i.info, addend |-> IF stream.rela THEN i.addend ELSE 0]

ASSUME PackedAssumption ==
  Chunk \in Nat \ {0} /\ Width \in Nat \ {0} /\ \A s \in Streams : WellPacked(s)
-----------------------------------------------------------------------------
PackedInit(streams) ==
  /\ stream \in streams /\ it = Opened
  /\ emitted = <<>> /\ ended = FALSE

\* A table that ends too early ends the loop like one that is read through.
NextRelocation ==
  /\ ~ended
  /\ LET n == Advanced(it)
     IN IF it.index < it.count /\ n.ok
        THEN /\ it' = [n EXCEPT !.index = @ + 1, !.group = @ + 1]
             /\ emitted' = Append(emitted, Relocation(n))
             /\ UNCHANGED ended
        ELSE ended' = TRUE /\ UNCHANGED <<it, emitted>>
  /\ UNCHANGED stream

PackedNext == NextRelocation
-----------------------------------------------------------------------------
\* The iterator returns what was packed, in order, whatever the groups share
\* and with offsets and addends that grow, shrink and wrap; it returns all of
\* it unless the table is cut short (xh_elf.c:106-255).
PackedExact ==
  /\ \A i \in 1..Len(emitted) : i <= Len(stream.list) /\ emitted[i] = stream.list[i]
  /\ ended /\ ~stream.cut => Len(emitted) = Len(stream.list)
=============================================================================
