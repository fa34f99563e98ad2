---------------------------- MODULE PackedTables ----------------------------
(* Tables of packed relocations: the numbers they are written in, and what a *)
(* packer means by them.                                                     *)
(*                                                                           *)
(* A byte is [more, bits]: its continuation bit and the Chunk bits of the    *)
(* number it carries (7 in the code).  A number is held modulo 2^Width.      *)
EXTENDS Integers, Sequences

CONSTANTS Chunk, Width

\* 1 << n
TwoTo(n) == LET two[k \in 0..n] == IF k = 0 THEN 1 ELSE 2 * two[k - 1] IN two[n]

Word == TwoTo(Width)

\* Byte k of the number that begins at cur.
ByteOf(bytes, cur, k) == bytes[cur + k - 1]

\* The flags of a group.
ByInfo(flags) == flags % 2 = 1
ByDelta(flags) == (flags \div 2) % 2 = 1
ByAddend(flags) == (flags \div 4) % 2 = 1
HasAddend(flags) == (flags \div 8) % 2 = 1
-----------------------------------------------------------------------------
(* What a packer writes: the numbers nums, of which the j-th begins at byte  *)
(* at[j]; packed[i] says of relocation i its group, its place in it, and at  *)
(* which number it begins, with its group when it is the first in it.        *)

\* Byte k of the n bytes of a number v: the chunks from the lowest on.
ChunkOf(v, k, n) == [more |-> k < n - 1, bits |-> (v \div TwoTo(Chunk * k)) % TwoTo(Chunk)]

\* The number fits its bytes with its sign, and the bytes do not go beyond the word.
Fits(v, n) == /\ v \in -TwoTo(Chunk * n - 1)..(TwoTo(Chunk * n - 1) - 1)
              /\ Chunk * (n - 1) < Width

\* The bytes are those of the numbers, as far as the table goes.
Written(s) ==
  /\ Len(s.bytes) \in Nat /\ Len(s.nums) \in Nat \ {0, 1} /\ s.at[1] = 1
  /\ \A j \in 1..Len(s.nums) :
       LET n == s.at[j + 1] - s.at[j]
       IN /\ {s.at[j], s.at[j + 1]} \subseteq Nat \ {0} /\ n \in Nat \ {0} /\ Fits(s.nums[j], n)
          /\ ~s.cut => s.at[j + 1] <= Len(s.bytes) + 1
          /\ \A k \in 1..n : s.at[j] + k - 1 <= Len(s.bytes) =>
               ByteOf(s.bytes, s.at[j], k) = ChunkOf(s.nums[j], k - 1, n)

\* What precedes relocation i.
Preceding(s, i) == IF i = 1 THEN [offset |-> s.nums[2] % Word, info |-> 0, addend |-> 0] ELSE s.list[i - 1]

Opt(b) == IF b THEN 1 ELSE 0

\* The numbers of relocation i, with those of its group when it is the first in it, and
\* what they mean.
Means(s, i) ==
  LET d == s.packed[i]
      g == d.group
      first == d.place = 1
      byDelta == ByDelta(g.flags)
      byInfo == ByInfo(g.flags)
      byAddend == HasAddend(g.flags) /\ ByAddend(g.flags)
      ofOwn == s.rela /\ HasAddend(g.flags) /\ ~ByAddend(g.flags)
      infoAt == d.at + 2 + Opt(byDelta)
      addendAt == infoAt + Opt(byInfo)
      own == IF first THEN addendAt + Opt(byAddend) ELSE d.at
      ownInfo == own + Opt(~byDelta)
      ownAddend == ownInfo + Opt(~byInfo)
  IN /\ first => /\ s.nums[d.at] = g.size /\ s.nums[d.at + 1] = g.flags
                 /\ byDelta => s.nums[d.at + 2] = g.delta
                 /\ byInfo => s.nums[infoAt] = g.info
                 /\ byAddend => s.rela /\ s.nums[addendAt] = g.addend
     /\ s.list[i].offset = (Preceding(s, i).offset + IF byDelta THEN g.delta ELSE s.nums[own]) % Word
     /\ s.list[i].info = (IF byInfo THEN g.info ELSE s.nums[ownInfo]) % Word
     /\ s.list[i].addend =
          IF ofOwn THEN (Preceding(s, i).addend + s.nums[ownAddend]) % Word
          ELSE IF ~HasAddend(g.flags) THEN 0
          ELSE IF byAddend /\ first THEN (Preceding(s, i).addend + g.addend) % Word
          ELSE Preceding(s, i).addend
     /\ ownAddend + Opt(ofOwn) <= Len(s.nums) + 1
     /\ i < Len(s.list) => s.packed[i + 1].at = ownAddend + Opt(ofOwn)

\* A group is as many relocations as its size says.
Grouped(s, i) ==
  LET d == s.packed[i]
      p == s.packed[i - 1]
  IN /\ d.place \in 1..d.group.size /\ d.at \in 3..(Len(s.nums) + 1)
     /\ d.group \in [size : 1..(Word - 1), flags : 0..(Word - 1), delta : Int, info : Int, addend : Int]
     /\ i = 1 => d.place = 1 /\ d.at = 3
     /\ i > 1 => IF p.place = p.group.size THEN d.place = 1
                 ELSE d.place = p.place + 1 /\ d.group = p.group

WellPacked(s) ==
  /\ Written(s)
  /\ Len(s.list) \in 0..(Word - 1) /\ s.nums[1] = Len(s.list)
  /\ \A i \in 1..Len(s.list) :
       /\ s.list[i] \in [offset : 0..(Word - 1), info : 0..(Word - 1), addend : 0..(Word - 1)]
       /\ Means(s, i) /\ Grouped(s, i)
=============================================================================
