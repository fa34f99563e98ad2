---------------------------- MODULE XhDataProofs ----------------------------
(***************************************************************************)
(* Proofs about what xHook reads before it writes a word: the tables of a  *)
(* library and the symbols it looks up in them, for any library a linker   *)
(* writes, the page protection of the word, for any page and word size,    *)
(* maps file and address, and the packed relocations, for any table a      *)
(* packer writes.                                                          *)
(***************************************************************************)
EXTENDS XhLookup, XhProtect, XhPacked, FiniteSetTheorems, SequenceTheorems, WellFoundedInduction, TLAPS

-----------------------------------------------------------------------------
(* The tables of a library: XhImage.                                        *)

ImageSpec == ImageInit(Libraries) /\ [][ImageNext]_imageVars

Numbers == {"strtab", "symtab", "relplt", "reldyn", "android", "androidSz", "bias"}

ImageTypeOK ==
  /\ lib \in Libraries /\ dynAt \in Nat
  /\ DOMAIN self = DOMAIN Reset
  /\ self.base \in Nat /\ \A f \in Numbers : self[f] \in Int
  /\ Len(self.dyn) \in Nat
  /\ \A i \in 1..Len(self.dyn) : self.dyn[i].tag \in Pointers \cup PackedSizes => self.dyn[i].val \in Int
  /\ \A i, j \in 1..Len(self.dyn) : self.dyn[i].tag = "PLTREL" /\ self.dyn[j].tag = "PLTREL" => i = j

\* The entries of the tags T the walk has passed.
Passed(T) == {i \in Tags(T) : i < dynAt}

Linked(T, p) == IF Passed(T) = {} THEN p = NULL
                ELSE p >= self.base /\ \E i \in Passed(T) : p = self.bias + self.dyn[i].val

\* In mid-walk what has been filled in is what the entries passed say.
WalkInv ==
  dynAt # 0 =>
    /\ initRet = "none" /\ dynAt <= Len(self.dyn) + 1
    /\ \A i \in 1..Len(self.dyn) : i < dynAt /\ self.dyn[i].tag = "NULL" => dynAt = Len(self.dyn) + 1
    /\ Linked({"JMPREL"}, self.relplt) /\ Linked({"REL", "RELA"}, self.reldyn)
    /\ Linked({"STRTAB"}, self.strtab) /\ Linked({"SYMTAB"}, self.symtab)
    /\ self.rela <=> \E i \in Passed({"PLTREL"}) : self.dyn[i].val = "RELA"

ImageInv == ImageTypeOK /\ WalkInv /\ TablesAsLinked

-----------------------------------------------------------------------------
\* Before xh_elf_init nothing has been filled in.
LEMMA ImageStart == ImageInit(Libraries) => ImageInv
<1> SUFFICES ASSUME ImageInit(Libraries) PROVE ImageInv
  OBVIOUS
<1>1. self = Reset /\ dynAt = 0 /\ initRet = "none" /\ lib \in Libraries
  BY DEF ImageInit
<1>2. Reset.dyn = <<>> /\ Len(Reset.dyn) = 0 /\ Reset.base = 0
  BY DEF Reset, NULL
<1>3. \A f \in Numbers : Reset[f] = 0
  BY DEF Reset, NULL, Numbers
<1>4. ImageTypeOK
  BY <1>1, <1>2, <1>3 DEF ImageTypeOK
<1> QED
  BY <1>1, <1>4 DEF ImageInv, WalkInv, TablesAsLinked, Ready

\* A set of naturals has a least element, which Min is.
LEMMA LeastNatural ==
  ASSUME NEW S, S \subseteq Nat, S # {}
  PROVE  Min(S) \in S /\ \A n \in S : Min(S) <= n
<1> DEFINE Less == {ss \in Nat \X Nat : ss[1] < ss[2]}
<1>1. IsWellFoundedOn(Less, Nat)
  BY NatLessThanWellFounded, Zenon DEF OpToRel
<1>2. PICK m \in S : \A n \in S : ~(<<n, m>> \in Less)
  <2> HIDE DEF Less
  <2> QED
    BY <1>1, WFMin
<1>3. ASSUME NEW n \in S PROVE m <= n
  <2>1. m \in Nat /\ n \in Nat /\ ~(<<n, m>> \in Less)
    BY <1>2
  <2>2. n < m => <<n, m>> \in Less
    BY <2>1
  <2> QED
    BY <2>1, <2>2
<1> QED
  BY <1>3, Zenon DEF Min

\* The address of the first loaded segment of the file is a number.
LEMMA FirstLoad ==
  ASSUME NEW l \in Libraries, FirstSegmentAt(l, "LOAD", 0) # 0
  PROVE  l.phdrs[FirstSegmentAt(l, "LOAD", 0)].vaddr \in Nat
<1> DEFINE I == {i \in 1..Len(l.phdrs) : l.phdrs[i].type = "LOAD" /\ l.phdrs[i].offset = 0}
<1>1. FirstSegmentAt(l, "LOAD", 0) = IF I # {} THEN Min(I) ELSE 0
  BY DEF FirstSegmentAt, SelectInSeq
<1>2. Len(l.phdrs) \in Nat
  BY LibraryAssumption
<1>3. I \subseteq 1..Len(l.phdrs) /\ I \subseteq Nat
  BY <1>2
<1> HIDE DEF I
<1>4. Min(I) \in I
  BY <1>1, <1>3, LeastNatural
<1> QED
  BY <1>1, <1>3, <1>4, LibraryAssumption

\* So is the size of the first dynamic segment.
LEMMA FirstDynamic ==
  ASSUME NEW l \in Libraries, FirstSegment(l, "DYNAMIC") # 0
  PROVE  l.phdrs[FirstSegment(l, "DYNAMIC")].memsz \in Nat
<1> DEFINE I == {i \in 1..Len(l.phdrs) : l.phdrs[i].type = "DYNAMIC"}
<1>1. FirstSegment(l, "DYNAMIC") = IF I # {} THEN Min(I) ELSE 0
  BY DEF FirstSegment, SelectInSeq
<1>2. Len(l.phdrs) \in Nat
  BY LibraryAssumption
<1>3. I \subseteq 1..Len(l.phdrs) /\ I \subseteq Nat
  BY <1>2
<1> HIDE DEF I
<1>4. Min(I) \in I
  BY <1>1, <1>3, LeastNatural
<1> QED
  BY <1>1, <1>3, <1>4, LibraryAssumption

\* A walk that has just begun.
LEMMA ImageBegins == ImageInv /\ BeginInit => ImageInv'
<1> SUFFICES ASSUME ImageInv, BeginInit PROVE ImageInv'
  OBVIOUS
<1> DEFINE load0 == FirstSegmentAt(lib, "LOAD", 0)
           dynamic == FirstSegment(lib, "DYNAMIC")
           opened == [Reset EXCEPT !.base = lib.base]
           bias == lib.base - lib.phdrs[load0].vaddr
           size == lib.phdrs[dynamic].memsz
           n == IF size < Len(lib.dyn) THEN size ELSE Len(lib.dyn)
           dyn == SubSeq(lib.dyn, 1, n)
<1>1. lib \in Libraries /\ lib' = lib /\ lib.base \in Nat /\ Len(lib.dyn) \in Nat
  BY LibraryAssumption DEF ImageInv, ImageTypeOK, BeginInit
<1>2. CASE self' = opened /\ Finish("format")
  <2>1. dynAt' = 0 /\ initRet' = "format"
    BY <1>2 DEF Finish
  <2>2. self'.dyn = <<>> /\ Len(self'.dyn) = 0 /\ self'.base = lib.base /\ DOMAIN self' = DOMAIN Reset
    BY <1>2 DEF Reset
  <2>3. \A f \in Numbers : self'[f] = 0
    BY <1>2 DEF Reset, NULL, Numbers
  <2>4. ImageTypeOK'
    BY <1>1, <2>1, <2>2, <2>3 DEF ImageTypeOK
  <2> QED
    BY <2>1, <2>4 DEF ImageInv, WalkInv, TablesAsLinked, Ready
<1>3. CASE /\ load0 # 0 /\ dynamic # 0
           /\ self' = [opened EXCEPT !.bias = bias, !.dyn = dyn] /\ dynAt' = 1 /\ initRet' = initRet
  <2>1. bias \in Int
    BY <1>1, <1>3, FirstLoad
  <2>2. size \in Nat
    BY <1>1, <1>3, FirstDynamic
  <2>3. n \in Nat /\ n <= Len(lib.dyn)
    BY <1>1, <2>2
  <2>4. /\ Len(dyn) = n
        /\ \A i \in 1..n : dyn[i] = lib.dyn[i]
    <3> HIDE DEF n
    <3> DEFINE S == {lib.dyn[i] : i \in 1..n}
    <3>1. \A i \in 1..n : lib.dyn[i] \in S
      OBVIOUS
    <3> HIDE DEF S
    <3>2. /\ Len(dyn) = IF 1 <= n THEN n - 1 + 1 ELSE 0
          /\ \A i \in 1..n - 1 + 1 : dyn[i] = lib.dyn[1 + i - 1]
      BY <2>3, <3>1, SubSeqProperties
    <3> QED
      BY <2>3, <3>2
  <2> HIDE DEF bias, n, dyn
  <2>5. /\ self'.dyn = dyn /\ self'.base = lib.base /\ DOMAIN self' = DOMAIN Reset
        /\ self'.bias = bias /\ self'.rela = FALSE
        /\ \A f \in Numbers : f # "bias" => self'[f] = 0
    BY <1>3 DEF Reset, NULL, Numbers
  <2>6. \A f \in Numbers : self'[f] \in Int
    BY <2>1, <2>5, 0 \in Int, Zenon
  <2>7. \A i \in 1..n : i \in 1..Len(lib.dyn)
    BY <1>1, <2>3
  <2>8. ImageTypeOK'
    BY <1>1, <1>3, <2>3, <2>4, <2>5, <2>6, <2>7, LibraryAssumption DEF ImageTypeOK
  <2>9. initRet' = "none"
    BY <1>3 DEF BeginInit
  <2>10. ASSUME NEW T PROVE Passed(T)' = {}
    BY <1>3 DEF Passed, Tags
  <2>11. WalkInv'
    BY <1>3, <2>3, <2>4, <2>5, <2>9, <2>10 DEF WalkInv, Linked, NULL, Numbers
  <2> QED
    BY <2>8, <2>9, <2>11 DEF ImageInv, TablesAsLinked, Ready
<1> QED
  BY <1>2, <1>3 DEF BeginInit

\* The next entry joins those passed.
LEMMA PassedNext ==
  ASSUME ImageInv, dynAt \in 1..Len(self.dyn), self.dyn[dynAt].tag # "NULL",
         dynAt' = dynAt + 1, self'.dyn = self.dyn, NEW T
  PROVE  Passed(T)' = Passed(T) \cup {i \in {dynAt} : self.dyn[i].tag \in T}
<1>1. /\ dynAt \in Nat /\ Len(self.dyn) \in Nat
      /\ \A i \in 1..Len(self.dyn) : i < dynAt => self.dyn[i].tag # "NULL"
  BY DEF ImageInv, ImageTypeOK, WalkInv
<1>2. ASSUME NEW i \in 1..dynAt PROVE i \in 1..Len(self.dyn) /\ self.dyn[i].tag # "NULL"
  <2>1. i \in 1..Len(self.dyn) /\ (i < dynAt \/ i = dynAt)
    BY <1>1
  <2> QED
    BY <1>1, <2>1
<1>3. \A i \in 1..dynAt : \A j \in 1..i : j \in 1..dynAt
  BY <1>1
<1>4. Passed(T) = {i \in 1..dynAt : i < dynAt /\ self.dyn[i].tag \in T}
  BY <1>1, <1>2, <1>3 DEF Passed, Tags
<1>5. Passed(T)' = {i \in 1..dynAt : self.dyn[i].tag \in T}
  BY <1>1, <1>2, <1>3 DEF Passed, Tags
<1> QED
  BY <1>1, <1>4, <1>5

\* One pass of the loop.
LEMMA ImageWalks == ImageInv /\ Walk => ImageInv'
<1> SUFFICES ASSUME ImageInv, Walk PROVE ImageInv'
  OBVIOUS
<1> DEFINE e == self.dyn[dynAt]
           p == Loaded(e.val)
<1>1. /\ ImageTypeOK /\ WalkInv /\ dynAt \in 1..Len(self.dyn) /\ Len(self.dyn) \in Nat /\ lib' = lib
      /\ initRet = "none" /\ dynAt \in Nat /\ dynAt # 0
  BY DEF ImageInv, ImageTypeOK, WalkInv, Walk
<1>2. CASE e.tag = "NULL" /\ dynAt' = Len(self.dyn) + 1 /\ self' = self /\ initRet' = initRet
  <2>1. ASSUME NEW T PROVE Passed(T)' = Passed(T)
    <3>1. Tags(T)' = Tags(T)
      BY <1>2 DEF Tags
    <3>2. \A i \in Tags(T) : i \in 1..Len(self.dyn) /\ i < dynAt
      BY <1>1, <1>2 DEF Tags
    <3> QED
      BY <1>1, <1>2, <3>1, <3>2 DEF Passed
  <2>2. ImageTypeOK'
    BY <1>1, <1>2 DEF ImageTypeOK
  <2>3. WalkInv'
    BY <1>1, <1>2, <2>1 DEF WalkInv, Linked
  <2> QED
    BY <1>1, <1>2, <2>2, <2>3 DEF ImageInv, TablesAsLinked, Ready
<1>3. CASE self' = self /\ Finish("format")
  <2>1. ImageTypeOK'
    BY <1>1, <1>3 DEF ImageTypeOK, Finish
  <2> QED
    BY <1>3, <2>1 DEF ImageInv, WalkInv, TablesAsLinked, Ready, Finish
<1>4. CASE /\ e.tag # "NULL" /\ ~(e.tag \in Pointers /\ p < self.base)
           /\ self' = Entry(e) /\ dynAt' = dynAt + 1 /\ initRet' = initRet
  <2>1. DOMAIN self = DOMAIN Reset /\ self.base \in Nat /\ self.bias \in Int
    BY <1>1 DEF ImageTypeOK, Numbers
  <2>2. e.tag \in Pointers \cup PackedSizes => e.val \in Int
    BY <1>1 DEF ImageTypeOK
  <2>3. e.tag \in Pointers => p \in Int /\ p >= self.base
    BY <1>4, <2>1, <2>2 DEF Loaded
  <2> HIDE DEF e, p
  <2>4. /\ DOMAIN self' = DOMAIN self
        /\ self'.dyn = self.dyn /\ self'.base = self.base /\ self'.bias = self.bias
        /\ self'.relplt = IF e.tag = "JMPREL" THEN p ELSE self.relplt
        /\ self'.reldyn = IF e.tag \in {"REL", "RELA"} THEN p ELSE self.reldyn
        /\ self'.strtab = IF e.tag = "STRTAB" THEN p ELSE self.strtab
        /\ self'.symtab = IF e.tag = "SYMTAB" THEN p ELSE self.symtab
        /\ self'.rela = IF e.tag = "PLTREL" THEN e.val = "RELA" ELSE self.rela
        /\ self'.android = IF e.tag \in {"ANDROID_REL", "ANDROID_RELA"} THEN p ELSE self.android
        /\ self'.androidSz = IF e.tag \in PackedSizes THEN e.val ELSE self.androidSz
    BY <1>4, <2>1 DEF Entry, PackedSizes, p, Reset
  <2>5. \A f \in Numbers : self[f] \in Int
    BY <1>1 DEF ImageTypeOK
  <2>6. \A f \in Numbers : self'[f] \in Int
    BY <2>2, <2>3, <2>4, <2>5 DEF Numbers, Pointers, PackedSizes
  <2>7. ImageTypeOK'
    BY <1>1, <1>4, <2>1, <2>4, <2>6 DEF ImageTypeOK
  <2>8. ASSUME NEW T PROVE Passed(T)' = Passed(T) \cup {i \in {dynAt} : self.dyn[i].tag \in T}
    BY <1>1, <1>4, <2>4, PassedNext DEF e
  <2> DEFINE LinkedNext(T, q) ==
                IF Passed(T)' = {} THEN q = NULL
                ELSE q >= self.base /\ \E i \in Passed(T)' : q = self.bias + self.dyn[i].val
  <2>9. ASSUME NEW T, T \subseteq Pointers, NEW old, NEW new, Linked(T, old),
               new = IF e.tag \in T THEN p ELSE old
        PROVE  LinkedNext(T, new)
    <3>1. CASE e.tag \in T
      <4>1. dynAt \in Passed(T)'
        BY <2>8, <3>1 DEF e
      <4>2. new = self.bias + self.dyn[dynAt].val
        BY <2>9, <3>1 DEF p, e, Loaded
      <4> QED
        BY <2>3, <2>9, <3>1, <4>1, <4>2
    <3>2. CASE e.tag \notin T
      <4>1. Passed(T)' = Passed(T)
        BY <2>8, <3>2 DEF e
      <4> QED
        BY <2>9, <3>2, <4>1 DEF Linked
    <3> QED
      BY <3>1, <3>2
  <2>10. /\ Linked({"JMPREL"}, self.relplt) /\ Linked({"REL", "RELA"}, self.reldyn)
         /\ Linked({"STRTAB"}, self.strtab) /\ Linked({"SYMTAB"}, self.symtab)
    BY <1>1 DEF WalkInv
  <2>11. /\ LinkedNext({"JMPREL"}, self'.relplt) /\ LinkedNext({"REL", "RELA"}, self'.reldyn)
         /\ LinkedNext({"STRTAB"}, self'.strtab) /\ LinkedNext({"SYMTAB"}, self'.symtab)
    <3>1. /\ {"JMPREL"} \subseteq Pointers /\ {"REL", "RELA"} \subseteq Pointers
          /\ {"STRTAB"} \subseteq Pointers /\ {"SYMTAB"} \subseteq Pointers
      BY DEF Pointers
    <3>2. /\ self'.relplt = IF e.tag \in {"JMPREL"} THEN p ELSE self.relplt
          /\ self'.strtab = IF e.tag \in {"STRTAB"} THEN p ELSE self.strtab
          /\ self'.symtab = IF e.tag \in {"SYMTAB"} THEN p ELSE self.symtab
      BY <2>4
    <3> HIDE DEF LinkedNext
    <3>3. LinkedNext({"JMPREL"}, self'.relplt)
      BY <2>9, <2>10, <3>1, <3>2
    <3>4. LinkedNext({"REL", "RELA"}, self'.reldyn)
      BY <2>4, <2>9, <2>10, <3>1
    <3>5. LinkedNext({"STRTAB"}, self'.strtab)
      BY <2>9, <2>10, <3>1, <3>2
    <3>6. LinkedNext({"SYMTAB"}, self'.symtab)
      BY <2>9, <2>10, <3>1, <3>2
    <3> QED
      BY <3>3, <3>4, <3>5, <3>6
  <2>12. (self.rela <=> \E i \in Passed({"PLTREL"}) : self.dyn[i].val = "RELA")'
    <3>1. self.rela <=> \E i \in Passed({"PLTREL"}) : self.dyn[i].val = "RELA"
      BY <1>1 DEF WalkInv
    <3>2. Passed({"PLTREL"})' = Passed({"PLTREL"}) \cup {i \in {dynAt} : self.dyn[i].tag = "PLTREL"}
      BY <2>8
    <3>3. CASE e.tag = "PLTREL"
      <4>1. Passed({"PLTREL"}) = {}
        BY <1>1, <3>3 DEF ImageTypeOK, Passed, Tags, e
      <4>2. self'.rela = (e.val = "RELA") /\ self'.dyn = self.dyn
        BY <2>4, <3>3
      <4>3. Passed({"PLTREL"})' = {dynAt}
        BY <3>2, <3>3, <4>1 DEF e
      <4> QED
        BY <4>2, <4>3 DEF e
    <3>4. CASE e.tag # "PLTREL"
      <4>1. Passed({"PLTREL"})' = Passed({"PLTREL"})
        BY <3>2, <3>4 DEF e
      <4>2. self'.rela = self.rela /\ self'.dyn = self.dyn
        BY <2>4, <3>4
      <4> QED
        BY <3>1, <4>1, <4>2
    <3> QED
      BY <3>3, <3>4
  <2>13. (dynAt <= Len(self.dyn) + 1)'
    BY <1>1, <1>4, <2>4
  <2>14. (\A i \in 1..Len(self.dyn) : i < dynAt /\ self.dyn[i].tag = "NULL" => dynAt = Len(self.dyn) + 1)'
    <3>1. \A i \in 1..Len(self.dyn) : i < dynAt => self.dyn[i].tag # "NULL"
      BY <1>1 DEF WalkInv
    <3> QED
      BY <1>1, <1>4, <2>4, <3>1 DEF e
  <2>15. WalkInv'
    <3>1. /\ (Linked({"JMPREL"}, self.relplt))' /\ (Linked({"REL", "RELA"}, self.reldyn))'
          /\ (Linked({"STRTAB"}, self.strtab))' /\ (Linked({"SYMTAB"}, self.symtab))'
      BY <2>4, <2>11 DEF Linked
    <3> QED
      BY <1>1, <1>4, <2>12, <2>13, <2>14, <3>1 DEF WalkInv
  <2> QED
    BY <1>1, <1>4, <2>7, <2>15 DEF ImageInv, TablesAsLinked, Ready
<1> QED
  BY <1>2, <1>3, <1>4, Zenon DEF Walk

\* The end of the walk: what has been filled in is as the entries say.
LEMMA ImageEnds == ImageInv /\ CheckTables => ImageInv'
<1> SUFFICES ASSUME ImageInv, CheckTables PROVE ImageInv'
  OBVIOUS
<1> DEFINE packed == self.android # NULL
           aps2 == packed => self.androidSz >= 4 /\ At(self.android).magic = "APS2"
           skipped == IF packed /\ aps2 THEN [self EXCEPT !.android = @ + 4, !.androidSz = @ - 4] ELSE self
<1>1. /\ ImageTypeOK /\ WalkInv /\ dynAt = Len(self.dyn) + 1 /\ Len(self.dyn) \in Nat /\ dynAt # 0
      /\ lib' = lib /\ self' = skipped /\ Finish(IF aps2 /\ Complete(skipped) THEN "ok" ELSE "format")
  BY DEF ImageInv, ImageTypeOK, CheckTables
<1>2. dynAt' = 0 /\ (initRet' = "ok" => aps2)
  BY <1>1 DEF Finish
<1>3. self.android \in Int /\ self.androidSz \in Int /\ DOMAIN self = DOMAIN Reset
  BY <1>1 DEF ImageTypeOK, Numbers
<1>4. /\ DOMAIN self' = DOMAIN self /\ self'.dyn = self.dyn /\ self'.base = self.base
      /\ self'.bias = self.bias /\ self'.relplt = self.relplt /\ self'.reldyn = self.reldyn
      /\ self'.strtab = self.strtab /\ self'.symtab = self.symtab /\ self'.rela = self.rela
      /\ packed /\ aps2 => self'.android = self.android + 4 /\ self'.androidSz = self.androidSz - 4
      /\ ~(packed /\ aps2) => self' = self
  BY <1>1, <1>3 DEF Reset
<1>5. \A f \in Numbers : self[f] \in Int
  BY <1>1 DEF ImageTypeOK
<1>6. \A f \in Numbers : self'[f] \in Int
  BY <1>3, <1>4, <1>5 DEF Numbers
<1>7. ImageTypeOK'
  BY <1>1, <1>2, <1>4, <1>6 DEF ImageTypeOK
<1>8. ASSUME NEW T PROVE Passed(T) = Tags(T) /\ Tags(T)' = Tags(T)
  BY <1>1, <1>4 DEF Passed, Tags
<1>9. ASSUME Ready' PROVE TablesAsLinked'
  <2>1. aps2
    BY <1>2, <1>9 DEF Ready
  <2>2. ASSUME NEW f \in {<<{"JMPREL"}, self.relplt>>, <<{"REL", "RELA"}, self.reldyn>>,
                          <<{"STRTAB"}, self.strtab>>, <<{"SYMTAB"}, self.symtab>>}
        PROVE  IF Tags(f[1]) = {} THEN f[2] = NULL
               ELSE f[2] >= self.base /\ \E i \in Tags(f[1]) : f[2] = self.bias + self.dyn[i].val
    <3>1. /\ Linked({"JMPREL"}, self.relplt) /\ Linked({"REL", "RELA"}, self.reldyn)
          /\ Linked({"STRTAB"}, self.strtab) /\ Linked({"SYMTAB"}, self.symtab)
      BY <1>1 DEF WalkInv
    <3>2. \/ f[1] = {"JMPREL"} /\ f[2] = self.relplt
          \/ f[1] = {"REL", "RELA"} /\ f[2] = self.reldyn
          \/ f[1] = {"STRTAB"} /\ f[2] = self.strtab
          \/ f[1] = {"SYMTAB"} /\ f[2] = self.symtab
      OBVIOUS
    <3>3. Linked(f[1], f[2])
      BY <3>1, <3>2, Zenon
    <3>4. Passed(f[1]) = Tags(f[1])
      BY <1>8
    <3> QED
      BY <3>3, <3>4 DEF Linked
  <2>3. self'.rela <=> \E i \in Tags({"PLTREL"}) : self.dyn[i].val = "RELA"
    BY <1>1, <1>4, <1>8 DEF WalkInv
  <2>4. self'.android # NULL => At(self'.android - 4).magic = "APS2" /\ self'.androidSz >= 0
    <3>1. CASE packed
      <4>1. self.android + 4 - 4 = self.android
        BY <1>3
      <4> QED
        BY <1>3, <1>4, <2>1, <3>1, <4>1
    <3>2. CASE ~packed
      BY <1>4, <3>2
    <3> QED
      BY <3>1, <3>2
  <2>5. At(self.android - 4)' = At(self'.android - 4)
    BY <1>1 DEF At
  <2> QED
    BY <1>4, <1>8, <2>2, <2>3, <2>4, <2>5 DEF TablesAsLinked
<1>10. TablesAsLinked'
  BY <1>9 DEF TablesAsLinked
<1> QED
  BY <1>2, <1>7, <1>10 DEF ImageInv, WalkInv

\* Every step of xh_elf_init keeps the invariant.
LEMMA ImageStep == ImageInv /\ [ImageNext]_imageVars => ImageInv'
<1> SUFFICES ASSUME ImageInv, [ImageNext]_imageVars PROVE ImageInv'
  OBVIOUS
<1>1. CASE Rejected
  BY <1>1 DEF ImageInv, ImageTypeOK, WalkInv, TablesAsLinked, Ready, Rejected, Finish
<1>2. CASE BeginInit
  BY <1>2, ImageBegins
<1>3. CASE Walk
  BY <1>3, ImageWalks
<1>4. CASE CheckTables
  BY <1>4, ImageEnds
<1>5. CASE UNCHANGED imageVars
  <2>1. lib' = lib /\ self' = self /\ dynAt' = dynAt /\ initRet' = initRet
    BY <1>5 DEF imageVars
  <2>2. \A T : Tags(T)' = Tags(T) /\ Passed(T)' = Passed(T)
    BY <2>1 DEF Tags, Passed
  <2> QED
    BY <2>1, <2>2 DEF ImageInv, ImageTypeOK, WalkInv, Linked, TablesAsLinked, Ready, At
<1> QED
  BY <1>1, <1>2, <1>3, <1>4, <1>5 DEF ImageNext

\* What xh_elf_init has filled in is what the dynamic entries before DT_NULL
\* say, in any order, with the bias added and APS2 passed over; no address is
\* below the base (xh_elf.c:803-912).
THEOREM TablesLinked == ImageSpec => []TablesAsLinked
<1>1. ImageInv => TablesAsLinked
  BY DEF ImageInv
<1> QED
  BY ImageStart, ImageStep, <1>1, PTL DEF ImageSpec

-----------------------------------------------------------------------------
(* What following the chain of a hash table finds: HashTables.              *)

\* A function that is made step by step exists, and its values are of the type.
Steps(N, S, F) == \A k \in 1..N, s \in S : F[k][s] \in S
Follows(f, N, S, start, F) == f \in [0..N -> S] /\ f[0] = start /\ \A k \in 1..N : f[k] = F[k][f[k - 1]]

LEMMA StepByStep ==
  ASSUME NEW N \in Nat, NEW S, NEW start \in S, NEW F, Steps(N, S, F)
  PROVE  \E f : Follows(f, N, S, start, F)
<1> DEFINE Upto(n, f) == /\ f \in [0..n -> S] /\ f[0] = start
                         /\ \A k \in 1..n : f[k] = F[k][f[k - 1]]
           Never == {n \in 0..N : ~\E f : Upto(n, f)}
<1>1. ASSUME Never # {} PROVE FALSE
  <2>1. PICK n : n \in Never /\ \A m \in Never : n <= m
    <3>1. Never \subseteq Nat
      OBVIOUS
    <3> HIDE DEF Never
    <3> QED
      BY <1>1, <3>1, LeastNatural
  <2>2. n \in 0..N /\ ~\E f : Upto(n, f)
    BY <2>1
  <2>3. CASE n = 0
    <3>1. PICK f : f = [k \in 0..0 |-> start]
      OBVIOUS
    <3>2. Upto(0, f)
      BY <3>1
    <3> QED
      BY <2>2, <2>3, <3>2
  <2>4. CASE n # 0
    <3>1. n - 1 \in 0..N /\ n - 1 \notin Never
      <4>1. n - 1 \in 0..N /\ ~(n <= n - 1)
        BY <2>2, <2>4
      <4> HIDE DEF Never
      <4> QED
        BY <2>1, <4>1
    <3>2. PICK f : Upto(n - 1, f)
      BY <3>1
    <3>3. PICK g : g = [k \in 0..n |-> IF k = n THEN F[n][f[n - 1]] ELSE f[k]]
      OBVIOUS
    <3>4. f[n - 1] \in S /\ n \in 1..N /\ F[n][f[n - 1]] \in S
      BY <2>2, <2>4, <3>2 DEF Steps
    <3>5. g \in [0..n -> S] /\ g[0] = start
      BY <2>2, <2>4, <3>2, <3>3, <3>4
    <3>6. ASSUME NEW k \in 1..n PROVE g[k] = F[k][g[k - 1]]
      <4>1. CASE k = n
        BY <2>2, <3>3, <4>1
      <4>2. CASE k # n
        <5>1. k \in 1..(n - 1) /\ k \in 0..n /\ k - 1 \in 0..n /\ k - 1 # n
          BY <2>2, <4>2
        <5> QED
          BY <3>2, <3>3, <4>2, <5>1
      <4> QED
        BY <4>1, <4>2
    <3>7. Upto(n, g)
      BY <3>5, <3>6
    <3> QED
      BY <2>2, <3>7
  <2> QED
    BY <2>3, <2>4
<1>2. N \notin Never
  BY <1>1
<1> QED
  BY <1>2 DEF Follows

\* A property that the first value has and each step keeps holds of the last value.
LEMMA KeptToTheEnd ==
  ASSUME NEW N \in Nat, NEW f, NEW S, f[0] \in S,
         \A k \in 1..N : f[k - 1] \in S => f[k] \in S
  PROVE  f[N] \in S
<1> DEFINE Off == {n \in 0..N : f[n] \notin S}
<1>1. ASSUME Off # {} PROVE FALSE
  <2>1. PICK n : n \in Off /\ \A m \in Off : n <= m
    <3>1. Off \subseteq Nat
      OBVIOUS
    <3> HIDE DEF Off
    <3> QED
      BY <1>1, <3>1, LeastNatural
  <2>2. n # 0 /\ n \in 1..N /\ n - 1 \in 0..N /\ n - 1 \notin Off
    BY <2>1
  <2> QED
    BY <2>1, <2>2
<1> QED
  BY <1>1

\* What is on a chain are indices of symbols.
LEMMA ChainIndices ==
  ASSUME NEW chain, NEW N \in Nat, Len(chain) = N, \A k \in 1..N : chain[k] \in 0..(N - 1),
         NEW i \in 0..(N - 1)
  PROVE  \A k \in 0..N : ChainFrom(chain, i)[k] \in 0..(N - 1)
<1> DEFINE S == 0..(N - 1)
           Next1In(j) == IF j = 0 THEN 0 ELSE chain[j + 1]
           Found(f) == f = [k \in 0..Len(chain) |->
                              IF k = 0 THEN i ELSE IF f[k - 1] = 0 THEN 0 ELSE chain[f[k - 1] + 1]]
<1>1. \A j \in S : Next1In(j) \in S
  <2>1. ASSUME NEW j \in S, j # 0 PROVE j + 1 \in 1..N
    BY <2>1
  <2> QED
    BY <2>1
<1>2. \E f : Found(f)
  <2>1. PICK F : F = [k \in 1..N |-> [j \in S |-> Next1In(j)]]
    OBVIOUS
  <2>2. F \in [1..N -> [S -> S]]
    <3> HIDE DEF S, Next1In
    <3> QED
      BY <1>1, <2>1
  <2>3. PICK f \in [0..N -> S] : f[0] = i /\ \A k \in 1..N : f[k] = F[k][f[k - 1]]
    <3>1. Steps(N, S, F) /\ i \in S
      BY <2>2 DEF Steps
    <3> HIDE DEF S
    <3>2. PICK f : Follows(f, N, S, i, F)
      BY <3>1, StepByStep
    <3> QED
      BY <3>2 DEF Follows
  <2>4. ASSUME NEW k \in 0..N
        PROVE  f[k] = IF k = 0 THEN i ELSE IF f[k - 1] = 0 THEN 0 ELSE chain[f[k - 1] + 1]
    <3>1. CASE k = 0
      BY <2>3, <3>1
    <3>2. CASE k # 0
      <4>1. k \in 1..N /\ k - 1 \in 0..N
        BY <3>2
      <4>2. f[k] = Next1In(f[k - 1])
        <5> HIDE DEF S, Next1In
        <5> QED
          BY <2>1, <2>3, <4>1
      <4> QED
        BY <3>2, <4>2
    <3> QED
      BY <3>1, <3>2
  <2>5. f = [k \in 0..N |-> IF k = 0 THEN i ELSE IF f[k - 1] = 0 THEN 0 ELSE chain[f[k - 1] + 1]]
    <3> HIDE DEF S
    <3> QED
      BY <2>4
  <2> QED
    BY <2>5
<1>3. PICK f : f = CHOOSE g : Found(g)
  OBVIOUS
<1>4. Found(f)
  <2> HIDE DEF Found
  <2> QED
    BY <1>2, <1>3
<1>5. ASSUME NEW m \in 0..N PROVE f[m] \in S
  <2>1. f[0] \in S
    BY <1>4
  <2>2. ASSUME NEW k \in 1..m, f[k - 1] \in S PROVE f[k] \in S
    <3>1. k \in 0..N /\ k # 0
      OBVIOUS
    <3>2. f[k] = Next1In(f[k - 1])
      BY <1>4, <3>1
    <3> HIDE DEF S, Next1In
    <3> QED
      BY <1>1, <2>2, <3>2
  <2> HIDE DEF S
  <2> QED
    BY <2>1, <2>2, KeptToTheEnd
<1>6. ChainFrom(chain, i) = f
  BY <1>3, Zenon DEF ChainFrom
<1> QED
  BY <1>5, <1>6

\* Looking up a name in a DT_HASH table that has the names answers the index of a
\* symbol with the name, whenever there is one.
LEMMA ElfIndex ==
  ASSUME NEW syms, Len(syms) \in Nat, NEW t, NEW names, InElfHash(syms, t, names),
         NEW name \in names, NEW x, x = ByElfHash(syms, t, name)
  PROVE  /\ x # NotFound => x \in 1..(Len(syms) - 1) /\ syms[x + 1] = name
         /\ (\E i \in 1..(Len(syms) - 1) : syms[i + 1] = name) => x # NotFound
<1>1. PICK N, b : N = Len(syms) /\ b = t.bucket[(ElfHash[name] % Len(t.bucket)) + 1]
  OBVIOUS
<1>2. PICK chain : chain = t.chain
  OBVIOUS
<1>3. /\ N \in Nat /\ Len(chain) = N /\ \A k \in 1..N : chain[k] \in 0..(N - 1) /\ b \in 0..(N - 1)
      /\ \A i \in 1..(N - 1) : syms[i + 1] = name => \E k \in 0..N : ChainFrom(chain, b)[k] = i
  BY <1>1, <1>2 DEF InElfHash
<1>4. PICK along : along = ChainFrom(chain, b)
  OBVIOUS
<1>5. b \in 0..(N - 1) /\ \A k \in 0..N : along[k] \in 0..(N - 1)
  <2>1. b \in 0..(N - 1)
    BY <1>1, <1>2 DEF InElfHash
  <2> QED
    BY <1>3, <1>4, <2>1, ChainIndices
<1> DEFINE hits == {k \in 0..N : along[k] # 0 /\ syms[along[k] + 1] = name}
<1>6. x = IF hits = {} THEN NotFound ELSE along[Min(hits)]
  BY <1>1, <1>2, <1>3, <1>4 DEF ByElfHash, OnChain
<1>7. hits # {} => Min(hits) \in hits
  <2>1. hits \subseteq Nat
    BY <1>3
  <2> HIDE DEF hits
  <2> QED
    BY <2>1, LeastNatural
<1>8. ASSUME NEW i \in 1..(N - 1), syms[i + 1] = name PROVE hits # {}
  <2>1. PICK k \in 0..N : along[k] = i
    BY <1>3, <1>4, <1>8
  <2>2. k \in hits
    BY <1>3, <1>8, <2>1
  <2> QED
    BY <2>2
<1>9. hits # {} => x \in 1..(N - 1) /\ syms[x + 1] = name
  <2>1. ASSUME hits # {} PROVE along[Min(hits)] \in 0..(N - 1) /\ along[Min(hits)] # 0 /\ syms[x + 1] = name
    BY <1>5, <1>6, <1>7, <2>1
  <2>2. ASSUME NEW v \in 0..(N - 1), v # 0 PROVE v \in 1..(N - 1)
    BY <1>3, <2>2
  <2>3. hits # {} => x = along[Min(hits)]
    BY <1>6
  <2> HIDE DEF hits
  <2> QED
    BY <2>1, <2>2, <2>3
<1> HIDE DEF hits
<1> QED
  BY <1>1, <1>3, <1>6, <1>8, <1>9 DEF NotFound

\* What is found in a DT_GNU_HASH table is the index of a symbol with the name, and
\* one that is within reach in its bucket is found.
LEMMA GnuIndex ==
  ASSUME NEW syms, Len(syms) \in Nat, NEW t, t.symoffset \in Nat, Len(t.chain) \in Nat,
         t.symoffset + Len(t.chain) = Len(syms), NEW name, NEW first,
         NEW x, x = OnGnuChain(syms, t, name, first)
  PROVE  /\ x # NotFound => x \in 0..(Len(syms) - 1) /\ syms[x + 1] = name
         /\ \A i \in 0..(Len(syms) - 1) :
              /\ first <= i /\ \A k \in first..(i - 1) : ~EndsChain(t.chain[k - t.symoffset + 1])
              /\ SameHash(t.chain[i - t.symoffset + 1], GnuHash[name]) /\ syms[i + 1] = name
              => x # NotFound
<1> DEFINE Link(j) == t.chain[j - t.symoffset + 1]
           hits == {j \in 0..(t.symoffset + Len(t.chain) - 1) :
                      /\ first <= j /\ \A k \in first..(j - 1) : ~EndsChain(Link(k))
                      /\ SameHash(Link(j), GnuHash[name]) /\ syms[j + 1] = name}
<1>1. x = IF hits = {} THEN NotFound ELSE Min(hits)
  BY Zenon DEF OnGnuChain
<1>2. hits \subseteq 0..(Len(syms) - 1) /\ \A j \in hits : syms[j + 1] = name
  OBVIOUS
<1>3. ASSUME hits # {} PROVE x \in hits /\ x # NotFound
  <2>1. hits \subseteq Nat
    BY <1>2
  <2> HIDE DEF hits
  <2>2. x = Min(hits) /\ Min(hits) \in hits
    BY <1>1, <1>3, <2>1, LeastNatural
  <2> QED
    BY <2>1, <2>2 DEF NotFound
<1>4. ASSUME NEW i \in 0..(Len(syms) - 1), first <= i, \A k \in first..(i - 1) : ~EndsChain(Link(k)),
             SameHash(Link(i), GnuHash[name]), syms[i + 1] = name
      PROVE  hits # {}
  <2>1. i \in 0..(t.symoffset + Len(t.chain) - 1)
    BY <1>4
  <2>2. i \in hits
    BY <1>4, <2>1
  <2> HIDE DEF hits
  <2> QED
    BY <2>2
<1>5. x # NotFound => hits # {}
  BY <1>1
<1> HIDE DEF hits
<1> QED
  BY <1>2, <1>3, <1>4, <1>5

-----------------------------------------------------------------------------
(* The symbols of a library: XhLookup.                                      *)

\* What the fields of the walk hold of the hash tables at the entries H and G.
AddressAt(i) == self.bias + self.dyn[i].val
TableAt(i) == At(AddressAt(i))

HashesRead(H, G) ==
  /\ self.gnu <=> G # {}
  /\ \A j \in G : /\ self.symoffset = TableAt(j).symoffset /\ self.bloom = AddressAt(j)
                  /\ self.shift = TableAt(j).shift
  /\ H = {} /\ G = {} => self.bucket = NULL
  /\ G = {} => \A i \in H : self.bucket = AddressAt(i) /\ self.chain = AddressAt(i)
  /\ \A j \in G : (\A i \in H : i < j) => self.bucket = AddressAt(j) /\ self.chain = AddressAt(j)

\* The walk reads the entries of the library, which is loaded at its bias.
LibraryRead ==
  /\ HeaderOk(lib) /\ FirstSegmentAt(lib, "LOAD", 0) # 0 /\ LoadBias(lib) >= 0
  /\ self.bias = LoadBias(lib)
  /\ Len(lib.dyn) \in Nat /\ Len(self.dyn) <= Len(lib.dyn)
  /\ \A i \in 1..Len(self.dyn) : self.dyn[i] = lib.dyn[i]

HashInv ==
  /\ dynAt # 0 => LibraryRead /\ HashesRead(Passed({"HASH"}), Passed({"GNU_HASH"}))
  /\ Ready => /\ LibraryRead /\ HashesRead(Tags({"HASH"}), Tags({"GNU_HASH"}))
              /\ self.symtab # NULL /\ self.bucket # NULL

LookupInv == ImageInv /\ HashInv

\* The entries the walk has passed are those the library has before DT_NULL, and
\* of each kind of table there is one.
LEMMA OneOfAKind ==
  ASSUME ImageInv, LibraryRead, NEW tag \in {"SYMTAB", "HASH", "GNU_HASH"}
  PROVE  Tags({tag}) \subseteq Said(lib, tag) /\ \A i, j \in Tags({tag}) : i = j
<1>1. ASSUME NEW i \in Tags({tag}) PROVE i \in Said(lib, tag)
  <2>1. /\ i \in 1..Len(self.dyn) /\ self.dyn[i].tag = tag
        /\ \A j \in 1..i : self.dyn[j].tag # "NULL"
    BY <1>1 DEF Tags
  <2>2. Len(self.dyn) \in Nat /\ Len(lib.dyn) \in Nat /\ Len(self.dyn) <= Len(lib.dyn)
    BY DEF ImageInv, ImageTypeOK, LibraryRead
  <2>3. ASSUME NEW j \in 1..i PROVE j \in 1..Len(self.dyn)
    BY <2>1, <2>2
  <2>4. i \in 1..Len(lib.dyn) /\ i \in 1..i
    BY <2>1, <2>2
  <2>5. \A j \in 1..i : self.dyn[j] = lib.dyn[j]
    BY <2>3 DEF LibraryRead
  <2> QED
    BY <2>1, <2>4, <2>5 DEF Said
<1>2. \A i, j \in Said(lib, tag) : i = j
  BY HashAssumption DEF ImageInv, ImageTypeOK
<1> QED
  BY <1>1, <1>2

\* A walk that has just begun reads the entries of the library.
LEMMA LookupBegins == LookupInv /\ BeginInit => LookupInv'
<1> SUFFICES ASSUME LookupInv, BeginInit PROVE LookupInv'
  OBVIOUS
<1> DEFINE load0 == FirstSegmentAt(lib, "LOAD", 0)
           dynamic == FirstSegment(lib, "DYNAMIC")
           opened == [Reset EXCEPT !.base = lib.base]
           size == lib.phdrs[dynamic].memsz
           n == IF size < Len(lib.dyn) THEN size ELSE Len(lib.dyn)
           dyn == SubSeq(lib.dyn, 1, n)
<1>1. ImageInv' /\ lib \in Libraries /\ lib' = lib /\ lib.base \in Nat /\ Len(lib.dyn) \in Nat
  BY ImageBegins, LibraryAssumption DEF LookupInv, ImageInv, ImageTypeOK, BeginInit
<1>2. CASE Finish("format")
  BY <1>1, <1>2 DEF LookupInv, HashInv, Finish, Ready
<1>3. CASE /\ load0 # 0 /\ dynamic # 0 /\ ~(lib.base < lib.phdrs[load0].vaddr)
           /\ self' = [opened EXCEPT !.bias = LoadBias(lib), !.dyn = dyn] /\ dynAt' = 1 /\ initRet' = initRet
  <2>1. lib.phdrs[load0].vaddr \in Nat /\ size \in Nat
    BY <1>1, <1>3, FirstLoad, FirstDynamic
  <2>2. LoadBias(lib) >= 0
    BY <1>1, <1>3, <2>1 DEF LoadBias
  <2>3. n \in Nat /\ n <= Len(lib.dyn)
    BY <1>1, <2>1
  <2>4. Len(dyn) = n /\ \A i \in 1..n : dyn[i] = lib.dyn[i]
    <3> HIDE DEF n
    <3> DEFINE S == {lib.dyn[i] : i \in 1..n}
    <3>1. \A i \in 1..n : lib.dyn[i] \in S
      OBVIOUS
    <3> HIDE DEF S
    <3>2. /\ Len(dyn) = IF 1 <= n THEN n - 1 + 1 ELSE 0
          /\ \A i \in 1..n - 1 + 1 : dyn[i] = lib.dyn[1 + i - 1]
      BY <2>3, <3>1, SubSeqProperties
    <3> QED
      BY <2>3, <3>2
  <2> HIDE DEF n, dyn
  <2>5. /\ self'.dyn = dyn /\ self'.bias = LoadBias(lib) /\ self'.gnu = FALSE /\ self'.bucket = NULL
    BY <1>3 DEF Reset
  <2>6. HeaderOk(lib) /\ initRet' = "none"
    BY <1>3 DEF BeginInit
  <2>7. LibraryRead'
    BY <1>1, <1>3, <2>2, <2>3, <2>4, <2>5, <2>6 DEF LibraryRead, LoadBias
  <2>8. ASSUME NEW T PROVE Passed(T)' = {}
    BY <1>3 DEF Passed, Tags
  <2>9. HashesRead(Passed({"HASH"}), Passed({"GNU_HASH"}))'
    BY <2>5, <2>8 DEF HashesRead
  <2> QED
    BY <1>1, <2>6, <2>7, <2>9 DEF LookupInv, HashInv, Ready
<1> QED
  BY <1>2, <1>3 DEF BeginInit, LoadBias

\* One pass of the loop reads the hash table its entry points to.
LEMMA LookupWalks == LookupInv /\ Walk => LookupInv'
<1> SUFFICES ASSUME LookupInv, Walk PROVE LookupInv'
  OBVIOUS
<1> DEFINE e == self.dyn[dynAt]
           H == Passed({"HASH"})
           G == Passed({"GNU_HASH"})
<1>1. /\ ImageInv /\ ImageInv' /\ dynAt \in 1..Len(self.dyn) /\ Len(self.dyn) \in Nat /\ lib' = lib
      /\ initRet = "none" /\ dynAt \in Nat /\ dynAt # 0
  BY ImageWalks DEF LookupInv, ImageInv, ImageTypeOK, WalkInv, Walk
<1>2. LibraryRead /\ HashesRead(H, G)
  BY <1>1 DEF LookupInv, HashInv
<1>3. CASE e.tag = "NULL" /\ dynAt' = Len(self.dyn) + 1 /\ self' = self /\ initRet' = initRet
  <2>1. ASSUME NEW T PROVE Passed(T)' = Passed(T)
    <3>1. Tags(T)' = Tags(T)
      BY <1>3 DEF Tags
    <3>2. \A i \in Tags(T) : i \in 1..Len(self.dyn) /\ i < dynAt
      <4>1. ASSUME NEW i \in Tags(T) PROVE i \in 1..Len(self.dyn) /\ i < dynAt
        <5>1. i \in 1..Len(self.dyn) /\ i # dynAt /\ (dynAt \in 1..i => self.dyn[dynAt].tag # "NULL")
          <6>1. i \in 1..Len(self.dyn) /\ \A j \in 1..i : self.dyn[j].tag # "NULL"
            BY DEF Tags
          <6>2. i \in 1..i
            BY <1>1, <6>1
          <6> QED
            BY <1>3, <6>1, <6>2
        <5> QED
          BY <1>1, <1>3, <5>1
      <4> QED
        BY <4>1
    <3>3. \A i \in Tags(T) : i < dynAt'
      BY <1>1, <1>3, <3>2
    <3> QED
      BY <3>1, <3>2, <3>3 DEF Passed
  <2>2. LibraryRead' /\ HashesRead(H, G)'
    BY <1>1, <1>2, <1>3, <2>1 DEF LibraryRead, HashesRead, TableAt, AddressAt, At
  <2> QED
    BY <1>1, <1>3, <2>2 DEF LookupInv, HashInv, Ready
<1>4. CASE Finish("format")
  BY <1>1, <1>4 DEF LookupInv, HashInv, Finish, Ready
<1>5. CASE e.tag # "NULL" /\ self' = Entry(e) /\ dynAt' = dynAt + 1 /\ initRet' = initRet
  <2>1. DOMAIN self = DOMAIN Reset
    BY <1>1 DEF ImageInv, ImageTypeOK
  <2>2. PICK a, t : a = AddressAt(dynAt) /\ t = TableAt(dynAt)
    OBVIOUS
  <2>3. a = Loaded(e.val)
    BY <2>2 DEF Loaded, AddressAt
  <2>4. t = At(Loaded(e.val))
    BY <2>2, <2>3 DEF TableAt
  <2> HIDE DEF e
  <2>5. /\ self'.dyn = self.dyn /\ self'.bias = self.bias
        /\ e.tag \in {"HASH", "GNU_HASH"} => self'.bucket = a /\ self'.chain = a
        /\ e.tag \notin {"HASH", "GNU_HASH"} => self'.bucket = self.bucket /\ self'.chain = self.chain
        /\ e.tag = "GNU_HASH" => /\ self'.symoffset = t.symoffset /\ self'.bloom = a
                                 /\ self'.shift = t.shift /\ self'.gnu = TRUE
        /\ e.tag # "GNU_HASH" => /\ self'.symoffset = self.symoffset /\ self'.bloom = self.bloom
                                 /\ self'.shift = self.shift /\ self'.gnu = self.gnu
    BY <1>5, <2>1, <2>3, <2>4 DEF Entry, PackedSizes, Reset
  <2>6. ASSUME NEW T PROVE Passed(T)' = Passed(T) \cup {i \in {dynAt} : self.dyn[i].tag \in T}
    BY <1>1, <1>5, <2>5, PassedNext DEF e
  <2>7. ASSUME NEW i PROVE AddressAt(i)' = AddressAt(i) /\ TableAt(i)' = TableAt(i)
    BY <1>1, <2>5 DEF TableAt, AddressAt, At
  <2>8. LibraryRead'
    BY <1>1, <1>2, <2>5 DEF LibraryRead
  <2>9. \A i, j \in Tags({"HASH"}) : i = j
    BY <1>1, <1>2, OneOfAKind
  <2>10. \A i, j \in Tags({"GNU_HASH"}) : i = j
    BY <1>1, <1>2, OneOfAKind
  <2>11. \A T : \A i \in Passed(T) : i \in Tags(T) /\ i < dynAt
    BY DEF Passed
  <2>12. \A T : e.tag \in T => dynAt \in Tags(T)
    <3>1. ASSUME NEW j \in 1..dynAt PROVE self.dyn[j].tag # "NULL"
      <4>1. j \in 1..Len(self.dyn) /\ (j < dynAt \/ j = dynAt)
        BY <1>1
      <4>2. \A k \in 1..Len(self.dyn) : k < dynAt /\ self.dyn[k].tag = "NULL" => dynAt = Len(self.dyn) + 1
        BY <1>1 DEF ImageInv, WalkInv
      <4>3. dynAt # Len(self.dyn) + 1
        BY <1>1
      <4> QED
        BY <1>5, <4>1, <4>2, <4>3 DEF e
    <3> QED
      BY <1>1, <3>1 DEF Tags, e
  <2>13. PICK d, h, g, hn, gn : d = dynAt /\ h = H /\ g = G /\ hn = H' /\ gn = G'
    OBVIOUS
  <2>14. /\ HashesRead(h, g) /\ t = TableAt(d) /\ a = AddressAt(d)
         /\ hn = h \cup (IF e.tag = "HASH" THEN {d} ELSE {})
         /\ gn = g \cup (IF e.tag = "GNU_HASH" THEN {d} ELSE {})
    BY <1>2, <2>2, <2>6, <2>13 DEF e
  <2>15. /\ e.tag = "HASH" => h = {}
         /\ e.tag = "GNU_HASH" => g = {}
    <3>1. ASSUME e.tag = "HASH", NEW i \in h PROVE FALSE
      <4>1. i = dynAt /\ i < dynAt
        BY <2>9, <2>11, <2>12, <2>13, <3>1
      <4> QED
        BY <1>1, <4>1
    <3>2. ASSUME e.tag = "GNU_HASH", NEW i \in g PROVE FALSE
      <4>1. i = dynAt /\ i < dynAt
        BY <2>10, <2>11, <2>12, <2>13, <3>2
      <4> QED
        BY <1>1, <4>1
    <3> QED
      BY <3>1, <3>2
  <2>16. \A j \in g : ~(d < j)
    <3>1. \A j \in g : j < dynAt /\ j \in 1..Len(self.dyn)
      BY <2>11, <2>13 DEF Tags
    <3> QED
      BY <1>1, <2>13, <3>1
  <2>17. HashesRead(hn, gn)'
    <3>1. CASE e.tag = "HASH"
      BY <2>5, <2>7, <2>14, <2>15, <2>16, <3>1 DEF HashesRead
    <3>2. CASE e.tag = "GNU_HASH"
      BY <2>5, <2>7, <2>14, <2>15, <3>2 DEF HashesRead
    <3>3. CASE e.tag \notin {"HASH", "GNU_HASH"}
      BY <2>5, <2>7, <2>14, <3>3 DEF HashesRead
    <3> QED
      BY <3>1, <3>2, <3>3
  <2>18. HashesRead(H, G)'
    BY <2>13, <2>17
  <2> QED
    BY <1>1, <1>5, <2>8, <2>18 DEF LookupInv, HashInv, Ready
<1> QED
  BY <1>3, <1>4, <1>5, Zenon DEF Walk

\* At the end of the walk all entries before DT_NULL have been read.
LEMMA LookupEnds == LookupInv /\ CheckTables => LookupInv'
<1> SUFFICES ASSUME LookupInv, CheckTables PROVE LookupInv'
  OBVIOUS
<1>1. /\ ImageInv /\ ImageInv' /\ dynAt = Len(self.dyn) + 1 /\ Len(self.dyn) \in Nat /\ dynAt # 0
      /\ lib' = lib /\ dynAt' = 0 /\ DOMAIN self = DOMAIN Reset
  BY ImageEnds DEF LookupInv, ImageInv, ImageTypeOK, CheckTables, Finish
<1>2. LibraryRead /\ HashesRead(Passed({"HASH"}), Passed({"GNU_HASH"}))
  BY <1>1 DEF LookupInv, HashInv
<1>3. /\ self'.dyn = self.dyn /\ self'.bias = self.bias /\ self'.symtab = self.symtab
      /\ self'.bucket = self.bucket /\ self'.chain = self.chain /\ self'.symoffset = self.symoffset
      /\ self'.bloom = self.bloom /\ self'.shift = self.shift /\ self'.gnu = self.gnu
  BY <1>1 DEF CheckTables, Reset
<1>4. Ready' => Complete(self')
  BY DEF CheckTables, Finish, Ready
<1>5. ASSUME NEW T PROVE Tags(T)' = Passed(T)
  <2>1. Tags(T)' = Tags(T)
    BY <1>3 DEF Tags
  <2>2. \A i \in Tags(T) : i < dynAt
    BY <1>1 DEF Tags
  <2> QED
    BY <2>1, <2>2 DEF Passed
<1>6. \A i : AddressAt(i)' = AddressAt(i) /\ TableAt(i)' = TableAt(i)
  BY <1>1, <1>3 DEF TableAt, AddressAt, At
<1>7. LibraryRead'
  BY <1>1, <1>2, <1>3 DEF LibraryRead
<1>8. HashesRead(Tags({"HASH"}), Tags({"GNU_HASH"}))'
  BY <1>2, <1>3, <1>5, <1>6 DEF HashesRead
<1> QED
  BY <1>1, <1>4, <1>7, <1>8 DEF LookupInv, HashInv, Complete

LEMMA LookupStep == LookupInv /\ [ImageNext]_imageVars => LookupInv'
<1> SUFFICES ASSUME LookupInv, [ImageNext]_imageVars PROVE LookupInv'
  OBVIOUS
<1>1. ImageInv'
  BY ImageStep DEF LookupInv
<1>2. CASE Rejected
  BY <1>1, <1>2 DEF LookupInv, HashInv, Rejected, Finish, Ready
<1>3. CASE UNCHANGED imageVars
  <2>1. lib' = lib /\ self' = self /\ dynAt' = dynAt /\ initRet' = initRet
    BY <1>3 DEF imageVars
  <2>2. /\ \A T : Tags(T)' = Tags(T) /\ Passed(T)' = Passed(T)
        /\ \A i : AddressAt(i)' = AddressAt(i) /\ TableAt(i)' = TableAt(i)
    BY <2>1 DEF Tags, Passed, TableAt, AddressAt, At
  <2>3. HashesRead(Passed({"HASH"}), Passed({"GNU_HASH"}))' = HashesRead(Passed({"HASH"}), Passed({"GNU_HASH"}))
    BY <2>1, <2>2 DEF HashesRead
  <2>4. HashesRead(Tags({"HASH"}), Tags({"GNU_HASH"}))' = HashesRead(Tags({"HASH"}), Tags({"GNU_HASH"}))
    BY <2>1, <2>2 DEF HashesRead
  <2> QED
    BY <1>1, <2>1, <2>3, <2>4 DEF LookupInv, HashInv, LibraryRead, Ready
<1> QED
  BY <1>2, <1>3, LookupBegins, LookupWalks, LookupEnds DEF ImageNext

\* What the look-ups of a library that has been accepted read: its symbol table, and
\* the one hash table they use.
LEMMA TablesRead ==
  ASSUME LookupInv, Ready, ~Clobbered, NEW syms, syms = At(self.symtab)
  PROVE  /\ Len(syms) \in Nat /\ syms[1] \notin Names
         /\ ~self.gnu => InElfHash(syms, HashTable, Names)
         /\ self.gnu => InGnuHash(syms, GnuTableRead, Names) \/ EmptyGnuHash(GnuTableRead)
<1> DEFINE H == Tags({"HASH"})
           G == Tags({"GNU_HASH"})
<1>1. /\ ImageInv /\ LibraryRead /\ HashesRead(H, G) /\ self.symtab # NULL /\ self.bucket # NULL
      /\ lib \in Libraries /\ Len(self.dyn) \in Nat
  BY DEF LookupInv, HashInv, ImageInv, ImageTypeOK
<1>2. PICK s \in Tags({"SYMTAB"}) : self.symtab = self.bias + self.dyn[s].val
  BY <1>1 DEF ImageInv, TablesAsLinked
<1>3. ASSUME NEW tag \in {"SYMTAB", "HASH", "GNU_HASH"}, NEW i \in Tags({tag})
      PROVE  i \in Said(lib, tag) /\ TableAt(i) = TableOf(lib, i)
  <2>1. i \in 1..Len(self.dyn)
    BY DEF Tags
  <2> QED
    BY <1>1, <2>1, OneOfAKind DEF LibraryRead, TableAt, AddressAt, TableOf, At
<1>4. s \in Said(lib, "SYMTAB") /\ syms = TableOf(lib, s)
  BY <1>2, <1>3 DEF TableAt, AddressAt
<1>5. /\ Len(syms) \in Nat /\ syms[1] \notin Names
      /\ \A i \in Said(lib, "HASH") : InElfHash(syms, TableOf(lib, i), Names)
      /\ \A i \in Said(lib, "GNU_HASH") :
           InGnuHash(syms, TableOf(lib, i), Names) \/ EmptyGnuHash(TableOf(lib, i))
  BY <1>1, <1>4, HashAssumption DEF LibraryRead
<1>6. CASE ~self.gnu
  <2>1. G = {} /\ H # {}
    BY <1>1, <1>6 DEF HashesRead
  <2>2. PICK i \in H : TRUE
    BY <2>1
  <2>3. PICK t : t = TableAt(i)
    OBVIOUS
  <2>4. At(self.bucket) = t /\ At(self.chain) = t
    BY <1>1, <2>1, <2>3 DEF HashesRead, TableAt
  <2>5. InElfHash(syms, t, Names)
    BY <1>3, <1>5, <2>3
  <2>6. HashTable.bucket = t.bucket /\ HashTable.chain = t.chain
    BY <2>4 DEF HashTable
  <2>7. InElfHash(syms, HashTable, Names)
    <3> HIDE DEF HashTable
    <3> QED
      BY <2>5, <2>6 DEF InElfHash
  <2> QED
    BY <1>5, <1>6, <2>7
<1>7. CASE self.gnu
  <2>1. PICK j \in G : TRUE
    BY <1>1, <1>7 DEF HashesRead
  <2>2. PICK t : t = TableAt(j)
    OBVIOUS
  <2>3. \A i \in H : i < j
    <3>1. ASSUME NEW i \in H PROVE i < j
      <4>1. ~(j < i)
        BY DEF Clobbered
      <4>2. i # j
        BY DEF Tags
      <4>3. i \in Int /\ j \in Int
        BY DEF Tags
      <4> QED
        BY <4>1, <4>2, <4>3
    <3> QED
      BY <3>1
  <2>4. /\ At(self.bucket) = t /\ At(self.chain) = t /\ self.symoffset = t.symoffset
        /\ At(self.bloom) = t /\ self.shift = t.shift
    BY <1>1, <2>2, <2>3 DEF HashesRead, TableAt
  <2>5. InGnuHash(syms, t, Names) \/ EmptyGnuHash(t)
    BY <1>3, <1>5, <2>2
  <2>6. PICK r : r = GnuTableRead
    OBVIOUS
  <2>7. /\ r.bucket = t.bucket /\ r.chain = t.chain /\ r.symoffset = t.symoffset
        /\ r.bloom = t.bloom /\ r.shift = t.shift
    BY <2>4, <2>6 DEF GnuTableRead
  <2>8. \A h, i : LeadsTo(t, h, i) => LeadsTo(r, h, i)
    BY <2>7, Zenon DEF LeadsTo
  <2>9. InGnuHash(syms, t, Names) => InGnuHash(syms, r, Names)
    BY <2>7, <2>8 DEF InGnuHash
  <2>10. EmptyGnuHash(t) => EmptyGnuHash(r)
    BY <2>7 DEF EmptyGnuHash
  <2> QED
    BY <1>5, <1>7, <2>5, <2>6, <2>9, <2>10
<1> QED
  BY <1>6, <1>7

\* The look-up among the defined symbols answers the index of one with the name, and
\* finds the name when one has it.
LEMMA DefinedFound ==
  ASSUME NEW syms, syms = At(self.symtab), Len(syms) \in Nat, InGnuHash(syms, GnuTableRead, Names),
         NEW name \in Names, NEW x, x = GnuLookupDef(name)
  PROVE  /\ x # NotFound => x \in 0..(Len(syms) - 1) /\ syms[x + 1] = name
         /\ \A j \in self.symoffset..(Len(syms) - 1) : syms[j + 1] = name => x # NotFound
<1>1. PICK t, h, i, off, n : /\ t = GnuTableRead /\ h = GnuHash[name] /\ off = t.symoffset /\ n = Len(syms)
                             /\ i = t.bucket[(h % Len(t.bucket)) + 1]
  OBVIOUS
<1>2. PICK y : y = OnGnuChain(syms, t, name, i)
  OBVIOUS
<1>3. PICK bad \in BOOLEAN : bad = \/ ~(Mask(h, t.shift) \subseteq t.bloom[((h \div Bits) % Len(t.bloom)) + 1])
                                   \/ i < off
  OBVIOUS
<1>4. x = IF bad THEN NotFound ELSE y
  BY <1>1, <1>2, <1>3 DEF GnuLookupDef
<1>5. n \in Nat /\ off \in 1..n /\ Len(t.chain) = n - off
  <2>1. off \in 1..Len(syms) /\ off + Len(t.chain) = Len(syms)
    BY <1>1 DEF InGnuHash
  <2> QED
    BY <1>1, <2>1
<1>6. Len(t.chain) \in Nat /\ off \in Nat /\ self.symoffset = off
  BY <1>1, <1>5 DEF GnuTableRead
<1>7. /\ y # NotFound => y \in 0..(Len(syms) - 1) /\ syms[y + 1] = name
      /\ \A j \in 0..(Len(syms) - 1) :
           /\ i <= j /\ \A k \in i..(j - 1) : ~EndsChain(t.chain[k - off + 1])
           /\ SameHash(t.chain[j - off + 1], GnuHash[name]) /\ syms[j + 1] = name
           => y # NotFound
  <2>1. t.symoffset \in Nat /\ Len(t.chain) \in Nat
    BY <1>1, <1>6
  <2>2. t.symoffset + Len(t.chain) = Len(syms)
    BY <1>1 DEF InGnuHash
  <2>3. /\ y # NotFound => y \in 0..(Len(syms) - 1) /\ syms[y + 1] = name
        /\ \A j \in 0..(Len(syms) - 1) :
             /\ i <= j /\ \A k \in i..(j - 1) : ~EndsChain(t.chain[k - t.symoffset + 1])
             /\ SameHash(t.chain[j - t.symoffset + 1], GnuHash[name])
             /\ syms[j + 1] = name
             => y # NotFound
    BY <1>2, <2>1, <2>2, GnuIndex
  <2> QED
    BY <1>1, <2>3
<1>8. ASSUME NEW j \in off..(n - 1), syms[j + 1] = name PROVE ~bad /\ y # NotFound
  <2>1. /\ {h % Bits, (h \div 2^t.shift) % Bits} \subseteq t.bloom[((h \div Bits) % Len(t.bloom)) + 1]
        /\ i \in off..j /\ \A k \in i..(j - 1) : ~EndsChain(t.chain[k - off + 1])
        /\ SameHash(t.chain[j - off + 1], h)
    <3>1. LeadsTo(t, GnuHash[syms[j + 1]], j)
      BY <1>1, <1>8, Zenon DEF InGnuHash
    <3>2. LeadsTo(t, h, j)
      BY <1>1, <1>8, <3>1
    <3> QED
      BY <1>1, <3>2 DEF LeadsTo
  <2>2. ~(i < off) /\ i <= j /\ j \in 0..(n - 1)
    BY <1>5, <2>1
  <2> QED
    BY <1>1, <1>3, <1>7, <1>8, <2>1, <2>2 DEF Mask
<1> QED
  BY <1>1, <1>4, <1>6, <1>7, <1>8

\* In an empty table of GNU ld the look-up among the defined symbols finds nothing.
LEMMA NoneDefined ==
  ASSUME EmptyGnuHash(GnuTableRead), NEW name \in Names, GnuHash[name] \in Nat
  PROVE  GnuLookupDef(name) = NotFound
<1>1. PICK t, i : t = GnuTableRead /\ i = t.bucket[(GnuHash[name] % Len(t.bucket)) + 1]
  OBVIOUS
<1>2. t.symoffset = 1 /\ t.bucket = <<0>> /\ GnuHash[name] \in Nat
  BY <1>1 DEF EmptyGnuHash
<1>3. Len(t.bucket) = 1 /\ GnuHash[name] % 1 = 0
  BY <1>2
<1>4. i = 0
  BY <1>1, <1>2, <1>3
<1> QED
  BY <1>1, <1>2, <1>4 DEF GnuLookupDef

\* The look-up among the imported symbols answers the first index before symoffset
\* whose symbol has the name.
LEMMA ImportedFound ==
  ASSUME NEW syms, syms = At(self.symtab), self.symoffset \in Nat, NEW name, NEW y,
         y = GnuLookupUndef(name)
  PROVE  /\ y # NotFound => y \in 0..(self.symoffset - 1) /\ syms[y + 1] = name
         /\ \A j \in 0..(self.symoffset - 1) : syms[j + 1] = name => y # NotFound
<1> DEFINE found == {j \in 0..(self.symoffset - 1) : Symbol(j) = name}
<1>1. y = IF found = {} THEN NotFound ELSE Min(found)
  BY Zenon DEF GnuLookupUndef, Min
<1>2. \A j : Symbol(j) = syms[j + 1]
  BY DEF Symbol
<1>3. found # {} => Min(found) \in found
  <2>1. found \subseteq Nat
    OBVIOUS
  <2> HIDE DEF found
  <2> QED
    BY <2>1, LeastNatural
<1>4. \A v \in found : v \in 0..(self.symoffset - 1) /\ syms[v + 1] = name /\ v # NotFound
  BY <1>2 DEF NotFound
<1>5. \A j \in 0..(self.symoffset - 1) : syms[j + 1] = name => j \in found
  BY <1>2
<1> HIDE DEF found
<1> QED
  BY <1>1, <1>3, <1>4, <1>5

LEMMA EveryNameFound == LookupInv => SymbolsFound
<1> SUFFICES ASSUME LookupInv, Ready, ~Clobbered, NEW name \in Names
             PROVE  LET i == FindSymidx(name)
                    IN IF \E j \in (1..(Len(At(self.symtab)) - 1)) \ Unreached : Symbol(j) = name
                       THEN i \in 1..(Len(At(self.symtab)) - 1) /\ Symbol(i) = name
                       ELSE i = NotFound
  BY DEF SymbolsFound
<1>1. PICK syms, n, i, out : /\ syms = At(self.symtab) /\ n = Len(syms) /\ i = FindSymidx(name)
                             /\ out = Unreached
  OBVIOUS
<1>2. /\ n \in Nat /\ syms[1] \notin Names
      /\ ~self.gnu => InElfHash(syms, HashTable, Names)
      /\ self.gnu => InGnuHash(syms, GnuTableRead, Names) \/ EmptyGnuHash(GnuTableRead)
  BY <1>1, TablesRead
<1>3. \A j : Symbol(j) = syms[j + 1]
  BY <1>1 DEF Symbol
<1>4. /\ i # NotFound => i \in 1..(n - 1) /\ syms[i + 1] = name
      /\ (\E j \in (1..(n - 1)) \ out : syms[j + 1] = name) => i # NotFound
      /\ i # NotFound => i \notin out
  <2>1. CASE ~self.gnu
    <3>1. i = ByElfHash(syms, HashTable, name)
      BY <1>1, <2>1 DEF FindSymidx, ElfLookup
    <3>2. out = {}
      BY <1>1, <2>1 DEF Unreached
    <3> HIDE DEF HashTable
    <3> QED
      BY <1>1, <1>2, <2>1, <3>1, <3>2, ElfIndex
  <2>2. CASE self.gnu
    <3>1. PICK x, y, off, len : /\ x = GnuLookupDef(name) /\ y = GnuLookupUndef(name)
                                /\ off = self.symoffset /\ len = Len(At(self.chain).chain)
      OBVIOUS
    <3>2. i = (IF x # NotFound THEN x ELSE y) /\ out = (off + len)..(n - 1)
      BY <1>1, <2>2, <3>1 DEF FindSymidx, Unreached
    <3>3. \A v \in 0..(n - 1) : syms[v + 1] = name => v \in 1..(n - 1) /\ v # NotFound
      <4>1. ASSUME NEW v \in 0..(n - 1), syms[v + 1] = name PROVE v # 0
        <5>1. v = 0 => syms[v + 1] = syms[1]
          OBVIOUS
        <5> QED
          BY <1>2, <4>1, <5>1
      <4>2. ASSUME NEW v \in 0..(n - 1), v # 0 PROVE v \in 1..(n - 1) /\ v # NotFound
        BY <1>2, <4>2 DEF NotFound
      <4> QED
        BY <4>1, <4>2
    <3>4. CASE InGnuHash(syms, GnuTableRead, Names)
      <4>1. off \in 1..n /\ off + len = n
        BY <1>1, <3>1, <3>4 DEF InGnuHash, GnuTableRead
      <4>2. /\ x # NotFound => x \in 0..(n - 1) /\ syms[x + 1] = name
            /\ \A j \in off..(n - 1) : syms[j + 1] = name => x # NotFound
        BY <1>1, <1>2, <3>1, <3>4, DefinedFound
      <4>3. /\ y # NotFound => y \in 0..(off - 1) /\ syms[y + 1] = name
            /\ \A j \in 0..(off - 1) : syms[j + 1] = name => y # NotFound
        BY <1>1, <3>1, <4>1, ImportedFound
      <4>4. out = {}
        BY <1>2, <3>2, <4>1
      <4>5. \A j \in 1..(n - 1) : j \in off..(n - 1) \/ j \in 0..(off - 1)
        BY <1>2, <4>1
      <4>6. y # NotFound => y \in 0..(n - 1)
        BY <1>2, <4>1, <4>3
      <4> QED
        BY <3>2, <3>3, <4>2, <4>3, <4>4, <4>5, <4>6
    <3>5. CASE EmptyGnuHash(GnuTableRead)
      <4>1. off = 1 /\ len = 0
        BY <3>1, <3>5 DEF EmptyGnuHash, GnuTableRead
      <4>2. x = NotFound
        BY <3>1, <3>5, HashAssumption, NoneDefined
      <4>3. y # NotFound => y \in 0..0 /\ syms[y + 1] = name
        BY <1>1, <3>1, <4>1, ImportedFound
      <4>4. y = NotFound
        <5>1. y # NotFound => syms[1] = name
          BY <4>3
        <5> QED
          BY <1>2, <5>1
      <4>5. (1..(n - 1)) \ out = {}
        BY <3>2, <4>1
      <4> QED
        BY <3>2, <4>2, <4>4, <4>5
    <3> QED
      BY <1>2, <2>2, <3>4, <3>5
  <2> QED
    BY <2>1, <2>2
<1> QED
  BY <1>1, <1>3, <1>4, Zenon

\* A library that xh_elf_init accepts answers every look-up right, by the hash table of
\* either kind, an empty one included: a name of the symbol table is found, defined
\* or imported, and no other one, as long as DT_HASH does not come after DT_GNU_HASH;
\* of the symbols an empty DT_GNU_HASH table leaves to no search none is found
\* (xh_elf.c:355-445, 858-880).
THEOREM EverySymbolFound == ImageSpec => []SymbolsFound
<1>1. ImageInit(Libraries) => LookupInv
  BY ImageStart DEF LookupInv, HashInv, ImageInit, Ready
<1> QED
  BY <1>1, LookupStep, EveryNameFound, PTL DEF ImageSpec

-----------------------------------------------------------------------------
(* The protection of a word: XhProtect.                                     *)

ProtectSpec == ProtectInit(MapsFiles, Addresses) /\ [][ProtectNext]_protectVars

-----------------------------------------------------------------------------
(* The inductive invariant.                                                *)

Own(i) == maps[i].named /\ maps[i].private
Holds(i, b) == maps[i].start <= b /\ b < maps[i].end
Before == Protection(maps)

\* The bytes of the word that the lines taken so far account for.
Seen == {b \in Bytes : b < scan.start}

ProtectTypeOK ==
  /\ maps \in MapsFiles /\ addr \in Addresses
  /\ scan \in [line : Nat \ {0}, start : Nat, prot : SUBSET {"r", "w", "x"}, load0 : BOOLEAN]
  /\ at \in {"scan", "set", "restore", "done", "error"}

\* What has been read is what all the bytes seen allow, and no line passed over
\* could have gone on.
ScanInv ==
  /\ \A b \in Seen : \E i \in 1..Len(maps) : Own(i) /\ Holds(i, b)
  /\ scan.load0 => at \in {"scan", "error"} /\ scan.start = addr
  /\ ~scan.load0 => addr < scan.start /\ \A x : x \in scan.prot <=> \A b \in Seen : x \in Before[PageAt(b)]
  /\ at \in {"scan", "error"} =>
       /\ scan.start < addr + WordSize
       /\ \A i \in 1..Len(maps) : i < scan.line => ~(Own(i) /\ Holds(i, scan.start))
  /\ at \in {"set", "restore", "done"} => addr + WordSize <= scan.start

PageInv ==
  /\ at \in {"scan", "set", "error"} => pageProt = Before
  /\ at = "restore" => pageProt = IF scan.prot = ReadWrite THEN Before
                                  ELSE [p \in DOMAIN Before |-> IF p \in Covered THEN ReadWrite ELSE Before[p]]
  /\ at = "done" => pageProt = IF scan.prot = ReadWrite THEN Before
                               ELSE [p \in DOMAIN Before |-> IF p \in Covered THEN scan.prot ELSE Before[p]]
  /\ at = "error" => scan.line > Len(maps)

ProtectInv == ProtectTypeOK /\ ScanInv /\ PageInv

-----------------------------------------------------------------------------
(* Pages.                                                                  *)

LEMMA TimesMonotone ==
  ASSUME NEW n \in Nat, NEW m \in Nat, NEW k \in Nat, k # 0
  PROVE  n * k <= m * k <=> n <= m
<1>1. ASSUME n <= m PROVE n * k <= m * k
  <2>1. PICK d \in Nat : m = n + d
    <3>1. m - n \in Nat /\ m = n + (m - n)
      BY <1>1
    <3> QED
      BY <3>1
  <2>2. m * k = n * k + d * k
    BY <2>1
  <2>3. d * k \in Nat /\ n * k \in Nat
    OBVIOUS
  <2> QED
    BY <2>2, <2>3
<1>2. ASSUME m < n PROVE m * k < n * k
  <2>1. PICK d \in Nat : n = m + 1 + d
    <3>1. n - m - 1 \in Nat /\ n = m + 1 + (n - m - 1)
      BY <1>2
    <3> QED
      BY <3>1
  <2>2. n * k = m * k + k + d * k
    BY <2>1
  <2>3. d * k \in Nat /\ m * k \in Nat
    OBVIOUS
  <2> QED
    BY <2>2, <2>3
<1> QED
  BY <1>1, <1>2

LEMMA PageBounds ==
  ASSUME NEW a \in Nat
  PROVE  /\ PageAt(a) \in Nat
         /\ PageAt(a) * PageSize <= a /\ a < (PageAt(a) + 1) * PageSize
<1>1. PageSize \in Nat /\ PageSize > 0
  BY ProtectAssumption
<1>2. a = PageSize * (a \div PageSize) + (a % PageSize)
  BY <1>1
<1>3. a \div PageSize \in Nat /\ a % PageSize \in 0..(PageSize - 1)
  BY <1>1
<1>4. PageSize * (a \div PageSize) = (a \div PageSize) * PageSize
  BY <1>1, <1>3
<1>5. (a \div PageSize + 1) * PageSize = (a \div PageSize) * PageSize + PageSize
  BY <1>1, <1>3
<1>6. (a \div PageSize) * PageSize \in Nat
  BY <1>1, <1>3
<1> QED
  BY <1>1, <1>2, <1>3, <1>4, <1>5, <1>6 DEF PageAt

\* An address that is a multiple of the page size is below another one if its
\* page is.
LEMMA WholePages ==
  ASSUME NEW s \in Nat, s % PageSize = 0, NEW a \in Nat
  PROVE  s <= a <=> s <= PageAt(a) * PageSize
<1>1. PageSize \in Nat /\ PageSize # 0
  BY ProtectAssumption
<1> DEFINE n == PageAt(s)
           m == PageAt(a)
<1>2. n \in Nat /\ m \in Nat
  BY PageBounds
<1>3. s = n * PageSize
  <2>1. s = PageSize * (s \div PageSize) + (s % PageSize)
    BY <1>1
  <2>2. s = PageSize * (s \div PageSize)
    BY <1>1, <1>2, <2>1 DEF PageAt
  <2>3. PageSize * (s \div PageSize) = (s \div PageSize) * PageSize
    BY <1>1, <1>2 DEF PageAt
  <2> QED
    BY <2>2, <2>3 DEF PageAt
<1>4. m * PageSize <= a /\ a < (m + 1) * PageSize
  BY PageBounds
<1> HIDE DEF n, m
<1>5. m * PageSize \in Nat /\ n * PageSize \in Nat /\ (m + 1) * PageSize \in Nat
  BY <1>1, <1>2
<1>6. ASSUME s <= a PROVE s <= m * PageSize
  <2>1. ~((m + 1) * PageSize <= n * PageSize)
    BY <1>3, <1>4, <1>5, <1>6
  <2>2. ~(m + 1 <= n)
    BY <1>1, <1>2, <2>1, TimesMonotone
  <2>3. n <= m
    BY <1>2, <2>2
  <2> QED
    BY <1>1, <1>2, <1>3, <2>3, TimesMonotone
<1>7. ASSUME s <= m * PageSize PROVE s <= a
  BY <1>4, <1>5, <1>7
<1> QED
  BY <1>6, <1>7 DEF m

LEMMA PageOrder ==
  ASSUME NEW a \in Nat, NEW b \in Nat, a <= b
  PROVE  PageAt(a) <= PageAt(b)
<1>1. PageSize \in Nat /\ PageSize # 0
  BY ProtectAssumption
<1>2. PICK n, m : n = PageAt(a) /\ m = PageAt(b)
  OBVIOUS
<1>3. n \in Nat /\ m \in Nat /\ n * PageSize <= a /\ b < (m + 1) * PageSize
  BY <1>2, PageBounds
<1>4. n * PageSize \in Nat /\ (m + 1) * PageSize \in Nat
  BY <1>1, <1>3
<1>5. ~((m + 1) * PageSize <= n * PageSize)
  BY <1>3, <1>4
<1>6. ~(m + 1 <= n)
  BY <1>1, <1>3, <1>5, TimesMonotone
<1> QED
  BY <1>2, <1>3, <1>6

-----------------------------------------------------------------------------
(* The lines of the maps file.                                             *)

LEMMA Lines ==
  ASSUME maps \in MapsFiles
  PROVE  /\ Len(maps) \in Nat
         /\ \A i \in 1..Len(maps) :
              /\ maps[i].start \in Nat /\ maps[i].end \in Nat /\ maps[i].start < maps[i].end
              /\ maps[i].perm \subseteq {"r", "w", "x"}
              /\ maps[i].private \in BOOLEAN /\ maps[i].named \in BOOLEAN
              /\ maps[i].start % PageSize = 0 /\ maps[i].end % PageSize = 0
         /\ \A i, j \in 1..Len(maps) : i < j => maps[i].end <= maps[j].start
<1>1. maps \in Seq(MapsLine)
  BY ProtectAssumption
<1>2. \A i \in 1..Len(maps) : maps[i] \in MapsLine
  BY <1>1
<1>3. \A i \in 1..Len(maps) :
        /\ maps[i].start % PageSize = 0 /\ maps[i].end % PageSize = 0
        /\ maps[i].start < maps[i].end
  BY ProtectAssumption
<1>4. \A i, j \in 1..Len(maps) : i < j => maps[i].end <= maps[j].start
  BY ProtectAssumption
<1> QED
  BY <1>1, <1>2, <1>3, <1>4 DEF MapsLine

\* The line that holds a byte is the one line of its page, and gives the page
\* its protection.
LEMMA LineOfByte ==
  ASSUME maps \in MapsFiles, NEW i \in 1..Len(maps), NEW b \in Nat
  PROVE  /\ i \in LineOf(maps, PageAt(b)) <=> Holds(i, b)
         /\ Holds(i, b) => /\ LineOf(maps, PageAt(b)) = {i}
                           /\ PageAt(b) \in DOMAIN Before
                           /\ Before[PageAt(b)] = maps[i].perm
<1> DEFINE p == PageAt(b)
<1>1. /\ maps[i].start \in Nat /\ maps[i].end \in Nat /\ maps[i].start < maps[i].end
      /\ \A j \in 1..Len(maps) : /\ maps[j].start \in Nat /\ maps[j].end \in Nat
                                 /\ maps[j].start < maps[j].end
      /\ Len(maps) \in Nat
  BY Lines
<1>2. p \in Nat /\ p * PageSize \in Nat
  <2>1. PageSize \in Nat
    BY ProtectAssumption
  <2>2. p \in Nat
    BY PageBounds
  <2> HIDE DEF p
  <2> QED
    BY <2>1, <2>2
<1>3. ASSUME NEW j \in 1..Len(maps)
      PROVE  j \in LineOf(maps, p) <=> Holds(j, b)
  <2>1. maps[j].start \in Nat /\ maps[j].end \in Nat
        /\ maps[j].start % PageSize = 0 /\ maps[j].end % PageSize = 0
    BY Lines
  <2>2. maps[j].start <= b <=> maps[j].start <= p * PageSize
    BY <2>1, WholePages
  <2>3. maps[j].end <= b <=> maps[j].end <= p * PageSize
    BY <2>1, WholePages
  <2> HIDE DEF p
  <2>4. j \in LineOf(maps, p) <=> maps[j].start <= p * PageSize /\ p * PageSize < maps[j].end
    BY DEF LineOf
  <2> QED
    BY <1>2, <2>1, <2>2, <2>3, <2>4 DEF Holds
<1>4. ASSUME Holds(i, b) PROVE LineOf(maps, p) = {i} /\ p \in DOMAIN Before /\ Before[p] = maps[i].perm
  <2>1. ASSUME NEW j \in 1..Len(maps), j # i PROVE ~Holds(j, b)
    <3>1. maps[i].end <= maps[j].start \/ maps[j].end <= maps[i].start
      <4>1. j < i \/ i < j
        BY <1>1, <2>1
      <4> QED
        BY <4>1, Lines
    <3> QED
      BY <1>1, <1>4, <3>1 DEF Holds
  <2>2. LineOf(maps, p) = {i}
    <3>1. LineOf(maps, p) \subseteq 1..Len(maps)
      BY DEF LineOf
    <3> HIDE DEF p
    <3> QED
      BY <1>3, <1>4, <2>1, <3>1
  <2>3. maps[i].start <= b /\ b <= maps[i].end - 1 /\ maps[i].end - 1 \in Nat
    BY <1>1, <1>4 DEF Holds
  <2>4. PageAt(maps[i].start) <= p /\ p <= PageAt(maps[i].end - 1)
    BY <1>1, <2>3, PageOrder
  <2>5. PageAt(maps[i].start) \in Nat /\ PageAt(maps[i].end - 1) \in Nat
    BY <1>1, <2>3, PageBounds
  <2>6. p \in PageAt(maps[i].start)..PageAt(maps[i].end - 1)
    BY <1>2, <2>4, <2>5
  <2> HIDE DEF p
  <2>7. p \in UNION {PageAt(maps[k].start)..PageAt(maps[k].end - 1) : k \in 1..Len(maps)}
    BY <2>6
  <2>8. p \in DOMAIN Before /\ Before[p] = maps[CHOOSE k \in LineOf(maps, p) : TRUE].perm
    BY <2>7 DEF Before, Protection
  <2>9. (CHOOSE k \in LineOf(maps, p) : TRUE) = i
    BY <2>2
  <2>10. Before[p] = maps[i].perm
    BY <2>8, <2>9, Zenon
  <2> QED
    BY <2>2, <2>8, <2>10
<1> QED
  BY <1>3, <1>4 DEF p

-----------------------------------------------------------------------------
(* The steps.                                                              *)

\* What the steps below need of the numbers.
LEMMA WordBytes ==
  ASSUME ProtectTypeOK
  PROVE  /\ addr \in Nat /\ WordSize \in Nat /\ WordSize # 0 /\ Len(maps) \in Nat
         /\ Bytes \subseteq Nat /\ scan.start \in Nat /\ scan.line \in Nat
         /\ \A b : b \in Bytes <=> b \in Nat /\ addr <= b /\ b < addr + WordSize
<1>1. addr \in Nat /\ WordSize \in Nat /\ WordSize # 0
  BY ProtectAssumption DEF ProtectTypeOK
<1>2. Len(maps) \in Nat
  BY Lines DEF ProtectTypeOK
<1> QED
  BY <1>1, <1>2 DEF ProtectTypeOK, Bytes

LEMMA ScanStart ==
  ASSUME ProtectInit(MapsFiles, Addresses)
  PROVE  ProtectInv
<1>1. ProtectTypeOK
  BY ProtectAssumption DEF ProtectInit, ProtectTypeOK
<1>2. scan.start = addr /\ scan.line = 1 /\ scan.load0 = TRUE /\ at = "scan" /\ pageProt = Before
  BY DEF ProtectInit, Before
<1>3. Seen = {}
  BY <1>1, <1>2, WordBytes DEF Seen
<1>4. ScanInv
  BY <1>1, <1>2, <1>3, WordBytes DEF ScanInv
<1>5. PageInv
  BY <1>2 DEF PageInv
<1> QED
  BY <1>1, <1>4, <1>5 DEF ProtectInv

LEMMA SkipStep ==
  ASSUME ProtectInv, SkipLine
  PROVE  ProtectInv'
<1> USE DEF ProtectInv
<1>1. /\ at = "scan" /\ at' = "scan" /\ UNCHANGED <<maps, addr, pageProt>>
      /\ scan' = [scan EXCEPT !.line = @ + 1]
      /\ scan.line <= Len(maps) /\ Elsewhere(maps[scan.line])
  BY DEF SkipLine
<1>2. scan'.line = scan.line + 1 /\ scan'.start = scan.start /\ scan'.prot = scan.prot
      /\ scan'.load0 = scan.load0
      /\ scan' \in [line : Nat \ {0}, start : Nat, prot : SUBSET {"r", "w", "x"}, load0 : BOOLEAN]
  BY <1>1 DEF ProtectTypeOK
<1>3. ProtectTypeOK'
  BY <1>1, <1>2 DEF ProtectTypeOK
<1>4. Bytes' = Bytes /\ Before' = Before
  BY <1>1 DEF Bytes, Before, Protection, LineOf
<1>5. Seen' = Seen
  BY <1>2, <1>4 DEF Seen
<1>6. ASSUME NEW i \in 1..Len(maps), i < scan.line + 1
      PROVE  ~(Own(i) /\ Holds(i, scan.start))
  <2>1. CASE i = scan.line
    BY <1>1, <2>1 DEF Elsewhere, Own, Holds
  <2>2. CASE i < scan.line
    BY <1>1, <2>2 DEF ScanInv
  <2> QED
    BY <1>6, <2>1, <2>2, WordBytes
<1>7. ScanInv'
  BY <1>1, <1>2, <1>4, <1>5, <1>6 DEF ScanInv, Own, Holds, PageAt
<1>8. PageInv'
  BY <1>1, <1>4 DEF PageInv
<1> QED
  BY <1>3, <1>7, <1>8

LEMMA TakeStep ==
  ASSUME ProtectInv, TakeLine
  PROVE  ProtectInv'
<1> USE DEF ProtectInv
<1> DEFINE i == scan.line
           l == maps[scan.line]
<1>1. /\ at = "scan" /\ UNCHANGED <<maps, addr, pageProt>>
      /\ i <= Len(maps) /\ ~Elsewhere(l)
      /\ scan' = [scan EXCEPT !.line = @ + 1, !.prot = Combined(l), !.load0 = FALSE, !.start = l.end]
      /\ at' = IF addr + WordSize <= l.end THEN "set" ELSE "scan"
  BY DEF TakeLine
<1>2. /\ i \in 1..Len(maps) /\ maps \in MapsFiles
      /\ l.start \in Nat /\ l.end \in Nat /\ l.perm \subseteq {"r", "w", "x"}
  <2>1. i \in 1..Len(maps) /\ maps \in MapsFiles
    BY <1>1, WordBytes DEF ProtectTypeOK
  <2> QED
    BY <2>1, Lines
<1>3. Own(i) /\ Holds(i, scan.start)
  BY <1>1 DEF Elsewhere, Own, Holds
<1>4. scan.start \in Bytes /\ addr <= scan.start /\ scan.start < l.end /\ scan.start \in Nat
  <2>1. addr <= scan.start /\ scan.start < addr + WordSize
    BY <1>1, WordBytes DEF ScanInv
  <2> QED
    BY <1>3, <2>1, WordBytes DEF Holds
<1>5. Combined(l) \subseteq {"r", "w", "x"}
  BY <1>2 DEF Combined, ProtectTypeOK
<1>6. scan'.line = i + 1 /\ scan'.start = l.end /\ scan'.prot = Combined(l) /\ scan'.load0 = FALSE
      /\ scan' \in [line : Nat \ {0}, start : Nat, prot : SUBSET {"r", "w", "x"}, load0 : BOOLEAN]
  <2>1. scan \in [line : Nat \ {0}, start : Nat, prot : SUBSET {"r", "w", "x"}, load0 : BOOLEAN]
    BY DEF ProtectTypeOK
  <2>2. PICK q, e : q = Combined(l) /\ e = l.end
    OBVIOUS
  <2>3. scan' = [scan EXCEPT !.line = @ + 1, !.prot = q, !.load0 = FALSE, !.start = e]
    BY <1>1, <2>2
  <2>4. q \in SUBSET {"r", "w", "x"} /\ e \in Nat
    BY <1>2, <1>5, <2>2
  <2> HIDE DEF l
  <2>5. scan'.line = i + 1 /\ scan'.start = e /\ scan'.prot = q /\ scan'.load0 = FALSE
    BY <2>1, <2>3
  <2>6. i + 1 \in Nat \ {0}
    BY <2>1
  <2>7. scan' = [line |-> i + 1, start |-> e, prot |-> q, load0 |-> FALSE]
    BY <2>1, <2>3
  <2>8. scan' \in [line : Nat \ {0}, start : Nat, prot : SUBSET {"r", "w", "x"}, load0 : BOOLEAN]
    BY <2>4, <2>6, <2>7
  <2> QED
    BY <2>2, <2>5, <2>8
<1> HIDE DEF l
<1>7. ProtectTypeOK'
  BY <1>1, <1>6 DEF ProtectTypeOK
<1>8. Bytes' = Bytes /\ Before' = Before
  BY <1>1 DEF Bytes, Before, Protection, LineOf
<1> DEFINE SeenNow == {b \in Bytes : b < l.end}
<1>9. Seen' = SeenNow
  BY <1>6, <1>8 DEF Seen
<1>10. ASSUME NEW b \in SeenNow, b \notin Seen
       PROVE  Holds(i, b) /\ Before[PageAt(b)] = l.perm
  <2>1. b \in Nat /\ scan.start <= b /\ b < l.end
    BY <1>4, <1>10, WordBytes DEF Seen
  <2>2. Holds(i, b)
    BY <1>2, <1>3, <1>4, <2>1 DEF Holds, l
  <2> QED
    BY <1>2, <2>1, <2>2, LineOfByte DEF l
<1>11. Seen \subseteq SeenNow /\ scan.start \in SeenNow /\ scan.start \notin Seen
  BY <1>2, <1>4, WordBytes DEF Seen
<1>12. ASSUME NEW x
       PROVE  x \in Combined(l) <=> \A b \in SeenNow : x \in Before[PageAt(b)]
  <2>1. CASE scan.load0
    <3>1. Seen = {}
      BY <2>1, WordBytes DEF Seen, ScanInv
    <3>2. \A b \in SeenNow : Before[PageAt(b)] = l.perm
      BY <1>10, <3>1
    <3> QED
      BY <1>11, <2>1, <3>2 DEF Combined
  <2>2. CASE ~scan.load0
    <3>1. x \in scan.prot <=> \A b \in Seen : x \in Before[PageAt(b)]
      BY <2>2 DEF ScanInv
    <3>2. x \in Combined(l) <=> x \in scan.prot /\ x \in l.perm
      BY <2>2 DEF Combined
    <3>3. Before[PageAt(scan.start)] = l.perm
      BY <1>10, <1>11
    <3> QED
      BY <1>10, <1>11, <3>1, <3>2, <3>3
  <2> QED
    BY <2>1, <2>2
<1>13. \A b \in SeenNow : \E j \in 1..Len(maps) : Own(j) /\ Holds(j, b)
  BY <1>2, <1>3, <1>10 DEF ScanInv
<1>14. ASSUME NEW j \in 1..Len(maps), j < i + 1 PROVE ~Holds(j, l.end)
  <2>1. CASE j = i
    BY <1>2, <2>1 DEF Holds, l
  <2>2. CASE j < i
    <3>1. maps[j].end <= l.start /\ maps[j].end \in Nat /\ l.start < l.end
      BY <1>2, <2>2, Lines DEF l
    <3> QED
      BY <1>2, <3>1 DEF Holds
  <2> QED
    BY <1>2, <1>14, <2>1, <2>2
<1>15. addr < l.end
  BY <1>2, <1>4, WordBytes
<1>16. at' = "set" => addr + WordSize <= l.end
  BY <1>1 DEF l
<1>17. at' = "scan" => l.end < addr + WordSize
  BY <1>1, <1>2, WordBytes DEF l
<1>18. at' \in {"set", "scan"}
  BY <1>1
<1>19. ScanInv'
  <2>1. \A b \in Seen' : \E j \in 1..Len(maps)' : Own(j)' /\ Holds(j, b)'
    BY <1>1, <1>9, <1>13 DEF Own, Holds
  <2>2. addr' < scan'.start
    BY <1>1, <1>6, <1>15
  <2>3. \A x : x \in scan'.prot <=> \A b \in Seen' : x \in Before'[PageAt(b)]
    BY <1>6, <1>8, <1>9, <1>12
  <2>4. at' \in {"scan", "error"} =>
          /\ scan'.start < addr' + WordSize
          /\ \A j \in 1..Len(maps)' : j < scan'.line => ~(Own(j)' /\ Holds(j, scan.start)')
    BY <1>1, <1>6, <1>14, <1>17, <1>18 DEF Holds
  <2>5. at' \in {"set", "restore", "done"} => addr' + WordSize <= scan'.start
    BY <1>1, <1>6, <1>16, <1>18
  <2> QED
    BY <1>6, <2>1, <2>2, <2>3, <2>4, <2>5 DEF ScanInv, PageAt
<1>20. PageInv'
  BY <1>1, <1>8, <1>18 DEF PageInv
<1> QED
  BY <1>7, <1>19, <1>20

\* The pages of the word are in the maps file once all its bytes have been seen.
LEMMA AllSeen ==
  ASSUME ProtectTypeOK, ScanInv, at \in {"set", "restore", "done"}
  PROVE  /\ Seen = Bytes
         /\ \A p \in Covered : /\ p \in DOMAIN Before
                               /\ \E i \in LineOf(maps, p) : Own(i)
         /\ \A x : x \in scan.prot <=> \A p \in Covered : x \in Before[p]
         /\ Covered # {}
<1>1. addr + WordSize <= scan.start /\ ~scan.load0
  BY DEF ScanInv
<1>2. Seen = Bytes
  BY <1>1, WordBytes DEF Seen
<1>3. ASSUME NEW p \in Covered
      PROVE  p \in DOMAIN Before /\ \E i \in LineOf(maps, p) : Own(i)
  <2>1. PICK b \in Bytes : p = PageAt(b)
    BY DEF Covered
  <2>2. PICK i \in 1..Len(maps) : Own(i) /\ Holds(i, b)
    BY <1>2, <2>1 DEF ScanInv
  <2>3. b \in Nat /\ maps \in MapsFiles
    BY <2>1, WordBytes DEF ProtectTypeOK
  <2> QED
    BY <2>1, <2>2, <2>3, LineOfByte
<1>4. ASSUME NEW x PROVE x \in scan.prot <=> \A p \in Covered : x \in Before[p]
  <2>1. x \in scan.prot <=> \A b \in Bytes : x \in Before[PageAt(b)]
    BY <1>1, <1>2 DEF ScanInv
  <2>2. (\A b \in Bytes : x \in Before[PageAt(b)]) <=> \A p \in Covered : x \in Before[p]
    BY DEF Covered
  <2> QED
    BY <2>1, <2>2
<1>5. addr \in Bytes
  BY WordBytes
<1> QED
  BY <1>2, <1>3, <1>4, <1>5 DEF Covered

LEMMA ProtectStep ==
  ASSUME ProtectInv, ProtectNext \/ UNCHANGED protectVars
  PROVE  ProtectInv'
<1> USE DEF ProtectInv
<1>1. CASE SkipLine
  BY <1>1, SkipStep
<1>2. CASE TakeLine
  BY <1>2, TakeStep
<1>3. ASSUME UNCHANGED <<maps, addr, scan>>
      PROVE  Bytes' = Bytes /\ Before' = Before /\ Seen' = Seen /\ Covered' = Covered
  BY <1>3 DEF Bytes, Before, Protection, LineOf, Seen, Covered, PageAt
<1>4. CASE NotCovered
  <2>1. at = "scan" /\ at' = "error" /\ scan.line > Len(maps) /\ UNCHANGED <<maps, addr, scan, pageProt>>
    BY <1>4 DEF NotCovered
  <2>2. ProtectTypeOK'
    BY <2>1 DEF ProtectTypeOK
  <2>3. ScanInv'
    BY <1>3, <2>1 DEF ScanInv, Own, Holds, PageAt
  <2>4. PageInv'
    BY <1>3, <2>1 DEF PageInv
  <2> QED
    BY <2>2, <2>3, <2>4
<1>5. CASE SetRW \/ PutBack
  <2>1. /\ (at = "set" /\ at' = "restore") \/ (at = "restore" /\ at' = "done")
        /\ UNCHANGED <<maps, addr, scan>>
    BY <1>5 DEF SetRW, PutBack
  <2>2. ProtectTypeOK'
    BY <2>1 DEF ProtectTypeOK
  <2>3. ScanInv'
    BY <1>3, <2>1 DEF ScanInv, Own, Holds, PageAt
  <2>4. CASE SetRW
    <3>1. at = "set" /\ at' = "restore" /\ pageProt = Before
      BY <2>4 DEF SetRW, PageInv
    <3>2. pageProt' = IF scan.prot = ReadWrite THEN Before
                      ELSE [p \in DOMAIN Before |-> IF p \in Covered THEN ReadWrite ELSE Before[p]]
      BY <2>4, <3>1 DEF SetRW, SetProtection
    <3>3. PageInv'
      BY <1>3, <2>1, <3>1, <3>2 DEF PageInv
    <3> QED
      BY <2>2, <2>3, <3>3
  <2>5. CASE PutBack
    <3>1. CASE scan.prot = ReadWrite
      <4>1. at = "restore" /\ at' = "done" /\ pageProt' = pageProt
        BY <2>5, <3>1 DEF PutBack
      <4>2. PageInv'
        BY <1>3, <2>1, <3>1, <4>1 DEF PageInv
      <4> QED
        BY <2>2, <2>3, <4>2
    <3>2. CASE scan.prot # ReadWrite
      <4>1. pageProt = [p \in DOMAIN Before |-> IF p \in Covered THEN ReadWrite ELSE Before[p]]
        BY <2>5, <3>2 DEF PutBack, PageInv
      <4>2. pageProt' = [p \in DOMAIN pageProt |-> IF p \in Covered THEN scan.prot ELSE pageProt[p]]
        BY <2>5, <3>2 DEF PutBack, SetProtection
      <4>3. pageProt' = [p \in DOMAIN Before |-> IF p \in Covered THEN scan.prot ELSE Before[p]]
        BY <4>1, <4>2
      <4>4. at' = "done" /\ scan' = scan
        BY <2>5 DEF PutBack
      <4> QED
        <5>1. PageInv'
          BY <1>3, <2>1, <3>2, <4>3, <4>4 DEF PageInv
        <5> QED
          BY <2>2, <2>3, <5>1
    <3> QED
      BY <2>2, <2>3, <3>1, <3>2
  <2>6. PageInv'
    BY <1>5, <2>4, <2>5
  <2> QED
    BY <2>2, <2>3, <2>6
<1>6. CASE UNCHANGED protectVars
  <2>1. UNCHANGED <<maps, addr, scan, pageProt, at>>
    BY <1>6 DEF protectVars
  <2>2. ProtectTypeOK'
    BY <2>1 DEF ProtectTypeOK
  <2>3. ScanInv'
    BY <1>3, <2>1 DEF ScanInv, Own, Holds, PageAt
  <2>4. PageInv'
    BY <1>3, <2>1 DEF PageInv
  <2> QED
    BY <2>2, <2>3, <2>4
<1> QED
  BY <1>1, <1>2, <1>4, <1>5, <1>6 DEF ProtectNext

LEMMA ProtectRight ==
  ASSUME ProtectInv
  PROVE  WordProtected
<1> USE DEF ProtectInv
<1>1. ASSUME at = "restore", NEW p \in Covered
      PROVE  "w" \in pageProt[p] /\ \E i \in LineOf(maps, p) : maps[i].named /\ maps[i].private
  <2>1. p \in DOMAIN Before /\ \E i \in LineOf(maps, p) : Own(i)
    BY <1>1, AllSeen
  <2>2. CASE scan.prot = ReadWrite
    <3>1. "w" \in scan.prot
      BY <2>2 DEF ReadWrite
    <3>2. \A q \in Covered : "w" \in Before[q]
      BY <1>1, <3>1, AllSeen
    <3>3. pageProt = Before
      BY <1>1, <2>2 DEF PageInv
    <3> QED
      BY <2>1, <3>2, <3>3 DEF Own
  <2>3. CASE scan.prot # ReadWrite
    <3>1. pageProt = [q \in DOMAIN Before |-> IF q \in Covered THEN ReadWrite ELSE Before[q]]
      BY <1>1, <2>3 DEF PageInv
    <3>2. pageProt[p] = ReadWrite
      BY <2>1, <3>1
    <3> QED
      BY <2>1, <3>2 DEF Own, ReadWrite
  <2> QED
    BY <2>2, <2>3
<1>2. ASSUME at = "done"
      PROVE  /\ \A p \in DOMAIN Before : pageProt[p] \subseteq Before[p]
             /\ Cardinality({Before[p] : p \in Covered}) = 1 => pageProt = Before
  <2>1. CASE scan.prot = ReadWrite
    <3>1. pageProt = Before
      BY <1>2, <2>1 DEF PageInv
    <3> QED
      BY <3>1
  <2>2. CASE scan.prot # ReadWrite
    <3>1. pageProt = [q \in DOMAIN Before |-> IF q \in Covered THEN scan.prot ELSE Before[q]]
      BY <1>2, <2>2 DEF PageInv
    <3>2. \A p \in Covered : scan.prot \subseteq Before[p]
      BY <1>2, AllSeen
    <3>3. ASSUME Cardinality({Before[p] : p \in Covered}) = 1 PROVE pageProt = Before
      <4> DEFINE All == {Before[p] : p \in Covered}
      <4>1. PICK q : All = {q}
        <5>1. IsFiniteSet(All)
          <6>1. IsFiniteSet(Bytes)
            BY WordBytes, FS_Interval DEF Bytes
          <6>2. IsFiniteSet({Before[PageAt(b)] : b \in Bytes})
            <7> DEFINE f == [b \in Bytes |-> Before[PageAt(b)]]
                       T == {Before[PageAt(b)] : b \in Bytes}
            <7>1. f \in Surjection(Bytes, T)
              BY DEF Surjection
            <7> HIDE DEF f, T
            <7>2. IsFiniteSet(T)
              BY <6>1, <7>1, FS_Surjection
            <7> QED
              BY <7>2 DEF T
          <6> QED
            BY <6>2 DEF Covered
        <5> QED
          BY <3>3, <5>1, FS_Singleton
      <4>2. \A p \in Covered : Before[p] = q
        BY <4>1
      <4>3. scan.prot = q
        <5>1. \A x : x \in scan.prot <=> \A p \in Covered : x \in Before[p]
          BY <1>2, AllSeen
        <5>2. Covered # {}
          BY <1>2, AllSeen
        <5>3. \A x : x \in scan.prot <=> x \in q
          BY <4>2, <5>1, <5>2
        <5> QED
          BY <5>3
      <4>4. \A p \in DOMAIN Before : (IF p \in Covered THEN scan.prot ELSE Before[p]) = Before[p]
        BY <4>2, <4>3
      <4>5. Before = [p \in DOMAIN Before |-> Before[p]]
        BY DEF Before, Protection
      <4> QED
        BY <3>1, <4>4, <4>5
    <3> QED
      BY <3>1, <3>2, <3>3
  <2> QED
    BY <2>1, <2>2
<1>3. ASSUME at = "error"
      PROVE  \E p \in Covered : \A i \in LineOf(maps, p) : ~maps[i].named \/ ~maps[i].private
  <2>1. scan.start < addr + WordSize /\ addr <= scan.start /\ scan.line > Len(maps)
    BY <1>3, WordBytes DEF ScanInv, PageInv
  <2>2. scan.start \in Bytes /\ scan.start \in Nat
    BY <2>1, WordBytes
  <2>3. ASSUME NEW i \in LineOf(maps, PageAt(scan.start)) PROVE ~Own(i)
    <3>1. i \in 1..Len(maps) /\ maps \in MapsFiles
      BY <2>3 DEF LineOf, ProtectTypeOK
    <3>2. Holds(i, scan.start)
      BY <2>2, <2>3, <3>1, LineOfByte
    <3>3. i < scan.line
      BY <2>1, <3>1, WordBytes
    <3> QED
      BY <1>3, <3>1, <3>2, <3>3 DEF ScanInv
  <2> QED
    BY <2>2, <2>3 DEF Covered, Own
<1> QED
  BY <1>1, <1>2, <1>3 DEF WordProtected, Before

\* When the word is written every byte of it is writable, in private mappings of
\* the library; afterwards no page has a right it did not have, and pages of one
\* protection have it back; an error means a byte outside (xh_util.c:44-114,
\* xh_elf.c:459-489).
THEOREM WordsProtected == ProtectSpec => []WordProtected
<1>1. ProtectInit(MapsFiles, Addresses) => ProtectInv
  BY ScanStart
<1>2. ProtectInv /\ [ProtectNext]_protectVars => ProtectInv'
  BY ProtectStep
<1>3. ProtectInv => WordProtected
  BY ProtectRight
<1> QED
  BY <1>1, <1>2, <1>3, PTL DEF ProtectSpec

-----------------------------------------------------------------------------
(* The packed relocations: XhPacked.                                        *)

(* Powers of two, quotients and remainders.                                 *)

\* Where the loop of TwoTo has come to after each bit.
Doubles(f, n) == /\ f[0] = 1 /\ \A k \in 1..n : f[k] = 2 * f[k - 1]
                 /\ \A k \in 0..n : f[k] \in Nat \ {0}

LEMMA TwoToIs ==
  ASSUME NEW n \in Nat
  PROVE  \E f : Doubles(f, n) /\ TwoTo(n) = f[n]
<1> DEFINE Found(f) == f = [k \in 0..n |-> IF k = 0 THEN 1 ELSE 2 * f[k - 1]]
           S == Nat \ {0}
<1>1. PICK F : F = [k \in 1..n |-> [x \in S |-> 2 * x]]
  OBVIOUS
<1>2. Steps(n, S, F) /\ 1 \in S
  BY <1>1 DEF Steps
<1>3. PICK f : Follows(f, n, S, 1, F)
  <2> HIDE DEF S
  <2> QED
    BY <1>2, StepByStep
<1>4. Found(f)
  <2>1. f = [k \in 0..n |-> f[k]]
    BY <1>3 DEF Follows
  <2>2. ASSUME NEW k \in 0..n PROVE f[k] = IF k = 0 THEN 1 ELSE 2 * f[k - 1]
    <3>1. CASE k = 0
      BY <1>3, <3>1 DEF Follows
    <3>2. CASE k # 0
      <4>1. k \in 1..n /\ k - 1 \in 0..n
        BY <3>2
      <4>2. f[k - 1] \in S /\ f[k] = F[k][f[k - 1]]
        BY <1>3, <4>1 DEF Follows
      <4> QED
        BY <1>1, <3>2, <4>1, <4>2
    <3> QED
      BY <3>1, <3>2
  <2> QED
    BY <2>1, <2>2
<1>5. PICK g : g = CHOOSE f1 : Found(f1)
  OBVIOUS
<1>6. Found(g)
  <2> HIDE DEF Found
  <2> QED
    BY <1>4, <1>5
<1>7. TwoTo(n) = g[n]
  BY <1>5, Zenon DEF TwoTo
<1>8. g[0] = 1
  BY <1>6
<1>9. ASSUME NEW k \in 1..n PROVE g[k] = 2 * g[k - 1]
  <2>1. k \in 0..n /\ k # 0
    OBVIOUS
  <2> QED
    BY <1>6, <2>1
<1>10. ASSUME NEW m \in 0..n PROVE g[m] \in S
  <2>1. g[0] \in S
    BY <1>8
  <2>2. ASSUME NEW k \in 1..m, g[k - 1] \in S PROVE g[k] \in S
    <3>1. k \in 1..n
      OBVIOUS
    <3> QED
      BY <1>9, <2>2, <3>1
  <2> HIDE DEF S
  <2> QED
    BY <2>1, <2>2, KeptToTheEnd
<1> QED
  BY <1>7, <1>8, <1>9, <1>10 DEF Doubles

LEMMA DoublesAgree ==
  ASSUME NEW n \in Nat, NEW f, NEW g, Doubles(f, n), Doubles(g, n)
  PROVE  f[n] = g[n]
<1> DEFINE d == [k \in 0..n |-> IF f[k] = g[k] THEN 0 ELSE 1]
<1>1. d[0] \in {0}
  BY DEF Doubles
<1>2. ASSUME NEW k \in 1..n, d[k - 1] \in {0} PROVE d[k] \in {0}
  <2>1. k \in 0..n /\ k - 1 \in 0..n
    OBVIOUS
  <2>2. f[k - 1] = g[k - 1]
    BY <1>2, <2>1
  <2>3. f[k] = g[k]
    BY <2>2 DEF Doubles
  <2> QED
    BY <2>1, <2>3
<1>3. d[n] \in {0}
  <2> HIDE DEF d
  <2> QED
    BY <1>1, <1>2, KeptToTheEnd
<1>4. n \in 0..n
  OBVIOUS
<1> QED
  BY <1>3, <1>4

\* What << does.
LEMMA TwoPowers ==
  /\ TwoTo(0) = 1
  /\ \A n \in Nat : TwoTo(n) \in Nat \ {0} /\ TwoTo(n + 1) = 2 * TwoTo(n)
<1>1. TwoTo(0) = 1
  BY TwoToIs DEF Doubles
<1>2. ASSUME NEW n \in Nat PROVE TwoTo(n) \in Nat \ {0} /\ TwoTo(n + 1) = 2 * TwoTo(n)
  <2>1. PICK f : Doubles(f, n) /\ TwoTo(n) = f[n]
    BY TwoToIs
  <2>2. n + 1 \in Nat /\ n \in 0..n /\ n + 1 \in 1..(n + 1) /\ (n + 1) - 1 = n
    OBVIOUS
  <2>3. PICK g : Doubles(g, n + 1) /\ TwoTo(n + 1) = g[n + 1]
    BY <2>2, TwoToIs
  <2>4. Doubles(g, n)
    <3>1. 1..n \subseteq 1..(n + 1) /\ 0..n \subseteq 0..(n + 1)
      OBVIOUS
    <3> QED
      BY <2>3, <3>1 DEF Doubles
  <2>5. f[n] = g[n]
    BY <2>1, <2>4, DoublesAgree
  <2>6. g[n + 1] = 2 * g[n] /\ f[n] \in Nat \ {0}
    BY <2>1, <2>2, <2>3 DEF Doubles
  <2> QED
    BY <2>1, <2>3, <2>5, <2>6
<1> QED
  BY <1>1, <1>2

LEMMA TwoSum ==
  ASSUME NEW a \in Nat, NEW b \in Nat
  PROVE  TwoTo(a + b) = TwoTo(a) * TwoTo(b)
<1> DEFINE d == [k \in 0..b |-> TwoTo(a + k) - TwoTo(a) * TwoTo(k)]
<1>1. d[0] \in {0}
  <2>1. a + 0 = a /\ 0 \in 0..b /\ TwoTo(a) \in Nat
    BY TwoPowers
  <2> QED
    BY <2>1, TwoPowers
<1>2. ASSUME NEW k \in 1..b, d[k - 1] \in {0} PROVE d[k] \in {0}
  <2>1. PICK j \in Nat : j = k - 1
    OBVIOUS
  <2>2. k \in 0..b /\ j \in 0..b /\ k = j + 1 /\ a + k = (a + j) + 1 /\ a + j \in Nat
    BY <2>1
  <2>3. TwoTo(k) = 2 * TwoTo(j) /\ TwoTo(a + k) = 2 * TwoTo(a + j)
    BY <2>1, <2>2, TwoPowers
  <2>4. TwoTo(a) \in Nat /\ TwoTo(j) \in Nat /\ TwoTo(a + j) \in Nat
    BY <2>1, <2>2, TwoPowers
  <2>5. TwoTo(a + j) = TwoTo(a) * TwoTo(j)
    <3>1. TwoTo(a + j) - TwoTo(a) * TwoTo(j) = 0
      BY <1>2, <2>1, <2>2
    <3>2. TwoTo(a) * TwoTo(j) \in Nat
      BY <2>4
    <3> QED
      BY <2>4, <3>1, <3>2
  <2>6. PICK A, J : A = TwoTo(a) /\ J = TwoTo(j)
    OBVIOUS
  <2>7. 2 * (A * J) = A * (2 * J)
    BY <2>4, <2>6
  <2>8. TwoTo(a + k) - TwoTo(a) * TwoTo(k) = 0
    <3>1. TwoTo(a + k) = 2 * (A * J) /\ TwoTo(a) * TwoTo(k) = A * (2 * J) /\ A \in Nat /\ J \in Nat
      BY <2>3, <2>4, <2>5, <2>6
    <3>2. A * (2 * J) \in Nat
      BY <3>1
    <3> QED
      BY <3>1, <3>2, <2>7
  <2> QED
    BY <2>2, <2>8
<1>3. d[b] \in {0}
  <2> HIDE DEF d
  <2> QED
    BY <1>1, <1>2, KeptToTheEnd
<1>4. PICK x, y : x = TwoTo(a + b) /\ y = TwoTo(a) * TwoTo(b)
  OBVIOUS
<1>5. x \in Nat /\ y \in Nat /\ x - y = 0
  <2>1. TwoTo(a) \in Nat /\ TwoTo(b) \in Nat /\ a + b \in Nat /\ TwoTo(a + b) \in Nat
    BY TwoPowers
  <2>2. b \in 0..b
    OBVIOUS
  <2> QED
    BY <1>3, <1>4, <2>1, <2>2
<1> QED
  BY <1>4, <1>5

\* A number is the quotient's multiple and the remainder, in one way only.
LEMMA Division ==
  ASSUME NEW x \in Int, NEW W \in Nat \ {0}
  PROVE  x = W * (x \div W) + (x % W) /\ x % W \in 0..(W - 1) /\ x \div W \in Int
  OBVIOUS

LEMMA Divided ==
  ASSUME NEW W \in Nat \ {0}, NEW q \in Int, NEW r \in 0..(W - 1)
  PROVE  (W * q + r) % W = r /\ (W * q + r) \div W = q
  OBVIOUS

LEMMA SameRemainder ==
  ASSUME NEW W \in Nat \ {0}, NEW x \in Int, NEW q \in Int
  PROVE  (x + W * q) % W = x % W
<1>1. PICK r \in 0..(W - 1), p \in Int : x = W * p + r /\ r = x % W
  BY Division
<1>2. x + W * q = W * (p + q) + r
  BY <1>1
<1>3. (W * (p + q) + r) % W = r
  <2>1. p + q \in Int
    OBVIOUS
  <2> QED
    BY <2>1, Divided
<1> QED
  BY <1>1, <1>2, <1>3, Zenon

LEMMA RemainderOfSum ==
  ASSUME NEW W \in Nat \ {0}, NEW x \in Int, NEW y \in Int
  PROVE  /\ ((x % W) + y) % W = (x + y) % W
         /\ (x + (y % W)) % W = (x + y) % W
<1>1. \A a, b \in Int : ((a % W) + b) % W = (a + b) % W
  <2>1. ASSUME NEW a \in Int, NEW b \in Int PROVE ((a % W) + b) % W = (a + b) % W
    <3>1. PICK r \in 0..(W - 1), p \in Int : a = W * p + r /\ r = a % W
      BY Division
    <3>2. a + b = (r + b) + W * p
      BY <3>1
    <3>3. ((r + b) + W * p) % W = (r + b) % W
      <4>1. r + b \in Int
        OBVIOUS
      <4> QED
        BY <4>1, SameRemainder
    <3> QED
      BY <3>1, <3>2, <3>3, Zenon
  <2> QED
    BY <2>1
<1>2. ((x % W) + y) % W = (x + y) % W /\ ((y % W) + x) % W = (y + x) % W
  BY <1>1, Zenon
<1>3. x + (y % W) = (y % W) + x /\ x + y = y + x
  <2>1. y % W \in Int
    BY Division
  <2> QED
    BY <2>1
<1> QED
  BY <1>2, <1>3, Zenon

\* The remainder by a product: that by one factor, and that of the quotient by the other.
LEMMA ChunksAbove ==
  ASSUME NEW v \in Int, NEW A \in Nat \ {0}, NEW B \in Nat \ {0}
  PROVE  v % (A * B) = (v % A) + ((v \div A) % B) * A
<1>1. PICK q \in Int, r \in 0..(A - 1) : q = v \div A /\ r = v % A /\ v = A * q + r
  BY Division
<1>2. PICK p \in Int, s \in 0..(B - 1) : p = q \div B /\ s = q % B /\ q = B * p + s
  BY Division
<1>3. v = (A * B) * p + (A * s + r)
  <2>1. A * (B * p + s) + r = (A * B) * p + (A * s + r)
    OBVIOUS
  <2>2. v = A * (B * p + s) + r
    BY <1>1, <1>2, Zenon
  <2> QED
    BY <2>1, <2>2, Zenon
<1>4. A * B \in Nat \ {0} /\ A * s + r \in 0..(A * B - 1)
  <2>1. PICK d \in Nat : B = s + 1 + d
    <3>1. B - s - 1 \in Nat /\ B = s + 1 + (B - s - 1)
      OBVIOUS
    <3> QED
      BY <3>1
  <2>2. A * B = A * s + A + A * d
    BY <2>1
  <2>3. A * d \in Nat /\ A * s \in Nat
    BY <2>1
  <2> QED
    BY <2>2, <2>3
<1>5. ((A * B) * p + (A * s + r)) % (A * B) = A * s + r
  BY <1>4, Divided
<1>6. v % (A * B) = A * s + r
  BY <1>3, <1>5, Zenon
<1>7. A * s + r = r + s * A
  OBVIOUS
<1> QED
  BY <1>1, <1>2, <1>6, <1>7, Zenon

-----------------------------------------------------------------------------
(* The decoder.                                                             *)

LEMMA Widths ==
  /\ Chunk \in Nat \ {0} /\ Width \in Nat \ {0} /\ Word \in Nat \ {0}
  /\ \A k \in Nat : Chunk * k \in Nat /\ Chunk * (k + 1) = Chunk * k + Chunk
<1>1. Chunk \in Nat \ {0} /\ Width \in Nat \ {0}
  BY PackedAssumption
<1>2. Word \in Nat \ {0}
  BY <1>1, TwoPowers DEF Word
<1>3. ASSUME NEW k \in Nat PROVE Chunk * k \in Nat /\ Chunk * (k + 1) = Chunk * k + Chunk
  BY <1>1
<1> QED
  BY <1>1, <1>2, <1>3

BitsOf(v, k) == (v \div TwoTo(Chunk * k)) % TwoTo(Chunk)

\* HasRead k bytes the value is what the lowest k chunks are of the number.
LEMMA ChunksAdded ==
  ASSUME NEW v \in Int, NEW n \in Nat, NEW f, f[0] = 0,
         \A k \in 1..n : f[k] = (f[k - 1] + BitsOf(v, k - 1) * TwoTo(Chunk * (k - 1))) % Word
  PROVE  f[n] = (v % TwoTo(Chunk * n)) % Word
<1> DEFINE d == [k \in 0..n |-> IF f[k] = (v % TwoTo(Chunk * k)) % Word THEN 0 ELSE 1]
<1>1. d[0] \in {0}
  <2>1. Chunk * 0 = 0 /\ TwoTo(0) = 1
    BY Widths, TwoPowers
  <2>2. v % 1 = 0 /\ 0 % Word = 0
    <3>1. v % 1 \in 0..0
      BY Division
    <3>2. (Word * 0 + 0) % Word = 0 /\ Word * 0 + 0 = 0
      BY Widths, Divided
    <3> QED
      BY <3>1, <3>2
  <2>3. f[0] = (v % TwoTo(Chunk * 0)) % Word
    BY <2>1, <2>2
  <2> QED
    BY <2>3
<1>2. ASSUME NEW k \in 1..n, d[k - 1] \in {0} PROVE d[k] \in {0}
  <2>1. PICK j \in Nat : j = k - 1 /\ k = j + 1
    OBVIOUS
  <2>2. k \in 0..n /\ j \in 0..n
    BY <2>1
  <2>3. f[j] = (v % TwoTo(Chunk * j)) % Word
    BY <1>2, <2>1, <2>2
  <2>4. PICK A, B : A = TwoTo(Chunk * j) /\ B = TwoTo(Chunk)
    OBVIOUS
  <2>5. A \in Nat \ {0} /\ B \in Nat \ {0}
    BY <2>1, <2>4, Widths, TwoPowers
  <2>6. TwoTo(Chunk * k) = A * B
    <3>1. Chunk * k = Chunk * j + Chunk /\ Chunk * j \in Nat
      BY <2>1, Widths
    <3> QED
      BY <2>4, <3>1, Widths, TwoSum
  <2>7. PICK a, b : a = v % A /\ b = (v \div A) % B
    OBVIOUS
  <2>8. a \in Int /\ b \in Int /\ b * A \in Int
    BY <2>5, <2>7, Division
  <2>9. f[k] = ((a % Word) + b * A) % Word
    BY <2>1, <2>3, <2>4, <2>7 DEF BitsOf
  <2>10. ((a % Word) + b * A) % Word = (a + b * A) % Word
    BY <2>8, Widths, RemainderOfSum
  <2>11. v % (A * B) = a + b * A
    BY <2>5, <2>7, ChunksAbove
  <2>12. f[k] = (v % TwoTo(Chunk * k)) % Word
    BY <2>6, <2>9, <2>10, <2>11, Zenon
  <2> QED
    BY <2>2, <2>12
<1>3. d[n] \in {0}
  <2> HIDE DEF d
  <2> QED
    BY <1>1, <1>2, KeptToTheEnd
<1>4. n \in 0..n
  OBVIOUS
<1> QED
  BY <1>3, <1>4

\* The sign bit is that of the last chunk, and what it stands for.
LEMMA SignRight ==
  ASSUME NEW n \in Nat \ {0}, NEW v, Fits(v, n)
  PROVE  LET P == TwoTo(Chunk * n)
             below == v % P
             signed == BitsOf(v, n - 1) >= TwoTo(Chunk - 1)
         IN /\ P \in Nat \ {0} /\ v \in Int
            /\ signed => v < 0 /\ below = v + P /\ -v <= P
            /\ ~signed => v >= 0 /\ below = v
<1>1. PICK m, c, A, H, B, P :
           /\ m \in Nat /\ c \in Nat /\ n = m + 1 /\ m = n - 1 /\ Chunk = c + 1 /\ A = TwoTo(Chunk * m) /\ H = TwoTo(c)
           /\ B = TwoTo(Chunk) /\ P = TwoTo(Chunk * n)
  <2>1. n - 1 \in Nat /\ n = (n - 1) + 1 /\ Chunk - 1 \in Nat /\ Chunk = (Chunk - 1) + 1
    BY Widths
  <2> QED
    BY <2>1
<1>2. /\ A \in Nat \ {0} /\ H \in Nat \ {0} /\ B = 2 * H /\ P = A * B /\ B \in Nat \ {0}
      /\ TwoTo(Chunk * n - 1) = A * H /\ TwoTo(Chunk - 1) = H
  <2>1. Chunk * m \in Nat /\ Chunk * n = Chunk * m + Chunk
    BY <1>1, Widths
  <2>2. P = A * B
    BY <1>1, <2>1, Widths, TwoSum
  <2>3. B = 2 * H /\ H \in Nat \ {0} /\ A \in Nat \ {0}
    BY <1>1, <2>1, TwoPowers
  <2>4. Chunk * n - 1 = Chunk * m + c /\ Chunk - 1 = c
    BY <1>1, <2>1, Widths
  <2>5. TwoTo(Chunk * n - 1) = A * H
    BY <1>1, <2>1, <2>4, TwoSum
  <2> QED
    BY <1>1, <2>2, <2>3, <2>4, <2>5
<1>3. v \in Int /\ -(A * H) <= v /\ v < A * H
  <2>1. A * H \in Nat
    BY <1>2
  <2> QED
    BY <1>2, <2>1 DEF Fits
<1>4. PICK q \in Int, r \in 0..(A - 1) : q = v \div A /\ r = v % A /\ v = A * q + r
  <2>1. v \in Int /\ A \in Nat \ {0}
    BY <1>2, <1>3
  <2>2. v = A * (v \div A) + (v % A) /\ v % A \in 0..(A - 1) /\ v \div A \in Int
    BY <2>1, Division, Zenon
  <2> QED
    BY <2>2, Zenon
<1>5. q >= -H /\ q < H
  <2>1. ASSUME q >= H PROVE FALSE
    <3>1. PICK d \in Nat : q = H + d
      <4>1. q - H \in Nat /\ q = H + (q - H)
        BY <1>2, <2>1
      <4> QED
        BY <4>1
    <3>2. A * (H + d) = A * H + A * d /\ A * d \in Nat /\ A * H \in Nat
      BY <1>2
    <3> QED
      BY <1>3, <1>4, <3>1, <3>2
  <2>2. ASSUME q < -H PROVE FALSE
    <3>1. PICK d \in Nat : q = -H - 1 - d
      <4>1. -H - 1 - q \in Nat /\ q = -H - 1 - (-H - 1 - q)
        BY <1>2, <2>2
      <4> QED
        BY <4>1
    <3>2. A * (-H - 1 - d) = -(A * H) - A - A * d /\ A * d \in Nat /\ A * H \in Nat
      BY <1>2
    <3> QED
      BY <1>2, <1>3, <1>4, <3>1, <3>2
  <2> QED
    BY <1>2, <2>1, <2>2
<1>6. BitsOf(v, n - 1) = q % B
  BY <1>1, <1>4 DEF BitsOf
<1>7. q >= 0 => q % B = q /\ q < H
  <2>1. ASSUME q >= 0 PROVE (B * 0 + q) % B = q
    <3>1. q \in 0..(B - 1)
      BY <1>2, <1>5, <2>1
    <3> QED
      BY <1>2, <3>1, Divided
  <2>2. B * 0 + q = q
    BY <1>2
  <2> QED
    BY <1>5, <2>1, <2>2
<1>8. q < 0 => q % B = q + B /\ q + B >= H
  <2>1. ASSUME q < 0 PROVE (B * (-1) + (q + B)) % B = q + B
    <3>1. q + B \in 0..(B - 1) /\ -1 \in Int
      BY <1>2, <1>5, <2>1
    <3> QED
      BY <1>2, <3>1, Divided
  <2>2. B * (-1) + (q + B) = q
    BY <1>2
  <2> QED
    BY <1>2, <1>5, <2>1, <2>2
<1>9. v % P = r + (q % B) * A
  BY <1>2, <1>3, <1>4, ChunksAbove
<1>10. P \in Nat \ {0} /\ A * H \in Nat /\ P = 2 * (A * H)
  <2>1. A * H \in Nat \ {0} /\ A * (2 * H) = 2 * (A * H)
    BY <1>2
  <2> QED
    BY <1>2, <2>1
<1>11. CASE q >= 0
  <2>1. v % P = v
    <3>1. v % P = r + q * A
      BY <1>7, <1>9, <1>11
    <3>2. r + q * A = A * q + r
      BY <1>2
    <3> QED
      BY <1>4, <3>1, <3>2, Zenon
  <2>2. v >= 0
    <3>1. A * q >= 0
      BY <1>2, <1>11
    <3> QED
      BY <1>2, <1>4, <3>1
  <2>3. ~(BitsOf(v, n - 1) >= TwoTo(Chunk - 1))
    BY <1>2, <1>6, <1>7, <1>11
  <2> QED
    BY <1>1, <1>3, <1>10, <2>1, <2>2, <2>3
<1>12. CASE q < 0
  <2>1. v % P = v + P
    <3>1. v % P = r + (q + B) * A
      BY <1>8, <1>9, <1>12
    <3>2. (q + B) * A = A * q + A * B
      BY <1>2
    <3>3. A * B \in Int /\ A * q \in Int
      BY <1>2
    <3> QED
      BY <1>2, <1>4, <3>1, <3>2, <3>3
  <2>2. v < 0
    <3>1. PICK d \in Nat : q = -1 - d
      <4>1. -1 - q \in Nat /\ q = -1 - (-1 - q)
        BY <1>12
      <4> QED
        BY <4>1
    <3>2. A * (-1 - d) = -A - A * d /\ A * d \in Nat
      BY <1>2
    <3> QED
      BY <1>2, <1>4, <3>1, <3>2
  <2>3. BitsOf(v, n - 1) >= TwoTo(Chunk - 1)
    BY <1>2, <1>6, <1>8, <1>12
  <2>4. -v <= P
    BY <1>3, <1>10
  <2> QED
    BY <1>1, <1>3, <1>10, <2>1, <2>2, <2>3, <2>4
<1> QED
  BY <1>11, <1>12

LEMMA SlebIs ==
  ASSUME NEW bytes, NEW cur
  PROVE  /\ Lengths(bytes, cur) = {} => ~Sleb(bytes, cur).ok
         /\ \A n : Lengths(bytes, cur) = {n} =>
              /\ Sleb(bytes, cur).ok /\ Sleb(bytes, cur).cur = cur + n
              /\ Sleb(bytes, cur).val = Value(bytes, cur, n) + Sign(bytes, cur, n)
<1>1. PICK ends : ends = Lengths(bytes, cur)
  OBVIOUS
<1>2. Sleb(bytes, cur) =
        LET n == CHOOSE k \in ends : TRUE
        IN IF ends = {} THEN [ok |-> FALSE, cur |-> Len(bytes) + 1, val |-> 0]
           ELSE [ok |-> TRUE, cur |-> cur + n, val |-> Value(bytes, cur, n) + Sign(bytes, cur, n)]
  BY <1>1, Zenon DEF Sleb
<1>3. ASSUME ends = {} PROVE ~Sleb(bytes, cur).ok
  <2>1. Sleb(bytes, cur) = [ok |-> FALSE, cur |-> Len(bytes) + 1, val |-> 0]
    BY <1>2, <1>3, Zenon
  <2> QED
    BY <2>1
<1>4. ASSUME NEW n, ends = {n}
      PROVE  /\ Sleb(bytes, cur).ok /\ Sleb(bytes, cur).cur = cur + n
             /\ Sleb(bytes, cur).val = Value(bytes, cur, n) + Sign(bytes, cur, n)
  <2>1. (CHOOSE k \in ends : TRUE) = n /\ ends # {}
    <3>1. (CHOOSE k \in ends : TRUE) \in ends
      BY <1>4, Zenon
    <3> QED
      BY <1>4, <3>1
  <2>2. PICK val : val = Value(bytes, cur, n) + Sign(bytes, cur, n)
    OBVIOUS
  <2>3. Sleb(bytes, cur) = [ok |-> TRUE, cur |-> cur + n, val |-> val]
    BY <1>2, <2>1, <2>2, Zenon
  <2>4. Sleb(bytes, cur).ok /\ Sleb(bytes, cur).cur = cur + n /\ Sleb(bytes, cur).val = val
    BY <2>3
  <2> QED
    BY <2>2, <2>4
<1> QED
  BY <1>1, <1>3, <1>4, Zenon

\* The bytes of a number from a position on, as far as the table goes.
NumberAt(bytes, cur, v, n) ==
  \A k \in 1..n : cur + k - 1 <= Len(bytes) => ByteOf(bytes, cur, k) = ChunkOf(v, k - 1, n)

LEMMA ValueRight ==
  ASSUME NEW bytes, NEW cur \in Nat, NEW n \in Nat \ {0}, NEW v \in Int, Len(bytes) \in Nat,
         NumberAt(bytes, cur, v, n), cur + n - 1 <= Len(bytes)
  PROVE  Value(bytes, cur, n) = (v % TwoTo(Chunk * n)) % Word
<1> DEFINE S == 0..(Word - 1)
           Next1(k, x) == (x + ByteOf(bytes, cur, k).bits * TwoTo(Chunk * (k - 1))) % Word
           Found(f) == f = [k \in 0..n |-> IF k = 0 THEN 0 ELSE
                              (f[k - 1] + ByteOf(bytes, cur, k).bits * TwoTo(Chunk * (k - 1))) % Word]
<1>1. ASSUME NEW k \in 1..n
      PROVE  /\ ByteOf(bytes, cur, k).bits = BitsOf(v, k - 1) /\ BitsOf(v, k - 1) \in Int
             /\ TwoTo(Chunk * (k - 1)) \in Nat
  <2>1. cur + k - 1 <= Len(bytes)
    OBVIOUS
  <2>2. ByteOf(bytes, cur, k) = ChunkOf(v, k - 1, n)
    BY <2>1 DEF NumberAt
  <2>3. ByteOf(bytes, cur, k).bits = BitsOf(v, k - 1)
    BY <2>2 DEF ChunkOf, BitsOf
  <2>4. TwoTo(Chunk * (k - 1)) \in Nat \ {0} /\ TwoTo(Chunk) \in Nat \ {0}
    <3>1. k - 1 \in Nat
      OBVIOUS
    <3> QED
      BY <3>1, Widths, TwoPowers
  <2>5. BitsOf(v, k - 1) \in Int
    <3>1. PICK A, B, q : A = TwoTo(Chunk * (k - 1)) /\ B = TwoTo(Chunk) /\ q = v \div A
      OBVIOUS
    <3>2. q \in Int
      BY <2>4, <3>1, Division
    <3>3. q % B \in Int
      <4>1. B \in Nat \ {0}
        BY <2>4, <3>1
      <4>2. q % B \in 0..(B - 1)
        BY <3>2, <4>1, Division, Zenon
      <4> QED
        BY <4>1, <4>2
    <3> QED
      BY <3>1, <3>3, Zenon DEF BitsOf
  <2> QED
    BY <2>3, <2>4, <2>5
<1>2. PICK F : F = [k \in 1..n |-> [x \in S |-> Next1(k, x)]]
  OBVIOUS
<1>3. Steps(n, S, F) /\ 0 \in S
  <2>1. ASSUME NEW k \in 1..n, NEW x \in S PROVE Next1(k, x) \in S
    <3>1. PICK y : y = x + ByteOf(bytes, cur, k).bits * TwoTo(Chunk * (k - 1))
      OBVIOUS
    <3>2. y \in Int
      BY <1>1, <3>1, Widths
    <3>3. y % Word \in 0..(Word - 1)
      BY <3>2, Widths, Division
    <3> QED
      BY <3>1, <3>3
  <2>2. 0 \in S
    BY Widths
  <2> HIDE DEF Next1, S
  <2>3. ASSUME NEW k \in 1..n, NEW x \in S PROVE F[k][x] \in S
    BY <1>2, <2>1
  <2> QED
    BY <2>2, <2>3 DEF Steps
<1>4. PICK f : Follows(f, n, S, 0, F)
  <2> HIDE DEF S
  <2> QED
    BY <1>3, StepByStep
<1>5. Found(f)
  <2>1. f = [k \in 0..n |-> f[k]]
    BY <1>4 DEF Follows
  <2>2. ASSUME NEW k \in 0..n
        PROVE  f[k] = IF k = 0 THEN 0 ELSE (f[k - 1] + ByteOf(bytes, cur, k).bits * TwoTo(Chunk * (k - 1))) % Word
    <3>1. CASE k = 0
      BY <1>4, <3>1 DEF Follows
    <3>2. CASE k # 0
      <4>1. k \in 1..n /\ k - 1 \in 0..n
        BY <3>2
      <4>2. f[k] = Next1(k, f[k - 1])
        <5>1. f[k - 1] \in S /\ f[k] = F[k][f[k - 1]]
          BY <1>4, <4>1 DEF Follows
        <5> HIDE DEF S, Next1
        <5> QED
          BY <1>2, <4>1, <5>1
      <4> QED
        BY <3>2, <4>2, Zenon
    <3> QED
      BY <3>1, <3>2
  <2> QED
    BY <2>1, <2>2, Zenon
<1>6. PICK g : g = CHOOSE h : Found(h)
  OBVIOUS
<1>7. Found(g)
  <2> HIDE DEF Found
  <2> QED
    BY <1>5, <1>6
<1>8. Value(bytes, cur, n) = g[n]
  BY <1>6, Zenon DEF Value
<1>9. g[0] = 0
  BY <1>7
<1>10. ASSUME NEW k \in 1..n
       PROVE  g[k] = (g[k - 1] + BitsOf(v, k - 1) * TwoTo(Chunk * (k - 1))) % Word
  <2>1. k \in 0..n /\ k # 0
    OBVIOUS
  <2>2. g[k] = (g[k - 1] + ByteOf(bytes, cur, k).bits * TwoTo(Chunk * (k - 1))) % Word
    BY <1>7, <2>1, Zenon
  <2> QED
    BY <1>1, <2>2
<1> QED
  BY <1>8, <1>9, <1>10, ChunksAdded

\* sleb128_decoder_next gives back a number that was written, modulo the word, and
\* an error when the table ends before it does.
LEMMA SlebReads ==
  ASSUME NEW bytes, NEW cur \in Nat, NEW n \in Nat \ {0}, NEW v, Len(bytes) \in Nat,
         Fits(v, n), NumberAt(bytes, cur, v, n), cur \in 1..(Len(bytes) + 1)
  PROVE  IF cur + n - 1 <= Len(bytes)
         THEN Sleb(bytes, cur).ok /\ Sleb(bytes, cur).cur = cur + n /\ Sleb(bytes, cur).val = v % Word
         ELSE ~Sleb(bytes, cur).ok
<1>1. ASSUME NEW k \in 1..n, cur + k - 1 <= Len(bytes)
      PROVE  (ByteOf(bytes, cur, k).more <=> k < n) /\ ByteOf(bytes, cur, k).bits = BitsOf(v, k - 1)
  <2>1. ByteOf(bytes, cur, k) = ChunkOf(v, k - 1, n)
    BY <1>1 DEF NumberAt
  <2>2. ByteOf(bytes, cur, k).bits = BitsOf(v, k - 1)
    BY <2>1 DEF ChunkOf, BitsOf
  <2>3. ByteOf(bytes, cur, k).more = (k - 1 < n - 1)
    BY <2>1 DEF ChunkOf
  <2>4. (k - 1 < n - 1) <=> k < n
    OBVIOUS
  <2> QED
    BY <2>2, <2>3, <2>4, Zenon
<1>2. CASE cur + n - 1 <= Len(bytes)
  <2>1. Lengths(bytes, cur) = {n}
    <3>1. n \in Lengths(bytes, cur)
      <4>1. n \in 1..(Len(bytes) - cur + 1)
        BY <1>2
      <4>2. ~ByteOf(bytes, cur, n).more
        BY <1>1, <1>2
      <4>3. ASSUME NEW k \in 1..(n - 1) PROVE ByteOf(bytes, cur, k).more
        <5>1. k \in 1..n /\ cur + k - 1 <= Len(bytes) /\ k < n
          BY <1>2
        <5> QED
          BY <1>1, <5>1
      <4> QED
        BY <4>1, <4>2, <4>3 DEF Lengths
    <3>2. ASSUME NEW m \in Lengths(bytes, cur) PROVE m = n
      <4>1. m \in 1..(Len(bytes) - cur + 1) /\ ~ByteOf(bytes, cur, m).more
            /\ \A k \in 1..(m - 1) : ByteOf(bytes, cur, k).more
        BY DEF Lengths
      <4>2. CASE m < n
        <5>1. m \in 1..n /\ cur + m - 1 <= Len(bytes)
          BY <4>1, <4>2
        <5> QED
          BY <1>1, <4>1, <4>2, <5>1
      <4>3. CASE m > n
        <5>1. n \in 1..(m - 1) /\ n \in 1..n
          BY <4>1, <4>3
        <5>2. ByteOf(bytes, cur, n).more
          BY <4>1, <5>1, Zenon
        <5>3. ByteOf(bytes, cur, n).more <=> n < n
          BY <1>1, <1>2, <5>1, Zenon
        <5>4. ~(n < n)
          OBVIOUS
        <5> QED
          BY <5>2, <5>3, <5>4, Zenon
      <4> QED
        BY <4>1, <4>2, <4>3
    <3> QED
      BY <3>1, <3>2
  <2>2. PICK P, below, value, sign :
             /\ P = TwoTo(Chunk * n) /\ below = v % P /\ value = Value(bytes, cur, n)
             /\ sign = Sign(bytes, cur, n)
    OBVIOUS
  <2>3. PICK signed \in BOOLEAN : signed <=> BitsOf(v, n - 1) >= TwoTo(Chunk - 1)
    <3>1. (BitsOf(v, n - 1) >= TwoTo(Chunk - 1)) \in BOOLEAN
      OBVIOUS
    <3> QED
      BY <3>1, Zenon
  <2>4. /\ P \in Nat \ {0} /\ v \in Int
        /\ signed => v < 0 /\ below = v + P /\ -v <= P
        /\ ~signed => v >= 0 /\ below = v
    BY <2>2, <2>3, SignRight
  <2>5. value = below % Word
    BY <1>2, <2>2, <2>4, ValueRight
  <2>6. sign = IF Chunk * n < Width /\ signed THEN Word - P ELSE 0
    <3>1. n \in 1..n
      OBVIOUS
    <3>2. ByteOf(bytes, cur, n).bits = BitsOf(v, n - 1)
      BY <1>1, <1>2, <3>1
    <3> QED
      BY <2>2, <2>3, <3>2 DEF Sign
  <2>7. Chunk * n \in Nat /\ Width \in Nat /\ Word \in Nat \ {0}
    BY Widths
  <2>8. value + sign = v % Word
    <3>1. CASE ~signed
      <4>1. value = v % Word /\ sign = 0
        BY <2>4, <2>5, <2>6, <3>1
      <4>2. v % Word \in Int
        BY <2>4, <2>7, Division
      <4> QED
        BY <4>1, <4>2
    <3>2. CASE signed /\ Chunk * n < Width
      <4>1. P < Word
        <5>1. PICK e \in Nat : Width = Chunk * n + 1 + e
          <6>1. Width - Chunk * n - 1 \in Nat /\ Width = Chunk * n + 1 + (Width - Chunk * n - 1)
            BY <2>7, <3>2
          <6> QED
            BY <6>1
        <5>2. Word = TwoTo(Chunk * n + 1) * TwoTo(e) /\ TwoTo(Chunk * n + 1) = 2 * P
          <6>1. Chunk * n + 1 \in Nat
            BY <2>7
          <6>2. TwoTo(Chunk * n + 1 + e) = TwoTo(Chunk * n + 1) * TwoTo(e)
            BY <6>1, TwoSum
          <6>3. TwoTo(Chunk * n + 1) = 2 * P
            BY <2>2, <2>7, TwoPowers
          <6> QED
            BY <5>1, <6>2, <6>3 DEF Word
        <5>3. PICK E \in Nat \ {0} : E = TwoTo(e)
          BY <5>1, TwoPowers
        <5>4. Word = (2 * P) * E
          BY <5>2, <5>3
        <5>5. PICK d \in Nat : E = d + 1
          <6>1. E - 1 \in Nat /\ E = (E - 1) + 1
            OBVIOUS
          <6> QED
            BY <6>1
        <5>6. (2 * P) * (d + 1) = (2 * P) * d + 2 * P /\ (2 * P) * d \in Nat
          BY <2>4
        <5> QED
          BY <2>4, <5>4, <5>5, <5>6
      <4>2. value = v + P
        <5>1. below \in 0..(Word - 1)
          BY <2>4, <2>7, <3>2, <4>1
        <5>2. (Word * 0 + below) % Word = below
          <6>1. 0 \in Int
            OBVIOUS
          <6> QED
            BY <2>7, <5>1, <6>1, Divided, Zenon
        <5>3. Word * 0 + below = below
          BY <2>7, <5>1
        <5> QED
          BY <2>4, <2>5, <3>2, <5>2, <5>3
      <4>3. v % Word = v + Word
        <5>1. v + Word \in 0..(Word - 1)
          BY <2>4, <2>7, <3>2, <4>1
        <5>2. (Word * (-1) + (v + Word)) % Word = v + Word
          <6>1. -1 \in Int
            OBVIOUS
          <6> QED
            BY <2>7, <5>1, <6>1, Divided
        <5>3. Word * (-1) + (v + Word) = v
          BY <2>4, <2>7
        <5> QED
          BY <5>2, <5>3
      <4> QED
        BY <2>4, <2>6, <2>7, <3>2, <4>2, <4>3
    <3>3. CASE signed /\ ~(Chunk * n < Width)
      <4>1. PICK e \in Nat : Chunk * n = Width + e
        <5>1. Chunk * n - Width \in Nat /\ Chunk * n = Width + (Chunk * n - Width)
          BY <2>7, <3>3
        <5> QED
          BY <5>1
      <4>2. P = Word * TwoTo(e) /\ TwoTo(e) \in Int
        <5>1. TwoTo(Width + e) = TwoTo(Width) * TwoTo(e)
          BY <2>7, TwoSum
        <5> QED
          BY <2>2, <4>1, <5>1, TwoPowers DEF Word
      <4>3. (v + Word * TwoTo(e)) % Word = v % Word
        BY <2>4, <2>7, <4>2, SameRemainder
      <4>4. value = v % Word /\ sign = 0
        BY <2>4, <2>5, <2>6, <3>3, <4>2, <4>3
      <4>5. v % Word \in Int
        BY <2>4, <2>7, Division
      <4> QED
        BY <4>4, <4>5
    <3> QED
      BY <3>1, <3>2, <3>3
  <2>9. /\ Sleb(bytes, cur).ok /\ Sleb(bytes, cur).cur = cur + n
        /\ Sleb(bytes, cur).val = Value(bytes, cur, n) + Sign(bytes, cur, n)
    BY <2>1, SlebIs, Zenon
  <2> QED
    BY <1>2, <2>2, <2>8, <2>9
<1>3. CASE ~(cur + n - 1 <= Len(bytes))
  <2>1. ASSUME NEW m \in Lengths(bytes, cur) PROVE FALSE
    <3>1. m \in 1..(Len(bytes) - cur + 1) /\ ~ByteOf(bytes, cur, m).more
      BY DEF Lengths
    <3>2. m \in 1..n /\ cur + m - 1 <= Len(bytes) /\ m < n
      BY <1>3, <3>1
    <3> QED
      BY <1>1, <3>1, <3>2
  <2>2. Lengths(bytes, cur) = {}
    BY <2>1
  <2> QED
    BY <1>3, <2>2, SlebIs
<1> QED
  BY <1>2, <1>3

-----------------------------------------------------------------------------
(* The iterator.                                                            *)

Fields == {"ok", "cur", "count", "size", "flags", "delta", "index", "group", "offset", "info",
           "addend", "val"}
NumberFields == Fields \ {"ok", "cur"}

\* An iterator that has no error yet is at number j; an error is the table's end.
Stands(x, j) ==
  /\ DOMAIN x = Fields /\ x.ok \in BOOLEAN
  /\ IF x.ok THEN x.cur = stream.at[j] /\ x.cur <= Len(stream.bytes) + 1 ELSE stream.cut

Same(y, x, changed) == \A g \in Fields \ changed : y[g] = x[g]

LEMMA Tables ==
  ASSUME stream \in Streams
  PROVE  /\ WellPacked(stream) /\ Len(stream.bytes) \in Nat
         /\ Len(stream.nums) \in Nat \ {0, 1} /\ stream.at[1] = 1
         /\ \A j \in 1..Len(stream.nums) : stream.nums[j] \in Int
<1>1. WellPacked(stream) /\ Written(stream)
  BY PackedAssumption DEF WellPacked
<1>2. ASSUME NEW j \in 1..Len(stream.nums) PROVE stream.nums[j] \in Int
  <2>1. PICK n : Fits(stream.nums[j], n)
    BY <1>1, Zenon DEF Written
  <2> QED
    BY <2>1 DEF Fits
<1>3. Len(stream.bytes) \in Nat /\ Len(stream.nums) \in Nat \ {0, 1} /\ stream.at[1] = 1
  BY <1>1, Zenon DEF Written
<1> QED
  BY <1>1, <1>2, <1>3

\* A number is read into a field, or the table ends in it.
LEMMA IntoReads ==
  ASSUME stream \in Streams, NEW x, NEW j \in 1..Len(stream.nums), Stands(x, j), NEW f \in NumberFields
  PROVE  /\ Stands(Into(x, f), j + 1)
         /\ Into(x, f).ok =>
              x.ok /\ Into(x, f)[f] = stream.nums[j] % Word /\ Same(Into(x, f), x, {f, "cur"})
<1>1. CASE ~x.ok
  <2>1. Into(x, f) = x
    BY <1>1 DEF Into
  <2> QED
    BY <1>1, <2>1 DEF Stands
<1>2. CASE x.ok
  <2>1. PICK bytes, cur, n, v : /\ bytes = stream.bytes /\ cur = stream.at[j]
                                /\ n = stream.at[j + 1] - stream.at[j] /\ v = stream.nums[j]
    OBVIOUS
  <2>2. /\ {cur, stream.at[j + 1]} \subseteq Nat \ {0} /\ n \in Nat \ {0} /\ Fits(v, n)
        /\ ~stream.cut => stream.at[j + 1] <= Len(bytes) + 1
        /\ NumberAt(bytes, cur, v, n)
    <3>1. WellPacked(stream)
      BY Tables
    <3> QED
      BY <2>1, <3>1, Zenon DEF WellPacked, Written, NumberAt
  <2>3. Len(bytes) \in Nat /\ cur \in 1..(Len(bytes) + 1) /\ x.cur = cur
    BY <1>2, <2>1, <2>2, Tables DEF Stands
  <2>4. PICK r : r = Sleb(bytes, cur)
    OBVIOUS
  <2>5. Into(x, f) = Stored(x, f, r)
    BY <1>2, <2>1, <2>3, <2>4 DEF Into
  <2>6. IF cur + n - 1 <= Len(bytes) THEN r.ok /\ r.cur = cur + n /\ r.val = v % Word ELSE ~r.ok
    BY <2>2, <2>3, <2>4, SlebReads, Zenon
  <2>7. stream.at[j + 1] = cur + n
    <3>1. stream.at[j + 1] \in Int /\ stream.at[j] \in Int
      BY <2>1, <2>2
    <3> QED
      BY <2>1, <2>2, <3>1
  <2>8. f \in Fields /\ f # "ok" /\ f # "cur" /\ DOMAIN x = Fields /\ "ok" \in Fields /\ "cur" \in Fields
    BY DEF NumberFields, Stands, Fields
  <2>9. CASE cur + n - 1 <= Len(bytes)
    <3>1. Into(x, f) = [x EXCEPT ![f] = r.val, !.cur = r.cur]
      BY <2>5, <2>6, <2>9 DEF Stored
    <3>2. PICK y : y = Into(x, f)
      OBVIOUS
    <3>3. DOMAIN y = Fields /\ y[f] = r.val /\ y.cur = r.cur /\ \A g \in Fields \ {f, "cur"} : y[g] = x[g]
      BY <2>8, <3>1, <3>2
    <3>4. y.ok = x.ok
      BY <2>8, <3>3
    <3>5. cur + n <= Len(bytes) + 1
      BY <2>2, <2>3, <2>9
    <3>6. y.cur = stream.at[j + 1] /\ y.cur <= Len(stream.bytes) + 1 /\ y[f] = stream.nums[j] % Word
      BY <2>1, <2>6, <2>7, <2>9, <3>3, <3>5
    <3> QED
      BY <1>2, <3>2, <3>3, <3>4, <3>6 DEF Stands, Same
  <2>10. CASE ~(cur + n - 1 <= Len(bytes))
    <3>1. Into(x, f) = [x EXCEPT !.ok = FALSE, !.cur = r.cur]
      BY <2>5, <2>6, <2>10 DEF Stored
    <3>2. PICK y : y = Into(x, f)
      OBVIOUS
    <3>3. DOMAIN y = Fields /\ y.ok = FALSE
      BY <2>8, <3>1, <3>2
    <3>4. stream.cut
      BY <2>2, <2>3, <2>7, <2>10
    <3> QED
      BY <3>2, <3>3, <3>4 DEF Stands
  <2> QED
    BY <2>9, <2>10
<1> QED
  BY <1>1, <1>2 DEF Stands

\* A number is read and added to a field.
LEMMA OntoReads ==
  ASSUME stream \in Streams, NEW x, NEW j \in 1..Len(stream.nums), Stands(x, j),
         NEW f \in {"offset", "addend"}, x.ok => x[f] \in Int
  PROVE  /\ Stands(Onto(x, f), j + 1)
         /\ Onto(x, f).ok =>
              x.ok /\ Onto(x, f)[f] = (x[f] + stream.nums[j]) % Word /\ Same(Onto(x, f), x, {f, "val", "cur"})
<1>1. PICK y : y = Into(x, "val")
  OBVIOUS
<1>2. /\ Stands(y, j + 1)
      /\ y.ok => x.ok /\ y.val = stream.nums[j] % Word /\ Same(y, x, {"val", "cur"})
  BY <1>1, IntoReads DEF NumberFields, Fields
<1>3. Onto(x, f) = Added(y, f)
  BY <1>1 DEF Onto
<1>4. CASE ~y.ok
  BY <1>2, <1>3, <1>4 DEF Added
<1>5. CASE y.ok
  <2>1. y[f] = x[f] /\ x[f] \in Int
    BY <1>2, <1>5 DEF Same, Fields
  <2>2. PICK z : z = Added(y, f)
    OBVIOUS
  <2>3. z = [y EXCEPT ![f] = (y[f] + y.val) % Word]
    BY <1>5, <2>2 DEF Added
  <2>4. DOMAIN y = Fields /\ f \in Fields /\ f \notin {"ok", "cur", "val"} /\ {"ok", "cur"} \subseteq Fields
    BY <1>2 DEF Stands, Fields
  <2>5. DOMAIN z = Fields /\ z[f] = (y[f] + y.val) % Word /\ \A g \in Fields \ {f} : z[g] = y[g]
    BY <2>3, <2>4
  <2>6. z.ok = y.ok /\ z.cur = y.cur
    BY <2>4, <2>5
  <2>7. z[f] = (x[f] + stream.nums[j]) % Word
    <3>1. stream.nums[j] \in Int
      BY Tables
    <3>2. (x[f] + (stream.nums[j] % Word)) % Word = (x[f] + stream.nums[j]) % Word
      BY <2>1, <3>1, Widths, RemainderOfSum
    <3> QED
      BY <1>2, <1>5, <2>1, <2>5, <3>2
  <2>8. Same(z, x, {f, "val", "cur"})
    BY <1>2, <1>5, <2>5 DEF Same
  <2> QED
    BY <1>2, <1>3, <1>5, <2>2, <2>5, <2>6, <2>7, <2>8 DEF Stands
<1> QED
  BY <1>2, <1>4, <1>5 DEF Stands

\* A number that may not be there.
MayInto(x, f, is) == IF x.ok /\ is THEN Into(x, f) ELSE x
MayOnto(x, f, is) == IF x.ok /\ is THEN Onto(x, f) ELSE x

Num(j) == stream.nums[j] % Word

LEMMA MayRead ==
  ASSUME stream \in Streams, NEW x, NEW j \in Nat \ {0}, Stands(x, j), NEW f \in NumberFields,
         NEW is \in BOOLEAN, is => j <= Len(stream.nums)
  PROVE  LET y == MayInto(x, f, is)
         IN /\ Stands(y, j + Opt(is))
            /\ y.ok => /\ x.ok /\ Same(y, x, {f, "cur"})
                       /\ is => y[f] = Num(j)
                       /\ ~is => y = x
<1>1. CASE ~x.ok
  BY <1>1 DEF Stands, MayInto
<1>2. CASE x.ok /\ is
  <2>1. MayInto(x, f, is) = Into(x, f) /\ j \in 1..Len(stream.nums) /\ Opt(is) = 1
    BY <1>2, Tables DEF Opt, MayInto
  <2> QED
    <3>1. /\ Stands(Into(x, f), j + 1)
          /\ Into(x, f).ok =>
               x.ok /\ Into(x, f)[f] = stream.nums[j] % Word /\ Same(Into(x, f), x, {f, "cur"})
      BY <1>2, <2>1, IntoReads
    <3>2. PICK y : y = Into(x, f)
      OBVIOUS
    <3> QED
      BY <1>2, <2>1, <3>1, <3>2 DEF Num
<1>3. CASE x.ok /\ ~is
  <2>1. MayInto(x, f, is) = x /\ Opt(is) = 0
    BY <1>3 DEF Opt, MayInto
  <2> QED
    BY <1>3, <2>1 DEF Same
<1> QED
  BY <1>1, <1>2, <1>3

LEMMA MayAdd ==
  ASSUME stream \in Streams, NEW x, NEW j \in Nat \ {0}, Stands(x, j),
         NEW f \in {"offset", "addend"}, x.ok => x[f] \in Int, NEW is \in BOOLEAN, is => j <= Len(stream.nums)
  PROVE  LET y == MayOnto(x, f, is)
         IN /\ Stands(y, j + Opt(is))
            /\ y.ok => /\ x.ok /\ Same(y, x, {f, "val", "cur"})
                       /\ is => y[f] = (x[f] + stream.nums[j]) % Word
                       /\ ~is => y = x
<1>1. CASE ~x.ok
  BY <1>1 DEF Stands, MayOnto
<1>2. CASE x.ok /\ is
  <2>1. MayOnto(x, f, is) = Onto(x, f) /\ j \in 1..Len(stream.nums) /\ Opt(is) = 1
    BY <1>2, Tables DEF Opt, MayOnto
  <2> QED
    <3>1. /\ Stands(Onto(x, f), j + 1)
          /\ Onto(x, f).ok =>
               x.ok /\ Onto(x, f)[f] = (x[f] + stream.nums[j]) % Word /\ Same(Onto(x, f), x, {f, "val", "cur"})
      BY <1>2, <2>1, OntoReads
    <3>2. PICK y : y = Onto(x, f)
      OBVIOUS
    <3> QED
      BY <1>2, <2>1, <3>1, <3>2
<1>3. CASE x.ok /\ ~is
  <2>1. MayOnto(x, f, is) = x /\ Opt(is) = 0
    BY <1>3 DEF Opt, MayOnto
  <2> QED
    BY <1>3, <2>1 DEF Same
<1> QED
  BY <1>1, <1>2, <1>3

\* The header of a group: the numbers of a relocation that is the first of it, and
\* where they end.
GroupOf(k) == stream.packed[k].group
SharesAddend(g) == HasAddend(g.flags) /\ ByAddend(g.flags)
HeaderEnd(k) ==
  stream.packed[k].at + 2 + Opt(ByDelta(GroupOf(k).flags)) + Opt(ByInfo(GroupOf(k).flags)) + Opt(SharesAddend(GroupOf(k)))

\* What an iterator knows of the group of relocation k.
InGroup(x, k) ==
  /\ x.size = GroupOf(k).size /\ x.flags = GroupOf(k).flags
  /\ ByDelta(GroupOf(k).flags) => x.delta = GroupOf(k).delta % Word
  /\ ByInfo(GroupOf(k).flags) => x.info = GroupOf(k).info % Word

\* What the addend is before a relocation's own is added.
SharedAddend(k) ==
  LET before == Preceding(stream, k).addend
  IN IF ~HasAddend(GroupOf(k).flags) THEN 0
     ELSE IF SharesAddend(GroupOf(k)) /\ stream.packed[k].place = 1 THEN (before + GroupOf(k).addend) % Word
     ELSE before

LEMMA Relocations ==
  ASSUME stream \in Streams, NEW k \in 1..Len(stream.list)
  PROVE  /\ Means(stream, k) /\ Grouped(stream, k)
         /\ stream.list[k] \in [offset : 0..(Word - 1), info : 0..(Word - 1), addend : 0..(Word - 1)]
         /\ Preceding(stream, k).offset \in 0..(Word - 1) /\ Preceding(stream, k).addend \in 0..(Word - 1)
         /\ GroupOf(k) \in [size : 1..(Word - 1), flags : 0..(Word - 1), delta : Int, info : Int, addend : Int]
         /\ stream.packed[k].at \in 3..(Len(stream.nums) + 1)
<1>1. WellPacked(stream) /\ Len(stream.list) \in Nat
  BY Tables, Widths DEF WellPacked
<1>2. /\ Means(stream, k) /\ Grouped(stream, k)
      /\ stream.list[k] \in [offset : 0..(Word - 1), info : 0..(Word - 1), addend : 0..(Word - 1)]
  BY <1>1, Zenon DEF WellPacked
<1>3. Preceding(stream, k).offset \in 0..(Word - 1) /\ Preceding(stream, k).addend \in 0..(Word - 1)
  <2>1. CASE k = 1
    <3>1. Preceding(stream, k) = [offset |-> stream.nums[2] % Word, info |-> 0, addend |-> 0]
      BY <2>1 DEF Preceding
    <3>2. stream.nums[2] \in Int
      <4>1. 2 \in 1..Len(stream.nums)
        <5>1. PICK n : n = Len(stream.nums)
          OBVIOUS
        <5>2. n \in Nat /\ n # 0 /\ n # 1
          BY <5>1, Tables
        <5>3. 2 \in 1..n
          BY <5>2
        <5> QED
          BY <5>1, <5>3
      <4> QED
        BY <4>1, Tables
    <3>3. stream.nums[2] % Word \in 0..(Word - 1)
      BY <3>2, Widths, Division
    <3> QED
      BY <3>1, <3>3, Widths
  <2>2. CASE k # 1
    <3>1. k - 1 \in 1..Len(stream.list)
      BY <1>1, <2>2
    <3>2. stream.list[k - 1] \in [offset : 0..(Word - 1), info : 0..(Word - 1), addend : 0..(Word - 1)]
      BY <1>1, <3>1, Zenon DEF WellPacked
    <3>3. Preceding(stream, k) = stream.list[k - 1]
      BY <2>2 DEF Preceding
    <3> QED
      BY <3>2, <3>3
  <2> QED
    BY <2>1, <2>2
<1>4. /\ GroupOf(k) \in [size : 1..(Word - 1), flags : 0..(Word - 1), delta : Int, info : Int, addend : Int]
      /\ stream.packed[k].at \in 3..(Len(stream.nums) + 1)
  BY <1>2, Zenon DEF Grouped, GroupOf
<1> QED
  BY <1>2, <1>3, <1>4

LEMMA SmallRemainder ==
  ASSUME NEW n \in 0..(Word - 1)
  PROVE  n % Word = n
<1>1. (Word * 0 + n) % Word = n
  <2>1. 0 \in Int
    OBVIOUS
  <2> QED
    BY <2>1, Widths, Divided, Zenon
<1>2. Word * 0 + n = n
  BY Widths
<1> QED
  BY <1>1, <1>2

LEMMA OwnRange ==
  ASSUME stream \in Streams, NEW k \in 1..Len(stream.list)
  PROVE  LET own == IF stream.packed[k].place = 1 THEN HeaderEnd(k) ELSE stream.packed[k].at
             f == GroupOf(k).flags
             end == own + Opt(~ByDelta(f)) + Opt(~ByInfo(f)) + Opt(stream.rela /\ HasAddend(f) /\ ~ByAddend(f))
         IN /\ own \in Nat \ {0} /\ end \in Nat /\ own <= end /\ end <= Len(stream.nums) + 1
            /\ k < Len(stream.list) => stream.packed[k + 1].at = end
<1>1. PICK p, a, b, c, d, e, g :
        /\ p = stream.packed[k].at /\ a = Opt(ByDelta(GroupOf(k).flags)) /\ b = Opt(ByInfo(GroupOf(k).flags))
        /\ c = Opt(SharesAddend(GroupOf(k))) /\ d = Opt(~ByDelta(GroupOf(k).flags)) /\ e = Opt(~ByInfo(GroupOf(k).flags))
        /\ g = Opt(stream.rela /\ HasAddend(GroupOf(k).flags) /\ ~ByAddend(GroupOf(k).flags))
  OBVIOUS
<1>2. {a, b, c, d, e, g} \subseteq {0, 1} /\ p \in Nat /\ p >= 3
  <2>1. \A x : Opt(x) \in {0, 1}
    BY DEF Opt
  <2> QED
    BY <1>1, <2>1, Relocations
<1>3. PICK own, end : own = (IF stream.packed[k].place = 1 THEN p + 2 + a + b + c ELSE p) /\ end = own + d + e + g
  OBVIOUS
<1>4. own \in Nat \ {0} /\ end \in Nat /\ own <= end
  BY <1>2, <1>3
<1>5. end <= Len(stream.nums) + 1 /\ (k < Len(stream.list) => stream.packed[k + 1].at = end)
  <2>1. Means(stream, k)
    BY Relocations
  <2> QED
    BY <1>1, <1>3, <2>1, Zenon DEF Means, GroupOf, SharesAddend
<1>6. own = IF stream.packed[k].place = 1 THEN HeaderEnd(k) ELSE stream.packed[k].at
  BY <1>1, <1>3 DEF HeaderEnd
<1> QED
  BY <1>1, <1>3, <1>4, <1>5, <1>6

\* xh_elf_packed_reloc_iterator_read_group_fields reads the header.
LEMMA HeaderRead ==
  ASSUME stream \in Streams, NEW k \in 1..Len(stream.list), stream.packed[k].place = 1,
         NEW x, Stands(x, stream.packed[k].at), x.ok, x.addend = Preceding(stream, k).addend
  PROVE  LET y == GroupFields(x)
         IN /\ Stands(y, HeaderEnd(k))
            /\ y.ok => /\ InGroup(y, k) /\ y.group = 0 /\ y.addend = SharedAddend(k)
                       /\ Same(y, x, {"size", "flags", "delta", "info", "addend", "group", "val", "cur"})
<1>1. PICK p, g, byDelta, byInfo, byAddend :
        /\ p = stream.packed[k].at /\ g = GroupOf(k)
        /\ byDelta = ByDelta(g.flags) /\ byInfo = ByInfo(g.flags) /\ byAddend = SharesAddend(g)
  OBVIOUS
<1>20. byDelta \in BOOLEAN /\ byInfo \in BOOLEAN /\ byAddend \in BOOLEAN
  BY <1>1 DEF ByDelta, ByInfo, SharesAddend
<1>2. PICK o1 \in {0, 1}, o2 \in {0, 1}, o3 \in {0, 1} :
        /\ o1 = Opt(byDelta) /\ o2 = Opt(byInfo) /\ o3 = Opt(byAddend)
        /\ (byDelta <=> o1 = 1) /\ (byInfo <=> o2 = 1) /\ (byAddend <=> o3 = 1)
  <2>1. \A z \in BOOLEAN : Opt(z) \in {0, 1} /\ (z <=> Opt(z) = 1)
    BY DEF Opt
  <2> QED
    BY <1>20, <2>1
<1>0. PICK n \in Nat, a \in Nat, b \in Nat, c \in Nat, e \in Nat :
        /\ n = Len(stream.nums) /\ p \in 3..(n + 1)
        /\ a = p + 2 /\ b = a + o1 /\ c = b + o2 /\ e = c + o3
  <2>1. PICK n : n = Len(stream.nums)
    OBVIOUS
  <2>2. n \in Nat /\ p \in 3..(n + 1)
    BY <1>1, <2>1, Relocations, Tables
  <2>3. p \in Nat
    BY <2>2
  <2>4. p + 2 \in Nat /\ p + 2 + o1 \in Nat /\ p + 2 + o1 + o2 \in Nat /\ p + 2 + o1 + o2 + o3 \in Nat
    BY <2>3
  <2> QED
    BY <2>1, <2>2, <2>4
<1>3. /\ stream.nums[p] = g.size /\ stream.nums[p + 1] = g.flags
      /\ byDelta => stream.nums[a] = g.delta
      /\ byInfo => stream.nums[b] = g.info
      /\ byAddend => stream.rela /\ stream.nums[c] = g.addend
  <2>1. Means(stream, k)
    BY Relocations
  <2> QED
    BY <1>1, <1>2, <1>0, <2>1, Zenon DEF Means, GroupOf, SharesAddend
<1>4. HeaderEnd(k) = e
  BY <1>1, <1>2, <1>0, Zenon DEF HeaderEnd
<1>5. /\ e <= n + 1
      /\ p \in 1..n /\ p + 1 \in 1..n /\ (p + 1) + 1 = a
      /\ byDelta => a <= n
      /\ byInfo => b <= n
      /\ byAddend => c \in 1..n
      /\ a # 0 /\ b # 0
  <2>1. PICK end \in Nat : HeaderEnd(k) <= end /\ end <= Len(stream.nums) + 1
    BY OwnRange
  <2>2. e <= end /\ end <= n + 1
    BY <1>4, <1>0, <2>1, Zenon
  <2>3. e <= n + 1
    BY <2>1, <2>2, <1>0
  <2>4. /\ p \in 1..n /\ p + 1 \in 1..n /\ (p + 1) + 1 = a
        /\ o1 = 1 => a <= n
        /\ o2 = 1 => b <= n
        /\ o3 = 1 => c \in 1..n
        /\ a # 0 /\ b # 0
    BY <1>0, <2>3
  <2> QED
    BY <1>2, <2>3, <2>4, Zenon
<1>6. PICK x1, x2, x3, x4, x5 :
        /\ x1 = Into(x, "size") /\ x2 = Into(x1, "flags") /\ x3 = GroupDelta(x2) /\ x4 = GroupInfo(x3)
        /\ x5 = GroupAddend(x4)
  OBVIOUS
<1>7. g \in [size : 1..(Word - 1), flags : 0..(Word - 1), delta : Int, info : Int, addend : Int]
  BY <1>1, Relocations
<1>8. /\ Stands(x1, p + 1)
      /\ x1.ok => x1.size = g.size /\ Same(x1, x, {"size", "cur"})
  <2>1. p \in 1..Len(stream.nums) /\ g.size % Word = g.size
    <3>1. g.size \in 0..(Word - 1)
      BY <1>7, Widths
    <3>2. p \in 1..Len(stream.nums)
      BY <1>0, <1>5
    <3> QED
      BY <3>1, <3>2, SmallRemainder
  <2>2. "size" \in NumberFields /\ Stands(x, p)
    BY <1>1 DEF NumberFields, Fields
  <2>3. /\ Stands(x1, p + 1)
        /\ x1.ok => x1["size"] = stream.nums[p] % Word /\ Same(x1, x, {"size", "cur"})
    <3>1. /\ Stands(Into(x, "size"), p + 1)
          /\ Into(x, "size").ok =>
               /\ Into(x, "size")["size"] = stream.nums[p] % Word
               /\ Same(Into(x, "size"), x, {"size", "cur"})
      BY <2>1, <2>2, IntoReads
    <3> QED
      BY <1>6, <3>1, Zenon
  <2> QED
    BY <1>3, <2>1, <2>3
<1>9. /\ Stands(x2, a)
      /\ x2.ok => x2.size = g.size /\ x2.flags = g.flags /\ Same(x2, x, {"size", "flags", "cur"})
  <2>1. p + 1 \in 1..Len(stream.nums) /\ g.flags % Word = g.flags /\ (p + 1) + 1 = a
    <3>1. g.flags \in 0..(Word - 1)
      BY <1>7
    <3>2. p + 1 \in 1..Len(stream.nums) /\ (p + 1) + 1 = a
      BY <1>0, <1>5
    <3> QED
      BY <3>1, <3>2, SmallRemainder
  <2>2. "flags" \in NumberFields
    BY DEF NumberFields, Fields
  <2>3. /\ Stands(x2, (p + 1) + 1)
        /\ x2.ok => x1.ok /\ x2["flags"] = stream.nums[p + 1] % Word /\ Same(x2, x1, {"flags", "cur"})
    BY <1>6, <1>8, <2>1, <2>2, IntoReads, Zenon
  <2>4. x2.ok => x2.size = g.size /\ Same(x2, x, {"size", "flags", "cur"})
    BY <1>8, <2>3 DEF Same, Fields
  <2> QED
    BY <1>3, <2>1, <2>3, <2>4
<1>10. /\ Stands(x3, b)
       /\ x3.ok => /\ x3.size = g.size /\ x3.flags = g.flags /\ Same(x3, x, {"size", "flags", "delta", "cur"})
                   /\ byDelta => x3.delta = g.delta % Word
  <2>1. x3 = MayInto(x2, "delta", byDelta)
    <3>1. x2.ok => x3 = (IF byDelta THEN Into(x2, "delta") ELSE x2)
      BY <1>1, <1>6, <1>9 DEF GroupDelta
    <3>2. ~x2.ok => x3 = x2
      BY <1>6 DEF GroupDelta, Into
    <3> QED
      BY <3>1, <3>2 DEF MayInto
  <2>2. "delta" \in NumberFields /\ a \in Nat \ {0} /\ (byDelta => a <= Len(stream.nums)) /\ b = a + Opt(byDelta)
    BY <1>0, <1>2, <1>5 DEF NumberFields, Fields
  <2>3. /\ Stands(x3, b)
        /\ x3.ok => /\ x2.ok /\ Same(x3, x2, {"delta", "cur"})
                    /\ byDelta => x3["delta"] = Num(a)
    BY <1>9, <1>20, <2>1, <2>2, MayRead
  <2>4. x3.ok => x3.size = g.size /\ x3.flags = g.flags /\ Same(x3, x, {"size", "flags", "delta", "cur"})
    BY <1>9, <2>3 DEF Same, Fields
  <2> QED
    BY <1>3, <2>3, <2>4 DEF Num
<1>11. /\ Stands(x4, c)
       /\ x4.ok => /\ x4.size = g.size /\ x4.flags = g.flags
                   /\ Same(x4, x, {"size", "flags", "delta", "info", "cur"})
                   /\ byDelta => x4.delta = g.delta % Word
                   /\ byInfo => x4.info = g.info % Word
  <2>1. x4 = MayInto(x3, "info", byInfo)
    <3>1. x3.ok => x4 = (IF byInfo THEN Into(x3, "info") ELSE x3)
      BY <1>1, <1>6, <1>10 DEF GroupInfo
    <3>2. ~x3.ok => x4 = x3
      BY <1>6 DEF GroupInfo, Into
    <3> QED
      BY <3>1, <3>2 DEF MayInto
  <2>2. "info" \in NumberFields /\ b \in Nat \ {0} /\ (byInfo => b <= Len(stream.nums)) /\ c = b + Opt(byInfo)
    BY <1>0, <1>2, <1>5 DEF NumberFields, Fields
  <2>3. /\ Stands(x4, c)
        /\ x4.ok => /\ x3.ok /\ Same(x4, x3, {"info", "cur"})
                    /\ byInfo => x4["info"] = Num(b)
    <3>1. Stands(x3, b)
      BY <1>10
    <3>2. "info" \in NumberFields /\ b \in Nat \ {0} /\ byInfo \in BOOLEAN /\ (byInfo => b <= Len(stream.nums))
      BY <1>20, <2>2
    <3>3. Stands(MayInto(x3, "info", byInfo), b + Opt(byInfo))
      BY <3>1, <3>2, MayRead
    <3>4. MayInto(x3, "info", byInfo).ok => x3.ok /\ Same(MayInto(x3, "info", byInfo), x3, {"info", "cur"})
      BY <3>1, <3>2, MayRead
    <3>5. ASSUME MayInto(x3, "info", byInfo).ok, byInfo
          PROVE  MayInto(x3, "info", byInfo)["info"] = Num(b)
      <4>4. x3.ok /\ b \in Nat \ {0} /\ b <= Len(stream.nums)
        BY <3>2, <3>4, <3>5, Zenon
      <4>1. x3.ok /\ b \in 1..Len(stream.nums)
        <5>1. PICK m : m = Len(stream.nums)
          OBVIOUS
        <5>2. m \in Nat /\ b <= m /\ b \in Nat \ {0}
          BY <4>4, <5>1, Tables
        <5> QED
          BY <4>4, <5>1, <5>2
      <4>2. MayInto(x3, "info", byInfo) = Into(x3, "info")
        BY <3>5, <4>1 DEF MayInto
      <4>3. Into(x3, "info").ok => Into(x3, "info")["info"] = stream.nums[b] % Word
        BY <3>1, <3>2, <4>1, IntoReads
      <4> QED
        BY <3>5, <4>2, <4>3, Zenon DEF Num
    <3> QED
      BY <2>1, <2>2, <3>3, <3>4, <3>5, Zenon
  <2>4. x4.ok => /\ x4.size = g.size /\ x4.flags = g.flags
                 /\ Same(x4, x, {"size", "flags", "delta", "info", "cur"})
                 /\ byDelta => x4.delta = g.delta % Word
    BY <1>10, <2>3 DEF Same, Fields
  <2> QED
    BY <1>3, <2>3, <2>4 DEF Num
<1>12. /\ Stands(x5, e)
       /\ x5.ok => /\ x4.ok /\ Same(x5, x4, {"addend", "val", "cur"}) /\ x5.addend = SharedAddend(k)
  <2>1. CASE ~x4.ok
    <3>1. ~x5.ok /\ DOMAIN x5 = Fields /\ x5.ok \in BOOLEAN
      <4>1. x5 = [x4 EXCEPT !.addend = 0] \/ x5 = x4 \/ x5 = Onto(x4, "addend") \/ x5 = [x4 EXCEPT !.ok = FALSE]
        BY <1>6 DEF GroupAddend
      <4>2. Onto(x4, "addend") = x4
        <5>1. Into(x4, "val") = x4
          BY <2>1 DEF Into
        <5> QED
          BY <2>1, <5>1 DEF Onto, Added
      <4>3. DOMAIN x4 = Fields /\ x4.ok = FALSE /\ "ok" \in Fields
        BY <1>11, <2>1 DEF Stands, Fields
      <4> QED
        BY <4>1, <4>2, <4>3
    <3> QED
      BY <1>11, <2>1, <3>1 DEF Stands
  <2>2. CASE x4.ok
    <3>1. x4.addend = Preceding(stream, k).addend /\ x4.addend \in Int
      BY <1>11, <2>2, Relocations DEF Same, Fields
    <3>2. CASE ~HasAddend(g.flags)
      <4>1. x5 = [x4 EXCEPT !.addend = 0]
        BY <1>6, <1>11, <2>2, <3>2 DEF GroupAddend
      <4>2. e = c /\ SharedAddend(k) = 0
        <5>1. SharedAddend(k) = 0
          BY <1>1, <3>2, Zenon DEF SharedAddend
        <5>2. ~byAddend
          BY <1>1, <3>2 DEF SharesAddend
        <5> QED
          BY <1>0, <1>2, <5>1, <5>2
      <4>3. DOMAIN x4 = Fields /\ {"ok", "cur", "addend"} \subseteq Fields
        BY <1>11 DEF Stands, Fields
      <4>4. /\ DOMAIN x5 = Fields /\ x5.ok = x4.ok /\ x5.cur = x4.cur /\ x5.addend = 0
            /\ Same(x5, x4, {"addend", "val", "cur"})
        BY <4>1, <4>3 DEF Same
      <4> QED
        BY <1>11, <2>2, <4>2, <4>4 DEF Stands
    <3>3. CASE HasAddend(g.flags) /\ ~byAddend
      <4>1. ~ByAddend(g.flags)
        BY <1>1, <3>3 DEF SharesAddend
      <4>2. x5 = x4
        BY <1>6, <1>11, <2>2, <3>3, <4>1 DEF GroupAddend
      <4>3. e = c /\ SharedAddend(k) = Preceding(stream, k).addend
        BY <1>0, <1>1, <1>2, <3>3 DEF SharedAddend
      <4> QED
        BY <1>11, <2>2, <3>1, <4>2, <4>3 DEF Same
    <3>4. CASE HasAddend(g.flags) /\ byAddend
      <4>1. ByAddend(g.flags) /\ stream.rela
        BY <1>1, <1>3, <3>4 DEF SharesAddend
      <4>2. x5 = Onto(x4, "addend")
        BY <1>6, <1>11, <2>2, <3>4, <4>1 DEF GroupAddend
      <4>3. e = c + 1 /\ c \in 1..Len(stream.nums)
        BY <1>0, <1>2, <1>5, <3>4
      <4>4. SharedAddend(k) = (Preceding(stream, k).addend + g.addend) % Word
        BY <1>1, <3>4 DEF SharedAddend
      <4>5. /\ Stands(x5, c + 1)
            /\ x5.ok => /\ x5["addend"] = (x4["addend"] + stream.nums[c]) % Word
                        /\ Same(x5, x4, {"addend", "val", "cur"})
        BY <1>11, <3>1, <4>2, <4>3, OntoReads, Zenon
      <4> QED
        BY <1>3, <2>2, <3>1, <3>4, <4>3, <4>4, <4>5
    <3> QED
      BY <3>2, <3>3, <3>4
  <2> QED
    BY <1>11, <2>1, <2>2 DEF Stands
<1>13. PICK y : y = GroupFields(x)
  OBVIOUS
<1>14. y = [x5 EXCEPT !.group = 0]
  BY <1>6, <1>13, Zenon DEF GroupFields
<1>15. DOMAIN x5 = Fields /\ {"ok", "cur", "group"} \subseteq Fields
  BY <1>12 DEF Stands, Fields
<1>16. DOMAIN y = Fields /\ y.group = 0 /\ \A f \in Fields \ {"group"} : y[f] = x5[f]
  BY <1>14, <1>15
<1>17. y.ok = x5.ok /\ y.cur = x5.cur
  BY <1>15, <1>16
<1>18. Stands(y, e)
  BY <1>12, <1>16, <1>17 DEF Stands
<1>19. ASSUME y.ok
       PROVE  /\ InGroup(y, k) /\ y.addend = SharedAddend(k)
              /\ Same(y, x, {"size", "flags", "delta", "info", "addend", "group", "val", "cur"})
  <2>1. x5.ok /\ x4.ok
    BY <1>12, <1>17, <1>19
  <2>2. y.size = x4.size /\ y.flags = x4.flags /\ y.delta = x4.delta /\ y.info = x4.info /\ y.addend = x5.addend
    BY <1>12, <1>16, <2>1 DEF Same, Fields
  <2>3. InGroup(y, k)
    BY <1>1, <1>11, <2>1, <2>2 DEF InGroup
  <2>4. Same(y, x, {"size", "flags", "delta", "info", "addend", "group", "val", "cur"})
    BY <1>11, <1>12, <1>16, <2>1 DEF Same
  <2> QED
    BY <1>12, <2>1, <2>2, <2>3, <2>4
<1> QED
  BY <1>4, <1>13, <1>16, <1>18, <1>19

\* What a relocation has of its own: its offset, its info and its addend.
LEMMA OwnOffsetRead ==
  ASSUME stream \in Streams, NEW k \in 1..Len(stream.list), NEW j \in Nat \ {0}, NEW x, Stands(x, j),
         x.ok => InGroup(x, k) /\ x.offset = Preceding(stream, k).offset,
         ~ByDelta(GroupOf(k).flags) => j <= Len(stream.nums)
  PROVE  LET y == OwnOffset(x)
             own == IF ByDelta(GroupOf(k).flags) THEN GroupOf(k).delta ELSE stream.nums[j]
         IN /\ Stands(y, j + Opt(~ByDelta(GroupOf(k).flags)))
            /\ y.ok => /\ x.ok /\ Same(y, x, {"offset", "val", "cur"})
                       /\ y.offset = (Preceding(stream, k).offset + own) % Word
<1>1. PICK y, f, before, delta :
        /\ y = OwnOffset(x) /\ f = GroupOf(k).flags
        /\ before = Preceding(stream, k).offset /\ delta = GroupOf(k).delta
  OBVIOUS
<1>2. before \in Int /\ delta \in Int
  BY <1>1, Relocations
<1>3. x.ok => /\ x.flags = f /\ x.offset = before
              /\ ByDelta(f) => x.delta = delta % Word
  BY <1>1 DEF InGroup
<1>4. CASE ~x.ok
  <2>1. y = x
    BY <1>1, <1>4 DEF OwnOffset, Onto, Into, Added
  <2> QED
    BY <1>1, <1>4, <2>1 DEF Stands
<1>5. CASE x.ok /\ ByDelta(f)
  <2>1. y = [x EXCEPT !.offset = (x.offset + x.delta) % Word]
    BY <1>1, <1>3, <1>5 DEF OwnOffset
  <2>2. DOMAIN x = Fields /\ {"ok", "cur", "offset"} \subseteq Fields
    BY DEF Stands, Fields
  <2>3. DOMAIN y = Fields /\ y.ok = x.ok /\ y.cur = x.cur /\ y.offset = (x.offset + x.delta) % Word
        /\ Same(y, x, {"offset", "val", "cur"})
    BY <2>1, <2>2 DEF Same
  <2>4. y.offset = (before + delta) % Word
    <3>1. (before + (delta % Word)) % Word = (before + delta) % Word
      BY <1>2, Widths, RemainderOfSum
    <3>2. y.offset = (before + (delta % Word)) % Word
      BY <1>3, <1>5, <2>3, Zenon
    <3> QED
      BY <3>1, <3>2
  <2>5. Opt(~ByDelta(f)) = 0 /\ j + 0 = j
    BY <1>5 DEF Opt
  <2>6. Stands(y, j)
    BY <2>3 DEF Stands
  <2> QED
    BY <1>1, <1>5, <2>3, <2>4, <2>5, <2>6, Zenon
<1>6. CASE x.ok /\ ~ByDelta(f)
  <2>1. y = Onto(x, "offset")
    BY <1>1, <1>3, <1>6 DEF OwnOffset
  <2>2. j \in 1..Len(stream.nums)
    BY <1>1, <1>6, Tables
  <2>3. x["offset"] \in Int
    BY <1>2, <1>3, <1>6
  <2>4. /\ Stands(y, j + 1)
        /\ y.ok => /\ x.ok /\ Same(y, x, {"offset", "val", "cur"})
                   /\ y["offset"] = (x["offset"] + stream.nums[j]) % Word
    BY <2>1, <2>2, <2>3, OntoReads
  <2>5. Opt(~ByDelta(f)) = 1
    BY <1>6 DEF Opt
  <2> QED
    BY <1>1, <1>3, <1>6, <2>4, <2>5, Zenon
<1> QED
  BY <1>4, <1>5, <1>6

LEMMA OwnInfoRead ==
  ASSUME stream \in Streams, NEW k \in 1..Len(stream.list), NEW j \in Nat \ {0}, NEW x, Stands(x, j),
         x.ok => InGroup(x, k),
         ~ByInfo(GroupOf(k).flags) => j <= Len(stream.nums)
  PROVE  LET y == OwnInfo(x)
             own == IF ByInfo(GroupOf(k).flags) THEN GroupOf(k).info ELSE stream.nums[j]
         IN /\ Stands(y, j + Opt(~ByInfo(GroupOf(k).flags)))
            /\ y.ok => /\ x.ok /\ Same(y, x, {"info", "cur"})
                       /\ y.info = own % Word
                       /\ ByInfo(GroupOf(k).flags) => y = x
<1>1. PICK y, f, info : y = OwnInfo(x) /\ f = GroupOf(k).flags /\ info = GroupOf(k).info
  OBVIOUS
<1>2. x.ok => x.flags = f /\ (ByInfo(f) => x.info = info % Word)
  BY <1>1 DEF InGroup
<1>3. CASE ~x.ok
  <2>1. y = x
    BY <1>1, <1>3 DEF OwnInfo, Into
  <2> QED
    BY <1>1, <1>3, <2>1 DEF Stands
<1>4. CASE x.ok /\ ByInfo(f)
  <2>1. y = x
    BY <1>1, <1>2, <1>4 DEF OwnInfo
  <2>2. Opt(~ByInfo(f)) = 0 /\ j + 0 = j
    BY <1>4 DEF Opt
  <2>3. Same(y, x, {"info", "cur"})
    BY <2>1 DEF Same
  <2> QED
    BY <1>1, <1>2, <1>4, <2>1, <2>2, <2>3, Zenon
<1>5. CASE x.ok /\ ~ByInfo(f)
  <2>1. y = Into(x, "info")
    BY <1>1, <1>2, <1>5 DEF OwnInfo
  <2>2. j \in 1..Len(stream.nums) /\ "info" \in NumberFields
    BY <1>1, <1>5, Tables DEF NumberFields, Fields
  <2>3. /\ Stands(y, j + 1)
        /\ y.ok => x.ok /\ y["info"] = stream.nums[j] % Word /\ Same(y, x, {"info", "cur"})
    BY <2>1, <2>2, IntoReads
  <2>4. Opt(~ByInfo(f)) = 1
    BY <1>5 DEF Opt
  <2> QED
    BY <1>1, <1>5, <2>3, <2>4, Zenon
<1> QED
  BY <1>3, <1>4, <1>5

HasOwnAddend(k) == stream.rela /\ HasAddend(GroupOf(k).flags) /\ ~ByAddend(GroupOf(k).flags)

LEMMA OwnAddendRead ==
  ASSUME stream \in Streams, NEW k \in 1..Len(stream.list), NEW j \in Nat \ {0}, NEW x, Stands(x, j),
         x.ok => InGroup(x, k) /\ x.addend \in Int,
         HasOwnAddend(k) => j <= Len(stream.nums)
  PROVE  LET y == OwnAddend(x)
         IN /\ Stands(y, j + Opt(HasOwnAddend(k)))
            /\ y.ok => /\ x.ok /\ Same(y, x, {"addend", "val", "cur"})
                       /\ y.addend = IF HasOwnAddend(k) THEN (x.addend + stream.nums[j]) % Word ELSE x.addend
<1>1. PICK y, f : y = OwnAddend(x) /\ f = GroupOf(k).flags
  OBVIOUS
<1>2. x.ok => x.flags = f /\ (OfOwn(x) <=> HasOwnAddend(k))
  BY <1>1 DEF InGroup, OfOwn, HasOwnAddend
<1>3. CASE ~x.ok
  <2>1. y = x
    BY <1>1, <1>3 DEF OwnAddend, Onto, Into, Added
  <2> QED
    BY <1>1, <1>3, <2>1 DEF Stands
<1>4. CASE x.ok /\ ~HasOwnAddend(k)
  <2>1. y = x
    BY <1>1, <1>2, <1>4 DEF OwnAddend
  <2>2. Opt(HasOwnAddend(k)) = 0 /\ j + 0 = j
    BY <1>4 DEF Opt
  <2>3. Same(y, x, {"addend", "val", "cur"})
    BY <2>1 DEF Same
  <2> QED
    BY <1>1, <1>4, <2>1, <2>2, <2>3, Zenon
<1>5. CASE x.ok /\ HasOwnAddend(k)
  <2>1. y = Onto(x, "addend")
    BY <1>1, <1>2, <1>5 DEF OwnAddend
  <2>2. j \in 1..Len(stream.nums) /\ x["addend"] \in Int
    BY <1>5, Tables
  <2>3. /\ Stands(y, j + 1)
        /\ y.ok => /\ x.ok /\ Same(y, x, {"addend", "val", "cur"})
                   /\ y["addend"] = (x["addend"] + stream.nums[j]) % Word
    BY <2>1, <2>2, OntoReads
  <2>4. Opt(HasOwnAddend(k)) = 1
    BY <1>5 DEF Opt
  <2> QED
    BY <1>1, <1>5, <2>3, <2>4, Zenon
<1> QED
  BY <1>3, <1>4, <1>5

\* A relocation that is not the first of its group has the group of the one before.
LEMMA WithinGroup ==
  ASSUME stream \in Streams, NEW k \in 1..Len(stream.list), stream.packed[k].place # 1
  PROVE  /\ k - 1 \in 1..Len(stream.list) /\ GroupOf(k) = GroupOf(k - 1)
         /\ stream.packed[k].place = stream.packed[k - 1].place + 1
         /\ ~HasAddend(GroupOf(k).flags) => Preceding(stream, k).addend = 0
<1>1. Grouped(stream, k) /\ Len(stream.list) \in Nat
  BY Relocations, Tables, Widths DEF WellPacked
<1>2. k # 1
  BY <1>1, Zenon DEF Grouped
<1>3. k - 1 \in 1..Len(stream.list) /\ k > 1
  BY <1>1, <1>2
<1>4. stream.packed[k].place = stream.packed[k - 1].place + 1 /\ GroupOf(k) = GroupOf(k - 1)
  BY <1>1, <1>3, Zenon DEF Grouped, GroupOf
<1>5. ASSUME ~HasAddend(GroupOf(k).flags) PROVE Preceding(stream, k).addend = 0
  <2>1. Means(stream, k - 1)
    BY <1>3, Relocations
  <2>2. ~HasAddend(stream.packed[k - 1].group.flags)
    BY <1>4, <1>5 DEF GroupOf
  <2>3. stream.list[k - 1].addend = 0
    BY <2>1, <2>2, Zenon DEF Means
  <2>4. Preceding(stream, k) = stream.list[k - 1]
    BY <1>2 DEF Preceding
  <2> QED
    BY <2>3, <2>4
<1> QED
  BY <1>3, <1>4, <1>5

\* An iterator that is about to read relocation k.
Awaits(x, k) ==
  /\ Stands(x, stream.packed[k].at) /\ x.ok
  /\ x.offset = Preceding(stream, k).offset /\ x.addend = Preceding(stream, k).addend
  /\ ~stream.rela => x.addend = 0
  /\ (x.group = x.size) <=> (stream.packed[k].place = 1)
  /\ stream.packed[k].place # 1 => InGroup(x, k) /\ x.group = stream.packed[k].place - 1

\* An iterator that has read relocation k and stands at number j.
HasRead(y, k, j) ==
  /\ Stands(y, j) /\ y.ok
  /\ y.offset = stream.list[k].offset /\ y.info = stream.list[k].info /\ y.addend = stream.list[k].addend
  /\ ~stream.rela => y.addend = 0
  /\ InGroup(y, k) /\ y.group = stream.packed[k].place - 1

OwnAt(k) == IF stream.packed[k].place = 1 THEN HeaderEnd(k) ELSE stream.packed[k].at
InfoAt(k) == OwnAt(k) + Opt(~ByDelta(GroupOf(k).flags))
AddendAt(k) == InfoAt(k) + Opt(~ByInfo(GroupOf(k).flags))
EndAt(k) == AddendAt(k) + Opt(HasOwnAddend(k))

LEMMA OwnPlaces ==
  ASSUME stream \in Streams, NEW k \in 1..Len(stream.list)
  PROVE  /\ {OwnAt(k), InfoAt(k), AddendAt(k)} \subseteq Nat \ {0} /\ EndAt(k) \in Nat
         /\ ~ByDelta(GroupOf(k).flags) => OwnAt(k) <= Len(stream.nums)
         /\ ~ByInfo(GroupOf(k).flags) => InfoAt(k) <= Len(stream.nums)
         /\ HasOwnAddend(k) => AddendAt(k) <= Len(stream.nums)
         /\ k < Len(stream.list) => stream.packed[k + 1].at = EndAt(k)
<1>1. PICK n : n = Len(stream.nums)
  OBVIOUS
<1>2. n \in Nat
  BY <1>1, Tables
<1>3. PICK d, e, g : /\ d = Opt(~ByDelta(GroupOf(k).flags)) /\ e = Opt(~ByInfo(GroupOf(k).flags))
                     /\ g = Opt(HasOwnAddend(k))
  OBVIOUS
<1>4. /\ {d, e, g} \subseteq {0, 1}
      /\ ~ByDelta(GroupOf(k).flags) => d = 1
      /\ ~ByInfo(GroupOf(k).flags) => e = 1
      /\ HasOwnAddend(k) => g = 1
  BY <1>3 DEF Opt
<1>5. PICK own : own = OwnAt(k)
  OBVIOUS
<1>6. /\ own \in Nat \ {0} /\ own + d + e + g <= n + 1
      /\ k < Len(stream.list) => stream.packed[k + 1].at = own + d + e + g
  BY <1>1, <1>3, <1>5, OwnRange, Zenon DEF OwnAt, HasOwnAddend
<1>7. InfoAt(k) = own + d /\ AddendAt(k) = own + d + e /\ EndAt(k) = own + d + e + g
  BY <1>3, <1>5 DEF InfoAt, AddendAt, EndAt
<1>8. /\ {own, own + d, own + d + e} \subseteq Nat \ {0} /\ own + d + e + g \in Nat
      /\ d = 1 => own <= n
      /\ e = 1 => own + d <= n
      /\ g = 1 => own + d + e <= n
  BY <1>2, <1>4, <1>6
<1> QED
  BY <1>1, <1>4, <1>5, <1>6, <1>7, <1>8, Zenon

\* What relocation k means, number by number.
LEMMA Meaning ==
  ASSUME stream \in Streams, NEW k \in 1..Len(stream.list)
  PROVE  LET f == GroupOf(k).flags
             before == Preceding(stream, k)
         IN /\ stream.list[k].offset =
                 (before.offset + IF ByDelta(f) THEN GroupOf(k).delta ELSE stream.nums[OwnAt(k)]) % Word
            /\ stream.list[k].info = (IF ByInfo(f) THEN GroupOf(k).info ELSE stream.nums[InfoAt(k)]) % Word
            /\ stream.list[k].addend =
                 IF HasOwnAddend(k) THEN (before.addend + stream.nums[AddendAt(k)]) % Word ELSE SharedAddend(k)
            /\ SharesAddend(GroupOf(k)) /\ stream.packed[k].place = 1 => stream.rela
<1>1. Means(stream, k)
  BY Relocations
<1>2. OwnAt(k) = IF stream.packed[k].place = 1
                 THEN stream.packed[k].at + 2 + Opt(ByDelta(GroupOf(k).flags)) + Opt(ByInfo(GroupOf(k).flags))
                        + Opt(HasAddend(GroupOf(k).flags) /\ ByAddend(GroupOf(k).flags))
                 ELSE stream.packed[k].at
  BY Zenon DEF OwnAt, HeaderEnd, SharesAddend
<1>3. PICK own : own = OwnAt(k)
  OBVIOUS
<1>4. PICK infoAt, addendAt : infoAt = InfoAt(k) /\ addendAt = AddendAt(k)
  OBVIOUS
<1>5. infoAt = own + Opt(~ByDelta(GroupOf(k).flags)) /\ addendAt = infoAt + Opt(~ByInfo(GroupOf(k).flags))
  BY <1>3, <1>4, Zenon DEF InfoAt, AddendAt
<1>6. stream.list[k].offset =
        (Preceding(stream, k).offset + IF ByDelta(GroupOf(k).flags) THEN GroupOf(k).delta ELSE stream.nums[own]) % Word
  BY <1>1, <1>2, <1>3, Zenon DEF Means, GroupOf
<1>7. stream.list[k].info = (IF ByInfo(GroupOf(k).flags) THEN GroupOf(k).info ELSE stream.nums[infoAt]) % Word
  BY <1>1, <1>2, <1>3, <1>5, Zenon DEF Means, GroupOf
<1>8. stream.list[k].addend =
        IF HasOwnAddend(k) THEN (Preceding(stream, k).addend + stream.nums[addendAt]) % Word ELSE SharedAddend(k)
  BY <1>1, <1>2, <1>3, <1>5, Zenon DEF Means, GroupOf, SharedAddend, SharesAddend, HasOwnAddend
<1>9. SharesAddend(GroupOf(k)) /\ stream.packed[k].place = 1 => stream.rela
  BY <1>1, Zenon DEF Means, GroupOf, SharesAddend
<1> QED
  BY <1>3, <1>4, <1>6, <1>7, <1>8, <1>9, Zenon

\* xh_elf_packed_reloc_iterator_next: it has the relocation, or the table has ended.
LEMMA AdvancedReads ==
  ASSUME stream \in Streams, NEW k \in 1..Len(stream.list), NEW x, Awaits(x, k)
  PROVE  LET y == Advanced(x)
         IN /\ y.ok => HasRead(y, k, EndAt(k)) /\ y.index = x.index /\ y.count = x.count
            /\ ~y.ok => stream.cut
<1>1. PICK x1, x2, x3, y :
        /\ x1 = (IF x.group = x.size THEN GroupFields(x) ELSE x)
        /\ x2 = OwnOffset(x1) /\ x3 = OwnInfo(x2) /\ y = OwnAddend(x3)
  OBVIOUS
<1>2. y = Advanced(x)
  BY <1>1, Zenon DEF Advanced
<1>3. /\ Stands(x1, OwnAt(k))
      /\ x1.ok => /\ InGroup(x1, k) /\ x1.group = stream.packed[k].place - 1 /\ x1.addend = SharedAddend(k)
                  /\ x1.offset = Preceding(stream, k).offset
                  /\ x1.index = x.index /\ x1.count = x.count
  <2>1. CASE stream.packed[k].place = 1
    <3>1. x1 = GroupFields(x)
      BY <1>1, <2>1 DEF Awaits
    <3>2. Stands(x, stream.packed[k].at) /\ x.ok /\ x.addend = Preceding(stream, k).addend
      BY DEF Awaits
    <3>3. /\ Stands(x1, HeaderEnd(k))
          /\ x1.ok => /\ InGroup(x1, k) /\ x1.group = 0 /\ x1.addend = SharedAddend(k)
                      /\ Same(x1, x, {"size", "flags", "delta", "info", "addend", "group", "val", "cur"})
      BY <2>1, <3>1, <3>2, HeaderRead
    <3>4. x1.ok => x1.offset = x.offset /\ x1.index = x.index /\ x1.count = x.count
      BY <3>3 DEF Same, Fields
    <3>5. x.offset = Preceding(stream, k).offset
      BY DEF Awaits
    <3> QED
      BY <2>1, <3>3, <3>4, <3>5 DEF OwnAt
  <2>2. CASE stream.packed[k].place # 1
    <3>1. x1 = x
      BY <1>1, <2>2 DEF Awaits
    <3>2. /\ Stands(x, stream.packed[k].at) /\ InGroup(x, k) /\ x.group = stream.packed[k].place - 1
          /\ x.offset = Preceding(stream, k).offset /\ x.addend = Preceding(stream, k).addend
      BY <2>2, Zenon DEF Awaits
    <3>3. Preceding(stream, k).addend = SharedAddend(k)
      BY <2>2, WithinGroup, Zenon DEF SharedAddend
    <3> QED
      BY <2>2, <3>1, <3>2, <3>3 DEF OwnAt
  <2> QED
    BY <2>1, <2>2
<1>4. /\ {OwnAt(k), InfoAt(k), AddendAt(k)} \subseteq Nat \ {0}
      /\ ~ByDelta(GroupOf(k).flags) => OwnAt(k) <= Len(stream.nums)
      /\ ~ByInfo(GroupOf(k).flags) => InfoAt(k) <= Len(stream.nums)
      /\ HasOwnAddend(k) => AddendAt(k) <= Len(stream.nums)
  BY OwnPlaces
<1>5. /\ Stands(x2, InfoAt(k))
      /\ x2.ok => /\ x1.ok /\ Same(x2, x1, {"offset", "val", "cur"})
                  /\ x2.offset = stream.list[k].offset
  <2>1. PICK own, j : /\ own = (IF ByDelta(GroupOf(k).flags) THEN GroupOf(k).delta ELSE stream.nums[OwnAt(k)])
                      /\ j = OwnAt(k)
    OBVIOUS
  <2>2. Stands(x1, j) /\ j \in Nat \ {0} /\ (~ByDelta(GroupOf(k).flags) => j <= Len(stream.nums))
    BY <1>3, <1>4, <2>1, Zenon
  <2>3. x1.ok => InGroup(x1, k) /\ x1.offset = Preceding(stream, k).offset
    BY <1>3
  <2>4. /\ Stands(x2, j + Opt(~ByDelta(GroupOf(k).flags)))
        /\ x2.ok => /\ x1.ok /\ Same(x2, x1, {"offset", "val", "cur"})
                    /\ x2.offset = (Preceding(stream, k).offset + own) % Word
    BY <1>1, <2>1, <2>2, <2>3, OwnOffsetRead, Zenon
  <2>5. stream.list[k].offset = (Preceding(stream, k).offset + own) % Word
    BY <2>1, Meaning, Zenon
  <2> QED
    BY <2>1, <2>4, <2>5, Zenon DEF InfoAt
<1>6. x2.ok => InGroup(x2, k)
  BY <1>3, <1>5 DEF InGroup, Same, Fields
<1>7. /\ Stands(x3, AddendAt(k))
      /\ x3.ok => /\ x2.ok /\ Same(x3, x2, {"info", "cur"}) /\ x3.info = stream.list[k].info
                  /\ ByInfo(GroupOf(k).flags) => x3 = x2
  <2>1. PICK own, j : /\ own = (IF ByInfo(GroupOf(k).flags) THEN GroupOf(k).info ELSE stream.nums[InfoAt(k)])
                      /\ j = InfoAt(k)
    OBVIOUS
  <2>2. Stands(x2, j) /\ j \in Nat \ {0} /\ (~ByInfo(GroupOf(k).flags) => j <= Len(stream.nums))
    BY <1>4, <1>5, <2>1, Zenon
  <2>3. /\ Stands(x3, j + Opt(~ByInfo(GroupOf(k).flags)))
        /\ x3.ok => /\ x2.ok /\ Same(x3, x2, {"info", "cur"}) /\ x3.info = own % Word
                    /\ ByInfo(GroupOf(k).flags) => x3 = x2
    BY <1>1, <1>6, <2>1, <2>2, OwnInfoRead, Zenon
  <2>4. stream.list[k].info = own % Word
    BY <2>1, Meaning, Zenon
  <2> QED
    BY <2>1, <2>3, <2>4, Zenon DEF AddendAt
<1>8. x3.ok => InGroup(x3, k) /\ x3.addend = SharedAddend(k) /\ x3.addend \in Int
  <2>1. SharedAddend(k) \in Int
    <3>1. PICK b, a : b = Preceding(stream, k).addend /\ a = GroupOf(k).addend
      OBVIOUS
    <3>2. b \in Int /\ a \in Int
      BY <3>1, Relocations
    <3>3. (b + a) % Word \in Int
      <4>1. (b + a) \in Int
        BY <3>2
      <4>2. (b + a) % Word \in 0..(Word - 1)
        BY <4>1, Widths, Division, Zenon
      <4> QED
        BY <4>2, Widths
    <3> QED
      BY <3>1, <3>2, <3>3 DEF SharedAddend
  <2>2. x3.ok => InGroup(x3, k)
    <3>1. x3.ok => x3.size = x2.size /\ x3.flags = x2.flags /\ x3.delta = x2.delta
      BY <1>7 DEF Same, Fields
    <3> QED
      BY <1>6, <1>7, <3>1 DEF InGroup
  <2>3. x3.ok => x3.addend = x1.addend
    BY <1>5, <1>7 DEF Same, Fields
  <2> QED
    BY <1>3, <1>5, <1>7, <2>1, <2>2, <2>3
<1>9. /\ Stands(y, EndAt(k))
      /\ y.ok => /\ x3.ok /\ Same(y, x3, {"addend", "val", "cur"})
                 /\ y.addend = stream.list[k].addend
  <2>1. PICK j : j = AddendAt(k)
    OBVIOUS
  <2>2. Stands(x3, j) /\ j \in Nat \ {0} /\ (HasOwnAddend(k) => j <= Len(stream.nums))
    BY <1>4, <1>7, <2>1, Zenon
  <2>3. x3.ok => InGroup(x3, k) /\ x3.addend \in Int
    BY <1>8
  <2>4. /\ Stands(y, j + Opt(HasOwnAddend(k)))
        /\ y.ok => /\ x3.ok /\ Same(y, x3, {"addend", "val", "cur"})
                   /\ y.addend = IF HasOwnAddend(k) THEN (x3.addend + stream.nums[j]) % Word ELSE x3.addend
    BY <1>1, <2>2, <2>3, OwnAddendRead, Zenon
  <2>5. stream.list[k].addend =
          IF HasOwnAddend(k) THEN (Preceding(stream, k).addend + stream.nums[j]) % Word ELSE SharedAddend(k)
    BY <2>1, Meaning, Zenon
  <2>6. HasOwnAddend(k) => SharedAddend(k) = Preceding(stream, k).addend
    BY Zenon DEF HasOwnAddend, SharedAddend, SharesAddend
  <2>7. y.ok => y.addend = stream.list[k].addend
    BY <1>8, <2>4, <2>5, <2>6, Zenon
  <2> QED
    BY <2>1, <2>4, <2>7, Zenon DEF EndAt
<1>10. ASSUME y.ok PROVE HasRead(y, k, EndAt(k)) /\ y.index = x.index /\ y.count = x.count
  <2>1. x1.ok /\ x2.ok /\ x3.ok
    BY <1>5, <1>7, <1>9, <1>10
  <2>2. /\ y.offset = x2.offset /\ y.info = x3.info /\ y.group = x1.group
        /\ y.index = x1.index /\ y.count = x1.count
    BY <1>5, <1>7, <1>9, <1>10 DEF Same, Fields
  <2>3. InGroup(y, k)
    <3>1. y.size = x3.size /\ y.flags = x3.flags /\ y.delta = x3.delta /\ y.info = x3.info
      BY <1>9, <1>10 DEF Same, Fields
    <3> QED
      BY <1>8, <2>1, <3>1 DEF InGroup
  <2>4. ~stream.rela => y.addend = 0
    <3>1. SUFFICES ASSUME ~stream.rela PROVE stream.list[k].addend = 0
      BY <1>9, <1>10
    <3>2. stream.list[k].addend = SharedAddend(k)
      BY <3>1, Meaning, Zenon DEF HasOwnAddend
    <3>3. Preceding(stream, k).addend = 0
      BY <3>1 DEF Awaits
    <3>4. ~(SharesAddend(GroupOf(k)) /\ stream.packed[k].place = 1)
      BY <3>1, Meaning, Zenon
    <3> QED
      BY <3>2, <3>3, <3>4, Zenon DEF SharedAddend
  <2> QED
    BY <1>3, <1>5, <1>7, <1>9, <1>10, <2>1, <2>2, <2>3, <2>4, Zenon DEF HasRead
<1>11. ASSUME ~y.ok PROVE stream.cut
  BY <1>9, <1>11 DEF Stands
<1> QED
  BY <1>2, <1>10, <1>11, Zenon

\* An error stays until the end of a relocation.
LEMMA ErrorStays ==
  ASSUME NEW x, DOMAIN x = Fields, x.ok, x.group = x.size, ~Into(x, "size").ok
  PROVE  ~Advanced(x).ok
<1>1. ASSUME NEW y, ~y.ok, NEW f PROVE Into(y, f) = y /\ Onto(y, f) = y
  BY <1>1 DEF Into, Onto, Added
<1>2. PICK x1, x2, x3 : x1 = Into(x, "size") /\ x2 = GroupAddend(x1) /\ x3 = GroupFields(x)
  OBVIOUS
<1>3. DOMAIN x1 = Fields /\ ~x1.ok
  <2>1. PICK r : r = Sleb(stream.bytes, x.cur)
    OBVIOUS
  <2>2. x1 = Stored(x, "size", r)
    BY <1>2, <2>1 DEF Into
  <2>3. x1 = [x EXCEPT !["size"] = r.val, !.cur = r.cur] \/ x1 = [x EXCEPT !.ok = FALSE, !.cur = r.cur]
    BY <2>2 DEF Stored
  <2>4. DOMAIN x1 = DOMAIN x
    BY <2>3
  <2> QED
    BY <1>2, <2>4
<1>4. x3 = [x2 EXCEPT !.group = 0]
  <2>1. Into(x1, "flags") = x1 /\ GroupDelta(x1) = x1 /\ GroupInfo(x1) = x1
    BY <1>1, <1>3 DEF GroupDelta, GroupInfo
  <2> QED
    BY <1>2, <2>1, Zenon DEF GroupFields
<1>5. DOMAIN x2 = Fields /\ ~x2.ok
  <2>1. x2 = [x1 EXCEPT !.addend = 0] \/ x2 = x1 \/ x2 = [x1 EXCEPT !.ok = FALSE]
    BY <1>1, <1>2, <1>3 DEF GroupAddend
  <2>2. "ok" \in DOMAIN x1
    BY <1>3 DEF Fields
  <2> QED
    BY <1>3, <2>1, <2>2
<1>6. ~x3.ok
  BY <1>4, <1>5 DEF Fields
<1>7. OwnOffset(x3) = x3 /\ OwnInfo(x3) = x3 /\ OwnAddend(x3) = x3
  BY <1>1, <1>6 DEF OwnOffset, OwnInfo, OwnAddend
<1> QED
  BY <1>2, <1>6, <1>7, Zenon DEF Advanced

PackedSpec == PackedInit(Streams) /\ [][PackedNext]_packedVars

RelocationSet == [offset : 0..(Word - 1), info : 0..(Word - 1), addend : 0..(Word - 1)]

\* The iterator is about to read relocation e + 1, or has read all of them.
Reading(e) ==
  /\ DOMAIN it = Fields /\ it.ok /\ it.count = Len(stream.list) /\ it.index = e
  /\ e < Len(stream.list) => Awaits(it, e + 1)

\* The table ended in the count or in the first offset: that error is not looked at, but
\* no relocation is read.
Unread(e) ==
  /\ stream.cut /\ e = 0 /\ DOMAIN it = Fields /\ it.index = 0
  /\ \/ it.count = 0
     \/ it.ok /\ it.group = it.size /\ it.cur = Len(stream.bytes) + 1

PackedInv ==
  /\ stream \in Streams /\ emitted \in Seq(RelocationSet)
  /\ Len(emitted) <= Len(stream.list)
  /\ \A i \in 1..Len(emitted) : emitted[i] = stream.list[i]
  /\ ended /\ ~stream.cut => Len(emitted) = Len(stream.list)
  /\ Reading(Len(emitted)) \/ Unread(Len(emitted))

LEMMA Lists ==
  ASSUME stream \in Streams
  PROVE  /\ Len(stream.list) \in 0..(Word - 1) /\ stream.nums[1] = Len(stream.list)
         /\ \A k \in 1..Len(stream.list) : stream.list[k] \in RelocationSet
<1>1. WellPacked(stream)
  BY Tables
<1> QED
  BY <1>1, Zenon DEF WellPacked, RelocationSet

\* A number is not read only when the table ends in it, and the field stays.
LEMMA Unreadable ==
  ASSUME NEW x, DOMAIN x = Fields, NEW f \in NumberFields, x.ok, ~Into(x, f).ok
  PROVE  /\ DOMAIN Into(x, f) = Fields /\ Into(x, f).cur = Len(stream.bytes) + 1
         /\ Same(Into(x, f), x, {"ok", "cur"})
<1>1. PICK r : r = Sleb(stream.bytes, x.cur)
  OBVIOUS
<1>2. PICK y : y = Into(x, f)
  OBVIOUS
<1>3. y = Stored(x, f, r)
  BY <1>1, <1>2 DEF Into
<1>4. f # "ok" /\ f # "cur" /\ {"ok", "cur"} \subseteq Fields
  BY DEF NumberFields, Fields
<1>5. ~r.ok
  <2>1. SUFFICES ASSUME r.ok PROVE FALSE
    OBVIOUS
  <2>2. y = [x EXCEPT ![f] = r.val, !.cur = r.cur]
    BY <1>3, <2>1 DEF Stored
  <2>3. y.ok = x.ok
    BY <1>4, <2>2
  <2> QED
    BY <1>2, <2>3
<1>6. y = [x EXCEPT !.ok = FALSE, !.cur = r.cur]
  BY <1>3, <1>5 DEF Stored
<1>7. r.cur = Len(stream.bytes) + 1
  <2>1. CASE Lengths(stream.bytes, x.cur) = {}
    <3>1. r = [ok |-> FALSE, cur |-> Len(stream.bytes) + 1, val |-> 0]
      BY <1>1, <2>1, Zenon DEF Sleb
    <3> QED
      BY <3>1
  <2>2. CASE Lengths(stream.bytes, x.cur) # {}
    <3>1. PICK c, v : r = [ok |-> TRUE, cur |-> c, val |-> v]
      BY <1>1, <2>2, Zenon DEF Sleb
    <3> QED
      BY <1>5, <3>1
  <2> QED
    BY <2>1, <2>2
<1>8. DOMAIN y = Fields /\ y.cur = r.cur /\ Same(y, x, {"ok", "cur"})
  BY <1>4, <1>6 DEF Same
<1> QED
  BY <1>2, <1>7, <1>8

\* Nothing is read past the end.
LEMMA PastTheEnd ==
  ASSUME stream \in Streams, NEW x, DOMAIN x = Fields, x.ok, x.cur = Len(stream.bytes) + 1
  PROVE  ~Into(x, "size").ok
<1>1. PICK m : m = Len(stream.bytes)
  OBVIOUS
<1>2. Lengths(stream.bytes, x.cur) = {}
  <2>1. m \in Nat /\ x.cur = m + 1
    BY <1>1, Tables
  <2>2. 1..(m - x.cur + 1) = {}
    BY <2>1
  <2> QED
    BY <1>1, <2>2, Zenon DEF Lengths
<1>3. PICK r : r = Sleb(stream.bytes, x.cur)
  OBVIOUS
<1>4. ~r.ok
  BY <1>2, <1>3, SlebIs, Zenon
<1>5. Into(x, "size") = [x EXCEPT !.ok = FALSE, !.cur = r.cur]
  BY <1>3, <1>4 DEF Into, Stored
<1> QED
  BY <1>5 DEF Fields

LEMMA PackedStart ==
  ASSUME PackedInit(Streams)
  PROVE  PackedInv
<1>1. stream \in Streams /\ it = Opened /\ emitted = <<>> /\ ended = FALSE
  BY DEF PackedInit
<1>2. PICK zero, y, z :
        /\ zero = [ok |-> TRUE, cur |-> 1, count |-> 0, size |-> 0, flags |-> 0, delta |-> 0,
                   index |-> 0, group |-> 0, offset |-> 0, info |-> 0, addend |-> 0, val |-> 0]
        /\ y = Into(zero, "count") /\ z = Into(y, "offset")
  OBVIOUS
<1>3. it = [z EXCEPT !.ok = TRUE]
  BY <1>1, <1>2, Zenon DEF Opened
<1>4. Len(stream.list) \in 0..(Word - 1) /\ stream.nums[1] = Len(stream.list)
  BY <1>1, Lists
<1>5. DOMAIN zero = Fields /\ zero.ok
  BY <1>2 DEF Fields
<1>6. Stands(zero, 1)
  <2>1. Len(stream.bytes) \in Nat /\ stream.at[1] = 1 /\ zero.cur = 1
    BY <1>1, <1>2, Tables
  <2>2. 1 <= Len(stream.bytes) + 1
    BY <2>1
  <2> QED
    BY <1>5, <2>1, <2>2 DEF Stands
<1>7. 1 \in 1..Len(stream.nums) /\ 2 \in 1..Len(stream.nums)
  <2>1. PICK n : n = Len(stream.nums)
    OBVIOUS
  <2>2. n \in Nat /\ n # 0 /\ n # 1
    BY <1>1, <2>1, Tables
  <2>3. 1 \in 1..n /\ 2 \in 1..n
    BY <2>2
  <2> QED
    BY <2>1, <2>3
<1>8. {"count", "offset"} \subseteq NumberFields
  BY DEF NumberFields, Fields
<1>9. /\ Stands(y, 2)
      /\ y.ok => y.count = Len(stream.list) /\ Same(y, zero, {"count", "cur"})
  <2>1. /\ Stands(y, 1 + 1)
        /\ y.ok => y["count"] = stream.nums[1] % Word /\ Same(y, zero, {"count", "cur"})
    <3>1. PICK j : j = 1
      OBVIOUS
    <3>2. Stands(zero, j) /\ j \in 1..Len(stream.nums) /\ stream \in Streams /\ y = Into(zero, "count")
      BY <1>1, <1>2, <1>6, <1>7, <3>1
    <3>3. /\ Stands(y, j + 1)
          /\ y.ok => y["count"] = stream.nums[j] % Word /\ Same(y, zero, {"count", "cur"})
      BY <1>8, <3>2, IntoReads
    <3> QED
      BY <3>1, <3>3, Zenon
  <2>2. stream.nums[1] % Word = Len(stream.list)
    BY <1>4, SmallRemainder
  <2>3. 1 + 1 = 2
    OBVIOUS
  <2> QED
    BY <2>1, <2>2, <2>3, Zenon
<1>10. /\ Stands(z, 3)
       /\ z.ok => y.ok /\ z.offset = stream.nums[2] % Word /\ Same(z, y, {"offset", "cur"})
  <2>1. /\ Stands(z, 2 + 1)
        /\ z.ok => y.ok /\ z["offset"] = stream.nums[2] % Word /\ Same(z, y, {"offset", "cur"})
    <3>1. PICK j : j = 2
      OBVIOUS
    <3>2. Stands(y, j) /\ j \in 1..Len(stream.nums) /\ stream \in Streams /\ z = Into(y, "offset")
      BY <1>1, <1>2, <1>7, <1>9, <3>1
    <3>3. /\ Stands(z, j + 1)
          /\ z.ok => y.ok /\ z["offset"] = stream.nums[j] % Word /\ Same(z, y, {"offset", "cur"})
      BY <1>8, <3>2, IntoReads
    <3> QED
      BY <3>1, <3>3, Zenon
  <2>2. 2 + 1 = 3
    OBVIOUS
  <2> QED
    BY <2>1, <2>2, Zenon
<1>11. DOMAIN z = Fields /\ "ok" \in Fields
  BY <1>10 DEF Stands, Fields
<1>12. DOMAIN it = Fields /\ it.ok /\ Same(it, z, {"ok"})
  BY <1>3, <1>11 DEF Same
<1>13. CASE z.ok
  <2>1. it.ok = z.ok /\ \A g \in Fields : it[g] = z[g]
    <3>1. z.ok = TRUE
      BY <1>10, <1>13 DEF Stands
    <3> QED
      BY <1>3, <1>11, <1>12, <3>1 DEF Same
  <2>2. Same(z, zero, {"count", "offset", "cur"}) /\ z.count = Len(stream.list)
    BY <1>9, <1>10, <1>13 DEF Same, Fields
  <2>3. z.index = 0 /\ z.group = 0 /\ z.size = 0 /\ z.addend = 0
    BY <1>2, <2>2 DEF Same, Fields
  <2>7. /\ it.index = 0 /\ it.group = it.size /\ it.addend = 0
        /\ it.offset = z.offset /\ it.count = z.count /\ it.cur = z.cur
    BY <2>1, <2>3 DEF Fields
  <2>8. Stands(it, 3)
    BY <1>10, <1>12, <1>13, <2>1, <2>7 DEF Stands
  <2>4. ASSUME 0 < Len(stream.list) PROVE Awaits(it, 1)
    <3>1. 1 \in 1..Len(stream.list)
      BY <1>4, <2>4
    <3>2. stream.packed[1].place = 1 /\ stream.packed[1].at = 3
      <4>1. Grouped(stream, 1)
        BY <1>1, <3>1, Relocations
      <4> QED
        BY <4>1, Zenon DEF Grouped
    <3>3. Preceding(stream, 1) = [offset |-> stream.nums[2] % Word, info |-> 0, addend |-> 0]
      BY DEF Preceding
    <3>4. Preceding(stream, 1).offset = it.offset /\ Preceding(stream, 1).addend = it.addend
      BY <1>10, <1>13, <2>7, <3>3
    <3> QED
      BY <1>12, <2>7, <2>8, <3>2, <3>4, Zenon DEF Awaits
  <2>5. Reading(0)
    <3>1. 0 + 1 = 1
      OBVIOUS
    <3> QED
      BY <1>12, <2>2, <2>4, <2>7, <3>1, Zenon DEF Reading
  <2>6. Len(emitted) = 0 /\ emitted \in Seq(RelocationSet) /\ Len(emitted) <= Len(stream.list)
    BY <1>1, <1>4
  <2> QED
    BY <1>1, <2>5, <2>6 DEF PackedInv
<1>14. CASE ~z.ok
  <2>1. stream.cut
    BY <1>10, <1>14 DEF Stands
  <2>2. it.index = 0 /\ (it.count = 0 \/ (it.group = it.size /\ it.cur = Len(stream.bytes) + 1))
    <3>1. CASE y.ok
      <4>1. DOMAIN y = Fields
        BY <1>9 DEF Stands
      <4>2. z.cur = Len(stream.bytes) + 1 /\ Same(z, y, {"ok", "cur"})
        BY <1>2, <1>8, <1>14, <3>1, <4>1, Unreadable
      <4>3. y.index = 0 /\ y.group = 0 /\ y.size = 0
        BY <1>2, <1>9, <3>1 DEF Same, Fields
      <4>4. z.index = 0 /\ z.group = z.size
        BY <4>2, <4>3 DEF Same, Fields
      <4> QED
        BY <1>12, <4>2, <4>4 DEF Same, Fields
    <3>2. CASE ~y.ok
      <4>1. z = y
        BY <1>2, <3>2 DEF Into
      <4>2. Same(y, zero, {"ok", "cur"})
        BY <1>2, <1>5, <1>8, <3>2, Unreadable
      <4>3. y.index = 0 /\ y.count = 0
        BY <1>2, <4>2 DEF Same, Fields
      <4> QED
        BY <1>12, <4>1, <4>3 DEF Same, Fields
    <3> QED
      BY <3>1, <3>2
  <2>3. Unread(0)
    BY <1>12, <2>1, <2>2 DEF Unread
  <2>4. Len(emitted) = 0 /\ emitted \in Seq(RelocationSet) /\ Len(emitted) <= Len(stream.list)
    BY <1>1, <1>4
  <2> QED
    BY <1>1, <2>3, <2>4 DEF PackedInv
<1> QED
  BY <1>13, <1>14

LEMMA PackedStep ==
  ASSUME PackedInv, [PackedNext]_packedVars
  PROVE  PackedInv'
<1>1. CASE UNCHANGED packedVars
  <2>1. stream' = stream /\ it' = it /\ emitted' = emitted /\ ended' = ended
    BY <1>1 DEF packedVars
  <2>2. (Reading(Len(emitted)) \/ Unread(Len(emitted)))'
    <3>1. Awaits(it, Len(emitted) + 1)' <=> Awaits(it, Len(emitted) + 1)
      BY <2>1 DEF Awaits, Stands, InGroup, GroupOf
    <3> QED
      BY <2>1, <3>1 DEF PackedInv, Reading, Unread
  <2> QED
    BY <2>1, <2>2 DEF PackedInv
<1>2. CASE NextRelocation
  <2>1. PICK e, l, n : e = Len(emitted) /\ l = Len(stream.list) /\ n = Advanced(it)
    OBVIOUS
  <2>2. /\ stream \in Streams /\ stream' = stream /\ ~ended
        /\ e \in Nat /\ l \in Nat /\ e <= l
    BY <1>2, <2>1, Lists, Widths DEF PackedInv, NextRelocation
  <2>3. CASE it.index < it.count /\ n.ok
    <3>1. /\ it' = [n EXCEPT !.index = @ + 1, !.group = @ + 1]
          /\ emitted' = Append(emitted, Relocation(n)) /\ ended' = ended
      BY <1>2, <2>1, <2>3 DEF NextRelocation
    <3>2. Reading(e)
      <4>1. SUFFICES ASSUME Unread(e) PROVE FALSE
        BY <2>1 DEF PackedInv
      <4>2. it.count # 0
        BY <2>3, <4>1 DEF Unread
      <4>3. DOMAIN it = Fields /\ it.ok /\ it.group = it.size /\ it.cur = Len(stream.bytes) + 1
        BY <4>1, <4>2 DEF Unread
      <4>4. ~n.ok
        BY <2>1, <2>2, <4>3, PastTheEnd, ErrorStays
      <4> QED
        BY <2>3, <4>4
    <3>3. PICK k : k = e + 1
      OBVIOUS
    <3>4. k \in 1..l /\ it.index = e /\ it.count = l /\ e < l
      BY <2>1, <2>2, <2>3, <3>2, <3>3 DEF Reading
    <3>5. Awaits(it, k)
      BY <2>1, <3>2, <3>3, <3>4 DEF Reading
    <3>6. HasRead(n, k, EndAt(k)) /\ n.index = e /\ n.count = l
      BY <2>1, <2>2, <2>3, <3>4, <3>5, AdvancedReads
    <3>7. stream.list[k] \in RelocationSet
      BY <2>1, <2>2, <3>4, Lists
    <3>8. Relocation(n) = stream.list[k]
      <4>1. n.offset = stream.list[k].offset /\ n.info = stream.list[k].info
            /\ (IF stream.rela THEN n.addend ELSE 0) = stream.list[k].addend
        BY <3>6 DEF HasRead
      <4>2. PICK r : r = stream.list[k]
        OBVIOUS
      <4>3. r = [offset |-> r.offset, info |-> r.info, addend |-> r.addend]
        BY <3>7, <4>2 DEF RelocationSet
      <4> QED
        BY <4>1, <4>2, <4>3, Zenon DEF Relocation
    <3>9. emitted' \in Seq(RelocationSet) /\ Len(emitted') = k
          /\ \A i \in 1..Len(emitted') : emitted'[i] = stream.list[i]
      <4>1. emitted \in Seq(RelocationSet) /\ \A i \in 1..e : emitted[i] = stream.list[i]
        BY <2>1 DEF PackedInv
      <4> QED
        BY <2>1, <2>2, <3>1, <3>3, <3>7, <3>8, <4>1
    <3>10. PICK m : m = it'
      OBVIOUS
    <3>11. DOMAIN n = Fields /\ {"index", "group"} \subseteq Fields /\ n.ok
      BY <3>6 DEF HasRead, Stands, Fields
    <3>12. /\ DOMAIN m = Fields /\ m.index = n.index + 1 /\ m.group = n.group + 1
           /\ Same(m, n, {"index", "group"})
      BY <3>1, <3>10, <3>11 DEF Same
    <3>13. /\ m.ok = n.ok /\ m.count = n.count /\ m.cur = n.cur /\ m.offset = n.offset /\ m.addend = n.addend
           /\ m.size = n.size /\ m.flags = n.flags /\ m.delta = n.delta /\ m.info = n.info
      BY <3>12 DEF Same, Fields
    <3>14. ASSUME k < l PROVE Awaits(m, k + 1)
      <4>1. PICK j : j = k + 1
        OBVIOUS
      <4>2. j \in 1..l /\ j > 1 /\ j - 1 = k /\ j # 1
        BY <2>2, <3>4, <3>14, <4>1
      <4>3. Preceding(stream, j) = stream.list[k]
        BY <4>2 DEF Preceding
      <4>4. stream.packed[j].at = EndAt(k)
        BY <2>1, <2>2, <3>4, <3>14, <4>1, OwnPlaces
      <4>5. Stands(m, stream.packed[j].at)
        BY <3>6, <3>11, <3>12, <3>13, <4>4 DEF HasRead, Stands
      <4>6. m.offset = Preceding(stream, j).offset /\ m.addend = Preceding(stream, j).addend
            /\ (~stream.rela => m.addend = 0)
        BY <3>6, <3>13, <4>3 DEF HasRead
      <4>7. m.group = stream.packed[k].place /\ m.size = GroupOf(k).size
        <5>1. stream.packed[k].place \in 1..GroupOf(k).size /\ GroupOf(k).size \in Int
          <6>1. /\ Grouped(stream, k)
                /\ GroupOf(k) \in [size : 1..(Word - 1), flags : 0..(Word - 1),
                                   delta : Int, info : Int, addend : Int]
            BY <2>1, <2>2, <3>4, Relocations
          <6>2. stream.packed[k].place \in 1..GroupOf(k).size
            BY <6>1, Zenon DEF Grouped, GroupOf
          <6> QED
            BY <6>1, <6>2
        <5>2. n.group = stream.packed[k].place - 1 /\ n.size = GroupOf(k).size
          BY <3>6 DEF HasRead, InGroup
        <5> QED
          BY <3>12, <3>13, <5>1, <5>2
      <4>8. IF stream.packed[k].place = GroupOf(k).size THEN stream.packed[j].place = 1
            ELSE stream.packed[j].place = stream.packed[k].place + 1 /\ GroupOf(j) = GroupOf(k)
        <5>1. Grouped(stream, j)
          BY <2>1, <2>2, <4>2, Relocations
        <5> QED
          BY <4>2, <5>1, Zenon DEF Grouped, GroupOf
      <4>9. stream.packed[k].place \in Nat \ {0}
        <5>1. Grouped(stream, k)
          BY <2>1, <2>2, <3>4, Relocations
        <5>2. stream.packed[k].place \in 1..GroupOf(k).size
          BY <5>1, Zenon DEF Grouped, GroupOf
        <5> QED
          BY <5>2
      <4>10. (m.group = m.size) <=> (stream.packed[j].place = 1)
        BY <4>7, <4>8, <4>9
      <4>11. ASSUME stream.packed[j].place # 1 PROVE InGroup(m, j) /\ m.group = stream.packed[j].place - 1
        <5>1. GroupOf(j) = GroupOf(k) /\ stream.packed[j].place = stream.packed[k].place + 1
          BY <4>8, <4>11
        <5>2. InGroup(n, k)
          BY <3>6 DEF HasRead
        <5>3. InGroup(m, j)
          BY <3>13, <5>1, <5>2 DEF InGroup
        <5> QED
          BY <4>7, <4>9, <5>1, <5>3
      <4> QED
        BY <3>11, <3>13, <4>1, <4>5, <4>6, <4>10, <4>11, Zenon DEF Awaits
    <3>15. Awaits(it, k + 1)' <=> Awaits(m, k + 1)
      BY <2>2, <3>3, <3>10 DEF Awaits, Stands, InGroup, GroupOf
    <3>16. (Reading(Len(emitted)))'
      <4>1. DOMAIN m = Fields /\ m.ok /\ m.count = l /\ m.index = k
        BY <3>3, <3>6, <3>11, <3>12, <3>13
      <4>2. Len(emitted') = k /\ Len(stream'.list) = l /\ stream' = stream
        BY <2>1, <2>2, <3>9
      <4>3. k < l => Awaits(it', k + 1)
        BY <3>10, <3>14
      <4> QED
        BY <3>9, <3>10, <3>14, <3>15, <4>1, <4>2 DEF Reading
    <3> QED
      BY <2>1, <2>2, <3>1, <3>4, <3>9, <3>16 DEF PackedInv
  <2>4. CASE ~(it.index < it.count /\ n.ok)
    <3>1. ended' = TRUE /\ it' = it /\ emitted' = emitted
      BY <1>2, <2>1, <2>4 DEF NextRelocation
    <3>2. ~stream.cut => e = l
      <4>1. SUFFICES ASSUME ~stream.cut, e # l PROVE FALSE
        OBVIOUS
      <4>2. Reading(e)
        BY <2>1, <4>1 DEF PackedInv, Unread
      <4>3. PICK k : k = e + 1
        OBVIOUS
      <4>4. e < l /\ k \in 1..l /\ it.index = e /\ it.count = l
        BY <2>1, <2>2, <4>1, <4>2, <4>3 DEF Reading
      <4>5. Awaits(it, k)
        BY <2>1, <4>2, <4>3, <4>4 DEF Reading
      <4>6. n.ok
        BY <2>1, <2>2, <4>1, <4>4, <4>5, AdvancedReads
      <4> QED
        BY <2>4, <4>4, <4>6
    <3>3. (Reading(Len(emitted)) \/ Unread(Len(emitted)))'
      <4>1. Awaits(it, Len(emitted) + 1)' <=> Awaits(it, Len(emitted) + 1)
        BY <2>2, <3>1 DEF Awaits, Stands, InGroup, GroupOf
      <4> QED
        BY <2>2, <3>1, <4>1 DEF PackedInv, Reading, Unread
    <3> QED
      BY <2>1, <2>2, <3>1, <3>2, <3>3 DEF PackedInv
  <2> QED
    BY <2>3, <2>4
<1> QED
  BY <1>1, <1>2 DEF PackedNext

\* The iterator of the packed relocations returns what was packed, in order, whatever
\* its groups share and however its offsets and addends grow, shrink and wrap, and all of
\* it unless the table is cut short (xh_elf.c:106-255).
THEOREM RelocationsUnpacked == PackedSpec => []PackedExact
<1>1. PackedInv => PackedExact
  BY DEF PackedInv, PackedExact
<1> QED
  BY PackedStart, PackedStep, <1>1, PTL DEF PackedSpec
=============================================================================
