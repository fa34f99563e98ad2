------------------------------ MODULE XhLookup ------------------------------
(* The symbol lookups of xHook/xh_elf.c, in the tables that XhImage has      *)
(* found.                                                                    *)
EXTENDS XhImage, HashTables

CONSTANT Names                 \* the names that are looked up

\* The entries before DT_NULL with a tag, and the table one of them points to once
\* the library is loaded.
Said(l, tag) ==
  {i \in 1..Len(l.dyn) : l.dyn[i].tag = tag /\ \A j \in 1..i : l.dyn[j].tag # "NULL"}
LoadBias(l) == l.base - l.phdrs[FirstSegmentAt(l, "LOAD", 0)].vaddr
TableOf(l, i) == l.at[LoadBias(l) + l.dyn[i].val]

\* A hash value is a number.  What a linker writes: one symbol table, whose index 0
\* has no name, and at most one hash table of either kind over it.
ASSUME HashAssumption ==
  /\ \A name \in Names : GnuHash[name] \in Nat
  /\ \A l \in Libraries :
    /\ \A tag \in {"SYMTAB", "HASH", "GNU_HASH"} : \A i, j \in Said(l, tag) : i = j
    /\ HeaderOk(l) /\ FirstSegmentAt(l, "LOAD", 0) # 0 /\ LoadBias(l) >= 0 =>
         \A s \in Said(l, "SYMTAB") :
           /\ Len(TableOf(l, s)) \in Nat /\ TableOf(l, s)[1] \notin Names
           /\ \A i \in Said(l, "HASH") : InElfHash(TableOf(l, s), TableOf(l, i), Names)
           /\ \A i \in Said(l, "GNU_HASH") :
                InGnuHash(TableOf(l, s), TableOf(l, i), Names) \/ EmptyGnuHash(TableOf(l, i))

\* symtab[i], whose name is in strtab.
Symbol(i) == At(self.symtab)[i + 1]

\* The arrays the lookups read, each in the table its pointer is into.
HashTable == [bucket |-> At(self.bucket).bucket, chain |-> At(self.chain).chain]
GnuTableRead == [bucket |-> At(self.bucket).bucket, chain |-> At(self.chain).chain,
                 symoffset |-> self.symoffset, bloom |-> At(self.bloom).bloom, shift |-> self.shift]

ElfLookup(name) == ByElfHash(At(self.symtab), HashTable, name)

Mask(h, shift) == {h % Bits, (h \div 2^shift) % Bits}

GnuLookupDef(name) ==
  LET t == GnuTableRead
      h == GnuHash[name]
      i == t.bucket[(h % Len(t.bucket)) + 1]
  IN IF \/ ~(Mask(h, t.shift) \subseteq t.bloom[((h \div Bits) % Len(t.bloom)) + 1])
        \/ i < t.symoffset
     THEN NotFound ELSE OnGnuChain(At(self.symtab), t, name, i)

\* Mutant of GnuLookupUndef: the last imported symbol is not looked at.
GnuLookupUndefShort(name) ==
  LET found == {i \in 0..(self.symoffset - 2) : Symbol(i) = name}
  IN IF found = {} THEN NotFound ELSE CHOOSE i \in found : \A j \in found : i <= j

\* The symbols the library imports are not hashed: they come first.
GnuLookupUndef(name) ==
  LET found == {i \in 0..(self.symoffset - 1) : Symbol(i) = name}
  IN IF found = {} THEN NotFound ELSE CHOOSE i \in found : \A j \in found : i <= j

FindSymidx(name) ==
  IF ~self.gnu THEN ElfLookup(name)
  ELSE IF GnuLookupDef(name) # NotFound THEN GnuLookupDef(name) ELSE GnuLookupUndef(name)
-----------------------------------------------------------------------------
\* The DT_HASH entry comes after DT_GNU_HASH.
Clobbered == \E i \in Tags({"HASH"}), j \in Tags({"GNU_HASH"}) : j < i

\* The symbols a DT_GNU_HASH table leaves to neither search: GNU ld's empty table
\* has no chain, and the imports begin at its symoffset.
Unreached == IF self.gnu THEN (self.symoffset + Len(At(self.chain).chain))..(Len(At(self.symtab)) - 1) ELSE {}

\* A library xh_elf_init accepts answers every lookup right: a name of the
\* symbol table, imported or defined, is found, another one is not, with the
\* hash table of either kind and with colliding hashes (xh_elf.c:355-445), in
\* libraries with nothing to hash as well.  It asks nothing where DT_HASH comes
\* after DT_GNU_HASH, whose buckets it overwrites (858-880); and of the imports an
\* empty table of GNU ld leaves to neither search (419), that none is answered.
SymbolsFound ==
  Ready /\ ~Clobbered =>
    \A name \in Names :
      LET i == FindSymidx(name)
      IN IF \E j \in (1..(Len(At(self.symtab)) - 1)) \ Unreached : Symbol(j) = name
         THEN i \in 1..(Len(At(self.symtab)) - 1) /\ Symbol(i) = name
         ELSE i = NotFound
=============================================================================
