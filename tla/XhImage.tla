------------------------------ MODULE XhImage ------------------------------
(* What xHook reads of a loaded library before it hooks it: the checks of   *)
(* the ELF header and xh_elf_init with its walk over the dynamic segment    *)
(* (xHook/xh_elf.c).                                                        *)
(*                                                                          *)
(* A library is a record: its header fields, its program headers, its       *)
(* dynamic entries [tag, val] in the order the linker wrote them, and at,   *)
(* what its memory holds at the addresses the entries point to.  A table is *)
(* a record for the structure it has there.                                 *)
EXTENDS Integers, Sequences, FiniteSets, SequencesExt

CONSTANTS Libraries,
          Native               \* what the build accepts: the class, order and machine

Pointers == {"STRTAB", "SYMTAB", "JMPREL", "REL", "RELA", "ANDROID_REL", "ANDROID_RELA",
             "HASH", "GNU_HASH"}
PackedSizes == {"ANDROID_RELSZ", "ANDROID_RELASZ"}

\* What a linker writes: addresses and sizes are numbers, and the kind of the
\* relocations is said once.
ASSUME LibraryAssumption ==
  \A l \in Libraries :
    /\ l.base \in Nat
    /\ \A i \in 1..Len(l.phdrs) : l.phdrs[i].vaddr \in Nat /\ l.phdrs[i].memsz \in Nat
    /\ Len(l.phdrs) \in Nat /\ Len(l.dyn) \in Nat
    /\ \A i \in 1..Len(l.dyn) : l.dyn[i].tag \in Pointers \cup PackedSizes => l.dyn[i].val \in Int
    /\ \A i, j \in 1..Len(l.dyn) : l.dyn[i].tag = "PLTREL" /\ l.dyn[j].tag = "PLTREL" => i = j

VARIABLES lib,                 \* the library
          self,                \* the xh_elf_t, as far as it has been filled in
          dynAt,               \* the next dynamic entry, 0 outside the walk
          initRet              \* what xh_elf_init returned: "none" before it does

imageVars == <<lib, self, dynAt, initRet>>

NULL == 0

Reset == [base |-> NULL, bias |-> NULL, dyn |-> <<>>, strtab |-> NULL, symtab |-> NULL,
          rela |-> FALSE, relplt |-> NULL, relpltSz |-> 0, reldyn |-> NULL, reldynSz |-> 0,
          android |-> NULL, androidSz |-> 0, bucket |-> NULL, chain |-> NULL,
          symoffset |-> 0, bloom |-> NULL, shift |-> 0, gnu |-> FALSE]

\* xh_elf_check_elfheader: every field is the one the build is for.
HeaderOk(l) ==
  /\ l.magic = "ELF" /\ l.version = "current" /\ l.type \in {"EXEC", "DYN"}
  /\ <<l.class, l.order, l.machine>> = Native

FirstSegment(l, type) == SelectInSeq(l.phdrs, LAMBDA p : p.type = type)       \* 0 when there is none
FirstSegmentAt(l, type, offset) == SelectInSeq(l.phdrs, LAMBDA p : p.type = type /\ p.offset = offset)

ImageInit(libs) == lib \in libs /\ self = Reset /\ dynAt = 0 /\ initRet = "none"

Finish(r) == initRet' = r /\ dynAt' = 0

\* Without a valid header the library gets no xh_elf_t.
Rejected ==
  /\ initRet = "none" /\ dynAt = 0 /\ ~HeaderOk(lib)
  /\ Finish("rejected")
  /\ UNCHANGED <<lib, self>>

\* The bias is what the loader added to the addresses of the file.
BeginInit ==
  /\ initRet = "none" /\ dynAt = 0 /\ HeaderOk(lib)
  /\ LET load0   == FirstSegmentAt(lib, "LOAD", 0)
         dynamic == FirstSegment(lib, "DYNAMIC")
         base    == lib.base
         opened  == [Reset EXCEPT !.base = base]
     IN IF \/ load0 = 0 \/ dynamic = 0
           \/ base < lib.phdrs[load0].vaddr
        THEN self' = opened /\ Finish("format")
        ELSE LET bias == base - lib.phdrs[load0].vaddr
                 size == lib.phdrs[dynamic].memsz
             IN /\ self' = [opened EXCEPT !.bias = bias,
                              !.dyn = SubSeq(lib.dyn, 1, IF size < Len(lib.dyn) THEN size ELSE Len(lib.dyn))]
                /\ dynAt' = 1 /\ UNCHANGED initRet
  /\ UNCHANGED lib

\* Where an address of the file is once the library is loaded.
Loaded(p) == self.bias + p

\* The table at an address.
At(p) == lib.at[p]

\* self after one dynamic entry.  DT_HASH and DT_GNU_HASH share bucket and chain,
\* of which self holds where the table is that they are in.
Entry(e) ==
  LET p == Loaded(e.val)
  IN CASE e.tag = "STRTAB" -> [self EXCEPT !.strtab = p]
       [] e.tag = "SYMTAB" -> [self EXCEPT !.symtab = p]
       [] e.tag = "PLTREL" -> [self EXCEPT !.rela = (e.val = "RELA")]
       [] e.tag = "JMPREL" -> [self EXCEPT !.relplt = p]
       [] e.tag = "PLTRELSZ" -> [self EXCEPT !.relpltSz = e.val]
       [] e.tag \in {"REL", "RELA"} -> [self EXCEPT !.reldyn = p]
       [] e.tag \in {"RELSZ", "RELASZ"} -> [self EXCEPT !.reldynSz = e.val]
       [] e.tag \in {"ANDROID_REL", "ANDROID_RELA"} -> [self EXCEPT !.android = p]
       [] e.tag \in PackedSizes -> [self EXCEPT !.androidSz = e.val]
       [] e.tag = "HASH" -> [self EXCEPT !.bucket = p, !.chain = p]
       [] e.tag = "GNU_HASH" -> [self EXCEPT !.bucket = p, !.chain = p, !.bloom = p,
                                   !.symoffset = At(p).symoffset, !.shift = At(p).shift, !.gnu = TRUE]
       [] OTHER -> self

\* Mutant of Walk: what lies behind DT_NULL is read as well.
WalkPastNull ==
  /\ dynAt \in 1..Len(self.dyn)
  /\ self' = Entry(self.dyn[dynAt]) /\ dynAt' = dynAt + 1
  /\ UNCHANGED <<lib, initRet>>

\* One pass of the loop; after DT_NULL the loop is over.
Walk ==
  /\ dynAt \in 1..Len(self.dyn)
  /\ LET e == self.dyn[dynAt]
     IN IF e.tag = "NULL" THEN dynAt' = Len(self.dyn) + 1 /\ UNCHANGED <<self, initRet>>
        ELSE IF e.tag \in Pointers /\ Loaded(e.val) < self.base
             THEN UNCHANGED self /\ Finish("format")
        ELSE self' = Entry(e) /\ dynAt' = dynAt + 1 /\ UNCHANGED initRet
  /\ UNCHANGED lib

\* xh_elf_check: no pointer the lookups need is missing.  A table may be empty.
Complete(s) ==
  /\ s.base # NULL /\ s.bias # NULL /\ s.strtab # NULL /\ s.symtab # NULL
  /\ s.bucket # NULL /\ s.chain # NULL /\ (s.gnu => s.bloom # NULL)

\* The packed relocations must begin with APS2, which is skipped.
CheckTables ==
  /\ dynAt = Len(self.dyn) + 1 /\ dynAt # 0 /\ initRet = "none"
  /\ LET packed  == self.android # NULL
         aps2    == packed => self.androidSz >= 4 /\ At(self.android).magic = "APS2"
         skipped == IF packed /\ aps2
                    THEN [self EXCEPT !.android = @ + 4, !.androidSz = @ - 4] ELSE self
     IN self' = skipped /\ Finish(IF aps2 /\ Complete(skipped) THEN "ok" ELSE "format")
  /\ UNCHANGED lib

ImageNext == Rejected \/ BeginInit \/ Walk \/ CheckTables
-----------------------------------------------------------------------------
Ready == initRet = "ok"

Tags(T) == {i \in 1..Len(self.dyn) : self.dyn[i].tag \in T
                                     /\ \A j \in 1..i : self.dyn[j].tag # "NULL"}

\* What xh_elf_init has filled in is what the entries before DT_NULL say, with
\* the load bias added and the APS2 mark passed over, whatever their order; no
\* address is below the base of the library (xh_elf.c:803-912).
TablesAsLinked ==
  Ready =>
    /\ \A f \in {<<{"JMPREL"}, self.relplt>>, <<{"REL", "RELA"}, self.reldyn>>,
                 <<{"STRTAB"}, self.strtab>>, <<{"SYMTAB"}, self.symtab>>} :
         IF Tags(f[1]) = {} THEN f[2] = NULL
         ELSE f[2] >= self.base /\ \E i \in Tags(f[1]) : f[2] = self.bias + self.dyn[i].val
    /\ self.rela <=> \E i \in Tags({"PLTREL"}) : self.dyn[i].val = "RELA"
    /\ self.android # NULL => At(self.android - 4).magic = "APS2" /\ self.androidSz >= 0
=============================================================================
