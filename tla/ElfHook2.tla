------------------------------ MODULE ElfHook2 ------------------------------
(* elfhook2: ElfReader on one library, and the constructor of the injected   *)
(* library that makes one (hooker.cpp).  A failed parse ends it; hook may be *)
(* called again on the reader.                                               *)
EXTENDS ElfProcess

VARIABLE reader                \* the library parsed and its bias; lib = 0 before

ReaderInit == reader = [lib |-> 0, bias |-> 0]

\* get_module_base: the first line whose name begins with the module's.
ModuleLine == SelectInSeq(maps, LAMBDA l : l.name \in process.matching)

\* verifyElfHeader; on 32 bits the wrong class ends it with the value of success.
VerifyElfHeader(l) ==
  /\ l.magic = "ELF"
  /\ \/ process.bits = 32 /\ l.class # "ELF32"
     \/ /\ l.class = (IF process.bits = 64 THEN "ELF64" ELSE "ELF32")
        /\ l.order = "LSB" /\ l.type = "DYN" /\ l.version = "current"
        /\ l.machine = (IF process.bits = 64 THEN "AARCH64" ELSE "ARM")

\* getSegmentBaseAddress: 0 without a loadable segment.
SegmentBase(l) ==
  LET k == SegmentOf(l, "LOAD") IN IF k = 0 THEN 0 ELSE l.base + l.phdrs[k].offset - l.phdrs[k].vaddr

\* The entries before DT_NULL.
DynOf2(l) == SubSeq(l.dyn, 1, SelectInSeq(l.dyn, LAMBDA e : e.tag = "NULL") - 1)

OwnKind == IF process.bits = 64 THEN "RELA" ELSE "REL"
OtherTags == IF process.bits = 64 THEN {"REL", "RELSZ"} ELSE {"RELA", "RELASZ"}

\* parseDynamicSegment: relocations of the other kind are refused.
ParseDynamicSegment(l, bias) ==
  LET ds == DynOf2(l) IN
  /\ SegmentOf(l, "DYNAMIC") # 0
  /\ \A k \in 1..Len(ds) :
       /\ ds[k].tag \notin OtherTags
       /\ ds[k].tag = "PLTREL" => ds[k].val = OwnKind
       /\ ds[k].tag = "GNU_HASH" => PowerOf2(Len(l.at[bias + ds[k].val].bloom))
  /\ Has(ds, {"STRTAB"}) /\ Has(ds, {"SYMTAB"})

At2(tag) == Lib(reader.lib).at[reader.bias + Val(DynOf2(Lib(reader.lib)), {tag})]
Has2(tag) == Has(DynOf2(Lib(reader.lib)), {tag})
Size2(tag) == Size(DynOf2(Lib(reader.lib)), {tag})

\* The constructor: the reader is made when the module is there and parses.
HookerMain ==
  /\ process.hook = 2 /\ call.at = "idle" /\ reader.lib = 0
  /\ LET k == ModuleLine
         bias == SegmentBase(Lib(maps[k].lib))
     IN IF k # 0 /\ VerifyElfHeader(Lib(maps[k].lib)) /\ bias # 0
           /\ ParseDynamicSegment(Lib(maps[k].lib), bias)
        THEN reader' = [lib |-> maps[k].lib, bias |-> bias] /\ UNCHANGED call
        ELSE call' = [call EXCEPT !.at = "returned", !.ok = FALSE] /\ UNCHANGED reader
  /\ UNCHANGED <<process, maps, mem, prot, old, todo, calls>>

\* elfLookup
ElfLookup2(name) == IF ~Has2("HASH") THEN NotFound ELSE ByElfHash(At2("SYMTAB"), At2("HASH"), name)

\* gnuLookup: the bloom filter, then the bucket.
GnuLookup2(name) ==
  LET t == At2("GNU_HASH")
      h == GnuHash[name]
      first == t.bucket[(h % Len(t.bucket)) + 1]
  IN IF \/ ~({h % Bits, (h \div 2^t.shift) % Bits} \subseteq t.bloom[((h \div Bits) % Len(t.bloom)) + 1])
        \/ first = 0
     THEN NotFound ELSE OnGnuChain(At2("SYMTAB"), t, name, first)

\* findSymbolByName: the symbols before symndx are not hashed, the first one counts.
FindSymbolByName2(name) ==
  IF ~Has2("GNU_HASH") THEN ElfLookup2(name)
  ELSE IF GnuLookup2(name) # NotFound THEN GnuLookup2(name)
  ELSE LET undef == {i \in 0..(At2("GNU_HASH").symoffset - 1) : At2("SYMTAB")[i + 1] = name}
       IN IF undef = {} THEN NotFound ELSE CHOOSE i \in undef : \A j \in undef : i <= j

\* The slots hook tries until one is replaced: the first match of the plt table
\* and, since rel is never advanced, the first entry of the other when it matches.
Slots2(i) ==
  LET plt == IF Has2("JMPREL") THEN Against(At2("JMPREL"), Size2("PLTRELSZ"), i, PltTypes) ELSE <<>>
      dyn == IF Has2(OwnKind) /\ Size2(OwnKind \o "SZ") > 0
             THEN Against(At2(OwnKind), 1, i, DynTypes) ELSE <<>>
  IN Offsets(FirstOf(plt) \o dyn, reader.bias)

Hook2 ==
  /\ process.hook = 2 /\ reader.lib # 0 /\ call.at \in {"idle", "returned"} /\ calls < MaxCalls
  /\ calls' = calls + 1
  /\ \E sym \in ToSet(process.symbols) :
       LET i == FindSymbolByName2(sym)
       IN /\ todo' = IF i = NotFound THEN <<>> ELSE Slots2(i)
          /\ call' = [at |-> "try", sym |-> sym, lib |-> reader.lib, ok |-> FALSE]
  /\ UNCHANGED <<process, maps, mem, prot, old, reader>>

\* findSegmentByAddress: the first segment of any type around the address, its end page included.
SegmentAround(a) ==
  LET Start(p) == reader.bias + p.vaddr
      Up(x) == ((x + PageSize - 1) \div PageSize) * PageSize
  IN SelectInSeq(Lib(reader.lib).phdrs,
       LAMBDA p : PageOf(Start(p)) * PageSize <= a /\ a <= Up(Start(p) + p.memsz))

\* Mutant of ProtOf2: PROT_EXEC is kept.
ProtOf2Exec(a) == Lib(reader.lib).phdrs[SegmentAround(a)].flags \cup {"w"}

\* hookInternally: the flags of the segment, without PROT_EXEC and with PROT_WRITE.
ProtOf2(a) == (Lib(reader.lib).phdrs[SegmentAround(a)].flags \ {"x"}) \cup {"w"}

Already2 ==
  /\ process.hook = 2 /\ call.at = "try" /\ todo # <<>> /\ mem[Head(todo)] = New(call.sym)
  /\ Finish("returned", TRUE) /\ UNCHANGED reader

\* hookInternally fails, for want of a segment or because mprotect refuses: hook goes on.
Failed2 ==
  /\ process.hook = 2 /\ call.at = "try" /\ todo # <<>> /\ mem[Head(todo)] # New(call.sym)
  /\ todo' = Tail(todo)
  /\ UNCHANGED <<process, maps, mem, prot, old, call, calls, reader>>

\* hookInternally: the page is made writable and the word saved ...
Save2 ==
  /\ process.hook = 2 /\ call.at = "try" /\ todo # <<>> /\ mem[Head(todo)] # New(call.sym)
  /\ SegmentAround(Head(todo)) # 0
  /\ Protect(Head(todo), ProtOf2(Head(todo)))
  /\ old' = [old EXCEPT ![call.sym] = mem[Head(todo)]]
  /\ call' = [call EXCEPT !.at = "write"]
  /\ UNCHANGED <<process, maps, mem, todo, calls, reader>>

\* ... and replaced, which ends hook with success.
Write2 ==
  /\ process.hook = 2 /\ call.at = "write"
  /\ Write(Head(todo))
  /\ todo' = <<>> /\ call' = [call EXCEPT !.at = "returned", !.ok = TRUE]
  /\ UNCHANGED <<process, maps, prot, old, calls, reader>>

Return2 ==
  /\ process.hook = 2 /\ call.at = "try" /\ todo = <<>>
  /\ Finish("returned", FALSE) /\ UNCHANGED reader

Next2 == HookerMain \/ Hook2 \/ Already2 \/ Failed2 \/ Save2 \/ Write2 \/ Return2

\* hook answers 0 only when a slot of the symbol in the library is replaced.
Complete2 ==
  process.hook = 2 /\ call.at = "returned" /\ call.ok =>
    \E s \in Lib(call.lib).slots : s.name = call.sym /\ mem[s.addr] = New(call.sym)
=============================================================================
