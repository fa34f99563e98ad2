------------------------------ MODULE ElfHook3 ------------------------------
(* elfhook3: elf_hooker reads the libraries from the maps file and hooks     *)
(* some symbols in all of them; elf_module is one library.  64-bit builds.   *)
EXTENDS ElfProcess

VARIABLES modules,             \* m_modules: by name, the library, m_bias_addr, m_is_loaded
          walk                 \* __set_hook: symbols to hook, names hook_all_modules has left

hooker == <<modules, walk>>
None == [n \in {} |-> 0]
HookerInit == modules = None /\ walk = [syms |-> <<>>, names |-> {}]

IsElfModule(l) ==
  /\ l.magic = "ELF" /\ l.class = "ELF64" /\ l.order = "LSB" /\ l.version = "current"
  /\ l.machine = "AARCH64"

\* phrase_proc_maps: a readable, private line of a file that begins with an ELF header.
Eligible(line) ==
  /\ line.readable /\ line.private /\ line.device /\ line.name # ""
  /\ line.lib # 0 /\ IsElfModule(Lib(line.lib))

\* The first such line of a name makes its module, whatever was there before.
PhraseProcMaps ==
  LET names == {maps[k].name : k \in {j \in 1..Len(maps) : Eligible(maps[j])}}
      LineOf(n) == SelectInSeq(maps, LAMBDA l : Eligible(l) /\ l.name = n)
  IN [n \in names |-> [lib |-> maps[LineOf(n)].lib, bias |-> 0, loaded |-> FALSE]]

\* __set_hook: the modules are made anew, also when the maps file cannot be opened.
SetHook3 ==
  /\ process.hook = 3 /\ call.at \in {"idle", "returned"} /\ calls < MaxCalls
  /\ modules' \in {PhraseProcMaps, None}
  /\ walk' = [syms |-> process.symbols, names |-> DOMAIN modules']
  /\ call' = [Idle EXCEPT !.at = "walk"] /\ calls' = calls + 1
  /\ UNCHANGED <<process, maps, mem, prot, old, todo>>

\* Mutant of Wanted: the callback is not asked.
WantedAll(name) == name \in walk.names

\* hook_all_modules: the prehook callback decides, when one is set.
Wanted(name) == name \in walk.names /\ (process.filter => name \in process.matching)

\* caculate_bias_addr
BiasAddr(l) ==
  LET k == SegmentOf(l, "LOAD") IN IF k = 0 THEN 0 ELSE l.base + l.phdrs[k].offset - l.phdrs[k].vaddr

\* get_segment_view reads m_dyn_size entries: DT_NULL does not stop it, and the size
\* is divided by that of a 32-bit entry, so that it reads on behind the segment.
DynOf3(l) == l.dyn \o l.after

At3(m, tags) == Lib(m.lib).at[m.bias + Val(DynOf3(Lib(m.lib)), tags)]
Has3(m, tags) == Has(DynOf3(Lib(m.lib)), tags)
Size3(m, tags) == Size(DynOf3(Lib(m.lib)), tags)

\* get_segment_view succeeds: an executable or shared object with a dynamic segment
\* and, if it has a GNU hash table, with a bloom filter the mask works for.
GetSegmentView(m) ==
  /\ Lib(m.lib).type \in {"EXEC", "DYN"} /\ SegmentOf(Lib(m.lib), "DYNAMIC") # 0
  /\ Has3(m, {"GNU_HASH"}) => PowerOf2(Len(At3(m, {"GNU_HASH"}).bloom))

ElfLookup3(m, name) ==
  IF ~Has3(m, {"HASH"}) THEN NotFound ELSE ByElfHash(At3(m, {"SYMTAB"}), At3(m, {"HASH"}), name)

GnuLookup3(m, name) ==
  LET t == At3(m, {"GNU_HASH"})
      h == GnuHash[name]
      first == t.bucket[(h % Len(t.bucket)) + 1]
      word == t.bloom[((h \div Bits) % Len(t.bloom)) + 1]
  IN IF ~(h % Bits \in word /\ (h \div 2^t.shift) % Bits \in word) \/ first = 0
     THEN NotFound ELSE OnGnuChain(At3(m, {"SYMTAB"}), t, name, first)

\* find_symbol_by_name: before symndx the last symbol of the name counts.
FindSymbolByName3(m, name) ==
  IF ~Has3(m, {"STRTAB"}) \/ ~Has3(m, {"SYMTAB"}) THEN NotFound
  ELSE IF ~Has3(m, {"GNU_HASH"}) THEN ElfLookup3(m, name)
  ELSE IF GnuLookup3(m, name) # NotFound THEN GnuLookup3(m, name)
  ELSE LET undef == {i \in 0..(At3(m, {"GNU_HASH"}).symoffset - 1) : At3(m, {"SYMTAB"})[i + 1] = name}
       IN IF undef = {} THEN NotFound ELSE CHOOSE i \in undef : \A j \in undef : j <= i

\* The slots hook replaces: DT_RELA is not known, only DT_REL and DT_ANDROID_REL are.
Slots3(m, i) ==
  LET Table(tags, size, types) ==
        IF Has3(m, tags) THEN Against(At3(m, tags), Size3(m, size), i, types) ELSE <<>>
  IN Offsets(FirstOf(Table({"JMPREL"}, {"PLTRELSZ"}, PltTypes))
               \o Table({"REL", "ANDROID_REL"}, {"RELSZ", "ANDROID_RELSZ"}, DynTypes), m.bias)

\* hook_all_modules passes a module over.
PassOver3 ==
  /\ process.hook = 3 /\ call.at = "walk" /\ \E n \in walk.names : ~Wanted(n)
  /\ walk' = [walk EXCEPT !.names = {n \in @ : Wanted(n)}]
  /\ UNCHANGED <<process, maps, mem, prot, old, todo, call, calls, modules>>

\* elf_module::hook up to its loops: the view is made by the first call that succeeds.
Hook3 ==
  /\ process.hook = 3 /\ call.at = "walk"
  /\ \E n \in walk.names :
       LET m == IF modules[n].loaded THEN modules[n]
                ELSE [modules[n] EXCEPT !.bias = BiasAddr(Lib(modules[n].lib))]
           viewed == m.loaded \/ GetSegmentView(m)
           sym == Head(walk.syms)
           i == IF viewed THEN FindSymbolByName3(m, sym) ELSE NotFound
       IN /\ Wanted(n)
          /\ walk' = [walk EXCEPT !.names = @ \ {n}]
          /\ modules' = [modules EXCEPT ![n] = [m EXCEPT !.loaded = viewed]]
          /\ todo' = IF i = NotFound THEN <<>> ELSE Slots3(m, i)
          /\ call' = [call EXCEPT !.at = "replace", !.sym = sym, !.lib = m.lib]
  /\ UNCHANGED <<process, maps, mem, prot, old, calls>>

\* get_mem_access: the flags of the last loadable segment whose pages hold the address.
MemAccess(a) ==
  LET bias == BiasAddr(Lib(call.lib))
      Up(x) == ((x + PageSize - 1) \div PageSize) * PageSize
  IN SelectLastInSeq(Lib(call.lib).phdrs,
       LAMBDA p : /\ p.type = "LOAD"
                  /\ PageOf(bias + p.vaddr) * PageSize <= a
                  /\ a < Up(bias + p.vaddr + p.memsz))

ProtOf3(a) == (Lib(call.lib).phdrs[MemAccess(a)].flags \cup {"w"}) \ {"x"}

\* replace_function: a slot that holds the replacement is left alone.
Already3 ==
  /\ process.hook = 3 /\ call.at = "replace" /\ todo # <<>> /\ mem[Head(todo)] = New(call.sym)
  /\ todo' = Tail(todo)
  /\ UNCHANGED <<process, maps, mem, prot, old, call, calls, hooker>>

\* Mutant of Save3: the word is not saved before it is written.
Save3Late ==
  /\ process.hook = 3 /\ call.at = "replace" /\ todo # <<>> /\ mem[Head(todo)] # New(call.sym)
  /\ call' = [call EXCEPT !.at = "write"]
  /\ UNCHANGED <<process, maps, mem, prot, old, todo, calls, hooker>>

\* replace_function: the first word it meets is the one it saves.
Save3 ==
  /\ process.hook = 3 /\ call.at = "replace" /\ todo # <<>> /\ mem[Head(todo)] # New(call.sym)
  /\ old' = [old EXCEPT ![call.sym] = IF @ = NULL THEN mem[Head(todo)] ELSE @]
  /\ call' = [call EXCEPT !.at = "write"]
  /\ UNCHANGED <<process, maps, mem, prot, todo, calls, hooker>>

Write3 ==
  /\ process.hook = 3 /\ call.at = "write" /\ MemAccess(Head(todo)) # 0
  /\ Protect(Head(todo), ProtOf3(Head(todo))) /\ Write(Head(todo))
  /\ todo' = Tail(todo) /\ call' = [call EXCEPT !.at = "replace"]
  /\ UNCHANGED <<process, maps, old, calls, hooker>>

\* No segment holds the word, or mprotect refuses: hook gives the module up.
Refused3 ==
  /\ process.hook = 3 /\ call.at = "write"
  /\ Finish("replace", FALSE) /\ UNCHANGED hooker

\* hook returns, and hook_all_modules goes on to the next module.
NextModule3 ==
  /\ process.hook = 3 /\ call.at = "replace" /\ todo = <<>>
  /\ call' = [call EXCEPT !.at = "walk"]
  /\ UNCHANGED <<process, maps, mem, prot, old, todo, calls, hooker>>

\* hook_all_modules returns; __set_hook calls it for the next symbol.
NextSymbol3 ==
  /\ process.hook = 3 /\ call.at = "walk" /\ walk.names = {}
  /\ walk' = [syms |-> Tail(walk.syms), names |-> DOMAIN modules]
  /\ call' = [call EXCEPT !.at = IF Tail(walk.syms) = <<>> THEN "returned" ELSE "walk"]
  /\ UNCHANGED <<process, maps, mem, prot, old, todo, calls, modules>>

Next3 == \/ SetHook3 \/ PassOver3 \/ Hook3 \/ Already3 \/ Save3
         \/ Write3 \/ Refused3 \/ NextModule3 \/ NextSymbol3

\* When all went well, every module the filter lets through has each symbol it
\* imports replaced in its plt table, and in .rel.dyn when it has one.
Complete3 ==
  process.hook = 3 /\ call.at = "returned" /\ call.ok =>
    \A n \in {x \in DOMAIN modules : process.filter => x \in process.matching} :
      \A s \in Lib(modules[n].lib).slots :
        s.name \in ToSet(process.symbols)
          /\ (s.type \in PltTypes \/ Has3(modules[n], {"REL"})) => mem[s.addr] = New(s.name)
=============================================================================
