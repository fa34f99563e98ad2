------------------------------ MODULE ElfHook1 ------------------------------
(* elfhook1: elfHook(soname, symbol, replace_func, old_func), 32-bit ARM.    *)
(* The library is found by a substring of a maps line, and everything in it  *)
(* by its base address, which is the load bias only when it is linked at 0.  *)
EXTENDS ElfProcess

\* findLibBase: the first line in which the name occurs, 0 when there is none.
LibLine == SelectInSeq(maps, LAMBDA l : l.name \in process.matching)

TableTags == {"SYMTAB", "STRTAB", "HASH", "JMPREL", "REL"}

\* getElfInfoBySegmentView: all of the dynamic segment is read, at base + address,
\* which is elsewhere when the library is not linked at 0.
Reads1(l, tag) == Has(l.dyn, {tag}) /\ l.base + Val(l.dyn, {tag}) \in DOMAIN l.at
Readable1(l) ==
  /\ l.base + l.phdrs[SegmentOf(l, "DYNAMIC")].vaddr \in DOMAIN l.at
  /\ \A tag \in {"SYMTAB", "STRTAB", "HASH"} : Reads1(l, tag)

\* findSymByName
FindSymByName(l, name) ==
  ByElfHash(l.at[l.base + Val(l.dyn, {"SYMTAB"})], l.at[l.base + Val(l.dyn, {"HASH"})], name)

\* Mutant of Slots1: the loop over .rel.dyn stops at its first match, too.
Slots1First(l, i) ==
  LET Table(tag, size, types) ==
        IF Reads1(l, tag) THEN FirstOf(Against(l.at[l.base + Val(l.dyn, {tag})], Size(l.dyn, {size}), i, types)) ELSE <<>>
  IN Offsets(Table("JMPREL", "PLTRELSZ", PltTypes) \o Table("REL", "RELSZ", DynTypes), l.base)

\* The slots elfHook replaces, in the order of its loops: one of .rel.plt and all of .rel.dyn.
Slots1(l, i) ==
  LET Table(tag, size, types) ==
        IF Reads1(l, tag) THEN Against(l.at[l.base + Val(l.dyn, {tag})], Size(l.dyn, {size}), i, types) ELSE <<>>
  IN Offsets(FirstOf(Table("JMPREL", "PLTRELSZ", PltTypes)) \o Table("REL", "RELSZ", DynTypes), l.base)

Idle1 == process.hook = 1 /\ call.at \in {"idle", "returned"} /\ calls < MaxCalls
Leave1(c) == call' = c /\ calls' = calls + 1 /\ UNCHANGED <<process, maps, mem, prot, old>>

\* The process exits when the library or its dynamic segment is not found.
Exit1 ==
  /\ Idle1
  /\ LibLine # 0 => SegmentOf(Lib(maps[LibLine].lib), "DYNAMIC") = 0
  /\ Leave1([Idle EXCEPT !.at = "exit"]) /\ UNCHANGED todo

\* What no entry has set in the info is read as it was on the stack.
Crash1 ==
  /\ Idle1 /\ LibLine # 0
  /\ LET l == Lib(maps[LibLine].lib)
     IN SegmentOf(l, "DYNAMIC") # 0 /\ \E tag \in TableTags : ~Reads1(l, tag)
  /\ Leave1([Idle EXCEPT !.at = "crash"]) /\ UNCHANGED todo

\* elfHook up to its loops.
ElfHook1 ==
  /\ Idle1 /\ LibLine # 0
  /\ LET l == Lib(maps[LibLine].lib)
     IN /\ SegmentOf(l, "DYNAMIC") # 0 /\ Readable1(l)
        /\ \E sym \in ToSet(process.symbols) :
             LET i == FindSymByName(l, sym)
             IN /\ Leave1([at |-> IF i = NotFound THEN "returned" ELSE "replace", sym |-> sym,
                           lib |-> maps[LibLine].lib, ok |-> i # NotFound])
                /\ todo' = IF i = NotFound THEN <<>> ELSE Slots1(l, i)

\* replaceFunc: a slot that holds the replacement is left alone.
Already1 ==
  /\ process.hook = 1 /\ call.at = "replace" /\ todo # <<>> /\ mem[Head(todo)] = New(call.sym)
  /\ todo' = Tail(todo)
  /\ UNCHANGED <<process, maps, mem, prot, old, call, calls>>

\* replaceFunc: the first word it meets is the one it saves.
Save1 ==
  /\ process.hook = 1 /\ call.at = "replace" /\ todo # <<>> /\ mem[Head(todo)] # New(call.sym)
  /\ old' = [old EXCEPT ![call.sym] = IF @ = NULL THEN mem[Head(todo)] ELSE @]
  /\ call' = [call EXCEPT !.at = "write"]
  /\ UNCHANGED <<process, maps, mem, prot, todo, calls>>

\* replaceFunc: the page becomes readable, writable and executable.
Write1 ==
  /\ process.hook = 1 /\ call.at = "write"
  /\ Protect(Head(todo), {"r", "w", "x"}) /\ Write(Head(todo))
  /\ todo' = Tail(todo) /\ call' = [call EXCEPT !.at = "replace"]
  /\ UNCHANGED <<process, maps, old, calls>>

\* mprotect refuses; elfHook leaves its loops.
Refused1 == process.hook = 1 /\ call.at = "write" /\ Finish("returned", FALSE)

Return1 == process.hook = 1 /\ call.at = "replace" /\ todo = <<>> /\ Finish("returned", TRUE)

Next1 == Exit1 \/ Crash1 \/ ElfHook1 \/ Already1 \/ Save1 \/ Write1 \/ Refused1 \/ Return1

\* A call that met no refusal has replaced the symbol in every word it should:
\* one slot of .rel.plt and all the ABS32 and GLOB_DAT words (elfhook.cpp:83-107).
Complete1 ==
  process.hook = 1 /\ call.at = "returned" /\ call.ok =>
    LET mine == {s \in Lib(call.lib).slots : s.name = call.sym}
    IN /\ \A s \in mine : s.type \in DynTypes => mem[s.addr] = New(call.sym)
       /\ (\E s \in mine : s.type \in PltTypes) =>
            \E s \in mine : s.type \in PltTypes /\ mem[s.addr] = New(call.sym)
=============================================================================
