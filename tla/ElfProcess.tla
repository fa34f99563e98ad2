----------------------------- MODULE ElfProcess -----------------------------
(* The process in which the three older hooks of the library run            *)
(* (elfhook1, elfhook2 and elfhook3): the maps file, the loaded libraries,  *)
(* the words of their relocation slots, the protection of the pages, and    *)
(* the call of a hook function that is under way.  ElfHook1, ElfHook2 and   *)
(* ElfHook3 add what each of them does.                                     *)
(*                                                                          *)
(* A library is a record as in XhImage, with the segment flags, what lies   *)
(* behind its dynamic segment (after), and the slots the linker made, each  *)
(* with its address, the name of its symbol and its relocation type.        *)
EXTENDS HashTables

CONSTANTS Processes,           \* [hook, lines, later, libs, matching, filter, symbols, prot]
          PageSize,
          MaxCalls             \* bound: calls of the hook's entry function

VARIABLES process,
          maps,                \* the lines of /proc/self/maps
          mem,                 \* the function each slot points to
          prot,                \* the protection of each page with a slot
          old,                 \* old_func of each symbol
          todo,                \* the slots the call has still to replace, in order
          call,                \* [at, sym, lib, ok]: where the call is and how it is going
          calls

processVars == <<process, maps, mem, prot, old, todo, call, calls>>

Original(sym) == <<sym, "original">>    \* the functions a slot can point to
New(sym) == <<sym, "replacement">>
NULL == <<"", "null">>
PageOf(a) == a \div PageSize

Slots == UNION {process.libs[i].slots : i \in DOMAIN process.libs}
Idle == [at |-> "idle", sym |-> "", lib |-> 0, ok |-> TRUE]

ProcessInit ==
  /\ process \in Processes
  /\ maps = process.lines
  /\ mem = [a \in {s.addr : s \in Slots} |-> Original((CHOOSE s \in Slots : s.addr = a).name)]
  /\ prot = [p \in {PageOf(s.addr) : s \in Slots} |-> process.prot]
  /\ old = [s \in ToSet(process.symbols) |-> NULL]
  /\ todo = <<>> /\ call = Idle /\ calls = 0

\* dlopen: the linker maps one more library.
LoadLibrary ==
  /\ Len(maps) < Len(process.lines) + Len(process.later)
  /\ maps' = Append(maps, process.later[Len(maps) - Len(process.lines) + 1])
  /\ UNCHANGED <<process, mem, prot, old, todo, call, calls>>

Lib(i) == process.libs[i]

\* The first program header of a type, 0 when there is none.
SegmentOf(l, type) == SelectInSeq(l.phdrs, LAMBDA p : p.type = type)

\* An entry with one of the tags is among the dynamic entries ds; the last one counts.
Has(ds, tags) == \E i \in 1..Len(ds) : ds[i].tag \in tags
Val(ds, tags) == ds[SelectLastInSeq(ds, LAMBDA e : e.tag \in tags)].val
Size(ds, tags) == IF Has(ds, tags) THEN Val(ds, tags) ELSE 0

PowerOf2(n) == \E k \in 0..n : n = 2^k

\* The first n relocations of a table that are of a type in types, against symbol index i.
Against(relocs, n, i, types) ==
  LET found[k \in 0..n] ==
        IF k = 0 THEN <<>>
        ELSE IF relocs[k].sym = i /\ relocs[k].type \in types THEN Append(found[k - 1], relocs[k])
        ELSE found[k - 1]
  IN found[n]

Offsets(relocs, bias) == [k \in 1..Len(relocs) |-> bias + relocs[k].offset]
FirstOf(s) == IF s = <<>> THEN <<>> ELSE <<Head(s)>>

PltTypes == {"JUMP_SLOT"}
DynTypes == {"ABS", "GLOB_DAT"}

\* The call ends, before or after it has replaced anything.
Finish(at, ok) ==
  /\ todo' = <<>> /\ call' = [call EXCEPT !.at = at, !.ok = ok]
  /\ UNCHANGED <<process, maps, mem, prot, old, calls>>

\* The page of a slot gets the protection p, then the slot is written.
Protect(a, p) == prot' = [prot EXCEPT ![PageOf(a)] = p]
Write(a) == mem' = [mem EXCEPT ![a] = New(call.sym)]
-----------------------------------------------------------------------------
(* Properties of all three.                                                 *)

\* Nothing but slots of the symbol is ever overwritten, and only in libraries
\* the caller named or its filter lets through: the lookups, the load bias and
\* the relocation types select the right words (elfhook.cpp:76-106,
\* elf_reader.cpp:295-343, elf_module.cpp:466-529).
OnlyItsSlots ==
  \A a \in DOMAIN mem : \A s \in Slots :
    s.addr = a /\ mem[a] # Original(s.name) =>
      /\ mem[a] = New(s.name) /\ s.name \in ToSet(process.symbols)
      /\ \E i \in DOMAIN process.libs :
           /\ s \in Lib(i).slots
           /\ process.filter => \E k \in 1..Len(maps) :
                                  maps[k].lib = i /\ maps[k].name \in process.matching

\* Whoever calls through a replaced slot finds the original function in
\* old_func: it is saved before the write and never becomes a replacement
\* function, however often the hook is repeated (elfhook.cpp:41-50,
\* elf_reader.cpp:801-803, elf_module.cpp:584-606).
OriginalSaved ==
  /\ \A s \in Slots : mem[s.addr] = New(s.name) => old[s.name] = Original(s.name)
  /\ \A n \in DOMAIN old : old[n] \in {NULL, Original(n)}

\* elfhook2 and elfhook3 never leave a page writable and executable, whatever
\* segment they find the slot in ("make sure we're never simultaneously
\* writable / executable", elf_module.cpp:595; elf_reader.cpp:792-796).
NeverWritableExecutable ==
  process.hook # 1 => \A p \in DOMAIN prot : ~({"w", "x"} \subseteq prot[p])
=============================================================================
