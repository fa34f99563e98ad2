------------------------------ MODULE ElfHooks ------------------------------
(* A process that is hooked by elfhook1, elfhook2 or elfhook3 while it loads *)
(* libraries, and what its libraries are like: a linker has laid them out.   *)
EXTENDS ElfHook1, ElfHook2, ElfHook3

\* Seen with the load bias and the dynamic entries ds, the table at one of the tags
\* and the symbol table.
TableAt(l, bias, ds, tags) == l.at[bias + Val(ds, tags)]
SymsAt(l, bias, ds) == TableAt(l, bias, ds, {"SYMTAB"})

\* A relocation table is as long as its size says, and each relocation of a type
\* that is hooked is a slot of the symbol it is against.
Linked(l, bias, ds, tags, sizes) ==
  LET table == TableAt(l, bias, ds, tags)
      syms == SymsAt(l, bias, ds)
  IN Has(ds, tags) =>
       /\ Len(table) \in Nat /\ Size(ds, sizes) \in 0..Len(table)
       /\ \A k \in 1..Len(table) : table[k].type \in PltTypes \cup DynTypes =>
            \E s \in l.slots : /\ s.addr = bias + table[k].offset /\ s.type = table[k].type
                              /\ s.name = syms[table[k].sym + 1]

\* Each slot of one of the types is the work of a relocation of the table.
Relocated(l, bias, ds, tags, sizes, types) ==
  LET table == TableAt(l, bias, ds, tags)
      syms == SymsAt(l, bias, ds)
  IN \A s \in l.slots : s.type \in types =>
       /\ Has(ds, tags)
       /\ \E k \in 1..Size(ds, sizes) :
            /\ s.addr = bias + table[k].offset /\ s.type = table[k].type
            /\ table[k].sym \in 1..(Len(syms) - 1) /\ s.name = syms[table[k].sym + 1]

\* A symbol has one slot in the procedure linkage table.
OnePlt(l) == \A s, t \in {u \in l.slots : u.type \in PltTypes} : s.name = t.name => s = t

\* The hash tables have a length.
Hashed(l, bias, ds) ==
  /\ Has(ds, {"HASH"}) => Len(TableAt(l, bias, ds, {"HASH"}).chain) \in Nat
  /\ Has(ds, {"GNU_HASH"}) =>
       LET t == TableAt(l, bias, ds, {"GNU_HASH"})
       IN t.symoffset \in Nat /\ Len(t.chain) \in Nat

\* The symbol table has a length, and each of the names at most once.
Named(l, bias, ds, names) ==
  LET syms == SymsAt(l, bias, ds)
  IN /\ Len(syms) \in Nat
     /\ \A i, j \in 1..Len(syms) : syms[i] \in names /\ syms[i] = syms[j] => i = j

\* Each of the hooks sees a library its own way.  What elfhook1 looks at lies
\* where it looks only when the library is linked at 0, and then all of it does.
Linked1(l, names) ==
  Readable1(l) =>
    /\ Hashed(l, l.base, l.dyn) /\ Named(l, l.base, l.dyn, names)
    /\ InElfHash(SymsAt(l, l.base, l.dyn), TableAt(l, l.base, l.dyn, {"HASH"}), names)
    /\ \A tag \in TableTags : Has(l.dyn, {tag}) => Reads1(l, tag)
    /\ Linked(l, l.base, l.dyn, {"JMPREL"}, {"PLTRELSZ"})
    /\ Linked(l, l.base, l.dyn, {"REL"}, {"RELSZ"})
    /\ Relocated(l, l.base, l.dyn, {"JMPREL"}, {"PLTRELSZ"}, PltTypes)
    /\ Relocated(l, l.base, l.dyn, {"REL"}, {"RELSZ"}, DynTypes)
Linked2(l) ==
  /\ Hashed(l, SegmentBase(l), DynOf2(l))
  /\ Linked(l, SegmentBase(l), DynOf2(l), {"JMPREL"}, {"PLTRELSZ"})
  /\ \A kind \in {"REL", "RELA"} : Linked(l, SegmentBase(l), DynOf2(l), {kind}, {kind \o "SZ"})

\* What the dynamic linker has loaded has a view, and its symbols are in the first
\* of its hash tables that elfhook3 knows.
Linked3(l, names) ==
  LET bias == BiasAddr(l)
      ds == DynOf3(l)
  IN /\ Hashed(l, bias, ds)
     /\ Linked(l, bias, ds, {"JMPREL"}, {"PLTRELSZ"})
     /\ Linked(l, bias, ds, {"REL", "ANDROID_REL"}, {"RELSZ", "ANDROID_RELSZ"})
     /\ IsElfModule(l) =>
          /\ l.type = "DYN" /\ SegmentOf(l, "DYNAMIC") # 0
          /\ Has(ds, {"STRTAB"}) /\ Has(ds, {"SYMTAB"}) /\ Named(l, bias, ds, names)
          /\ Has(ds, {"GNU_HASH"}) =>
               LET t == TableAt(l, bias, ds, {"GNU_HASH"})
               IN PowerOf2(Len(t.bloom)) /\ InGnuHash(SymsAt(l, bias, ds), t, names)
          /\ ~Has(ds, {"GNU_HASH"}) =>
               Has(ds, {"HASH"}) /\ InElfHash(SymsAt(l, bias, ds), TableAt(l, bias, ds, {"HASH"}), names)
          /\ OnePlt(l) /\ Relocated(l, bias, ds, {"JMPREL"}, {"PLTRELSZ"}, PltTypes)
          /\ Has(ds, {"REL"}) =>
               Relocated(l, bias, ds, {"REL", "ANDROID_REL"}, {"RELSZ", "ANDROID_RELSZ"}, DynTypes)

AllLines(p) == p.lines \o p.later

ASSUME ProcessesAssumption ==
  \A p \in Processes :
    /\ p.hook \in {1, 2, 3}
    /\ p.lines \in Seq(ToSet(p.lines)) /\ p.later \in Seq(ToSet(p.later))
    /\ \A k \in 1..Len(AllLines(p)) : AllLines(p)[k].lib \in DOMAIN p.libs \cup {0}
    \* The first line that elfhook1 or elfhook2 takes for the library's is a library's.
    /\ p.hook # 3 =>
         \A k \in 1..Len(AllLines(p)) :
           AllLines(p)[k].name \in p.matching /\ AllLines(p)[k].lib = 0 =>
             \E j \in 1..(k - 1) : AllLines(p)[j].name \in p.matching
    /\ \A i \in DOMAIN p.libs :
         /\ p.hook = 1 => Linked1(p.libs[i], ToSet(p.symbols))
         /\ p.hook = 2 => Linked2(p.libs[i])
         /\ p.hook = 3 => Linked3(p.libs[i], ToSet(p.symbols))
    /\ 0 \notin DOMAIN p.libs
    \* A slot is of a type that is hooked, and no two slots share an address.
    /\ \A i \in DOMAIN p.libs : \A s \in p.libs[i].slots : s.type \in PltTypes \cup DynTypes
    /\ \A i, j \in DOMAIN p.libs : \A s \in p.libs[i].slots, t \in p.libs[j].slots :
         s.addr = t.addr => s = t
    /\ p.symbols \in Seq(STRING) /\ p.symbols # <<>>
    \* No page is both writable and executable from the start.
    /\ ~({"w", "x"} \subseteq p.prot)

vars == <<processVars, reader, hooker>>

Init == ProcessInit /\ ReaderInit /\ HookerInit

Next == \/ Next1 /\ UNCHANGED <<reader, hooker>>
        \/ Next2 /\ UNCHANGED hooker
        \/ Next3 /\ UNCHANGED reader
        \/ LoadLibrary /\ UNCHANGED <<reader, hooker>>

Spec == Init /\ [][Next]_vars

\* What a call that reports no failure has done.
HookedWhenDone == Complete1 /\ Complete2 /\ Complete3
=============================================================================
