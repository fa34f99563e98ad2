----------------------------- MODULE MCElfHooks -----------------------------
(* Small processes for elfhook1, elfhook2 and elfhook3: every process is     *)
(* hooked by one of them.  Pages have eight words; a library has its tables  *)
(* in a text segment and its slots in the two pages of the data segment that *)
(* follows, so that the first slot is where the text segment's pages end.    *)
EXTENDS ElfHooks, MCLinker

Seg(type, vaddr, memsz, flags) ==
  [type |-> type, offset |-> 0, vaddr |-> vaddr, memsz |-> memsz, flags |-> flags]
R(name, type) == [name |-> name, type |-> type]

\* The library at base, linked at vaddr, with the relocations plt and dyn of the kind.
HookLib(base, vaddr, bits, kind, hashes, plt, dyn) ==
  LET syms == Symbols(<<"a", "b">>, <<"c", "d">>, 2)
      Index(r) == IF r.type = "RELATIVE" THEN 0 ELSE SelectInSeq(syms, LAMBDA n : n = r.name) - 1
      Table(rs, at) == [k \in 1..Len(rs) |-> [offset |-> vaddr + at + k - 1, sym |-> Index(rs[k]), type |-> rs[k].type]]
      Made(rs, at) == {[addr |-> base + at + k - 1, name |-> rs[k].name, type |-> rs[k].type] : k \in 1..Len(rs)}
      Entries(rs, at) == IF rs = <<>> THEN <<>> ELSE at
  IN [magic |-> "ELF", version |-> "current", type |-> "DYN", order |-> "LSB", base |-> base,
      class |-> IF bits = 64 THEN "ELF64" ELSE "ELF32", machine |-> IF bits = 64 THEN "AARCH64" ELSE "ARM",
      phdrs |-> <<Seg("PHDR", vaddr, 4, {"r"}), Seg("LOAD", vaddr, 22, {"r", "x"}),
                  Seg("LOAD", vaddr + 24, 16, {"r", "w"}), Seg("DYNAMIC", vaddr + 1, 2, {"r", "w"})>>,
      dyn |-> <<Dyn("SYMTAB", vaddr + 3), Dyn("STRTAB", vaddr + 2)>>
                \o [k \in 1..Len(hashes) |-> Dyn(hashes[k], vaddr + (IF hashes[k] = "HASH" THEN 4 ELSE 5))]
                \o Entries(plt, <<Dyn("PLTREL", kind), Dyn("PLTRELSZ", Len(plt)), Dyn("JMPREL", vaddr + 6)>>)
                \o Entries(dyn, <<Dyn(kind, vaddr + 7), Dyn(kind \o "SZ", Len(dyn))>>)
                \o <<Dyn("NULL", 0), Dyn("NULL", 0)>>,
      after |-> <<Dyn("OTHER", base), Dyn("NULL", 0)>>,
      at |-> (base + 1) :> "dynamic" @@ (base + 2) :> "strings" @@ (base + 3) :> syms
             @@ (base + 4) :> ElfTable(syms, 3) @@ (base + 5) :> GnuTable(syms, 3, 2, 2, 1)
             @@ (base + 6) :> Table(plt, 24) @@ (base + 7) :> Table(dyn, 32),
      slots |-> Made(plt, 24) \cup {s \in Made(dyn, 32) : s.type # "RELATIVE"}]

Plts == {<<>>, <<R("a", "JUMP_SLOT")>>, <<R("b", "JUMP_SLOT"), R("a", "JUMP_SLOT")>>}
Dyns == {<<>>, <<R("b", "GLOB_DAT"), R("a", "GLOB_DAT"), R("a", "ABS")>>,
         <<R("a", "ABS"), R("b", "ABS")>>, <<R("a", "RELATIVE"), R("b", "GLOB_DAT")>>}

Line(name, lib) == [name |-> name, lib |-> lib, readable |-> TRUE, private |-> TRUE, device |-> TRUE]
Process(hook, bits, lines, libs) ==
  [hook |-> hook, bits |-> bits, lines |-> lines, later |-> <<>>, libs |-> libs, matching |-> {"lib"},
   filter |-> FALSE, symbols |-> <<"a", "b", "e">>, prot |-> {"r"}]

Processes1 ==
  {Process(1, 32, <<Line("app", 0), Line("lib", 1)>>, <<HookLib(80, v, 32, "REL", h, p, d)>>) :
     v \in {0, 8}, h \in {<<"HASH">>, <<"GNU_HASH">>}, p \in Plts, d \in Dyns}
    \cup {Process(1, 32, <<Line("app", 0)>>, <<HookLib(80, 0, 32, "REL", <<"HASH">>, <<>>, <<>>)>>)}

Processes2 ==
  {Process(2, b, <<Line("lib", 1), Line("lib", 0)>>, <<HookLib(80, v, b, k, h, p, d)>>) :
     v \in {0, 8}, h \in {<<"HASH">>, <<"GNU_HASH">>, <<"GNU_HASH", "HASH">>}, b \in {32, 64},
     k \in {"REL", "RELA"}, p \in Plts, d \in Dyns}
    \cup {[Process(2, 64, <<Line("app", 1)>>, <<HookLib(80, 0, 64, "RELA", <<"HASH">>, <<>>, <<>>)>>)
             EXCEPT !.later = <<Line("lib", 1)>>]}

\* Lines the scan has to leave out, two libraries, and one loaded later.
Processes3 ==
  {[Process(3, 64,
            <<[Line("lib", 1) EXCEPT !.readable = FALSE], [Line("mali", 0) EXCEPT !.private = FALSE],
              Line("lib", 1), Line("lib", 0), [Line("vdso", 3) EXCEPT !.device = FALSE], Line("app", 2)>>,
            <<HookLib(80, v, 64, k, h, p, d), HookLib(160, 8, 64, "RELA", <<"GNU_HASH">>, p, d),
              HookLib(240, 0, 64, "RELA", h, <<R("b", "JUMP_SLOT")>>, <<>>)>>)
      EXCEPT !.filter = f, !.later = IF f THEN <<Line("lib", 3)>> ELSE <<Line("more", 3)>>,
             !.symbols = <<"a", "e", "b">>] :
     v \in {0, 8}, h \in {<<"HASH">>, <<"GNU_HASH">>}, k \in {"REL", "RELA"}, p \in Plts,
     d \in {<<>>, <<R("a", "GLOB_DAT"), R("b", "ABS")>>}, f \in BOOLEAN}

MCProcesses == Processes1 \cup Processes2 \cup Processes3
=============================================================================
