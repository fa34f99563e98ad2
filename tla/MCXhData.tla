------------------------------ MODULE MCXhData ------------------------------
(* Small instances of the hooking of one library and of what it computes    *)
(* with: the tree of tree.h, the reading of a library and of its packed     *)
(* relocations (xh_elf.c) and the page protection of a word (xh_util.c).  A *)
(* behaviour exercises one part, the others stay in their initial state.    *)
EXTENDS MCXhElf, XhTree, XhLookup, XhPacked, XhProtect, MCLinker

VARIABLE part

Parts == {"elf", "tree", "image", "packed", "protect"}

\* All of S for the part that is exercised, one of its elements for another.
For(p, S) == IF part = p THEN S ELSE {CHOOSE x \in S : TRUE}

DataInit ==
  /\ part \in Parts
  /\ Init
  /\ part # "elf" => /\ image = CHOOSE i \in Images : TRUE
                     /\ hook = CHOOSE h \in Hooks : TRUE
                     /\ prot = [p \in Pages |-> RW]
  /\ TreeInit
  /\ ImageInit(For("image", Libraries))
  /\ PackedInit(For("packed", Streams))
  /\ ProtectInit(For("protect", MapsFiles), For("protect", Addresses))

DataNext ==
  /\ UNCHANGED part
  /\ \/ part = "elf" /\ Next /\ UNCHANGED <<treeVars, imageVars, packedVars, protectVars>>
     \/ part = "tree" /\ TreeNext /\ UNCHANGED <<vars, imageVars, packedVars, protectVars>>
     \/ part = "image" /\ ImageNext /\ UNCHANGED <<vars, treeVars, packedVars, protectVars>>
     \/ part = "packed" /\ PackedNext /\ UNCHANGED <<vars, treeVars, imageVars, protectVars>>
     \/ part = "protect" /\ ProtectNext /\ UNCHANGED <<vars, treeVars, imageVars, packedVars>>
-----------------------------------------------------------------------------
(* The libraries a linker writes for two imported and up to three exported  *)
(* symbols, which share hash values in part.                                *)

MCKeys == 1..7
MCNative == <<"ELF64", "LSB", "AARCH64">>

Load(off, vaddr) == [type |-> "LOAD", offset |-> off, vaddr |-> vaddr, memsz |-> 64]

\* Loaded at 100, with its first segment at vaddr in the file.
Library(vaddr, hashes, exports, rest) ==
  LET bias == 100 - vaddr
      syms == Symbols(<<"a", "b">>, exports, 2)
      dyn  == <<Dyn("STRTAB", vaddr + 10), Dyn("SYMTAB", vaddr + 20)>>
                \o [i \in 1..Len(hashes) |-> Dyn(hashes[i], IF hashes[i] = "HASH" THEN vaddr + 30 ELSE vaddr + 40)]
                \o rest \o <<Dyn("NULL", 0), Dyn("JMPREL", vaddr + 90)>>
  IN [magic |-> "ELF", version |-> "current", type |-> "DYN", class |-> "ELF64", order |-> "LSB",
      machine |-> "AARCH64", base |-> 100, dyn |-> dyn,
      phdrs |-> <<Load(8, vaddr + 8), Load(0, vaddr),
                  [type |-> "DYNAMIC", offset |-> 9, vaddr |-> 9, memsz |-> Len(dyn)]>>,
      at |-> 110 :> [magic |-> "none"] @@ 120 :> syms @@ 130 :> ElfTable(syms, 3)
             @@ 140 :> GnuTable(syms, 3, 2, 2, 1) @@ 150 :> [magic |-> "APS2"] @@ 160 :> [magic |-> "none"]]

HashStyles == {<<"HASH">>, <<"GNU_HASH">>, <<"HASH", "GNU_HASH">>, <<"GNU_HASH", "HASH">>, <<>>}
Exports == {<<>>, <<"c">>, <<"c", "d">>, <<"d", "e", "c">>}

\* The empty table of GNU ld, over two imported symbols.
NothingHashed(l) ==
  [l EXCEPT !.at = 140 :> [symoffset |-> 1, bucket |-> <<0>>, chain |-> <<>>, bloom |-> <<{}>>, shift |-> 0] @@ @]

Plain(v) == <<Dyn("PLTRELSZ", 2), Dyn("PLTREL", "RELA"), Dyn("JMPREL", v + 50), Dyn("RELA", v + 60), Dyn("RELASZ", 2)>>
Packed(v, p, n) == <<Dyn("PLTREL", "REL"), Dyn("ANDROID_REL", v + p), Dyn("ANDROID_RELSZ", n), Dyn("DEBUG", 0)>>

MCLibraries ==
  {Library(v, h, x, Plain(v)) : v \in {0, 16}, h \in HashStyles, x \in Exports}
    \cup {NothingHashed(Library(v, <<"GNU_HASH">>, <<>>, Plain(v))) : v \in {0, 16}}
    \cup {Library(v, <<"GNU_HASH">>, <<"c">>, r) :
            v \in {0}, r \in {Packed(0, 50, 9), Packed(0, 50, 3), Packed(0, 60, 9),
                              <<Dyn("RELA", -10)>>, <<Dyn("JMPREL", 50), Dyn("REL", 60)>>}}
    \cup LET l == Library(0, <<"HASH">>, <<"c">>, Plain(0))
         IN {[l EXCEPT !.machine = "ARM"], [l EXCEPT !.type = "REL"], [l EXCEPT !.phdrs = Tail(Tail(@))],
             [l EXCEPT !.phdrs = SubSeq(@, 1, 2)], [l EXCEPT !.phdrs[3].memsz = 6],
             [l EXCEPT !.phdrs[2].vaddr = 200]}
-----------------------------------------------------------------------------
(* Packed tables: numbers of five bits in bytes that carry two.             *)

MCChunk == 2
MCWidth == 5

RECURSIVE Encode(_)
Encode(v) ==                   \* the shortest signed encoding of v
  LET low == v % 4 IN IF v \in -2..1 THEN <<[more |-> FALSE, bits |-> low]>>
                      ELSE <<[more |-> TRUE, bits |-> low]>> \o Encode((v - low) \div 4)

EncodeAll(s) == FlattenSeq([i \in 1..Len(s) |-> Encode(s[i])])
Wrap(n) == n % 32
Reloc(o, i, a) == [offset |-> Wrap(o), info |-> i, addend |-> Wrap(a)]

\* Three relocations from offset o, at distance d, in a group of two and one of
\* one, whose flags are f and g; the info and addend of a group are shared.
Stream(o, d, f, g, rela, add) ==
  LET Shares(flag, bit) == (flag \div bit) % 2 = 1
      Head2(n, flag) == <<n, flag>> \o (IF Shares(flag, 2) THEN <<d>> ELSE <<>>)
                          \o (IF Shares(flag, 1) THEN <<3>> ELSE <<>>)
                          \o (IF Shares(flag, 8) /\ Shares(flag, 4) THEN <<add>> ELSE <<>>)
      Own(flag) == (IF Shares(flag, 2) THEN <<>> ELSE <<d>>) \o (IF Shares(flag, 1) THEN <<>> ELSE <<3>>)
                     \o (IF rela /\ Shares(flag, 8) /\ ~Shares(flag, 4) THEN <<add>> ELSE <<>>)
      Sum1(flag, n) == IF ~rela \/ ~Shares(flag, 8) THEN 0 ELSE IF Shares(flag, 4) THEN add ELSE n * add
      after == IF Shares(g, 8) THEN Sum1(f, 2) ELSE 0
      first == Head2(2, f) \o Own(f)
      nums == <<3, o>> \o first \o Own(f) \o Head2(1, g) \o Own(g)
      Place(n, flag, p, start) == [group |-> [size |-> n, flags |-> flag, delta |-> d, info |-> 3, addend |-> add],
                                place |-> p, at |-> start]
  IN [bytes |-> EncodeAll(nums), rela |-> rela, cut |-> FALSE, nums |-> nums,
      at |-> [j \in 1..(Len(nums) + 1) |-> Len(EncodeAll(SubSeq(nums, 1, j - 1))) + 1],
      packed |-> <<Place(2, f, 1, 3), Place(2, f, 2, 3 + Len(first)), Place(1, g, 1, 3 + Len(first \o Own(f)))>>,
      list |-> <<Reloc(o + d, 3, Sum1(f, 1)), Reloc(o + 2 * d, 3, Sum1(f, 2)),
                 Reloc(o + 3 * d, 3, IF rela /\ Shares(g, 8) THEN after + add ELSE 0)>>]

Whole == {Stream(o, d, f, g, r, add) :
            o \in {0, 13}, d \in {1, -3, 15}, f \in 0..15, g \in {0, 7, 8, 11, 12}, r \in {TRUE}, add \in {-1, 9}}
         \cup {Stream(o, -3, f, g, FALSE, 0) : o \in {0, 13}, f \in 0..11, g \in {0, 3, 8}}

MCStreams == Whole \cup {[s EXCEPT !.bytes = SubSeq(@, 1, n), !.cut = TRUE] :
                           s \in {Stream(0, 15, 2, 9, TRUE, 9), Stream(13, 1, 15, 8, TRUE, 9)}, n \in {0, 1, 2, 5, 8, 11}}
-----------------------------------------------------------------------------
Line(s, e, p, pr, n) == [start |-> s, end |-> e, perm |-> p, private |-> pr, named |-> n]
MCMapsFiles ==
  {<<Line(0, 4, p, TRUE, n), Line(4, 8, q, pr, TRUE), Line(8, 12, {"r"}, TRUE, m)>> :
     p \in {{"r"}, ReadWrite, {"x"}}, q \in {{"r", "x"}, ReadWrite}, pr \in BOOLEAN, n \in BOOLEAN, m \in BOOLEAN}
MCAddresses == 0..10
=============================================================================
