---------------------------- MODULE XhElfProofs ----------------------------
(***************************************************************************)
(* Proofs about XhElf, for all libraries whose tables a linker could have  *)
(* written, all hooks, pages and protections, and any number of hook calls *)
(* and of mprotect calls by other threads.                                 *)
(***************************************************************************)
EXTENDS XhElf, SequenceTheorems, TLAPS

InReplace == pc \in {"unprotect", "save", "write", "restore"}

\* What is protected how, at each place of a call: the page being written is
\* the only one that may differ, and oldProt knows how it was.
ProtectionInv ==
  /\ pc \in {"entry", "unprotect", "ok", "error"} =>
       \A p \in Pages \ touched : prot[p] = startProt[p]
  /\ InReplace =>
       /\ \A p \in Pages \ (touched \cup {page}) : prot[p] = startProt[p]
       /\ page \notin touched => oldProt = startProt[page]
  /\ pc \in {"save", "write"} /\ oldProt = RW /\ page \notin touched => prot[page] = RW

\* The iterator returns entries of the table it is reading.
FromTable == \A k \in 1..Len(todo) : todo[k] \in ToSet(Entries(section))

\* A slot holds its first value, or the function of a hook of its symbol.
MemoryInv ==
  \A s \in Slots :
    \/ mem[s] = s
    \/ \E h \in Hooks, u \in Sections : \E r \in ToSet(Entries(u)) :
         mem[s] = h.new /\ r.slot = s /\ r.type \in TypesOf(u) /\ r.sym = h.sym

\* In the middle of a replacement the slot is known to be one of the symbol,
\* and not to hold the function yet.
ReplaceInv ==
  /\ InReplace => Matches(Head(todo), section)
  /\ pc \in {"unprotect", "save", "write"} => mem[slot] # hook.new
  /\ pc = "write" => old[hook.new] = mem[slot]

OldInv == FromTable /\ MemoryInv /\ ReplaceInv /\ OldIsOriginal

\* The slots of the symbol in a table are hooked, its first entry aside unless
\* it is packed; or the iterator has still to return them.
First(s) == IF s = "android" THEN 1 ELSE 2

Hooked(s) ==
  \A i \in First(s)..Len(image[s]) : Matches(image[s][i], s) => mem[image[s][i].slot] = hook.new

Pending(s) ==
  \A i \in First(s)..Len(image[s]) : Matches(image[s][i], s) =>
    mem[image[s][i].slot] = hook.new \/ \E k \in 1..Len(todo) : todo[k] = image[s][i]

\* The tables before the one being read are done with, and in this one what the
\* iterator has returned is.
CompleteInv ==
  /\ pc = "entry" \/ InReplace =>
       /\ Pending(section)
       /\ section # "plt" => Hooked("plt")
       /\ section = "android" => Hooked("dyn")
       /\ section = "plt" => \A k \in 1..Len(todo) - 1 : todo[k] \in ToSet(image.plt)
  /\ pc = "restore" => mem[slot] = hook.new
  /\ HookComplete

USE DEF memory, cursor

-----------------------------------------------------------------------------
(* Tables and iterators.                                                   *)

\* A table's relocations are among Relocations, and so is what lies beyond it.
LEMMA RelocationsOf ==
  ASSUME NEW i \in Images
  PROVE  /\ i.plt \in Seq(Relocations) /\ i.dyn \in Seq(Relocations) /\ i.android \in Seq(Relocations)
         /\ i.afterPlt \in Relocations /\ i.afterDyn \in Relocations
  BY TableAssumption DEF Relocations

\* The plain iterator returns the entries from the second on, then the one
\* beyond the table (xh_elf.c:72-94).
LEMMA PlainReturns ==
  ASSUME NEW table \in Seq(Relocations), NEW beyond \in Relocations
  PROVE  /\ PlainEntries(table, beyond) \in Seq(Relocations)
         /\ table = <<>> => PlainEntries(table, beyond) = <<>>
         /\ table # <<>> =>
              /\ Len(PlainEntries(table, beyond)) = Len(table)
              /\ \A k \in 1..Len(table) - 1 : PlainEntries(table, beyond)[k] = table[k + 1]
              /\ PlainEntries(table, beyond)[Len(table)] = beyond
<1>1. CASE table = <<>>
  BY <1>1 DEF PlainEntries
<1>2. CASE table # <<>>
  <2>1. /\ Tail(table) \in Seq(Relocations) /\ Len(table) \in Nat \ {0}
        /\ Len(Tail(table)) = Len(table) - 1
        /\ \A k \in 1..Len(table) - 1 : Tail(table)[k] = table[k + 1]
    BY <1>2, HeadTailProperties, EmptySeq
  <2> QED
    BY <1>2, <2>1, AppendProperties DEF PlainEntries
<1> QED
  BY <1>1, <1>2

\* Whatever the table, the iterator returns relocations.
LEMMA EntriesTyped ==
  ASSUME NEW i \in Images, NEW s \in Sections
  PROVE  EntriesOf(i, s) \in Seq(Relocations)
  BY RelocationsOf, PlainReturns DEF EntriesOf, Sections

\* The relocation in hand is one of the library's.
LEMMA HeadTyped ==
  ASSUME TypeOK, todo # <<>>
  PROVE  /\ Head(todo) \in Relocations /\ slot \in Slots /\ page \in Pages
         /\ Tail(todo) \in Seq(Relocations)
<1>1. Head(todo) \in Relocations /\ Tail(todo) \in Seq(Relocations)
  BY HeadTailProperties DEF TypeOK
<1> QED
  BY <1>1, TableAssumption, ElfAssumption DEF slot, page

-----------------------------------------------------------------------------
(* Typing.                                                                 *)

LEMMA TypeInit == Init => TypeOK
<1> SUFFICES ASSUME Init PROVE TypeOK
  OBVIOUS
<1>1. Slots \cap Funcs = {} /\ prot \in [Pages -> SUBSET {"r", "w", "x"}]
  BY ElfAssumption DEF Init
<1> QED
  BY <1>1, ElfAssumption DEF Init, TypeOK, Sections

LEMMA TypeStep == TypeOK /\ [Next]_vars => TypeOK'
<1> SUFFICES ASSUME TypeOK, [Next]_vars PROVE TypeOK'
  OBVIOUS
<1>0. RW \subseteq {"r", "w", "x"} /\ <<>> \in Seq(Relocations) /\ hook.new \in Funcs
      /\ \A q \in Prots : q \subseteq {"r", "w", "x"}
  BY ElfAssumption DEF RW, TypeOK, Funcs
<1>1. ASSUME NEW h \in Hooks, Begin(h) PROVE TypeOK'
  <2>1. todo' \in Seq(Relocations)
    BY <1>1, RelocationsOf, PlainReturns DEF Begin, TypeOK
  <2> QED
    BY <1>1, <2>1, ElfAssumption DEF Begin, TypeOK, Sections
<1>2. ASSUME NEW h \in Hooks, Missing(h) PROVE TypeOK'
  BY <1>2, ElfAssumption DEF Missing, TypeOK
<1>3. CASE NextSection
  <2>1. section' \in Sections /\ todo' \in Seq(Relocations)
    BY <1>3, EntriesTyped DEF NextSection, Entries, TypeOK, Sections
  <2> QED
    BY <1>3, <2>1 DEF NextSection, TypeOK
<1>4. CASE Skip
  BY <1>4, HeadTyped DEF Skip, TypeOK
<1>5. CASE BelowBase
  BY <1>5, <1>0 DEF BelowBase, Leave, TypeOK, Sections
<1>6. CASE Already
  BY <1>6, <1>0, HeadTyped DEF Already, Found, Matching, Advance, TypeOK
<1>7. CASE NoProtection
  BY <1>7, <1>0 DEF NoProtection, Leave, TypeOK, Sections
<1>8. CASE GetProtection
  BY <1>8, HeadTyped DEF GetProtection, ToReplace, Found, Matching, TypeOK
<1>9. CASE Unprotect
  BY <1>9, <1>0, HeadTyped DEF Unprotect, TypeOK
<1>10. CASE UnprotectRefused
  BY <1>10, <1>0 DEF UnprotectRefused, Leave, TypeOK, Sections
<1>11. CASE Save
  BY <1>11, <1>0, HeadTyped DEF Save, TypeOK
<1>12. CASE Write
  <2>1. mem' \in [Slots -> Slots \cup Funcs]
    BY <1>12, <1>0, HeadTyped DEF Write, TypeOK
  <2>2. CASE oldProt = RW
    BY <1>12, <1>0, <2>1, <2>2, HeadTyped DEF Write, Advance, TypeOK
  <2>3. CASE oldProt # RW
    BY <1>12, <2>1, <2>3 DEF Write, TypeOK
  <2> QED
    BY <2>2, <2>3
<1>13. CASE Restore
  <2>1. prot' \in [Pages -> SUBSET {"r", "w", "x"}] /\ touched' \subseteq Pages
    BY <1>13, HeadTyped DEF Restore, TypeOK
  <2> QED
    BY <1>13, <1>0, <2>1, HeadTyped DEF Restore, Advance, TypeOK
<1>14. CASE ReturnOk
  BY <1>14, <1>0 DEF ReturnOk, Leave, TypeOK, Sections
<1>15. CASE Fault
  BY <1>15, <1>0 DEF Fault, Leave, TypeOK, Sections
<1>16. CASE Done
  BY <1>16 DEF Done, TypeOK
<1>17. ASSUME NEW p \in Pages, NEW q \in Prots, Protect(p, q) PROVE TypeOK'
  BY <1>17, <1>0, ElfAssumption DEF Protect, TypeOK
<1>18. CASE UNCHANGED vars
  BY <1>18 DEF vars, TypeOK
<1> QED
  BY <1>1, <1>2, <1>3, <1>4, <1>5, <1>6, <1>7, <1>8, <1>9, <1>10, <1>11, <1>12,
     <1>13, <1>14, <1>15, <1>16, <1>17, <1>18 DEF Next, HookStep

\* Every variable of xh_elf_hook keeps its type: slots hold slots' first values
\* or functions, the entries still to come are relocations of the library, and
\* a replacement under way has its relocation in hand.
THEOREM ElfTyping == Spec => []TypeOK
  BY TypeInit, TypeStep, PTL DEF Spec

-----------------------------------------------------------------------------
(* Protections.                                                            *)

\* A call that leaves early, by an error, from a place where no page differs.
LEMMA LeaveKeeps ==
  ASSUME TypeOK, ProtectionInv, NEW outcome \in {"ok", "error"}, Leave(outcome),
         UNCHANGED prot, pc \in {"entry", "unprotect"}
  PROVE  ProtectionInv'
  BY DEF Leave, ProtectionInv, InReplace

\* The page at hand does not change while the relocation does not.
LEMMA SamePage == UNCHANGED todo => UNCHANGED <<slot, page>>
  BY DEF slot, page

LEMMA ProtectionStep == TypeOK /\ ProtectionInv /\ [Next]_vars => ProtectionInv'
<1> SUFFICES ASSUME TypeOK, ProtectionInv, [Next]_vars PROVE ProtectionInv'
  OBVIOUS
<1> USE DEF ProtectionInv, InReplace
<1>1. ASSUME NEW h \in Hooks, Begin(h) PROVE ProtectionInv'
  BY <1>1 DEF Begin
<1>2. ASSUME NEW h \in Hooks, Missing(h) PROVE ProtectionInv'
  BY <1>2 DEF Missing
<1>3. CASE NextSection
  BY <1>3 DEF NextSection
<1>4. CASE Skip
  BY <1>4 DEF Skip
<1>5. CASE BelowBase
  BY <1>5, LeaveKeeps DEF BelowBase, Matching
<1>6. CASE Already
  BY <1>6 DEF Already, Found, Matching, Advance
<1>7. CASE NoProtection
  BY <1>7, LeaveKeeps DEF NoProtection, ToReplace, Found, Matching
<1>8. CASE GetProtection
  <2>1. page \in Pages /\ UNCHANGED page /\ pc = "entry"
    BY <1>8, HeadTyped, SamePage DEF GetProtection, ToReplace, Found, Matching
  <2> QED
    BY <1>8, <2>1 DEF GetProtection
<1>9. CASE Unprotect
  <2>1. page \in Pages /\ UNCHANGED page
    BY <1>9, HeadTyped, SamePage DEF Unprotect, TypeOK
  <2> QED
    BY <1>9, <2>1 DEF Unprotect, TypeOK
<1>10. CASE UnprotectRefused
  BY <1>10, LeaveKeeps DEF UnprotectRefused
<1>11. CASE Save
  BY <1>11, SamePage DEF Save
<1>12. CASE Write
  <2>1. CASE oldProt = RW
    \* The page was writable before, and nobody has changed it since.
    BY <1>12, <2>1 DEF Write, Advance
  <2>2. CASE oldProt # RW
    BY <1>12, <2>2, SamePage DEF Write
  <2> QED
    BY <2>1, <2>2
<1>13. CASE Restore
  <2>1. page \in Pages
    BY <1>13, HeadTyped DEF Restore, TypeOK
  <2> QED
    BY <1>13, <2>1 DEF Restore, Advance, TypeOK
<1>14. CASE ReturnOk
  BY <1>14, LeaveKeeps DEF ReturnOk
<1>15. CASE Fault
  BY <1>15 DEF Fault, Leave
<1>16. CASE Done
  BY <1>16 DEF Done
<1>17. ASSUME NEW p \in Pages, NEW q \in Prots, Protect(p, q) PROVE ProtectionInv'
  \* The page changed joins touched, of which nothing is claimed.
  <2>1. UNCHANGED page
    BY <1>17, SamePage DEF Protect
  <2>2. \A x \in Pages : x # p => prot'[x] = prot[x]
    BY <1>17 DEF Protect, TypeOK
  <2>3. InReplace => page \in Pages
    BY HeadTyped DEF TypeOK
  <2> QED
    BY <1>17, <2>1, <2>2, <2>3 DEF Protect
<1>18. CASE UNCHANGED vars
  BY <1>18, SamePage DEF vars
<1> QED
  BY <1>1, <1>2, <1>3, <1>4, <1>5, <1>6, <1>7, <1>8, <1>9, <1>10, <1>11, <1>12,
     <1>13, <1>14, <1>15, <1>16, <1>17, <1>18 DEF Next, HookStep

\* A call that returns, whatever it was refused on the way and whoever else
\* changed protections, leaves every page others did not touch as it found it.
THEOREM PagesRestored == Spec => []ProtectionRestored
<1>1. Init => ProtectionInv
  BY DEF Init, ProtectionInv, InReplace
<1>2. ProtectionInv => ProtectionRestored
  BY DEF ProtectionInv, ProtectionRestored
<1> QED
  BY <1>1, <1>2, ElfTyping, ProtectionStep, PTL DEF Spec

-----------------------------------------------------------------------------
(* The iterator stays in its table.                                        *)

\* What is in hand, and what is left after it, comes from where todo does.
LEMMA HeadFrom ==
  ASSUME TypeOK, todo # <<>>, NEW S, \A k \in 1..Len(todo) : todo[k] \in S
  PROVE  /\ Head(todo) \in S
         /\ \A k \in 1..Len(Tail(todo)) : Tail(todo)[k] \in S
         /\ Len(Tail(todo)) = Len(todo) - 1 /\ Len(todo) \in Nat \ {0}
<1>1. /\ Len(todo) \in Nat \ {0} /\ Head(todo) = todo[1]
      /\ Len(Tail(todo)) = Len(todo) - 1
      /\ \A k \in 1..Len(Tail(todo)) : Tail(todo)[k] = todo[k + 1]
  BY HeadTailProperties, EmptySeq DEF TypeOK
<1> QED
  BY <1>1

LEMMA ElementsIn ==
  ASSUME NEW e \in Seq(Relocations)
  PROVE  \A k \in 1..Len(e) : e[k] \in ToSet(e)
  BY DEF ToSet

LEMMA FromTableStep == TypeOK /\ FromTable /\ [Next]_vars => FromTable'
<1> SUFFICES ASSUME TypeOK, FromTable, [Next]_vars PROVE FromTable'
  OBVIOUS
<1>0. ASSUME todo' = <<>> PROVE FromTable'
  BY <1>0 DEF FromTable
<1>1. ASSUME UNCHANGED <<image, section>>, todo # <<>>, todo' = Tail(todo) PROVE FromTable'
  BY <1>1, HeadFrom DEF FromTable, Entries
<1>2. ASSUME UNCHANGED <<image, section, todo>> PROVE FromTable'
  BY <1>2 DEF FromTable, Entries
<1>3. ASSUME image' = image, section' \in Sections, todo' = EntriesOf(image, section') PROVE FromTable'
  BY <1>3, EntriesTyped, ElementsIn DEF FromTable, Entries, TypeOK
<1>4. ASSUME Advance, todo # <<>> PROVE FromTable'
  BY <1>0, <1>1, <1>4 DEF Advance
<1>5. ASSUME NEW h \in Hooks, Begin(h) PROVE FromTable'
  BY <1>3, <1>5 DEF Begin, EntriesOf, Sections
<1>6. CASE NextSection
  BY <1>3, <1>6 DEF NextSection, Entries, Sections
<1>7. CASE Skip
  BY <1>1, <1>7 DEF Skip
<1>8. CASE BelowBase \/ NoProtection \/ UnprotectRefused \/ ReturnOk \/ Fault
  BY <1>0, <1>8 DEF BelowBase, NoProtection, UnprotectRefused, ReturnOk, Fault, Leave
<1>9. CASE Already \/ Restore
  BY <1>4, <1>9 DEF Already, Found, Matching, Restore, TypeOK
<1>10. CASE Write
  BY <1>2, <1>4, <1>10 DEF Write, TypeOK
<1>11. CASE GetProtection \/ Unprotect \/ Save \/ Done \/ UNCHANGED vars
  BY <1>2, <1>11 DEF GetProtection, Unprotect, Save, Done, vars
<1>12. ASSUME NEW h \in Hooks, Missing(h) PROVE FromTable'
  BY <1>2, <1>12 DEF Missing
<1>13. ASSUME NEW p \in Pages, NEW q \in Prots, Protect(p, q) PROVE FromTable'
  BY <1>2, <1>13 DEF Protect
<1> QED
  BY <1>5, <1>6, <1>7, <1>8, <1>9, <1>10, <1>11, <1>12, <1>13 DEF Next, HookStep

-----------------------------------------------------------------------------
(* The original function.                                                  *)

\* The slot in hand belongs to the symbol that is being hooked.
LEMMA SlotOfSymbol ==
  ASSUME TypeOK, FromTable, ReplaceInv, InReplace
  PROVE  /\ Head(todo) \in ToSet(Entries(section)) /\ section \in Sections /\ todo # <<>>
         /\ Head(todo).type \in TypesOf(section) /\ Head(todo).sym = hook.sym
  BY HeadFrom DEF TypeOK, FromTable, ReplaceInv, InReplace, Matches

\* Only Write stores into a slot.
LEMMA MemoryStep == TypeOK /\ FromTable /\ MemoryInv /\ ReplaceInv /\ [Next]_vars => MemoryInv'
<1> SUFFICES ASSUME TypeOK, FromTable, MemoryInv, ReplaceInv, [Next]_vars PROVE MemoryInv'
  OBVIOUS
<1>1. UNCHANGED image
  BY DEF Next, HookStep, Begin, Missing, NextSection, Skip, BelowBase, Already, NoProtection,
    GetProtection, Unprotect, UnprotectRefused, Save, Write, Restore, ReturnOk, Fault, Done,
    Protect, Leave, Advance, vars
<1>2. CASE Write
  <2>1. /\ Head(todo) \in ToSet(Entries(section)) /\ section \in Sections /\ hook \in Hooks
        /\ Head(todo).type \in TypesOf(section) /\ Head(todo).sym = hook.sym
    BY <1>2, SlotOfSymbol DEF Write, InReplace, TypeOK
  <2>2. mem' = [mem EXCEPT ![slot] = hook.new]
    BY <1>2 DEF Write
  <2> QED
    BY <1>1, <2>1, <2>2 DEF MemoryInv, slot, TypeOK, Entries
<1>3. CASE UNCHANGED mem
  BY <1>1, <1>3 DEF MemoryInv, Entries
<1>4. Write \/ UNCHANGED mem
  BY DEF Next, HookStep, Begin, Missing, NextSection, Skip, BelowBase, Already, NoProtection,
    GetProtection, Unprotect, UnprotectRefused, Save, Restore, ReturnOk, Fault, Done,
    Protect, Leave, Advance, vars
<1> QED
  BY <1>2, <1>3, <1>4

LEMMA ReplaceStep == TypeOK /\ ReplaceInv /\ [Next]_vars => ReplaceInv'
<1> SUFFICES ASSUME TypeOK, ReplaceInv, [Next]_vars PROVE ReplaceInv'
  OBVIOUS
<1> USE DEF ReplaceInv, InReplace
<1>1. ASSUME pc' \in {"idle", "entry", "ok", "error", "fault"} PROVE ReplaceInv'
  BY <1>1
<1>2. CASE GetProtection
  BY <1>2 DEF GetProtection, ToReplace, Found, Matching, Matches, slot
<1>3. CASE Unprotect
  BY <1>3 DEF Unprotect, Matches, slot
<1>4. CASE Save
  <2>1. hook.new \in Funcs
    BY DEF TypeOK, Funcs
  <2> QED
    BY <1>4, <2>1 DEF Save, Matches, slot, TypeOK
<1>5. CASE Write
  BY <1>1, <1>5 DEF Write, Advance, Matches, slot
<1>6. ASSUME UNCHANGED <<pc, todo, section, hook, mem, old>> PROVE ReplaceInv'
  BY <1>6 DEF Matches, slot
<1>7. CASE UNCHANGED vars \/ \E p \in Pages, q \in Prots : Protect(p, q)
  BY <1>6, <1>7 DEF vars, Protect
<1>8. CASE \E h \in Hooks : Begin(h) \/ Missing(h)
  BY <1>1, <1>8 DEF Begin, Missing
<1>9. CASE NextSection \/ Skip \/ BelowBase \/ Already \/ NoProtection \/ UnprotectRefused
           \/ Restore \/ ReturnOk \/ Fault \/ Done
  BY <1>1, <1>9 DEF NextSection, Skip, BelowBase, Already, NoProtection, UnprotectRefused, Restore,
    ReturnOk, Fault, Done, Leave, Advance
<1> QED
  BY <1>2, <1>3, <1>4, <1>5, <1>7, <1>8, <1>9 DEF Next, HookStep

\* A slot of the symbol never holds another symbol's function, since no slot
\* has two symbols: so what Save finds there is no function.
LEMMA OldStep == TypeOK /\ OldInv /\ [Next]_vars => OldIsOriginal'
<1> SUFFICES ASSUME TypeOK, OldInv, [Next]_vars,
                    NEW h \in Hooks, \A g \in Hooks : g.sym = h.sym \/ g.new = h.new => g = h
             PROVE  /\ old'[h.new] \notin Funcs
                    /\ (\E s \in Slots : mem'[s] = h.new) => old'[h.new] # "null"
  BY DEF OldIsOriginal
<1>0. /\ old[h.new] \notin Funcs
      /\ (\E s \in Slots : mem[s] = h.new) => old[h.new] # "null"
  BY DEF OldInv, OldIsOriginal
<1>1. CASE Save
  <2>1. /\ Head(todo) \in ToSet(Entries(section)) /\ section \in Sections /\ slot \in Slots
        /\ Head(todo).type \in TypesOf(section) /\ Head(todo).sym = hook.sym
    BY <1>1, SlotOfSymbol, HeadTyped DEF Save, InReplace, OldInv
  <2>2. mem[slot] # hook.new /\ hook \in Hooks /\ hook.new \in Funcs /\ h.new \in Funcs
    BY <1>1 DEF Save, OldInv, ReplaceInv, TypeOK, Funcs
  <2>3. old' = [old EXCEPT ![hook.new] = mem[slot]] /\ UNCHANGED mem
    BY <1>1 DEF Save
  <2>4. CASE hook.new = h.new
    <3>1. hook = h
      BY <2>2, <2>4
    <3>2. CASE mem[slot] = slot
      BY <2>1, <2>2, <2>3, <2>4, <3>2, ElfAssumption DEF TypeOK
    <3>3. CASE mem[slot] # slot
      <4>1. PICK g \in Hooks, u \in Sections : \E r \in ToSet(Entries(u)) :
                   mem[slot] = g.new /\ r.slot = slot /\ r.type \in TypesOf(u) /\ r.sym = g.sym
        BY <2>1, <3>3 DEF OldInv, MemoryInv
      <4>2. g.sym = hook.sym
        BY <2>1, <4>1, LinkerAssumption DEF TypeOK, Entries, slot
      <4> QED
        BY <2>2, <3>1, <4>1, <4>2
    <3> QED
      BY <3>2, <3>3
  <2>5. CASE hook.new # h.new
    BY <1>0, <2>2, <2>3, <2>5 DEF TypeOK
  <2> QED
    BY <2>4, <2>5
<1>2. CASE Write
  <2>1. /\ mem' = [mem EXCEPT ![slot] = hook.new] /\ UNCHANGED old /\ old[hook.new] = mem[slot]
        /\ slot \in Slots /\ mem[slot] # "null"
    BY <1>2, HeadTyped, ElfAssumption DEF Write, OldInv, ReplaceInv, TypeOK
  <2> QED
    BY <1>0, <2>1 DEF TypeOK
<1>3. CASE UNCHANGED <<mem, old>>
  BY <1>0, <1>3
<1>4. Save \/ Write \/ UNCHANGED <<mem, old>>
  BY DEF Next, HookStep, Begin, Missing, NextSection, Skip, BelowBase, Already, NoProtection,
    GetProtection, Unprotect, UnprotectRefused, Restore, ReturnOk, Fault, Done,
    Protect, Leave, Advance, vars
<1> QED
  BY <1>1, <1>2, <1>3, <1>4

\* old_func of a symbol with one function of its own is never a replacement,
\* and is set before the first slot is replaced, whatever calls went before.
THEOREM OldFunction == Spec => []OldIsOriginal
<1>1. Init => OldInv
  <2> SUFFICES ASSUME Init PROVE OldInv
    OBVIOUS
  <2>1. FromTable /\ MemoryInv /\ ReplaceInv
    BY DEF Init, FromTable, MemoryInv, ReplaceInv, InReplace
  <2>2. OldIsOriginal
    BY ElfAssumption DEF Init, OldIsOriginal, Funcs
  <2> QED
    BY <2>1, <2>2 DEF OldInv
<1>2. TypeOK /\ OldInv /\ [Next]_vars => OldInv'
  BY FromTableStep, MemoryStep, ReplaceStep, OldStep DEF OldInv
<1>3. OldInv => OldIsOriginal
  BY DEF OldInv
<1> QED
  BY <1>1, <1>2, <1>3, ElfTyping, PTL DEF Spec

-----------------------------------------------------------------------------
(* Completeness.                                                           *)

\* Every entry of a table has its slot.
LEMMA TablesTyped ==
  ASSUME TypeOK, NEW s \in Sections
  PROVE  /\ image[s] \in Seq(Relocations) /\ Len(image[s]) \in Nat /\ First(s) \in Nat \ {0}
         /\ \A i \in First(s)..Len(image[s]) : image[s][i] \in ToSet(image[s]) /\ image[s][i].slot \in Slots
<1>1. image[s] \in Seq(Relocations)
  BY RelocationsOf DEF Sections, TypeOK
<1>2. Len(image[s]) \in Nat /\ \A i \in 1..Len(image[s]) : image[s][i] \in Relocations
  BY <1>1
<1> QED
  BY <1>1, <1>2, ElementsIn, TableAssumption DEF First

\* Within a call no slot loses the function again.
LEMMA StaysHooked ==
  ASSUME TypeOK, [Next]_vars, pc # "idle" \/ pc' = "idle"
  PROVE  /\ UNCHANGED <<image, hook>>
         /\ \A x \in Slots : mem[x] = hook.new => mem'[x] = hook.new
<1>1. UNCHANGED <<image, hook>>
  BY DEF Next, HookStep, Begin, Missing, NextSection, Skip, BelowBase, Already, NoProtection,
    GetProtection, Unprotect, UnprotectRefused, Save, Write, Restore, ReturnOk, Fault, Done,
    Protect, Leave, Advance, vars
<1>2. CASE Write
  BY <1>1, <1>2 DEF Write, TypeOK
<1>3. Write \/ UNCHANGED mem
  BY DEF Next, HookStep, Begin, Missing, NextSection, Skip, BelowBase, Already, NoProtection,
    GetProtection, Unprotect, UnprotectRefused, Save, Restore, ReturnOk, Fault, Done,
    Protect, Leave, Advance, vars
<1> QED
  BY <1>1, <1>2, <1>3

\* ... so a table that is done with stays so.
LEMMA HookedStays ==
  ASSUME TypeOK, [Next]_vars, pc # "idle", NEW s \in Sections, Hooked(s)
  PROVE  Hooked(s)'
  BY TablesTyped, StaysHooked DEF Hooked, Matches

\* ... and what is pending stays so while the iterator stands still.
LEMMA PendingStays ==
  ASSUME TypeOK, [Next]_vars, pc # "idle", UNCHANGED todo, NEW s \in Sections, Pending(s)
  PROVE  Pending(s)'
  BY TablesTyped, StaysHooked DEF Pending, Matches

\* One relocation is dealt with: its slot is hooked, or it is for something else.
LEMMA PendingTail ==
  ASSUME TypeOK, [Next]_vars, pc # "idle", todo # <<>>, todo' = Tail(todo),
         NEW s \in Sections, Pending(s),
         Matches(Head(todo), s) => mem'[Head(todo).slot] = hook.new
  PROVE  Pending(s)'
<1>1. /\ Len(todo) \in Nat \ {0} /\ Head(todo) = todo[1]
      /\ Len(Tail(todo)) = Len(todo) - 1
      /\ \A k \in 1..Len(Tail(todo)) : Tail(todo)[k] = todo[k + 1]
  BY HeadTailProperties, EmptySeq DEF TypeOK
<1> SUFFICES ASSUME NEW i \in First(s)..Len(image[s]), Matches(image[s][i], s),
                    mem'[image[s][i].slot] # hook.new
             PROVE  \E k \in 1..Len(todo') : todo'[k] = image[s][i]
  BY StaysHooked DEF Pending, Matches
<1>2. PICK k \in 1..Len(todo) : todo[k] = image[s][i]
  BY TablesTyped, StaysHooked DEF Pending
<1>3. k # 1
  BY <1>1, <1>2
<1>4. k - 1 \in 1..Len(todo') /\ todo'[k - 1] = image[s][i]
  BY <1>1, <1>2, <1>3
<1> QED
  BY <1>4

\* Nothing left to return: the table is done with.
LEMMA NothingPending ==
  ASSUME todo = <<>>, NEW s \in Sections, Pending(s)
  PROVE  Hooked(s)
  BY DEF Pending, Hooked

\* In .rel(a).plt the first match stands for all, as a symbol has one slot there.
LEMMA PltDone ==
  ASSUME TypeOK, [Next]_vars, pc = "entry" \/ InReplace, CompleteInv, section = "plt",
         todo # <<>>, Matches(Head(todo), "plt"), mem'[Head(todo).slot] = hook.new
  PROVE  Hooked("plt")'
<1>1. Len(todo) \in Nat \ {0} /\ Head(todo) = todo[1]
  BY HeadTailProperties, EmptySeq DEF TypeOK
<1>2. pc # "idle" /\ "plt" \in Sections /\ Pending("plt")
      /\ \A k \in 1..Len(todo) - 1 : todo[k] \in ToSet(image.plt)
  BY DEF InReplace, Sections, CompleteInv
<1> SUFFICES ASSUME NEW i \in First("plt")..Len(image["plt"]), Matches(image["plt"][i], "plt")
             PROVE  mem'[image["plt"][i].slot] = hook.new
  BY <1>2, StaysHooked DEF Hooked, Matches
<1>3. CASE mem[image["plt"][i].slot] = hook.new
  BY <1>2, <1>3, TablesTyped, StaysHooked
<1>4. ASSUME NEW k \in 1..Len(todo), todo[k] = image["plt"][i] PROVE mem'[image["plt"][i].slot] = hook.new
  <2>1. CASE Len(todo) = 1
    BY <1>1, <1>4, <2>1
  <2>2. CASE Len(todo) # 1
    <3>1. Head(todo) \in ToSet(image.plt)
      <4>1. Len(todo) \in Nat /\ Len(todo) # 0
        BY <1>1
      <4>2. \A n \in Nat : n # 0 /\ n # 1 => 1 \in 1..(n - 1)
        OBVIOUS
      <4> QED
        BY <1>1, <1>2, <2>2, <4>1, <4>2
    <3>2. image["plt"][i] \in ToSet(image.plt)
      BY <1>2, TablesTyped
    <3> QED
      BY <3>1, <3>2, LinkerAssumption DEF Matches, TypeOK
  <2> QED
    BY <2>1, <2>2
<1> QED
  BY <1>2, <1>3, <1>4 DEF Pending

\* The call has begun to read a table: everything in it is pending.
LEMMA AllPending ==
  ASSUME TypeOK', NEW s \in Sections, todo' = EntriesOf(image', s)
  PROVE  /\ Pending(s)'
         /\ s = "plt" => \A k \in 1..Len(todo') - 1 : todo'[k] \in ToSet(image'.plt)
<1>1. image' \in Images
  BY DEF TypeOK
<1>2. CASE s = "android"
  BY <1>1, <1>2, RelocationsOf DEF Pending, EntriesOf, First
<1>3. CASE s \in {"plt", "dyn"}
  <2>1. /\ image'[s] \in Seq(Relocations) /\ First(s) = 2
        /\ \E beyond \in Relocations : todo' = PlainEntries(image'[s], beyond)
    BY <1>1, <1>3, RelocationsOf DEF EntriesOf, First
  <2>2. /\ Len(image'[s]) \in Nat /\ (image'[s] # <<>> => Len(todo') = Len(image'[s]))
        /\ image'[s] = <<>> => todo' = <<>>
        /\ \A k \in 1..Len(image'[s]) - 1 : todo'[k] = image'[s][k + 1]
    <3>1. PICK beyond \in Relocations : todo' = PlainEntries(image'[s], beyond)
      BY <2>1
    <3>2. Len(image'[s]) \in Nat
      BY <2>1
    <3>3. /\ image'[s] # <<>> => /\ Len(todo') = Len(image'[s])
                                /\ \A k \in 1..Len(image'[s]) - 1 : todo'[k] = image'[s][k + 1]
          /\ image'[s] = <<>> => todo' = <<>>
      <4>1. image'[s] \in Seq(Relocations)
        BY <2>1
      <4>2. image'[s] # <<>> => Len(PlainEntries(image'[s], beyond)) = Len(image'[s])
        BY <4>1, PlainReturns
      <4>3. image'[s] # <<>> => \A k \in 1..Len(image'[s]) - 1 : PlainEntries(image'[s], beyond)[k] = image'[s][k + 1]
        BY <4>1, PlainReturns
      <4>4. image'[s] = <<>> => PlainEntries(image'[s], beyond) = <<>>
        BY <4>1, PlainReturns
      <4> QED
        BY <3>1, <4>2, <4>3, <4>4
    <3> QED
      BY <3>2, <3>3, EmptySeq
  <2>3. ASSUME NEW i \in 2..Len(image'[s]) PROVE \E k \in 1..Len(todo') : todo'[k] = image'[s][i]
    <3>1. i - 1 \in 1..Len(todo') /\ todo'[i - 1] = image'[s][i]
      BY <2>1, <2>2, EmptySeq
    <3> QED
      BY <3>1
  <2>4. \A k \in 1..Len(image'[s]) : image'[s][k] \in ToSet(image'[s])
    BY <2>1, ElementsIn
  <2>5. \A k \in 1..Len(todo') - 1 : todo'[k] \in ToSet(image'[s])
    BY <2>1, <2>2, <2>4, EmptySeq
  <2> QED
    BY <2>1, <2>3, <2>5 DEF Pending
<1> QED
  BY <1>2, <1>3 DEF Sections

\* Advance, when the slot in hand is hooked.
LEMMA AdvanceStep ==
  ASSUME TypeOK, TypeOK', [Next]_vars, CompleteInv, Advance, pc = "entry" \/ InReplace, todo # <<>>,
         Matches(Head(todo), section), mem'[slot] = hook.new
  PROVE  CompleteInv'
<1> USE DEF slot
<1>1. pc # "idle" /\ section \in Sections /\ "plt" \in Sections /\ "dyn" \in Sections
  BY DEF InReplace, TypeOK, Sections
<1>2. pc' = "entry" /\ UNCHANGED section /\ HookComplete'
  BY DEF Advance, HookComplete
<1>3. section # "plt" => Hooked("plt")'
  BY <1>1, HookedStays DEF CompleteInv
<1>4. section = "android" => Hooked("dyn")'
  BY <1>1, HookedStays DEF CompleteInv
<1>5. CASE section = "plt"
  <2>1. todo' = <<>> /\ Hooked("plt")'
    BY <1>5, PltDone DEF Advance
  <2> QED
    BY <1>2, <1>5, <2>1 DEF CompleteInv, Pending, Hooked, InReplace
<1>6. CASE section # "plt"
  <2>1. Pending(section) /\ todo' = Tail(todo)
    BY <1>6 DEF Advance, CompleteInv
  <2>2. Pending(section)'
    BY <1>1, <1>2, <2>1, PendingTail
  <2> QED
    BY <1>2, <1>3, <1>4, <1>6, <2>2 DEF CompleteInv, InReplace
<1> QED
  BY <1>5, <1>6

LEMMA CompleteStep == TypeOK /\ TypeOK' /\ ReplaceInv /\ CompleteInv /\ [Next]_vars => CompleteInv'
<1> SUFFICES ASSUME TypeOK, TypeOK', ReplaceInv, CompleteInv, [Next]_vars PROVE CompleteInv'
  OBVIOUS
<1>0. section \in Sections /\ "plt" \in Sections /\ "dyn" \in Sections /\ "android" \in Sections
  BY DEF TypeOK, Sections
<1>1. ASSUME NEW h \in Hooks, Begin(h) PROVE CompleteInv'
  <2>1. todo' = EntriesOf(image', "plt") /\ section' = "plt" /\ pc' = "entry"
    BY <1>1 DEF Begin, EntriesOf
  <2> QED
    BY <1>0, <2>1, AllPending DEF CompleteInv, HookComplete
<1>2. CASE NextSection
  <2>1. todo' = EntriesOf(image', section') /\ pc = "entry" /\ pc' = "entry"
    BY <1>2 DEF NextSection, Entries
  <2>2. (section' = "dyn" /\ section = "plt") \/ (section' = "android" /\ section = "dyn")
    <3>1. section # "android" /\ section' = IF section = "plt" THEN "dyn" ELSE "android"
      BY <1>2 DEF NextSection
    <3> QED
      BY <1>0, <3>1 DEF Sections
  <2>3. Hooked(section)
    BY <1>0, <1>2, NothingPending DEF NextSection, CompleteInv
  <2>4. CASE section' = "dyn" /\ section = "plt"
    <3>1. Hooked("plt")' /\ Pending("dyn")'
      BY <1>0, <2>1, <2>3, <2>4, HookedStays, AllPending
    <3> QED
      BY <2>1, <2>4, <3>1 DEF CompleteInv, HookComplete
  <2>5. CASE section' = "android" /\ section = "dyn"
    <3>1. Hooked("plt")' /\ Hooked("dyn")' /\ Pending("android")'
      BY <1>0, <2>1, <2>3, <2>5, HookedStays, AllPending DEF CompleteInv
    <3> QED
      BY <2>1, <2>5, <3>1 DEF CompleteInv, HookComplete
  <2> QED
    BY <2>2, <2>4, <2>5
<1>3. CASE Skip
  <2>1. /\ pc = "entry" /\ pc' = "entry" /\ todo # <<>> /\ todo' = Tail(todo)
        /\ ~Matches(Head(todo), section) /\ UNCHANGED <<section, image>>
    BY <1>3 DEF Skip
  <2>2. Pending(section)'
    BY <1>0, <2>1, PendingTail DEF CompleteInv
  <2>3. (section # "plt" => Hooked("plt")') /\ (section = "android" => Hooked("dyn")')
    BY <1>0, <2>1, HookedStays DEF CompleteInv
  <2>4. ASSUME section = "plt" PROVE \A k \in 1..Len(todo') - 1 : todo'[k] \in ToSet(image.plt)
    <3>1. /\ Len(todo) \in Nat \ {0} /\ Len(Tail(todo)) = Len(todo) - 1
          /\ \A k \in 1..Len(Tail(todo)) : Tail(todo)[k] = todo[k + 1]
      BY <2>1, HeadTailProperties, EmptySeq DEF TypeOK
    <3>2. \A k \in 1..Len(todo) - 1 : todo[k] \in ToSet(image.plt)
      BY <2>1, <2>4 DEF CompleteInv
    <3> QED
      BY <2>1, <3>1, <3>2
  <2> QED
    BY <2>1, <2>2, <2>3, <2>4 DEF CompleteInv, HookComplete
<1>4. CASE Already
  <2>1. /\ Advance /\ pc = "entry" /\ todo # <<>> /\ Matches(Head(todo), section) /\ mem'[slot] = hook.new
    BY <1>4 DEF Already, Found, Matching
  <2> QED
    BY <2>1, AdvanceStep
<1>5. CASE Write
  <2>1. /\ InReplace /\ todo # <<>> /\ Matches(Head(todo), section) /\ mem'[slot] = hook.new
    BY <1>5, HeadTyped DEF Write, InReplace, ReplaceInv, TypeOK
  <2>2. CASE oldProt = RW
    BY <1>5, <2>1, <2>2, AdvanceStep DEF Write
  <2>3. CASE oldProt # RW
    <3>1. pc # "idle" /\ pc' = "restore" /\ UNCHANGED <<image, section, todo>>
      BY <1>5, <2>3 DEF Write
    <3>2. /\ Pending(section)' /\ (section # "plt" => Hooked("plt")')
          /\ (section = "android" => Hooked("dyn")')
      BY <1>0, <2>1, <3>1, PendingStays, HookedStays DEF CompleteInv
    <3>3. slot' = slot /\ hook' = hook
      BY <3>1, SamePage, StaysHooked
    <3> QED
      BY <2>1, <3>1, <3>2, <3>3 DEF CompleteInv, HookComplete
  <2> QED
    BY <2>2, <2>3
<1>6. CASE Restore
  <2>1. /\ Advance /\ InReplace /\ todo # <<>> /\ Matches(Head(todo), section) /\ mem'[slot] = hook.new
    BY <1>6 DEF Restore, InReplace, ReplaceInv, TypeOK, CompleteInv
  <2> QED
    BY <2>1, AdvanceStep
<1>7. CASE ReturnOk
  <2>1. pc # "idle" /\ pc' = "ok" /\ Hooked("android") /\ Hooked("plt") /\ Hooked("dyn")
    BY <1>0, <1>7, NothingPending DEF ReturnOk, Leave, CompleteInv
  <2>2. Hooked("android")' /\ Hooked("plt")' /\ Hooked("dyn")'
    BY <1>0, <2>1, HookedStays
  <2> QED
    BY <2>1, <2>2 DEF CompleteInv, HookComplete, Hooked, First, SlotsFrom, InReplace
<1>8. CASE GetProtection \/ Unprotect \/ Save
  <2>1. /\ pc = "entry" \/ InReplace
        /\ pc # "idle" /\ pc' \in {"unprotect", "save", "write"}
        /\ UNCHANGED <<image, section, todo>>
    BY <1>8 DEF GetProtection, ToReplace, Found, Matching, Unprotect, Save, InReplace
  <2>2. /\ Pending(section)' /\ (section # "plt" => Hooked("plt")')
        /\ (section = "android" => Hooked("dyn")')
    BY <1>0, <2>1, PendingStays, HookedStays DEF CompleteInv
  <2> QED
    BY <2>1, <2>2 DEF CompleteInv, HookComplete
<1>9. CASE BelowBase \/ NoProtection \/ UnprotectRefused \/ Fault \/ Done \/ \E h \in Hooks : Missing(h)
  <2>1. pc' \in {"error", "fault", "idle"}
    BY <1>9 DEF BelowBase, NoProtection, UnprotectRefused, Fault, Done, Missing, Leave
  <2> QED
    BY <2>1 DEF CompleteInv, HookComplete, InReplace
<1>10. CASE UNCHANGED vars \/ \E p \in Pages, q \in Prots : Protect(p, q)
  <2>1. UNCHANGED <<image, mem, pc, hook, section, todo>>
    BY <1>10 DEF vars, Protect
  <2> QED
    BY <2>1 DEF CompleteInv, HookComplete, SlotsFrom, Pending, Hooked, Matches, InReplace, slot
<1> QED
  BY <1>1, <1>2, <1>3, <1>4, <1>5, <1>6, <1>7, <1>8, <1>9, <1>10 DEF Next, HookStep

\* A call that returns 0 has replaced every slot of the symbol that the
\* iterators return, whatever was hooked or cut short before.
THEOREM AllHooked == Spec => []HookComplete
<1>1. Init => CompleteInv /\ ReplaceInv
  BY DEF Init, CompleteInv, HookComplete, ReplaceInv, InReplace
<1>2. CompleteInv => HookComplete
  BY DEF CompleteInv
<1>3. TypeOK /\ [Next]_vars => TypeOK'
  BY TypeStep
<1> QED
  BY <1>1, <1>2, <1>3, ElfTyping, ReplaceStep, CompleteStep, PTL DEF Spec
=============================================================================
