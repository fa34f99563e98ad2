------------------------------- MODULE XhElf -------------------------------
(***************************************************************************)
(* xh_elf_hook of xHook/xh_elf.c with what it calls: the relocation        *)
(* iterators, xh_elf_find_and_replace_func, xh_elf_replace_function and    *)
(* the page protection of xHook/xh_util.c.  The image of one library stays *)
(* loaded; hook calls are made on it one after another, while another      *)
(* thread of the process may change the protection of its pages.           *)
(*                                                                         *)
(* A relocation is [sym, type, slot]: symbol index and type from r_info,   *)
(* and the pointer that bias_addr + r_offset designates, its slot.         *)
(***************************************************************************)
EXTENDS Naturals, Sequences, FiniteSets, SequencesExt

CONSTANTS
  Images,      \* sets of tables [syms, plt, dyn, android, afterPlt, afterDyn]
  Hooks,       \* [sym, new]: the symbol and new_func arguments
  Slots,       \* pointers the relocations designate
  PageOf,      \* slot -> page
  Pages,
  Below,       \* slots at an address below the base address of the library
  Named,       \* pages whose line in the maps file bears the pathname
  Prots,       \* protections a page can have, subsets of {"r", "w", "x"}
  MaxCalls,    \* bound on hook calls
  MaxTouches   \* bound on protection changes by the other thread

RW == {"r", "w"}
Funcs == {h.new : h \in Hooks}

ASSUME ElfAssumption ==
  /\ PageOf \in [Slots -> Pages] /\ Named \subseteq Pages /\ Below \subseteq Slots
  /\ RW \in Prots /\ Prots \subseteq SUBSET {"r", "w", "x"}
  /\ \A s \in Slots : s \notin Funcs
  /\ "null" \notin Funcs \cup Slots
  /\ MaxCalls \in Nat /\ MaxTouches \in Nat

-----------------------------------------------------------------------------
(* What the iterators return.                                              *)

Sections == {"plt", "dyn", "android"}

\* xh_elf_plain_reloc_iterator_next advances before it returns: the first entry
\* is passed over, and the last one returned is what lies beyond the table.
PlainEntries(table, beyond) ==
  IF table = <<>> THEN <<>> ELSE Append(Tail(table), beyond)

EntriesOf(i, s) ==
  CASE s = "plt"     -> PlainEntries(i.plt, i.afterPlt)
    [] s = "dyn"     -> PlainEntries(i.dyn, i.afterDyn)
    [] s = "android" -> i.android

TypesOf(s) == IF s = "plt" THEN {"JUMP_SLOT"} ELSE {"GLOB_DAT", "ABS"}

Relocations ==
  UNION {ToSet(i.plt) \cup ToSet(i.dyn) \cup ToSet(i.android) \cup {i.afterPlt, i.afterDyn} : i \in Images}

\* Tables are sequences of relocations, and each relocation has a slot.
ASSUME TableAssumption ==
  /\ \A i \in Images : i.plt \in Seq(Relocations) /\ i.dyn \in Seq(Relocations) /\ i.android \in Seq(Relocations)
  /\ \A r \in Relocations : r.slot \in Slots

\* A linker gives no slot to two symbols, and a symbol one slot in .rel(a).plt;
\* the bytes beyond a table do not read like a relocation to the contrary.
ASSUME LinkerAssumption ==
  \A i \in Images :
    /\ \A s, u \in Sections : \A r \in ToSet(EntriesOf(i, s)), q \in ToSet(EntriesOf(i, u)) :
         r.type \in TypesOf(s) /\ q.type \in TypesOf(u) /\ r.slot = q.slot => r.sym = q.sym
    /\ \A r, q \in ToSet(i.plt) :
         r.type \in TypesOf("plt") /\ q.type \in TypesOf("plt") /\ r.sym = q.sym => r.slot = q.slot

-----------------------------------------------------------------------------
VARIABLES
  image,     \* the tables of the library, fixed
  mem,       \* what each slot holds: the slot's own name for its first value
  prot,      \* the protection of each page
  old,       \* *old_func of each hook
  pc,        \* where the hook call is
  hook,      \* its arguments
  section,   \* the table it is reading
  todo,      \* the entries the iterator has still to return
  oldProt,   \* old_prot of xh_elf_replace_function
  calls, touches,
  startProt, \* history: the protections when the call began
  touched    \* history: pages changed by others during the call, or by a
             \* restore that failed

memory == <<mem, prot, old>>
cursor == <<pc, section, todo, oldProt>>
vars == <<image, memory, cursor, hook, calls, touches, startProt, touched>>

Init ==
  /\ image \in Images
  /\ mem = [s \in Slots |-> s]
  /\ prot \in [Pages -> Prots]
  /\ old = [f \in Funcs |-> "null"]
  /\ pc = "idle" /\ hook \in Hooks
  /\ section = "plt" /\ todo = <<>> /\ oldProt = {}
  /\ calls = 0 /\ touches = 0
  /\ startProt = prot /\ touched = {}

-----------------------------------------------------------------------------
(* What xh_elf_hook looks for.                                             *)

Entries(s) == EntriesOf(image, s)

Matches(r, s) == r.sym = hook.sym /\ r.type \in TypesOf(s)

-----------------------------------------------------------------------------
(* xh_elf_hook.                                                            *)

Begin(h) ==
  /\ pc = "idle" /\ calls < MaxCalls
  /\ h.sym \in image.syms
  /\ hook' = h
  /\ pc' = "entry" /\ section' = "plt"
  /\ todo' = PlainEntries(image.plt, image.afterPlt)
  /\ calls' = calls + 1
  /\ startProt' = prot /\ touched' = {}
  /\ UNCHANGED <<image, memory, oldProt, touches>>

\* A symbol that is not in the tables is no error, and changes nothing.
Missing(h) ==
  /\ pc = "idle" /\ calls < MaxCalls
  /\ h.sym \notin image.syms
  /\ calls' = calls + 1
  /\ UNCHANGED <<image, memory, cursor, hook, touches, startProt, touched>>

NextSection ==
  /\ pc = "entry" /\ todo = <<>> /\ section # "android"
  /\ section' = IF section = "plt" THEN "dyn" ELSE "android"
  /\ todo' = Entries(section')
  /\ UNCHANGED <<image, memory, pc, oldProt, hook, calls, touches, startProt, touched>>

\* The call ends with the given outcome; everything local to it is gone.
Leave(outcome) ==
  /\ pc' = outcome
  /\ section' = "plt" /\ todo' = <<>> /\ oldProt' = {}
  /\ UNCHANGED <<image, hook, calls, touches, startProt, touched>>

ReturnOk ==
  /\ pc = "entry" /\ todo = <<>> /\ section = "android"
  /\ Leave("ok")
  /\ UNCHANGED memory

Skip ==
  /\ pc = "entry" /\ todo # <<>>
  /\ ~Matches(Head(todo), section)
  /\ todo' = Tail(todo)
  /\ UNCHANGED <<image, memory, pc, section, oldProt, hook, calls, touches, startProt, touched>>

slot == Head(todo).slot
page == PageOf[slot]

Matching == pc = "entry" /\ todo # <<>> /\ Matches(Head(todo), section)

\* The address of the slot makes no sense: XH_ERRNO_FORMAT.
BelowBase ==
  /\ Matching
  /\ slot \in Below
  /\ Leave("error")
  /\ UNCHANGED memory

Found == Matching /\ slot \notin Below

\* Mutant of Advance: the search ends at the first in every section.
AdvanceFirst ==
  /\ pc' = "entry"
  /\ todo' = <<>>
  /\ oldProt' = {}
  /\ UNCHANGED <<image, section, hook, calls, touches, startProt>>

\* The relocation is dealt with; the search in .rel(a).plt ends at the first.
Advance ==
  /\ pc' = "entry"
  /\ todo' = IF section = "plt" THEN <<>> ELSE Tail(todo)
  /\ oldProt' = {}
  /\ UNCHANGED <<image, section, hook, calls, touches, startProt>>

Already ==
  /\ Found
  /\ "r" \in prot[page]
  /\ mem[slot] = hook.new
  /\ Advance
  /\ UNCHANGED <<memory, touched>>

\* Mutant of ToReplace: a slot that is hooked is taken for an original.
ToReplaceAlways == Found /\ "r" \in prot[page]

ToReplace == Found /\ "r" \in prot[page] /\ mem[slot] # hook.new

\* xh_util_get_addr_protect only looks at lines that bear the pathname.
NoProtection ==
  /\ ToReplace
  /\ page \notin Named
  /\ Leave("error")
  /\ UNCHANGED memory

\* Mutant of GetProtection: the iterator moves on too early.
GetProtectionAdvanced ==
  /\ ToReplace
  /\ page \in Named
  /\ oldProt' = prot[page]
  /\ pc' = IF prot[page] = RW THEN "save" ELSE "unprotect"
  /\ todo' = Tail(todo)
  /\ UNCHANGED <<image, memory, section, hook, calls, touches, startProt, touched>>

GetProtection ==
  /\ ToReplace
  /\ page \in Named
  /\ oldProt' = prot[page]
  /\ pc' = IF prot[page] = RW THEN "save" ELSE "unprotect"
  /\ UNCHANGED <<image, memory, section, todo, hook, calls, touches, startProt, touched>>

Unprotect ==
  /\ pc = "unprotect"
  /\ prot' = [prot EXCEPT ![page] = RW]
  /\ pc' = "save"
  /\ UNCHANGED <<image, mem, old, section, todo, oldProt, hook, calls, touches, startProt, touched>>

UnprotectRefused ==
  /\ pc = "unprotect"
  /\ Leave("error")
  /\ UNCHANGED memory

Save ==
  /\ pc = "save"
  /\ "r" \in prot[page]
  /\ old' = [old EXCEPT ![hook.new] = mem[slot]]
  /\ pc' = "write"
  /\ UNCHANGED <<image, mem, prot, section, todo, oldProt, hook, calls, touches, startProt, touched>>

Write ==
  /\ pc = "write"
  /\ "w" \in prot[page]
  /\ mem' = [mem EXCEPT ![slot] = hook.new]
  /\ IF oldProt = RW
     THEN Advance
     ELSE pc' = "restore" /\ UNCHANGED <<image, section, todo, oldProt, hook, calls, touches, startProt>>
  /\ UNCHANGED <<prot, old, touched>>

\* Mutant of Restore: the protection is left as it is.
RestoreForgotten ==
  /\ pc = "restore"
  /\ Advance
  /\ UNCHANGED <<memory, touched>>

\* A refused restore is only logged.
Restore ==
  /\ pc = "restore"
  /\ \/ prot' = [prot EXCEPT ![page] = oldProt] /\ UNCHANGED touched
     \/ touched' = touched \cup {page} /\ UNCHANGED prot
  /\ Advance
  /\ UNCHANGED <<mem, old>>

\* The access the code is about to make is not permitted: SIGSEGV, and the
\* handler jumps back to xh_core_hook.
Fault ==
  /\ \/ Found /\ "r" \notin prot[page]
     \/ pc = "save" /\ "r" \notin prot[page]
     \/ pc = "write" /\ "w" \notin prot[page]
  /\ Leave("fault")
  /\ UNCHANGED memory

\* The caller takes notice of the outcome.
Done ==
  /\ pc \in {"ok", "error", "fault"}
  /\ pc' = "idle"
  /\ UNCHANGED <<image, memory, section, todo, oldProt, hook, calls, touches, startProt, touched>>

\* Another thread calls mprotect on a page of the library.
Protect(p, q) ==
  /\ touches < MaxTouches
  /\ touches' = touches + 1
  /\ prot' = [prot EXCEPT ![p] = q]
  /\ touched' = touched \cup {p}
  /\ UNCHANGED <<image, mem, old, cursor, hook, calls, startProt>>

HookStep ==
  \/ NextSection \/ Skip \/ BelowBase \/ Already \/ NoProtection \/ GetProtection
  \/ Unprotect \/ UnprotectRefused \/ Save \/ Write \/ Restore
  \/ ReturnOk \/ Fault \/ Done

Next ==
  \/ \E h \in Hooks : Begin(h) \/ Missing(h)
  \/ HookStep
  \/ \E p \in Pages, q \in Prots : Protect(p, q)

Spec == Init /\ [][Next]_vars

-----------------------------------------------------------------------------
(* Properties.                                                             *)

\* Every variable holds a value the code can store in it.
TypeOK ==
  /\ image \in Images /\ todo \in Seq(Relocations)
  /\ mem \in [Slots -> Slots \cup Funcs]
  /\ prot \in [Pages -> SUBSET {"r", "w", "x"}]
  /\ old \in [Funcs -> Slots \cup Funcs \cup {"null"}]
  /\ pc \in {"idle", "entry", "unprotect", "save", "write", "restore",
             "ok", "error", "fault"}
  /\ hook \in Hooks /\ section \in Sections
  /\ pc \in {"unprotect", "save", "write", "restore"} => todo # <<>>
  /\ oldProt \subseteq {"r", "w", "x"}
  /\ startProt \in [Pages -> SUBSET {"r", "w", "x"}] /\ touched \subseteq Pages
  /\ calls \in 0..MaxCalls /\ touches \in 0..MaxTouches

\* A hook call that returns, with success or an error, leaves every page as
\* protected as it was before, the pages others changed in the meantime aside
\* (xh_elf.c:465-489).  Only a call cut short by a fault does not.
ProtectionRestored ==
  pc \in {"ok", "error"} =>
    \A p \in Pages \ touched : prot[p] = startProt[p]

\* The slots of the symbol in one table, from its n-th entry on.
SlotsFrom(n, table, s) ==
  {table[i].slot : i \in {i \in n..Len(table) : Matches(table[i], s)}}

\* A call that returns 0 has replaced every slot of the symbol that a packed
\* table lists, and every one that a plain table lists after its first entry
\* (xh_elf.c:1001-1039), whatever was hooked, refused or cut short before.
HookComplete ==
  pc = "ok" =>
    \A s \in SlotsFrom(2, image.plt, "plt") \cup SlotsFrom(2, image.dyn, "dyn")
               \cup SlotsFrom(1, image.android, "android") :
      mem[s] = hook.new

\* *old_func of a symbol that one function replaces, which replaces no other, is
\* unset or holds the value one of its slots had before any hook: never the replacement, although calls
\* are repeated after faults and errors (xh_elf.c:456, 476-477).  It is set
\* before the first slot is replaced, so the new function can use it at once.
OldIsOriginal ==
  \A h \in Hooks : (\A g \in Hooks : g.sym = h.sym \/ g.new = h.new => g = h) =>
    /\ old[h.new] \notin Funcs
    /\ (\E s \in Slots : mem[s] = h.new) => old[h.new] # "null"

\* "go through all the .relxxx sections, find the entries whose symbol index
\* and type match, and hook each of them" (XHook.java:13).
AllRelocationsHooked ==
  pc = "ok" =>
    \A s \in SlotsFrom(1, image.plt, "plt") \cup SlotsFrom(1, image.dyn, "dyn")
               \cup SlotsFrom(1, image.android, "android") :
      mem[s] = hook.new
=============================================================================
