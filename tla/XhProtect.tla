----------------------------- MODULE XhProtect -----------------------------
(* The page protection helpers of xHook/xh_util.c, as xh_elf_replace_function *)
(* uses them on the word at an address: the protection is read line by line   *)
(* from the maps file, ReadWrite is set on the pages the word covers, and what was   *)
(* read is set again.                                                         *)
EXTENDS Integers, Sequences, FiniteSets

CONSTANTS PageSize, WordSize,
          MapsFiles,           \* sequences of lines
          Addresses

MapsLine == [start : Nat, end : Nat, perm : SUBSET {"r", "w", "x"}, private : BOOLEAN, named : BOOLEAN]

\* The lines of a maps file are whole pages, in the order of their addresses.
ASSUME ProtectAssumption ==
  /\ PageSize \in Nat \ {0} /\ WordSize \in Nat \ {0} /\ Addresses \subseteq Nat
  /\ \A ms \in MapsFiles :
       /\ ms \in Seq(MapsLine)
       /\ \A i \in 1..Len(ms) : /\ ms[i].start % PageSize = 0 /\ ms[i].end % PageSize = 0
                                /\ ms[i].start < ms[i].end
       /\ \A i, j \in 1..Len(ms) : i < j => ms[i].end <= ms[j].start

VARIABLES maps,                \* the lines of the maps file
          addr,                \* the address of the word
          scan,                \* xh_util_get_mem_protect: next line, start_addr, prot, load0, found
          pageProt,            \* the protection of every page
          at                   \* "scan", "set", "restore", "done", "error"

protectVars == <<maps, addr, scan, pageProt, at>>

ReadWrite == {"r", "w"}
Bytes == addr..(addr + WordSize - 1)
PageAt(a) == a \div PageSize
Covered == {PageAt(a) : a \in Bytes}             \* PAGE_START(addr) up to PAGE_END(addr)
LineOf(ms, p) == {i \in 1..Len(ms) : ms[i].start <= p * PageSize /\ p * PageSize < ms[i].end}
Protection(ms) == [p \in UNION {PageAt(ms[i].start)..PageAt(ms[i].end - 1) : i \in 1..Len(ms)} |->
                     ms[CHOOSE i \in LineOf(ms, p) : TRUE].perm]

ProtectInit(files, addrs) ==
  /\ maps \in files /\ addr \in addrs
  /\ scan = [line |-> 1, start |-> addr, prot |-> {}, load0 |-> TRUE]
  /\ pageProt = Protection(maps) /\ at = "scan"

\* The line says nothing about the word: not the library, shared, or elsewhere.
Elsewhere(l) == ~l.named \/ ~l.private \/ ~(l.start <= scan.start /\ scan.start < l.end)

SkipLine ==
  /\ at = "scan" /\ scan.line <= Len(maps)
  /\ Elsewhere(maps[scan.line])
  /\ scan' = [scan EXCEPT !.line = @ + 1]
  /\ UNCHANGED <<maps, addr, pageProt, at>>

\* Mutant of Combined: the last line decides.
CombinedLast(l) == l.perm

\* The rights of all the lines the word lies in.
Combined(l) == IF scan.load0 THEN l.perm ELSE scan.prot \cap l.perm

TakeLine ==
  /\ at = "scan" /\ scan.line <= Len(maps)
  /\ LET l == maps[scan.line]
     IN /\ ~Elsewhere(l)
        /\ scan' = [scan EXCEPT !.line = @ + 1, !.prot = Combined(l), !.load0 = FALSE, !.start = l.end]
        /\ at' = IF addr + WordSize <= l.end THEN "set" ELSE "scan"
  /\ UNCHANGED <<maps, addr, pageProt>>

NotCovered ==
  /\ at = "scan" /\ scan.line > Len(maps)
  /\ at' = "error"
  /\ UNCHANGED <<maps, addr, scan, pageProt>>

\* xh_util_set_addr_protect: mprotect of all the pages the word is on.
SetProtection(q) == pageProt' = [p \in DOMAIN pageProt |-> IF p \in Covered THEN q ELSE pageProt[p]]

SetRW ==
  /\ at = "set"
  /\ IF scan.prot = ReadWrite THEN UNCHANGED pageProt ELSE SetProtection(ReadWrite)
  /\ at' = "restore"
  /\ UNCHANGED <<maps, addr, scan>>

PutBack ==
  /\ at = "restore"
  /\ IF scan.prot = ReadWrite THEN UNCHANGED pageProt ELSE SetProtection(scan.prot)
  /\ at' = "done"
  /\ UNCHANGED <<maps, addr, scan>>

ProtectNext == SkipLine \/ TakeLine \/ NotCovered \/ SetRW \/ PutBack
-----------------------------------------------------------------------------
\* When the word is written, every byte of it is writable, in a private
\* mapping of the library, although the word may straddle two lines of the maps
\* file; afterwards no page has a right it did not have, and a word on pages of
\* one protection leaves it as it was (xh_util.c:44-114, xh_elf.c:459-489).
WordProtected ==
  LET before == Protection(maps)
  IN /\ at = "restore" =>
          \A p \in Covered : /\ "w" \in pageProt[p]
                             /\ \E i \in LineOf(maps, p) : maps[i].named /\ maps[i].private
     /\ at = "done" => /\ \A p \in DOMAIN before : pageProt[p] \subseteq before[p]
                       /\ Cardinality({before[p] : p \in Covered}) = 1 => pageProt = before
     /\ at = "error" => \E p \in Covered : \A i \in LineOf(maps, p) : ~maps[i].named \/ ~maps[i].private
=============================================================================
