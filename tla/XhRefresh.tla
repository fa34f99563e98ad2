----------------------------- MODULE XhRefresh -----------------------------
(***************************************************************************)
(* xh_core_refresh_impl and xh_core_hook_impl of xHook/xh_core.c: one walk *)
(* over /proc/self/maps after another, while the process loads and unloads *)
(* libraries, with xh_core_clear in between.                               *)
(*                                                                         *)
(* One thread refreshes at a time (XhCore), so the walk is a sequential    *)
(* program; what runs beside it is the dynamic linker in other threads.    *)
(* A regular expression is the set of paths it matches.  A library has one *)
(* GOT slot per symbol; XhElf says how xh_elf_hook finds and writes it.    *)
(* The SIGSEGV protection is enabled: touching memory that is not mapped   *)
(* ends the work on the library and the walk goes on.                      *)
(***************************************************************************)
EXTENDS Naturals, Sequences, FiniteSets, SequencesExt

CONSTANTS
  Paths,            \* pathnames of mapped files
  Symbols,
  NoPath,           \* no entry is being hooked
  AllSymbols,       \* the NULL symbol of an ignore info
  HookUniverse,     \* possible hook infos [id, paths, sym]; id: new_func
  IgnoreUniverse,   \* possible ignore infos [paths, sym]
  BasesOf,          \* the even addresses at which each path can be loaded
  InitialBase,      \* where the paths are before the first call, 0 if nowhere
  Twice,            \* paths whose file is mapped a second time, higher up
  NotElf,           \* mapped files without an ELF header
  BadElf,           \* ELF files that xh_elf_init refuses
  ConcurrentLoads,  \* libraries come and go during a walk as well
  MaxLoads,         \* bound on dlopen
  MaxInfos          \* bound on the infos registered between two clears

Funcs == {h.id : h \in HookUniverse}

ASSUME RefreshAssumption ==
  /\ IsFiniteSet(Paths) /\ IsFiniteSet(HookUniverse)
  /\ \A h \in HookUniverse : h.paths \subseteq Paths /\ h.sym \in Symbols
  /\ \A g, h \in HookUniverse : g.id = h.id => g = h
  /\ {"orig", "null"} \cap Funcs = {}
  /\ \A i \in IgnoreUniverse :
       i.paths \subseteq Paths /\ i.sym \in Symbols \cup {AllSymbols}
  /\ AllSymbols \notin Symbols /\ NoPath \notin Paths
  /\ \A p \in Paths : \A b \in BasesOf[p] : b \in Nat \ {0} /\ b % 2 = 0
  /\ \A p, q \in Paths : p # q => BasesOf[p] \cap BasesOf[q] = {}
  /\ DOMAIN InitialBase = Paths /\ \A p \in Paths : InitialBase[p] \in BasesOf[p] \cup {0}
  /\ ConcurrentLoads \in BOOLEAN /\ MaxLoads \in Nat /\ MaxInfos \in Nat

VARIABLES
  mode,        \* "setup" before the first refresh, "idle", "walk" or "hook"
  hookInfo, ignoreInfo,      \* the two queues, in order of registration
  mapInfo,     \* the map_info tree: path -> base_addr
  refreshed,   \* map_info_refreshed, local to the walk
  lines,       \* the lines of the maps file still to read
  cur, pos,    \* the entry being hooked, the next hook info to try on it
  got,         \* what each slot holds: "orig" or a new_func
  old,         \* the *old_func of each hook info
  base,        \* where the dynamic linker has each path, 0 if nowhere
  loads,       \* dlopen calls so far
  excused      \* history: paths loaded or unloaded behind the walk's back

lists == <<hookInfo, ignoreInfo>>
trees == <<mapInfo, refreshed>>
slots == <<got, old>>
env   == <<base, loads>>
vars  == <<mode, lists, trees, lines, cur, pos, slots, env, excused>>

Empty == [p \in {} |-> 0]   \* the empty tree

Init ==
  /\ mode = "setup"
  /\ hookInfo = <<>> /\ ignoreInfo = <<>>
  /\ mapInfo = Empty /\ refreshed = Empty
  /\ lines = <<>> /\ cur = NoPath /\ pos = 0
  /\ got = [p \in Paths |-> [s \in Symbols |-> "orig"]]
  /\ old = [f \in Funcs |-> "null"]
  /\ base = InitialBase /\ loads = 0
  /\ excused = {}

-----------------------------------------------------------------------------
(* What the lists say of a path.                                           *)

MatchingHooks(p) == {i \in DOMAIN hookInfo : p \in hookInfo[i].paths}

FirstOf(S) == CHOOSE i \in S : \A j \in S : i <= j

\* Both searches of the ignore queue run from its head and end at the first info
\* that matches path p and names all symbols or the symbol of hook info i.
Stopping(i, p) == {k \in DOMAIN ignoreInfo : /\ p \in ignoreInfo[k].paths
                                             /\ ignoreInfo[k].sym \in {AllSymbols, hookInfo[i].sym}}

\* Mutant of Search: only the head of the queue is looked at.
SearchHead(i, p) ==
  IF 1 \notin Stopping(i, p) THEN "hook"
  ELSE IF ignoreInfo[1].sym = AllSymbols THEN "library" ELSE "symbol"

\* What the search says to do with hook info i: hook, or leave out its symbol or
\* the whole library.
Search(i, p) ==
  IF Stopping(i, p) = {} THEN "hook"
  ELSE IF ignoreInfo[FirstOf(Stopping(i, p))].sym = AllSymbols THEN "library" ELSE "symbol"

\* The filter of refresh_impl: the search for a hook info that matches the path
\* ends at the first one, whether an ignore info stops that one or not.
Selected(p) == /\ MatchingHooks(p) # {}
               /\ Search(FirstOf(MatchingHooks(p)), p) = "hook"

-----------------------------------------------------------------------------
(* The maps file and the dynamic linker.                                   *)

MappedAt(p) == IF base[p] = 0 THEN {}
               ELSE {base[p]} \cup (IF p \in Twice THEN {base[p] + 1} ELSE {})

\* Readable private lines of offset 0 with a pathname.
MapsLines == UNION {{p} \X MappedAt(p) : p \in Paths}

\* The file lists them by address.
Listings ==
  {ls \in [1..Cardinality(MapsLines) -> MapsLines] :
     /\ Range(ls) = MapsLines
     /\ \A i, j \in DOMAIN ls : i < j => ls[i][2] < ls[j][2]}

Walking == mode \in {"walk", "hook"}

Dlopen(p, b) ==
  /\ Walking => ConcurrentLoads
  /\ loads < MaxLoads
  /\ base[p] = 0
  /\ base' = [base EXCEPT ![p] = b]
  /\ loads' = loads + 1
  /\ got' = [got EXCEPT ![p] = [s \in Symbols |-> "orig"]]
  /\ excused' = IF Walking \/ (p \in DOMAIN mapInfo /\ mapInfo[p] = b)
                THEN excused \cup {p} ELSE excused
  /\ UNCHANGED <<mode, lists, trees, lines, cur, pos, old>>

Dlclose(p) ==
  /\ Walking => ConcurrentLoads
  /\ base[p] # 0
  /\ base' = [base EXCEPT ![p] = 0]
  /\ got' = [got EXCEPT ![p] = [s \in Symbols |-> "orig"]]
  /\ excused' = IF Walking THEN excused \cup {p} ELSE excused \ {p}
  /\ UNCHANGED <<mode, lists, trees, lines, cur, pos, old, loads>>

-----------------------------------------------------------------------------
(* Registration, and clear.                                                *)

MayAdd == mode = "setup" /\ Len(hookInfo) + Len(ignoreInfo) < MaxInfos

Register(h) ==
  /\ MayAdd
  /\ h \notin Range(hookInfo)
  /\ hookInfo' = Append(hookInfo, h)
  /\ UNCHANGED <<mode, ignoreInfo, trees, lines, cur, pos, slots, env, excused>>

Ignore(g) ==
  /\ MayAdd
  /\ g \notin Range(ignoreInfo)
  /\ ignoreInfo' = Append(ignoreInfo, g)
  /\ UNCHANGED <<mode, hookInfo, trees, lines, cur, pos, slots, env, excused>>

\* The infos and the entries go; what was hooked stays hooked.
Clear ==
  /\ mode = "idle"
  /\ mode' = "setup"
  /\ hookInfo' = <<>> /\ ignoreInfo' = <<>>
  /\ mapInfo' = Empty
  /\ excused' = {}
  /\ UNCHANGED <<refreshed, lines, cur, pos, slots, env>>

-----------------------------------------------------------------------------
(* The walk.                                                               *)

Begin ==
  /\ mode \in {"setup", "idle"}
  /\ mode' = "walk"
  /\ lines' \in Listings
  /\ refreshed' = Empty
  /\ excused' = {p \in excused \cap DOMAIN mapInfo : mapInfo[p] = base[p]}
  /\ UNCHANGED <<lists, mapInfo, cur, pos, slots, env>>

\* The maps file cannot be opened: nothing is done.
NoMaps ==
  /\ mode \in {"setup", "idle"}
  /\ mode' = "idle"
  /\ UNCHANGED <<lists, trees, lines, cur, pos, slots, env, excused>>

\* The header check reads the memory: a line that is stale by now, or the
\* mapping of something else, is passed over.
HeaderOk(p, b) == p \notin NotElf /\ b \in MappedAt(p)

path == Head(lines)[1]   \* of the line being read
addr == Head(lines)[2]

NextLine ==
  /\ mode = "walk"
  /\ lines # <<>>
  /\ lines' = Tail(lines)

SkipLine ==
  /\ NextLine
  /\ ~(Selected(path) /\ HeaderOk(path, addr))
  /\ UNCHANGED <<mode, lists, trees, cur, pos, slots, env, excused>>

StartHooking(p) == mode' = "hook" /\ cur' = p /\ pos' = 1

With(tree, p, b) == [q \in DOMAIN tree \cup {p} |-> IF q = p THEN b ELSE tree[q]]
Without(tree, p) == [q \in DOMAIN tree \ {p} |-> tree[q]]

\* Mutants of KnownLine: the entry is not taken out of the old tree; a new base
\* address is not noticed.
KnownLineNotRemoved ==
  /\ NextLine
  /\ Selected(path) /\ HeaderOk(path, addr)
  /\ path \in DOMAIN mapInfo
  /\ refreshed' = IF path \in DOMAIN refreshed THEN refreshed ELSE With(refreshed, path, addr)
  /\ IF mapInfo[path] # addr THEN StartHooking(path) ELSE UNCHANGED <<mode, cur, pos>>
  /\ UNCHANGED <<lists, mapInfo, slots, env, excused>>

KnownLineStale ==
  /\ NextLine
  /\ Selected(path) /\ HeaderOk(path, addr)
  /\ path \in DOMAIN mapInfo
  /\ refreshed' = With(refreshed, path, mapInfo[path])
  /\ mapInfo' = Without(mapInfo, path)
  /\ UNCHANGED <<mode, cur, pos, lists, slots, env, excused>>

\* The path has an entry: it moves to the new tree, unless the new tree has one
\* already, and is hooked again if the library is at another address now.
KnownLine ==
  /\ NextLine
  /\ Selected(path) /\ HeaderOk(path, addr)
  /\ path \in DOMAIN mapInfo
  /\ mapInfo' = Without(mapInfo, path)
  /\ refreshed' = IF path \in DOMAIN refreshed THEN refreshed ELSE With(refreshed, path, addr)
  /\ IF path \notin DOMAIN refreshed /\ mapInfo[path] # addr
     THEN StartHooking(path)
     ELSE UNCHANGED <<mode, cur, pos>>
  /\ UNCHANGED <<lists, slots, env, excused>>

\* Mutant of NewLine: the last line of a path is kept, not the first.
NewLineLast ==
  /\ NextLine
  /\ Selected(path) /\ HeaderOk(path, addr)
  /\ path \notin DOMAIN mapInfo
  /\ refreshed' = With(refreshed, path, addr)
  /\ StartHooking(path)
  /\ UNCHANGED <<lists, mapInfo, slots, env, excused>>

\* The path is new: it gets an entry and is hooked, unless an earlier line of
\* this walk gave it one.
NewLine ==
  /\ NextLine
  /\ Selected(path) /\ HeaderOk(path, addr)
  /\ path \notin DOMAIN mapInfo
  /\ IF path \in DOMAIN refreshed
     THEN UNCHANGED <<refreshed, mode, cur, pos>>
     ELSE refreshed' = With(refreshed, path, addr) /\ StartHooking(path)
  /\ UNCHANGED <<lists, mapInfo, slots, env, excused>>

\* There is no memory for the entry, and the line is passed over.
NoMemory ==
  /\ NextLine
  /\ Selected(path) /\ HeaderOk(path, addr)
  /\ path \notin DOMAIN mapInfo
  /\ excused' = excused \cup {path}
  /\ UNCHANGED <<mode, lists, trees, cur, pos, slots, env>>

\* The entries no line was found for are freed, and the new tree replaces the
\* old one.
End ==
  /\ mode = "walk" /\ lines = <<>>
  /\ mapInfo' = refreshed
  /\ refreshed' = Empty
  /\ mode' = "idle"
  /\ UNCHANGED <<lists, lines, cur, pos, slots, env, excused>>

-----------------------------------------------------------------------------
(* xh_core_hook_impl on the entry cur, one hook info per step.             *)

Readable == base[cur] # 0 /\ refreshed[cur] = base[cur] /\ cur \notin BadElf

Stop == /\ mode' = "walk" /\ cur' = NoPath /\ pos' = 0
        /\ UNCHANGED <<lists, trees, lines, slots, env, excused>>

\* xh_elf_init refuses the file (or what is mapped at the wrong address), or the
\* library goes away in mid-work and the
\* SIGSEGV handler jumps out.
HookAbort == mode = "hook" /\ ~Readable /\ Stop

HookDone == mode = "hook" /\ Readable /\ pos > Len(hookInfo) /\ Stop

Trying(i) == mode = "hook" /\ Readable /\ pos = i /\ i <= Len(hookInfo)

\* An ignore info for all symbols ends the work on the library.
HookStopped(i) ==
  /\ Trying(i)
  /\ i \in MatchingHooks(cur)
  /\ Search(i, cur) = "library"
  /\ Stop

HookSkipped(i) ==
  /\ Trying(i)
  /\ i \notin MatchingHooks(cur) \/ Search(i, cur) = "symbol"
  /\ pos' = pos + 1
  /\ UNCHANGED <<mode, lists, trees, lines, cur, slots, env, excused>>

\* Mutant of Replace: a slot that holds new_func already is replaced again.
ReplaceAgain(p, h) ==
  /\ old' = [old EXCEPT ![h.id] = got[p][h.sym]]
  /\ got' = [got EXCEPT ![p][h.sym] = h.id]

\* xh_elf_replace_function: nothing to do on a slot that holds new_func.
Replace(p, h) ==
  IF got[p][h.sym] = h.id
  THEN UNCHANGED slots
  ELSE /\ old' = [old EXCEPT ![h.id] = got[p][h.sym]]
       /\ got' = [got EXCEPT ![p][h.sym] = h.id]

Hook(i) ==
  /\ Trying(i)
  /\ i \in MatchingHooks(cur)
  /\ Search(i, cur) = "hook"
  /\ Replace(cur, hookInfo[i])
  /\ pos' = pos + 1
  /\ UNCHANGED <<mode, lists, trees, lines, cur, env, excused>>

-----------------------------------------------------------------------------

Walk ==
  \/ Begin \/ NoMaps
  \/ SkipLine \/ KnownLine \/ NewLine \/ NoMemory
  \/ End
  \/ HookAbort \/ HookDone
  \/ \E i \in DOMAIN hookInfo : HookStopped(i) \/ HookSkipped(i) \/ Hook(i)

Next ==
  \/ Walk
  \/ \E h \in HookUniverse : Register(h)
  \/ \E g \in IgnoreUniverse : Ignore(g)
  \/ Clear
  \/ \E p \in Paths : Dlclose(p) \/ \E b \in BasesOf[p] : Dlopen(p, b)

Spec == Init /\ [][Next]_vars
-----------------------------------------------------------------------------
(* Invariants.                                                             *)

\* Every variable holds a value the code can store in it.
TypeOK ==
  /\ mode \in {"setup", "idle", "walk", "hook"}
  /\ hookInfo \in Seq(HookUniverse) /\ ignoreInfo \in Seq(IgnoreUniverse)
  /\ DOMAIN mapInfo \subseteq Paths /\ DOMAIN refreshed \subseteq Paths
  /\ IF mode = "hook" THEN cur \in DOMAIN refreshed /\ pos \in 1..(Len(hookInfo) + 1)
                     ELSE cur = NoPath /\ pos = 0
  /\ got \in [Paths -> [Symbols -> Funcs \cup {"orig"}]]
  /\ old \in [Funcs -> Funcs \cup {"orig", "null"}]
  /\ DOMAIN base = Paths /\ \A p \in Paths : base[p] \in BasesOf[p] \cup {0}
  /\ excused \subseteq Paths

\* No path is in the old tree and in the new one: the entry that "repeated map
\* info when update" (xh_core.c:397-405) would free is never the one in use,
\* and the free of the missing entries (444-452) frees no live one.
TreesDisjoint == DOMAIN mapInfo \cap DOMAIN refreshed = {}

\* The ignore infos that name path p, wherever they stand in the queue.
MatchingIgnores(p) == {ignoreInfo[k] : k \in {k \in DOMAIN ignoreInfo : p \in ignoreInfo[k].paths}}

\* A library an ignore info names for all its symbols has no entry in either
\* tree, whatever hook infos ask for it and whatever stands before the ignore
\* info in the queue: the filter of refresh_impl asks about its first hook info
\* only (xh_core.c:357-382), and a clear may have come since the last walk.  So
\* the return of xh_core_hook_impl (266) never leaves a library half hooked.
IgnoredHasNoEntry ==
  \A p \in Paths : AllSymbols \in {g.sym : g \in MatchingIgnores(p)} =>
    p \notin DOMAIN mapInfo \cup DOMAIN refreshed

\* The symbols only one function of the application ever replaces.
SingleHook(s) == \E h \in HookUniverse : {g \in HookUniverse : g.sym = s} = {h}

\* Calling through a slot, and from each new_func through its *old_func, comes
\* to the original function, over every history of refreshes, reloads and
\* clears, for the symbols that one function replaces (xh_elf.c:466, 480-481:
\* a slot that is hooked already must not be taken for the original).
ChainReachesOriginal ==
  \A p \in Paths, s \in Symbols : SingleHook(s) =>
    LET reached[n \in 0..Cardinality(Funcs)] ==
          IF n = 0 THEN got[p][s]
          ELSE IF reached[n - 1] \in Funcs THEN old[reached[n - 1]]
          ELSE reached[n - 1]
    IN reached[Cardinality(Funcs)] = "orig"

-----------------------------------------------------------------------------
(* Action properties.                                                      *)

Ended == mode = "walk" /\ mode' = "idle"

\* The paths a refresh answers for: nothing was loaded, unloaded or refused
\* memory under it, and the file is an ELF file.
Steady == Paths \ (excused \cup NotElf)

\* After a refresh there is an entry for exactly the selected libraries that
\* are mapped, with the address the dynamic linker loaded them at, although
\* lines of the same file repeat ("We only keep the first one, that is the
\* real base address", xh_core.c:396, 426) and libraries move and go (407, 443).
EntriesExact ==
  [][Ended => \A p \in Steady :
       /\ p \in DOMAIN mapInfo' <=> base[p] # 0 /\ Selected(p)
       /\ p \in DOMAIN mapInfo' => mapInfo'[p] = base[p]]_vars

\* The ignore infos that stop hook info i on path p, in whatever order.
Ignores(i, p) == {g \in MatchingIgnores(p) : g.sym \in {AllSymbols, hookInfo[i].sym}}

\* The infos that ask for slot s of p, no ignore info stopping them.
Asking(p, s) == {i \in MatchingHooks(p) : hookInfo[i].sym = s /\ Ignores(i, p) = {}}

LastOf(S) == CHOOSE i \in S : \A j \in S : j <= i

\* Slot s of p holds what the last of them says, if there is one.
HookedAsAsked(p, s) ==
  Asking(p, s) # {} => got[p][s] = hookInfo[LastOf(Asking(p, s))].id

\* After a refresh every mapped library that the filter selects has all its
\* slots hooked as asked, the ones hooked by an earlier refresh and not touched
\* by this one included (xh_core.c:408 re-hooks only what has moved).
RefreshHooks ==
  [][Ended => \A p \in Steady \ BadElf, s \in Symbols :
       base[p] # 0 /\ Selected(p) => HookedAsAsked(p, s)]_vars

\* What the comments of the two ignore tests say, "ignore all symbols" and
\* "ignore the current symbol" (xh_core.c:266, 269): an ignore info for one
\* symbol stops that symbol and no other.  The filter of refresh_impl breaks it:
\* its check_continue leaves the search instead of trying the next hook info.
IgnoresOnlyTheSymbol ==
  [][Ended => \A p \in Steady \ BadElf, s \in Symbols :
       base[p] # 0 => HookedAsAsked(p, s)]_vars
=============================================================================
