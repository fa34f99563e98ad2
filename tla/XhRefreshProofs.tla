-------------------------- MODULE XhRefreshProofs --------------------------
(***************************************************************************)
(* Proofs about XhRefresh, for any files, symbols and infos, wherever the  *)
(* linker loads the libraries, and any number of walks and of loads.       *)
(***************************************************************************)
EXTENDS XhRefresh, SequenceTheorems, FiniteSetTheorems, TLAPS

\* For the symbols with one function: a slot is not hooked, or calls a function
\* whose *old_func is the original.
ChainInv ==
  \A p \in Paths, h \in HookUniverse : (\A g \in HookUniverse : g.sym = h.sym => g = h) =>
    got[p][h.sym] = "orig" \/ (got[p][h.sym] = h.id /\ old[h.id] = "orig")

USE DEF lists, trees, slots, env

-----------------------------------------------------------------------------
(* Trees.                                                                  *)

\* A tree with one more entry, or one less.
LEMMA TreeWith ==
  ASSUME NEW tree, NEW p, NEW b
  PROVE  DOMAIN With(tree, p, b) = DOMAIN tree \cup {p}
  BY DEF With

LEMMA TreeWithout ==
  ASSUME NEW tree, NEW p
  PROVE  DOMAIN Without(tree, p) = DOMAIN tree \ {p}
  BY DEF Without

LEMMA TreeEmpty == DOMAIN Empty = {}
  BY DEF Empty

\* The filter lets only known paths through.
LEMMA SelectedPath ==
  ASSUME TypeOK, NEW p, Selected(p)
  PROVE  p \in Paths
  BY RefreshAssumption DEF TypeOK, Selected, MatchingHooks

\* A line moves the entry of its path to the new tree, or makes one there.
LEMMA LineMoves ==
  ASSUME KnownLine \/ NewLine
  PROVE  /\ DOMAIN refreshed' = DOMAIN refreshed \cup {path}
         /\ DOMAIN mapInfo' = DOMAIN mapInfo \ {path}
<1>1. \/ refreshed' = refreshed /\ path \in DOMAIN refreshed
      \/ refreshed' = With(refreshed, path, addr)
  BY DEF KnownLine, NewLine
<1>2. \/ mapInfo' = Without(mapInfo, path)
      \/ mapInfo' = mapInfo /\ path \notin DOMAIN mapInfo
  BY DEF KnownLine, NewLine
<1>3. DOMAIN refreshed' = DOMAIN refreshed \cup {path}
  <2>1. CASE refreshed' = With(refreshed, path, addr)
    BY <2>1, TreeWith
  <2> QED
    BY <1>1, <2>1
<1>4. DOMAIN mapInfo' = DOMAIN mapInfo \ {path}
  <2>1. CASE mapInfo' = Without(mapInfo, path)
    BY <2>1, TreeWithout
  <2> QED
    BY <1>2, <2>1
<1> QED
  BY <1>3, <1>4

\* The hook info being tried.
LEMMA TriedInfo ==
  ASSUME TypeOK, NEW i \in DOMAIN hookInfo
  PROVE  hookInfo[i] \in HookUniverse /\ hookInfo[i].sym \in Symbols /\ hookInfo[i].id \in Funcs
         /\ i \in Nat /\ i <= Len(hookInfo)
  BY RefreshAssumption DEF TypeOK, Funcs

-----------------------------------------------------------------------------
(* Typing.                                                                 *)

LEMMA RefreshTypeInit == Init => TypeOK
  BY RefreshAssumption, TreeEmpty, EmptySeq DEF Init, TypeOK

LEMMA RefreshTypeStep == TypeOK /\ [Next]_vars => TypeOK'
<1> SUFFICES ASSUME TypeOK, [Next]_vars PROVE TypeOK'
  OBVIOUS
<1>0. Len(hookInfo) \in Nat
  BY DEF TypeOK
<1>1. CASE Begin
  BY <1>1, TreeEmpty DEF Begin, TypeOK
<1>2. CASE NoMaps
  BY <1>2 DEF NoMaps, TypeOK
<1>3. CASE SkipLine
  BY <1>3 DEF SkipLine, NextLine, TypeOK
<1>4. CASE KnownLine
  <2>1. path \in Paths
    BY <1>4, SelectedPath DEF KnownLine
  <2>2. /\ DOMAIN mapInfo' \subseteq Paths /\ DOMAIN refreshed' \subseteq Paths
        /\ path \in DOMAIN refreshed'
    BY <1>4, <2>1, LineMoves DEF TypeOK
  <2>3. \/ mode' = "hook" /\ cur' = path /\ pos' = 1
        \/ mode' = "walk" /\ UNCHANGED <<cur, pos>> /\ mode = "walk"
    BY <1>4 DEF KnownLine, StartHooking, NextLine
  <2>4. UNCHANGED <<hookInfo, ignoreInfo, got, old, base, excused>>
    BY <1>4 DEF KnownLine
  <2> QED
    BY <1>0, <2>2, <2>3, <2>4 DEF TypeOK
<1>5. CASE NewLine
  <2>1. path \in Paths
    BY <1>5, SelectedPath DEF NewLine
  <2>2. /\ DOMAIN refreshed' \subseteq Paths /\ path \in DOMAIN refreshed'
    BY <1>5, <2>1, LineMoves DEF TypeOK
  <2>3. \/ mode' = "hook" /\ cur' = path /\ pos' = 1
        \/ mode' = "walk" /\ UNCHANGED <<cur, pos>> /\ mode = "walk"
    BY <1>5 DEF NewLine, StartHooking, NextLine
  <2>4. UNCHANGED <<hookInfo, ignoreInfo, mapInfo, got, old, base, excused>>
    BY <1>5 DEF NewLine
  <2> QED
    BY <1>0, <2>2, <2>3, <2>4 DEF TypeOK
<1>6. CASE NoMemory
  <2>1. path \in Paths
    BY <1>6, SelectedPath DEF NoMemory
  <2> QED
    BY <1>6, <2>1 DEF NoMemory, NextLine, TypeOK
<1>7. CASE End
  BY <1>7, TreeEmpty DEF End, TypeOK
<1>8. CASE HookAbort \/ HookDone
  BY <1>8 DEF HookAbort, HookDone, Stop, TypeOK
<1>9. ASSUME NEW i \in DOMAIN hookInfo, HookStopped(i) PROVE TypeOK'
  BY <1>9 DEF HookStopped, Trying, Stop, TypeOK
<1>10. ASSUME NEW i \in DOMAIN hookInfo, HookSkipped(i) PROVE TypeOK'
  BY <1>0, <1>10, TriedInfo DEF HookSkipped, Trying, TypeOK
<1>11. ASSUME NEW i \in DOMAIN hookInfo, Hook(i) PROVE TypeOK'
  <2>1. cur \in Paths /\ hookInfo[i].sym \in Symbols /\ hookInfo[i].id \in Funcs
        /\ i \in Nat /\ i <= Len(hookInfo) /\ pos = i /\ mode = "hook"
    BY <1>11, TriedInfo DEF Hook, Trying, TypeOK
  <2>2. got[cur][hookInfo[i].sym] \in Funcs \cup {"orig"}
    BY <2>1 DEF TypeOK
  <2>3. /\ got' \in [Paths -> [Symbols -> Funcs \cup {"orig"}]]
        /\ old' \in [Funcs -> Funcs \cup {"orig", "null"}]
    <3>1. CASE UNCHANGED slots
      BY <3>1 DEF TypeOK
    <3>2. CASE /\ old' = [old EXCEPT ![hookInfo[i].id] = got[cur][hookInfo[i].sym]]
               /\ got' = [got EXCEPT ![cur][hookInfo[i].sym] = hookInfo[i].id]
      <4>1. got[cur] \in [Symbols -> Funcs \cup {"orig"}]
        BY <2>1 DEF TypeOK
      <4> QED
        BY <2>1, <2>2, <3>2, <4>1 DEF TypeOK
    <3> QED
      BY <1>11, <3>1, <3>2 DEF Hook, Replace
  <2> QED
    BY <1>0, <1>11, <2>1, <2>3 DEF Hook, TypeOK
<1>12. ASSUME NEW h \in HookUniverse, Register(h) PROVE TypeOK'
  BY <1>0, <1>12, AppendProperties DEF Register, MayAdd, TypeOK
<1>13. ASSUME NEW g \in IgnoreUniverse, Ignore(g) PROVE TypeOK'
  BY <1>13, AppendProperties DEF Ignore, MayAdd, TypeOK
<1>14. CASE Clear
  BY <1>14, TreeEmpty, EmptySeq DEF Clear, TypeOK
<1>15. ASSUME NEW p \in Paths, Dlclose(p) PROVE TypeOK'
  BY <1>15 DEF Dlclose, TypeOK
<1>16. ASSUME NEW p \in Paths, NEW b \in BasesOf[p], Dlopen(p, b) PROVE TypeOK'
  BY <1>16 DEF Dlopen, TypeOK
<1>17. CASE UNCHANGED vars
  BY <1>17 DEF vars, TypeOK
<1> QED
  BY <1>1, <1>2, <1>3, <1>4, <1>5, <1>6, <1>7, <1>8, <1>9, <1>10, <1>11, <1>12,
     <1>13, <1>14, <1>15, <1>16, <1>17 DEF Next, Walk

\* Every variable of the walk keeps its type: the entry being hooked is always
\* one of the new tree.
THEOREM RefreshTyping == Spec => []TypeOK
  BY RefreshTypeInit, RefreshTypeStep, PTL DEF Spec

-----------------------------------------------------------------------------
(* The two trees.                                                          *)

LEMMA TreesStep == TreesDisjoint /\ [Next]_vars => TreesDisjoint'
<1> SUFFICES ASSUME TreesDisjoint, [Next]_vars PROVE TreesDisjoint'
  OBVIOUS
<1> USE DEF TreesDisjoint
<1>1. CASE Begin \/ End \/ Clear
  BY <1>1, TreeEmpty DEF Begin, End, Clear
<1>2. CASE KnownLine \/ NewLine
  BY <1>2, LineMoves
<1>3. CASE UNCHANGED <<mapInfo, refreshed>>
  BY <1>3
<1>4. Begin \/ End \/ Clear \/ KnownLine \/ NewLine \/ UNCHANGED <<mapInfo, refreshed>>
  BY DEF Next, Walk, NoMaps, SkipLine, NoMemory, HookAbort, HookDone, Stop, HookStopped, HookSkipped,
    Hook, Register, Ignore, Dlclose, Dlopen, vars
<1> QED
  BY <1>1, <1>2, <1>3, <1>4

\* No entry is ever in both trees, so none is freed while it is in use.
THEOREM TwoTrees == Spec => []TreesDisjoint
<1>1. Init => TreesDisjoint
  BY TreeEmpty DEF Init, TreesDisjoint
<1> QED
  BY <1>1, TreesStep, PTL DEF Spec

-----------------------------------------------------------------------------
(* Slots.                                                                  *)

\* Slots are written by Hook, and set back by the linker.
LEMMA WhoWrites ==
  ASSUME [Next]_vars
  PROVE  \/ \E i \in DOMAIN hookInfo : Hook(i)
         \/ \E p \in Paths : got' = [got EXCEPT ![p] = [s \in Symbols |-> "orig"]] /\ UNCHANGED old
         \/ UNCHANGED slots
  BY DEF Next, Walk, Begin, NoMaps, SkipLine, KnownLine, NewLine, NoMemory, End, HookAbort, HookDone,
    Stop, HookStopped, HookSkipped, Register, Ignore, Clear, Dlclose, Dlopen, vars

-----------------------------------------------------------------------------
(* old_func chains.                                                        *)

LEMMA ChainStep == TypeOK /\ ChainInv /\ [Next]_vars => ChainInv'
<1> SUFFICES ASSUME TypeOK, ChainInv, [Next]_vars,
                    NEW p \in Paths, NEW h \in HookUniverse, \A g \in HookUniverse : g.sym = h.sym => g = h
             PROVE  got'[p][h.sym] = "orig" \/ (got'[p][h.sym] = h.id /\ old'[h.id] = "orig")
  BY DEF ChainInv
<1>0. h.sym \in Symbols /\ h.id \in Funcs
  BY RefreshAssumption DEF Funcs
<1>1. got[p][h.sym] = "orig" \/ (got[p][h.sym] = h.id /\ old[h.id] = "orig")
  BY DEF ChainInv
<1>2. ASSUME NEW i \in DOMAIN hookInfo, Hook(i)
      PROVE  got'[p][h.sym] = "orig" \/ (got'[p][h.sym] = h.id /\ old'[h.id] = "orig")
  <2>1. /\ hookInfo[i] \in HookUniverse /\ hookInfo[i].sym \in Symbols /\ hookInfo[i].id \in Funcs
        /\ cur \in Paths
    BY <1>2, TriedInfo DEF Hook, Trying, TypeOK
  <2>2. CASE got[cur][hookInfo[i].sym] = hookInfo[i].id
    BY <1>1, <1>2, <2>2 DEF Hook, Replace
  <2>3. CASE got[cur][hookInfo[i].sym] # hookInfo[i].id
    <3>1. /\ old' = [old EXCEPT ![hookInfo[i].id] = got[cur][hookInfo[i].sym]]
          /\ got' = [got EXCEPT ![cur][hookInfo[i].sym] = hookInfo[i].id]
      BY <1>2, <2>3 DEF Hook, Replace
    <3>2. CASE hookInfo[i].sym = h.sym
      \* The slot was not hooked, so it is the original that is saved.
      <4>1. hookInfo[i] = h
        BY <2>1, <3>2
      <4>2. got[cur][h.sym] = "orig"
        BY <2>1, <2>3, <4>1 DEF ChainInv
      <4> QED
        BY <1>0, <1>1, <2>1, <3>1, <4>1, <4>2 DEF TypeOK
    <3>3. CASE hookInfo[i].sym # h.sym
      <4>1. hookInfo[i].id # h.id
        BY <2>1, <3>3, RefreshAssumption
      <4> QED
        BY <1>0, <1>1, <2>1, <3>1, <3>3, <4>1 DEF TypeOK
    <3> QED
      BY <3>2, <3>3
  <2> QED
    BY <2>2, <2>3
<1>3. ASSUME NEW q \in Paths, got' = [got EXCEPT ![q] = [s \in Symbols |-> "orig"]], UNCHANGED old
      PROVE  got'[p][h.sym] = "orig" \/ (got'[p][h.sym] = h.id /\ old'[h.id] = "orig")
  BY <1>0, <1>1, <1>3 DEF TypeOK
<1>4. CASE UNCHANGED slots
  BY <1>1, <1>4
<1> QED
  BY <1>2, <1>3, <1>4, WhoWrites

\* A slot of a symbol with one function calls the original, or the function,
\* whose *old_func is then the original: what ChainReachesOriginal follows has
\* at most one link, over any history of walks, reloads and clears.
THEOREM ChainEnds == Spec => []ChainInv
<1>1. Init => ChainInv
  BY RefreshAssumption DEF Init, ChainInv
<1> QED
  BY <1>1, ChainStep, RefreshTyping, PTL DEF Spec
-----------------------------------------------------------------------------
(* The maps file.                                                          *)

\* The line of p that still has to be read and gives its base address comes
\* before its other lines.
FirstLine(p) ==
  \E k \in DOMAIN lines :
    lines[k] = <<p, base[p]>> /\ \A j \in DOMAIN lines : lines[j][1] = p => k <= j

\* The paths a walk makes an entry for.
Wanted(p) == p \notin NotElf /\ base[p] # 0 /\ Selected(p)

\* During a walk, a path has its entry already, or its first line lies ahead.
EntriesInv ==
  /\ lines \in Seq(Paths \X Nat)
  /\ ~Walking => DOMAIN refreshed = {}
  /\ Walking => \A p \in Paths \ excused :
       /\ p \in DOMAIN refreshed => Wanted(p) /\ refreshed[p] = base[p]
       /\ Wanted(p) /\ p \notin DOMAIN refreshed => FirstLine(p)

\* A file maps a finite number of lines.
LEMMA FiniteMaps ==
  ASSUME TypeOK
  PROVE  Cardinality(MapsLines) \in Nat /\ MapsLines \subseteq Paths \X Nat
<1>1. \A p \in Paths : IsFiniteSet(MappedAt(p)) /\ MappedAt(p) \subseteq Nat
  <2> TAKE p \in Paths
  <2>1. base[p] \in Nat
    BY RefreshAssumption DEF TypeOK
  <2>2. IsFiniteSet({}) /\ IsFiniteSet({base[p]}) /\ IsFiniteSet({base[p]} \cup {base[p] + 1})
    BY FS_EmptySet, FS_Singleton, FS_Union
  <2>3. CASE base[p] = 0 \/ p \notin Twice
    BY <2>1, <2>2, <2>3 DEF MappedAt
  <2>4. CASE base[p] # 0 /\ p \in Twice
    <3>1. MappedAt(p) = {base[p]} \cup {base[p] + 1}
      BY <2>4 DEF MappedAt
    <3> QED
      BY <2>1, <2>2, <3>1
  <2> QED
    BY <2>3, <2>4
<1>2. \A p \in Paths : IsFiniteSet({p} \X MappedAt(p))
  BY <1>1, FS_Singleton, FS_Product
<1>3. PICK S : S = {{p} \X MappedAt(p) : p \in Paths}
  OBVIOUS
<1>4. IsFiniteSet(S)
  <2>1. PICK f : f = [p \in Paths |-> {p} \X MappedAt(p)]
    OBVIOUS
  <2>2. f \in Surjection(Paths, S)
    BY <1>3, <2>1 DEF Surjection
  <2> QED
    BY <2>2, FS_Surjection, RefreshAssumption
<1>5. IsFiniteSet(UNION S)
  BY <1>2, <1>3, <1>4, FS_UNION
<1> QED
  BY <1>1, <1>3, <1>5, FS_CardinalityType DEF MapsLines

\* What is read is a sequence of lines, and the first line of a path that is
\* mapped gives its base address.
LEMMA MapsListing ==
  ASSUME TypeOK, NEW ls \in Listings
  PROVE  /\ ls \in Seq(Paths \X Nat)
         /\ \A p \in Paths : base[p] # 0 =>
              \E k \in DOMAIN ls :
                ls[k] = <<p, base[p]>> /\ \A j \in DOMAIN ls : ls[j][1] = p => k <= j
<1>1. ls \in Seq(Paths \X Nat)
  BY FiniteMaps DEF Listings
<1>2. ASSUME NEW p \in Paths, base[p] # 0
      PROVE  \E k \in DOMAIN ls :
               ls[k] = <<p, base[p]>> /\ \A j \in DOMAIN ls : ls[j][1] = p => k <= j
  <2>1. base[p] \in Nat
    BY RefreshAssumption DEF TypeOK
  <2>2. <<p, base[p]>> \in MapsLines
    BY <1>2 DEF MapsLines, MappedAt
  <2>3. PICK k \in DOMAIN ls : ls[k] = <<p, base[p]>>
    BY <2>2 DEF Listings, Range
  <2>4. ASSUME NEW j \in DOMAIN ls, ls[j][1] = p, j < k PROVE FALSE
    <3>1. ls[j] \in MapsLines
      BY DEF Listings, Range
    <3>2. ls[j][2] \in MappedAt(p)
      BY <2>4, <3>1 DEF MapsLines
    <3>3. ls[j][2] < base[p]
      BY <2>3, <2>4 DEF Listings
    <3> QED
      BY <2>1, <3>2, <3>3 DEF MappedAt
  <2>5. DOMAIN ls \subseteq Nat
    BY <1>1
  <2> QED
    BY <2>3, <2>4, <2>5
<1> QED
  BY <1>1, <1>2

-----------------------------------------------------------------------------
(* The search of the ignore queue.                                         *)

\* A set of naturals has a least element: FirstOf is the first.
LEMMA FirstIsLeast ==
  ASSUME NEW S, S \subseteq Nat, S # {}
  PROVE  FirstOf(S) \in S /\ \A n \in S : FirstOf(S) <= n
<1> DEFINE Less == {ss \in Nat \X Nat : ss[1] < ss[2]}
<1>1. IsWellFoundedOn(Less, Nat)
  BY NatLessThanWellFounded, Zenon DEF OpToRel
<1>2. PICK m \in S : \A n \in S : ~(<<n, m>> \in Less)
  <2> HIDE DEF Less
  <2> QED
    BY <1>1, WFMin
<1>3. ASSUME NEW n \in S PROVE m <= n
  <2>1. m \in Nat /\ n \in Nat /\ ~(<<n, m>> \in Less)
    BY <1>2
  <2>2. n < m => <<n, m>> \in Less
    BY <2>1
  <2> QED
    BY <2>1, <2>2
<1> QED
  BY <1>3, Zenon DEF FirstOf

\* The order of the queue makes no difference to whether hook info i is put in,
\* only to which of the two ways it is left out.
LEMMA SearchSays ==
  ASSUME TypeOK, NEW i, NEW p
  PROVE  /\ Search(i, p) = "hook" <=> Ignores(i, p) = {}
         /\ Search(i, p) = "library" => AllSymbols \in {g.sym : g \in MatchingIgnores(p)}
         /\ Search(i, p) \in {"hook", "library", "symbol"}
<1>1. Stopping(i, p) \subseteq Nat /\ Stopping(i, p) \subseteq DOMAIN ignoreInfo
  BY DEF Stopping, TypeOK
<1>2. Stopping(i, p) = {} <=> Ignores(i, p) = {}
  BY DEF Stopping, Ignores, MatchingIgnores
<1>3. ASSUME Stopping(i, p) # {}
      PROVE  ignoreInfo[FirstOf(Stopping(i, p))] \in MatchingIgnores(p)
  <2>1. FirstOf(Stopping(i, p)) \in Stopping(i, p)
    BY <1>1, <1>3, FirstIsLeast
  <2> QED
    BY <2>1 DEF Stopping, MatchingIgnores
<1> QED
  BY <1>2, <1>3 DEF Search

-----------------------------------------------------------------------------
(* Entries.                                                                *)

\* What the lists say of a path depends on the lists alone.
LEMMA SameMatching ==
  ASSUME UNCHANGED lists, NEW p
  PROVE  /\ MatchingHooks(p)' = MatchingHooks(p)
         /\ MatchingIgnores(p)' = MatchingIgnores(p)
         /\ \A i : Ignores(i, p)' = Ignores(i, p) /\ Search(i, p)' = Search(i, p)
<1>1. hookInfo' = hookInfo /\ ignoreInfo' = ignoreInfo
  OBVIOUS
<1>2. MatchingHooks(p)' = MatchingHooks(p)
  BY <1>1 DEF MatchingHooks
<1>3. MatchingIgnores(p)' = MatchingIgnores(p)
  BY <1>1 DEF MatchingIgnores
<1>4. ASSUME NEW i PROVE Ignores(i, p)' = Ignores(i, p)
  BY <1>1, <1>3 DEF Ignores
<1>5. ASSUME NEW i PROVE Search(i, p)' = Search(i, p)
  <2>1. Stopping(i, p)' = Stopping(i, p)
    BY <1>1 DEF Stopping
  <2> QED
    BY <1>1, <2>1 DEF Search, FirstOf
<1> QED
  BY <1>2, <1>3, <1>4, <1>5

LEMMA SameSelected ==
  ASSUME UNCHANGED lists, NEW p
  PROVE  Selected(p)' <=> Selected(p)
<1>1. MatchingHooks(p)' = MatchingHooks(p)
  BY SameMatching
<1>2. Search(FirstOf(MatchingHooks(p)), p)' = Search(FirstOf(MatchingHooks(p)), p)
  <2>1. FirstOf(MatchingHooks(p))' = FirstOf(MatchingHooks(p))
    BY <1>1 DEF FirstOf
  <2>2. PICK i : i = FirstOf(MatchingHooks(p))
    OBVIOUS
  <2>3. Search(i, p)' = Search(i, p)
    BY SameMatching
  <2> QED
    BY <1>1, <2>1, <2>2, <2>3 DEF Search, Stopping, FirstOf
<1> QED
  BY <1>1, <1>2 DEF Selected

LEMMA SameWanted ==
  ASSUME UNCHANGED lists, NEW p, base'[p] = base[p]
  PROVE  Wanted(p)' <=> Wanted(p)
  BY SameSelected DEF Wanted

\* Reading a line: what comes first among the lines of a path that is not on it
\* still does.
LEMMA FirstLineKept ==
  ASSUME EntriesInv, NextLine, UNCHANGED base, NEW p, FirstLine(p), lines[1] # <<p, base[p]>>
  PROVE  FirstLine(p)'
<1>1. /\ lines \in Seq(Paths \X Nat) /\ lines # <<>> /\ lines' = Tail(lines)
      /\ Len(lines) \in Nat /\ Len(lines) >= 1
      /\ DOMAIN lines = 1..Len(lines)
  BY EmptySeq DEF EntriesInv, NextLine
<1>2. /\ DOMAIN lines' = 1..(Len(lines) - 1)
      /\ \A i \in DOMAIN lines' : i + 1 \in DOMAIN lines /\ lines'[i] = lines[i + 1]
  BY <1>1, HeadTailProperties
<1>3. PICK k \in DOMAIN lines :
        lines[k] = <<p, base[p]>> /\ \A j \in DOMAIN lines : lines[j][1] = p => k <= j
  BY DEF FirstLine
<1>4. k # 1
  BY <1>3
<1>5. k - 1 \in DOMAIN lines' /\ k \in Nat
  BY <1>1, <1>2, <1>3, <1>4
<1>6. lines'[k - 1] = <<p, base[p]>>
  BY <1>2, <1>3, <1>5
<1>7. ASSUME NEW j \in DOMAIN lines', lines'[j][1] = p PROVE k - 1 <= j
  BY <1>2, <1>3, <1>5, <1>7
<1> QED
  BY <1>5, <1>6, <1>7 DEF FirstLine

\* The first line of a path is the one that is read if it is the path's.
LEMMA FirstLineRead ==
  ASSUME EntriesInv, NextLine, FirstLine(path), path \in Paths
  PROVE  addr = base[path] /\ lines[1] = <<path, base[path]>>
<1>1. /\ lines \in Seq(Paths \X Nat) /\ Len(lines) \in Nat /\ Len(lines) >= 1
      /\ DOMAIN lines = 1..Len(lines)
  BY EmptySeq DEF EntriesInv, NextLine
<1>2. PICK k \in DOMAIN lines :
        lines[k] = <<path, base[path]>> /\ \A j \in DOMAIN lines : lines[j][1] = path => k <= j
  BY DEF FirstLine
<1>3. k <= 1 /\ lines[1] = Head(lines)
  BY <1>1, <1>2 DEF path
<1> QED
  BY <1>1, <1>2, <1>3 DEF addr

LEMMA EntriesInit == Init => EntriesInv
  BY TreeEmpty, EmptySeq DEF Init, EntriesInv, Walking

\* What a line that is not passed over does.
LEMMA LineMade ==
  ASSUME KnownLine \/ NewLine
  PROVE  /\ NextLine /\ Selected(path) /\ HeaderOk(path, addr)
         /\ refreshed' = IF path \in DOMAIN refreshed THEN refreshed ELSE With(refreshed, path, addr)
         /\ UNCHANGED <<lists, slots, env, excused>>
         /\ mode' \in {"walk", "hook"}
  BY DEF KnownLine, NewLine, StartHooking, NextLine

LEMMA EntriesStep == TypeOK /\ EntriesInv /\ [Next]_vars => EntriesInv'
<1> SUFFICES ASSUME TypeOK, EntriesInv, [Next]_vars PROVE EntriesInv'
  OBVIOUS
<1> DEFINE Part(p) ==
      /\ p \in DOMAIN refreshed => Wanted(p) /\ refreshed[p] = base[p]
      /\ Wanted(p) /\ p \notin DOMAIN refreshed => FirstLine(p)
<1>0. NextLine => lines' \in Seq(Paths \X Nat)
  BY HeadTailProperties DEF EntriesInv, NextLine
<1>1. CASE Begin
  <2>1. lines' \in Listings
    BY <1>1 DEF Begin
  <2>2. lines' \in Seq(Paths \X Nat)
    BY <2>1, MapsListing
  <2>3. Walking' /\ DOMAIN refreshed' = {}
    BY <1>1, TreeEmpty DEF Begin, Walking
  <2>4. ASSUME NEW p \in Paths, Wanted(p)' PROVE FirstLine(p)'
    <3>1. base[p] # 0 /\ base' = base
      BY <1>1, <2>4 DEF Begin, Wanted
    <3>2. \E k \in DOMAIN lines' :
            lines'[k] = <<p, base[p]>> /\ \A j \in DOMAIN lines' : lines'[j][1] = p => k <= j
      BY <2>1, <3>1, MapsListing
    <3> QED
      BY <3>1, <3>2 DEF FirstLine
  <2> QED
    BY <2>2, <2>3, <2>4 DEF EntriesInv
<1>2. CASE SkipLine
  <2>1. ASSUME Walking, NEW p \in Paths \ excused, Part(p) PROVE Part(p)'
    <3>1. UNCHANGED <<lists, refreshed, base>> /\ NextLine
      BY <1>2 DEF SkipLine
    <3>2. Wanted(p)' <=> Wanted(p)
      BY <3>1, SameWanted
    <3>3. ASSUME Wanted(p), FirstLine(p), lines[1] = <<p, base[p]>> PROVE FALSE
      <4>1. p = path /\ addr = base[p]
        BY <3>3, <3>1, EmptySeq DEF EntriesInv, NextLine, path, addr
      <4>2. HeaderOk(path, addr) /\ Selected(path)
        BY <3>3, <4>1 DEF HeaderOk, Wanted, MappedAt
      <4> QED
        BY <1>2, <4>2 DEF SkipLine
    <3> QED
      BY <2>1, <3>1, <3>2, <3>3, FirstLineKept
  <2>2. UNCHANGED <<mode, refreshed, excused>> /\ NextLine
    BY <1>2 DEF SkipLine
  <2> QED
    BY <1>0, <2>1, <2>2 DEF EntriesInv, Walking
<1>3. CASE KnownLine \/ NewLine
  <2>1. /\ NextLine /\ Selected(path) /\ HeaderOk(path, addr)
        /\ refreshed' = IF path \in DOMAIN refreshed THEN refreshed ELSE With(refreshed, path, addr)
        /\ UNCHANGED <<lists, base, excused>>
        /\ mode' \in {"walk", "hook"}
    BY <1>3, LineMade
  <2>2. ASSUME NEW p \in Paths \ excused, Part(p) PROVE Part(p)'
    <3>1. Wanted(p)' <=> Wanted(p)
      BY <2>1, SameWanted
    <3>2. CASE p = path /\ p \notin DOMAIN refreshed
      <4>1. Wanted(p)
        BY <2>1, <3>2 DEF Wanted, HeaderOk, MappedAt
      <4>2. addr = base[p]
        BY <2>1, <2>2, <3>2, <4>1, FirstLineRead
      <4>3. p \in DOMAIN refreshed' /\ refreshed'[p] = addr
        BY <2>1, <3>2 DEF With
      <4> QED
        BY <2>1, <3>1, <4>1, <4>2, <4>3
    <3>3. CASE p \in DOMAIN refreshed
      <4>1. p \in DOMAIN refreshed' /\ refreshed'[p] = refreshed[p]
        BY <2>1, <3>3 DEF With
      <4> QED
        BY <2>1, <2>2, <3>1, <3>3, <4>1
    <3>4. CASE p # path /\ p \notin DOMAIN refreshed
      <4>1. p \notin DOMAIN refreshed'
        BY <2>1, <3>4 DEF With
      <4>2. lines[1] # <<p, base[p]>>
        BY <2>1, <3>4, EmptySeq DEF EntriesInv, NextLine, path
      <4> QED
        BY <2>1, <2>2, <3>1, <3>4, <4>1, <4>2, FirstLineKept
    <3> QED
      BY <3>2, <3>3, <3>4
  <2>3. Walking
    BY <2>1 DEF NextLine, Walking
  <2>4. \A p \in Paths \ excused : Part(p)
    BY <2>3 DEF EntriesInv
  <2>5. \A p \in Paths \ excused : Part(p)'
    BY <2>2, <2>4
  <2> QED
    BY <1>0, <2>1, <2>5 DEF EntriesInv, Walking
<1>4. CASE NoMemory
  <2>1. /\ NextLine /\ UNCHANGED <<mode, lists, refreshed, base>>
        /\ excused' = excused \cup {path}
    BY <1>4 DEF NoMemory
  <2>2. ASSUME Walking, NEW p \in Paths \ excused, p # path, Part(p) PROVE Part(p)'
    <3>1. Wanted(p)' <=> Wanted(p)
      BY <2>1, SameWanted
    <3>2. lines[1] # <<p, base[p]>>
      BY <2>1, <2>2, EmptySeq DEF EntriesInv, NextLine, path
    <3> QED
      BY <2>1, <2>2, <3>1, <3>2, FirstLineKept
  <2> QED
    BY <1>0, <2>1, <2>2 DEF EntriesInv, Walking
<1>5. CASE End
  BY <1>5, TreeEmpty DEF End, EntriesInv, Walking
<1>6. CASE UNCHANGED <<lists, refreshed, lines, base, excused>> /\ (Walking' <=> Walking)
  <2>1. \A p : Wanted(p)' <=> Wanted(p)
    BY <1>6, SameWanted
  <2>2. \A p : FirstLine(p)' <=> FirstLine(p)
    BY <1>6 DEF FirstLine
  <2> QED
    BY <1>6, <2>1, <2>2 DEF EntriesInv
<1>7. CASE UNCHANGED <<refreshed, lines>> /\ ~Walking' /\ ~Walking
  BY <1>7 DEF EntriesInv
<1>8. CASE /\ Walking /\ UNCHANGED <<mode, lists, refreshed, lines>>
           /\ \E p \in Paths : excused' = excused \cup {p} /\ \A q \in Paths \ {p} : base'[q] = base[q]
  <2>1. PICK p \in Paths : excused' = excused \cup {p} /\ \A q \in Paths \ {p} : base'[q] = base[q]
    BY <1>8
  <2>2. ASSUME NEW q \in Paths \ excused, q # p, Part(q) PROVE Part(q)'
    <3>1. Wanted(q)' <=> Wanted(q)
      BY <1>8, <2>1, <2>2, SameWanted
    <3>2. FirstLine(q)' <=> FirstLine(q)
      BY <1>8, <2>1, <2>2 DEF FirstLine
    <3> QED
      BY <1>8, <2>1, <2>2, <3>1, <3>2
  <2> QED
    BY <1>8, <2>1, <2>2 DEF EntriesInv, Walking
<1>9. CASE NoMaps
  BY <1>9, <1>7 DEF NoMaps, Walking
<1>10. CASE \/ HookAbort \/ HookDone \/ \E i \in DOMAIN hookInfo : HookStopped(i) \/ HookSkipped(i) \/ Hook(i)
  BY <1>10, <1>6 DEF HookAbort, HookDone, HookStopped, HookSkipped, Hook, Stop, Trying, Walking
<1>11. CASE \/ \E h \in HookUniverse : Register(h)
            \/ \E g \in IgnoreUniverse : Ignore(g)
            \/ Clear
  BY <1>11, <1>7 DEF Register, Ignore, Clear, MayAdd, Walking
<1>12. ASSUME NEW p \in Paths, Dlclose(p) \/ \E b \in BasesOf[p] : Dlopen(p, b) PROVE EntriesInv'
  <2>1. /\ UNCHANGED <<mode, lists, refreshed, lines>>
        /\ Walking => excused' = excused \cup {p} /\ \A q \in Paths \ {p} : base'[q] = base[q]
    BY <1>12 DEF Dlclose, Dlopen, TypeOK
  <2> QED
    BY <1>7, <1>8, <2>1 DEF Walking
<1>13. CASE UNCHANGED vars
  BY <1>6, <1>13 DEF vars, Walking
<1> QED
  BY <1>1, <1>2, <1>3, <1>4, <1>5, <1>9, <1>10, <1>11, <1>12, <1>13 DEF Next, Walk

\* While a walk goes on, every path nothing happens to behind its back has its
\* entry, with the address it is at, or its first line lies ahead.
THEOREM EntriesAhead == Spec => []EntriesInv
  BY EntriesInit, EntriesStep, RefreshTyping, PTL DEF Spec

\* Only the end of the walk leaves it.
LEMMA EndedIsEnd ==
  ASSUME [Next]_vars, Ended
  PROVE  End
  BY DEF Ended, Next, Walk, Begin, NoMaps, SkipLine, KnownLine, NewLine, NoMemory, StartHooking, HookAbort,
    HookDone, Stop, HookStopped, HookSkipped, Hook, Trying, Register, Ignore, MayAdd, Clear, Dlclose,
    Dlopen, vars

\* At the end of the walk no line is left, so the entries are complete.
LEMMA NoLineAhead ==
  ASSUME EntriesInv, End, NEW p \in Paths \ excused
  PROVE  /\ p \in DOMAIN refreshed => Wanted(p) /\ refreshed[p] = base[p]
         /\ Wanted(p) => p \in DOMAIN refreshed
<1>1. lines = <<>> /\ Walking
  BY DEF End, Walking
<1>2. ~FirstLine(p)
  BY <1>1, EmptySeq DEF FirstLine
<1> QED
  BY <1>1, <1>2 DEF EntriesInv

\* A refresh leaves an entry for exactly the selected libraries that are mapped,
\* with the address the linker loaded them at.
THEOREM EntriesAreExact == Spec => EntriesExact
<1>1. EntriesInv /\ [Next]_vars =>
        [Ended => \A p \in Steady :
           /\ p \in DOMAIN mapInfo' <=> base[p] # 0 /\ Selected(p)
           /\ p \in DOMAIN mapInfo' => mapInfo'[p] = base[p]]_vars
  <2> SUFFICES ASSUME EntriesInv, [Next]_vars, Ended, NEW p \in Steady
               PROVE  /\ p \in DOMAIN mapInfo' <=> base[p] # 0 /\ Selected(p)
                      /\ p \in DOMAIN mapInfo' => mapInfo'[p] = base[p]
    OBVIOUS
  <2>1. End
    BY EndedIsEnd
  <2>2. mapInfo' = refreshed
    BY <2>1 DEF End
  <2>3. p \in Paths \ excused /\ p \notin NotElf
    BY DEF Steady
  <2> QED
    BY <2>1, <2>2, <2>3, NoLineAhead DEF Wanted
<1> QED
  BY <1>1, EntriesAhead, PTL DEF Spec, EntriesExact

-----------------------------------------------------------------------------
(* Hooks.                                                                  *)

\* What the infos before the n-th make of slot s of p.
AskingBefore(p, s, n) == {i \in Asking(p, s) : i < n}

HookedUpTo(p, s, n) ==
  AskingBefore(p, s, n) # {} => got[p][s] = hookInfo[LastOf(AskingBefore(p, s, n))].id

\* What an entry stands for is hooked: the entries an earlier refresh left and
\* whose library has not moved, and the ones of this walk, the one in progress
\* up to the info it has come to.
HooksInv ==
  /\ mode = "setup" => DOMAIN mapInfo = {}
  /\ \A p \in Paths \ (excused \cup BadElf), s \in Symbols :
       /\ p \in DOMAIN mapInfo /\ base[p] # 0 /\ mapInfo[p] = base[p] => HookedAsAsked(p, s)
       /\ p \in DOMAIN refreshed =>
            IF p = cur THEN HookedUpTo(p, s, pos) ELSE HookedAsAsked(p, s)

\* When the walk has been through all the infos, all that are asked for are in.
LEMMA AskedAll ==
  ASSUME TypeOK, NEW p, NEW s, NEW n \in Nat, n > Len(hookInfo), HookedUpTo(p, s, n)
  PROVE  HookedAsAsked(p, s)
<1>1. AskingBefore(p, s, n) = Asking(p, s)
  BY DEF AskingBefore, Asking, MatchingHooks, TypeOK
<1> QED
  BY <1>1 DEF HookedAsAsked, HookedUpTo

\* What is hooked stays so while the lists and the slot stay.
LEMMA SameAsked ==
  ASSUME UNCHANGED lists, NEW p, NEW s
  PROVE  /\ Asking(p, s)' = Asking(p, s)
         /\ \A n : AskingBefore(p, s, n)' = AskingBefore(p, s, n)
         /\ \A S : hookInfo'[LastOf(S)] = hookInfo[LastOf(S)]
<1>1. hookInfo' = hookInfo
  OBVIOUS
<1>2. Asking(p, s)' = Asking(p, s)
  BY <1>1, SameMatching DEF Asking
<1> QED
  BY <1>1, <1>2 DEF AskingBefore

LEMMA StaysHooked ==
  ASSUME UNCHANGED lists, NEW p, NEW s, got'[p][s] = got[p][s]
  PROVE  /\ HookedAsAsked(p, s)' <=> HookedAsAsked(p, s)
         /\ \A n : HookedUpTo(p, s, n)' <=> HookedUpTo(p, s, n)
  BY SameAsked DEF HookedAsAsked, HookedUpTo

\* Nothing is asked for before the first info.
LEMMA NothingYet ==
  ASSUME TypeOK, NEW p, NEW s
  PROVE  HookedUpTo(p, s, 1)
  BY DEF HookedUpTo, AskingBefore, Asking, MatchingHooks, TypeOK

\* An ignore info for all symbols stops every hook info.
LEMMA StoppedAsksNothing ==
  ASSUME TypeOK, NEW i \in DOMAIN hookInfo, HookStopped(i), NEW s
  PROVE  HookedAsAsked(cur, s)
<1>1. AllSymbols \in {g.sym : g \in MatchingIgnores(cur)}
  BY SearchSays DEF HookStopped
<1>2. \A j : Ignores(j, cur) # {}
  BY <1>1 DEF Ignores
<1> QED
  BY <1>2 DEF HookedAsAsked, Asking

\* One more info: it does not ask for the slot, and nothing changes.
LEMMA NotAsking ==
  ASSUME TypeOK, NEW p, NEW s, NEW i \in DOMAIN hookInfo, i \notin Asking(p, s)
  PROVE  AskingBefore(p, s, i + 1) = AskingBefore(p, s, i)
  BY DEF AskingBefore, Asking, MatchingHooks, TypeOK

\* It asks for the slot, and is the last of those that do.
LEMMA LastAsking ==
  ASSUME TypeOK, NEW p, NEW s, NEW i \in Asking(p, s)
  PROVE  LastOf(AskingBefore(p, s, i + 1)) = i
<1>1. \A j \in AskingBefore(p, s, i + 1) : j \in Nat /\ j <= i
  BY DEF AskingBefore, Asking, MatchingHooks, TypeOK
<1>2. i \in AskingBefore(p, s, i + 1) /\ i \in Nat
  BY DEF AskingBefore, Asking, MatchingHooks, TypeOK
<1>3. LastOf(AskingBefore(p, s, i + 1)) \in AskingBefore(p, s, i + 1)
      /\ \A j \in AskingBefore(p, s, i + 1) : j <= LastOf(AskingBefore(p, s, i + 1))
  BY <1>1, <1>2, Zenon DEF LastOf
<1> QED
  BY <1>1, <1>2, <1>3

\* What Hook writes, and what it leaves alone.
LEMMA HookWrites ==
  ASSUME TypeOK, NEW i \in DOMAIN hookInfo, Hook(i)
  PROVE  /\ got'[cur][hookInfo[i].sym] = hookInfo[i].id
         /\ \A p \in Paths, s \in Symbols :
              p # cur \/ s # hookInfo[i].sym => got'[p][s] = got[p][s]
<1>1. hookInfo[i].sym \in Symbols /\ cur \in Paths
  BY TriedInfo DEF Hook, Trying, TypeOK
<1>2. CASE got[cur][hookInfo[i].sym] = hookInfo[i].id
  BY <1>2 DEF Hook, Replace
<1>3. CASE got[cur][hookInfo[i].sym] # hookInfo[i].id
  <2>1. got' = [got EXCEPT ![cur][hookInfo[i].sym] = hookInfo[i].id]
    BY <1>3 DEF Hook, Replace
  <2>2. got \in [Paths -> [Symbols -> Funcs \cup {"orig"}]]
    BY DEF TypeOK
  <2> QED
    BY <1>1, <2>1, <2>2
<1> QED
  BY <1>2, <1>3

LEMMA HooksInit == Init => HooksInv
  BY TreeEmpty DEF Init, HooksInv

\* Steps that leave the trees, the slots and the linker alone.
LEMMA HooksIdle ==
  ASSUME TypeOK, HooksInv, UNCHANGED <<lists, trees, cur, pos, got, base>>, mode' = mode \/ mode' # "setup",
         excused \subseteq excused'
  PROVE  HooksInv'
<1> SUFFICES ASSUME NEW p \in Paths \ (excused' \cup BadElf), NEW s \in Symbols
             PROVE  /\ p \in DOMAIN mapInfo /\ base[p] # 0 /\ mapInfo[p] = base[p] => HookedAsAsked(p, s)'
                    /\ p \in DOMAIN refreshed =>
                         IF p = cur THEN HookedUpTo(p, s, pos)' ELSE HookedAsAsked(p, s)'
  BY DEF HooksInv
<1>1. /\ HookedAsAsked(p, s)' <=> HookedAsAsked(p, s)
      /\ HookedUpTo(p, s, pos)' <=> HookedUpTo(p, s, pos)
  BY StaysHooked DEF HookedUpTo, AskingBefore
<1> QED
  BY <1>1 DEF HooksInv

\* A line whose path keeps its hooks, or is about to be hooked.
LEMMA HooksLine ==
  ASSUME TypeOK, TreesDisjoint, EntriesInv, HooksInv, KnownLine \/ NewLine
  PROVE  HooksInv'
<1>1. /\ NextLine /\ Selected(path) /\ HeaderOk(path, addr)
      /\ refreshed' = IF path \in DOMAIN refreshed THEN refreshed ELSE With(refreshed, path, addr)
      /\ UNCHANGED <<lists, got, base, excused>>
      /\ mode' \in {"walk", "hook"}
  BY LineMade
<1>2. mode = "walk" /\ cur = NoPath /\ NoPath \notin Paths /\ path \in Paths
  BY <1>1, SelectedPath, RefreshAssumption DEF NextLine, TypeOK
<1>3. \A q \in DOMAIN mapInfo' : q \in DOMAIN mapInfo /\ mapInfo'[q] = mapInfo[q]
  BY DEF KnownLine, NewLine, Without
<1>4. cur' \in {NoPath, path}
  BY <1>2 DEF KnownLine, NewLine, StartHooking
<1>5. DOMAIN refreshed' = DOMAIN refreshed \cup {path}
  BY LineMoves
<1> SUFFICES ASSUME NEW p \in Paths \ (excused \cup BadElf), NEW s \in Symbols
             PROVE  /\ p \in DOMAIN mapInfo' /\ base[p] # 0 /\ mapInfo'[p] = base[p] => HookedAsAsked(p, s)'
                    /\ p \in DOMAIN refreshed' =>
                         IF p = cur' THEN HookedUpTo(p, s, pos)' ELSE HookedAsAsked(p, s)'
  BY <1>1 DEF HooksInv
<1>6. /\ HookedAsAsked(p, s)' <=> HookedAsAsked(p, s)
      /\ \A n : HookedUpTo(p, s, n)' <=> HookedUpTo(p, s, n)
  BY <1>1, StaysHooked
<1>7. /\ p \in DOMAIN mapInfo /\ base[p] # 0 /\ mapInfo[p] = base[p] => HookedAsAsked(p, s)
      /\ p \in DOMAIN refreshed => HookedAsAsked(p, s)
  BY <1>2 DEF HooksInv
<1>8. p \in DOMAIN mapInfo' /\ base[p] # 0 /\ mapInfo'[p] = base[p] => HookedAsAsked(p, s)'
  BY <1>3, <1>6, <1>7
<1>9. ASSUME p \in DOMAIN refreshed'
      PROVE  IF p = cur' THEN HookedUpTo(p, s, pos)' ELSE HookedAsAsked(p, s)'
  <2>1. CASE p = cur'
    <3>1. pos' = 1
      BY <1>2, <2>1 DEF KnownLine, NewLine, StartHooking
    <3>2. HookedUpTo(p, s, pos)' <=> HookedUpTo(p, s, 1)'
      BY <3>1 DEF HookedUpTo, AskingBefore
    <3> QED
      BY <1>6, <2>1, <3>2, NothingYet
  <2>2. CASE p # cur' /\ p \in DOMAIN refreshed
    BY <1>6, <1>7, <2>2
  <2>3. CASE p # cur' /\ p = path /\ p \notin DOMAIN refreshed
    <3>1. path \in DOMAIN mapInfo /\ mapInfo[path] = addr
      BY <1>2, <2>3 DEF KnownLine, NewLine, StartHooking
    <3>2. Wanted(path)
      BY <1>1 DEF Wanted, HeaderOk, MappedAt
    <3>3. addr = base[path]
      BY <1>1, <1>2, <2>3, <3>2, FirstLineRead DEF EntriesInv, Walking
    <3> QED
      BY <1>6, <1>7, <2>3, <3>1, <3>2, <3>3 DEF Wanted
  <2> QED
    BY <1>5, <1>9, <2>1, <2>2, <2>3
<1> QED
  BY <1>8, <1>9

\* Steps of xh_core_hook_impl on a library: it is hooked up to the next info, or
\* as asked when the work on it is over.
LEMMA HooksWork ==
  ASSUME TypeOK, HooksInv, mode = "hook", mode' # "setup",
         UNCHANGED <<lists, trees, base, excused>>,
         NEW c, c = cur, c \notin DOMAIN mapInfo, cur' \in {c, NoPath},
         \A p \in Paths, s \in Symbols : p # c => got'[p][s] = got[p][s],
         \A s \in Symbols : c \notin excused \cup BadElf =>
           IF cur' = c THEN HookedUpTo(c, s, pos)' ELSE HookedAsAsked(c, s)'
  PROVE  HooksInv'
<1>1. c \in Paths /\ NoPath \notin Paths
  BY RefreshAssumption DEF TypeOK
<1> SUFFICES ASSUME NEW p \in Paths \ (excused \cup BadElf), NEW s \in Symbols
             PROVE  /\ p \in DOMAIN mapInfo /\ base[p] # 0 /\ mapInfo[p] = base[p] => HookedAsAsked(p, s)'
                    /\ p \in DOMAIN refreshed =>
                         IF p = cur' THEN HookedUpTo(p, s, pos)' ELSE HookedAsAsked(p, s)'
  BY DEF HooksInv
<1>2. CASE p # c
  <2>1. HookedAsAsked(p, s)' <=> HookedAsAsked(p, s)
    BY <1>2, StaysHooked
  <2> QED
    BY <1>1, <1>2, <2>1 DEF HooksInv
<1>3. CASE p = c
  BY <1>1, <1>3
<1> QED
  BY <1>2, <1>3

LEMMA HooksStep == TypeOK /\ TreesDisjoint /\ EntriesInv /\ HooksInv /\ [Next]_vars => HooksInv'
<1> SUFFICES ASSUME TypeOK, TreesDisjoint, EntriesInv, HooksInv, [Next]_vars PROVE HooksInv'
  OBVIOUS
<1>0. NoPath \notin Paths /\ Len(hookInfo) \in Nat
  BY RefreshAssumption DEF TypeOK
<1>1. CASE Begin
  <2>1. /\ UNCHANGED <<lists, mapInfo, got, base>> /\ mode' = "walk" /\ DOMAIN refreshed' = {}
        /\ excused' = {p \in excused \cap DOMAIN mapInfo : mapInfo[p] = base[p]}
    BY <1>1, TreeEmpty DEF Begin
  <2>2. ASSUME NEW p \in Paths \ (excused' \cup BadElf), NEW s \in Symbols,
               p \in DOMAIN mapInfo, base[p] # 0, mapInfo[p] = base[p]
        PROVE  HookedAsAsked(p, s)'
    <3>1. p \notin excused
      BY <2>1, <2>2
    <3> QED
      BY <2>1, <2>2, <3>1, StaysHooked DEF HooksInv
  <2> QED
    BY <2>1, <2>2 DEF HooksInv
<1>2. CASE NoMaps \/ SkipLine \/ NoMemory
  BY <1>2, HooksIdle DEF NoMaps, SkipLine, NoMemory, NextLine
<1>3. CASE KnownLine \/ NewLine
  BY <1>3, HooksLine
<1>4. CASE End
  <2>1. /\ UNCHANGED <<lists, got, base, excused>> /\ mapInfo' = refreshed /\ DOMAIN refreshed' = {}
        /\ mode' = "idle" /\ cur = NoPath
    BY <1>4, TreeEmpty DEF End, TypeOK
  <2>2. ASSUME NEW p \in Paths \ (excused \cup BadElf), NEW s \in Symbols, p \in DOMAIN mapInfo'
        PROVE  HookedAsAsked(p, s)'
    BY <1>0, <2>1, <2>2, StaysHooked DEF HooksInv
  <2> QED
    BY <2>1, <2>2 DEF HooksInv
<1>5. ASSUME mode = "hook", NEW c, c = cur
      PROVE  /\ c \in Paths /\ c \notin DOMAIN mapInfo
             /\ \A s \in Symbols : c \notin excused \cup BadElf => HookedUpTo(c, s, pos)
             /\ c \notin excused \cup BadElf => Readable
  <2>1. c \in Paths /\ c \in DOMAIN refreshed /\ c \notin DOMAIN mapInfo
    BY <1>5 DEF TypeOK, TreesDisjoint
  <2>2. \A s \in Symbols : c \notin excused \cup BadElf => HookedUpTo(c, s, pos)
    BY <1>5, <2>1 DEF HooksInv
  <2>3. c \notin excused \cup BadElf => Readable
    BY <1>5, <2>1 DEF EntriesInv, Walking, Wanted, Readable
  <2> QED
    BY <2>1, <2>2, <2>3
<1> DEFINE Left == mode = "hook" /\ mode' = "walk" /\ cur' = NoPath /\ UNCHANGED <<lists, trees, got, base, excused>>
           Next1 == mode = "hook" /\ mode' = "hook" /\ pos' = pos + 1 /\ UNCHANGED <<cur, lists, trees, base, excused>>
<1>6. CASE HookAbort
  <2>1. Left /\ ~Readable
    BY <1>6 DEF HookAbort, Stop
  <2>2. PICK c : c = cur
    OBVIOUS
  <2> QED
    BY <1>5, <2>1, <2>2, HooksWork
<1>7. ASSUME Left, \A s \in Symbols : cur \in Paths \ (excused \cup BadElf) => HookedAsAsked(cur, s)
      PROVE  HooksInv'
  <2>1. PICK c : c = cur
    OBVIOUS
  <2>2. \A s : HookedAsAsked(c, s)' <=> HookedAsAsked(c, s)
    BY <1>7, StaysHooked
  <2> QED
    BY <1>0, <1>5, <1>7, <2>1, <2>2, HooksWork
<1>8. CASE HookDone
  <2>1. Left /\ pos > Len(hookInfo) /\ pos \in Nat
    BY <1>0, <1>8 DEF HookDone, Stop, TypeOK
  <2>2. PICK c : c = cur
    OBVIOUS
  <2>3. ASSUME NEW s \in Symbols, c \in Paths \ (excused \cup BadElf) PROVE HookedAsAsked(c, s)
    <3>1. HookedUpTo(c, s, pos)
      BY <1>5, <2>1, <2>2, <2>3
    <3>2. PICK n \in Nat : n = pos
      BY <2>1
    <3> QED
      BY <2>1, <3>1, <3>2, AskedAll
  <2> QED
    BY <1>7, <2>1, <2>2, <2>3
<1>9. ASSUME NEW i \in DOMAIN hookInfo, HookStopped(i) PROVE HooksInv'
  <2>1. Left
    BY <1>9 DEF HookStopped, Trying, Stop
  <2> QED
    BY <1>7, <1>9, <2>1, StoppedAsksNothing
<1>10. ASSUME NEW i \in DOMAIN hookInfo, NEW c, c = cur, Next1, pos = i,
              \A p \in Paths, s \in Symbols : p # c => got'[p][s] = got[p][s],
              \A s \in Symbols : c \in Paths \ (excused \cup BadElf) /\ HookedUpTo(c, s, i) => HookedUpTo(c, s, i + 1)'
       PROVE  HooksInv'
  <2>1. \A s : HookedUpTo(c, s, pos)' <=> HookedUpTo(c, s, i + 1)'
    BY <1>10 DEF HookedUpTo, AskingBefore
  <2>2. \A s : HookedUpTo(c, s, pos) <=> HookedUpTo(c, s, i)
    BY <1>10
  <2> QED
    BY <1>0, <1>5, <1>10, <2>1, <2>2, HooksWork
<1>11. ASSUME NEW i \in DOMAIN hookInfo, HookSkipped(i) PROVE HooksInv'
  <2>1. Next1 /\ pos = i /\ UNCHANGED got
    BY <1>11 DEF HookSkipped, Trying
  <2>2. PICK c : c = cur
    OBVIOUS
  <2>3. ASSUME NEW s \in Symbols, HookedUpTo(c, s, i) PROVE HookedUpTo(c, s, i + 1)'
    <3>1. i \notin Asking(c, s)
      BY <1>11, <2>2, SearchSays DEF HookSkipped, Asking
    <3>2. HookedUpTo(c, s, i + 1)
      BY <2>3, <3>1, NotAsking DEF HookedUpTo
    <3> QED
      BY <2>1, <3>2, StaysHooked
  <2> QED
    BY <1>10, <2>1, <2>2, <2>3
<1>12. ASSUME NEW i \in DOMAIN hookInfo, Hook(i) PROVE HooksInv'
  <2>1. Next1 /\ pos = i /\ i \in MatchingHooks(cur) /\ Ignores(i, cur) = {}
    BY <1>12, SearchSays DEF Hook, Trying
  <2>2. PICK c : c = cur
    OBVIOUS
  <2>3. /\ got'[c][hookInfo[i].sym] = hookInfo[i].id
        /\ \A p \in Paths, s \in Symbols : p # c \/ s # hookInfo[i].sym => got'[p][s] = got[p][s]
    BY <1>12, <2>2, HookWrites
  <2>4. ASSUME NEW s \in Symbols, c \in Paths, HookedUpTo(c, s, i) PROVE HookedUpTo(c, s, i + 1)'
    <3>1. AskingBefore(c, s, i + 1)' = AskingBefore(c, s, i + 1)
          /\ \A S : hookInfo'[LastOf(S)] = hookInfo[LastOf(S)]
      BY <2>1, SameAsked
    <3>2. CASE s = hookInfo[i].sym
      <4>1. i \in Asking(c, s)
        BY <2>1, <2>2, <3>2 DEF Asking
      <4>2. LastOf(AskingBefore(c, s, i + 1)) = i
        BY <4>1, LastAsking
      <4>3. hookInfo'[i] = hookInfo[i]
        BY <2>1
      <4> QED
        BY <2>3, <3>1, <3>2, <4>2, <4>3 DEF HookedUpTo
    <3>3. CASE s # hookInfo[i].sym
      <4>1. i \notin Asking(c, s)
        BY <3>3 DEF Asking
      <4>2. HookedUpTo(c, s, i + 1)
        BY <2>4, <4>1, NotAsking DEF HookedUpTo
      <4> QED
        BY <2>1, <2>3, <2>4, <3>3, <4>2, StaysHooked
    <3> QED
      BY <3>2, <3>3
  <2> QED
    BY <1>10, <2>1, <2>2, <2>3, <2>4
<1>13. CASE \/ \E h \in HookUniverse : Register(h)
            \/ \E g \in IgnoreUniverse : Ignore(g)
            \/ Clear
  <2>1. ~Walking /\ UNCHANGED refreshed /\ DOMAIN mapInfo' = {}
    BY <1>13, TreeEmpty DEF Register, Ignore, MayAdd, Clear, Walking, HooksInv
  <2> QED
    BY <2>1 DEF EntriesInv, HooksInv
<1>14. ASSUME NEW q \in Paths, Dlclose(q) \/ \E b \in BasesOf[q] : Dlopen(q, b) PROVE HooksInv'
  <2>1. /\ UNCHANGED <<mode, lists, trees, cur, pos>>
        /\ \A p \in Paths \ {q} : base'[p] = base[p] /\ got'[p] = got[p] /\ (p \in excused' <=> p \in excused)
    BY <1>14 DEF Dlclose, Dlopen, TypeOK
  <2>2. \/ q \in excused'
        \/ ~Walking /\ (q \in DOMAIN mapInfo /\ base'[q] # 0 => mapInfo[q] # base'[q])
    BY <1>14 DEF Dlclose, Dlopen, TypeOK
  <2>3. ASSUME NEW p \in Paths \ (excused' \cup BadElf), NEW s \in Symbols
        PROVE  /\ p \in DOMAIN mapInfo /\ base'[p] # 0 /\ mapInfo[p] = base'[p] => HookedAsAsked(p, s)'
               /\ p \in DOMAIN refreshed =>
                    IF p = cur THEN HookedUpTo(p, s, pos)' ELSE HookedAsAsked(p, s)'
    <3>1. CASE p = q
      BY <2>2, <3>1 DEF EntriesInv
    <3>2. CASE p # q
      <4>1. /\ HookedAsAsked(p, s)' <=> HookedAsAsked(p, s)
            /\ HookedUpTo(p, s, pos)' <=> HookedUpTo(p, s, pos)
        BY <2>1, <3>2, StaysHooked DEF HookedUpTo, AskingBefore
      <4> QED
        BY <2>1, <3>2, <4>1 DEF HooksInv
    <3> QED
      BY <3>1, <3>2
  <2> QED
    BY <2>1, <2>3 DEF HooksInv
<1>15. CASE UNCHANGED vars
  BY <1>15, HooksIdle DEF vars
<1> QED
  BY <1>1, <1>2, <1>3, <1>4, <1>6, <1>8, <1>9, <1>11, <1>12, <1>13, <1>14, <1>15 DEF Next, Walk

\* What an entry stands for is hooked as the infos ask, through walks, loads and
\* clears.
THEOREM EntriesHooked == Spec => []HooksInv
  BY HooksInit, HooksStep, RefreshTyping, TwoTrees, EntriesAhead, PTL DEF Spec

\* After a refresh every mapped library that the filter selects has its slots
\* hooked as asked, also the ones that an earlier refresh hooked.
THEOREM RefreshHooksAll == Spec => RefreshHooks
<1>1. TypeOK /\ EntriesInv /\ HooksInv /\ [Next]_vars =>
        [Ended => \A p \in Steady \ BadElf, s \in Symbols :
           base[p] # 0 /\ Selected(p) => HookedAsAsked(p, s)]_vars
  <2> SUFFICES ASSUME TypeOK, EntriesInv, HooksInv, [Next]_vars, Ended,
                      NEW p \in Steady \ BadElf, NEW s \in Symbols, base[p] # 0, Selected(p)
               PROVE  HookedAsAsked(p, s)
    OBVIOUS
  <2>1. End /\ cur = NoPath /\ NoPath \notin Paths
    BY EndedIsEnd, RefreshAssumption DEF End, TypeOK
  <2>2. p \in Paths \ excused /\ p \notin NotElf
    BY DEF Steady
  <2>3. p \in DOMAIN refreshed
    BY <2>1, <2>2, NoLineAhead DEF Wanted
  <2> QED
    BY <2>1, <2>2, <2>3 DEF HooksInv
<1> QED
  BY <1>1, RefreshTyping, EntriesAhead, EntriesHooked, PTL DEF Spec, RefreshHooks

-----------------------------------------------------------------------------
(* Ignore infos.                                                           *)

\* The filter asks about one hook info, and what it finds holds for all.
LEMMA SelectedNotIgnored ==
  ASSUME TypeOK, NEW p, Selected(p)
  PROVE  AllSymbols \notin {g.sym : g \in MatchingIgnores(p)}
<1>1. Ignores(FirstOf(MatchingHooks(p)), p) = {}
  BY SearchSays DEF Selected
<1> QED
  BY <1>1 DEF Ignores

LEMMA IgnoredStep ==
  TypeOK /\ EntriesInv /\ HooksInv /\ IgnoredHasNoEntry /\ [Next]_vars => IgnoredHasNoEntry'
<1> SUFFICES ASSUME TypeOK, EntriesInv, HooksInv, IgnoredHasNoEntry, [Next]_vars,
                    NEW p \in Paths, AllSymbols \in {g.sym : g \in MatchingIgnores(p)}'
             PROVE  p \notin DOMAIN mapInfo' \cup DOMAIN refreshed'
  BY DEF IgnoredHasNoEntry
<1>1. CASE MayAdd /\ UNCHANGED trees
  \* Infos are added while there are no entries.
  BY <1>1 DEF MayAdd, Walking, EntriesInv, HooksInv
<1>2. CASE Clear
  BY <1>2, TreeEmpty DEF Clear, Walking, EntriesInv
<1>3. CASE UNCHANGED lists /\ (Begin \/ End \/ UNCHANGED trees)
  <2>1. AllSymbols \in {g.sym : g \in MatchingIgnores(p)}
    BY <1>3, SameMatching
  <2> QED
    BY <1>3, <2>1, TreeEmpty DEF IgnoredHasNoEntry, Begin, End
<1>4. CASE KnownLine \/ NewLine
  <2>1. UNCHANGED lists /\ Selected(path)
    BY <1>4 DEF KnownLine, NewLine
  <2>2. AllSymbols \in {g.sym : g \in MatchingIgnores(p)}
    BY <2>1, SameMatching
  <2>3. p # path
    BY <2>1, <2>2, SelectedNotIgnored
  <2> QED
    BY <1>4, <2>2, <2>3, LineMoves DEF IgnoredHasNoEntry
<1> QED
  BY <1>1, <1>2, <1>3, <1>4 DEF Next, Walk, Begin, End, NoMaps, SkipLine, NoMemory, HookAbort, HookDone,
    Stop, HookStopped, HookSkipped, Hook, Register, Ignore, Dlclose, Dlopen, vars

\* A library that an ignore info names whole never has an entry, wherever the
\* info stands in the queue and whichever hook info the filter asks about.
THEOREM IgnoredHaveNoEntry == Spec => []IgnoredHasNoEntry
<1>1. Init => IgnoredHasNoEntry
  BY TreeEmpty DEF Init, IgnoredHasNoEntry
<1> QED
  BY <1>1, IgnoredStep, RefreshTyping, EntriesAhead, EntriesHooked, PTL DEF Spec

-----------------------------------------------------------------------------
(* Following a chain.                                                      *)

\* A function of the naturals that is v from 1 on.
LEMMA StaysThere ==
  ASSUME NEW N \in Nat, NEW r, NEW v, r[1] = v,
         \A n \in 1..N : n # 1 => (r[n - 1] = v => r[n] = v)
  PROVE  \A n \in 1..N : r[n] = v
<1> DEFINE Off == {n \in 1..N : r[n] # v}
<1>1. ASSUME Off # {} PROVE FALSE
  <2>1. PICK m : m = FirstOf(Off)
    OBVIOUS
  <2>2. m \in Off /\ \A n \in Off : m <= n
    <3>1. Off \subseteq Nat
      OBVIOUS
    <3> HIDE DEF Off
    <3> QED
      BY <1>1, <2>1, <3>1, FirstIsLeast
  <2>3. m # 1 /\ m - 1 \in 1..N /\ m - 1 \notin Off
    BY <2>2
  <2> QED
    BY <2>2, <2>3
<1> QED
  BY <1>1

LEMMA SomeFuncs ==
  ASSUME NEW h \in HookUniverse
  PROVE  Cardinality(Funcs) \in Nat /\ Cardinality(Funcs) >= 1
<1>1. PICK f : f = [g \in HookUniverse |-> g.id]
  OBVIOUS
<1>2. f \in Surjection(HookUniverse, Funcs)
  BY <1>1 DEF Surjection, Funcs
<1>3. IsFiniteSet(Funcs)
  BY <1>2, FS_Surjection, RefreshAssumption
<1>4. Funcs # {}
  BY DEF Funcs
<1> QED
  BY <1>3, <1>4, FS_CardinalityType, FS_EmptySet

\* Following the calls from a slot that ChainInv describes: the function that
\* does so exists, and comes to the original.
LEMMA ChainFollowed ==
  ASSUME TypeOK, ChainInv, NEW p \in Paths, NEW s \in Symbols, SingleHook(s)
  PROVE  LET reached[n \in 0..Cardinality(Funcs)] ==
               IF n = 0 THEN got[p][s]
               ELSE IF reached[n - 1] \in Funcs THEN old[reached[n - 1]]
               ELSE reached[n - 1]
         IN reached[Cardinality(Funcs)] = "orig"
<1>1. PICK h \in HookUniverse : h.sym = s /\ \A g \in HookUniverse : g.sym = h.sym => g = h
  BY DEF SingleHook
<1>2. /\ got[p][s] = "orig" \/ (got[p][s] = h.id /\ old[h.id] = "orig")
      /\ h.id \in Funcs /\ "orig" \notin Funcs
  BY <1>1, RefreshAssumption DEF ChainInv, Funcs
<1> DEFINE N == Cardinality(Funcs)
           Chain(f) == f = [n \in 0..N |->
                              IF n = 0 THEN got[p][s]
                              ELSE IF f[n - 1] \in Funcs THEN old[f[n - 1]]
                              ELSE f[n - 1]]
<1>3. N \in Nat /\ N >= 1
  BY SomeFuncs
<1>4. \E f : Chain(f)
  <2>1. PICK f : f = [n \in 0..N |-> IF n = 0 THEN got[p][s] ELSE "orig"]
    OBVIOUS
  <2>2. ASSUME NEW n \in 0..N, n # 0
        PROVE  (IF f[n - 1] \in Funcs THEN old[f[n - 1]] ELSE f[n - 1]) = "orig"
    <3>1. n - 1 \in 0..N /\ f[n - 1] = IF n = 1 THEN got[p][s] ELSE "orig"
      BY <1>3, <2>1, <2>2
    <3> QED
      BY <1>2, <3>1
  <2>3. f = [n \in 0..N |-> IF n = 0 THEN got[p][s]
                             ELSE IF f[n - 1] \in Funcs THEN old[f[n - 1]] ELSE f[n - 1]]
    BY <2>1, <2>2
  <2> QED
    BY <2>3
<1>5. \A f : Chain(f) => f[N] = "orig"
  <2> SUFFICES ASSUME NEW f, Chain(f) PROVE f[N] = "orig"
    OBVIOUS
  <2>1. \A n \in 1..N : f[n] = IF f[n - 1] \in Funcs THEN old[f[n - 1]] ELSE f[n - 1]
    <3> TAKE n \in 1..N
    <3>1. n \in 0..N /\ n # 0
      BY <1>3
    <3> QED
      BY <3>1
  <2>2. f[0] = got[p][s]
    BY <1>3
  <2>3. f[1] = "orig"
    <3>1. f[1] = IF f[0] \in Funcs THEN old[f[0]] ELSE f[0]
      BY <1>3, <2>1
    <3> QED
      BY <1>2, <2>2, <3>1
  <2>4. \A n \in 1..N : n # 1 => (f[n - 1] = "orig" => f[n] = "orig")
    BY <1>2, <2>1
  <2> HIDE DEF Chain, N
  <2>5. \A n \in 1..N : f[n] = "orig"
    BY <1>3, <2>3, <2>4, StaysThere
  <2> QED
    BY <1>3, <2>5
<1>6. (CHOOSE f : Chain(f))[N] = "orig"
  <2> HIDE DEF Chain, N
  <2> QED
    BY <1>4, <1>5
<1> QED
  BY <1>6, Zenon

\* Calling through a slot, and from each new_func through its *old_func, comes
\* to the original, for the symbols that one function replaces.
THEOREM ChainsReachOriginal == Spec => []ChainReachesOriginal
<1>1. TypeOK /\ ChainInv => ChainReachesOriginal
  BY ChainFollowed, Zenon DEF ChainReachesOriginal
<1> QED
  BY <1>1, RefreshTyping, ChainEnds, PTL
=============================================================================
