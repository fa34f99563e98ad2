--------------------------- MODULE ElfHookProofs ---------------------------
(***************************************************************************)
(* Proofs about elfhook1, elfhook2 and elfhook3, for all processes whose   *)
(* libraries a linker could have laid out, all sets of symbols to hook, all*)
(* page sizes and hash functions, and any number of calls.                 *)
(***************************************************************************)
EXTENDS ElfHooks, SequenceTheorems, WellFoundedInduction, TLAPS

-----------------------------------------------------------------------------
(* The lookups.                                                            *)

\* A set of naturals has a least element, which Min is.
LEMMA LeastNatural ==
  ASSUME NEW S, S \subseteq Nat, S # {}
  PROVE  Min(S) \in S /\ \A n \in S : Min(S) <= n
<1> DEFINE Less == {ss \in Nat \X Nat : ss[1] < ss[2]}
<1>1. IsWellFoundedOn(Less, Nat)
  BY NatLessThanWellFounded, Zenon DEF OpToRel
<1>2. PICK m \in S : \A n \in S : ~(<<n, m>> \in Less)
  <2> HIDE DEF Less
  <2> QED
    BY <1>1, WFMin
<1>3. ASSUME NEW n \in S PROVE m <= n
  <2>1. m \in Nat /\ n \in Nat /\ ~(<<n, m>> \in Less)
    BY <1>2
  <2>2. n < m => <<n, m>> \in Less
    BY <2>1
  <2> QED
    BY <2>1, <2>2
<1> QED
  BY <1>3, Zenon DEF Min

\* A bounded set of naturals has a greatest element.
LEMMA GreatestNatural ==
  ASSUME NEW N \in Nat, NEW S, S \subseteq 0..N, S # {}
  PROVE  \E m \in S : \A n \in S : n <= m
<1> DEFINE Below == {N - n : n \in S}
<1>1. Below \subseteq Nat /\ Below # {}
  <2>1. \A n \in S : N - n \in Nat
    OBVIOUS
  <2>2. PICK n : n \in S
    OBVIOUS
  <2>3. N - n \in Below
    BY <2>2
  <2> QED
    BY <2>1, <2>3
<1>2. PICK b \in Below : \A c \in Below : b <= c
  <2> HIDE DEF Below
  <2> QED
    BY <1>1, LeastNatural
<1>3. PICK m \in S : b = N - m
  OBVIOUS
<1>4. ASSUME NEW n \in S PROVE n <= m
  <2>1. N - n \in Below
    OBVIOUS
  <2>2. N - m <= N - n
    BY <1>2, <1>3, <2>1
  <2> QED
    BY <2>2
<1> QED
  BY <1>4

\* What following a DT_HASH chain finds has the name.
LEMMA ElfChainFinds ==
  ASSUME NEW syms, NEW chain, NEW name, NEW i, Len(chain) \in Nat,
         OnChain(syms, chain, name, i) # NotFound
  PROVE  syms[OnChain(syms, chain, name, i) + 1] = name
<1> DEFINE at[k \in 0..Len(chain)] ==
             IF k = 0 THEN i ELSE IF at[k - 1] = 0 THEN 0 ELSE chain[at[k - 1] + 1]
           hits == {k \in 0..Len(chain) : at[k] # 0 /\ syms[at[k] + 1] = name}
<1>1. OnChain(syms, chain, name, i) = IF hits = {} THEN NotFound ELSE at[Min(hits)]
  BY Zenon DEF OnChain, ChainFrom
<1> HIDE DEF at
<1>2. hits \subseteq Nat
  OBVIOUS
<1>3. hits # {} => Min(hits) \in hits
  <2> HIDE DEF hits
  <2> QED
    BY <1>2, LeastNatural
<1> QED
  BY <1>1, <1>3

\* What following a DT_GNU_HASH chain finds has the name.
LEMMA GnuChainFinds ==
  ASSUME NEW syms, NEW t, NEW name, NEW i, t.symoffset \in Nat, Len(t.chain) \in Nat,
         OnGnuChain(syms, t, name, i) # NotFound
  PROVE  syms[OnGnuChain(syms, t, name, i) + 1] = name
<1> DEFINE Link(j) == t.chain[j - t.symoffset + 1]
           hits == {j \in 0..(t.symoffset + Len(t.chain) - 1) :
                      /\ i <= j /\ \A k \in i..(j - 1) : ~EndsChain(Link(k))
                      /\ SameHash(Link(j), GnuHash[name]) /\ syms[j + 1] = name}
<1>1. OnGnuChain(syms, t, name, i) = IF hits = {} THEN NotFound ELSE Min(hits)
  BY Zenon DEF OnGnuChain
<1>2. hits \subseteq Nat
  OBVIOUS
<1>3. hits # {} => syms[Min(hits) + 1] = name
  <2>1. \A j \in hits : syms[j + 1] = name
    OBVIOUS
  <2> HIDE DEF hits
  <2> QED
    BY <1>2, <2>1, LeastNatural
<1> QED
  BY <1>1, <1>3

\* A function that is made step by step exists, and its values are of the type.
Steps(N, S, F) == \A k \in 1..N, s \in S : F[k][s] \in S
Follows(f, N, S, start, F) == f \in [0..N -> S] /\ f[0] = start /\ \A k \in 1..N : f[k] = F[k][f[k - 1]]

LEMMA StepByStep ==
  ASSUME NEW N \in Nat, NEW S, NEW start \in S, NEW F, Steps(N, S, F)
  PROVE  \E f : Follows(f, N, S, start, F)
<1> DEFINE Upto(n, f) == /\ f \in [0..n -> S] /\ f[0] = start
                         /\ \A k \in 1..n : f[k] = F[k][f[k - 1]]
           Never == {n \in 0..N : ~\E f : Upto(n, f)}
<1>1. ASSUME Never # {} PROVE FALSE
  <2>1. PICK n : n \in Never /\ \A m \in Never : n <= m
    <3>1. Never \subseteq Nat
      OBVIOUS
    <3> HIDE DEF Never
    <3> QED
      BY <1>1, <3>1, LeastNatural
  <2>2. n \in 0..N /\ ~\E f : Upto(n, f)
    BY <2>1
  <2>3. CASE n = 0
    <3>1. PICK f : f = [k \in 0..0 |-> start]
      OBVIOUS
    <3>2. Upto(0, f)
      BY <3>1
    <3> QED
      BY <2>2, <2>3, <3>2
  <2>4. CASE n # 0
    <3>1. n - 1 \in 0..N /\ n - 1 \notin Never
      <4>1. n - 1 \in 0..N /\ ~(n <= n - 1)
        BY <2>2, <2>4
      <4> HIDE DEF Never
      <4> QED
        BY <2>1, <4>1
    <3>2. PICK f : Upto(n - 1, f)
      BY <3>1
    <3>3. PICK g : g = [k \in 0..n |-> IF k = n THEN F[n][f[n - 1]] ELSE f[k]]
      OBVIOUS
    <3>4. f[n - 1] \in S /\ n \in 1..N /\ F[n][f[n - 1]] \in S
      BY <2>2, <2>4, <3>2 DEF Steps
    <3>5. g \in [0..n -> S] /\ g[0] = start
      BY <2>2, <2>4, <3>2, <3>3, <3>4
    <3>6. ASSUME NEW k \in 1..n PROVE g[k] = F[k][g[k - 1]]
      <4>1. CASE k = n
        BY <2>2, <3>3, <4>1
      <4>2. CASE k # n
        <5>1. k \in 1..(n - 1) /\ k \in 0..n /\ k - 1 \in 0..n /\ k - 1 # n
          BY <2>2, <4>2
        <5> QED
          BY <3>2, <3>3, <4>2, <5>1
      <4> QED
        BY <4>1, <4>2
    <3>7. Upto(n, g)
      BY <3>5, <3>6
    <3> QED
      BY <2>2, <3>7
  <2> QED
    BY <2>3, <2>4
<1>2. N \notin Never
  BY <1>1
<1> QED
  BY <1>2 DEF Follows

\* A property that the first value has and each step keeps holds of the last value.
LEMMA KeptToTheEnd ==
  ASSUME NEW N \in Nat, NEW f, NEW S, f[0] \in S,
         \A k \in 1..N : f[k - 1] \in S => f[k] \in S
  PROVE  f[N] \in S
<1> DEFINE Off == {n \in 0..N : f[n] \notin S}
<1>1. ASSUME Off # {} PROVE FALSE
  <2>1. PICK n : n \in Off /\ \A m \in Off : n <= m
    <3>1. Off \subseteq Nat
      OBVIOUS
    <3> HIDE DEF Off
    <3> QED
      BY <1>1, <3>1, LeastNatural
  <2>2. n # 0 /\ n \in 1..N /\ n - 1 \in 0..N /\ n - 1 \notin Off
    BY <2>1
  <2> QED
    BY <2>1, <2>2
<1> QED
  BY <1>1

\* What is on a chain are indices of symbols.
LEMMA ChainIndices ==
  ASSUME NEW chain, NEW N \in Nat, Len(chain) = N, \A k \in 1..N : chain[k] \in 0..(N - 1),
         NEW i \in 0..(N - 1)
  PROVE  \A k \in 0..N : ChainFrom(chain, i)[k] \in 0..(N - 1)
<1> DEFINE S == 0..(N - 1)
           Next1In(j) == IF j = 0 THEN 0 ELSE chain[j + 1]
           Found(f) == f = [k \in 0..Len(chain) |->
                              IF k = 0 THEN i ELSE IF f[k - 1] = 0 THEN 0 ELSE chain[f[k - 1] + 1]]
<1>1. \A j \in S : Next1In(j) \in S
  <2>1. ASSUME NEW j \in S, j # 0 PROVE j + 1 \in 1..N
    BY <2>1
  <2> QED
    BY <2>1
<1>2. \E f : Found(f)
  <2>1. PICK F : F = [k \in 1..N |-> [j \in S |-> Next1In(j)]]
    OBVIOUS
  <2>2. F \in [1..N -> [S -> S]]
    <3> HIDE DEF S, Next1In
    <3> QED
      BY <1>1, <2>1
  <2>3. PICK f \in [0..N -> S] : f[0] = i /\ \A k \in 1..N : f[k] = F[k][f[k - 1]]
    <3>1. Steps(N, S, F) /\ i \in S
      BY <2>2 DEF Steps
    <3> HIDE DEF S
    <3>2. PICK f : Follows(f, N, S, i, F)
      BY <3>1, StepByStep
    <3> QED
      BY <3>2 DEF Follows
  <2>4. ASSUME NEW k \in 0..N
        PROVE  f[k] = IF k = 0 THEN i ELSE IF f[k - 1] = 0 THEN 0 ELSE chain[f[k - 1] + 1]
    <3>1. CASE k = 0
      BY <2>3, <3>1
    <3>2. CASE k # 0
      <4>1. k \in 1..N /\ k - 1 \in 0..N
        BY <3>2
      <4>2. f[k] = Next1In(f[k - 1])
        <5> HIDE DEF S, Next1In
        <5> QED
          BY <2>1, <2>3, <4>1
      <4> QED
        BY <3>2, <4>2
    <3> QED
      BY <3>1, <3>2
  <2>5. f = [k \in 0..N |-> IF k = 0 THEN i ELSE IF f[k - 1] = 0 THEN 0 ELSE chain[f[k - 1] + 1]]
    <3> HIDE DEF S
    <3> QED
      BY <2>4
  <2> QED
    BY <2>5
<1>3. PICK f : f = CHOOSE g : Found(g)
  OBVIOUS
<1>4. Found(f)
  <2> HIDE DEF Found
  <2> QED
    BY <1>2, <1>3
<1>5. ASSUME NEW m \in 0..N PROVE f[m] \in S
  <2>1. f[0] \in S
    BY <1>4
  <2>2. ASSUME NEW k \in 1..m, f[k - 1] \in S PROVE f[k] \in S
    <3>1. k \in 0..N /\ k # 0
      OBVIOUS
    <3>2. f[k] = Next1In(f[k - 1])
      BY <1>4, <3>1
    <3> HIDE DEF S, Next1In
    <3> QED
      BY <1>1, <2>2, <3>2
  <2> HIDE DEF S
  <2> QED
    BY <2>1, <2>2, KeptToTheEnd
<1>6. ChainFrom(chain, i) = f
  BY <1>3, Zenon DEF ChainFrom
<1> QED
  BY <1>5, <1>6

\* Looking up a name in a DT_HASH table that has the names answers the index of a
\* symbol with the name, whenever there is one.
LEMMA ElfIndex ==
  ASSUME NEW syms, Len(syms) \in Nat, NEW t, NEW names, InElfHash(syms, t, names),
         NEW name \in names, NEW x, x = ByElfHash(syms, t, name)
  PROVE  /\ x # NotFound => x \in 0..(Len(syms) - 1) /\ syms[x + 1] = name
         /\ (\E i \in 1..(Len(syms) - 1) : syms[i + 1] = name) => x # NotFound
<1>1. PICK N, b : N = Len(syms) /\ b = t.bucket[(ElfHash[name] % Len(t.bucket)) + 1]
  OBVIOUS
<1>2. PICK chain : chain = t.chain
  OBVIOUS
<1>3. /\ N \in Nat /\ Len(chain) = N /\ \A k \in 1..N : chain[k] \in 0..(N - 1) /\ b \in 0..(N - 1)
      /\ \A i \in 1..(N - 1) : syms[i + 1] = name => \E k \in 0..N : ChainFrom(chain, b)[k] = i
  BY <1>1, <1>2 DEF InElfHash
<1>4. PICK at : at = ChainFrom(chain, b)
  OBVIOUS
<1>5. b \in 0..(N - 1) /\ \A k \in 0..N : at[k] \in 0..(N - 1)
  <2>1. b \in 0..(N - 1)
    BY <1>1, <1>2 DEF InElfHash
  <2> QED
    BY <1>3, <1>4, <2>1, ChainIndices
<1> DEFINE hits == {k \in 0..N : at[k] # 0 /\ syms[at[k] + 1] = name}
<1>6. x = IF hits = {} THEN NotFound ELSE at[Min(hits)]
  BY <1>1, <1>2, <1>3, <1>4 DEF ByElfHash, OnChain
<1>7. hits # {} => Min(hits) \in hits
  <2>1. hits \subseteq Nat
    BY <1>3
  <2> HIDE DEF hits
  <2> QED
    BY <2>1, LeastNatural
<1>8. ASSUME NEW i \in 1..(N - 1), syms[i + 1] = name PROVE hits # {}
  <2>1. PICK k \in 0..N : at[k] = i
    BY <1>3, <1>4, <1>8
  <2>2. k \in hits
    BY <1>3, <1>8, <2>1
  <2> QED
    BY <2>2
<1>9. hits # {} => x \in 0..(N - 1) /\ syms[x + 1] = name
  BY <1>5, <1>6, <1>7
<1> HIDE DEF hits
<1> QED
  BY <1>1, <1>3, <1>6, <1>8, <1>9 DEF NotFound

\* Against goes through the relocations one by one.
Matches(relocs, n, i, types) == {r \in {relocs[k] : k \in 1..n} : r.sym = i /\ r.type \in types}
Lists(f, relocs, n, i, types) ==
  /\ f[0] = <<>> /\ \A k \in 0..n : f[k] \in Seq(Matches(relocs, n, i, types))
  /\ \A k \in 1..n : f[k] = IF relocs[k].sym = i /\ relocs[k].type \in types
                          THEN Append(f[k - 1], relocs[k]) ELSE f[k - 1]

LEMMA AgainstSteps ==
  ASSUME NEW relocs, NEW n \in Nat, NEW i, NEW types
  PROVE  \E f : Lists(f, relocs, n, i, types) /\ Against(relocs, n, i, types) = f[n]
<1> DEFINE M == {r \in {relocs[k] : k \in 1..n} : r.sym = i /\ r.type \in types}
           Mine(k) == relocs[k].sym = i /\ relocs[k].type \in types
           Found(f) == f = [k \in 0..n |-> IF k = 0 THEN <<>>
                              ELSE IF relocs[k].sym = i /\ relocs[k].type \in types
                                   THEN Append(f[k - 1], relocs[k])
                              ELSE f[k - 1]]
<1>1. \A k \in 1..n : Mine(k) => relocs[k] \in M
  OBVIOUS
<1>2. \E f : Found(f)
  <2>1. PICK F : F = [k \in 1..n |-> [s \in Seq(M) |-> IF Mine(k) THEN Append(s, relocs[k]) ELSE s]]
    OBVIOUS
  <2>2. F \in [1..n -> [Seq(M) -> Seq(M)]]
    <3>1. \A k \in 1..n, s \in Seq(M) : (IF Mine(k) THEN Append(s, relocs[k]) ELSE s) \in Seq(M)
      <4> HIDE DEF M, Mine
      <4> QED
        BY <1>1, AppendProperties
    <3> HIDE DEF M, Mine
    <3> QED
      BY <2>1, <3>1
  <2>3. <<>> \in Seq(M)
    OBVIOUS
  <2>4. PICK f \in [0..n -> Seq(M)] : f[0] = <<>> /\ \A k \in 1..n : f[k] = F[k][f[k - 1]]
    <3>1. Steps(n, Seq(M), F)
      <4> HIDE DEF M, Mine
      <4> QED
        BY <2>2 DEF Steps
    <3>2. PICK f : Follows(f, n, Seq(M), <<>>, F)
      <4> HIDE DEF M, Mine
      <4> QED
        BY <2>3, <3>1, StepByStep
    <3> HIDE DEF M, Mine
    <3> QED
      BY <3>2 DEF Follows
  <2>5. ASSUME NEW k \in 0..n
        PROVE  f[k] = IF k = 0 THEN <<>>
                      ELSE IF Mine(k) THEN Append(f[k - 1], relocs[k]) ELSE f[k - 1]
    <3> HIDE DEF M, Mine
    <3>1. CASE k = 0
      BY <2>4, <3>1
    <3>2. CASE k # 0
      <4>1. k \in 1..n /\ k - 1 \in 0..n
        BY <3>2
      <4>2. f[k - 1] \in Seq(M)
        BY <4>1
      <4>3. f[k] = F[k][f[k - 1]]
        BY <2>4, <4>1
      <4>4. F[k][f[k - 1]] = IF Mine(k) THEN Append(f[k - 1], relocs[k]) ELSE f[k - 1]
        BY <2>1, <4>1, <4>2
      <4> QED
        BY <3>2, <4>3, <4>4
    <3> QED
      BY <3>1, <3>2
  <2>6. Found(f)
    <3>1. f = [k \in 0..n |-> IF k = 0 THEN <<>>
                 ELSE IF Mine(k) THEN Append(f[k - 1], relocs[k]) ELSE f[k - 1]]
      <4> HIDE DEF M, Mine
      <4> QED
        BY <2>5
    <3> QED
      BY <3>1
  <2> QED
    BY <2>6
<1>3. PICK f : f = CHOOSE g : Found(g)
  OBVIOUS
<1>4. Found(f)
  <2> HIDE DEF Found
  <2> QED
    BY <1>2, <1>3
<1>5. f[0] = <<>>
  BY <1>4
<1>6. ASSUME NEW k \in 1..n PROVE f[k] = IF Mine(k) THEN Append(f[k - 1], relocs[k]) ELSE f[k - 1]
  <2>1. k \in 0..n /\ k # 0
    OBVIOUS
  <2> QED
    BY <1>4, <2>1
<1>7. ASSUME NEW m \in 0..n PROVE f[m] \in Seq(M)
  <2>1. f[0] \in Seq(M)
    BY <1>5
  <2>2. ASSUME NEW k \in 1..m, f[k - 1] \in Seq(M) PROVE f[k] \in Seq(M)
    <3>1. k \in 1..n
      OBVIOUS
    <3> HIDE DEF M, Mine
    <3> QED
      BY <1>1, <1>6, <2>2, <3>1, AppendProperties
  <2> HIDE DEF M
  <2> QED
    BY <2>1, <2>2, KeptToTheEnd
<1>8. Against(relocs, n, i, types) = f[n]
  BY <1>3, Zenon DEF Against
<1> HIDE DEF Found
<1> QED
  BY <1>5, <1>6, <1>7, <1>8 DEF Lists, Matches

\* Against lists relocations of the types against the symbol, and nothing else.
LEMMA AgainstMatches ==
  ASSUME NEW relocs, NEW n \in Nat, NEW i, NEW types
  PROVE  Against(relocs, n, i, types)
           \in Seq({r \in {relocs[k] : k \in 1..n} : r.sym = i /\ r.type \in types})
<1>1. n \in 0..n
  OBVIOUS
<1>2. PICK f : Lists(f, relocs, n, i, types) /\ Against(relocs, n, i, types) = f[n]
  BY AgainstSteps
<1> QED
  BY <1>1, <1>2 DEF Lists, Matches

\* Against leaves none of them out.
LEMMA AgainstHas ==
  ASSUME NEW relocs, NEW n \in Nat, NEW i, NEW types, NEW k \in 1..n,
         relocs[k].sym = i, relocs[k].type \in types
  PROVE  \E j \in 1..Len(Against(relocs, n, i, types)) : Against(relocs, n, i, types)[j] = relocs[k]
<1>1. PICK M : M = Matches(relocs, n, i, types)
  OBVIOUS
<1>2. PICK f : Lists(f, relocs, n, i, types) /\ Against(relocs, n, i, types) = f[n]
  BY AgainstSteps
<1>3. PICK r : r = relocs[k]
  OBVIOUS
<1> DEFINE Holding == {s \in Seq(M) : \E j \in 1..Len(s) : s[j] = r}
<1>4. ASSUME NEW s \in Seq(M), NEW e \in M PROVE Append(s, e) \in Seq(M) /\ (e = r \/ s \in Holding => Append(s, e) \in Holding)
  <2>1. /\ Append(s, e) \in Seq(M) /\ Len(Append(s, e)) = Len(s) + 1 /\ Append(s, e)[Len(s) + 1] = e
        /\ \A j \in 1..Len(s) : Append(s, e)[j] = s[j]
    BY AppendProperties
  <2>2. Len(s) \in Nat
    BY LenProperties
  <2>3. PICK a : a = Append(s, e)
    OBVIOUS
  <2>4. CASE e = r
    <3>1. a[Len(s) + 1] = r /\ Len(s) + 1 \in 1..Len(a)
      BY <2>1, <2>2, <2>3, <2>4
    <3> QED
      BY <2>1, <2>3, <3>1
  <2>5. CASE s \in Holding
    <3>1. PICK j \in 1..Len(s) : s[j] = r
      BY <2>5
    <3>2. j \in 1..Len(a) /\ a[j] = r
      BY <2>1, <2>2, <2>3, <3>1
    <3> QED
      BY <2>1, <2>3, <3>2
  <2> QED
    BY <2>1, <2>4, <2>5
<1>5. \A m \in 1..n : relocs[m].sym = i /\ relocs[m].type \in types => relocs[m] \in M
  BY <1>1 DEF Matches
<1>6. f[k] \in Holding
  <2>1. f[k] = Append(f[k - 1], r) /\ f[k - 1] \in Seq(M) /\ r \in M
    <3>1. k - 1 \in 0..n
      OBVIOUS
    <3> QED
      BY <1>1, <1>2, <1>3, <1>5, <3>1 DEF Lists
  <2> HIDE DEF Holding
  <2> QED
    BY <1>4, <2>1
<1>7. PICK g : g = [m \in 0..(n - k) |-> f[k + m]]
  OBVIOUS
<1>8. g[0] \in Holding
  <2>1. 0 \in 0..(n - k) /\ k + 0 = k
    OBVIOUS
  <2>2. g[0] = f[k]
    BY <1>7, <2>1
  <2> HIDE DEF Holding
  <2> QED
    BY <1>6, <2>2
<1>9. ASSUME NEW m \in 1..(n - k), g[m - 1] \in Holding PROVE g[m] \in Holding
  <2>1. /\ k + m \in 1..n /\ k + m - 1 \in 0..n /\ m \in 0..(n - k) /\ m - 1 \in 0..(n - k)
        /\ k + (m - 1) = k + m - 1
    OBVIOUS
  <2>2. g[m] = f[k + m] /\ g[m - 1] = f[k + m - 1]
    BY <1>7, <2>1
  <2>3. f[k + m - 1] \in Seq(M)
    BY <1>1, <1>2, <2>1 DEF Lists
  <2>4. PICK o : o = k + m
    OBVIOUS
  <2>5. f[o] = IF relocs[o].sym = i /\ relocs[o].type \in types THEN Append(f[o - 1], relocs[o]) ELSE f[o - 1]
    BY <1>2, <2>1, <2>4 DEF Lists
  <2> HIDE DEF Holding
  <2> QED
    BY <1>4, <1>5, <1>9, <2>1, <2>2, <2>3, <2>4, <2>5
<1>10. g[n - k] \in Holding
  <2>1. n - k \in Nat
    OBVIOUS
  <2> HIDE DEF Holding
  <2> QED
    BY <1>8, <1>9, <2>1, KeptToTheEnd
<1>11. g[n - k] = f[n]
  <2>1. n - k \in 0..(n - k) /\ k + (n - k) = n
    OBVIOUS
  <2> QED
    BY <1>7, <2>1
<1> QED
  BY <1>2, <1>3, <1>10, <1>11

\* The first line of the maps for which a test holds.
LEMMA FirstLine ==
  ASSUME NEW lines, NEW matching, Len(lines) \in Nat,
         NEW k, k = SelectInSeq(lines, LAMBDA l : l.name \in matching), k # 0
  PROVE  /\ k \in 1..Len(lines) /\ lines[k].name \in matching
         /\ \A j \in 1..(k - 1) : lines[j].name \notin matching
<1> DEFINE hits == {j \in 1..Len(lines) : lines[j].name \in matching}
<1>1. k = IF hits # {} THEN Min(hits) ELSE 0
  BY DEF SelectInSeq
<1>2. hits \subseteq Nat
  OBVIOUS
<1>3. k \in hits /\ \A j \in hits : k <= j
  <2> HIDE DEF hits
  <2> QED
    BY <1>1, <1>2, LeastNatural
<1>4. ASSUME NEW j \in 1..(k - 1), lines[j].name \in matching PROVE FALSE
  <2>1. j \in hits /\ ~(k <= j)
    BY <1>3, <1>4
  <2> HIDE DEF hits
  <2> QED
    BY <1>3, <2>1
<1> QED
  BY <1>3, <1>4
-----------------------------------------------------------------------------
(* The slots a hook replaces are slots of its symbol in its library.       *)

\* The addresses of the slots of the symbol in the library.
SlotsOf(l, sym) == {s.addr : s \in {t \in l.slots : t.name = sym}}

\* Relocations that, with the bias, are at addresses in A.
Aims(rs, bias, A) == \E M : rs \in Seq(M) /\ \A r \in M : bias + r.offset \in A

\* A table a linker has laid out, read against the index of the symbol, aims at its slots.
LEMMA TableAims ==
  ASSUME NEW l, NEW bias, NEW ds, NEW tags, NEW sizes, Has(ds, tags),
         Linked(l, bias, ds, tags, sizes),
         NEW i, NEW sym, l.at[bias + Val(ds, {"SYMTAB"})][i + 1] = sym,
         NEW types, types \subseteq PltTypes \cup DynTypes,
         NEW n, n \in 0..Len(l.at[bias + Val(ds, tags)])
  PROVE  Aims(Against(l.at[bias + Val(ds, tags)], n, i, types), bias, SlotsOf(l, sym))
<1>1. PICK table : table = l.at[bias + Val(ds, tags)]
  OBVIOUS
<1>2. PICK syms : syms = l.at[bias + Val(ds, {"SYMTAB"})]
  OBVIOUS
<1>3. /\ Len(table) \in Nat /\ n \in 0..Len(table) /\ n \in Nat
      /\ \A k \in 1..Len(table) : table[k].type \in PltTypes \cup DynTypes =>
            \E s \in l.slots : s.addr = bias + table[k].offset /\ s.name = syms[table[k].sym + 1]
  BY <1>1, <1>2 DEF Linked, TableAt, SymsAt
<1>4. syms[i + 1] = sym
  BY <1>2
<1> DEFINE M == {r \in {table[k] : k \in 1..n} : r.sym = i /\ r.type \in types}
<1>5. Against(table, n, i, types) \in Seq(M)
  BY <1>3, AgainstMatches
<1>6. ASSUME NEW r \in M PROVE bias + r.offset \in SlotsOf(l, sym)
  <2>1. PICK k \in 1..n : r = table[k]
    OBVIOUS
  <2>2. k \in 1..Len(table) /\ table[k].sym = i /\ table[k].type \in PltTypes \cup DynTypes
    BY <1>3, <2>1
  <2>3. PICK s \in l.slots : s.addr = bias + table[k].offset /\ s.name = syms[table[k].sym + 1]
    BY <1>3, <2>2
  <2> QED
    BY <1>4, <2>1, <2>2, <2>3 DEF SlotsOf
<1> HIDE DEF M
<1> QED
  BY <1>1, <1>5, <1>6 DEF Aims

LEMMA NothingAims ==
  ASSUME NEW bias, NEW A
  PROVE  Aims(<<>>, bias, A)
<1>1. PICK E : E = {}
  OBVIOUS
<1>2. <<>> \in Seq(E) /\ \A r \in E : bias + r.offset \in A
  BY <1>1
<1> QED
  BY <1>2 DEF Aims

\* The first entry of one table and all of another.
LEMMA BothAim ==
  ASSUME NEW bias, NEW A, NEW plt, NEW dyn, Aims(plt, bias, A), Aims(dyn, bias, A)
  PROVE  Offsets(FirstOf(plt) \o dyn, bias) \in Seq(A)
<1>1. PICK P : plt \in Seq(P) /\ \A r \in P : bias + r.offset \in A
  BY DEF Aims
<1>2. PICK D : dyn \in Seq(D) /\ \A r \in D : bias + r.offset \in A
  BY DEF Aims
<1>3. PICK M : M = P \cup D
  OBVIOUS
<1>4. FirstOf(plt) \in Seq(M)
  <2>1. CASE plt = <<>>
    BY <2>1 DEF FirstOf
  <2>2. CASE plt # <<>>
    <3>1. Head(plt) \in M
      BY <1>1, <1>3, <2>2, HeadTailProperties
    <3> QED
      BY <2>2, <3>1 DEF FirstOf
  <2> QED
    BY <2>1, <2>2
<1>5. dyn \in Seq(M)
  <2>1. D \subseteq M
    BY <1>3
  <2> QED
    BY <1>2, <2>1, SeqMonotonic
<1>6. PICK rs : rs = FirstOf(plt) \o dyn
  OBVIOUS
<1>7. rs \in Seq(M)
  BY <1>4, <1>5, <1>6, ConcatProperties
<1>8. Len(rs) \in Nat /\ \A k \in 1..Len(rs) : bias + rs[k].offset \in A
  BY <1>1, <1>2, <1>3, <1>7, ElementOfSeq, LenProperties
<1>9. [k \in 1..Len(rs) |-> bias + rs[k].offset] \in Seq(A)
  BY <1>8, IsASeq
<1> QED
  BY <1>6, <1>9 DEF Offsets

LEMMA LibLinked ==
  ASSUME process \in Processes, NEW i \in DOMAIN process.libs
  PROVE  /\ process.hook = 1 => Linked1(Lib(i), ToSet(process.symbols))
         /\ process.hook = 2 => Linked2(Lib(i))
         /\ process.hook = 3 => Linked3(Lib(i), ToSet(process.symbols))
  BY ProcessesAssumption DEF Lib

LEMMA Aims1 ==
  ASSUME process \in Processes, process.hook = 1, NEW i \in DOMAIN process.libs,
         Readable1(Lib(i)), NEW sym, FindSymByName(Lib(i), sym) # NotFound
  PROVE  Slots1(Lib(i), FindSymByName(Lib(i), sym)) \in Seq(SlotsOf(Lib(i), sym))
<1>1. PICK l : l = Lib(i)
  OBVIOUS
<1>2. Readable1(l) /\ Linked1(l, ToSet(process.symbols))
  BY <1>1, LibLinked
<1>3. PICK x : x = FindSymByName(l, sym)
  OBVIOUS
<1>4. l.at[l.base + Val(l.dyn, {"SYMTAB"})][x + 1] = sym
  <2>1. Len(l.at[l.base + Val(l.dyn, {"HASH"})].chain) \in Nat
    BY <1>2 DEF Linked1, Hashed, TableAt, Readable1, Reads1
  <2> QED
    BY <1>1, <1>3, <2>1, ElfChainFinds DEF FindSymByName, ByElfHash
<1> DEFINE Plt == IF Reads1(l, "JMPREL")
                  THEN Against(l.at[l.base + Val(l.dyn, {"JMPREL"})], Size(l.dyn, {"PLTRELSZ"}), x, PltTypes)
                  ELSE <<>>
           Rel == IF Reads1(l, "REL")
                  THEN Against(l.at[l.base + Val(l.dyn, {"REL"})], Size(l.dyn, {"RELSZ"}), x, DynTypes)
                  ELSE <<>>
<1>5. Aims(Plt, l.base, SlotsOf(l, sym))
  <2>1. CASE Reads1(l, "JMPREL")
    <3>1. Has(l.dyn, {"JMPREL"}) /\ Linked(l, l.base, l.dyn, {"JMPREL"}, {"PLTRELSZ"})
      BY <1>2, <2>1 DEF Linked1, Reads1
    <3>2. Size(l.dyn, {"PLTRELSZ"}) \in 0..Len(l.at[l.base + Val(l.dyn, {"JMPREL"})])
      BY <3>1 DEF Linked, TableAt
    <3> QED
      BY <1>4, <2>1, <3>1, <3>2, TableAims
  <2>2. CASE ~Reads1(l, "JMPREL")
    BY <2>2, NothingAims
  <2> QED
    BY <2>1, <2>2
<1>6. Aims(Rel, l.base, SlotsOf(l, sym))
  <2>1. CASE Reads1(l, "REL")
    <3>1. Has(l.dyn, {"REL"}) /\ Linked(l, l.base, l.dyn, {"REL"}, {"RELSZ"})
      BY <1>2, <2>1 DEF Linked1, Reads1
    <3>2. Size(l.dyn, {"RELSZ"}) \in 0..Len(l.at[l.base + Val(l.dyn, {"REL"})])
      BY <3>1 DEF Linked, TableAt
    <3> QED
      BY <1>4, <2>1, <3>1, <3>2, TableAims
  <2>2. CASE ~Reads1(l, "REL")
    BY <2>2, NothingAims
  <2> QED
    BY <2>1, <2>2
<1>7. Offsets(FirstOf(Plt) \o Rel, l.base) \in Seq(SlotsOf(l, sym))
  <2> HIDE DEF Plt, Rel
  <2> QED
    BY <1>5, <1>6, BothAim
<1>8. Slots1(l, x) = Offsets(FirstOf(Plt) \o Rel, l.base)
  BY DEF Slots1
<1> QED
  BY <1>1, <1>3, <1>7, <1>8

\* What ElfReader finds has the name, wherever it finds it.
LEMMA Finds2 ==
  ASSUME process \in Processes, process.hook = 2, reader.lib \in DOMAIN process.libs,
         reader.bias = SegmentBase(Lib(reader.lib)),
         NEW sym, FindSymbolByName2(sym) # NotFound
  PROVE  At2("SYMTAB")[FindSymbolByName2(sym) + 1] = sym
<1>1. PICK x : x = FindSymbolByName2(sym)
  OBVIOUS
<1>2. Hashed(Lib(reader.lib), reader.bias, DynOf2(Lib(reader.lib)))
  BY LibLinked DEF Linked2
<1>3. CASE ~Has2("GNU_HASH")
  <2>1. x = ElfLookup2(sym)
    BY <1>1, <1>3 DEF FindSymbolByName2
  <2>2. Has2("HASH") /\ x = ByElfHash(At2("SYMTAB"), At2("HASH"), sym)
    BY <1>1, <2>1 DEF ElfLookup2
  <2>3. Len(At2("HASH").chain) \in Nat
    BY <1>2, <2>2 DEF Hashed, TableAt, At2, Has2
  <2> QED
    BY <1>1, <2>2, <2>3, ElfChainFinds DEF ByElfHash
<1>4. CASE Has2("GNU_HASH")
  <2>1. At2("GNU_HASH").symoffset \in Nat /\ Len(At2("GNU_HASH").chain) \in Nat
    BY <1>2, <1>4 DEF Hashed, TableAt, At2, Has2
  <2>2. CASE GnuLookup2(sym) # NotFound
    <3>1. x = GnuLookup2(sym)
      BY <1>1, <1>4, <2>2 DEF FindSymbolByName2
    <3>2. PICK t, first : t = At2("GNU_HASH") /\ first = t.bucket[(GnuHash[sym] % Len(t.bucket)) + 1]
      OBVIOUS
    <3>3. x = OnGnuChain(At2("SYMTAB"), t, sym, first)
      BY <2>2, <3>1, <3>2 DEF GnuLookup2
    <3> QED
      BY <1>1, <2>1, <3>2, <3>3, GnuChainFinds
  <2>3. CASE GnuLookup2(sym) = NotFound
    <3> DEFINE undef == {j \in 0..(At2("GNU_HASH").symoffset - 1) : At2("SYMTAB")[j + 1] = sym}
    <3>1. x = IF undef = {} THEN NotFound ELSE CHOOSE j \in undef : \A k \in undef : j <= k
      BY <1>1, <1>4, <2>3 DEF FindSymbolByName2
    <3>2. undef \subseteq Nat /\ \A j \in undef : At2("SYMTAB")[j + 1] = sym
      BY <2>1
    <3> HIDE DEF undef
    <3>3. undef # {}
      BY <1>1, <3>1
    <3>4. x = Min(undef)
      BY <3>1, <3>3, Zenon DEF Min
    <3> QED
      BY <1>1, <3>2, <3>3, <3>4, LeastNatural
  <2> QED
    BY <2>2, <2>3
<1> QED
  BY <1>3, <1>4

LEMMA Aims2 ==
  ASSUME process \in Processes, process.hook = 2, reader.lib \in DOMAIN process.libs,
         reader.bias = SegmentBase(Lib(reader.lib)),
         NEW sym, FindSymbolByName2(sym) # NotFound
  PROVE  Slots2(FindSymbolByName2(sym)) \in Seq(SlotsOf(Lib(reader.lib), sym))
<1>1. PICK l : l = Lib(reader.lib)
  OBVIOUS
<1>2. PICK ds : ds = DynOf2(l)
  OBVIOUS
<1>3. PICK x : x = FindSymbolByName2(sym)
  OBVIOUS
<1>4. l.at[reader.bias + Val(ds, {"SYMTAB"})][x + 1] = sym
  BY <1>1, <1>2, <1>3, Finds2 DEF At2
<1>5. OwnKind \in {"REL", "RELA"}
  BY DEF OwnKind
<1>6. /\ Linked(l, reader.bias, ds, {"JMPREL"}, {"PLTRELSZ"})
      /\ Linked(l, reader.bias, ds, {OwnKind}, {OwnKind \o "SZ"})
  BY <1>1, <1>2, <1>5, LibLinked DEF Linked2
<1> DEFINE Plt == IF Has2("JMPREL") THEN Against(At2("JMPREL"), Size2("PLTRELSZ"), x, PltTypes) ELSE <<>>
           Rel == IF Has2(OwnKind) /\ Size2(OwnKind \o "SZ") > 0
                  THEN Against(At2(OwnKind), 1, x, DynTypes) ELSE <<>>
<1>7. Aims(Plt, reader.bias, SlotsOf(l, sym))
  <2>1. CASE Has2("JMPREL")
    <3>1. Has(ds, {"JMPREL"}) /\ Size2("PLTRELSZ") = Size(ds, {"PLTRELSZ"})
      BY <1>1, <1>2, <2>1 DEF Has2, Size2
    <3>2. Size(ds, {"PLTRELSZ"}) \in 0..Len(l.at[reader.bias + Val(ds, {"JMPREL"})])
      BY <1>6, <3>1 DEF Linked, TableAt
    <3>3. Plt = Against(l.at[reader.bias + Val(ds, {"JMPREL"})], Size(ds, {"PLTRELSZ"}), x, PltTypes)
      BY <1>1, <1>2, <2>1, <3>1 DEF At2
    <3> HIDE DEF Plt
    <3> QED
      BY <1>4, <1>6, <3>1, <3>2, <3>3, TableAims
  <2>2. CASE ~Has2("JMPREL")
    BY <2>2, NothingAims
  <2> QED
    BY <2>1, <2>2
<1>8. Aims(Rel, reader.bias, SlotsOf(l, sym))
  <2>1. CASE Has2(OwnKind) /\ Size2(OwnKind \o "SZ") > 0
    <3>1. Has(ds, {OwnKind}) /\ Size2(OwnKind \o "SZ") = Size(ds, {OwnKind \o "SZ"})
      BY <1>1, <1>2, <2>1 DEF Has2, Size2
    <3>2. Size(ds, {OwnKind \o "SZ"}) \in 0..Len(l.at[reader.bias + Val(ds, {OwnKind})])
      BY <1>6, <3>1 DEF Linked, TableAt
    <3>3. 1 \in 0..Len(l.at[reader.bias + Val(ds, {OwnKind})])
      <4>1. Len(l.at[reader.bias + Val(ds, {OwnKind})]) \in Nat
        BY <1>6, <3>1 DEF Linked, TableAt
      <4>2. PICK size : size = Size(ds, {OwnKind \o "SZ"})
        OBVIOUS
      <4>3. size > 0 /\ size \in 0..Len(l.at[reader.bias + Val(ds, {OwnKind})])
        BY <2>1, <3>1, <3>2, <4>2
      <4> QED
        BY <4>1, <4>3
    <3>4. Rel = Against(l.at[reader.bias + Val(ds, {OwnKind})], 1, x, DynTypes)
      BY <1>1, <1>2, <2>1 DEF At2
    <3> HIDE DEF Rel
    <3> QED
      BY <1>4, <1>6, <3>1, <3>3, <3>4, TableAims
  <2>2. CASE ~(Has2(OwnKind) /\ Size2(OwnKind \o "SZ") > 0)
    BY <2>2, NothingAims
  <2> QED
    BY <2>1, <2>2
<1>9. Offsets(FirstOf(Plt) \o Rel, reader.bias) \in Seq(SlotsOf(l, sym))
  <2> HIDE DEF Plt, Rel
  <2> QED
    BY <1>7, <1>8, BothAim
<1>10. Slots2(x) = Offsets(FirstOf(Plt) \o Rel, reader.bias)
  BY DEF Slots2
<1> QED
  BY <1>1, <1>3, <1>9, <1>10

\* What elf_module finds has the name.
LEMMA Finds3 ==
  ASSUME process \in Processes, process.hook = 3, NEW m, m.lib \in DOMAIN process.libs,
         m.bias = BiasAddr(Lib(m.lib)),
         NEW sym, FindSymbolByName3(m, sym) # NotFound
  PROVE  At3(m, {"SYMTAB"})[FindSymbolByName3(m, sym) + 1] = sym
<1>1. PICK x : x = FindSymbolByName3(m, sym)
  OBVIOUS
<1>2. Hashed(Lib(m.lib), m.bias, DynOf3(Lib(m.lib)))
  BY LibLinked DEF Linked3
<1>3. Has3(m, {"STRTAB"}) /\ Has3(m, {"SYMTAB"})
  BY DEF FindSymbolByName3
<1>4. CASE ~Has3(m, {"GNU_HASH"})
  <2>1. x = ElfLookup3(m, sym)
    BY <1>1, <1>3, <1>4 DEF FindSymbolByName3
  <2>2. Has3(m, {"HASH"}) /\ x = ByElfHash(At3(m, {"SYMTAB"}), At3(m, {"HASH"}), sym)
    BY <1>1, <2>1 DEF ElfLookup3
  <2>3. Len(At3(m, {"HASH"}).chain) \in Nat
    BY <1>2, <2>2 DEF Hashed, TableAt, At3, Has3
  <2> QED
    BY <1>1, <2>2, <2>3, ElfChainFinds DEF ByElfHash
<1>5. CASE Has3(m, {"GNU_HASH"})
  <2>1. PICK t : t = At3(m, {"GNU_HASH"})
    OBVIOUS
  <2>2. t.symoffset \in Nat /\ Len(t.chain) \in Nat
    BY <1>2, <1>5, <2>1 DEF Hashed, TableAt, At3, Has3
  <2>3. CASE GnuLookup3(m, sym) # NotFound
    <3>1. x = GnuLookup3(m, sym)
      BY <1>1, <1>3, <1>5, <2>3 DEF FindSymbolByName3
    <3>2. PICK first : first = t.bucket[(GnuHash[sym] % Len(t.bucket)) + 1]
      OBVIOUS
    <3>3. x = OnGnuChain(At3(m, {"SYMTAB"}), t, sym, first)
      BY <2>1, <2>3, <3>1, <3>2 DEF GnuLookup3
    <3> QED
      BY <1>1, <2>2, <3>3, GnuChainFinds
  <2>4. CASE GnuLookup3(m, sym) = NotFound
    <3> DEFINE undef == {j \in 0..(At3(m, {"GNU_HASH"}).symoffset - 1) : At3(m, {"SYMTAB"})[j + 1] = sym}
    <3>1. x = IF undef = {} THEN NotFound ELSE CHOOSE j \in undef : \A k \in undef : k <= j
      BY <1>1, <1>3, <1>5, <2>4 DEF FindSymbolByName3
    <3>2. /\ undef \subseteq 0..t.symoffset
          /\ \A j \in undef : At3(m, {"SYMTAB"})[j + 1] = sym
      BY <2>1, <2>2
    <3> HIDE DEF undef
    <3>3. undef # {}
      BY <1>1, <3>1
    <3>4. \E j \in undef : \A k \in undef : k <= j
      BY <2>2, <3>2, <3>3, GreatestNatural
    <3>5. x \in undef
      BY <3>1, <3>3, <3>4, Zenon
    <3> QED
      BY <1>1, <3>2, <3>5
  <2> QED
    BY <2>3, <2>4
<1> QED
  BY <1>4, <1>5

LEMMA Aims3 ==
  ASSUME process \in Processes, process.hook = 3, NEW m, m.lib \in DOMAIN process.libs,
         m.bias = BiasAddr(Lib(m.lib)),
         NEW sym, FindSymbolByName3(m, sym) # NotFound
  PROVE  Slots3(m, FindSymbolByName3(m, sym)) \in Seq(SlotsOf(Lib(m.lib), sym))
<1>1. PICK l, ds : l = Lib(m.lib) /\ ds = DynOf3(l)
  OBVIOUS
<1>2. PICK x : x = FindSymbolByName3(m, sym)
  OBVIOUS
<1>3. l.at[m.bias + Val(ds, {"SYMTAB"})][x + 1] = sym
  BY <1>1, <1>2, Finds3 DEF At3
<1>4. PICK rel, relsz : rel = {"REL", "ANDROID_REL"} /\ relsz = {"RELSZ", "ANDROID_RELSZ"}
  OBVIOUS
<1>5. /\ Linked(l, m.bias, ds, {"JMPREL"}, {"PLTRELSZ"})
      /\ Linked(l, m.bias, ds, rel, relsz)
  BY <1>1, <1>4, LibLinked DEF Linked3
<1> DEFINE Table(tags, size, types) ==
             IF Has3(m, tags) THEN Against(At3(m, tags), Size3(m, size), x, types) ELSE <<>>
<1>6. ASSUME NEW tags, NEW sizes, NEW types, types \subseteq PltTypes \cup DynTypes,
             Linked(l, m.bias, ds, tags, sizes)
      PROVE  Aims(Table(tags, sizes, types), m.bias, SlotsOf(l, sym))
  <2>1. CASE Has3(m, tags)
    <3>1. Has(ds, tags) /\ Size3(m, sizes) = Size(ds, sizes)
      BY <1>1, <2>1 DEF Has3, Size3
    <3>2. Size(ds, sizes) \in 0..Len(l.at[m.bias + Val(ds, tags)])
      BY <1>6, <3>1 DEF Linked, TableAt
    <3>3. Table(tags, sizes, types) = Against(l.at[m.bias + Val(ds, tags)], Size(ds, sizes), x, types)
      BY <1>1, <2>1, <3>1 DEF At3
    <3> HIDE DEF Table
    <3> QED
      BY <1>3, <1>6, <3>1, <3>2, <3>3, TableAims
  <2>2. CASE ~Has3(m, tags)
    BY <2>2, NothingAims
  <2> QED
    BY <2>1, <2>2
<1>7. Aims(Table({"JMPREL"}, {"PLTRELSZ"}, PltTypes), m.bias, SlotsOf(l, sym))
  <2> HIDE DEF Table
  <2> QED
    BY <1>5, <1>6
<1>8. Aims(Table(rel, relsz, DynTypes), m.bias, SlotsOf(l, sym))
  <2> HIDE DEF Table
  <2> QED
    BY <1>5, <1>6
<1>9. Offsets(FirstOf(Table({"JMPREL"}, {"PLTRELSZ"}, PltTypes)) \o Table(rel, relsz, DynTypes), m.bias)
        \in Seq(SlotsOf(l, sym))
  <2> HIDE DEF Table
  <2> QED
    BY <1>7, <1>8, BothAim
<1>10. Slots3(m, x) = Offsets(FirstOf(Table({"JMPREL"}, {"PLTRELSZ"}, PltTypes)) \o Table(rel, relsz, DynTypes), m.bias)
  BY <1>4 DEF Slots3
<1> QED
  BY <1>1, <1>2, <1>9, <1>10
-----------------------------------------------------------------------------
(* The lookups answer the index of the symbol, and the relocations against *)
(* it lead to all of its slots.                                            *)

\* What is found in a DT_GNU_HASH table is the index of a symbol with the name, and
\* one that is within reach in its bucket is found.
LEMMA GnuIndex ==
  ASSUME NEW syms, Len(syms) \in Nat, NEW t, t.symoffset \in Nat, Len(t.chain) \in Nat,
         t.symoffset + Len(t.chain) = Len(syms), NEW name, NEW first,
         NEW x, x = OnGnuChain(syms, t, name, first)
  PROVE  /\ x # NotFound => x \in 0..(Len(syms) - 1) /\ syms[x + 1] = name
         /\ \A i \in 0..(Len(syms) - 1) :
              /\ first <= i /\ \A k \in first..(i - 1) : ~EndsChain(t.chain[k - t.symoffset + 1])
              /\ SameHash(t.chain[i - t.symoffset + 1], GnuHash[name]) /\ syms[i + 1] = name
              => x # NotFound
<1> DEFINE Link(j) == t.chain[j - t.symoffset + 1]
           hits == {j \in 0..(t.symoffset + Len(t.chain) - 1) :
                      /\ first <= j /\ \A k \in first..(j - 1) : ~EndsChain(Link(k))
                      /\ SameHash(Link(j), GnuHash[name]) /\ syms[j + 1] = name}
<1>1. x = IF hits = {} THEN NotFound ELSE Min(hits)
  BY Zenon DEF OnGnuChain
<1>2. hits \subseteq 0..(Len(syms) - 1) /\ \A j \in hits : syms[j + 1] = name
  OBVIOUS
<1>3. ASSUME hits # {} PROVE x \in hits /\ x # NotFound
  <2>1. hits \subseteq Nat
    BY <1>2
  <2> HIDE DEF hits
  <2>2. x = Min(hits) /\ Min(hits) \in hits
    BY <1>1, <1>3, <2>1, LeastNatural
  <2> QED
    BY <2>1, <2>2 DEF NotFound
<1>4. ASSUME NEW i \in 0..(Len(syms) - 1), first <= i, \A k \in first..(i - 1) : ~EndsChain(Link(k)),
             SameHash(Link(i), GnuHash[name]), syms[i + 1] = name
      PROVE  hits # {}
  <2>1. i \in 0..(t.symoffset + Len(t.chain) - 1)
    BY <1>4
  <2>2. i \in hits
    BY <1>4, <2>1
  <2> HIDE DEF hits
  <2> QED
    BY <2>2
<1>5. x # NotFound => hits # {}
  BY <1>1
<1> HIDE DEF hits
<1> QED
  BY <1>2, <1>3, <1>4, <1>5

\* Two symbols with one of the names are the same.
LEMMA SameIndex ==
  ASSUME NEW l, NEW bias, NEW ds, NEW names, Named(l, bias, ds, names),
         NEW i \in 0..(Len(SymsAt(l, bias, ds)) - 1), NEW j \in 0..(Len(SymsAt(l, bias, ds)) - 1),
         SymsAt(l, bias, ds)[i + 1] \in names, SymsAt(l, bias, ds)[j + 1] = SymsAt(l, bias, ds)[i + 1]
  PROVE  i = j
<1>1. PICK syms : syms = SymsAt(l, bias, ds)
  OBVIOUS
<1>2. Len(syms) \in Nat /\ \A p, q \in 1..Len(syms) : syms[p] \in names /\ syms[p] = syms[q] => p = q
  BY <1>1 DEF Named
<1>3. i + 1 \in 1..Len(syms) /\ j + 1 \in 1..Len(syms)
  BY <1>1, <1>2
<1>4. i + 1 = j + 1
  BY <1>1, <1>2, <1>3
<1> QED
  BY <1>1, <1>2, <1>4

LEMMA Index1 ==
  ASSUME process \in Processes, process.hook = 1, NEW n \in DOMAIN process.libs, NEW l, l = Lib(n),
         Readable1(l), NEW sym \in ToSet(process.symbols),
         NEW x, x = FindSymByName(l, sym), x # NotFound,
         NEW i \in 1..(Len(SymsAt(l, l.base, l.dyn)) - 1), SymsAt(l, l.base, l.dyn)[i + 1] = sym
  PROVE  x = i
<1>1. PICK syms, t, names : /\ syms = SymsAt(l, l.base, l.dyn) /\ t = TableAt(l, l.base, l.dyn, {"HASH"})
                            /\ names = ToSet(process.symbols)
  OBVIOUS
<1>2. Named(l, l.base, l.dyn, names) /\ InElfHash(syms, t, names)
  BY <1>1, LibLinked DEF Linked1
<1>3. Len(syms) \in Nat
  BY <1>1, <1>2 DEF Named
<1>4. x = ByElfHash(syms, t, sym)
  BY <1>1 DEF FindSymByName, SymsAt, TableAt
<1>5. x \in 0..(Len(syms) - 1) /\ syms[x + 1] = sym
  BY <1>1, <1>2, <1>3, <1>4, ElfIndex
<1>6. i \in 0..(Len(syms) - 1)
  BY <1>1, <1>3
<1> QED
  BY <1>1, <1>2, <1>5, <1>6, SameIndex

LEMMA Index3 ==
  ASSUME process \in Processes, process.hook = 3, NEW m, m.lib \in DOMAIN process.libs,
         NEW l, l = Lib(m.lib), IsElfModule(l), m.bias = BiasAddr(l),
         NEW sym \in ToSet(process.symbols),
         NEW i \in 1..(Len(SymsAt(l, m.bias, DynOf3(l))) - 1), SymsAt(l, m.bias, DynOf3(l))[i + 1] = sym
  PROVE  FindSymbolByName3(m, sym) = i /\ i # NotFound
<1>1. PICK ds, syms, names : ds = DynOf3(l) /\ syms = SymsAt(l, m.bias, ds) /\ names = ToSet(process.symbols)
  OBVIOUS
<1>2. /\ Has(ds, {"STRTAB"}) /\ Has(ds, {"SYMTAB"}) /\ Named(l, m.bias, ds, names)
      /\ Has(ds, {"GNU_HASH"}) => InGnuHash(syms, TableAt(l, m.bias, ds, {"GNU_HASH"}), names)
      /\ ~Has(ds, {"GNU_HASH"}) =>
           Has(ds, {"HASH"}) /\ InElfHash(syms, TableAt(l, m.bias, ds, {"HASH"}), names)
      /\ Hashed(l, m.bias, ds)
  BY <1>1, LibLinked DEF Linked3
<1>3. Len(syms) \in Nat /\ i \in 0..(Len(syms) - 1) /\ syms[i + 1] = sym /\ sym \in names /\ i # NotFound
  <2>1. Len(syms) \in Nat
    BY <1>1, <1>2 DEF Named
  <2> QED
    BY <1>1, <2>1 DEF NotFound
<1>4. ASSUME NEW x \in 0..(Len(syms) - 1), syms[x + 1] = sym PROVE x = i
  BY <1>1, <1>2, <1>3, <1>4, SameIndex
<1>5. PICK x : x = FindSymbolByName3(m, sym)
  OBVIOUS
<1>6. syms = At3(m, {"SYMTAB"})
  BY <1>1 DEF SymsAt, TableAt, At3
<1>7. CASE ~Has(ds, {"GNU_HASH"})
  <2>1. PICK t : t = At3(m, {"HASH"})
    OBVIOUS
  <2>2. x = ByElfHash(syms, t, sym)
    BY <1>1, <1>2, <1>5, <1>6, <1>7, <2>1 DEF FindSymbolByName3, ElfLookup3, Has3
  <2>3. InElfHash(syms, t, names)
    BY <1>1, <1>2, <1>7, <2>1 DEF TableAt, At3
  <2>4. i \in 1..(Len(syms) - 1)
    BY <1>1
  <2>5. x # NotFound
    BY <1>3, <2>2, <2>3, <2>4, ElfIndex
  <2>6. x \in 0..(Len(syms) - 1) /\ syms[x + 1] = sym
    BY <1>3, <2>2, <2>3, <2>5, ElfIndex
  <2> QED
    BY <1>3, <1>4, <1>5, <2>6
<1>8. CASE Has(ds, {"GNU_HASH"})
  <2>1. PICK t, first : t = At3(m, {"GNU_HASH"}) /\ first = t.bucket[(GnuHash[sym] % Len(t.bucket)) + 1]
    OBVIOUS
  <2>2. InGnuHash(syms, t, names) /\ t.symoffset \in Nat /\ Len(t.chain) \in Nat
    BY <1>1, <1>2, <1>8, <2>1 DEF TableAt, At3, Hashed
  <2>3. t.symoffset + Len(t.chain) = Len(syms)
    BY <2>2 DEF InGnuHash
  <2>4. PICK y : y = OnGnuChain(syms, t, sym, first)
    OBVIOUS
  <2>5. y # NotFound => y \in 0..(Len(syms) - 1) /\ syms[y + 1] = sym
    BY <1>3, <2>2, <2>3, <2>4, GnuIndex
  <2>6. GnuLookup3(m, sym) \in {NotFound, y}
    BY <1>6, <2>1, <2>4 DEF GnuLookup3
  <2>7. GnuLookup3(m, sym) # NotFound => x = GnuLookup3(m, sym)
    BY <1>1, <1>2, <1>5, <1>8 DEF FindSymbolByName3, Has3
  <2>8. CASE GnuLookup3(m, sym) # NotFound
    BY <1>3, <1>4, <1>5, <2>5, <2>6, <2>7, <2>8
  <2>9. CASE GnuLookup3(m, sym) = NotFound /\ i < t.symoffset
    <3> DEFINE undef == {j \in 0..(t.symoffset - 1) : syms[j + 1] = sym}
    <3>1. x = IF undef = {} THEN NotFound ELSE CHOOSE j \in undef : \A k \in undef : k <= j
      <4>1. Has3(m, {"STRTAB"}) /\ Has3(m, {"SYMTAB"}) /\ Has3(m, {"GNU_HASH"})
        BY <1>1, <1>2, <1>8 DEF Has3
      <4> DEFINE from == {j \in 0..(At3(m, {"GNU_HASH"}).symoffset - 1) : At3(m, {"SYMTAB"})[j + 1] = sym}
      <4>3. x = IF from = {} THEN NotFound ELSE CHOOSE j \in from : \A k \in from : k <= j
        BY <1>5, <2>9, <4>1 DEF FindSymbolByName3
      <4>4. from = undef
        BY <1>6, <2>1
      <4> HIDE DEF undef, from
      <4> QED
        BY <4>3, <4>4
    <3>2. undef \subseteq 0..t.symoffset /\ i \in undef
      BY <1>3, <2>2, <2>9
    <3>3. \A j \in undef : j \in 0..(Len(syms) - 1) /\ syms[j + 1] = sym
      BY <1>3, <2>2, <2>3
    <3> HIDE DEF undef
    <3>4. undef # {} /\ \E j \in undef : \A k \in undef : k <= j
      BY <2>2, <3>2, GreatestNatural
    <3>5. x \in undef
      BY <3>1, <3>4, Zenon
    <3> QED
      BY <1>3, <1>4, <1>5, <3>3, <3>5
  <2>10. CASE GnuLookup3(m, sym) = NotFound /\ ~(i < t.symoffset)
    <3>1. i \in t.symoffset..(Len(syms) - 1)
      BY <1>3, <2>2, <2>10
    <3>2. PICK h : h = GnuHash[sym] /\ h = GnuHash[syms[i + 1]]
      BY <1>3
    <3>3. /\ {h % Bits, (h \div 2^t.shift) % Bits} \subseteq t.bloom[((h \div Bits) % Len(t.bloom)) + 1]
          /\ first # 0 /\ first <= i
          /\ \A k \in first..(i - 1) : ~EndsChain(t.chain[k - t.symoffset + 1])
          /\ SameHash(t.chain[i - t.symoffset + 1], h)
      <4>1. syms[i + 1] \in names
        BY <1>3
      <4>2. t.symoffset \in 1..Len(syms) /\ LeadsTo(t, GnuHash[syms[i + 1]], i)
        BY <2>2, <3>1, <4>1, Zenon DEF InGnuHash
      <4>3. LeadsTo(t, h, i)
        BY <3>2, <4>2
      <4>4. first = t.bucket[(h % Len(t.bucket)) + 1]
        BY <2>1, <3>2
      <4>5. first \in t.symoffset..i
        BY <4>3, <4>4 DEF LeadsTo
      <4>6. first # 0 /\ first <= i
        BY <1>3, <4>2, <4>5
      <4> QED
        BY <4>3, <4>4, <4>6 DEF LeadsTo
    <3>4. y # NotFound
      <4>1. \A j \in 0..(Len(syms) - 1) :
              /\ first <= j /\ \A k \in first..(j - 1) : ~EndsChain(t.chain[k - t.symoffset + 1])
              /\ SameHash(t.chain[j - t.symoffset + 1], GnuHash[sym]) /\ syms[j + 1] = sym
              => y # NotFound
        BY <1>3, <2>2, <2>3, <2>4, GnuIndex
      <4>2. SameHash(t.chain[i - t.symoffset + 1], GnuHash[sym])
        BY <3>2, <3>3
      <4> QED
        BY <1>3, <3>3, <4>1, <4>2, Zenon
    <3>5. GnuLookup3(m, sym) = y
      BY <1>6, <2>1, <2>4, <3>2, <3>3 DEF GnuLookup3
    <3> QED
      BY <2>10, <3>4, <3>5
  <2> QED
    BY <2>8, <2>9, <2>10
<1> QED
  BY <1>7, <1>8

\* No symbol of the name has another index.
OnlyIndex(l, bias, ds, sym, x) ==
  \A i \in 1..(Len(SymsAt(l, bias, ds)) - 1) : SymsAt(l, bias, ds)[i + 1] = sym => x = i

\* The relocations of a table against the symbol lead to each of its slots of the types.
LEMMA TableHas ==
  ASSUME NEW l, NEW bias, NEW ds, NEW tags, NEW sizes, NEW types,
         Relocated(l, bias, ds, tags, sizes, types), Linked(l, bias, ds, tags, sizes),
         NEW x, NEW sym, OnlyIndex(l, bias, ds, sym, x),
         NEW s \in l.slots, s.type \in types, s.name = sym,
         NEW rs, rs = Against(TableAt(l, bias, ds, tags), Size(ds, sizes), x, types)
  PROVE  Has(ds, tags) /\ \E j \in 1..Len(rs) : bias + rs[j].offset = s.addr
<1>1. PICK table, syms, n : table = TableAt(l, bias, ds, tags) /\ syms = SymsAt(l, bias, ds) /\ n = Size(ds, sizes)
  OBVIOUS
<1>2. Has(ds, tags) /\ \E k \in 1..n : /\ s.addr = bias + table[k].offset /\ s.type = table[k].type
                                      /\ table[k].sym \in 1..(Len(syms) - 1) /\ s.name = syms[table[k].sym + 1]
  BY <1>1 DEF Relocated
<1>3. PICK k \in 1..n : /\ s.addr = bias + table[k].offset /\ s.type = table[k].type
                        /\ table[k].sym \in 1..(Len(syms) - 1) /\ s.name = syms[table[k].sym + 1]
  BY <1>2
<1>4. n \in Nat
  <2>1. n \in 0..Len(table) /\ Len(table) \in Nat
    BY <1>1, <1>2 DEF Linked
  <2> QED
    BY <2>1
<1>5. table[k].sym = x /\ table[k].type \in types
  BY <1>1, <1>3 DEF OnlyIndex
<1>6. \E j \in 1..Len(rs) : rs[j] = table[k]
  <2>1. rs = Against(table, n, x, types)
    BY <1>1
  <2>2. \E j \in 1..Len(Against(table, n, x, types)) : Against(table, n, x, types)[j] = table[k]
    BY <1>4, <1>5, AgainstHas
  <2> QED
    BY <2>1, <2>2
<1> QED
  BY <1>2, <1>3, <1>6

\* The first of them, if there is one, leads to one of its slots of the types.
LEMMA TableFirst ==
  ASSUME NEW l, NEW bias, NEW ds, NEW tags, NEW sizes, NEW types, types \subseteq PltTypes \cup DynTypes,
         Linked(l, bias, ds, tags, sizes), Has(ds, tags),
         NEW x, NEW sym, SymsAt(l, bias, ds)[x + 1] = sym,
         NEW rs, rs = Against(TableAt(l, bias, ds, tags), Size(ds, sizes), x, types), rs # <<>>
  PROVE  \E s \in l.slots : s.type \in types /\ s.name = sym /\ s.addr = bias + Head(rs).offset
<1>1. PICK table, syms, n : table = TableAt(l, bias, ds, tags) /\ syms = SymsAt(l, bias, ds) /\ n = Size(ds, sizes)
  OBVIOUS
<1>2. /\ n \in 0..Len(table) /\ Len(table) \in Nat
      /\ \A k \in 1..Len(table) : table[k].type \in PltTypes \cup DynTypes =>
           \E s \in l.slots : /\ s.addr = bias + table[k].offset /\ s.type = table[k].type
                             /\ s.name = syms[table[k].sym + 1]
  BY <1>1 DEF Linked
<1> DEFINE M == {r \in {table[k] : k \in 1..n} : r.sym = x /\ r.type \in types}
<1>3. rs \in Seq(M)
  BY <1>1, <1>2, AgainstMatches
<1>4. Head(rs) \in M
  <2> HIDE DEF M
  <2> QED
    BY <1>3, HeadTailProperties
<1>5. PICK k \in 1..n : Head(rs) = table[k] /\ table[k].sym = x /\ table[k].type \in types
  BY <1>4
<1>6. k \in 1..Len(table) /\ table[k].type \in PltTypes \cup DynTypes
  BY <1>2, <1>5
<1> QED
  BY <1>1, <1>2, <1>5, <1>6

\* The addresses that are taken of two lists of relocations.
LEMMA OffsetsHave ==
  ASSUME NEW bias, NEW plt, NEW dyn, NEW P, NEW D, plt \in Seq(P), dyn \in Seq(D),
         NEW A, A = ToSet(Offsets(FirstOf(plt) \o dyn, bias))
  PROVE  /\ plt # <<>> => bias + Head(plt).offset \in A
         /\ \A j \in 1..Len(dyn) : bias + dyn[j].offset \in A
<1>1. PICK M : M = P \cup D
  OBVIOUS
<1>2. PICK f, n : f = FirstOf(plt) /\ n = Len(f)
  OBVIOUS
<1>3. /\ f \in Seq(M) /\ n \in Nat
      /\ plt # <<>> => n = 1 /\ f[1] = Head(plt)
  <2>1. CASE plt = <<>>
    BY <1>2, <2>1 DEF FirstOf
  <2>2. CASE plt # <<>>
    <3>1. Head(plt) \in M
      BY <1>1, <2>2, HeadTailProperties
    <3>2. f = <<Head(plt)>>
      BY <1>2, <2>2 DEF FirstOf
    <3> QED
      BY <1>2, <3>1, <3>2
  <2> QED
    BY <2>1, <2>2
<1>4. dyn \in Seq(M) /\ Len(dyn) \in Nat
  <2>1. D \subseteq M
    BY <1>1
  <2> QED
    BY <2>1, SeqMonotonic, LenProperties
<1>5. PICK rs : rs = f \o dyn
  OBVIOUS
<1>6. /\ Len(rs) = n + Len(dyn)
      /\ \A k \in 1..Len(rs) : rs[k] = IF k <= n THEN f[k] ELSE dyn[k - n]
  BY <1>2, <1>3, <1>4, <1>5, ConcatProperties
<1>7. \A k \in 1..Len(rs) : bias + rs[k].offset \in A
  BY <1>2, <1>5 DEF ToSet, Offsets
<1>8. ASSUME plt # <<>> PROVE bias + Head(plt).offset \in A
  <2>1. 1 \in 1..Len(rs) /\ rs[1] = Head(plt)
    BY <1>3, <1>4, <1>6, <1>8
  <2> QED
    BY <1>7, <2>1
<1>9. ASSUME NEW j \in 1..Len(dyn) PROVE bias + dyn[j].offset \in A
  <2>1. n + j \in 1..Len(rs) /\ ~(n + j <= n) /\ (n + j) - n = j
    BY <1>3, <1>4, <1>6
  <2>2. rs[n + j] = dyn[j]
    BY <1>6, <2>1
  <2> QED
    BY <1>7, <2>1, <2>2
<1> QED
  BY <1>8, <1>9

\* elfhook1 begins with one slot of .rel.plt and all the slots of .rel.dyn.
LEMMA Begins1 ==
  ASSUME process \in Processes, process.hook = 1, NEW n \in DOMAIN process.libs, NEW l, l = Lib(n),
         Readable1(l), NEW sym \in ToSet(process.symbols),
         NEW x, x = FindSymByName(l, sym), x # NotFound,
         NEW A, A = ToSet(Slots1(l, x)),
         NEW s \in l.slots, s.name = sym
  PROVE  /\ s.type \in DynTypes => s.addr \in A
         /\ s.type \in PltTypes => \E t \in l.slots : t.name = sym /\ t.type \in PltTypes /\ t.addr \in A
<1>1. PICK ds, syms, names : ds = l.dyn /\ syms = SymsAt(l, l.base, l.dyn) /\ names = ToSet(process.symbols)
  OBVIOUS
<1>2. Linked1(l, names)
  BY <1>1, LibLinked
<1>3. /\ \A tag \in TableTags : Has(ds, {tag}) => Reads1(l, tag)
      /\ Linked(l, l.base, ds, {"JMPREL"}, {"PLTRELSZ"}) /\ Linked(l, l.base, ds, {"REL"}, {"RELSZ"})
      /\ Relocated(l, l.base, ds, {"JMPREL"}, {"PLTRELSZ"}, PltTypes)
      /\ Relocated(l, l.base, ds, {"REL"}, {"RELSZ"}, DynTypes)
  BY <1>1, <1>2 DEF Linked1
<1>4. OnlyIndex(l, l.base, ds, sym, x)
  BY <1>1, Index1 DEF OnlyIndex
<1>5. syms[x + 1] = sym
  <2>1. Len(l.at[l.base + Val(l.dyn, {"HASH"})].chain) \in Nat
    BY <1>2 DEF Linked1, Hashed, TableAt, Readable1, Reads1
  <2>2. PICK S, t, b : /\ S = l.at[l.base + Val(l.dyn, {"SYMTAB"})] /\ t = l.at[l.base + Val(l.dyn, {"HASH"})]
                       /\ b = t.bucket[(ElfHash[sym] % Len(t.bucket)) + 1]
    OBVIOUS
  <2>3. PICK chain : chain = t.chain
    OBVIOUS
  <2>4. x = OnChain(S, chain, sym, b) /\ OnChain(S, chain, sym, b) # NotFound /\ Len(chain) \in Nat
    BY <2>1, <2>2, <2>3 DEF FindSymByName, ByElfHash
  <2>5. S[OnChain(S, chain, sym, b) + 1] = sym
    BY <2>4, ElfChainFinds
  <2> QED
    BY <1>1, <2>2, <2>4, <2>5 DEF SymsAt, TableAt
<1> DEFINE Table(tag, size, types) ==
             IF Reads1(l, tag) THEN Against(TableAt(l, l.base, ds, {tag}), Size(ds, {size}), x, types) ELSE <<>>
           Plt == Table("JMPREL", "PLTRELSZ", PltTypes)
           Rel == Table("REL", "RELSZ", DynTypes)
<1>6. Slots1(l, x) = Offsets(FirstOf(Plt) \o Rel, l.base)
  BY <1>1 DEF Slots1, TableAt
<1>7. ASSUME NEW tag \in {"JMPREL", "REL"}, NEW size, NEW types, Linked(l, l.base, ds, {tag}, {size})
      PROVE  \E T : Table(tag, size, types) \in Seq(T)
  <2>1. CASE Reads1(l, tag)
    <3>1. Has(ds, {tag})
      BY <1>1, <2>1 DEF Reads1
    <3>2. PICK k : k = Size(ds, {size})
      OBVIOUS
    <3>3. k \in Nat
      <4>1. k \in 0..Len(TableAt(l, l.base, ds, {tag})) /\ Len(TableAt(l, l.base, ds, {tag})) \in Nat
        BY <1>7, <3>1, <3>2 DEF Linked
      <4> QED
        BY <4>1
    <3>4. \E T : Against(TableAt(l, l.base, ds, {tag}), k, x, types) \in Seq(T)
      BY <3>3, AgainstMatches
    <3> QED
      BY <2>1, <3>2, <3>4
  <2>2. CASE ~Reads1(l, tag)
    <3>1. <<>> \in Seq({})
      OBVIOUS
    <3> QED
      BY <2>2, <3>1
  <2> QED
    BY <2>1, <2>2
<1>8. PICK P, D : Plt \in Seq(P) /\ Rel \in Seq(D)
  <2> HIDE DEF Table
  <2> QED
    BY <1>3, <1>7
<1>9. /\ Plt # <<>> => l.base + Head(Plt).offset \in A
      /\ \A j \in 1..Len(Rel) : l.base + Rel[j].offset \in A
  <2> HIDE DEF Plt, Rel
  <2> QED
    BY <1>6, <1>8, OffsetsHave
<1>10. ASSUME s.type \in DynTypes PROVE s.addr \in A
  <2>1. PICK rs : rs = Against(TableAt(l, l.base, ds, {"REL"}), Size(ds, {"RELSZ"}), x, DynTypes)
    OBVIOUS
  <2>2. Has(ds, {"REL"}) /\ \E j \in 1..Len(rs) : l.base + rs[j].offset = s.addr
    BY <1>1, <1>3, <1>4, <1>10, <2>1, TableHas
  <2>3. Reads1(l, "REL")
    BY <1>3, <2>2 DEF TableTags
  <2>4. Rel = rs
    BY <2>1, <2>3
  <2> HIDE DEF Rel
  <2> QED
    BY <1>9, <2>2, <2>4
<1>11. ASSUME s.type \in PltTypes
       PROVE  \E t \in l.slots : t.name = sym /\ t.type \in PltTypes /\ t.addr \in A
  <2>1. PICK rs : rs = Against(TableAt(l, l.base, ds, {"JMPREL"}), Size(ds, {"PLTRELSZ"}), x, PltTypes)
    OBVIOUS
  <2>2. Has(ds, {"JMPREL"}) /\ \E j \in 1..Len(rs) : l.base + rs[j].offset = s.addr
    BY <1>1, <1>3, <1>4, <1>11, <2>1, TableHas
  <2>3. Reads1(l, "JMPREL")
    BY <1>3, <2>2 DEF TableTags
  <2>4. Plt = rs
    BY <2>1, <2>3
  <2> HIDE DEF Plt, Rel
  <2>5. rs # <<>>
    BY <2>2
  <2>6. PICK t \in l.slots : t.type \in PltTypes /\ t.name = sym /\ t.addr = l.base + Head(rs).offset
    BY <1>1, <1>3, <1>5, <2>1, <2>2, <2>5, TableFirst
  <2> QED
    BY <1>9, <2>4, <2>5, <2>6
<1> QED
  BY <1>10, <1>11

\* elfhook3 begins with the slot of the procedure linkage table, and all the slots of
\* .rel.dyn of a module that has one.
LEMMA Begins3 ==
  ASSUME process \in Processes, process.hook = 3, NEW m, m.lib \in DOMAIN process.libs,
         NEW l, l = Lib(m.lib), IsElfModule(l), m.bias = BiasAddr(l),
         NEW sym \in ToSet(process.symbols),
         NEW s \in l.slots, s.name = sym, s.type \in PltTypes \/ Has3(m, {"REL"}),
         NEW x, x = FindSymbolByName3(m, sym)
  PROVE  x # NotFound /\ s.addr \in ToSet(Slots3(m, x))
<1>1. PICK ds, syms, names, bias, A :
        /\ ds = DynOf3(l) /\ syms = SymsAt(l, bias, ds) /\ names = ToSet(process.symbols)
        /\ bias = m.bias /\ A = ToSet(Slots3(m, x))
  OBVIOUS
<1>2. PICK rel, relsz : rel = {"REL", "ANDROID_REL"} /\ relsz = {"RELSZ", "ANDROID_RELSZ"}
  OBVIOUS
<1>3. /\ Linked(l, bias, ds, {"JMPREL"}, {"PLTRELSZ"}) /\ Linked(l, bias, ds, rel, relsz)
      /\ OnePlt(l) /\ Relocated(l, bias, ds, {"JMPREL"}, {"PLTRELSZ"}, PltTypes)
      /\ Has(ds, {"REL"}) => Relocated(l, bias, ds, rel, relsz, DynTypes)
  BY <1>1, <1>2, LibLinked DEF Linked3
<1>4. \A i \in 1..(Len(syms) - 1) : syms[i + 1] = sym => x = i /\ x # NotFound
  <2>1. ASSUME NEW i \in 1..(Len(syms) - 1), syms[i + 1] = sym PROVE x = i /\ x # NotFound
    <3>1. syms = SymsAt(l, m.bias, DynOf3(l))
      BY <1>1, Zenon
    <3>2. /\ i \in 1..(Len(SymsAt(l, m.bias, DynOf3(l))) - 1)
          /\ SymsAt(l, m.bias, DynOf3(l))[i + 1] = sym
      BY <2>1, <3>1, Zenon
    <3>3. FindSymbolByName3(m, sym) = i /\ i # NotFound
      BY <3>2, Index3
    <3> QED
      BY <3>3, Zenon
  <2> QED
    BY <2>1
<1>5. OnlyIndex(l, bias, ds, sym, x)
  BY <1>1, <1>4 DEF OnlyIndex
<1>6. s.type \in DynTypes \/ s.type \in PltTypes
  BY ProcessesAssumption DEF Lib
<1>7. x # NotFound
  <2>1. \E i \in 1..(Len(syms) - 1) : syms[i + 1] = sym
    <3>1. CASE s.type \in PltTypes
      BY <1>1, <1>3, <3>1 DEF Relocated
    <3>2. CASE s.type \notin PltTypes
      <4>1. Has(ds, {"REL"})
        BY <1>1, <3>2 DEF Has3
      <4> QED
        BY <1>1, <1>3, <1>6, <3>2, <4>1 DEF Relocated
    <3> QED
      BY <3>1, <3>2
  <2> QED
    BY <1>4, <2>1
<1>8. syms[x + 1] = sym
  BY <1>1, <1>7, Finds3 DEF At3, SymsAt, TableAt
<1> DEFINE Table(tags, size, types) ==
             IF Has(ds, tags) THEN Against(TableAt(l, bias, ds, tags), Size(ds, size), x, types) ELSE <<>>
           Plt == Table({"JMPREL"}, {"PLTRELSZ"}, PltTypes)
           Rel == Table(rel, relsz, DynTypes)
<1>9. Slots3(m, x) = Offsets(FirstOf(Plt) \o Rel, bias)
  BY <1>1, <1>2 DEF Slots3, TableAt, Has3, At3, Size3
<1>10. ASSUME NEW tags, NEW size, NEW types, Linked(l, bias, ds, tags, size)
       PROVE  \E T : Table(tags, size, types) \in Seq(T)
  <2>1. CASE Has(ds, tags)
    <3>1. PICK k : k = Size(ds, size)
      OBVIOUS
    <3>2. k \in Nat
      <4>1. k \in 0..Len(TableAt(l, bias, ds, tags)) /\ Len(TableAt(l, bias, ds, tags)) \in Nat
        BY <1>10, <2>1, <3>1 DEF Linked
      <4> QED
        BY <4>1
    <3>3. \E T : Against(TableAt(l, bias, ds, tags), k, x, types) \in Seq(T)
      BY <3>2, AgainstMatches
    <3> QED
      BY <2>1, <3>1, <3>3
  <2>2. CASE ~Has(ds, tags)
    <3>1. <<>> \in Seq({})
      OBVIOUS
    <3> QED
      BY <2>2, <3>1
  <2> QED
    BY <2>1, <2>2
<1>11. PICK P, D : Plt \in Seq(P) /\ Rel \in Seq(D)
  <2> HIDE DEF Table
  <2> QED
    BY <1>3, <1>10
<1>12. /\ Plt # <<>> => bias + Head(Plt).offset \in A
       /\ \A j \in 1..Len(Rel) : bias + Rel[j].offset \in A
  <2> HIDE DEF Plt, Rel
  <2> QED
    BY <1>1, <1>9, <1>11, OffsetsHave
<1>13. CASE s.type \in PltTypes
  <2>1. PICK rs : rs = Against(TableAt(l, bias, ds, {"JMPREL"}), Size(ds, {"PLTRELSZ"}), x, PltTypes)
    OBVIOUS
  <2>2. Has(ds, {"JMPREL"}) /\ \E j \in 1..Len(rs) : bias + rs[j].offset = s.addr
    BY <1>1, <1>3, <1>5, <1>13, <2>1, TableHas
  <2>3. Plt = rs
    BY <2>1, <2>2
  <2> HIDE DEF Plt, Rel
  <2>4. rs # <<>>
    BY <2>2
  <2>5. PICK t \in l.slots : t.type \in PltTypes /\ t.name = sym /\ t.addr = bias + Head(rs).offset
    BY <1>1, <1>3, <1>8, <2>1, <2>2, <2>4, TableFirst
  <2>6. t = s
    BY <1>3, <1>13, <2>5 DEF OnePlt
  <2> QED
    BY <1>1, <1>7, <1>12, <2>3, <2>4, <2>5, <2>6
<1>14. CASE s.type \notin PltTypes
  <2>1. PICK rs : rs = Against(TableAt(l, bias, ds, rel), Size(ds, relsz), x, DynTypes)
    OBVIOUS
  <2>2. Has(ds, {"REL"}) /\ s.type \in DynTypes
    BY <1>1, <1>6, <1>14 DEF Has3
  <2>3. Relocated(l, bias, ds, rel, relsz, DynTypes)
    BY <1>3, <2>2
  <2>4. Has(ds, rel) /\ \E j \in 1..Len(rs) : bias + rs[j].offset = s.addr
    BY <1>1, <1>3, <1>5, <2>1, <2>2, <2>3, TableHas
  <2>5. Rel = rs
    BY <2>1, <2>4
  <2> HIDE DEF Plt, Rel
  <2> QED
    BY <1>1, <1>7, <1>12, <2>4, <2>5
<1> QED
  BY <1>13, <1>14
-----------------------------------------------------------------------------
(* The inductive invariant.                                                *)

\* The maps file lists the lines of the process, as far as they are loaded.
MapsInv ==
  /\ process \in Processes
  /\ maps \in Seq(ToSet(AllLines(process)))
  /\ Len(maps) >= Len(process.lines) /\ Len(maps) <= Len(AllLines(process))
  /\ \A k \in 1..Len(maps) : maps[k] = AllLines(process)[k]

\* A library the caller named, or its filter lets through.
Allowed(i) ==
  /\ i \in DOMAIN process.libs
  /\ process.filter => \E k \in 1..Len(maps) : maps[k].lib = i /\ maps[k].name \in process.matching

\* What the call has still to replace are slots of its symbol in its library,
\* and when it is about to write, the original function is saved.
CallInv ==
  /\ call = [at |-> call.at, sym |-> call.sym, lib |-> call.lib, ok |-> call.ok]
  /\ todo # <<>> =>
       /\ call.at \in {"replace", "try", "write"} /\ Allowed(call.lib)
       /\ call.sym \in ToSet(process.symbols) /\ todo \in Seq(SlotsOf(Lib(call.lib), call.sym))
  /\ call.at = "write" => todo # <<>> /\ old[call.sym] = Original(call.sym)

\* The reader has the load bias of a library that is allowed.
ReaderInv ==
  /\ reader = [lib |-> reader.lib, bias |-> reader.bias]
  /\ reader.lib # 0 => Allowed(reader.lib) /\ reader.bias = SegmentBase(Lib(reader.lib))

\* A module has the library of a line of its name and, once it is loaded, its
\* load bias; there is a symbol to hook as long as the modules are walked.
ModulesInv ==
  /\ \A n \in DOMAIN modules :
       /\ modules[n] = [lib |-> modules[n].lib, bias |-> modules[n].bias, loaded |-> modules[n].loaded]
       /\ modules[n].lib \in DOMAIN process.libs /\ IsElfModule(Lib(modules[n].lib))
       /\ \E k \in 1..Len(maps) : maps[k].lib = modules[n].lib /\ maps[k].name = n
       /\ modules[n].loaded => modules[n].bias = BiasAddr(Lib(modules[n].lib))
  /\ walk = [syms |-> walk.syms, names |-> walk.names] /\ walk.names \subseteq DOMAIN modules
  /\ process.hook = 3 /\ call.at \in {"walk", "replace", "write"} =>
       walk.syms \in Seq(ToSet(process.symbols)) /\ walk.syms # <<>>

\* The words of the slots, and the functions saved for the symbols.
MemoryInv ==
  /\ DOMAIN mem = {s.addr : s \in Slots} /\ DOMAIN old = ToSet(process.symbols)
  /\ OnlyItsSlots /\ OriginalSaved

\* The process is given once and for all.
LEMMA ProcessStays ==
  ASSUME [Next]_vars
  PROVE  process' = process
  BY DEF Next, vars, processVars, LoadLibrary, Next1, Exit1, Crash1, ElfHook1, Already1, Save1,
         Write1, Refused1, Return1, Leave1, Finish, Next2, HookerMain, Hook2, Already2, Failed2,
         Save2, Write2, Return2, Next3, SetHook3, PassOver3, Hook3, Already3, Save3, Write3,
         Refused3, NextModule3, NextSymbol3

\* Only loading a library changes the maps.
LEMMA MapsStay ==
  ASSUME [Next]_vars
  PROVE  LoadLibrary \/ maps' = maps
  BY DEF Next, vars, processVars, Next1, Exit1, Crash1, ElfHook1, Already1, Save1,
         Write1, Refused1, Return1, Leave1, Finish, Next2, HookerMain, Hook2, Already2, Failed2,
         Save2, Write2, Return2, Next3, SetHook3, PassOver3, Hook3, Already3, Save3, Write3,
         Refused3, NextModule3, NextSymbol3

\* The lines of a process are a sequence: those of now, then those of later.
LEMMA LinesOf ==
  ASSUME NEW p \in Processes
  PROVE  /\ p.lines \in Seq(ToSet(AllLines(p))) /\ p.later \in Seq(ToSet(AllLines(p)))
         /\ Len(AllLines(p)) = Len(p.lines) + Len(p.later)
         /\ \A k \in 1..Len(p.lines) : AllLines(p)[k] = p.lines[k]
         /\ \A k \in 1..Len(p.later) : AllLines(p)[k + Len(p.lines)] = p.later[k]
<1>1. PICK L, M : L = ToSet(p.lines) /\ M = ToSet(p.later)
  OBVIOUS
<1>2. PICK lines, later : lines = p.lines /\ later = p.later
  OBVIOUS
<1>3. lines \in Seq(L \cup M) /\ later \in Seq(L \cup M)
  <2>1. lines \in Seq(L) /\ later \in Seq(M)
    BY <1>1, <1>2, ProcessesAssumption
  <2> QED
    BY <2>1, SeqMonotonic
<1>4. PICK a, b : a = Len(lines) /\ b = Len(later)
  OBVIOUS
<1>5. a \in Nat /\ b \in Nat
  BY <1>3, <1>4, LenProperties
<1>6. PICK all : all = lines \o later
  OBVIOUS
<1>7. Len(all) = a + b /\ \A k \in 1..(a + b) : all[k] = IF k <= a THEN lines[k] ELSE later[k - a]
  BY <1>3, <1>4, <1>6, ConcatProperties
<1>8. ASSUME NEW k \in 1..a PROVE all[k] = lines[k]
  BY <1>5, <1>7
<1>9. ASSUME NEW k \in 1..b PROVE k + a \in 1..(a + b) /\ all[k + a] = later[k]
  <2>1. k + a \in 1..(a + b) /\ ~(k + a <= a) /\ (k + a) - a = k
    BY <1>5
  <2> QED
    BY <1>7, <2>1
<1>10. PICK T : T = ToSet(all)
  OBVIOUS
<1>11. \A k \in 1..(a + b) : all[k] \in T
  BY <1>7, <1>10 DEF ToSet
<1>12. lines \in Seq(T)
  <2>1. \A k \in 1..a : lines[k] \in T
    BY <1>5, <1>8, <1>11
  <2>2. lines = [k \in 1..a |-> lines[k]]
    BY <1>3, <1>4, LenProperties
  <2>3. [k \in 1..a |-> lines[k]] \in Seq(T)
    BY <1>5, <2>1, IsASeq
  <2> QED
    BY <2>2, <2>3
<1>13. later \in Seq(T)
  <2>1. \A k \in 1..b : later[k] \in T
    BY <1>5, <1>9, <1>11
  <2>2. later = [k \in 1..b |-> later[k]]
    BY <1>3, <1>4, LenProperties
  <2>3. [k \in 1..b |-> later[k]] \in Seq(T)
    BY <1>5, <2>1, IsASeq
  <2> QED
    BY <2>2, <2>3
<1> QED
  BY <1>2, <1>4, <1>6, <1>7, <1>8, <1>9, <1>10, <1>12, <1>13 DEF AllLines

LEMMA MapsInit == Init => MapsInv
<1> SUFFICES ASSUME Init PROVE MapsInv
  OBVIOUS
<1>1. process \in Processes /\ maps = process.lines
  BY DEF Init, ProcessInit
<1>2. /\ process.lines \in Seq(ToSet(AllLines(process))) /\ process.later \in Seq(ToSet(AllLines(process)))
      /\ Len(AllLines(process)) = Len(process.lines) + Len(process.later)
      /\ \A k \in 1..Len(process.lines) : AllLines(process)[k] = process.lines[k]
  BY <1>1, LinesOf
<1>3. Len(process.lines) \in Nat /\ Len(process.later) \in Nat
  BY <1>2, LenProperties
<1>4. Len(maps) >= Len(process.lines) /\ Len(maps) <= Len(AllLines(process))
  <2>1. PICK a, b, c : a = Len(process.lines) /\ b = Len(process.later) /\ c = Len(AllLines(process))
    OBVIOUS
  <2>2. a \in Nat /\ b \in Nat /\ c = a + b /\ Len(maps) = a
    BY <1>1, <1>2, <1>3, <2>1
  <2>3. a >= a /\ a <= c
    BY <2>2
  <2> QED
    BY <2>1, <2>2, <2>3
<1>5. \A k \in 1..Len(maps) : maps[k] = AllLines(process)[k]
  BY <1>1, <1>2
<1> QED
  BY <1>1, <1>2, <1>4, <1>5 DEF MapsInv

LEMMA MapsListed ==
  ASSUME MapsInv
  PROVE  /\ Len(maps) \in Nat
         /\ \A k \in 1..Len(maps) : k \in 1..Len(AllLines(process)) /\ maps[k] = AllLines(process)[k]
<1>1. PICK a, b, c, d : /\ a = Len(maps) /\ b = Len(AllLines(process))
                        /\ c = Len(process.lines) /\ d = Len(process.later)
  OBVIOUS
<1>2. a \in Nat
  BY <1>1, LenProperties DEF MapsInv
<1>3. /\ process.lines \in Seq(ToSet(AllLines(process))) /\ process.later \in Seq(ToSet(AllLines(process)))
      /\ b = c + d
  BY <1>1, LinesOf DEF MapsInv
<1>4. c \in Nat /\ d \in Nat
  BY <1>1, <1>3, LenProperties
<1>5. a <= b
  BY <1>1 DEF MapsInv
<1>6. \A k \in 1..a : k \in 1..b
  BY <1>2, <1>3, <1>4, <1>5
<1> QED
  BY <1>1, <1>2, <1>6 DEF MapsInv

\* A step adds the next line, or none.
LEMMA MapsGrow ==
  ASSUME MapsInv, [Next]_vars
  PROVE  /\ MapsInv' /\ Len(maps) \in Nat
         /\ \A k \in 1..Len(maps) : k \in 1..Len(maps') /\ maps'[k] = maps[k]
<1>1. process' = process
  BY ProcessStays
<1>2. Len(maps) \in Nat
  BY LenProperties DEF MapsInv
<1>3. CASE maps' = maps
  BY <1>1, <1>2, <1>3 DEF MapsInv
<1>4. CASE LoadLibrary
  <2>1. PICK all, lines, later : all = AllLines(process) /\ lines = process.lines /\ later = process.later
    OBVIOUS
  <2>2. PICK T : T = ToSet(all)
    OBVIOUS
  <2>3. /\ lines \in Seq(T) /\ later \in Seq(T) /\ Len(all) = Len(lines) + Len(later)
        /\ \A k \in 1..Len(later) : all[k + Len(lines)] = later[k]
    BY <2>1, <2>2, LinesOf DEF MapsInv
  <2>4. Len(lines) \in Nat /\ Len(later) \in Nat
    BY <2>3, LenProperties
  <2>5. PICK k : k = Len(maps) - Len(lines) + 1
    OBVIOUS
  <2>6. Len(maps) >= Len(lines) /\ Len(maps) < Len(lines) + Len(later) /\ maps' = Append(maps, later[k])
    BY <1>4, <2>1, <2>5 DEF MapsInv, LoadLibrary
  <2>7. k \in 1..Len(later) /\ Len(maps) + 1 = k + Len(lines)
    BY <1>2, <2>4, <2>5, <2>6
  <2>8. later[k] = all[Len(maps) + 1] /\ later[k] \in T
    BY <2>3, <2>7, ElementOfSeq
  <2>9. maps \in Seq(T) /\ \A j \in 1..Len(maps) : maps[j] = all[j]
    BY <2>1, <2>2 DEF MapsInv
  <2>10. /\ maps' \in Seq(T) /\ Len(maps') = Len(maps) + 1 /\ maps'[Len(maps) + 1] = later[k]
         /\ \A j \in 1..Len(maps) : maps'[j] = maps[j]
    BY <2>6, <2>8, <2>9, AppendProperties
  <2>11. \A j \in 1..Len(maps') : maps'[j] = all[j]
    <3> TAKE j \in 1..Len(maps')
    <3>1. j \in 1..Len(maps) \/ j = Len(maps) + 1
      BY <1>2, <2>10
    <3> QED
      BY <2>8, <2>9, <2>10, <3>1
  <2>12. Len(maps') >= Len(lines) /\ Len(maps') <= Len(all)
    BY <1>2, <2>3, <2>4, <2>6, <2>10
  <2> QED
    BY <1>1, <1>2, <2>1, <2>2, <2>10, <2>11, <2>12 DEF MapsInv
<1> QED
  BY <1>3, <1>4, MapsStay

\* A library that is allowed stays so.
LEMMA StaysAllowed ==
  ASSUME MapsInv, [Next]_vars, NEW i, Allowed(i)
  PROVE  Allowed(i)'
<1>1. process' = process
  BY ProcessStays
<1>2. \A k \in 1..Len(maps) : k \in 1..Len(maps') /\ maps'[k] = maps[k]
  BY MapsGrow
<1> QED
  BY <1>1, <1>2 DEF Allowed
-----------------------------------------------------------------------------
(* What the calls have still to do.                                        *)

\* The line elfhook1 or elfhook2 takes for the library's is of a library it may hook.
LEMMA LineAllowed ==
  ASSUME MapsInv, process.hook # 3,
         NEW k, k \in 1..Len(maps), maps[k].name \in process.matching,
         \A j \in 1..(k - 1) : maps[j].name \notin process.matching
  PROVE  Allowed(maps[k].lib)
<1>1. Len(maps) \in Nat /\ k \in 1..Len(AllLines(process))
  BY MapsListed
<1>2. \A j \in 1..k : j \in 1..Len(maps) /\ maps[j] = AllLines(process)[j]
  <2>1. \A j \in 1..k : j \in 1..Len(maps)
    BY <1>1
  <2> QED
    BY <2>1, MapsListed
<1>3. maps[k] = AllLines(process)[k] /\ maps[k].lib \in DOMAIN process.libs \cup {0}
  BY <1>1, <1>2, ProcessesAssumption DEF MapsInv
<1>4. ASSUME maps[k].lib = 0 PROVE FALSE
  <2>1. \E j \in 1..(k - 1) : AllLines(process)[j].name \in process.matching
    BY <1>1, <1>3, <1>4, ProcessesAssumption DEF MapsInv
  <2> QED
    BY <1>1, <1>2, <2>1
<1> QED
  BY <1>3, <1>4 DEF Allowed

LEMMA Allowed1 ==
  ASSUME MapsInv, process.hook = 1, LibLine # 0
  PROVE  Allowed(maps[LibLine].lib)
<1>1. PICK k : k = LibLine
  OBVIOUS
<1>2. PICK lines, matching : lines = maps /\ matching = process.matching
  OBVIOUS
<1>3. k = SelectInSeq(lines, LAMBDA l : l.name \in matching)
  BY <1>1, <1>2 DEF LibLine
<1>4. Len(lines) \in Nat
  BY <1>2, LenProperties DEF MapsInv
<1>5. /\ k \in 1..Len(lines) /\ lines[k].name \in matching
      /\ \A j \in 1..(k - 1) : lines[j].name \notin matching
  BY <1>1, <1>3, <1>4, FirstLine
<1> QED
  BY <1>1, <1>2, <1>5, LineAllowed

LEMMA Allowed2 ==
  ASSUME MapsInv, process.hook = 2, ModuleLine # 0
  PROVE  Allowed(maps[ModuleLine].lib)
<1>1. PICK k : k = ModuleLine
  OBVIOUS
<1>2. PICK lines, matching : lines = maps /\ matching = process.matching
  OBVIOUS
<1>3. k = SelectInSeq(lines, LAMBDA l : l.name \in matching)
  BY <1>1, <1>2 DEF ModuleLine
<1>4. Len(lines) \in Nat
  BY <1>2, LenProperties DEF MapsInv
<1>5. /\ k \in 1..Len(lines) /\ lines[k].name \in matching
      /\ \A j \in 1..(k - 1) : lines[j].name \notin matching
  BY <1>1, <1>3, <1>4, FirstLine
<1> QED
  BY <1>1, <1>2, <1>5, LineAllowed

LEMMA ReaderStep == MapsInv /\ ReaderInv /\ [Next]_vars => ReaderInv'
<1> SUFFICES ASSUME MapsInv, ReaderInv, [Next]_vars PROVE ReaderInv'
  OBVIOUS
<1>1. process' = process
  BY ProcessStays
<1>2. CASE reader' = reader
  <2>1. PICK i : i = reader.lib
    OBVIOUS
  <2>2. i # 0 => Allowed(i)'
    BY <2>1, StaysAllowed DEF ReaderInv
  <2> QED
    BY <1>1, <1>2, <2>1, <2>2 DEF ReaderInv, Lib
<1>3. CASE HookerMain /\ reader' # reader
  <2>1. /\ process.hook = 2 /\ ModuleLine # 0
        /\ reader' = [lib |-> maps[ModuleLine].lib, bias |-> SegmentBase(Lib(maps[ModuleLine].lib))]
    BY <1>3 DEF HookerMain
  <2>2. PICK i : i = maps[ModuleLine].lib
    OBVIOUS
  <2>3. Allowed(i)'
    BY <2>1, <2>2, Allowed2, StaysAllowed
  <2> QED
    BY <1>1, <2>1, <2>2, <2>3 DEF ReaderInv, Lib
<1> QED
  BY <1>2, <1>3 DEF Next, vars, LoadLibrary, Next2, Hook2, Already2, Failed2, Save2, Write2,
     Return2, Next3, SetHook3, PassOver3, Hook3, Already3, Save3, Write3, Refused3, NextModule3,
     NextSymbol3

\* The call goes on as it was, in a step that leaves it and the maps alone or adds a line.
LEMMA CallStays ==
  ASSUME MapsInv, CallInv, [Next]_vars, call' = call, todo' = todo, old' = old
  PROVE  CallInv'
<1>1. PICK i : i = call.lib
  OBVIOUS
<1>2. todo # <<>> => Allowed(i)'
  BY <1>1, StaysAllowed DEF CallInv
<1> QED
  BY <1>1, <1>2, ProcessStays DEF CallInv, Lib

\* Nothing is left to do.
LEMMA CallEmpty ==
  ASSUME todo' = <<>>, call' = [at |-> call'.at, sym |-> call'.sym, lib |-> call'.lib, ok |-> call'.ok],
         call'.at # "write"
  PROVE  CallInv'
  BY DEF CallInv

\* The slot at the head is left alone or written: the call goes on with the rest.
LEMMA CallTail ==
  ASSUME MapsInv, CallInv, [Next]_vars, todo # <<>>, todo' = Tail(todo),
         call'.at \in {"replace", "try"}, call'.sym = call.sym, call'.lib = call.lib,
         call' = [at |-> call'.at, sym |-> call'.sym, lib |-> call'.lib, ok |-> call'.ok]
  PROVE  CallInv'
<1>1. PICK i, n : i = call.lib /\ n = call.sym
  OBVIOUS
<1>2. Allowed(i)'
  BY <1>1, StaysAllowed DEF CallInv
<1>3. todo' \in Seq(SlotsOf(Lib(i), n))
  <2>1. PICK A : A = SlotsOf(Lib(i), n)
    OBVIOUS
  <2>2. todo \in Seq(A)
    BY <1>1, <2>1 DEF CallInv
  <2>3. Tail(todo) \in Seq(A)
    BY <2>2, HeadTailProperties
  <2> QED
    BY <2>1, <2>3
<1> QED
  BY <1>1, <1>2, <1>3, ProcessStays DEF CallInv, Lib

\* The original function of the slot at the head is saved.
LEMMA CallSaved ==
  ASSUME MapsInv, CallInv, [Next]_vars, todo # <<>>, todo' = todo,
         call' = [call EXCEPT !.at = "write"], old'[call.sym] = Original(call.sym)
  PROVE  CallInv'
<1>1. PICK i, n : i = call.lib /\ n = call.sym
  OBVIOUS
<1>2. Allowed(i)'
  BY <1>1, StaysAllowed DEF CallInv
<1>3. call' = [at |-> "write", sym |-> n, lib |-> i, ok |-> call.ok]
  BY <1>1 DEF CallInv
<1> QED
  BY <1>1, <1>2, <1>3, ProcessStays DEF CallInv, Lib

\* A lookup has found the slots of a symbol in a library that is allowed.
LEMMA CallBegins ==
  ASSUME MapsInv, [Next]_vars, NEW i, NEW n, NEW ok, NEW at, Allowed(i),
         n \in ToSet(process.symbols),
         call' = [at |-> at, sym |-> n, lib |-> i, ok |-> ok], at \in {"replace", "try", "returned"},
         todo' = <<>> \/ (at # "returned" /\ todo' \in Seq(SlotsOf(Lib(i), n)))
  PROVE  CallInv'
<1>1. Allowed(i)'
  BY StaysAllowed
<1> QED
  BY <1>1, ProcessStays DEF CallInv, Lib

\* The slot at the head is one of the symbol in the library.
LEMMA HeadSlot ==
  ASSUME CallInv, todo # <<>>
  PROVE  \E s \in Lib(call.lib).slots : s.name = call.sym /\ s.addr = Head(todo)
<1>1. PICK A : A = SlotsOf(Lib(call.lib), call.sym)
  OBVIOUS
<1>2. Head(todo) \in A
  BY <1>1, HeadTailProperties DEF CallInv
<1> QED
  BY <1>1, <1>2 DEF SlotsOf

\* Before the write the word is the original's, when it is not the replacement's.
LEMMA HeadWord ==
  ASSUME CallInv, MemoryInv, todo # <<>>
  PROVE  /\ Head(todo) \in DOMAIN mem /\ call.sym \in DOMAIN old
         /\ mem[Head(todo)] \in {Original(call.sym), New(call.sym)}
         /\ old[call.sym] \in {NULL, Original(call.sym)}
<1>1. PICK s \in Lib(call.lib).slots : s.name = call.sym /\ s.addr = Head(todo)
  BY HeadSlot
<1>2. s \in Slots
  BY DEF CallInv, Allowed, Slots, Lib
<1> QED
  BY <1>1, <1>2 DEF CallInv, MemoryInv, OnlyItsSlots, OriginalSaved

LEMMA CallStep1 == MapsInv /\ CallInv /\ MemoryInv /\ [Next]_vars /\ Next1 => CallInv'
<1> SUFFICES ASSUME MapsInv, CallInv, MemoryInv, [Next]_vars, Next1 PROVE CallInv'
  OBVIOUS
<1>1. call = [at |-> call.at, sym |-> call.sym, lib |-> call.lib, ok |-> call.ok]
  BY DEF CallInv
<1>2. CASE Exit1 \/ Crash1
  <2>1. todo = <<>> /\ todo' = todo /\ \E at \in {"exit", "crash"} : call' = [Idle EXCEPT !.at = at]
    BY <1>2 DEF Exit1, Crash1, Idle1, Leave1, CallInv
  <2> QED
    BY <2>1, CallEmpty DEF Idle
<1>3. CASE ElfHook1
  <2>1. PICK i : i = maps[LibLine].lib
    OBVIOUS
  <2>2. PICK sym \in ToSet(process.symbols) :
          LET x == FindSymByName(Lib(i), sym)
          IN /\ call' = [at |-> IF x = NotFound THEN "returned" ELSE "replace", sym |-> sym,
                         lib |-> i, ok |-> x # NotFound]
             /\ todo' = IF x = NotFound THEN <<>> ELSE Slots1(Lib(i), x)
    BY <1>3, <2>1 DEF ElfHook1, Leave1
  <2>3. process.hook = 1 /\ LibLine # 0 /\ Readable1(Lib(i))
    BY <1>3, <2>1 DEF ElfHook1, Idle1
  <2>4. Allowed(i)
    BY <2>1, <2>3, Allowed1
  <2>5. process \in Processes /\ i \in DOMAIN process.libs
    BY <2>4 DEF Allowed, MapsInv
  <2>6. PICK x : x = FindSymByName(Lib(i), sym)
    OBVIOUS
  <2>7. CASE x = NotFound
    BY <2>2, <2>4, <2>6, <2>7, CallBegins
  <2>8. CASE x # NotFound
    <3>1. todo' \in Seq(SlotsOf(Lib(i), sym))
      BY <2>2, <2>3, <2>5, <2>6, <2>8, Aims1
    <3> QED
      BY <2>2, <2>4, <2>6, <2>8, <3>1, CallBegins
  <2> QED
    BY <2>7, <2>8
<1>4. CASE Already1
  BY <1>1, <1>4, CallTail DEF Already1
<1>5. CASE Save1
  <2>1. /\ todo # <<>> /\ todo' = todo /\ mem[Head(todo)] # New(call.sym)
        /\ old' = [old EXCEPT ![call.sym] = IF @ = NULL THEN mem[Head(todo)] ELSE @]
        /\ call' = [call EXCEPT !.at = "write"]
    BY <1>5 DEF Save1
  <2>2. old'[call.sym] = Original(call.sym)
    BY <2>1, HeadWord
  <2> QED
    BY <2>1, <2>2, CallSaved
<1>6. CASE Write1
  <2>1. todo # <<>> /\ todo' = Tail(todo) /\ call' = [call EXCEPT !.at = "replace"]
    BY <1>6 DEF Write1, CallInv
  <2> QED
    BY <1>1, <2>1, CallTail
<1>7. CASE Refused1 \/ Return1
  <2>1. todo' = <<>> /\ \E ok : call' = [call EXCEPT !.at = "returned", !.ok = ok]
    BY <1>7 DEF Refused1, Return1, Finish
  <2> QED
    BY <1>1, <2>1, CallEmpty
<1> QED
  BY <1>2, <1>3, <1>4, <1>5, <1>6, <1>7 DEF Next1

LEMMA CallStep2 == MapsInv /\ CallInv /\ MemoryInv /\ ReaderInv /\ [Next]_vars /\ Next2 => CallInv'
<1> SUFFICES ASSUME MapsInv, CallInv, MemoryInv, ReaderInv, [Next]_vars, Next2 PROVE CallInv'
  OBVIOUS
<1>1. call = [at |-> call.at, sym |-> call.sym, lib |-> call.lib, ok |-> call.ok]
  BY DEF CallInv
<1>2. CASE HookerMain
  <2>1. todo = <<>> /\ todo' = todo /\ call.at = "idle"
    BY <1>2 DEF HookerMain, CallInv
  <2>2. call' = call \/ call' = [call EXCEPT !.at = "returned", !.ok = FALSE]
    BY <1>2 DEF HookerMain
  <2> QED
    BY <1>1, <2>1, <2>2, CallEmpty
<1>3. CASE Hook2
  <2>1. PICK i : i = reader.lib
    OBVIOUS
  <2>2. PICK sym \in ToSet(process.symbols) :
          LET x == FindSymbolByName2(sym)
          IN /\ todo' = IF x = NotFound THEN <<>> ELSE Slots2(x)
             /\ call' = [at |-> "try", sym |-> sym, lib |-> i, ok |-> FALSE]
    BY <1>3, <2>1 DEF Hook2
  <2>3. process.hook = 2 /\ Allowed(i) /\ reader.bias = SegmentBase(Lib(reader.lib))
    BY <1>3, <2>1 DEF Hook2, ReaderInv
  <2>4. process \in Processes /\ i \in DOMAIN process.libs
    BY <2>3 DEF Allowed, MapsInv
  <2>5. PICK x : x = FindSymbolByName2(sym)
    OBVIOUS
  <2>6. todo' = <<>> \/ todo' \in Seq(SlotsOf(Lib(i), sym))
    <3>1. CASE x = NotFound
      BY <2>2, <2>5, <3>1
    <3>2. CASE x # NotFound
      BY <2>1, <2>2, <2>3, <2>4, <2>5, <3>2, Aims2
    <3> QED
      BY <3>1, <3>2
  <2> QED
    BY <2>2, <2>3, <2>6, CallBegins
<1>4. CASE Already2
  <2>1. todo' = <<>> /\ call' = [call EXCEPT !.at = "returned", !.ok = TRUE]
    BY <1>4 DEF Already2, Finish
  <2> QED
    BY <1>1, <2>1, CallEmpty
<1>5. CASE Failed2
  BY <1>1, <1>5, CallTail DEF Failed2
<1>6. CASE Save2
  <2>1. /\ todo # <<>> /\ todo' = todo /\ mem[Head(todo)] # New(call.sym)
        /\ old' = [old EXCEPT ![call.sym] = mem[Head(todo)]]
        /\ call' = [call EXCEPT !.at = "write"]
    BY <1>6 DEF Save2
  <2>2. old'[call.sym] = Original(call.sym)
    BY <2>1, HeadWord
  <2> QED
    BY <2>1, <2>2, CallSaved
<1>7. CASE Write2 \/ Return2
  <2>1. todo' = <<>> /\ \E ok : call' = [call EXCEPT !.at = "returned", !.ok = ok]
    BY <1>7 DEF Write2, Return2, Finish
  <2> QED
    BY <1>1, <2>1, CallEmpty
<1> QED
  BY <1>2, <1>3, <1>4, <1>5, <1>6, <1>7 DEF Next2

LEMMA CallStep3 == MapsInv /\ CallInv /\ MemoryInv /\ ModulesInv /\ [Next]_vars /\ Next3 => CallInv'
<1> SUFFICES ASSUME MapsInv, CallInv, MemoryInv, ModulesInv, [Next]_vars, Next3 PROVE CallInv'
  OBVIOUS
<1>1. call = [at |-> call.at, sym |-> call.sym, lib |-> call.lib, ok |-> call.ok]
  BY DEF CallInv
<1>2. CASE SetHook3
  <2>1. todo = <<>> /\ todo' = todo /\ call' = [Idle EXCEPT !.at = "walk"]
    BY <1>2 DEF SetHook3, CallInv
  <2> QED
    BY <2>1, CallEmpty DEF Idle
<1>3. CASE PassOver3
  BY <1>3, CallStays DEF PassOver3
<1>4. CASE Hook3
  <2>1. PICK n \in walk.names :
          LET m == IF modules[n].loaded THEN modules[n]
                   ELSE [modules[n] EXCEPT !.bias = BiasAddr(Lib(modules[n].lib))]
              x == IF m.loaded \/ GetSegmentView(m) THEN FindSymbolByName3(m, Head(walk.syms)) ELSE NotFound
          IN /\ Wanted(n)
             /\ todo' = IF x = NotFound THEN <<>> ELSE Slots3(m, x)
             /\ call' = [call EXCEPT !.at = "replace", !.sym = Head(walk.syms), !.lib = m.lib]
    BY <1>4 DEF Hook3
  <2>2. PICK m : m = IF modules[n].loaded THEN modules[n]
                     ELSE [modules[n] EXCEPT !.bias = BiasAddr(Lib(modules[n].lib))]
    OBVIOUS
  <2>3. PICK sym : sym = Head(walk.syms)
    OBVIOUS
  <2>4. PICK x : x = IF m.loaded \/ GetSegmentView(m) THEN FindSymbolByName3(m, sym) ELSE NotFound
    OBVIOUS
  <2>5. /\ Wanted(n) /\ todo' = IF x = NotFound THEN <<>> ELSE Slots3(m, x)
        /\ call' = [call EXCEPT !.at = "replace", !.sym = sym, !.lib = m.lib]
    BY <2>1, <2>2, <2>3, <2>4
  <2>6. n \in DOMAIN modules
    BY <2>1 DEF ModulesInv
  <2>7. /\ modules[n] = [lib |-> modules[n].lib, bias |-> modules[n].bias, loaded |-> modules[n].loaded]
        /\ modules[n].lib \in DOMAIN process.libs
        /\ \E k \in 1..Len(maps) : maps[k].lib = modules[n].lib /\ maps[k].name = n
        /\ modules[n].loaded => modules[n].bias = BiasAddr(Lib(modules[n].lib))
    BY <2>6 DEF ModulesInv
  <2>8. m.lib = modules[n].lib /\ m.bias = BiasAddr(Lib(m.lib))
    BY <2>2, <2>7
  <2>9. Allowed(m.lib)
    BY <2>5, <2>7, <2>8 DEF Allowed, Wanted
  <2>10. sym \in ToSet(process.symbols)
    <3>1. walk.syms \in Seq(ToSet(process.symbols)) /\ walk.syms # <<>>
      BY <1>4 DEF Hook3, ModulesInv
    <3> QED
      BY <2>3, <3>1, HeadTailProperties
  <2>11. process \in Processes /\ process.hook = 3 /\ m.lib \in DOMAIN process.libs
    BY <1>4, <2>7, <2>8 DEF Hook3, MapsInv
  <2>12. todo' = <<>> \/ todo' \in Seq(SlotsOf(Lib(m.lib), sym))
    <3>1. CASE x = NotFound
      BY <2>5, <3>1
    <3>2. CASE x # NotFound
      <4>1. x = FindSymbolByName3(m, sym)
        BY <2>4, <3>2
      <4> QED
        BY <2>5, <2>8, <2>11, <3>2, <4>1, Aims3
    <3> QED
      BY <3>1, <3>2
  <2>13. call' = [at |-> "replace", sym |-> sym, lib |-> m.lib, ok |-> call.ok]
    BY <1>1, <2>5
  <2>14. PICK i : i = m.lib
    OBVIOUS
  <2> QED
    BY <2>9, <2>10, <2>12, <2>13, <2>14, CallBegins
<1>5. CASE Already3
  BY <1>1, <1>5, CallTail DEF Already3
<1>6. CASE Save3
  <2>1. /\ todo # <<>> /\ todo' = todo /\ mem[Head(todo)] # New(call.sym)
        /\ old' = [old EXCEPT ![call.sym] = IF @ = NULL THEN mem[Head(todo)] ELSE @]
        /\ call' = [call EXCEPT !.at = "write"]
    BY <1>6 DEF Save3
  <2>2. old'[call.sym] = Original(call.sym)
    BY <2>1, HeadWord
  <2> QED
    BY <2>1, <2>2, CallSaved
<1>7. CASE Write3
  <2>1. todo # <<>> /\ todo' = Tail(todo) /\ call' = [call EXCEPT !.at = "replace"]
    BY <1>7 DEF Write3, CallInv
  <2> QED
    BY <1>1, <2>1, CallTail
<1>8. CASE Refused3
  <2>1. todo' = <<>> /\ call' = [call EXCEPT !.at = "replace", !.ok = FALSE]
    BY <1>8 DEF Refused3, Finish
  <2> QED
    BY <1>1, <2>1, CallEmpty
<1>9. CASE NextModule3 \/ NextSymbol3
  <2>1. todo = <<>> /\ todo' = todo
    BY <1>9 DEF NextModule3, NextSymbol3, CallInv
  <2>2. \E at \in {"walk", "returned"} : call' = [call EXCEPT !.at = at]
    BY <1>9 DEF NextModule3, NextSymbol3
  <2> QED
    BY <1>1, <2>1, <2>2, CallEmpty
<1> QED
  BY <1>2, <1>3, <1>4, <1>5, <1>6, <1>7, <1>8, <1>9 DEF Next3

LEMMA CallStep ==
  MapsInv /\ CallInv /\ MemoryInv /\ ReaderInv /\ ModulesInv /\ [Next]_vars => CallInv'
<1> SUFFICES ASSUME MapsInv, CallInv, MemoryInv, ReaderInv, ModulesInv, [Next]_vars PROVE CallInv'
  OBVIOUS
<1>1. CASE LoadLibrary \/ UNCHANGED vars
  BY <1>1, CallStays DEF LoadLibrary, vars, processVars
<1> QED
  BY <1>1, CallStep1, CallStep2, CallStep3 DEF Next

-----------------------------------------------------------------------------
(* The modules of elfhook3.                                                *)

\* A module is made from a line of its name.
LEMMA ModulesMade ==
  ASSUME MapsInv, NEW n \in DOMAIN PhraseProcMaps
  PROVE  \E k \in 1..Len(maps) :
           /\ PhraseProcMaps[n] = [lib |-> maps[k].lib, bias |-> 0, loaded |-> FALSE]
           /\ maps[k].name = n /\ maps[k].lib \in DOMAIN process.libs
           /\ IsElfModule(Lib(maps[k].lib))
<1> DEFINE hits == {j \in 1..Len(maps) : Eligible(maps[j]) /\ maps[j].name = n}
           k == SelectInSeq(maps, LAMBDA l : Eligible(l) /\ l.name = n)
<1>1. PhraseProcMaps[n] = [lib |-> maps[k].lib, bias |-> 0, loaded |-> FALSE] /\ hits # {}
  BY DEF PhraseProcMaps
<1>2. k = Min(hits)
  BY <1>1 DEF SelectInSeq
<1>3. Len(maps) \in Nat
  BY LenProperties DEF MapsInv
<1>4. hits \subseteq Nat
  BY <1>3
<1>5. k \in hits
  <2> HIDE DEF hits, k
  <2> QED
    BY <1>1, <1>2, <1>4, LeastNatural
<1>6. k \in 1..Len(maps) /\ Eligible(maps[k]) /\ maps[k].name = n
  BY <1>5
<1>7. maps[k].lib \in DOMAIN process.libs /\ IsElfModule(Lib(maps[k].lib))
  <2>1. maps[k] = AllLines(process)[k] /\ k \in 1..Len(AllLines(process))
    <3> HIDE DEF k
    <3> QED
      BY <1>6, MapsListed
  <2>2. maps[k].lib # 0 /\ IsElfModule(Lib(maps[k].lib))
    BY <1>6 DEF Eligible
  <2> HIDE DEF k
  <2> QED
    BY <2>1, <2>2, ProcessesAssumption DEF MapsInv
<1> HIDE DEF k
<1> QED
  BY <1>1, <1>6, <1>7

\* The modules are as they were, or a line is added.
LEMMA ModulesStay ==
  ASSUME MapsInv, ModulesInv, [Next]_vars, modules' = modules,
         walk' = [syms |-> walk'.syms, names |-> walk'.names], walk'.names \subseteq DOMAIN modules,
         process.hook = 3 /\ call'.at \in {"walk", "replace", "write"} =>
           walk'.syms \in Seq(ToSet(process.symbols)) /\ walk'.syms # <<>>
  PROVE  ModulesInv'
<1>1. process' = process
  BY ProcessStays
<1>2. \A k \in 1..Len(maps) : k \in 1..Len(maps') /\ maps'[k] = maps[k]
  BY MapsGrow
<1>3. ASSUME NEW n \in DOMAIN modules
      PROVE  \E k \in 1..Len(maps') : maps'[k].lib = modules[n].lib /\ maps'[k].name = n
  BY <1>2 DEF ModulesInv
<1> QED
  BY <1>1, <1>3 DEF ModulesInv, Lib

LEMMA ModulesStep == MapsInv /\ ModulesInv /\ CallInv /\ [Next]_vars => ModulesInv'
<1> SUFFICES ASSUME MapsInv, ModulesInv, CallInv, [Next]_vars PROVE ModulesInv'
  OBVIOUS
<1>1. call = [at |-> call.at, sym |-> call.sym, lib |-> call.lib, ok |-> call.ok]
  BY DEF CallInv
<1>2. /\ walk = [syms |-> walk.syms, names |-> walk.names] /\ walk.names \subseteq DOMAIN modules
      /\ process.hook = 3 /\ call.at \in {"walk", "replace", "write"} =>
           walk.syms \in Seq(ToSet(process.symbols)) /\ walk.syms # <<>>
  BY DEF ModulesInv
<1>3. process' = process
  BY ProcessStays
<1>4. CASE (LoadLibrary /\ UNCHANGED hooker) \/ UNCHANGED vars
  BY <1>2, <1>4, ModulesStay DEF LoadLibrary, vars, processVars, hooker
<1>5. CASE (Next1 \/ Next2) /\ UNCHANGED hooker
  <2>1. process.hook # 3
    <3>1. Next1 => process.hook = 1
      BY DEF Next1, Exit1, Crash1, ElfHook1, Idle1, Already1, Save1, Write1, Refused1, Return1
    <3>2. Next2 => process.hook = 2
      BY DEF Next2, HookerMain, Hook2, Already2, Failed2, Save2, Write2, Return2
    <3> QED
      BY <1>5, <3>1, <3>2
  <2> QED
    BY <1>2, <1>5, <2>1, ModulesStay DEF hooker
<1>6. CASE SetHook3
  <2>1. /\ modules' \in {PhraseProcMaps, None}
        /\ walk' = [syms |-> process.symbols, names |-> DOMAIN modules']
        /\ maps' = maps
    BY <1>6 DEF SetHook3
  <2>2. process.symbols \in Seq(ToSet(process.symbols)) /\ process.symbols # <<>>
    <3>1. process.symbols \in Seq(STRING) /\ process.symbols # <<>>
      BY ProcessesAssumption DEF MapsInv
    <3>2. PICK s, T : s = process.symbols /\ T = ToSet(s)
      OBVIOUS
    <3>3. Len(s) \in Nat /\ s = [k \in 1..Len(s) |-> s[k]] /\ \A k \in 1..Len(s) : s[k] \in T
      BY <3>1, <3>2, LenProperties DEF ToSet
    <3>4. [k \in 1..Len(s) |-> s[k]] \in Seq(T)
      BY <3>3, IsASeq
    <3> QED
      BY <3>1, <3>2, <3>3, <3>4
  <2>3. ASSUME NEW n \in DOMAIN modules'
        PROVE  /\ modules'[n] = [lib |-> modules'[n].lib, bias |-> modules'[n].bias, loaded |-> modules'[n].loaded]
               /\ modules'[n].lib \in DOMAIN process.libs /\ IsElfModule(Lib(modules'[n].lib))
               /\ ~modules'[n].loaded
               /\ \E k \in 1..Len(maps) : maps[k].lib = modules'[n].lib /\ maps[k].name = n
    <3>1. modules' = PhraseProcMaps
      BY <2>1, <2>3 DEF None
    <3> QED
      BY <2>3, <3>1, ModulesMade
  <2> QED
    BY <1>3, <2>1, <2>2, <2>3 DEF ModulesInv, Lib
<1>7. CASE PassOver3
  <2>1. modules' = modules /\ call' = call /\ walk' = [walk EXCEPT !.names = {n \in @ : Wanted(n)}]
    BY <1>7 DEF PassOver3
  <2>2. walk'.names \subseteq walk.names /\ walk'.syms = walk.syms
    BY <1>2, <2>1
  <2>3. walk' = [syms |-> walk'.syms, names |-> walk'.names]
    BY <1>2, <2>1
  <2> QED
    BY <1>2, <2>1, <2>2, <2>3, ModulesStay
<1>8. CASE Hook3
  <2>1. PICK n \in walk.names :
          LET m == IF modules[n].loaded THEN modules[n]
                   ELSE [modules[n] EXCEPT !.bias = BiasAddr(Lib(modules[n].lib))]
          IN /\ modules' = [modules EXCEPT ![n] = [m EXCEPT !.loaded = (m.loaded \/ GetSegmentView(m))]]
             /\ walk' = [walk EXCEPT !.names = @ \ {n}]
    BY <1>8 DEF Hook3
  <2>2. PICK m : m = IF modules[n].loaded THEN modules[n]
                     ELSE [modules[n] EXCEPT !.bias = BiasAddr(Lib(modules[n].lib))]
    OBVIOUS
  <2>3. PICK r : r = [m EXCEPT !.loaded = (m.loaded \/ GetSegmentView(m))]
    OBVIOUS
  <2>4. modules' = [modules EXCEPT ![n] = r] /\ walk' = [walk EXCEPT !.names = @ \ {n}]
    BY <2>1, <2>2, <2>3
  <2>5. n \in DOMAIN modules
    BY <1>2
  <2>6. /\ modules[n] = [lib |-> modules[n].lib, bias |-> modules[n].bias, loaded |-> modules[n].loaded]
        /\ modules[n].loaded => modules[n].bias = BiasAddr(Lib(modules[n].lib))
    BY <2>5 DEF ModulesInv
  <2>7. /\ m = [lib |-> modules[n].lib, bias |-> m.bias, loaded |-> modules[n].loaded]
        /\ m.bias = BiasAddr(Lib(modules[n].lib))
    BY <2>2, <2>6
  <2>8. /\ r = [lib |-> modules[n].lib, bias |-> r.bias, loaded |-> r.loaded]
        /\ r.bias = BiasAddr(Lib(modules[n].lib))
    BY <2>3, <2>7
  <2>9. maps' = maps /\ process.hook = 3 /\ call.at = "walk"
    BY <1>8 DEF Hook3
  <2>10. DOMAIN modules' = DOMAIN modules /\ modules'[n] = r /\ \A o \in DOMAIN modules : o # n => modules'[o] = modules[o]
    BY <2>4, <2>5
  <2>11. ASSUME NEW o \in DOMAIN modules
         PROVE  /\ modules'[o] = [lib |-> modules'[o].lib, bias |-> modules'[o].bias, loaded |-> modules'[o].loaded]
                /\ modules'[o].lib = modules[o].lib
                /\ modules'[o].loaded => modules'[o].bias = BiasAddr(Lib(modules[o].lib))
    <3>1. CASE o = n
      BY <2>8, <2>10, <3>1
    <3>2. CASE o # n
      BY <2>10, <3>2 DEF ModulesInv
    <3> QED
      BY <3>1, <3>2
  <2>12. /\ walk' = [syms |-> walk'.syms, names |-> walk'.names] /\ walk'.syms = walk.syms
         /\ walk'.names \subseteq DOMAIN modules
    BY <1>2, <2>4
  <2> QED
    BY <1>2, <1>3, <2>9, <2>10, <2>11, <2>12 DEF ModulesInv, Lib
<1>9. CASE Already3 \/ Save3 \/ Write3 \/ Refused3 \/ NextModule3
  <2>1. call.at \in {"replace", "write"} /\ process.hook = 3 /\ modules' = modules /\ walk' = walk
    BY <1>9 DEF Already3, Save3, Write3, Refused3, NextModule3, hooker
  <2> QED
    BY <1>2, <2>1, ModulesStay
<1>10. CASE NextSymbol3
  <2>1. /\ call.at = "walk" /\ process.hook = 3 /\ modules' = modules
        /\ walk' = [syms |-> Tail(walk.syms), names |-> DOMAIN modules]
        /\ call' = [call EXCEPT !.at = IF Tail(walk.syms) = <<>> THEN "returned" ELSE "walk"]
    BY <1>10 DEF NextSymbol3
  <2>2. call'.at = IF Tail(walk.syms) = <<>> THEN "returned" ELSE "walk"
    BY <1>1, <2>1
  <2>3. Tail(walk.syms) \in Seq(ToSet(process.symbols))
    <3>1. PICK s, T : s = walk.syms /\ T = ToSet(process.symbols)
      OBVIOUS
    <3>2. s \in Seq(T) /\ s # <<>>
      BY <1>2, <2>1, <3>1
    <3>3. Tail(s) \in Seq(T)
      BY <3>2, HeadTailProperties
    <3> QED
      BY <3>1, <3>3
  <2> QED
    BY <2>1, <2>2, <2>3, ModulesStay
<1> QED
  BY <1>4, <1>5, <1>6, <1>7, <1>8, <1>9, <1>10 DEF Next, Next3, hooker

-----------------------------------------------------------------------------
(* The words of the slots and the saved functions.                         *)

\* There is one slot at an address.
LEMMA OneSlot ==
  ASSUME process \in Processes, NEW s \in Slots, NEW t \in Slots, s.addr = t.addr
  PROVE  s = t
  BY ProcessesAssumption DEF Slots

\* OnlyItsSlots says that the library of an overwritten slot is allowed.
LEMMA OnlyAllowed ==
  OnlyItsSlots <=>
    \A a \in DOMAIN mem : \A s \in Slots :
      s.addr = a /\ mem[a] # Original(s.name) =>
        /\ mem[a] = New(s.name) /\ s.name \in ToSet(process.symbols)
        /\ \E i : s \in Lib(i).slots /\ Allowed(i)
  BY DEF OnlyItsSlots, Allowed

\* No word is written: what was saved before may stay or be the original's.
LEMMA MemoryKept ==
  ASSUME MapsInv, MemoryInv, [Next]_vars, mem' = mem, DOMAIN old' = DOMAIN old,
         \A n \in DOMAIN old : old'[n] = old[n] \/ old'[n] = Original(n)
  PROVE  MemoryInv'
<1>1. process' = process /\ Slots' = Slots
  BY ProcessStays DEF Slots
<1>2. OnlyItsSlots'
  <2>1. ASSUME NEW i, Allowed(i) PROVE Allowed(i)'
    BY <2>1, StaysAllowed
  <2>2. \A a \in DOMAIN mem : \A s \in Slots :
          s.addr = a /\ mem[a] # Original(s.name) =>
            /\ mem[a] = New(s.name) /\ s.name \in ToSet(process.symbols)
            /\ \E i : s \in Lib(i).slots /\ Allowed(i)'
    BY <2>1, OnlyAllowed DEF MemoryInv
  <2> QED
    BY <1>1, <2>2 DEF OnlyItsSlots, Allowed, Lib
<1>3. OriginalSaved'
  <2>1. ASSUME NEW s \in Slots, mem[s.addr] = New(s.name) PROVE old'[s.name] = Original(s.name)
    <3>1. s.addr \in DOMAIN mem /\ New(s.name) # Original(s.name)
      BY DEF MemoryInv, New, Original
    <3>2. s.name \in DOMAIN old /\ old[s.name] = Original(s.name)
      BY <2>1, <3>1 DEF MemoryInv, OnlyItsSlots, OriginalSaved
    <3> QED
      BY <3>2
  <2>2. \A n \in DOMAIN old' : old'[n] \in {NULL, Original(n)}
    BY DEF MemoryInv, OriginalSaved
  <2> QED
    BY <1>1, <2>1, <2>2 DEF OriginalSaved
<1> QED
  BY <1>1, <1>2, <1>3 DEF MemoryInv

\* The slot at the head is written.
LEMMA MemoryWritten ==
  ASSUME MapsInv, MemoryInv, CallInv, [Next]_vars, call.at = "write",
         mem' = [mem EXCEPT ![Head(todo)] = New(call.sym)], old' = old
  PROVE  MemoryInv'
<1>1. process' = process /\ Slots' = Slots
  BY ProcessStays DEF Slots
<1>2. PICK t \in Lib(call.lib).slots : t.name = call.sym /\ t.addr = Head(todo)
  BY HeadSlot DEF CallInv
<1>3. PICK l : l = call.lib
  OBVIOUS
<1>4. /\ Allowed(l)' /\ t \in Lib(l).slots /\ t \in Slots
      /\ t.name \in ToSet(process.symbols) /\ old[t.name] = Original(t.name)
  BY <1>2, <1>3, StaysAllowed DEF CallInv, Allowed, Slots, Lib
<1>5. /\ DOMAIN mem' = DOMAIN mem /\ mem'[t.addr] = New(t.name)
      /\ \A a \in DOMAIN mem : a # t.addr => mem'[a] = mem[a]
  <2>1. t.addr \in DOMAIN mem
    BY <1>4 DEF MemoryInv
  <2> QED
    BY <1>2, <2>1
<1>6. OnlyItsSlots'
  <2>1. ASSUME NEW a \in DOMAIN mem, NEW s \in Slots, s.addr = a, mem'[a] # Original(s.name)
        PROVE  /\ mem'[a] = New(s.name) /\ s.name \in ToSet(process.symbols)
               /\ \E i : s \in Lib(i).slots /\ Allowed(i)'
    <3>1. CASE a = t.addr
      <4>1. s = t
        BY <1>4, <2>1, <3>1, OneSlot DEF MapsInv
      <4> QED
        BY <1>4, <1>5, <3>1, <4>1
    <3>2. CASE a # t.addr
      <4>1. mem'[a] = mem[a]
        BY <1>5, <3>2
      <4>2. /\ mem[a] = New(s.name) /\ s.name \in ToSet(process.symbols)
            /\ \E i : s \in Lib(i).slots /\ Allowed(i)
        BY <2>1, <4>1, OnlyAllowed DEF MemoryInv
      <4>3. PICK i : s \in Lib(i).slots /\ Allowed(i)
        BY <4>2
      <4>4. Allowed(i)'
        BY <4>3, StaysAllowed
      <4> QED
        BY <4>1, <4>2, <4>3, <4>4
    <3> QED
      BY <3>1, <3>2
  <2> QED
    BY <1>1, <1>5, <2>1 DEF OnlyItsSlots, Allowed, Lib
<1>7. OriginalSaved'
  <2>1. ASSUME NEW s \in Slots, mem'[s.addr] = New(s.name) PROVE old[s.name] = Original(s.name)
    <3>1. CASE s.addr = t.addr
      BY <1>4, <3>1, OneSlot DEF MapsInv
    <3>2. CASE s.addr # t.addr
      BY <1>5, <2>1, <3>2 DEF MemoryInv, OriginalSaved
    <3> QED
      BY <3>1, <3>2
  <2> QED
    BY <1>1, <2>1 DEF OriginalSaved, MemoryInv
<1> QED
  BY <1>1, <1>5, <1>6, <1>7 DEF MemoryInv

LEMMA MemoryStep == MapsInv /\ CallInv /\ MemoryInv /\ [Next]_vars => MemoryInv'
<1> SUFFICES ASSUME MapsInv, CallInv, MemoryInv, [Next]_vars PROVE MemoryInv'
  OBVIOUS
<1>1. CASE mem' = mem /\ old' = old
  BY <1>1, MemoryKept
<1>2. CASE Save1 \/ Save2 \/ Save3
  <2>1. PICK n, w : n = call.sym /\ w = mem[Head(todo)]
    OBVIOUS
  <2>2. todo # <<>> /\ w # New(n) /\ mem' = mem
    BY <1>2, <2>1 DEF Save1, Save2, Save3
  <2>3. old' = [old EXCEPT ![n] = IF @ = NULL THEN w ELSE @] \/ old' = [old EXCEPT ![n] = w]
    BY <1>2, <2>1 DEF Save1, Save2, Save3
  <2>4. w = Original(n)
    BY <2>1, <2>2, HeadWord
  <2>5. DOMAIN old' = DOMAIN old /\ \A o \in DOMAIN old : old'[o] = old[o] \/ old'[o] = Original(o)
    BY <2>3, <2>4
  <2> QED
    BY <2>2, <2>5, MemoryKept
<1>3. CASE Write1 \/ Write2 \/ Write3
  <2>1. call.at = "write" /\ mem' = [mem EXCEPT ![Head(todo)] = New(call.sym)] /\ old' = old
    BY <1>3 DEF Write1, Write2, Write3, Write
  <2> QED
    BY <2>1, MemoryWritten
<1> QED
  BY <1>1, <1>2, <1>3 DEF Next, vars, processVars, LoadLibrary, Next1, Exit1, Crash1, ElfHook1,
     Already1, Refused1, Return1, Leave1, Finish, Next2, HookerMain, Hook2, Already2, Failed2,
     Return2, Next3, SetHook3, PassOver3, Hook3, Already3, Refused3, NextModule3, NextSymbol3

-----------------------------------------------------------------------------
(* The theorems.                                                           *)

HookInv == MapsInv /\ CallInv /\ ReaderInv /\ ModulesInv /\ MemoryInv

LEMMA HookInit == Init => HookInv
<1> SUFFICES ASSUME Init PROVE HookInv
  OBVIOUS
<1>1. MapsInv
  BY MapsInit
<1>2. /\ mem = [a \in {s.addr : s \in Slots} |-> Original((CHOOSE s \in Slots : s.addr = a).name)]
      /\ old = [s \in ToSet(process.symbols) |-> NULL]
      /\ todo = <<>> /\ call = Idle /\ reader = [lib |-> 0, bias |-> 0]
      /\ modules = None /\ walk = [syms |-> <<>>, names |-> {}]
  BY DEF Init, ProcessInit, ReaderInit, HookerInit
<1>3. CallInv /\ ReaderInv /\ ModulesInv
  BY <1>2 DEF CallInv, ReaderInv, ModulesInv, Idle, None
<1>4. ASSUME NEW s \in Slots PROVE mem[s.addr] = Original(s.name)
  <2>1. PICK t : t = CHOOSE u \in Slots : u.addr = s.addr
    OBVIOUS
  <2>2. t \in Slots /\ t.addr = s.addr
    BY <2>1, Zenon
  <2>3. t = s
    BY <1>1, <2>2, OneSlot DEF MapsInv
  <2>4. mem[s.addr] = Original((CHOOSE u \in Slots : u.addr = s.addr).name)
    BY <1>2
  <2> QED
    BY <2>1, <2>3, <2>4
<1>5. MemoryInv
  <2>1. \A s \in Slots : Original(s.name) # New(s.name)
    BY DEF Original, New
  <2>2. OnlyItsSlots
    BY <1>4 DEF OnlyItsSlots
  <2>3. OriginalSaved
    BY <1>2, <1>4, <2>1 DEF OriginalSaved
  <2> QED
    BY <1>2, <2>2, <2>3 DEF MemoryInv
<1> QED
  BY <1>1, <1>3, <1>5 DEF HookInv

\* At every step of any of the three hooks, what a call has still to replace are
\* slots of its symbol in a library it may hook, and the original is saved.
THEOREM TargetsFound == Spec => []HookInv
<1>1. HookInv /\ [Next]_vars => HookInv'
  BY MapsGrow, CallStep, ReaderStep, ModulesStep, MemoryStep DEF HookInv
<1> QED
  BY <1>1, HookInit, PTL DEF Spec

\* Nothing but slots of the symbols is ever overwritten, in libraries the
\* caller named or its filter lets through.
THEOREM HooksOnlyItsSlots == Spec => []OnlyItsSlots
<1>1. HookInv => OnlyItsSlots
  BY DEF HookInv, MemoryInv
<1> QED
  BY <1>1, TargetsFound, PTL

\* The original function of a replaced slot is in old_func.
THEOREM HooksSaveOriginal == Spec => []OriginalSaved
<1>1. HookInv => OriginalSaved
  BY DEF HookInv, MemoryInv
<1> QED
  BY <1>1, TargetsFound, PTL

LEMMA ProtectionKept ==
  ASSUME NeverWritableExecutable, process' = process, NEW a, NEW p, ~({"w", "x"} \subseteq p),
         Protect(a, p)
  PROVE  NeverWritableExecutable'
  BY DEF NeverWritableExecutable, Protect

LEMMA ProtectionStep == NeverWritableExecutable /\ [Next]_vars => NeverWritableExecutable'
<1> SUFFICES ASSUME NeverWritableExecutable, [Next]_vars PROVE NeverWritableExecutable'
  OBVIOUS
<1>1. process' = process
  BY ProcessStays
<1>2. CASE prot' = prot
  BY <1>1, <1>2 DEF NeverWritableExecutable
<1>3. CASE Write1
  BY <1>1, <1>3 DEF Write1, NeverWritableExecutable
<1>4. CASE Save2
  <2>1. Protect(Head(todo), ProtOf2(Head(todo))) /\ "x" \notin ProtOf2(Head(todo))
    BY <1>4 DEF Save2, ProtOf2
  <2> QED
    BY <1>1, <2>1, ProtectionKept
<1>5. CASE Write3
  <2>1. Protect(Head(todo), ProtOf3(Head(todo))) /\ "x" \notin ProtOf3(Head(todo))
    BY <1>5 DEF Write3, ProtOf3
  <2> QED
    BY <1>1, <2>1, ProtectionKept
<1> QED
  BY <1>2, <1>3, <1>4, <1>5 DEF Next, vars, processVars, LoadLibrary, Next1, Exit1, Crash1, ElfHook1,
     Already1, Save1, Refused1, Return1, Leave1, Finish, Next2, HookerMain, Hook2, Already2, Failed2,
     Write2, Return2, Next3, SetHook3, PassOver3, Hook3, Already3, Save3, Refused3, NextModule3,
     NextSymbol3

\* elfhook2 and elfhook3 never leave a page writable and executable.
THEOREM NeverBoth == Spec => []NeverWritableExecutable
<1>1. Init => NeverWritableExecutable
  <2> SUFFICES ASSUME Init PROVE NeverWritableExecutable
    OBVIOUS
  <2>1. process \in Processes /\ prot = [p \in {PageOf(s.addr) : s \in Slots} |-> process.prot]
    BY DEF Init, ProcessInit
  <2>2. ~({"w", "x"} \subseteq process.prot)
    BY <2>1, ProcessesAssumption
  <2> QED
    BY <2>1, <2>2 DEF NeverWritableExecutable
<1> QED
  BY <1>1, ProtectionStep, PTL DEF Spec

LEMMA Complete2Step == HookInv /\ Complete2 /\ [Next]_vars => Complete2'
<1> SUFFICES ASSUME HookInv, Complete2, [Next]_vars, process.hook = 2, call'.at = "returned", call'.ok
             PROVE  \E s \in Lib(call'.lib).slots : s.name = call'.sym /\ mem'[s.addr] = New(call'.sym)
  BY ProcessStays DEF Complete2, Lib
<1>1. CallInv /\ MemoryInv
  BY DEF HookInv
<1>2. ASSUME todo # <<>>, call' = [call EXCEPT !.at = "returned", !.ok = TRUE], mem'[Head(todo)] = New(call.sym)
      PROVE  \E s \in Lib(call'.lib).slots : s.name = call'.sym /\ mem'[s.addr] = New(call'.sym)
  <2>1. call'.lib = call.lib /\ call'.sym = call.sym
    BY <1>1, <1>2 DEF CallInv
  <2> QED
    BY <1>1, <1>2, <2>1, HeadSlot
<1>3. CASE Already2
  BY <1>2, <1>3 DEF Already2, Finish
<1>4. CASE Write2
  <2>1. todo # <<>> /\ mem' = [mem EXCEPT ![Head(todo)] = New(call.sym)]
    BY <1>1, <1>4 DEF Write2, Write, CallInv
  <2>2. mem'[Head(todo)] = New(call.sym)
    BY <1>1, <2>1, HeadWord
  <2> QED
    BY <1>2, <1>4, <2>1, <2>2 DEF Write2
<1>5. CASE HookerMain
  <2>1. call.at = "idle" /\ (call' = call \/ call' = [call EXCEPT !.at = "returned", !.ok = FALSE])
    BY <1>5 DEF HookerMain
  <2> QED
    BY <1>1, <2>1 DEF CallInv
<1>6. CASE Hook2 \/ Failed2 \/ Save2 \/ Return2
  <2>1. Hook2 => call'.at = "try"
    BY DEF Hook2
  <2>2. Failed2 => call'.at = "try"
    BY DEF Failed2
  <2>3. Save2 => call'.at = "write"
    BY <1>1 DEF Save2, CallInv
  <2>4. Return2 => call'.ok = FALSE
    BY <1>1 DEF Return2, Finish, CallInv
  <2> QED
    BY <1>6, <2>1, <2>2, <2>3, <2>4
<1>7. CASE LoadLibrary \/ UNCHANGED vars
  BY <1>7 DEF LoadLibrary, vars, processVars, Complete2
<1>8. CASE Next1 \/ Next3
  BY <1>8 DEF Next1, Exit1, Crash1, ElfHook1, Idle1, Already1, Save1, Write1, Refused1, Return1, Next3,
     SetHook3, PassOver3, Hook3, Already3, Save3, Write3, Refused3, NextModule3, NextSymbol3
<1>9. Next1 \/ Next2 \/ Next3 \/ LoadLibrary \/ UNCHANGED vars
  BY DEF Next
<1>10. Next2 => Already2 \/ Write2 \/ HookerMain \/ Hook2 \/ Failed2 \/ Save2 \/ Return2
  BY DEF Next2
<1> QED
  BY <1>3, <1>4, <1>5, <1>6, <1>7, <1>8, <1>9, <1>10

\* When elfhook2's hook answers 0, a slot of the symbol in the library is replaced.
THEOREM AnswersTrue2 == Spec => []Complete2
<1>1. Init => Complete2
  <2>1. Init => call = Idle
    BY DEF Init, ProcessInit
  <2>2. Idle.at # "returned"
    BY DEF Idle
  <2> QED
    BY <2>1, <2>2 DEF Complete2
<1> QED
  BY <1>1, Complete2Step, TargetsFound, PTL DEF Spec

-----------------------------------------------------------------------------
(* A call that meets no refusal treats every slot it should.               *)

\* A slot is still to be replaced, or replaced.
Treated(s) == s.addr \in ToSet(todo) \/ mem[s.addr] = New(s.name)

\* elfhook1, in its loops.
Treats1 ==
  process.hook = 1 /\ call.at \in {"replace", "write"} =>
    \A s \in Lib(call.lib).slots : s.name = call.sym =>
      /\ s.type \in DynTypes => Treated(s)
      /\ s.type \in PltTypes =>
           \E t \in Lib(call.lib).slots : t.name = call.sym /\ t.type \in PltTypes /\ Treated(t)

\* elfhook3: the walk has come past the symbol, or past the module with it.
Passed(n, sym) == sym \notin ToSet(walk.syms) \/ (sym = Head(walk.syms) /\ n \notin walk.names)
Ours(n) == n \in DOMAIN modules /\ (process.filter => n \in process.matching)
Due(n, s) == s.name \in ToSet(process.symbols) /\ (s.type \in PltTypes \/ Has3(modules[n], {"REL"}))

Treats3 ==
  process.hook = 3 /\ call.at \in {"walk", "replace", "write", "returned"} /\ call.ok =>
    /\ call.at = "returned" => walk.syms = <<>>
    /\ \A n \in DOMAIN modules : Ours(n) =>
         \A s \in Lib(modules[n].lib).slots : Due(n, s) /\ Passed(n, s.name) => Treated(s)

LEMMA HeadOrTail ==
  ASSUME NEW S, NEW q \in Seq(S), q # <<>>, NEW a \in ToSet(q)
  PROVE  a = Head(q) \/ a \in ToSet(Tail(q))
<1>1. PICK k \in 1..Len(q) : a = q[k]
  BY LenProperties DEF ToSet
<1>2. Len(q) \in Nat
  BY LenProperties
<1>3. CASE k = 1
  BY <1>1, <1>3
<1>4. CASE k # 1
  <2>1. Tail(q) \in Seq(S) /\ Len(Tail(q)) = Len(q) - 1 /\ \A j \in 1..(Len(q) - 1) : Tail(q)[j] = q[j + 1]
    BY HeadTailProperties
  <2>2. k - 1 \in 1..(Len(q) - 1) /\ (k - 1) + 1 = k
    BY <1>2, <1>4
  <2>3. Tail(q)[k - 1] = a /\ k - 1 \in 1..Len(Tail(q))
    BY <1>1, <2>1, <2>2
  <2> QED
    BY <2>1, <2>3, LenProperties DEF ToSet
<1> QED
  BY <1>3, <1>4

\* A slot stays treated while the slots are replaced one after the other.
LEMMA TreatedStays ==
  ASSUME HookInv, [Next]_vars, NEW s \in Slots, Treated(s),
         \/ todo' = todo /\ mem' = mem
         \/ /\ todo # <<>> /\ todo' = Tail(todo)
            /\ \/ mem' = mem /\ mem[Head(todo)] = New(call.sym)
               \/ mem' = [mem EXCEPT ![Head(todo)] = New(call.sym)]
  PROVE  s.addr \in ToSet(todo') \/ mem'[s.addr] = New(s.name)
<1>1. CASE todo' = todo /\ mem' = mem
  BY <1>1 DEF Treated
<1>2. CASE todo # <<>> /\ todo' = Tail(todo)
  <2>1. CallInv /\ MemoryInv /\ process \in Processes
    BY DEF HookInv, MapsInv
  <2>2. PICK t \in Lib(call.lib).slots : t.name = call.sym /\ t.addr = Head(todo)
    BY <1>2, <2>1, HeadSlot
  <2>3. t \in Slots
    BY <1>2, <2>1, <2>2 DEF CallInv, Allowed, Slots, Lib
  <2>4. Head(todo) \in DOMAIN mem /\ s.addr \in DOMAIN mem
    BY <1>2, <2>1, HeadWord DEF MemoryInv
  <2>5. CASE s.addr = Head(todo)
    <3>1. s.name = call.sym
      BY <2>1, <2>2, <2>3, <2>5, OneSlot
    <3> QED
      BY <1>2, <2>4, <2>5, <3>1
  <2>6. CASE s.addr # Head(todo)
    <3>1. mem'[s.addr] = mem[s.addr]
      BY <1>2, <2>4, <2>6
    <3>2. PICK S : todo \in Seq(S)
      BY <1>2, <2>1 DEF CallInv
    <3>3. s.addr \in ToSet(todo) => s.addr \in ToSet(Tail(todo))
      BY <1>2, <2>6, <3>2, HeadOrTail
    <3> QED
      BY <1>2, <3>1, <3>3 DEF Treated
  <2> QED
    BY <2>5, <2>6
<1> QED
  BY <1>1, <1>2

\* Nothing is left to do once the call is neither in a loop nor about to write.
LEMMA NothingLeft ==
  ASSUME CallInv, call.at \notin {"replace", "try", "write"}
  PROVE  todo = <<>>
  BY DEF CallInv

LEMMA Treats1Step == HookInv /\ Treats1 /\ [Next]_vars => Treats1'
<1> SUFFICES ASSUME HookInv, Treats1, [Next]_vars, process.hook = 1, call'.at \in {"replace", "write"},
                    NEW s \in Lib(call'.lib).slots, s.name = call'.sym
             PROVE  /\ s.type \in DynTypes => Treated(s)'
                    /\ s.type \in PltTypes =>
                         \E t \in Lib(call'.lib).slots : t.name = call'.sym /\ t.type \in PltTypes /\ Treated(t)'
  BY ProcessStays DEF Treats1, Treated, Lib
<1>1. CallInv /\ MemoryInv /\ MapsInv /\ process \in Processes
  BY DEF HookInv, MapsInv
<1>2. ASSUME call.at \in {"replace", "write"}, todo # <<>>, call'.lib = call.lib, call'.sym = call.sym,
             \/ todo' = todo /\ mem' = mem
             \/ /\ todo # <<>> /\ todo' = Tail(todo)
                /\ \/ mem' = mem /\ mem[Head(todo)] = New(call.sym)
                   \/ mem' = [mem EXCEPT ![Head(todo)] = New(call.sym)]
      PROVE  /\ s.type \in DynTypes => Treated(s)'
             /\ s.type \in PltTypes =>
                  \E t \in Lib(call'.lib).slots : t.name = call'.sym /\ t.type \in PltTypes /\ Treated(t)'
  <2>1. \A t \in Lib(call.lib).slots : t \in Slots
    BY <1>1, <1>2 DEF CallInv, Allowed, Slots, Lib
  <2>2. ASSUME NEW t \in Lib(call.lib).slots, Treated(t) PROVE Treated(t)'
    BY <1>2, <2>1, <2>2, TreatedStays DEF Treated
  <2>3. /\ s.type \in DynTypes => Treated(s)
        /\ s.type \in PltTypes =>
             \E t \in Lib(call.lib).slots : t.name = call.sym /\ t.type \in PltTypes /\ Treated(t)
    BY <1>2 DEF Treats1
  <2> QED
    BY <1>2, <2>2, <2>3
<1>3. CASE ElfHook1
  <2>1. PICK n : n = maps[LibLine].lib
    OBVIOUS
  <2>2. PICK sym \in ToSet(process.symbols) :
          LET x == FindSymByName(Lib(n), sym)
          IN /\ call' = [at |-> IF x = NotFound THEN "returned" ELSE "replace", sym |-> sym,
                         lib |-> n, ok |-> x # NotFound]
             /\ todo' = IF x = NotFound THEN <<>> ELSE Slots1(Lib(n), x)
    BY <1>3, <2>1 DEF ElfHook1, Leave1
  <2>3. LibLine # 0 /\ Readable1(Lib(n))
    BY <1>3, <2>1 DEF ElfHook1
  <2>4. n \in DOMAIN process.libs
    BY <1>1, <2>1, <2>3, Allowed1 DEF Allowed
  <2>5. PICK x, l : x = FindSymByName(Lib(n), sym) /\ l = Lib(n)
    OBVIOUS
  <2>6. x # NotFound /\ todo' = Slots1(l, x) /\ call'.sym = sym /\ call'.lib = n
    BY <2>2, <2>5
  <2>7. /\ s.type \in DynTypes => s.addr \in ToSet(todo')
        /\ s.type \in PltTypes =>
             \E t \in l.slots : t.name = sym /\ t.type \in PltTypes /\ t.addr \in ToSet(todo')
    <3>1. PICK A : A = ToSet(Slots1(l, x))
      OBVIOUS
    <3>2. /\ s.type \in DynTypes => s.addr \in A
          /\ s.type \in PltTypes =>
               \E t \in l.slots : t.name = sym /\ t.type \in PltTypes /\ t.addr \in A
      BY <1>1, <2>3, <2>4, <2>5, <2>6, <3>1, Begins1
    <3> QED
      BY <2>6, <3>1, <3>2
  <2> QED
    BY <2>5, <2>6, <2>7 DEF Treated
<1>4. CASE Already1
  BY <1>2, <1>4 DEF Already1
<1>5. CASE Save1
  BY <1>1, <1>2, <1>5 DEF Save1, CallInv
<1>6. CASE Write1
  BY <1>1, <1>2, <1>6 DEF Write1, Write, CallInv
<1>7. CASE Exit1 \/ Crash1 \/ Refused1 \/ Return1
  BY <1>1, <1>7 DEF Exit1, Crash1, Refused1, Return1, Leave1, Finish, Idle, CallInv
<1>8. CASE LoadLibrary \/ UNCHANGED vars
  BY <1>8 DEF LoadLibrary, vars, processVars, Treats1, Treated
<1>9. Next2 => process.hook = 2
  BY DEF Next2, HookerMain, Hook2, Already2, Failed2, Save2, Write2, Return2
<1>10. Next3 => process.hook = 3
  BY DEF Next3, SetHook3, PassOver3, Hook3, Already3, Save3, Write3, Refused3, NextModule3, NextSymbol3
<1> QED
  BY <1>3, <1>4, <1>5, <1>6, <1>7, <1>8, <1>9, <1>10 DEF Next, Next1

\* A slot of a library of the modules is one of the process.
LEMMA ModuleSlot ==
  ASSUME ModulesInv, NEW n \in DOMAIN modules, NEW s \in Lib(modules[n].lib).slots
  PROVE  s \in Slots
  BY DEF ModulesInv, Slots, Lib

\* What has been passed is still treated, when no module has changed its library.
LEMMA PassedStays ==
  ASSUME HookInv, Treats3, [Next]_vars, process.hook = 3,
         call.at \in {"walk", "replace", "write", "returned"}, call.ok,
         NEW n \in DOMAIN modules, Ours(n), NEW s \in Lib(modules[n].lib).slots,
         Due(n, s), Passed(n, s.name),
         \/ todo = <<>> /\ mem' = mem
         \/ todo' = todo /\ mem' = mem
         \/ /\ todo # <<>> /\ todo' = Tail(todo)
            /\ \/ mem' = mem /\ mem[Head(todo)] = New(call.sym)
               \/ mem' = [mem EXCEPT ![Head(todo)] = New(call.sym)]
  PROVE  Treated(s)'
<1>1. Treated(s)
  BY DEF Treats3
<1>2. s \in Slots
  BY ModuleSlot DEF HookInv
<1>3. CASE todo = <<>> /\ mem' = mem
  BY <1>1, <1>3 DEF Treated, ToSet
<1>4. CASE ~(todo = <<>> /\ mem' = mem)
  BY <1>1, <1>2, <1>4, TreatedStays DEF Treated
<1> QED
  BY <1>3, <1>4

\* elfhook3 starts on a module: each slot of the symbol is to be replaced.
LEMMA ModuleBegins ==
  ASSUME HookInv, Hook3
  PROVE  \E n \in walk.names :
           /\ walk' = [walk EXCEPT !.names = @ \ {n}]
           /\ DOMAIN modules' = DOMAIN modules
           /\ \A o \in DOMAIN modules : modules'[o].lib = modules[o].lib
           /\ call'.at = "replace" /\ call'.ok = call.ok
           /\ \A s \in Lib(modules[n].lib).slots :
                s.name = Head(walk.syms) /\ Due(n, s) => s.addr \in ToSet(todo')
<1>1. PICK n \in walk.names :
        LET m == IF modules[n].loaded THEN modules[n]
                 ELSE [modules[n] EXCEPT !.bias = BiasAddr(Lib(modules[n].lib))]
            viewed == m.loaded \/ GetSegmentView(m)
            x == IF viewed THEN FindSymbolByName3(m, Head(walk.syms)) ELSE NotFound
        IN /\ walk' = [walk EXCEPT !.names = @ \ {n}]
           /\ modules' = [modules EXCEPT ![n] = [m EXCEPT !.loaded = viewed]]
           /\ todo' = IF x = NotFound THEN <<>> ELSE Slots3(m, x)
           /\ call' = [call EXCEPT !.at = "replace", !.sym = Head(walk.syms), !.lib = m.lib]
  BY DEF Hook3
<1>2. PICK m : m = IF modules[n].loaded THEN modules[n]
                   ELSE [modules[n] EXCEPT !.bias = BiasAddr(Lib(modules[n].lib))]
  OBVIOUS
<1>3. PICK sym, viewed : sym = Head(walk.syms) /\ viewed = (m.loaded \/ GetSegmentView(m))
  OBVIOUS
<1>4. PICK x : x = IF viewed THEN FindSymbolByName3(m, sym) ELSE NotFound
  OBVIOUS
<1>5. PICK r : r = [m EXCEPT !.loaded = viewed]
  OBVIOUS
<1>6. /\ walk' = [walk EXCEPT !.names = @ \ {n}] /\ modules' = [modules EXCEPT ![n] = r]
      /\ todo' = IF x = NotFound THEN <<>> ELSE Slots3(m, x)
      /\ call' = [call EXCEPT !.at = "replace", !.sym = sym, !.lib = m.lib]
  BY <1>1, <1>2, <1>3, <1>4, <1>5
<1>7. n \in DOMAIN modules /\ process \in Processes /\ process.hook = 3
  BY DEF HookInv, ModulesInv, MapsInv, Hook3
<1>8. /\ modules[n] = [lib |-> modules[n].lib, bias |-> modules[n].bias, loaded |-> modules[n].loaded]
      /\ modules[n].lib \in DOMAIN process.libs /\ IsElfModule(Lib(modules[n].lib))
      /\ modules[n].loaded => modules[n].bias = BiasAddr(Lib(modules[n].lib))
  BY <1>7 DEF HookInv, ModulesInv
<1>9. /\ m = [lib |-> modules[n].lib, bias |-> m.bias, loaded |-> modules[n].loaded]
      /\ m.bias = BiasAddr(Lib(modules[n].lib))
  BY <1>2, <1>8
<1>10. m.lib = modules[n].lib /\ r.lib = modules[n].lib
  BY <1>5, <1>9
<1>11. DOMAIN modules' = DOMAIN modules /\ \A o \in DOMAIN modules : modules'[o].lib = modules[o].lib
  BY <1>6, <1>7, <1>10
<1>12. call' = [at |-> "replace", sym |-> sym, lib |-> m.lib, ok |-> call.ok]
  BY <1>6 DEF HookInv, CallInv
<1>13. ASSUME NEW s \in Lib(modules[n].lib).slots, s.name = sym, Due(n, s)
       PROVE  s.addr \in ToSet(todo')
  <2>1. PICK l : l = Lib(m.lib)
    OBVIOUS
  <2>2. sym \in ToSet(process.symbols)
    BY <1>13 DEF Due
  <2>3. viewed
    <3>1. Linked3(l, ToSet(process.symbols)) /\ IsElfModule(l)
      BY <1>7, <1>8, <1>10, <2>1, LibLinked
    <3>2. /\ l.type = "DYN" /\ SegmentOf(l, "DYNAMIC") # 0
          /\ Has(DynOf3(l), {"GNU_HASH"}) =>
               PowerOf2(Len(TableAt(l, BiasAddr(l), DynOf3(l), {"GNU_HASH"}).bloom))
      BY <3>1 DEF Linked3
    <3>3. m.bias = BiasAddr(l)
      BY <1>9, <1>10, <2>1
    <3>4. GetSegmentView(m)
      BY <2>1, <3>2, <3>3 DEF GetSegmentView, Has3, At3, TableAt
    <3> QED
      BY <1>3, <3>4
  <2>4. x = FindSymbolByName3(m, sym)
    BY <1>4, <2>3
  <2>5. s.type \in PltTypes \/ Has3(m, {"REL"})
    BY <1>10, <1>13 DEF Due, Has3
  <2>6. x # NotFound /\ s.addr \in ToSet(Slots3(m, x))
    BY <1>7, <1>8, <1>9, <1>10, <1>13, <2>1, <2>2, <2>4, <2>5, Begins3
  <2> QED
    BY <1>6, <2>6
<1> QED
  BY <1>3, <1>6, <1>11, <1>12, <1>13

LEMMA Treats3Step == HookInv /\ Treats3 /\ [Next]_vars => Treats3'
<1> SUFFICES ASSUME HookInv, Treats3, [Next]_vars, process.hook = 3,
                    call'.at \in {"walk", "replace", "write", "returned"}, call'.ok
             PROVE  /\ call'.at = "returned" => walk'.syms = <<>>
                    /\ \A n \in DOMAIN modules' : Ours(n)' =>
                         \A s \in Lib(modules'[n].lib).slots :
                           Due(n, s)' /\ Passed(n, s.name)' => Treated(s)'
  BY ProcessStays DEF Treats3, Lib
<1>1. CallInv /\ MemoryInv /\ ModulesInv /\ MapsInv /\ process' = process
  BY ProcessStays DEF HookInv
<1>2. call = [at |-> call.at, sym |-> call.sym, lib |-> call.lib, ok |-> call.ok]
  BY <1>1 DEF CallInv
<1>3. ASSUME call.at \in {"walk", "replace", "write", "returned"}, call.ok,
             call.at = "returned" => todo' = todo, DOMAIN modules' = DOMAIN modules,
             \A o \in DOMAIN modules : modules'[o].lib = modules[o].lib,
             \A n \in DOMAIN modules : \A sym \in ToSet(process.symbols) :
               Ours(n) /\ Passed(n, sym)' => Passed(n, sym),
             \/ todo = <<>> /\ mem' = mem
             \/ todo' = todo /\ mem' = mem
             \/ /\ todo # <<>> /\ todo' = Tail(todo)
                /\ \/ mem' = mem /\ mem[Head(todo)] = New(call.sym)
                   \/ mem' = [mem EXCEPT ![Head(todo)] = New(call.sym)]
      PROVE  \A n \in DOMAIN modules' : Ours(n)' =>
               \A s \in Lib(modules'[n].lib).slots :
                 Due(n, s)' /\ Passed(n, s.name)' => Treated(s)'
  <2> SUFFICES ASSUME NEW n \in DOMAIN modules', Ours(n)', NEW s \in Lib(modules'[n].lib).slots,
                      Due(n, s)', Passed(n, s.name)'
               PROVE  Treated(s)'
    OBVIOUS
  <2>1. n \in DOMAIN modules /\ Ours(n) /\ s \in Lib(modules[n].lib).slots
    BY <1>1, <1>3 DEF Ours
  <2>2. Due(n, s) /\ s.name \in ToSet(process.symbols)
    BY <1>1, <1>3, <2>1 DEF Due, Has3, Lib
  <2>3. Passed(n, s.name)
    BY <1>3, <2>1, <2>2
  <2> QED
    BY <1>3, <2>1, <2>2, <2>3, PassedStays
<1>4. CASE SetHook3
  <2>1. /\ walk' = [syms |-> process.symbols, names |-> DOMAIN modules']
        /\ call' = [Idle EXCEPT !.at = "walk"]
    BY <1>4 DEF SetHook3
  <2>2. call'.at = "walk" /\ walk'.syms = process.symbols /\ walk'.names = DOMAIN modules'
    BY <2>1 DEF Idle
  <2>3. \A n \in DOMAIN modules' : \A s \in Lib(modules'[n].lib).slots : Due(n, s)' => ~Passed(n, s.name)'
    BY <1>1, <2>2 DEF Due, Passed
  <2> QED
    BY <2>2, <2>3
<1>5. CASE PassOver3
  <2>1. /\ call.at = "walk" /\ call' = call /\ todo' = todo /\ mem' = mem /\ modules' = modules
        /\ walk' = [walk EXCEPT !.names = {n \in @ : Wanted(n)}]
    BY <1>5 DEF PassOver3
  <2>2. walk'.syms = walk.syms /\ walk'.names = {n \in walk.names : Wanted(n)}
    BY <1>1, <2>1 DEF ModulesInv
  <2>3. \A n \in DOMAIN modules : \A sym \in ToSet(process.symbols) :
          Ours(n) /\ Passed(n, sym)' => Passed(n, sym)
    BY <2>2 DEF Ours, Passed, Wanted
  <2> QED
    BY <1>3, <2>1, <2>3
<1>6. CASE Hook3
  <2>1. PICK n \in walk.names :
           /\ walk' = [walk EXCEPT !.names = @ \ {n}]
           /\ DOMAIN modules' = DOMAIN modules
           /\ \A o \in DOMAIN modules : modules'[o].lib = modules[o].lib
           /\ call'.at = "replace" /\ call'.ok = call.ok
           /\ \A s \in Lib(modules[n].lib).slots :
                s.name = Head(walk.syms) /\ Due(n, s) => s.addr \in ToSet(todo')
    BY <1>6, ModuleBegins
  <2>2. call.at = "walk" /\ mem' = mem /\ todo = <<>> /\ call.ok
    BY <1>1, <1>6, <2>1, NothingLeft DEF Hook3
  <2>3. walk'.syms = walk.syms /\ walk'.names = walk.names \ {n}
    BY <1>1, <2>1 DEF ModulesInv
  <2>4. ASSUME NEW o \in DOMAIN modules', Ours(o)', NEW s \in Lib(modules'[o].lib).slots,
               Due(o, s)', Passed(o, s.name)'
        PROVE  Treated(s)'
    <3>1. o \in DOMAIN modules /\ Ours(o) /\ s \in Lib(modules[o].lib).slots
      BY <1>1, <2>1, <2>4 DEF Ours
    <3>2. Due(o, s)
      BY <1>1, <2>1, <2>4, <3>1 DEF Due, Has3, Lib
    <3>3. CASE o = n /\ s.name = Head(walk.syms)
      BY <2>1, <3>1, <3>2, <3>3 DEF Treated
    <3>4. CASE ~(o = n /\ s.name = Head(walk.syms))
      <4>1. Passed(o, s.name)
        BY <2>3, <2>4, <3>4 DEF Passed
      <4> QED
        BY <2>2, <3>1, <3>2, <4>1, PassedStays
    <3> QED
      BY <3>3, <3>4
  <2> QED
    BY <2>1, <2>4
<1>7. ASSUME call.at \in {"replace", "write"}, call.ok, call'.at \in {"replace", "write", "walk"}, UNCHANGED hooker,
             \/ todo' = todo /\ mem' = mem
             \/ /\ todo # <<>> /\ todo' = Tail(todo)
                /\ \/ mem' = mem /\ mem[Head(todo)] = New(call.sym)
                   \/ mem' = [mem EXCEPT ![Head(todo)] = New(call.sym)]
      PROVE  /\ call'.at = "returned" => walk'.syms = <<>>
             /\ \A n \in DOMAIN modules' : Ours(n)' =>
                  \A s \in Lib(modules'[n].lib).slots :
                    Due(n, s)' /\ Passed(n, s.name)' => Treated(s)'
  <2>1. modules' = modules /\ walk' = walk
    BY <1>7 DEF hooker
  <2>2. \A n \in DOMAIN modules : \A sym \in ToSet(process.symbols) :
          Ours(n) /\ Passed(n, sym)' => Passed(n, sym)
    BY <2>1 DEF Passed
  <2> QED
    BY <1>3, <1>7, <2>1, <2>2
<1>8. CASE Already3
  BY <1>7, <1>8 DEF Already3
<1>9. CASE Save3
  <2>1. call' = [call EXCEPT !.at = "write"]
    BY <1>9 DEF Save3
  <2>2. call'.at = "write" /\ call'.ok = call.ok
    BY <1>2, <2>1
  <2> QED
    BY <1>7, <1>9, <2>2 DEF Save3
<1>10. CASE Write3
  <2>1. call.at = "write" /\ todo # <<>> /\ call' = [call EXCEPT !.at = "replace"]
    BY <1>1, <1>10 DEF Write3, CallInv
  <2>2. call'.at = "replace" /\ call'.ok = call.ok
    BY <1>2, <2>1
  <2> QED
    BY <1>7, <1>10, <2>1, <2>2 DEF Write3, Write
<1>11. CASE Refused3
  <2>1. call' = [call EXCEPT !.at = "replace", !.ok = FALSE]
    BY <1>11 DEF Refused3, Finish
  <2> QED
    BY <1>2, <2>1
<1>12. CASE NextModule3
  <2>1. call' = [call EXCEPT !.at = "walk"]
    BY <1>12 DEF NextModule3
  <2>2. call'.at = "walk" /\ call'.ok = call.ok
    BY <1>2, <2>1
  <2> QED
    BY <1>7, <1>12, <2>2 DEF NextModule3
<1>13. CASE NextSymbol3
  <2>1. /\ call.at = "walk" /\ walk.names = {} /\ todo' = todo /\ mem' = mem /\ modules' = modules
        /\ walk' = [syms |-> Tail(walk.syms), names |-> DOMAIN modules]
        /\ call' = [call EXCEPT !.at = IF Tail(walk.syms) = <<>> THEN "returned" ELSE "walk"]
    BY <1>13 DEF NextSymbol3
  <2>2. /\ call'.at = IF Tail(walk.syms) = <<>> THEN "returned" ELSE "walk"
        /\ call'.ok = call.ok
    BY <1>2, <2>1
  <2>3. walk.syms \in Seq(ToSet(process.symbols)) /\ walk.syms # <<>>
    BY <1>1, <2>1 DEF ModulesInv
  <2>4. walk'.syms = Tail(walk.syms) /\ walk'.names = DOMAIN modules
    BY <2>1
  <2>5. ASSUME NEW n \in DOMAIN modules, NEW sym \in ToSet(process.symbols), Passed(n, sym)'
        PROVE  Passed(n, sym)
    <3>1. PICK q, T : q = walk.syms /\ T = ToSet(process.symbols)
      OBVIOUS
    <3>2. sym \in ToSet(q) => sym = Head(q) \/ sym \in ToSet(Tail(q))
      BY <2>3, <3>1, HeadOrTail
    <3>3. sym \notin ToSet(Tail(q))
      BY <2>4, <2>5, <3>1 DEF Passed
    <3> QED
      BY <2>1, <3>1, <3>2, <3>3 DEF Passed
  <2> QED
    BY <1>3, <2>1, <2>2, <2>4, <2>5
<1>14. CASE (LoadLibrary /\ UNCHANGED hooker) \/ UNCHANGED vars
  <2>1. /\ call' = call /\ todo' = todo /\ mem' = mem /\ modules' = modules /\ walk' = walk
    BY <1>14 DEF LoadLibrary, vars, processVars, hooker
  <2>2. \A n \in DOMAIN modules : \A sym \in ToSet(process.symbols) :
          Ours(n) /\ Passed(n, sym)' => Passed(n, sym)
    BY <2>1 DEF Passed
  <2> QED
    BY <1>3, <2>1, <2>2 DEF Treats3
<1>15. ~Next1
  BY DEF Next1, Exit1, Crash1, ElfHook1, Idle1, Already1, Save1, Write1, Refused1, Return1
<1>16. ~Next2
  BY DEF Next2, HookerMain, Hook2, Already2, Failed2, Save2, Write2, Return2
<1> QED
  BY <1>4, <1>5, <1>6, <1>8, <1>9, <1>10, <1>11, <1>12, <1>13, <1>14, <1>15, <1>16 DEF Next, Next3, hooker

\* A call that returns with nothing left to do has replaced what it has treated.
LEMMA Complete1Step == HookInv /\ Treats1 /\ Complete1 /\ [Next]_vars => Complete1'
<1> SUFFICES ASSUME HookInv, Treats1, Complete1, [Next]_vars, process.hook = 1, call'.at = "returned", call'.ok
             PROVE  Complete1'
  BY ProcessStays DEF Complete1
<1>1. CallInv /\ process' = process /\ call = [at |-> call.at, sym |-> call.sym, lib |-> call.lib, ok |-> call.ok]
  BY ProcessStays DEF HookInv, CallInv
<1>2. CASE Return1
  <2>1. /\ call.at = "replace" /\ todo = <<>> /\ mem' = mem
        /\ call' = [call EXCEPT !.at = "returned", !.ok = TRUE]
    BY <1>2 DEF Return1, Finish
  <2>2. call'.lib = call.lib /\ call'.sym = call.sym
    BY <1>1, <2>1
  <2>3. \A s \in Lib(call.lib).slots : Treated(s) => mem[s.addr] = New(s.name)
    BY <2>1 DEF Treated, ToSet
  <2> QED
    BY <1>1, <2>1, <2>2, <2>3 DEF Complete1, Treats1, Lib
<1>3. CASE ElfHook1
  <2>1. \E sym \in ToSet(process.symbols) :
          LET x == FindSymByName(Lib(maps[LibLine].lib), sym)
          IN call' = [at |-> IF x = NotFound THEN "returned" ELSE "replace", sym |-> sym,
                      lib |-> maps[LibLine].lib, ok |-> x # NotFound]
    BY <1>3 DEF ElfHook1, Leave1
  <2>2. ASSUME NEW x, NEW sym, NEW i,
               call' = [at |-> IF x = NotFound THEN "returned" ELSE "replace", sym |-> sym,
                        lib |-> i, ok |-> x # NotFound]
        PROVE  FALSE
    BY <2>2
  <2> QED
    BY <2>1, <2>2
<1>4. CASE Exit1 \/ Crash1
  BY <1>4 DEF Exit1, Crash1, Leave1, Idle
<1>5. CASE Refused1
  BY <1>1, <1>5 DEF Refused1, Finish
<1>6. CASE Already1
  BY <1>6 DEF Already1
<1>7. CASE Save1 \/ Write1
  BY <1>1, <1>7 DEF Save1, Write1
<1>8. CASE LoadLibrary \/ UNCHANGED vars
  BY <1>1, <1>8 DEF LoadLibrary, vars, processVars, Complete1, Lib
<1>9. Next2 => process.hook = 2
  BY DEF Next2, HookerMain, Hook2, Already2, Failed2, Save2, Write2, Return2
<1>10. Next3 => process.hook = 3
  BY DEF Next3, SetHook3, PassOver3, Hook3, Already3, Save3, Write3, Refused3, NextModule3, NextSymbol3
<1> QED
  BY <1>2, <1>3, <1>4, <1>5, <1>6, <1>7, <1>8, <1>9, <1>10 DEF Next, Next1

\* elfhook3 has passed everything when it returns.
LEMMA Complete3Follows == HookInv /\ Treats3 => Complete3
<1> SUFFICES ASSUME HookInv, Treats3, process.hook = 3, call.at = "returned", call.ok,
                    NEW n \in {x \in DOMAIN modules : process.filter => x \in process.matching},
                    NEW s \in Lib(modules[n].lib).slots, Due(n, s)
             PROVE  mem[s.addr] = New(s.name)
  BY DEF Complete3, Due
<1>1. todo = <<>> /\ walk.syms = <<>>
  BY NothingLeft DEF HookInv, Treats3
<1>2. Ours(n) /\ Passed(n, s.name)
  BY <1>1 DEF Ours, Passed, ToSet
<1>3. Treated(s)
  BY <1>2 DEF Treats3
<1> QED
  BY <1>1, <1>3 DEF Treated, ToSet

\* A call of one of the three hooks that meets no refusal leaves no slot behind: when
\* elfHook returns, one word of .rel.plt and all the words of .rel.dyn (elfhook.cpp:83-107),
\* when elfhook2's hook answers 0, a word in the library (elf_reader.cpp:295-343), and when
\* __set_hook returns, each of the symbols in each module (elf_module.cpp:466-529) have
\* the replacement, whatever libraries are loaded meanwhile.
THEOREM EverySlotHooked == Spec => []HookedWhenDone
<1>1. Init => Treats1 /\ Treats3 /\ Complete1
  <2>1. Init => call = Idle
    BY DEF Init, ProcessInit
  <2>2. Idle.at = "idle"
    BY DEF Idle
  <2> QED
    BY <2>1, <2>2 DEF Treats1, Treats3, Complete1
<1>2. Complete1 /\ Complete2 /\ HookInv /\ Treats3 => HookedWhenDone
  BY Complete3Follows DEF HookedWhenDone
<1>3. Spec => []HookInv
  BY TargetsFound
<1>4. Spec => []Complete2
  BY AnswersTrue2
<1> QED
  BY <1>1, <1>2, <1>3, <1>4, Treats1Step, Treats3Step, Complete1Step, PTL DEF Spec
=============================================================================
