--------------------------- MODULE ProcessProofs ---------------------------
(***************************************************************************)
(* Proofs about the parts that work between processes: the injectors, the  *)
(* search for a process and the programs of the shared segments, for any   *)
(* memory, any library name, any processes and any number of attachments.  *)
(***************************************************************************)
EXTENDS Processes, FiniteSetTheorems, SequenceTheorems, WellFoundedInduction, TLAPS

\* A set of naturals has a least element.
LEMMA Least ==
  ASSUME NEW S, S \subseteq Nat, S # {}
  PROVE  \E m \in S : \A n \in S : m <= n
<1> DEFINE Less == {ss \in Nat \X Nat : ss[1] < ss[2]}
<1>1. IsWellFoundedOn(Less, Nat)
  BY NatLessThanWellFounded, Zenon DEF OpToRel
<1>2. PICK m \in S : \A n \in S : ~(<<n, m>> \in Less)
  <2> HIDE DEF Less
  <2> QED
    BY <1>1, WFMin
<1>3. ASSUME NEW n \in S PROVE m <= n
  <2>1. m \in Nat /\ n \in Nat /\ ~(<<n, m>> \in Less)
    BY <1>2
  <2>2. n < m => <<n, m>> \in Less
    BY <2>1
  <2> QED
    BY <2>1, <2>2
<1> QED
  BY <1>3

-----------------------------------------------------------------------------
(* The search for a process.                                               *)

\* What a lookup has gone past is not what it looks for.
PidInv ==
  /\ listing \in Seq(Pids) /\ \A p \in Pids : \E k \in 1..Len(listing) : listing[k] = p
  /\ living \subseteq Pids
  /\ seen \in [Lookups -> Nat] /\ answer \in [Lookups -> Pids \cup {None, 0, -1}]
  /\ \A l \in Lookups :
       /\ answer[l] \in Pids => name[answer[l]] = Wanted
       /\ answer[l] = None /\ (l = "ptracehook1" \/ living = Pids) =>
            \A k \in 1..seen[l] : k <= Len(listing) /\ (listing[k] \in living => name[listing[k]] # Wanted)
       /\ answer[l] = NotFound(l) /\ (l = "ptracehook1" \/ living = Pids) =>
            \A p \in living : name[p] # Wanted

LEMMA PidStart == PidInit => PidInv
<1> SUFFICES ASSUME PidInit PROVE PidInv
  OBVIOUS
<1> DEFINE N == Cardinality(Pids)
<1>1. N \in Nat /\ IsFiniteSet(1..N) /\ Cardinality(1..N) = N
  <2>1. N \in Nat
    BY PidAssumption, FS_CardinalityType
  <2>2. IsFiniteSet(1..N) /\ Cardinality(1..N) = IF 1 > N THEN 0 ELSE N - 1 + 1
    BY <2>1, FS_Interval
  <2> HIDE DEF N
  <2> QED
    BY <2>1, <2>2
<1>2. listing \in [1..N -> Pids] /\ \A i, j \in DOMAIN listing : listing[i] = listing[j] => i = j
  BY DEF PidInit
<1>3. listing \in Injection(1..N, Pids)
  BY <1>2 DEF Injection, IsInjective
<1>4. listing \in Surjection(1..N, Pids)
  BY <1>1, <1>3, PidAssumption, FS_Injection
<1>5. listing \in Seq(Pids) /\ Len(listing) = N
  <2> HIDE DEF N
  <2> QED
    BY <1>1, <1>2
<1>6. \A p \in Pids : \E k \in 1..Len(listing) : listing[k] = p
  <2> HIDE DEF N
  <2> QED
    BY <1>4, <1>5 DEF Surjection
<1>7. None \notin Pids
  BY PidAssumption DEF None
<1> HIDE DEF N
<1> QED
  BY <1>5, <1>6, <1>7 DEF PidInit, PidInv, NotFound, None, Lookups

LEMMA PidStep == PidInv /\ [PidNext]_pidVars => PidInv'
<1> SUFFICES ASSUME PidInv, [PidNext]_pidVars PROVE PidInv'
  OBVIOUS
<1> USE DEF PidInv, Lookups, NotFound, None
<1>1. Len(listing) \in Nat
  BY LenProperties
<1>2. ASSUME NEW p \in Pids, End(p) PROVE PidInv'
  BY <1>2 DEF End
<1>3. ASSUME NEW l \in Lookups, Look(l) PROVE PidInv'
  <2>1. PICK k : k = seen[l] + 1
    OBVIOUS
  <2>2. PICK p \in Pids : p = listing[k]
    BY <1>1, <1>3, <2>1 DEF Look
  <2>3. CASE p \notin living
    BY <1>1, <1>3, <2>1, <2>2, <2>3, PidAssumption DEF Look
  <2>4. CASE p \in living /\ name[p] = Wanted
    BY <1>1, <1>3, <2>1, <2>2, <2>4, PidAssumption DEF Look
  <2>5. CASE p \in living /\ name[p] # Wanted
    BY <1>1, <1>3, <2>1, <2>2, <2>5, PidAssumption DEF Look
  <2> QED
    BY <2>3, <2>4, <2>5
<1>4. ASSUME NEW l \in Lookups, EndOfListing(l) PROVE PidInv'
  <2>1. seen[l] = Len(listing) /\ answer[l] = None
    BY <1>4 DEF EndOfListing
  <2>2. l = "ptracehook1" \/ living = Pids => \A p \in living : name[p] # Wanted
    BY <2>1
  <2> QED
    BY <1>4, <2>2, PidAssumption DEF EndOfListing
<1>5. CASE UNCHANGED pidVars
  BY <1>5 DEF pidVars
<1> QED
  BY <1>2, <1>3, <1>4, <1>5 DEF PidNext

LEMMA PidRight == PidInv => PidFound
  BY DEF PidInv, PidFound

-----------------------------------------------------------------------------
(* The handshake.                                                          *)

\* Every letter that is in the segment is in its place, the first perhaps under a mark.
LettersInPlace ==
  /\ shm \in [0..Letters -> Int] /\ shm[Letters] = Nul
  /\ shm[0] \in {Nul, 1, Star}
  /\ \A i \in 1..(Letters - 1) : shm[i] \in {Nul, i + 1}

\* A client has read the letters before its position, if they were there when it started.
Reads(c) ==
  /\ client[c].r \in 0..Letters /\ client[c].printed \in Seq(Int)
  /\ client[c] = [at |-> client[c].at, r |-> client[c].r, printed |-> client[c].printed,
                  whole |-> client[c].whole]
  /\ client[c].whole => /\ Complete
                        /\ Len(client[c].printed) = client[c].r
                        /\ \A i \in 2..client[c].r : client[c].printed[i] = i
                        /\ client[c].at = "marking" => client[c].r = Letters

ShmInv ==
  /\ LettersInPlace
  /\ server \in {"writing", "waiting"} => s \in 0..Letters
  /\ DOMAIN client = Clients
  /\ \A c \in Clients : Reads(c)

LEMMA GoneReads ==
  ASSUME NEW c \in Clients, client[c] = Gone
  PROVE  Reads(c)
<1>1. <<>> \in Seq(Int) /\ Letters \in Nat
  BY ShmHandshakeAssumption
<1> QED
  BY <1>1 DEF Reads, Gone

LEMMA ShmStart == ShmInit => ShmInv
<1> SUFFICES ASSUME ShmInit PROVE ShmInv
  OBVIOUS
<1>1. LettersInPlace
  BY ShmHandshakeAssumption DEF ShmInit, LettersInPlace, Nul
<1>2. \A c \in Clients : client[c] = Gone
  BY DEF ShmInit
<1> QED
  BY <1>1, <1>2, GoneReads DEF ShmInit, ShmInv

\* A step that writes a letter or a mark leaves the letters in place.
LEMMA LetterWritten ==
  ASSUME LettersInPlace, NEW i \in 0..Letters, NEW x \in Int,
         shm' = [shm EXCEPT ![i] = x],
         i = Letters => x = Nul, i # Letters => x = i + 1 \/ (i = 0 /\ x = Star)
  PROVE  LettersInPlace' /\ (Complete => Complete')
<1>1. Letters \in Nat \ {0}
  BY ShmHandshakeAssumption
<1>2. shm' \in [0..Letters -> Int] /\ \A j \in 0..Letters : shm'[j] = IF j = i THEN x ELSE shm[j]
  BY DEF LettersInPlace
<1>3. LettersInPlace'
  BY <1>1, <1>2 DEF LettersInPlace, Nul, Star
<1>4. ASSUME Complete, NEW j \in 0..(Letters - 1) PROVE shm'[j] # Nul
  <2>1. j \in 0..Letters /\ j # Letters /\ shm[j] # Nul
    BY <1>1, <1>4 DEF Complete
  <2> QED
    BY <1>2, <2>1 DEF Nul, Star
<1> QED
  BY <1>3, <1>4 DEF Complete

\* The clients that a step leaves alone.
LEMMA ReadsStay ==
  ASSUME ShmInv, NEW c \in Clients, client'[c] = client[c], Complete => Complete'
  PROVE  Reads(c)'
BY DEF ShmInv, Reads

LEMMA PutcharStep ==
  ASSUME ShmInv, NEW c \in Clients, Putchar(c)
  PROVE  Reads(c)'
<1> DEFINE me == client[c]
           letter == shm[me.r]
<1>1. Letters \in Nat \ {0} /\ Reads(c) /\ shm' = shm /\ (Complete <=> Complete')
  BY ShmHandshakeAssumption DEF ShmInv, Putchar, Complete
<1>2. CASE letter # Nul
  <2>1. client'[c] = [me EXCEPT !.printed = Append(me.printed, letter), !.r = me.r + 1]
    BY <1>2 DEF Putchar, ShmInv
  <2>2. me.r # Letters /\ me.r \in 0..Letters /\ letter \in Int /\ me.printed \in Seq(Int)
    BY <1>1, <1>2 DEF Reads, ShmInv, LettersInPlace
  <2>3. /\ Append(me.printed, letter) \in Seq(Int)
        /\ Len(Append(me.printed, letter)) = Len(me.printed) + 1
        /\ \A i \in 1..Len(me.printed) + 1 :
             Append(me.printed, letter)[i] = IF i <= Len(me.printed) THEN me.printed[i] ELSE letter
    BY <2>2, AppendProperties
  <2>4. PICK q : q = Append(me.printed, letter)
    OBVIOUS
  <2>5. client'[c] = [at |-> me.at, r |-> me.r + 1, printed |-> q, whole |-> me.whole]
    BY <1>1, <2>1, <2>4 DEF Reads
  <2>6. me.at = "reading"
    BY DEF Putchar
  <2>7. ASSUME me.whole PROVE Len(q) = me.r + 1 /\ \A i \in 2..(me.r + 1) : q[i] = i
    <3>1. Len(me.printed) = me.r /\ \A i \in 2..me.r : me.printed[i] = i
      BY <1>1, <2>7 DEF Reads
    <3>2. me.r # 0 => letter = me.r + 1
      BY <1>1, <1>2, <2>2 DEF ShmInv, LettersInPlace
    <3> HIDE DEF me, letter
    <3> QED
      BY <2>2, <2>3, <2>4, <3>1, <3>2
  <2> HIDE DEF me, letter
  <2>8. me.whole => Complete'
    BY <1>1 DEF Reads, me
  <2> QED
    BY <2>2, <2>3, <2>4, <2>5, <2>6, <2>7, <2>8, <1>1 DEF Reads
<1>3. CASE letter = Nul
  <2>1. client'[c] = [me EXCEPT !.at = "marking"]
    BY <1>3 DEF Putchar, ShmInv
  <2>2. client'[c] = [at |-> "marking", r |-> me.r, printed |-> me.printed, whole |-> me.whole]
    BY <1>1, <2>1 DEF Reads
  <2>3. me.whole => me.r = Letters
    <3>1. ASSUME me.whole, me.r # Letters PROVE FALSE
      <4>1. me.r \in 0..(Letters - 1) /\ Complete
        BY <1>1, <3>1 DEF Reads
      <4> QED
        BY <1>3, <4>1 DEF Complete
    <3> QED
      BY <3>1
  <2> QED
    BY <1>1, <2>2, <2>3 DEF Reads
<1> QED
  BY <1>2, <1>3

LEMMA ShmStep == ShmInv /\ [ShmNext]_shmVars => ShmInv'
<1> SUFFICES ASSUME ShmInv, [ShmNext]_shmVars PROVE ShmInv'
  OBVIOUS
<1>0. Letters \in Nat \ {0}
  BY ShmHandshakeAssumption
<1>1. ASSUME UNCHANGED <<shm, client>>, server' \in {"writing", "waiting"} => s' \in 0..Letters
      PROVE  ShmInv'
  <2>1. (Complete => Complete') /\ LettersInPlace'
    BY <1>1 DEF Complete, ShmInv, LettersInPlace
  <2> QED
    BY <1>1, <2>1, ReadsStay DEF ShmInv
<1>2. ASSUME UNCHANGED shm, UNCHANGED <<server, s>>, NEW c \in Clients, NEW new,
             client' = [client EXCEPT ![c] = new], Reads(c)'
      PROVE  ShmInv'
  <2>1. (Complete => Complete') /\ LettersInPlace'
    BY <1>2 DEF Complete, ShmInv, LettersInPlace
  <2>2. DOMAIN client' = Clients /\ \A d \in Clients \ {c} : client'[d] = client[d]
    BY <1>2 DEF ShmInv
  <2> QED
    BY <1>2, <2>1, <2>2, ReadsStay DEF ShmInv
<1>3. CASE StartServer
  BY <1>0, <1>1, <1>3 DEF StartServer
<1>4. CASE WriteLetter
  <2>1. s \in 0..Letters
    BY <1>4 DEF WriteLetter, ShmInv
  <2>2. LettersInPlace' /\ (Complete => Complete') /\ s' \in 0..Letters
    <3>1. CASE s < Letters
      <4>1. s + 1 \in Int /\ s # Letters /\ shm' = [shm EXCEPT ![s] = s + 1] /\ s' = s + 1
        BY <1>4, <2>1, <3>1 DEF WriteLetter
      <4>2. LettersInPlace' /\ (Complete => Complete')
        BY <2>1, <4>1, LetterWritten DEF ShmInv
      <4>3. s' \in 0..Letters
        BY <1>0, <2>1, <4>1
      <4> QED
        BY <4>2, <4>3
    <3>2. CASE ~(s < Letters)
      <4>1. s = Letters /\ Nul \in Int /\ shm' = [shm EXCEPT ![s] = Nul] /\ s' = s
        BY <1>0, <1>4, <2>1, <3>2 DEF WriteLetter, Nul
      <4> QED
        BY <2>1, <4>1, LetterWritten DEF ShmInv
    <3> QED
      BY <3>1, <3>2
  <2>3. client' = client
    BY <1>4 DEF WriteLetter
  <2> QED
    BY <2>2, <2>3, ReadsStay DEF ShmInv
<1>5. CASE SeeStar \/ KillServer
  BY <1>1, <1>5 DEF SeeStar, KillServer, ShmInv
<1>6. ASSUME NEW c \in Clients, StartClient(c) PROVE ShmInv'
  <2>1. CASE exists
    <3>1. PICK new : new = [at |-> "reading", r |-> 0, printed |-> <<>>, whole |-> Complete]
      OBVIOUS
    <3>2. client' = [client EXCEPT ![c] = new] /\ UNCHANGED <<shm, server, s>>
      BY <1>6, <2>1, <3>1 DEF StartClient
    <3>3. client'[c] = new
      BY <3>2 DEF ShmInv
    <3>4. Complete' = Complete
      BY <3>2 DEF Complete
    <3>5. <<>> \in Seq(Int) /\ Len(<<>>) = 0
      OBVIOUS
    <3>6. Reads(c)'
      BY <1>0, <3>1, <3>3, <3>4, <3>5 DEF Reads
    <3> QED
      BY <1>2, <3>2, <3>6
  <2>2. CASE ~exists
    BY <1>1, <1>6, <2>2 DEF StartClient, ShmInv
  <2> QED
    BY <2>1, <2>2
<1>7. ASSUME NEW c \in Clients, Putchar(c) PROVE ShmInv'
  <2>1. Reads(c)' /\ UNCHANGED <<shm, server, s>>
    BY <1>7, PutcharStep DEF Putchar
  <2>2. PICK new : client' = [client EXCEPT ![c] = new]
    <3>1. CASE shm[client[c].r] # Nul
      BY <1>7, <3>1 DEF Putchar
    <3>2. CASE shm[client[c].r] = Nul
      BY <1>7, <3>2 DEF Putchar
    <3> QED
      BY <3>1, <3>2
  <2> QED
    BY <1>2, <2>1, <2>2
<1>8. ASSUME NEW c \in Clients, Mark(c) PROVE ShmInv'
  <2>1. /\ shm' = [shm EXCEPT ![0] = Star] /\ client' = [client EXCEPT ![c] = Gone]
        /\ UNCHANGED <<server, s>>
    BY <1>8 DEF Mark
  <2>2. LettersInPlace' /\ (Complete => Complete')
    <3>1. 0 \in 0..Letters /\ Star \in Int /\ 0 # Letters
      BY <1>0 DEF Star
    <3> QED
      BY <2>1, <3>1, LetterWritten DEF ShmInv
  <2>3. DOMAIN client' = Clients /\ client'[c] = Gone /\ \A d \in Clients \ {c} : client'[d] = client[d]
    BY <2>1 DEF ShmInv
  <2>4. Reads(c)'
    BY <1>0, <2>3 DEF Reads, Gone
  <2> QED
    BY <2>1, <2>2, <2>3, <2>4, ReadsStay DEF ShmInv
<1>9. ASSUME NEW c \in Clients, KillClient(c) PROVE ShmInv'
  <2>1. client' = [client EXCEPT ![c] = Gone] /\ UNCHANGED <<shm, server, s>>
    BY <1>9 DEF KillClient
  <2>2. client'[c] = Gone
    BY <2>1 DEF ShmInv
  <2>3. Reads(c)'
    BY <1>0, <2>2 DEF Reads, Gone
  <2> QED
    BY <1>2, <2>1, <2>3
<1>10. CASE UNCHANGED shmVars
  BY <1>1, <1>10 DEF shmVars, ShmInv
<1> QED
  BY <1>3, <1>4, <1>5, <1>6, <1>7, <1>8, <1>9, <1>10 DEF ShmNext

LEMMA ShmRight == ShmInv => PrintsAll
<1> SUFFICES ASSUME ShmInv, NEW c \in Clients
             PROVE  /\ client[c].r <= Letters
                    /\ client[c].whole /\ client[c].at = "marking" =>
                         /\ Len(client[c].printed) = Letters
                         /\ \A i \in 2..Letters : client[c].printed[i] = i
  BY DEF PrintsAll
<1> QED
  BY ShmHandshakeAssumption DEF ShmInv, Reads

-----------------------------------------------------------------------------
(* The table of attachments.                                               *)

\* The entries that count are the attachments, each at an address of its own.
TableInv ==
  /\ nap \in 0..MaxNap /\ DOMAIN ap = 0..(MaxNap - 1)
  /\ {ap[i] : i \in 0..(nap - 1)} = attached
  /\ \A i, j \in 0..(nap - 1) : ap[i].shmaddr = ap[j].shmaddr => i = j
  /\ IsFiniteSet(attached) /\ nap = Cardinality(attached)

\* The loop puts the last entry where the dropped one was, and does it once.
LEMMA LastMoves ==
  ASSUME TableInv, NEW addr, NEW k \in 0..(nap - 1), ap[k].shmaddr = addr
  PROVE  Drop(addr) = [ap |-> [ap EXCEPT ![k] = ap[nap - 1]], nap |-> nap - 1]
<1> DEFINE unmoved == [ap |-> ap, nap |-> nap]
           moved == [ap |-> [ap EXCEPT ![k] = ap[nap - 1]], nap |-> nap - 1]
           Turn(d, i) == IF d.ap[i].shmaddr # addr THEN d
                         ELSE [ap |-> [d.ap EXCEPT ![i] = d.ap[d.nap - 1]], nap |-> d.nap - 1]
           Loop(f) == f = [i \in 0..nap |-> IF i = 0 THEN [ap |-> ap, nap |-> nap]
                                            ELSE LET d == f[i - 1]
                                                 IN IF d.ap[i - 1].shmaddr # addr THEN d
                                                    ELSE [ap |-> [d.ap EXCEPT ![i - 1] = d.ap[d.nap - 1]],
                                                          nap |-> d.nap - 1]]
           made == [i \in 0..nap |-> IF i <= k THEN unmoved ELSE moved]
<1>1. nap \in Nat /\ MaxNap \in Nat /\ k \in Nat /\ k < nap /\ nap <= MaxNap
  BY ShmTableAssumption DEF TableInv
<1>2. ASSUME NEW i \in 0..(nap - 1)
      PROVE  Turn(IF i <= k THEN unmoved ELSE moved, i) = IF i + 1 <= k THEN unmoved ELSE moved
  <2>1. i = k \/ ap[i].shmaddr # addr
    BY DEF TableInv
  <2>2. CASE i = k
    <3>1. ~(i + 1 <= k) /\ i <= k
      BY <1>1, <2>2
    <3> QED
      BY <2>2, <3>1
  <2>3. CASE i < k
    <3>1. i + 1 <= k /\ i <= k /\ ap[i].shmaddr # addr
      BY <1>1, <2>1, <2>3
    <3> QED
      BY <3>1
  <2>4. CASE i > k
    <3>1. ~(i + 1 <= k) /\ ~(i <= k) /\ ap[i].shmaddr # addr
      BY <1>1, <2>1, <2>4
    <3>2. moved.ap[i] = ap[i]
      BY <1>1, <2>4 DEF TableInv
    <3> QED
      BY <3>1, <3>2
  <2> QED
    BY <1>1, <2>2, <2>3, <2>4
<1> HIDE DEF unmoved, moved
<1>3. Loop(made)
  <2>1. ASSUME NEW i \in 0..nap, i # 0
        PROVE  made[i] = Turn(made[i - 1], i - 1)
    <3>1. i - 1 \in 0..(nap - 1) /\ i - 1 \in 0..nap /\ (i - 1) + 1 = i
      BY <1>1, <2>1
    <3>2. made[i - 1] = (IF i - 1 <= k THEN unmoved ELSE moved) /\ made[i] = IF i <= k THEN unmoved ELSE moved
      BY <3>1
    <3> HIDE DEF Turn, made
    <3> QED
      BY <1>2, <3>1, <3>2
  <2>2. made[0] = unmoved
    BY <1>1
  <2> HIDE DEF unmoved
  <2>3. made = [i \in 0..nap |-> made[i]]
    OBVIOUS
  <2> HIDE DEF made
  <2> QED
    BY <2>1, <2>2, <2>3 DEF unmoved
<1>4. ASSUME NEW f, Loop(f) PROVE f[nap] = moved
  <2> DEFINE Others == {i \in 0..nap : f[i] # made[i]}
  <2>1. ASSUME Others # {} PROVE FALSE
    <3>1. Others \subseteq Nat
      BY <1>1
    <3>2. PICK n \in Others : \A m \in Others : n <= m
      <4> HIDE DEF Others
      <4> QED
        BY <2>1, <3>1, Least
    <3>3. n \in 0..nap /\ f[n] # made[n]
      BY <3>2
    <3>4. n # 0
      <4>1. f[0] = unmoved /\ made[0] = unmoved
        BY <1>1, <1>4 DEF unmoved
      <4> HIDE DEF made
      <4> QED
        BY <3>3, <4>1
    <3>5. n - 1 \in 0..nap /\ f[n - 1] = made[n - 1]
      <4>1. n - 1 \in 0..nap /\ ~(n <= n - 1)
        BY <1>1, <3>3, <3>4
      <4> HIDE DEF made
      <4>2. n - 1 \notin Others
        <5> HIDE DEF Others
        <5> QED
          BY <3>2, <4>1
      <4> QED
        BY <4>1, <4>2
    <3>6. f[n] = Turn(f[n - 1], n - 1)
      BY <1>4, <3>3, <3>4
    <3>7. made[n] = Turn(made[n - 1], n - 1)
      BY <1>3, <3>3, <3>4
    <3> HIDE DEF Turn, made
    <3> QED
      BY <3>3, <3>5, <3>6, <3>7
  <2>2. f[nap] = made[nap]
    <3>1. nap \in 0..nap
      BY <1>1
    <3> HIDE DEF made
    <3> QED
      BY <2>1, <3>1
  <2> QED
    BY <1>1, <2>2
<1>5. (CHOOSE f : Loop(f))[nap] = moved
  <2> HIDE DEF Loop, made
  <2> QED
    BY <1>3, <1>4, Zenon
<1> QED
  BY <1>5, Zenon DEF Drop, moved

LEMMA TableStart == ShmTableInit => TableInv
<1> SUFFICES ASSUME ShmTableInit PROVE TableInv
  OBVIOUS
<1>1. {ap[i] : i \in 0..(nap - 1)} = {}
  BY DEF ShmTableInit
<1>2. nap \in 0..MaxNap /\ DOMAIN ap = 0..(MaxNap - 1)
  BY ShmTableAssumption DEF ShmTableInit
<1>3. IsFiniteSet(attached) /\ nap = Cardinality(attached)
  BY FS_EmptySet DEF ShmTableInit
<1> QED
  BY <1>1, <1>2, <1>3 DEF ShmTableInit, TableInv

LEMMA AttachKeeps ==
  ASSUME TableInv, Shmat
  PROVE  TableInv'
<1>1. nap \in Nat /\ MaxNap \in Nat /\ nap < MaxNap
  BY ShmTableAssumption DEF TableInv, Shmat
<1>2. ASSUME NEW id, NEW addr, NEW ro, addr \notin {e.shmaddr : e \in attached},
             attached' = attached \cup {Entry(id, addr, ro)},
             ap' = [ap EXCEPT ![nap] = Entry(id, addr, ro)], nap' = nap + 1
      PROVE  TableInv'
  <2>1. PICK e : e = Entry(id, addr, ro)
    OBVIOUS
  <2>2. e \notin attached /\ e.shmaddr = addr
    BY <1>2, <2>1 DEF Entry
  <2>3. /\ DOMAIN ap' = 0..(MaxNap - 1) /\ ap'[nap] = e
        /\ \A i \in 0..(nap - 1) : ap'[i] = ap[i]
    BY <1>1, <1>2, <2>1 DEF TableInv
  <2>4. 0..(nap' - 1) = 0..(nap - 1) \cup {nap}
    BY <1>1, <1>2
  <2>5. \A i \in 0..(nap - 1) : ap[i] \in attached
    BY DEF TableInv
  <2>6. {ap'[i] : i \in 0..(nap' - 1)} = attached'
    <3>1. {ap'[i] : i \in 0..(nap' - 1)} = {ap'[i] : i \in 0..(nap - 1)} \cup {e}
      BY <2>3, <2>4
    <3>2. {ap'[i] : i \in 0..(nap - 1)} = {ap[i] : i \in 0..(nap - 1)}
      BY <2>3
    <3> QED
      BY <1>2, <2>1, <3>1, <3>2 DEF TableInv
  <2>7. \A i, j \in 0..(nap' - 1) : ap'[i].shmaddr = ap'[j].shmaddr => i = j
    <3>1. \A i \in 0..(nap - 1) : ap[i].shmaddr # addr
      BY <1>2, <2>5
    <3> QED
      BY <2>2, <2>3, <2>4, <3>1 DEF TableInv
  <2>8. IsFiniteSet(attached') /\ Cardinality(attached') = Cardinality(attached) + 1
    BY <1>2, <2>1, <2>2, FS_AddElement DEF TableInv
  <2> QED
    BY <1>1, <1>2, <2>3, <2>6, <2>7, <2>8 DEF TableInv
<1>3. ASSUME NEW id, NEW ro, ap' = [ap EXCEPT ![nap] = Entry(id, NoAddress, ro)], UNCHANGED <<nap, attached>>
      PROVE  TableInv'
  <2>1. DOMAIN ap' = 0..(MaxNap - 1) /\ \A i \in 0..(nap - 1) : ap'[i] = ap[i]
    BY <1>1, <1>3 DEF TableInv
  <2>2. {ap'[i] : i \in 0..(nap - 1)} = {ap[i] : i \in 0..(nap - 1)}
    BY <2>1
  <2> QED
    BY <1>3, <2>1, <2>2 DEF TableInv
<1> QED
  BY <1>2, <1>3 DEF Shmat

LEMMA DetachKeeps ==
  ASSUME TableInv, Shmdt
  PROVE  TableInv'
<1>1. nap \in Nat /\ MaxNap \in Nat /\ nap <= MaxNap
  BY ShmTableAssumption DEF TableInv
<1>2. ASSUME NEW addr, \E e \in attached : e.shmaddr = addr,
             attached' = {e \in attached : e.shmaddr # addr},
             ap' = Drop(addr).ap, nap' = Drop(addr).nap
      PROVE  TableInv'
  <2>1. PICK k \in 0..(nap - 1) : ap[k].shmaddr = addr
    BY <1>2 DEF TableInv
  <2>2. ap' = [ap EXCEPT ![k] = ap[nap - 1]] /\ nap' = nap - 1
    BY <1>2, <2>1, LastMoves
  <2>3. k \in Nat /\ k < nap /\ nap - 1 \in 0..(nap - 1)
    BY <1>1
  <2>4. \A i \in 0..(nap - 1) : i # k => ap[i].shmaddr # addr
    BY <2>1 DEF TableInv
  <2>5. attached' = attached \ {ap[k]}
    BY <1>2, <2>1, <2>4 DEF TableInv
  <2>6. DOMAIN ap' = 0..(MaxNap - 1) /\ \A i \in 0..(nap - 1) : ap'[i] = IF i = k THEN ap[nap - 1] ELSE ap[i]
    BY <1>1, <2>2, <2>3 DEF TableInv
  <2>7. \A i \in 0..(nap' - 1) : i \in 0..(nap - 1) /\ i # nap - 1
    BY <1>1, <2>2
  <2>8. \A i \in 0..(nap - 1) : i # nap - 1 => i \in 0..(nap' - 1)
    BY <1>1, <2>2
  <2>9. {ap'[i] : i \in 0..(nap' - 1)} = attached'
    <3>1. ASSUME NEW i \in 0..(nap' - 1) PROVE ap'[i] \in attached'
      <4>1. PICK j \in 0..(nap - 1) : j # k /\ ap'[i] = ap[j]
        BY <2>3, <2>6, <2>7
      <4>2. ap[j] # ap[k] /\ ap[j] \in attached
        BY <2>1, <2>4, <4>1 DEF TableInv
      <4> QED
        BY <2>5, <4>1, <4>2
    <3>2. ASSUME NEW e \in attached' PROVE \E i \in 0..(nap' - 1) : ap'[i] = e
      <4>1. PICK j \in 0..(nap - 1) : j # k /\ e = ap[j]
        BY <2>5, <3>2 DEF TableInv
      <4>2. CASE j = nap - 1
        BY <2>3, <2>6, <2>8, <4>1, <4>2
      <4>3. CASE j # nap - 1
        BY <2>6, <2>8, <4>1, <4>3
      <4> QED
        BY <4>2, <4>3
    <3> QED
      BY <3>1, <3>2
  <2>10. ASSUME NEW i \in 0..(nap' - 1), NEW j \in 0..(nap' - 1), ap'[i].shmaddr = ap'[j].shmaddr
         PROVE  i = j
    <3>1. \A m, n \in 0..(nap - 1) : ap[m].shmaddr = ap[n].shmaddr => m = n
      BY DEF TableInv
    <3> QED
      BY <2>3, <2>6, <2>7, <2>10, <3>1
  <2>11. IsFiniteSet(attached') /\ Cardinality(attached') = Cardinality(attached) - 1
    <3>1. ap[k] \in attached
      BY DEF TableInv
    <3> QED
      BY <2>5, <3>1, FS_RemoveElement DEF TableInv
  <2>12. nap' = Cardinality(attached') /\ nap' \in 0..MaxNap
    BY <1>1, <2>2, <2>3, <2>11 DEF TableInv
  <2> QED
    BY <2>6, <2>9, <2>10, <2>11, <2>12 DEF TableInv
<1>3. CASE UNCHANGED <<attached, ap, nap>>
  BY <1>3 DEF TableInv
<1> QED
  BY <1>2, <1>3 DEF Shmdt

LEMMA TableStep == TableInv /\ [ShmTableNext]_shmTableVars => TableInv'
<1> SUFFICES ASSUME TableInv, [ShmTableNext]_shmTableVars PROVE TableInv'
  OBVIOUS
<1>1. CASE UNCHANGED <<ap, nap, attached>>
  BY <1>1 DEF TableInv
<1>2. CASE BeginWrite \/ Gets \/ Shmctl \/ UNCHANGED shmTableVars
  BY <1>1, <1>2 DEF BeginWrite, Gets, Shmctl, shmTableVars
<1> QED
  BY <1>2, AttachKeeps, DetachKeeps DEF ShmTableNext

LEMMA TableRight == TableInv => AttachTableTrue
  BY DEF TableInv, AttachTableTrue

-----------------------------------------------------------------------------
(* The transfers.                                                          *)

Taken == buffer = [i \in 1..Len(op.data) |-> kept[i - 1]]
Outside == \A a \in Target \ lost : a >= Len(op.data) \/ op.kind = "read" => bytes[a] = kept[a]

\* A write is within the bytes asked for: the address falls behind the buffer,
\* never before it.  The word that is merged has the bytes that are kept, but for those
\* that another thread has written since.
WriteInv ==
  /\ at \in Nat /\ buffer \in Seq(Contents) /\ at + Len(buffer) <= Len(op.data)
  /\ step \in {"tail", "poke"} => Len(buffer) \in 1..(WordSize - 1)
  /\ step = "poke" => \A i \in 1..WordSize :
       /\ i <= Len(buffer) => word[i] = buffer[i]
       /\ i > Len(buffer) /\ at + i - 1 >= Len(op.data) /\ at + i - 1 \in Target \ lost =>
            word[i] = kept[at + i - 1]
  /\ Len(op.data) <= WordSize =>
       /\ step = "words" => (at = 0 /\ buffer = op.data) \/ (buffer = <<>> /\ Placed)
       /\ step \in {"tail", "poke"} => at = 0 /\ buffer = op.data
       /\ op.kind = "write" /\ step = "done" /\ result = 0 => Placed
       /\ step = "ready" /\ ~refused => Placed

ReadInv ==
  /\ step \in {"words", "done"} /\ lost = {}
  /\ Len(op.data) <= WordSize =>
       /\ step = "words" => (at = 0 /\ buffer = <<>>) \/ Taken
       /\ step = "done" /\ result = 0 => Taken

\* The traced thread runs only while its stop is waited for.
RemoteCallInv ==
  /\ step \in {"words", "tail", "poke", "ready", "waiting", "second", "done"}
  /\ step \in {"ready", "waiting", "second"} => op.kind = "call"
  /\ step \in {"words", "tail", "poke", "ready"} => thread = "stopped"
  /\ step = "done" => thread # "running" /\ (result = -1 => thread # "returned")

TransferInv ==
  /\ op.kind \in {"write", "read", "call"} /\ op.data \in Seq(Contents) /\ Len(op.data) \in Nat
  /\ op.kind = "read" => op.data # <<>>
  /\ bytes = [a \in Target |-> bytes[a]] /\ kept = [a \in Target |-> kept[a]]
  /\ Outside
  /\ op.kind # "read" => WriteInv
  /\ op.kind = "read" => ReadInv
  /\ RemoteCallInv

LEMMA TransferStart == Inject3Init => TransferInv
<1> SUFFICES ASSUME Inject3Init PROVE TransferInv
  OBVIOUS
<1>1. /\ op.kind \in {"write", "read", "call"} /\ op.data \in Seq(Contents) /\ Len(op.data) \in Nat
      /\ op.kind = "read" => op.data # <<>>
  <2>1. CASE op \in [kind : {"write", "read"}, data : Transfers]
    <3>1. PICK n \in 1..(3 * WordSize) : op.data \in [1..n -> Contents]
      BY <2>1 DEF Transfers
    <3>2. n \in Nat /\ n # 0
      BY Inject3Assumption
    <3>3. op.data \in Seq(Contents) /\ Len(op.data) = n /\ op.data # <<>>
      BY <3>1, <3>2
    <3> QED
      BY <2>1, <3>2, <3>3
  <2>2. CASE op \in [kind : {"call"}, data : Stacked]
    <3>1. PICK k \in 0..3 : op.data \in [1..k * WordSize -> Contents]
      BY <2>2 DEF Stacked
    <3>2. k * WordSize \in Nat
      BY Inject3Assumption
    <3>3. op.data \in Seq(Contents) /\ Len(op.data) \in Nat
      BY <3>1, <3>2
    <3> QED
      BY <2>2, <3>3
  <2> QED
    BY <2>1, <2>2 DEF Inject3Init
<1>2. /\ step = "words" /\ at = 0 /\ result = -1 /\ lost = {} /\ thread = "stopped"
      /\ bytes \in [Target -> Contents] /\ kept = bytes
  BY DEF Inject3Init
<1>3. op.kind = "read" => ReadInv
  BY <1>2 DEF Inject3Init, ReadInv
<1>4. op.kind # "read" => WriteInv
  BY <1>1, <1>2 DEF Inject3Init, WriteInv
<1>5. RemoteCallInv
  BY <1>2 DEF RemoteCallInv
<1>6. Outside
  BY <1>2 DEF Outside
<1> QED
  BY <1>1, <1>2, <1>3, <1>4, <1>5, <1>6 DEF TransferInv

\* What one word, written at `at`, changes.
LEMMA PokeChanges ==
  ASSUME NEW a \in Nat, NEW w, PokeWord(a, w)
  PROVE  /\ \A b \in Target : ~(b >= a /\ b < a + WordSize) => bytes'[b] = bytes[b]
         /\ \A b \in Target : b >= a /\ b < a + WordSize => bytes'[b] = w[b - a + 1]
<1>1. WordSize \in Nat /\ Target \subseteq Nat
  BY Inject3Assumption
<1>2. \A b \in Target : b \in a..(a + WordSize - 1) <=> b >= a /\ b < a + WordSize
  BY <1>1
<1> QED
  BY <1>2 DEF PokeWord

\* The bytes from 0 on are in the target.
LEMMA FirstBytes ==
  ASSUME NEW n \in Nat, n <= WordSize
  PROVE  \A i \in 1..n : i - 1 \in Target /\ i - 1 \in Nat /\ i - 1 < n
<1>1. \A i \in 1..n : i - 1 \in 0..(3 * WordSize - 1)
  BY Inject3Assumption
<1> QED
  BY <1>1, Inject3Assumption

\* A transfer that ends with r.
LEMMA Ending ==
  ASSUME TransferInv, op.kind # "read", NEW r \in {0, -1}, Ended(r), UNCHANGED <<op, at, buffer>>,
         r = -1 => refused' = TRUE, r = 0 /\ Len(op.data) <= WordSize => Placed'
  PROVE  WriteInv'
<1>1. WriteInv
  BY DEF TransferInv
<1>2. CASE op.kind = "call"
  <2>1. step' = "ready"
    BY <1>2 DEF Ended
  <2> QED
    BY <1>1, <1>2, <2>1 DEF WriteInv
<1>3. CASE op.kind # "call"
  <2>1. step' = "done" /\ result' = r
    BY <1>3 DEF Ended, Finish
  <2> QED
    BY <1>1, <2>1 DEF WriteInv
<1> QED
  BY <1>2, <1>3

LEMMA WriteStep ==
  ASSUME TransferInv, op.kind # "read", WriteLoop \/ WriteTail \/ PokeLast
  PROVE  WriteInv' /\ Outside'
<1> DEFINE n == Len(op.data)
<1>1. WordSize \in Nat /\ WordSize # 0 /\ Target \subseteq Nat
  BY Inject3Assumption
<1>2. n \in Nat /\ op.data \in Seq(Contents) /\ op' = op /\ kept' = kept /\ lost' = lost
  BY DEF TransferInv, WriteLoop, WriteTail, PokeLast
<1>3. WriteInv /\ Outside /\ Len(buffer) \in Nat
  BY LenProperties DEF TransferInv, WriteInv
<1>k. bytes' = bytes => Outside'
  BY <1>2, <1>3 DEF Outside
<1>o. (\A a \in Target \ lost : a >= n => bytes'[a] = kept[a]) => Outside'
  BY <1>2 DEF Outside
<1>r. ASSUME Refuse, UNCHANGED <<bytes, buffer, at>> PROVE WriteInv' /\ Outside'
  <2>1. Ended(-1) /\ refused' = TRUE
    BY <1>r DEF Refuse
  <2> QED
    BY <1>2, <1>k, <1>r, <2>1, Ending
<1> HIDE DEF n
<1>4. CASE WriteLoop /\ Len(buffer) >= WordSize /\ ~(Refuse /\ UNCHANGED <<bytes, buffer, at>>)
  <2>1. PICK L : L = Len(buffer)
    OBVIOUS
  <2>2. /\ SubSeq(buffer, WordSize + 1, L) \in Seq(Contents)
        /\ Len(SubSeq(buffer, WordSize + 1, L)) = L - WordSize
    <3>1. \A i \in (WordSize + 1)..L : buffer[i] \in Contents
      BY <1>1, <1>3, <2>1, ElementOfSeq DEF WriteInv
    <3>2. /\ SubSeq(buffer, WordSize + 1, L) \in Seq(Contents)
          /\ Len(SubSeq(buffer, WordSize + 1, L)) =
               IF WordSize + 1 <= L THEN L - (WordSize + 1) + 1 ELSE 0
      BY <1>1, <1>3, <2>1, <3>1, SubSeqProperties
    <3> QED
      BY <1>1, <1>3, <1>4, <2>1, <3>2
  <2>3. /\ PokeWord(at, buffer) /\ buffer' = SubSeq(buffer, WordSize + 1, L) /\ at' = at + 1
        /\ step = "words" /\ step' = "words" /\ at \in Nat /\ L \in Nat /\ at + L <= n /\ L >= WordSize
    BY <1>3, <1>4, <2>1 DEF WriteLoop, WriteInv, n
  <2>4. at' \in Nat /\ at' + Len(buffer') <= n
    BY <1>1, <1>2, <2>2, <2>3
  <2>5. \A a \in Target \ lost : a >= n => bytes'[a] = kept[a]
    <3> SUFFICES ASSUME NEW a \in Target \ lost, a >= n PROVE bytes'[a] = kept[a]
      OBVIOUS
    <3>1. ~(a < at + WordSize)
      BY <1>1, <1>2, <2>3
    <3>2. bytes'[a] = bytes[a]
      BY <2>3, <3>1, PokeChanges
    <3> QED
      BY <1>3, <3>2 DEF Outside, n
  <2>6. n <= WordSize => buffer' = <<>> /\ Placed'
    <3> SUFFICES ASSUME n <= WordSize PROVE buffer' = <<>> /\ Placed'
      OBVIOUS
    <3>1. at = 0 /\ L = WordSize /\ n = L
      BY <1>1, <1>2, <2>3
    <3>2. buffer = op.data
      <4>1. buffer # <<>>
        BY <1>1, <2>1, <3>1
      <4> QED
        BY <1>3, <2>3, <4>1 DEF WriteInv, n
    <3>3. Len(buffer') = 0 /\ buffer' \in Seq(Contents)
      BY <1>1, <2>2, <2>3, <3>1
    <3>4. \A i \in 1..n : bytes'[i - 1] = op.data[i]
      <4> SUFFICES ASSUME NEW i \in 1..n PROVE bytes'[i - 1] = op.data[i]
        OBVIOUS
      <4>1. i - 1 \in Target /\ i - 1 >= at /\ i - 1 < at + WordSize /\ (i - 1) - at + 1 = i
        BY <1>1, <1>2, <3>1, FirstBytes
      <4>2. bytes'[i - 1] = buffer[(i - 1) - at + 1]
        BY <2>3, <4>1, PokeChanges
      <4> QED
        BY <3>2, <4>1, <4>2
    <3> QED
      BY <1>2, <3>3, <3>4, EmptySeq DEF Placed, n
  <2> QED
    BY <1>2, <1>o, <2>2, <2>3, <2>4, <2>5, <2>6 DEF WriteInv, n
<1>5. CASE WriteLoop /\ ~(Len(buffer) >= WordSize)
  <2>1. CASE buffer = <<>>
    <3>1. UNCHANGED <<bytes, buffer, at>> /\ step = "words" /\ Ended(0)
      BY <1>5, <2>1 DEF WriteLoop
    <3>2. n <= WordSize => Placed
      <4>1. op.data = <<>> => Placed
        BY EmptySeq DEF Placed
      <4> QED
        BY <1>3, <2>1, <3>1, <4>1 DEF WriteInv, n
    <3>3. n <= WordSize => Placed'
      BY <1>2, <3>1, <3>2 DEF Placed
    <3> QED
      BY <1>2, <1>k, <3>1, <3>3, Ending DEF n
  <2>2. CASE buffer # <<>>
    <3>1. UNCHANGED <<bytes, buffer, at>> /\ step = "words" /\ step' = "tail"
      BY <1>5, <2>2 DEF WriteLoop
    <3>2. Len(buffer) \in 1..(WordSize - 1)
      BY <1>1, <1>3, <1>5, <2>2, EmptySeq DEF WriteInv
    <3> QED
      BY <1>2, <1>3, <1>k, <2>2, <3>1, <3>2 DEF WriteInv, n
  <2> QED
    BY <2>1, <2>2
<1>7. CASE WriteTail /\ ~(Refuse /\ UNCHANGED <<bytes, buffer, at>>)
  <2>1. UNCHANGED <<bytes, buffer, at>> /\ step = "tail" /\ step' = "poke"
    BY <1>7 DEF WriteTail
  <2>2. word' = [i \in 1..WordSize |-> IF i <= Len(buffer) THEN buffer[i] ELSE WordThere(at)[i]]
    BY <1>7, <2>1 DEF WriteTail, Merged
  <2>3. \A i \in 1..WordSize : word'[i] = IF i <= Len(buffer) THEN buffer[i] ELSE bytes[at + i - 1]
    BY <2>2 DEF WordThere
  <2>4. ASSUME NEW i \in 1..WordSize
        PROVE  /\ i <= Len(buffer) => word'[i] = buffer[i]
               /\ i > Len(buffer) /\ at + i - 1 >= n /\ at + i - 1 \in Target \ lost =>
                    word'[i] = kept[at + i - 1]
    <3>1. i \in Nat /\ (i > Len(buffer) => ~(i <= Len(buffer)))
      BY <1>1, <1>3
    <3>2. at + i - 1 >= n /\ at + i - 1 \in Target \ lost => bytes[at + i - 1] = kept[at + i - 1]
      BY <1>3 DEF Outside, n
    <3> QED
      BY <2>3, <3>1, <3>2
  <2> QED
    BY <1>2, <1>3, <1>k, <2>1, <2>4 DEF WriteInv, n
<1>8. CASE PokeLast /\ ~(Refuse /\ UNCHANGED <<bytes, buffer, at>>)
  <2>1. /\ PokeWord(at, word) /\ UNCHANGED <<buffer, at>> /\ step = "poke" /\ Ended(0)
        /\ at \in Nat /\ at + Len(buffer) <= n
    BY <1>3, <1>8 DEF PokeLast, WriteInv, n
  <2>2. PICK L \in Nat : L = Len(buffer) /\ L >= 1 /\ L < WordSize
    BY <1>1, <1>3, <2>1 DEF WriteInv
  <2>3. \A a \in Target \ lost : a >= n => bytes'[a] = kept[a]
    <3> SUFFICES ASSUME NEW a \in Target \ lost, a >= n PROVE bytes'[a] = kept[a]
      OBVIOUS
    <3>1. CASE a < at + WordSize
      <4>1. PICK i : i = a - at + 1
        OBVIOUS
      <4>2. a \in Nat /\ a >= at /\ i \in 1..WordSize /\ i > L /\ at + i - 1 = a
        BY <1>1, <1>2, <2>1, <2>2, <3>1, <4>1
      <4>3. word[i] = kept[at + i - 1]
        BY <1>3, <2>1, <2>2, <4>2 DEF WriteInv, n
      <4>4. bytes'[a] = word[i]
        BY <2>1, <3>1, <4>1, <4>2, PokeChanges
      <4> QED
        BY <4>2, <4>3, <4>4
    <3>2. CASE ~(a < at + WordSize)
      <4>1. bytes'[a] = bytes[a]
        BY <2>1, <3>2, PokeChanges
      <4> QED
        BY <1>3, <4>1 DEF Outside, n
    <3> QED
      BY <3>1, <3>2
  <2>4. n <= WordSize => Placed'
    <3> SUFFICES ASSUME n <= WordSize PROVE Placed'
      OBVIOUS
    <3>1. at = 0 /\ buffer = op.data
      BY <1>3, <2>1 DEF WriteInv, n
    <3>2. \A i \in 1..n : bytes'[i - 1] = op.data[i]
      <4> SUFFICES ASSUME NEW i \in 1..n PROVE bytes'[i - 1] = op.data[i]
        OBVIOUS
      <4>1. i - 1 \in Target /\ i - 1 >= at /\ i - 1 < at + WordSize /\ (i - 1) - at + 1 = i
        BY <1>1, <1>2, <3>1, FirstBytes
      <4>2. bytes'[i - 1] = word[i]
        BY <2>1, <4>1, PokeChanges
      <4>3. i \in 1..WordSize /\ i <= Len(buffer)
        BY <1>1, <1>2, <3>1 DEF n
      <4>4. word[i] = buffer[i]
        BY <1>3, <2>1, <4>3 DEF WriteInv
      <4> QED
        BY <3>1, <4>2, <4>4
    <3> QED
      BY <1>2, <3>2 DEF Placed, n
  <2>5. WriteInv'
    BY <1>2, <2>1, <2>4, Ending DEF n
  <2> QED
    BY <1>o, <2>3, <2>5
<1> QED
  BY <1>4, <1>5, <1>7, <1>8, <1>r

\* Reading at most a word's worth of a word from the beginning of the target.
LEMMA FirstWord ==
  ASSUME NEW n \in Nat, n <= WordSize, \A a \in Target : bytes[a] = kept[a]
  PROVE  <<>> \o SubSeq(WordThere(0), 1, n) = [i \in 1..n |-> kept[i - 1]]
<1>1. WordSize \in Nat
  BY Inject3Assumption
<1> DEFINE S == {bytes[i - 1] : i \in 1..WordSize}
           x == SubSeq(WordThere(0), 1, n)
<1>2. \A i \in 1..WordSize : WordThere(0)[i] = bytes[i - 1] /\ WordThere(0)[i] \in S
  BY DEF WordThere
<1>3. \A i \in 1..n : i \in 1..WordSize
  BY <1>1
<1> HIDE DEF S
<1>4. /\ x \in Seq(S) /\ Len(x) = IF 1 <= n THEN n - 1 + 1 ELSE 0
      /\ \A i \in 1..n - 1 + 1 : x[i] = WordThere(0)[1 + i - 1]
  BY <1>2, <1>3, SubSeqProperties
<1> HIDE DEF x
<1>5. Len(x) = n /\ \A i \in 1..n : x[i] = kept[i - 1]
  BY <1>2, <1>3, <1>4, FirstBytes
<1>6. x = [i \in 1..n |-> kept[i - 1]]
  <2>1. x \in [1..n -> S]
    BY <1>4, <1>5, LenProperties
  <2> QED
    BY <1>5, <2>1
<1> QED
  BY <1>4, <1>6, ConcatEmptySeq DEF x

LEMMA ReadStep ==
  ASSUME TransferInv, op.kind = "read", ReadData
  PROVE  ReadInv'
<1> DEFINE n == Len(op.data)
           left == n - Len(buffer)
           m == IF left < WordSize THEN left ELSE WordSize
<1>1. /\ WordSize \in Nat /\ WordSize # 0 /\ n \in Nat /\ n # 0 /\ ReadInv
      /\ op' = op /\ kept' = kept /\ lost' = {} /\ step = "words"
      /\ \A a \in Target : bytes[a] = kept[a]
  BY Inject3Assumption, EmptySeq DEF TransferInv, ReadInv, ReadData, Outside
<1>2. step' \in {"words", "done"}
  BY <1>1 DEF ReadData, Refuse, Ended, Finish
<1>3. CASE Refuse
  <2>1. step' = "done" /\ result' = -1
    BY <1>3 DEF Refuse, Ended, Finish
  <2> QED
    BY <1>1, <2>1 DEF ReadInv
<1>4. CASE ~(n <= WordSize)
  BY <1>1, <1>2, <1>4 DEF ReadInv, n
<1>5. CASE n <= WordSize /\ at = 0 /\ buffer = <<>> /\ ~Refuse
  <2>1. m = n /\ n > 0
    BY <1>1, <1>5
  <2>2. buffer' = buffer \o SubSeq(WordThere(at), 1, m) /\ step' = step
    <3> HIDE DEF n
    <3> QED
      BY <1>1, <1>5, <2>1 DEF ReadData, n
  <2>3. buffer' = [i \in 1..n |-> kept[i - 1]]
    <3> HIDE DEF n, m
    <3> QED
      BY <1>1, <1>5, <2>1, <2>2, FirstWord
  <2> QED
    BY <1>1, <2>2, <2>3 DEF ReadInv, Taken
<1>6. CASE n <= WordSize /\ Taken /\ ~Refuse
  <2>1. Len(buffer) = n
    BY <1>1, <1>6 DEF Taken
  <2>2. m = 0
    BY <1>1, <2>1
  <2>3. step' = "done" /\ buffer' = buffer
    BY <1>6, <2>2 DEF ReadData, Finish
  <2> QED
    BY <1>1, <1>6, <2>3 DEF ReadInv, Taken
<1> QED
  BY <1>1, <1>3, <1>4, <1>5, <1>6 DEF ReadInv

\* The steps of a call, and its stops, leave the transfers alone.
LEMMA RemoteCallStep ==
  ASSUME TransferInv, CallFunc \/ CallWait \/ LastWait \/ Stop
  PROVE  op.kind = "call" /\ WriteInv' /\ RemoteCallInv'
<1>1. /\ UNCHANGED <<op, at, buffer, bytes, kept, lost>>
      /\ step \in {"ready", "waiting", "second"} /\ step' \in {"waiting", "second", "done"}
  <2>1. CASE CallFunc \/ CallWait \/ LastWait
    BY <2>1 DEF CallFunc, CallWait, LastWait, Finish
  <2>2. CASE Stop
    <3>1. step \in {"waiting", "second"}
      BY <2>2 DEF Stop, TransferInv, RemoteCallInv
    <3> QED
      BY <2>2, <3>1 DEF Stop
  <2> QED
    BY <2>1, <2>2
<1>2. op.kind = "call" /\ WriteInv
  BY <1>1 DEF TransferInv, RemoteCallInv
<1>3. WriteInv'
  BY <1>1, <1>2 DEF WriteInv
<1>4. RemoteCallInv'
  BY <1>1, <1>2 DEF CallFunc, CallWait, LastWait, Stop, Finish, RemoteCallInv, TransferInv
<1> QED
  BY <1>2, <1>3, <1>4

\* Another thread writes a byte that is none of the injector's.
LEMMA OtherStep ==
  ASSUME TransferInv, OtherThread3
  PROVE  TransferInv'
<1> DEFINE n == Len(op.data)
<1>1. /\ WordSize \in Nat /\ Target \subseteq Nat /\ n \in Nat
      /\ UNCHANGED <<op, step, at, buffer, word, result, thread, refused>>
  BY Inject3Assumption DEF TransferInv, OtherThread3
<1>2. PICK a \in Target, c \in Contents :
        /\ a >= n /\ bytes' = [bytes EXCEPT ![a] = c] /\ kept' = [kept EXCEPT ![a] = c]
        /\ lost' = lost \cup (IF step = "poke" THEN {a} \cap (at .. (at + WordSize - 1)) ELSE {})
  BY DEF OtherThread3
<1>3. /\ bytes' = [b \in Target |-> IF b = a THEN c ELSE bytes[b]]
      /\ kept' = [b \in Target |-> IF b = a THEN c ELSE kept[b]]
  BY <1>2 DEF TransferInv
<1>4. Outside'
  <2>1. lost \subseteq lost'
    BY <1>2
  <2> QED
    BY <1>1, <1>3, <2>1 DEF TransferInv, Outside
<1>5. \A i \in 1..n : i - 1 \in Target => bytes'[i - 1] = bytes[i - 1] /\ kept'[i - 1] = kept[i - 1]
  BY <1>1, <1>2, <1>3
<1>6. n <= WordSize => /\ \A i \in 1..n : bytes'[i - 1] = bytes[i - 1] /\ kept'[i - 1] = kept[i - 1]
                       /\ Placed' = Placed /\ Taken' = Taken
  <2> SUFFICES ASSUME n <= WordSize
               PROVE  /\ \A i \in 1..n : bytes'[i - 1] = bytes[i - 1] /\ kept'[i - 1] = kept[i - 1]
                      /\ Placed' = Placed /\ Taken' = Taken
    OBVIOUS
  <2>1. \A i \in 1..n : i - 1 \in Target
    BY <1>1, FirstBytes
  <2>2. \A i \in 1..n : bytes'[i - 1] = bytes[i - 1] /\ kept'[i - 1] = kept[i - 1]
    BY <1>5, <2>1
  <2>3. Placed' = Placed
    BY <1>1, <2>2 DEF Placed
  <2>4. [i \in 1..n |-> kept'[i - 1]] = [i \in 1..n |-> kept[i - 1]]
    BY <2>2
  <2>5. Taken' = Taken
    BY <1>1, <2>4 DEF Taken
  <2> QED
    BY <2>2, <2>3, <2>5
<1>7. op.kind # "read" => WriteInv'
  <2> SUFFICES ASSUME op.kind # "read" PROVE WriteInv'
    OBVIOUS
  <2>1. WriteInv
    BY DEF TransferInv
  <2>2. ASSUME step = "poke", NEW i \in 1..WordSize
        PROVE  /\ i <= Len(buffer) => word[i] = buffer[i]
               /\ i > Len(buffer) /\ at + i - 1 >= n /\ at + i - 1 \in Target \ lost' =>
                    word[i] = kept'[at + i - 1]
    <3>1. at \in Nat /\ i \in Nat /\ at + i - 1 \in at .. (at + WordSize - 1)
      BY <1>1, <2>1 DEF WriteInv
    <3>2. at + i - 1 \in Target \ lost' => at + i - 1 \in Target \ lost /\ at + i - 1 # a
      BY <1>2, <2>2, <3>1
    <3>3. at + i - 1 \in Target \ lost' => kept'[at + i - 1] = kept[at + i - 1]
      BY <1>3, <3>2
    <3> QED
      BY <2>1, <2>2, <3>2, <3>3 DEF WriteInv, n
  <2> HIDE DEF n
  <2> QED
    BY <1>1, <1>6, <2>1, <2>2 DEF WriteInv, n
<1>8. op.kind = "read" => ReadInv'
  <2> SUFFICES ASSUME op.kind = "read" PROVE ReadInv'
    OBVIOUS
  <2>1. ReadInv
    BY DEF TransferInv
  <2>2. lost' = {}
    BY <1>2, <2>1 DEF ReadInv
  <2> HIDE DEF n
  <2> QED
    BY <1>1, <1>6, <2>1, <2>2 DEF ReadInv, n
<1>9. RemoteCallInv'
  BY <1>1 DEF TransferInv, RemoteCallInv
<1>10. bytes' = [b \in Target |-> bytes'[b]] /\ kept' = [b \in Target |-> kept'[b]]
  BY <1>3
<1> QED
  BY <1>1, <1>4, <1>7, <1>8, <1>9, <1>10 DEF TransferInv

LEMMA TransferStep == TransferInv /\ [Inject3Next]_inject3Vars => TransferInv'
<1> SUFFICES ASSUME TransferInv, [Inject3Next]_inject3Vars PROVE TransferInv'
  OBVIOUS
<1>1. CASE OtherThread3
  BY <1>1, OtherStep
<1>2. CASE UNCHANGED inject3Vars
  BY <1>2 DEF inject3Vars, TransferInv, Outside, WriteInv, ReadInv, RemoteCallInv, Placed, Taken
<1>3. ASSUME WriteLoop \/ WriteTail \/ PokeLast PROVE TransferInv'
  <2>1. op.kind # "read"
    BY <1>3 DEF WriteLoop, WriteTail, PokeLast, TransferInv, ReadInv
  <2>2. WriteInv' /\ Outside'
    BY <1>3, <2>1, WriteStep
  <2>3. /\ UNCHANGED <<op, kept, thread>>
        /\ bytes' = bytes \/ (\E w : PokeWord(at, w))
        /\ step \in {"words", "tail", "poke"} /\ step' \in {"words", "tail", "poke", "ready", "done"}
        /\ step' = "ready" => op.kind = "call"
    BY <1>3 DEF WriteLoop, WriteTail, PokeLast, Refuse, Ended, Finish
  <2>4. bytes' = [b \in Target |-> bytes'[b]]
    BY <2>3 DEF PokeWord, TransferInv
  <2>5. RemoteCallInv'
    BY <2>3 DEF TransferInv, RemoteCallInv
  <2> QED
    BY <2>1, <2>2, <2>3, <2>4, <2>5 DEF TransferInv
<1>4. ASSUME ReadData PROVE TransferInv'
  <2>1. op.kind = "read" /\ ReadInv'
    BY <1>4, ReadStep DEF ReadData
  <2>2. /\ UNCHANGED <<op, bytes, kept, lost, thread>>
        /\ step = "words" /\ step' \in {"words", "done"}
    BY <1>4, <2>1 DEF ReadData, Refuse, Ended, Finish
  <2>3. RemoteCallInv' /\ Outside'
    BY <2>2 DEF TransferInv, RemoteCallInv, Outside
  <2> QED
    BY <2>1, <2>2, <2>3 DEF TransferInv
<1>5. ASSUME CallFunc \/ CallWait \/ LastWait \/ Stop PROVE TransferInv'
  <2>1. op.kind = "call" /\ WriteInv' /\ RemoteCallInv'
    BY <1>5, RemoteCallStep
  <2>2. UNCHANGED <<op, bytes, kept, lost>>
    BY <1>5 DEF CallFunc, CallWait, LastWait, Stop
  <2>3. Outside'
    BY <2>2 DEF TransferInv, Outside
  <2> QED
    BY <2>1, <2>2, <2>3 DEF TransferInv
<1> QED
  BY <1>1, <1>2, <1>3, <1>4, <1>5 DEF Inject3Next

LEMMA TransferRight == TransferInv => TransfersExact
<1> SUFFICES ASSUME TransferInv PROVE TransfersExact
  OBVIOUS
<1>1. CASE op.kind = "read"
  BY <1>1 DEF TransferInv, ReadInv, RemoteCallInv, Outside, TransfersExact, Taken
<1>2. CASE op.kind # "read"
  BY <1>2 DEF TransferInv, WriteInv, RemoteCallInv, Outside, TransfersExact
<1> QED
  BY <1>1, <1>2

-----------------------------------------------------------------------------
(* The injector of ptracehook1.                                            *)

\* No byte of the tracee's threads is from a up to b.
Clear(a, b) == \A u \in Used : ~(a <= u /\ u <= b)

PtraceTypeOK ==
  /\ mem \in [Free \cup Used \cup Page -> Int] /\ own \in [Used -> Int]
  /\ regs = [pc |-> regs.pc, r0 |-> regs.r0, sp |-> regs.sp, lr |-> regs.lr]
  /\ work = [pc |-> work.pc, r0 |-> work.r0, sp |-> work.sp, lr |-> work.lr]
  /\ job \in [dest : Int, bytes : Seq(Int)]
  /\ layout \in [split : BOOLEAN, off : Offset] /\ mapped \in BOOLEAN
  /\ stop \in {"return", "fault", "signal"}

\* A thread of the tracee runs what the registers say only in the loop of traceCall.
StageInv ==
  /\ saved = InitialRegs
  /\ tracee = "running" => pc = "wait"
  /\ report # "none" => pc \in {"restore", "detach", "exit"}
  /\ pc \in {"attach", "save", "load"} => regs = InitialRegs /\ call = "none" /\ report = "none"
  /\ pc \in {"run", "wait", "after"} => call \in {"mmap", "dlopen"}
  /\ pc = "dlopen" => call = "name"
  /\ call = "dlopen" => work.pc = RemoteAddress("dlopen")
  /\ call # "none" => RemoteAddress("dlopen") # 0

\* The rest of a write, up to the end of its last word, misses the threads' bytes.
JobInv ==
  /\ pc = "write" =>
       \/ call = "mmap" /\ Len(job.bytes) \in {0, Word, 2 * Word} /\ job.dest + Len(job.bytes) = Sp
       \/ call = "name" /\ Clear(job.dest, job.dest + Len(job.bytes) + Word - 2)
       \/ call = "dlopen" /\ job.bytes = <<>>
  /\ pc = "poke" => call = "name" /\ Len(job.bytes) = Word /\ Clear(job.dest, job.dest + Word - 1)

KeptInv == \A a \in Used : mem[a] = own[a]

\* The function has been called and has not come back; it has.
Called == pc = "wait" /\ (tracee = "running" \/ (tracee = "stopped" /\ stop = "signal"))
CameBack == pc = "after" \/ (pc = "wait" /\ tracee = "stopped" /\ stop # "signal")

RemoteInv ==
  /\ Called /\ call = "dlopen" => regs.pc = RemoteAddress("dlopen")
  /\ CameBack => ~pending
  /\ CameBack /\ regs.pc = 0 =>
       /\ regs.r0 \in {0, 1, Start, Bad}
       /\ call = "dlopen" /\ ~layout.split /\ regs.r0 # 0 => loaded \/ stop = "fault"

\* The SIGSTOP of the attach is taken before the first function comes back.
OutcomeInv ==
  /\ pending => call \notin {"name", "dlopen"} /\ report # "success"
  /\ tracee = "halted" => pending
  /\ report = "success" /\ ~layout.split => loaded \/ stop = "fault"
  /\ pc \in {"detach", "exit"} /\ ret = 0 /\ tracee # "gone" => regs = InitialRegs

PtraceInv == PtraceTypeOK /\ StageInv /\ JobInv /\ KeptInv /\ RemoteInv /\ OutcomeInv

LEMMA Numbers ==
  /\ Word \in Nat /\ Word # 0 /\ Sp \in Nat
  /\ Library \in Seq(Int) /\ Len(Library) \in Nat /\ Len(Library) # 0
  /\ Used \subseteq Nat /\ Free \cap Used = {} /\ \A u \in Used : Sp <= u
<1>1. Word \in Nat /\ Word # 0
  BY PtraceAssumption
<1>2. Library \in Seq(Nat) /\ Library # <<>> /\ Nat \subseteq Int
  BY MemoryAssumption
<1>3. Library \in Seq(Int)
  BY <1>2, SeqMonotonic
<1>4. Len(Library) \in Nat /\ Len(Library) # 0
  BY <1>2, EmptySeq
<1> QED
  BY <1>1, <1>3, <1>4, PtraceAssumption, MemoryAssumption

\* Whatever mmap gave back, nothing of the threads is where the name goes.
LEMMA RoomForName ==
  ASSUME NEW r0 \in {1, Start, Bad}
  PROVE  r0 \in Nat /\ Clear(r0, r0 + Len(Library) + Word - 2)
<1> DEFINE n == Len(Library) + Word - 1
<1>1. n \in Nat /\ n # 0 /\ \A i \in 1..n : Start + i - 1 \in Page /\ i \notin Used /\ Bad + i - 1 \notin Used
  <2>1. n \in Nat /\ n # 0
    BY Numbers
  <2>2. \A i \in 1..n : Start + i - 1 \in Page /\ {i, Bad + i - 1} \cap Used = {}
    BY MemoryAssumption
  <2>3. ASSUME NEW i \in 1..n PROVE i \notin Used /\ Bad + i - 1 \notin Used
    <3>1. {i, Bad + i - 1} \cap Used = {}
      BY <2>2
    <3> QED
      BY <3>1, Zenon
  <2> QED
    BY <2>1, <2>2, <2>3, Zenon
<1>2. Start \in Nat
  <2>1. Page \subseteq Nat /\ Page # {}
    BY <1>1, MemoryAssumption
  <2>2. \E a \in Page : \A b \in Page : a <= b
    BY <2>1, Least
  <2>3. Start \in Page
    BY <2>2, Zenon DEF Start
  <2> QED
    BY <2>1, <2>3
<1>3. Bad \in Nat /\ r0 \in Nat
  BY <1>2 DEF Bad
<1>4. ASSUME NEW u \in Used, r0 <= u, u <= r0 + Len(Library) + Word - 2 PROVE FALSE
  <2>1. PICK i : i = u - r0 + 1
    OBVIOUS
  <2>2. i \in 1..n /\ r0 + i - 1 = u
    BY <1>3, <1>4, <2>1, Numbers
  <2> HIDE DEF n
  <2>3. CASE r0 = Start
    <3>1. u \in Page
      BY <1>1, <2>2, <2>3
    <3> QED
      BY <3>1, PtraceAssumption
  <2>4. CASE r0 = 1
    <3>1. i = u
      BY <2>2, <2>4, Numbers
    <3> QED
      BY <1>1, <2>2, <3>1
  <2>5. CASE r0 = Bad
    <3>1. u \notin Used
      BY <1>1, <2>2, <2>5
    <3> QED
      BY <3>1
  <2> QED
    BY <2>3, <2>4, <2>5
<1> QED
  BY <1>3, <1>4 DEF Clear

\* Where the modules have one line in the maps file, an address that is found is
\* the function's.
LEMMA AddressRight ==
  ASSUME ~layout.split, layout.off \in Nat, RemoteAddress("dlopen") # 0
  PROVE  FunctionAt(RemoteAddress("dlopen")) = "dlopen"
<1> DEFINE off == layout.off
           local == 30 + off
<1>1. \A base : Lines(base) = << <<base, base + 4>> >>
  BY DEF Lines
<1>2. \A base, a, l : l \in LineOf(base, a) => l = <<base, base + 4>>
  BY <1>1 DEF LineOf
<1>3. /\ Local["dlopen"] = 30 /\ Remote["dlopen"] = 50 /\ Remote["mmap"] = 40
      /\ DOMAIN Remote = {"mmap", "dlopen"}
  BY DEF Local, Remote
<1>4. LineOf(30, local) # {}
  BY <1>3 DEF RemoteAddress
<1>5. (CHOOSE l \in LineOf(30, local) : TRUE) = <<30, 34>>
  <2>1. PICK l : l \in LineOf(30, local)
    BY <1>4
  <2>2. (CHOOSE x \in LineOf(30, local) : TRUE) \in LineOf(30, local)
    BY <2>1, Zenon
  <2> QED
    BY <1>2, <2>2
<1>6. RemoteAddress("dlopen") = local + Lines(50)[1][1] - (CHOOSE l \in LineOf(30, local) : TRUE)[1]
  BY <1>3, <1>4 DEF RemoteAddress
<1>7. RemoteAddress("dlopen") = 50 + off
  <2>1. Lines(50)[1][1] = 50
    BY <1>1
  <2> HIDE DEF local
  <2>2. RemoteAddress("dlopen") = local + 50 - 30
    <3>1. (CHOOSE l \in LineOf(30, local) : TRUE)[1] = 30
      <4>1. <<30, 34>>[1] = 30
        OBVIOUS
      <4> QED
        BY <1>5, <4>1, Zenon
    <3> QED
      BY <1>6, <2>1, <3>1, Zenon
  <2> QED
    BY <2>2 DEF local
<1>8. (CHOOSE fn \in DOMAIN Remote : 50 + off = Remote[fn] + layout.off) = "dlopen"
  <2>1. \A fn \in DOMAIN Remote : 50 + off = Remote[fn] + off <=> fn = "dlopen"
    BY <1>3
  <2> QED
    BY <1>3, <2>1
<1> QED
  BY <1>3, <1>7, <1>8 DEF FunctionAt


\* What a step of the injector or of the tracee leaves alone.
LEMMA FixedStep ==
  ASSUME PtraceTypeOK, StageInv, PtraceNext \/ UNCHANGED ptraceVars
  PROVE  /\ layout' = layout
         /\ saved' = InitialRegs
         /\ RemoteAddress("dlopen")' = RemoteAddress("dlopen")
<1>1. layout' = layout
  BY DEF PtraceNext, Tracer, Tracee, Attach, Save, CallMmap, NoMaps, CallDlopen, WriteWord, PeekTail,
     PokeTail, EndWrite, Run, Wait, After, Restore, Detach, OtherThread, Return, Fault, Signal,
     Killed, ptraceVars
<1>2. saved' = saved \/ (pc = "save" /\ saved' = regs)
  BY DEF PtraceNext, Tracer, Tracee, Attach, Save, CallMmap, NoMaps, CallDlopen, WriteWord, PeekTail,
     PokeTail, EndWrite, Run, Wait, After, Restore, Detach, OtherThread, Return, Fault, Signal,
     Killed, ptraceVars
<1>3. saved' = InitialRegs
  BY <1>2 DEF StageInv
<1>4. RemoteAddress("dlopen")' = RemoteAddress("dlopen")
  BY <1>1 DEF RemoteAddress, LineOf, Lines, Local, Remote
<1> QED
  BY <1>1, <1>3, <1>4

\* How a call is prepared, with the arguments that go to the stack.
LEMMA Prepared ==
  ASSUME NEW fn, NEW r0, NEW stacked \in Seq(Int),
         Prepare(fn, InitialRegs, r0, stacked)
  PROVE  /\ work' = [pc |-> RemoteAddress(fn), r0 |-> r0, sp |-> Sp - Len(stacked), lr |-> 0]
         /\ job' = [dest |-> Sp - Len(stacked), bytes |-> stacked]
         /\ job' \in [dest : Int, bytes : Seq(Int)]
         /\ call' = fn /\ pc' = "write"
<1>1. /\ work' = [InitialRegs EXCEPT !.r0 = r0, !.pc = RemoteAddress(fn), !.lr = 0, !.sp = @ - Len(stacked)]
      /\ job' = [dest |-> InitialRegs.sp - Len(stacked), bytes |-> stacked]
      /\ call' = fn /\ pc' = "write"
  BY DEF Prepare
<1>2. InitialRegs.sp = Sp
  BY DEF InitialRegs
<1>3. work' = [pc |-> RemoteAddress(fn), r0 |-> r0, sp |-> Sp - Len(stacked), lr |-> 0]
  BY <1>1 DEF InitialRegs
<1>4. Sp - Len(stacked) \in Int
  BY Numbers
<1> QED
  BY <1>1, <1>2, <1>3, <1>4

LEMMA TwoWords ==
  /\ [i \in 1 .. 2 * Word |-> 0] \in Seq(Int)
  /\ Len([i \in 1 .. 2 * Word |-> 0]) = 2 * Word
<1>1. 2 * Word \in Nat
  BY Numbers
<1> DEFINE n == 2 * Word
<1> HIDE DEF n
<1>2. n \in Nat
  BY <1>1 DEF n
<1>3. [i \in 1..n |-> 0] \in Seq(Int) /\ Len([i \in 1..n |-> 0]) = n
  BY <1>2
<1> QED
  BY <1>3 DEF n

\* A word written in the mapped memory of the tracee.
LEMMA WordPoked ==
  ASSUME PtraceTypeOK, Reachable(job.dest), mem' = Poked(job.dest, job.bytes),
         Len(job.bytes) >= Word
  PROVE  /\ mem' \in [Free \cup Used \cup Page -> Int]
         /\ \A a \in Used : ~(job.dest <= a /\ a <= job.dest + Word - 1) => mem'[a] = mem[a]
<1> DEFINE d == job.dest
           bs == job.bytes
           Data == Free \cup Used \cup Page
<1>1. d \in Int /\ bs \in Seq(Int) /\ DOMAIN mem = Data /\ \A b \in Data : mem[b] \in Int
  BY DEF PtraceTypeOK
<1>2. mem' = [b \in Data |-> IF b \in d .. (d + Word - 1) THEN bs[b - d + 1] ELSE mem[b]]
  BY <1>1 DEF Poked, WordAt
<1>3. Data \subseteq Nat /\ Word \in Nat
  BY MemoryAssumption, Numbers
<1> HIDE DEF d, bs
<1>4. ASSUME NEW b \in Data PROVE (IF b \in d .. (d + Word - 1) THEN bs[b - d + 1] ELSE mem[b]) \in Int
  <2>1. CASE b \in d .. (d + Word - 1)
    <3>1. b - d + 1 \in 1..Len(bs)
      BY <1>1, <1>3, <2>1 DEF bs
    <3> QED
      BY <1>1, <2>1, <3>1
  <2> QED
    BY <1>1, <2>1
<1>5. mem' \in [Data -> Int]
  BY <1>2, <1>4
<1>6. ASSUME NEW a \in Used, ~(d <= a /\ a <= d + Word - 1) PROVE mem'[a] = mem[a]
  <2>1. a \in Data /\ a \notin d .. (d + Word - 1)
    BY <1>1, <1>3, <1>6
  <2> QED
    BY <1>2, <2>1
<1> QED
  BY <1>5, <1>6 DEF d

LEMMA SeqOfInts ==
  ASSUME NEW n \in Nat, NEW f \in [1..n -> Int]
  PROVE  f \in Seq(Int)
BY SeqDef

LEMMA ClearWithin ==
  ASSUME NEW a \in Int, NEW b \in Int, NEW c \in Int, NEW d \in Int, a <= c, d <= b, Clear(a, b)
  PROVE  Clear(c, d)
<1>1. Used \subseteq Int
  BY Numbers
<1> QED
  BY <1>1 DEF Clear

LEMMA PtraceTypeStep ==
  ASSUME PtraceInv, PtraceNext \/ UNCHANGED ptraceVars
  PROVE  PtraceTypeOK'
<1> USE DEF PtraceTypeOK, PtraceInv
<1>l. layout' = layout
  BY FixedStep
<1>1. CASE Attach \/ Save \/ NoMaps \/ EndWrite \/ Wait \/ Detach \/ Signal \/ Killed
           \/ UNCHANGED ptraceVars
  BY <1>1, <1>l DEF Attach, Save, NoMaps, EndWrite, Wait, Detach, Signal, Killed, ptraceVars
<1>2. CASE CallMmap
  <2>1. CASE Prepare("mmap", regs, 0, [i \in 1 .. 2 * Word |-> 0])
    <3>1. regs = InitialRegs
      BY <1>2 DEF CallMmap, StageInv
    <3>2. /\ work' = [pc |-> RemoteAddress("mmap"), r0 |-> 0,
                      sp |-> Sp - Len([i \in 1 .. 2 * Word |-> 0]), lr |-> 0]
          /\ job' \in [dest : Int, bytes : Seq(Int)]
      BY <2>1, <3>1, TwoWords, Prepared
    <3> QED
      BY <1>2, <1>l, <3>2 DEF CallMmap
  <2>2. CASE UNCHANGED <<work, job, call>>
    BY <1>2, <1>l, <2>2 DEF CallMmap
  <2> QED
    BY <1>2, <2>1, <2>2 DEF CallMmap
<1>3. CASE CallDlopen
  <2>1. Prepare("dlopen", InitialRegs, NameAt, <<>>)
    BY <1>3 DEF CallDlopen, StageInv
  <2>2. <<>> \in Seq(Int)
    OBVIOUS
  <2>3. /\ work' = [pc |-> RemoteAddress("dlopen"), r0 |-> NameAt, sp |-> Sp - Len(<<>>), lr |-> 0]
        /\ job' \in [dest : Int, bytes : Seq(Int)]
    BY <2>1, <2>2, Prepared
  <2> QED
    BY <1>3, <1>l, <2>3 DEF CallDlopen
<1>4. CASE WriteWord
  <2>1. CASE Reachable(job.dest)
    <3>1. mem' \in [Free \cup Used \cup Page -> Int]
      BY <1>4, <2>1, WordPoked, Numbers DEF WriteWord
    <3>2. SubSeq(job.bytes, Word + 1, Len(job.bytes)) \in Seq(Int) /\ job.dest + Word \in Int
      BY Numbers
    <3>3. job' = [dest |-> job.dest + Word, bytes |-> SubSeq(job.bytes, Word + 1, Len(job.bytes))]
      BY <1>4, <2>1 DEF WriteWord
    <3>4. job' \in [dest : Int, bytes : Seq(Int)]
      <4>1. PICK tail : tail = SubSeq(job.bytes, Word + 1, Len(job.bytes))
        OBVIOUS
      <4> QED
        BY <3>2, <3>3, <4>1
    <3> QED
      BY <1>4, <1>l, <3>1, <3>4 DEF WriteWord
  <2>2. CASE ~Reachable(job.dest)
    BY <1>4, <1>l, <2>2 DEF WriteWord
  <2> QED
    BY <2>1, <2>2
<1>5. CASE PeekTail
  <2>1. CASE Reachable(job.dest)
    <3> DEFINE full == [i \in 1 .. Word |->
                          IF i <= Len(job.bytes) THEN job.bytes[i] ELSE mem[job.dest + i - 1]]
    <3>1. ASSUME NEW i \in 1 .. Word
          PROVE  (IF i <= Len(job.bytes) THEN job.bytes[i] ELSE mem[job.dest + i - 1]) \in Int
      <4>1. CASE i <= Len(job.bytes)
        BY <4>1, Numbers
      <4>2. CASE ~(i <= Len(job.bytes))
        <5>1. job.dest + i - 1 \in job.dest .. (job.dest + Word - 1)
          BY Numbers
        <5>2. job.dest + i - 1 \in Mapped
          BY <2>1, <5>1 DEF Reachable, WordAt
        <5>3. job.dest + i - 1 \in Free \cup Used \cup Page
          BY <5>2 DEF Mapped
        <5>4. mem[job.dest + i - 1] \in Int
          BY <5>3
        <5> QED
          BY <4>2, <5>4
      <4> QED
        BY <4>1, <4>2
    <3>2. full \in Seq(Int)
      <4>1. full \in [1 .. Word -> Int]
        BY <3>1
      <4> HIDE DEF full
      <4> QED
        BY <4>1, Numbers, SeqOfInts
    <3> HIDE DEF full
    <3>3. job' = [job EXCEPT !.bytes = full]
      BY <1>5, <2>1 DEF PeekTail, full
    <3>4. job' \in [dest : Int, bytes : Seq(Int)]
      BY <3>2, <3>3
    <3> QED
      BY <1>5, <1>l, <3>4 DEF PeekTail
  <2>2. CASE ~Reachable(job.dest)
    BY <1>5, <1>l, <2>2 DEF PeekTail
  <2> QED
    BY <2>1, <2>2
<1>6. CASE PokeTail
  <2>1. CASE Reachable(job.dest)
    <3>1. Len(job.bytes) >= Word
      BY <1>6, Numbers DEF PokeTail, JobInv
    <3>2. mem' \in [Free \cup Used \cup Page -> Int]
      BY <1>6, <2>1, <3>1, WordPoked DEF PokeTail
    <3> QED
      BY <1>6, <1>l, <3>2 DEF PokeTail
  <2>2. CASE ~Reachable(job.dest)
    BY <1>6, <1>l, <2>2 DEF PokeTail
  <2> QED
    BY <2>1, <2>2
<1>7. CASE Run
  <2>1. regs' = regs \/ regs' = work
    BY <1>7 DEF Run
  <2> QED
    BY <1>7, <1>l, <2>1 DEF Run
<1>8. CASE After
  <2>1. CASE UNCHANGED <<job, call>>
    BY <1>8, <1>l, <2>1 DEF After
  <2>2. CASE pc' = "write" /\ job' = [dest |-> regs.r0, bytes |-> Library]
    <3>1. regs.r0 \in {1, Start, Bad}
      BY <1>8, <2>2 DEF After, NotLoaded, RemoteInv, CameBack
    <3>2. regs.r0 \in Int
      BY <3>1, RoomForName
    <3>3. job' \in [dest : Int, bytes : Seq(Int)]
      BY <2>2, <3>2, Numbers
    <3> QED
      BY <1>8, <1>l, <3>3 DEF After
  <2> QED
    BY <1>8, <2>1, <2>2 DEF After
<1>9. CASE Restore
  <2>1. regs' = regs \/ regs' = InitialRegs
    BY <1>9 DEF Restore, StageInv
  <2> QED
    BY <1>9, <1>l, <2>1 DEF Restore, InitialRegs
<1>10. CASE OtherThread
  BY <1>10, <1>l DEF OtherThread
<1>11. Framed \in [Free \cup Used \cup Page -> Int]
  BY DEF Framed
<1>12. CASE Return
  <2>1. PICK r0 : Back(r0)
    BY <1>12 DEF Return
  <2>2. regs' = [regs EXCEPT !.r0 = r0, !.pc = regs.lr] /\ mem' = Framed /\ stop' = "return"
    BY <2>1 DEF Back
  <2>3. mapped' \in BOOLEAN /\ UNCHANGED <<own, work, job>>
    BY <1>12 DEF Return
  <2> QED
    BY <1>11, <1>l, <2>2, <2>3
<1>13. CASE Fault
  <2>1. /\ \E x, r0 : regs' = [regs EXCEPT !.pc = x, !.r0 = r0] \/ regs' = [regs EXCEPT !.pc = x]
        /\ mem' = Framed /\ stop' = "fault" /\ UNCHANGED <<own, work, job, mapped>>
    BY <1>13 DEF Fault
  <2> QED
    BY <1>11, <1>l, <2>1
<1> QED
  BY <1>1, <1>2, <1>3, <1>4, <1>5, <1>6, <1>7, <1>8, <1>9, <1>10, <1>12, <1>13
     DEF PtraceNext, Tracer, Tracee

LEMMA StageStep ==
  ASSUME PtraceInv, PtraceNext \/ UNCHANGED ptraceVars
  PROVE  StageInv'
<1> USE DEF PtraceInv, StageInv
<1>f. saved' = InitialRegs /\ RemoteAddress("dlopen")' = RemoteAddress("dlopen")
  BY FixedStep
<1>i. InitialRegs' = InitialRegs
  BY DEF InitialRegs
<1>1. CASE Attach
  BY <1>1, <1>f, <1>i DEF Attach
<1>2. CASE Save
  BY <1>2, <1>f, <1>i DEF Save
<1>3. CASE CallMmap
  <2>1. CASE Prepare("mmap", regs, 0, [i \in 1 .. 2 * Word |-> 0])
    BY <1>3, <1>f, <1>i, <2>1 DEF CallMmap, Prepare, NotLoaded
  <2>2. CASE ~Prepare("mmap", regs, 0, [i \in 1 .. 2 * Word |-> 0])
    BY <1>3, <1>f, <1>i, <2>2 DEF CallMmap, NotLoaded
  <2> QED
    BY <2>1, <2>2
<1>4. CASE CallDlopen
  <2>1. Prepare("dlopen", InitialRegs, NameAt, <<>>)
    BY <1>4 DEF CallDlopen
  <2>2. <<>> \in Seq(Int)
    OBVIOUS
  <2>3. /\ work' = [pc |-> RemoteAddress("dlopen"), r0 |-> NameAt, sp |-> Sp - Len(<<>>), lr |-> 0]
        /\ call' = "dlopen" /\ pc' = "write"
    BY <2>1, <2>2, Prepared
  <2>4. work'.pc = RemoteAddress("dlopen")
    BY <2>3
  <2> QED
    BY <1>4, <1>f, <1>i, <2>3, <2>4 DEF CallDlopen
<1>5. CASE WriteWord \/ PeekTail \/ PokeTail \/ EndWrite
  BY <1>5, <1>f, <1>i DEF WriteWord, PeekTail, PokeTail, EndWrite, WriteFailed, Written, NotLoaded, JobInv
<1>6. CASE Run \/ Wait
  BY <1>6, <1>f, <1>i DEF Run, Wait, NotLoaded
<1>7. CASE After
  BY <1>7, <1>f, <1>i DEF After, NotLoaded
<1>8. CASE Restore \/ Detach \/ NoMaps
  BY <1>8, <1>f, <1>i DEF Restore, Detach, NoMaps, LetGo
<1>9. CASE OtherThread \/ Signal \/ Killed \/ UNCHANGED ptraceVars
  BY <1>9, <1>f, <1>i DEF OtherThread, Signal, Killed, ptraceVars
<1>10. CASE Return \/ Fault
  <2>1. pc = "wait" /\ tracee' = "stopped" /\ UNCHANGED <<pc, call, work, report>>
    BY <1>10 DEF Return, Back, Fault
  <2> QED
    BY <1>f, <1>i, <2>1
<1> QED
  BY <1>1, <1>2, <1>3, <1>4, <1>5, <1>6, <1>7, <1>8, <1>9, <1>10 DEF PtraceNext, Tracer, Tracee

LEMMA JobStep ==
  ASSUME PtraceInv, PtraceNext \/ UNCHANGED ptraceVars
  PROVE  JobInv'
<1> USE DEF PtraceInv
<1>0. CASE UNCHANGED <<pc, call, job>>
  BY <1>0 DEF JobInv, Clear
<1>1. CASE pc' \notin {"write", "poke"}
  BY <1>1 DEF JobInv
<1>2. CASE CallMmap
  <2>1. CASE Prepare("mmap", regs, 0, [i \in 1 .. 2 * Word |-> 0])
    <3>1. regs = InitialRegs
      BY <1>2 DEF CallMmap, StageInv
    <3>2. PICK two : two = [i \in 1 .. 2 * Word |-> 0]
      OBVIOUS
    <3>3. two \in Seq(Int) /\ Len(two) = 2 * Word
      BY <3>2, TwoWords
    <3>4. Prepare("mmap", InitialRegs, 0, two)
      BY <2>1, <3>1, <3>2
    <3>5. job' = [dest |-> Sp - Len(two), bytes |-> two] /\ call' = "mmap" /\ pc' = "write"
      BY <3>3, <3>4, Prepared
    <3>6. Sp - Len(two) + Len(two) = Sp /\ Len(two) = 2 * Word
      BY <3>3, Numbers
    <3>7. job'.dest + Len(job'.bytes) = Sp /\ Len(job'.bytes) = 2 * Word
      BY <3>5, <3>6
    <3> QED
      BY <3>5, <3>7 DEF JobInv
  <2>2. CASE NotLoaded
    BY <1>1, <2>2 DEF NotLoaded
  <2> QED
    BY <1>2, <2>1, <2>2 DEF CallMmap
<1>3. CASE CallDlopen
  <2>1. Prepare("dlopen", InitialRegs, NameAt, <<>>) /\ <<>> \in Seq(Int)
    BY <1>3 DEF CallDlopen, StageInv
  <2>2. job' = [dest |-> Sp - Len(<<>>), bytes |-> <<>>] /\ call' = "dlopen" /\ pc' = "write"
    BY <2>1, Prepared
  <2> QED
    BY <2>2 DEF JobInv
<1>4. CASE WriteWord
  <2>1. CASE Reachable(job.dest)
    <3>1. PICK tail : tail = SubSeq(job.bytes, Word + 1, Len(job.bytes))
      OBVIOUS
    <3>2. job' = [dest |-> job.dest + Word, bytes |-> tail] /\ pc = "write" /\ pc' = "write" /\ call' = call
          /\ Len(job.bytes) >= Word
      BY <1>4, <2>1, <3>1 DEF WriteWord
    <3>3. job.bytes \in Seq(Int) /\ job.dest \in Int /\ Len(job.bytes) \in Nat
      BY DEF PtraceTypeOK
    <3>4. Len(tail) = Len(job.bytes) - Word
      BY <3>1, <3>2, <3>3, Numbers
    <3>5. /\ job.dest + Word \in Int /\ job.dest + Word + Len(tail) + Word - 2 \in Int
          /\ job.dest + Len(job.bytes) + Word - 2 \in Int
          /\ job.dest <= job.dest + Word
          /\ job.dest + Word + Len(tail) + Word - 2 <= job.dest + Len(job.bytes) + Word - 2
      <4>1. Word \in Nat
        BY Numbers
      <4>2. PICK d, n, m : d = job.dest /\ n = Len(job.bytes) /\ m = Len(tail)
        OBVIOUS
      <4>3. d \in Int /\ n \in Nat /\ m = n - Word
        BY <3>3, <3>4, <4>2
      <4>4. d + Word \in Int /\ d + Word + m + Word - 2 \in Int /\ d + n + Word - 2 \in Int
            /\ d <= d + Word /\ d + Word + m + Word - 2 <= d + n + Word - 2
        BY <4>1, <4>3
      <4> QED
        BY <4>2, <4>4
    <3>6. call # "dlopen"
      BY <3>2, <3>3, Numbers DEF JobInv
    <3>7. CASE call = "mmap"
      <4>1. Len(job.bytes) \in {0, Word, 2 * Word} /\ job.dest + Len(job.bytes) = Sp
        BY <3>2, <3>7 DEF JobInv
      <4>2. Len(tail) \in {0, Word, 2 * Word} /\ job.dest + Word + Len(tail) = Sp
        BY <3>2, <3>3, <3>4, <4>1, Numbers
      <4>3. job'.dest = job.dest + Word /\ job'.bytes = tail
        BY <3>2
      <4> QED
        BY <3>2, <3>7, <4>2, <4>3 DEF JobInv
    <3>8. CASE call = "name"
      <4>1. Clear(job.dest, job.dest + Len(job.bytes) + Word - 2)
        BY <3>2, <3>8 DEF JobInv
      <4>2. job'.dest = job.dest + Word /\ job'.bytes = tail
        BY <3>2
      <4>3. Clear(job.dest + Word, job.dest + Word + Len(tail) + Word - 2)
        BY <3>3, <3>5, <4>1, ClearWithin
      <4>4. Clear(job.dest, job.dest + Len(job.bytes) + Word - 2)'
        BY <4>2, <4>3 DEF Clear
      <4> QED
        BY <3>2, <3>8, <4>4 DEF JobInv
    <3> QED
      BY <3>2, <3>6, <3>7, <3>8 DEF JobInv
  <2>2. CASE ~Reachable(job.dest)
    BY <1>1, <1>4, <2>2 DEF WriteWord, WriteFailed, NotLoaded
  <2> QED
    BY <2>1, <2>2
<1>5. CASE PeekTail
  <2>1. CASE Reachable(job.dest)
    <3>1. job' = [job EXCEPT !.bytes = [i \in 1 .. Word |->
             IF i <= Len(job.bytes) THEN job.bytes[i] ELSE mem[job.dest + i - 1]]]
      BY <1>5, <2>1 DEF PeekTail
    <3>2. PICK full : full = [i \in 1 .. Word |->
             IF i <= Len(job.bytes) THEN job.bytes[i] ELSE mem[job.dest + i - 1]]
      OBVIOUS
    <3>3. Len(full) = Word
      BY <3>2, Numbers
    <3>4. job' = [job EXCEPT !.bytes = full]
      BY <3>1, <3>2
    <3>5. job'.dest = job.dest /\ job'.bytes = full
      BY <3>4 DEF PtraceTypeOK
    <3>6. pc = "write" /\ pc' = "poke" /\ call' = call /\ Len(job.bytes) \in 1 .. (Word - 1)
      BY <1>5, <2>1 DEF PeekTail
    <3>7. job.dest \in Int /\ Len(job.bytes) \in Nat
      BY DEF PtraceTypeOK
    <3>8. call = "name" /\ Clear(job.dest, job.dest + Len(job.bytes) + Word - 2)
      BY <3>6, <3>7, Numbers DEF JobInv
    <3>9. Clear(job.dest, job.dest + Word - 1)
      BY <3>6, <3>7, <3>8, Numbers DEF Clear
    <3>10. Clear(job.dest, job.dest + Word - 1)'
      BY <3>5, <3>9 DEF Clear
    <3> QED
      BY <3>3, <3>5, <3>6, <3>8, <3>10 DEF JobInv
  <2>2. CASE ~Reachable(job.dest)
    BY <1>1, <1>5, <2>2 DEF PeekTail, WriteFailed, NotLoaded
  <2> QED
    BY <2>1, <2>2
<1>6. CASE After
  <2>1. CASE pc' = "write" /\ job' = [dest |-> regs.r0, bytes |-> Library] /\ call' = "name"
    <3>1. regs.r0 \in {1, Start, Bad}
      BY <1>6, <2>1 DEF After, NotLoaded, RemoteInv, CameBack
    <3>2. Clear(regs.r0, regs.r0 + Len(Library) + Word - 2)
      BY <3>1, RoomForName
    <3>3. Clear(job.dest, job.dest + Len(job.bytes) + Word - 2)'
      BY <2>1, <3>2 DEF Clear
    <3> QED
      BY <2>1, <3>3 DEF JobInv
  <2> QED
    BY <1>1, <1>6, <2>1 DEF After, NotLoaded
<1>7. CASE Attach \/ Save \/ NoMaps \/ PokeTail \/ EndWrite \/ Run \/ Wait \/ Restore \/ Detach
  BY <1>1, <1>7 DEF Attach, Save, NoMaps, PokeTail, EndWrite, Written, WriteFailed, Run, Wait, Restore, Detach,
     NotLoaded
<1>8. CASE OtherThread \/ Return \/ Fault \/ Signal \/ Killed \/ UNCHANGED ptraceVars
  BY <1>0, <1>8 DEF OtherThread, Return, Fault, Signal, Killed, ptraceVars
<1> QED
  BY <1>2, <1>3, <1>4, <1>5, <1>6, <1>7, <1>8 DEF PtraceNext, Tracer, Tracee

LEMMA KeptStep ==
  ASSUME PtraceInv, PtraceNext \/ UNCHANGED ptraceVars
  PROVE  KeptInv'
<1> USE DEF PtraceInv
<1>0. CASE UNCHANGED <<mem, own>>
  BY <1>0 DEF KeptInv
<1>1. CASE mem' = Framed /\ own' = own
  <2>1. Used \subseteq DOMAIN mem /\ Used \cap Free = {}
    BY Numbers DEF PtraceTypeOK
  <2>2. \A u \in Used : mem'[u] = mem[u]
    BY <1>1, <2>1 DEF Framed
  <2> QED
    BY <1>1, <2>2 DEF KeptInv
<1>2. CASE WriteWord /\ Reachable(job.dest)
  <2>1. Len(job.bytes) >= Word /\ mem' = Poked(job.dest, job.bytes) /\ own' = own /\ pc = "write"
    BY <1>2 DEF WriteWord
  <2>2. \A a \in Used : ~(job.dest <= a /\ a <= job.dest + Word - 1) => mem'[a] = mem[a]
    BY <1>2, <2>1, WordPoked
  <2>3. PICK d, n : d = job.dest /\ n = Len(job.bytes)
    OBVIOUS
  <2>4. d \in Int /\ n \in Nat /\ Word \in Nat /\ Word # 0 /\ n >= Word
    BY <2>1, <2>3, Numbers DEF PtraceTypeOK
  <2>5. \A a \in Used : ~(d <= a /\ a <= d + Word - 1)
    <3>1. CASE call = "mmap"
      <4>1. d + n = Sp
        BY <2>1, <2>3, <3>1 DEF JobInv
      <4> QED
        BY <2>4, <4>1, Numbers
    <3>2. CASE call = "name"
      <4>1. Clear(d, d + n + Word - 2)
        BY <2>1, <2>3, <3>2 DEF JobInv
      <4>2. d + Word - 1 <= d + n + Word - 2 /\ d + n + Word - 2 \in Int /\ d + Word - 1 \in Int
        BY <2>4
      <4>3. Clear(d, d + Word - 1)
        BY <2>4, <4>1, <4>2, ClearWithin
      <4> QED
        BY <4>3 DEF Clear
    <3>3. CASE call = "dlopen"
      BY <2>1, <2>3, <2>4, <3>3 DEF JobInv
    <3> QED
      BY <2>1, <3>1, <3>2, <3>3 DEF JobInv
  <2> QED
    BY <2>1, <2>2, <2>3, <2>5 DEF KeptInv
<1>3. CASE PokeTail /\ Reachable(job.dest)
  <2>1. Len(job.bytes) = Word /\ mem' = Poked(job.dest, job.bytes) /\ own' = own
        /\ Clear(job.dest, job.dest + Word - 1)
    BY <1>3 DEF PokeTail, JobInv
  <2>2. Len(job.bytes) >= Word
    BY <2>1, Numbers
  <2>3. \A a \in Used : ~(job.dest <= a /\ a <= job.dest + Word - 1) => mem'[a] = mem[a]
    BY <1>3, <2>1, <2>2, WordPoked
  <2> QED
    BY <2>1, <2>3 DEF KeptInv, Clear
<1>4. CASE OtherThread
  <2>1. PICK a \in Used : mem' = [mem EXCEPT ![a] = 1 - @] /\ own' = [own EXCEPT ![a] = 1 - @]
    BY <1>4 DEF OtherThread
  <2>2. \A u \in Used : u \in DOMAIN mem /\ u \in DOMAIN own
    BY DEF PtraceTypeOK
  <2> QED
    BY <2>1, <2>2 DEF KeptInv
<1>5. CASE WriteWord \/ PokeTail
  BY <1>0, <1>2, <1>3, <1>5 DEF WriteWord, PokeTail
<1>6. CASE Return \/ Fault
  BY <1>1, <1>6 DEF Return, Back, Fault
<1>7. CASE Attach \/ Save \/ CallMmap \/ NoMaps \/ CallDlopen \/ PeekTail \/ EndWrite \/ Run \/ Wait \/ After
           \/ Restore \/ Detach \/ Signal \/ Killed \/ UNCHANGED ptraceVars
  BY <1>0, <1>7 DEF Attach, Save, CallMmap, NoMaps, CallDlopen, PeekTail, EndWrite, Run, Wait, After, Restore,
     Detach, Signal, Killed, ptraceVars
<1> QED
  BY <1>4, <1>5, <1>6, <1>7 DEF PtraceNext, Tracer, Tracee

LEMMA RemoteStep ==
  ASSUME PtraceInv, PtraceNext \/ UNCHANGED ptraceVars
  PROVE  RemoteInv'
<1> USE DEF PtraceInv
<1>f. layout' = layout /\ RemoteAddress("dlopen")' = RemoteAddress("dlopen")
  BY FixedStep
<1>b. Bad' = Bad /\ Start' = Start /\ Bad # 0
  BY DEF Bad, Start
<1>0. CASE pc' \notin {"wait", "after"}
  BY <1>0 DEF RemoteInv, Called, CameBack
<1>1. CASE Run
  <2>1. CASE tracee = "stopped"
    BY <1>1, <1>f, <2>1 DEF Run, RemoteInv, Called, CameBack, StageInv
  <2>2. CASE tracee # "stopped"
    BY <1>0, <1>1, <2>2 DEF Run, NotLoaded
  <2> QED
    BY <2>1, <2>2
<1>2. CASE Wait
  BY <1>2, <1>f, <1>b DEF Wait, NotLoaded, RemoteInv, Called, CameBack, PtraceTypeOK
<1>3. CASE Return
  <2>1. pc = "wait" /\ pc' = "wait" /\ tracee' = "stopped" /\ stop' = "return" /\ ~pending /\ pending' = pending
        /\ call' = call
    BY <1>3 DEF Return, Back, StageInv
  <2>2. regs'.r0 \in {0, 1, Start, Bad}
    <3>1. PICK r0 \in {0, 1, Start, Bad} : Back(r0)
      BY <1>3 DEF Return
    <3>2. regs' = [regs EXCEPT !.r0 = r0, !.pc = regs.lr]
      BY <3>1 DEF Back
    <3>3. regs'.r0 = r0
      BY <3>2 DEF PtraceTypeOK
    <3> QED
      BY <3>3
  <2>3. ASSUME call = "dlopen", ~layout.split, regs'.r0 # 0 PROVE loaded'
    <3>1. regs.pc = RemoteAddress("dlopen")
      BY <1>3, <2>1, <2>3 DEF Return, RemoteInv, Called
    <3>2. RemoteAddress("dlopen") # 0 /\ layout.off \in Nat
      BY <2>3, PtraceAssumption DEF StageInv, PtraceTypeOK
    <3>3. FunctionAt(regs.pc) = "dlopen"
      BY <2>3, <3>1, <3>2, AddressRight
    <3>4. loaded' = TRUE \/ Back(0)
      BY <1>3, <3>3 DEF Return
    <3>5. ~Back(0)
      BY <2>3 DEF Back, PtraceTypeOK
    <3> QED
      BY <3>4, <3>5
  <2> QED
    BY <1>f, <1>b, <2>1, <2>2, <2>3 DEF RemoteInv, Called, CameBack
<1>4. CASE Fault
  <2>1. /\ regs'.pc = Bad \/ regs'.r0 \in {0, 1}
        /\ pc' = "wait" /\ tracee' = "stopped" /\ stop' = "fault" /\ ~pending /\ pending' = pending
    BY <1>4 DEF Fault, StageInv, PtraceTypeOK
  <2> QED
    BY <1>b, <2>1 DEF RemoteInv, Called, CameBack
<1>5. CASE Signal
  <2>1. pc = "wait" /\ pc' = "wait" /\ tracee = "running" /\ tracee' = "stopped" /\ stop' = "signal"
        /\ UNCHANGED <<regs, call>>
    BY <1>5 DEF Signal, StageInv
  <2> QED
    BY <1>f, <2>1 DEF RemoteInv, Called, CameBack
<1>6. CASE Killed \/ OtherThread \/ UNCHANGED ptraceVars
  BY <1>6, <1>f, <1>b DEF Killed, OtherThread, ptraceVars, RemoteInv, Called, CameBack
<1>7. CASE Attach \/ Save \/ CallMmap \/ NoMaps \/ CallDlopen \/ Restore \/ Detach
  BY <1>0, <1>7 DEF Attach, Save, CallMmap, NoMaps, CallDlopen, Prepare, NotLoaded, Restore, Detach
<1>8. CASE WriteWord \/ PeekTail \/ PokeTail \/ EndWrite \/ After
  BY <1>0, <1>8 DEF WriteWord, PeekTail, PokeTail, EndWrite, After, Written, WriteFailed, NotLoaded
<1> QED
  BY <1>1, <1>2, <1>3, <1>4, <1>5, <1>6, <1>7, <1>8 DEF PtraceNext, Tracer, Tracee

LEMMA OutcomeStep ==
  ASSUME PtraceInv, PtraceNext \/ UNCHANGED ptraceVars
  PROVE  OutcomeInv'
<1> USE DEF PtraceInv
<1>f. layout' = layout /\ InitialRegs' = InitialRegs
  BY FixedStep DEF InitialRegs
<1>1. CASE Attach \/ Save
  BY <1>1, <1>f DEF Attach, Save, OutcomeInv, StageInv, Failed
<1>2. CASE CallMmap
  BY <1>2, <1>f DEF CallMmap, Prepare, NotLoaded, OutcomeInv, StageInv
<1>3. CASE CallDlopen
  BY <1>3, <1>f DEF CallDlopen, Prepare, OutcomeInv, StageInv
<1>4. CASE WriteWord \/ PeekTail \/ PokeTail \/ EndWrite
  BY <1>4, <1>f DEF WriteWord, PeekTail, PokeTail, EndWrite, Written, WriteFailed, NotLoaded, OutcomeInv
<1>5. CASE Run \/ Wait
  BY <1>5, <1>f DEF Run, Wait, NotLoaded, OutcomeInv
<1>6. CASE After
  BY <1>6, <1>f DEF After, NotLoaded, OutcomeInv, RemoteInv, CameBack, StageInv
<1>7. CASE Restore \/ Detach \/ NoMaps
  BY <1>7, <1>f DEF Restore, Detach, NoMaps, LetGo, OutcomeInv, StageInv, Failed
<1>8. CASE OtherThread \/ Killed \/ UNCHANGED ptraceVars
  BY <1>8, <1>f DEF OtherThread, Killed, ptraceVars, OutcomeInv
<1>9. CASE Signal
  BY <1>9, <1>f DEF Signal, OutcomeInv, StageInv
<1>10. CASE Return \/ Fault
  <2>1. /\ pc = "wait" /\ tracee' = "stopped" /\ UNCHANGED <<pc, pending, call, report, ret>>
        /\ report = "none"
    BY <1>10 DEF Return, Back, Fault, StageInv
  <2> QED
    BY <1>f, <2>1 DEF OutcomeInv
<1> QED
  BY <1>1, <1>2, <1>3, <1>4, <1>5, <1>6, <1>7, <1>8, <1>9, <1>10 DEF PtraceNext, Tracer, Tracee

LEMMA PtraceStart ==
  ASSUME PtraceInit
  PROVE  PtraceInv
<1>1. PtraceTypeOK
  <2>1. <<>> \in Seq(Int)
    OBVIOUS
  <2>2. mem \in [Free \cup Used \cup Page -> Int] /\ own \in [Used -> Int]
    BY DEF PtraceInit
  <2>3. job \in [dest : Int, bytes : Seq(Int)]
    BY <2>1 DEF PtraceInit, NoJob
  <2>4. /\ regs = [pc |-> regs.pc, r0 |-> regs.r0, sp |-> regs.sp, lr |-> regs.lr]
        /\ work = [pc |-> work.pc, r0 |-> work.r0, sp |-> work.sp, lr |-> work.lr]
    BY DEF PtraceInit, InitialRegs
  <2>5. layout \in [split : BOOLEAN, off : Offset] /\ mapped \in BOOLEAN /\ stop \in {"return", "fault", "signal"}
    BY DEF PtraceInit
  <2> QED
    BY <2>2, <2>3, <2>4, <2>5 DEF PtraceTypeOK
<1>2. StageInv /\ JobInv /\ RemoteInv /\ OutcomeInv
  BY DEF PtraceInit, StageInv, JobInv, RemoteInv, OutcomeInv, Called, CameBack
<1>3. KeptInv
  BY PtraceAssumption DEF PtraceInit, KeptInv
<1> QED
  BY <1>1, <1>2, <1>3 DEF PtraceInv

LEMMA PtraceStep ==
  ASSUME PtraceInv, PtraceNext \/ UNCHANGED ptraceVars
  PROVE  PtraceInv'
BY PtraceTypeStep, StageStep, JobStep, KeptStep, RemoteStep, OutcomeStep DEF PtraceInv

LEMMA PtraceRight ==
  ASSUME PtraceInv
  PROVE  TraceeKept /\ ReportTrue
<1>1. TraceeKept
  BY DEF PtraceInv, KeptInv, OutcomeInv, TraceeKept
<1>2. ReportTrue
  BY DEF PtraceInv, OutcomeInv, ReportTrue
<1> QED
  BY <1>1, <1>2

-----------------------------------------------------------------------------
(* All of them.                                                            *)

\* What holds of each part on its own holds of the composition.
LEMMA Starts == Init => PtraceInit /\ Inject3Init /\ PidInit /\ ShmTableInit /\ ShmInit
BY DEF Init

LEMMA Steps ==
  [Next]_vars =>
    /\ PtraceNext \/ UNCHANGED ptraceVars
    /\ [Inject3Next]_inject3Vars /\ [PidNext]_pidVars
    /\ [ShmTableNext]_shmTableVars /\ [ShmNext]_shmVars
BY DEF Next, Elsewhere, vars

LEMMA PtraceAlways == Spec => []PtraceInv
<1>1. Init => PtraceInv
  BY Starts, PtraceStart
<1>2. PtraceInv /\ [Next]_vars => PtraceInv'
  BY Steps, PtraceStep
<1> QED
  BY <1>1, <1>2, PTL DEF Spec

\* The threads of the tracee keep their memory, the traced one gets its registers
\* back, and a success that main reports is one when the modules of the functions
\* have one line in the maps and dlopen did not end in a call through a NULL pointer
\* (main.cpp:73, tracer.cpp:111-126, tools.cpp:157, 246).
THEOREM TraceeUnharmed == Spec => [](TraceeKept /\ ReportTrue)
<1>1. PtraceInv => TraceeKept /\ ReportTrue
  BY PtraceRight
<1> QED
  BY <1>1, PtraceAlways, PTL

\* Whatever is refused and whatever the other threads of the tracee write, a write or
\* read of at most a word that answers 0 is exact, no transfer changes a byte outside the
\* requested ones unless another thread writes it between the PEEK and the POKE, a call
\* starts with its argument on the stack if no request was refused, and one that
\* answers -1 has not returned (Inject.c:61-79, 99-126, 147-187).
THEOREM TransfersAreExact == Spec => []TransfersExact
<1>1. Init => TransferInv
  BY Starts, TransferStart
<1>2. TransferInv /\ [Next]_vars => TransferInv'
  BY Steps, TransferStep
<1> QED
  BY <1>1, <1>2, TransferRight, PTL DEF Spec

\* The process found has the name that was asked for; a living one of that name is
\* not missed, save by ptracehook3 when some process has ended (tools.cpp:101-120,
\* Tools.c:32-57).
THEOREM ProcessesFound == Spec => []PidFound
<1>1. Init => PidInv
  BY Starts, PidStart
<1>2. PidInv /\ [Next]_vars => PidInv'
  BY Steps, PidStep
<1> QED
  BY <1>1, <1>2, PidRight, PTL DEF Spec

\* The injector of ptracehook1 does no harm to another process and tells the truth about
\* what it did to it, but for the two cases ReportTrue names; the process found is right.
THEOREM InjectorsSound == Spec => []InjectionSound
<1>1. (TraceeKept /\ ReportTrue) /\ PidFound => InjectionSound
  BY DEF InjectionSound
<1> QED
  BY <1>1, TraceeUnharmed, ProcessesFound, PTL

\* The table of attachments is the kernel's, and a client that started when the
\* letters were complete prints all of them, whatever other clients, later servers and
\* kills come in between (shmop.c:69-124, shm-client.c:43-52).
THEOREM SegmentsSound == Spec => []SharedMemorySound
<1>1. Init => TableInv /\ ShmInv
  BY Starts, TableStart, ShmStart
<1>2. TableInv /\ ShmInv /\ [Next]_vars => TableInv' /\ ShmInv'
  BY Steps, TableStep, ShmStep
<1>3. TableInv /\ ShmInv => SharedMemorySound
  BY TableRight, ShmRight DEF SharedMemorySound
<1> QED
  BY <1>1, <1>2, <1>3, PTL DEF Spec
=============================================================================
