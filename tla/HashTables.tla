----------------------------- MODULE HashTables -----------------------------
(* The hash tables over the dynamic symbols of a library, which xHook and   *)
(* the older hooks look names up in: how a chain is followed, and what a    *)
(* linker sees to.  A symbol table is the sequence of its names, from index *)
(* 0 on; a table has its buckets, its chain and, for DT_GNU_HASH, the index *)
(* of the first hashed symbol and the words of the bloom filter, each the   *)
(* set of its bits.  The chain has a word for each hashed symbol.           *)
EXTENDS Integers, Sequences, FiniteSets, SequencesExt

CONSTANTS ElfHash, GnuHash,    \* the hash values of a name
          Bits                 \* the width of a bloom word

NotFound == -1

\* The indices along the chain of a DT_HASH table from index i; index 0 ends it.
ChainFrom(chain, i) ==
  LET at[k \in 0..Len(chain)] ==
        IF k = 0 THEN i ELSE IF at[k - 1] = 0 THEN 0 ELSE chain[at[k - 1] + 1]
  IN at

\* The first index on the chain whose symbol has the name.
OnChain(syms, chain, name, i) ==
  LET at == ChainFrom(chain, i)
      hits == {k \in 0..Len(chain) : at[k] # 0 /\ syms[at[k] + 1] = name}
  IN IF hits = {} THEN NotFound ELSE at[Min(hits)]

ByElfHash(syms, t, name) ==
  OnChain(syms, t.chain, name, t.bucket[(ElfHash[name] % Len(t.bucket)) + 1])

\* A word of a DT_GNU_HASH chain is the hash value of its symbol, with the lowest
\* bit for the end of the chain.
EndsChain(word) == word % 2 = 1
SameHash(word, h) == word \div 2 = h \div 2

\* Following the chain of a DT_GNU_HASH table from index i to the last of its bucket.
OnGnuChain(syms, t, name, i) ==
  LET Link(j) == t.chain[j - t.symoffset + 1]
      hits == {j \in 0..(t.symoffset + Len(t.chain) - 1) :
                 /\ i <= j /\ \A k \in i..(j - 1) : ~EndsChain(Link(k))
                 /\ SameHash(Link(j), GnuHash[name]) /\ syms[j + 1] = name}
  IN IF hits = {} THEN NotFound ELSE Min(hits)
-----------------------------------------------------------------------------
(* What a linker writes.                                                    *)

\* A DT_HASH table over the symbols has each symbol with one of the names on the
\* chain of its bucket.
InElfHash(syms, t, names) ==
  LET Bucket(name) == t.bucket[(ElfHash[name] % Len(t.bucket)) + 1]
  IN /\ Len(t.chain) = Len(syms)
     /\ \A k \in 1..Len(t.chain) : t.chain[k] \in 0..(Len(syms) - 1)
     /\ \A name \in names : Bucket(name) \in 0..(Len(syms) - 1)
     /\ \A i \in 1..(Len(syms) - 1) : syms[i + 1] \in names =>
          \E k \in 0..Len(t.chain) : ChainFrom(t.chain, Bucket(syms[i + 1]))[k] = i

\* The bloom filter lets the hash value h through, and its bucket leads to index i.
LeadsTo(t, h, i) ==
  LET first == t.bucket[(h % Len(t.bucket)) + 1]
  IN /\ {h % Bits, (h \div 2^t.shift) % Bits} \subseteq t.bloom[((h \div Bits) % Len(t.bloom)) + 1]
     /\ first \in t.symoffset..i
     /\ \A k \in first..(i - 1) : ~EndsChain(t.chain[k - t.symoffset + 1])
     /\ SameHash(t.chain[i - t.symoffset + 1], h)

\* A DT_GNU_HASH table has each of them from symoffset on.  Index 0 is no symbol and
\* is never hashed.
InGnuHash(syms, t, names) ==
  /\ t.symoffset \in 1..Len(syms) /\ t.symoffset + Len(t.chain) = Len(syms)
  /\ \A i \in t.symoffset..(Len(syms) - 1) :
       syms[i + 1] \in names => LeadsTo(t, GnuHash[syms[i + 1]], i)

\* What GNU ld writes when there is nothing to hash: one bucket, one word without
\* a bit, and symoffset 1 however many symbols are imported.
EmptyGnuHash(t) ==
  t.symoffset = 1 /\ t.bucket = <<0>> /\ t.chain = <<>> /\ t.bloom = <<{}>>
=============================================================================
