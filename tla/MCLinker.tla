------------------------------ MODULE MCLinker ------------------------------
(* What a linker puts into a library: the symbol table, whose imports come   *)
(* first, and the two kinds of hash table over it.  The names share hash     *)
(* values in part; a bloom word has MCBits bits.                             *)
EXTENDS Integers, Sequences, FiniteSets, SequencesExt

MCNames == {"a", "b", "c", "d", "e", "f"}
MCElfHash == [a |-> 1, b |-> 3, c |-> 3, d |-> 6, e |-> 4, f |-> 5]
MCGnuHash == [a |-> 10, b |-> 7, c |-> 6, d |-> 7, e |-> 13, f |-> 6]
MCBits == 4

Symbols(imports, exports, nb) ==
  <<"">> \o imports \o SortSeq(exports, LAMBDA x, y : MCGnuHash[x] % nb < MCGnuHash[y] % nb)

ElfTable(syms, nb) ==
  LET In(b) == {i \in 2..Len(syms) : MCElfHash[syms[i]] % nb = b}
      Tip(S) == IF S = {} THEN 0 ELSE (CHOOSE i \in S : \A j \in S : j <= i) - 1
  IN [bucket |-> [b \in 1..nb |-> Tip(In(b - 1))],
      chain |-> [i \in 1..Len(syms) |->
                   IF i = 1 THEN 0
                   ELSE Tip({j \in In(MCElfHash[syms[i]] % nb) : j < i})]]

GnuTable(syms, off, nb, words, shift) ==
  LET n == Len(syms) - off
      Hash(i) == MCGnuHash[syms[off + i]]
      In(b) == {i \in 1..n : Hash(i) % nb = b}
  IN [bucket |-> [b \in 1..nb |-> IF In(b - 1) = {} THEN 0
                                  ELSE off - 1 + CHOOSE i \in In(b - 1) : \A j \in In(b - 1) : i <= j],
      chain |-> [i \in 1..n |-> 2 * (Hash(i) \div 2)
                                   + (IF i = n \/ Hash(i + 1) % nb # Hash(i) % nb THEN 1 ELSE 0)],
      symoffset |-> off, shift |-> shift,
      bloom |-> [w \in 1..words |->
                   UNION {{Hash(i) % MCBits, (Hash(i) \div 2^shift) % MCBits} : i \in {j \in 1..n : (Hash(j) \div MCBits) % words = w - 1}}]]

Dyn(tag, val) == [tag |-> tag, val |-> val]
=============================================================================
