---------------------------- MODULE MCXhRefresh ----------------------------
(* Small instances of XhRefresh: two files, two symbols.                   *)
EXTENDS XhRefresh, TLC

CONSTANTS p1, p2, s1, s2

\* s1 is replaced by one function, in both files; s2 by two.
MCHooks == {[id |-> "A", paths |-> {p1, p2}, sym |-> s1],
            [id |-> "B", paths |-> {p1},     sym |-> s2],
            [id |-> "C", paths |-> {p1, p2}, sym |-> s2]}

\* One info for a symbol, one for a whole library.
MCIgnores == {[paths |-> {p1}, sym |-> s1], [paths |-> {p1, p2}, sym |-> AllSymbols]}

\* The library that moves between loads has its lines on both sides of p2's.
MCBases == (p1 :> {2, 6}) @@ (p2 :> {4})

MCInitialBase == (p1 :> 2) @@ (p2 :> 4)
=============================================================================
