------------------------------ MODULE MCXhCore ------------------------------
(* Small instances of XhCore: the threads and the infos are model values.  *)
EXTENDS XhCore, TLC

\* The two clients play the same part, and no liveness property is checked
\* where this symmetry is used.
ClientSymmetry == Permutations(Clients) \cup Permutations(Workers)
=============================================================================
