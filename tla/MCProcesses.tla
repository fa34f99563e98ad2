---------------------------- MODULE MCProcesses ----------------------------
(* Small instances of the parts that work between processes.                 *)
EXTENDS Processes

MCFree == 0 .. 9
MCUsed == 10 .. 13
MCPage == 20 .. 27
MCLibrary == <<1, 2, 1, 2, 0>>
MCOffset == {1, 2, 3}
MCTarget == 0 .. 5
MCOnes == <<1, 1>>
MCPids == 1 .. 3
=============================================================================
