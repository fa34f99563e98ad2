------------------------------ MODULE Processes ------------------------------
(* The parts that work between processes, the injectors and the programs of  *)
(* the shared segments; `part` says which of them a behaviour is about, and  *)
(* the others stand still.                                                   *)
EXTENDS Ptrace, Inject3, PidLookup, ShmTable, ShmHandshake

VARIABLE part

vars == <<part, ptraceVars, inject3Vars, pidVars, shmTableVars, shmVars>>

Init ==
  /\ part \in {"ptrace", "inject", "pids", "table", "handshake"}
  /\ PtraceInit /\ (part # "ptrace" => layout = [split |-> FALSE, off |-> 1])
  /\ Inject3Init /\ (part # "inject" => op = [kind |-> "call", data |-> <<>>] /\ bytes = [a \in Target |-> 0])
  /\ PidInit /\ (part # "pids" => name = [p \in Pids |-> Wanted] /\ listing = [p \in Pids |-> p])
  /\ ShmTableInit /\ ShmInit

Elsewhere(p, others) == part = p /\ UNCHANGED <<part, others>>

Next ==
  \/ PtraceNext   /\ Elsewhere("ptrace", <<inject3Vars, pidVars, shmTableVars, shmVars>>)
  \/ Inject3Next  /\ Elsewhere("inject", <<ptraceVars, pidVars, shmTableVars, shmVars>>)
  \/ PidNext      /\ Elsewhere("pids", <<ptraceVars, inject3Vars, shmTableVars, shmVars>>)
  \/ ShmTableNext /\ Elsewhere("table", <<ptraceVars, inject3Vars, pidVars, shmVars>>)
  \/ ShmNext      /\ Elsewhere("handshake", <<ptraceVars, inject3Vars, pidVars, shmTableVars>>)

Spec == Init /\ [][Next]_vars /\ ShmFairness

\* What the injectors do to another process: it keeps its memory and registers,
\* a reported success is one, and the process found is the one that was named.
InjectionSound == TraceeKept /\ ReportTrue /\ PidFound

\* What the shared memory programs keep: the table of attachments is the
\* kernel's, and a client reads whole letters inside the segment.
SharedMemorySound == AttachTableTrue /\ PrintsAll
=============================================================================
