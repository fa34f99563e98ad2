----------------------------- MODULE PidLookup -----------------------------
(***************************************************************************)
(* How the injectors find a process by its name: both list /proc and read  *)
(* each entry's command line, while processes end.  getPidWithProcessName  *)
(* (ptracehook1/tools.cpp) skips an entry it cannot open, GetPidFromName   *)
(* (ptracehook3/Tools.c) gives up.                                         *)
(***************************************************************************)
EXTENDS Integers, Sequences, FiniteSets

CONSTANTS Pids, Names, Wanted

ASSUME PidAssumption == IsFiniteSet(Pids) /\ Pids \subseteq Nat \ {0}

VARIABLES listing,  \* the order in which readdir yields the processes
          name,     \* each process's command line
          living,   \* the processes that have not ended
          seen,     \* entries each lookup has looked at
          answer    \* what each lookup returned, or "none" while it runs

pidVars == <<listing, name, living, seen, answer>>

Lookups == {"ptracehook1", "ptracehook3"}
NotFound(lookup) == IF lookup = "ptracehook1" THEN 0 ELSE -1
None == -2

PidInit ==
  /\ listing \in {s \in [1 .. Cardinality(Pids) -> Pids] : \A i, j \in DOMAIN s : s[i] = s[j] => i = j}
  /\ name \in [Pids -> Names] /\ living = Pids
  /\ seen = [l \in Lookups |-> 0] /\ answer = [l \in Lookups |-> None]

End(p) ==
  /\ p \in living /\ living' = living \ {p}
  /\ UNCHANGED <<listing, name, seen, answer>>

\* One entry of /proc: its name is compared when its command line can be read.
Look(lookup) ==
  /\ answer[lookup] = None /\ seen[lookup] < Len(listing)
  /\ LET p == listing[seen[lookup] + 1] IN
     /\ seen' = [seen EXCEPT ![lookup] = @ + 1]
     /\ IF p \notin living
        THEN answer' = IF lookup = "ptracehook3" THEN [answer EXCEPT ![lookup] = NotFound(lookup)] ELSE answer
        ELSE answer' = IF name[p] = Wanted THEN [answer EXCEPT ![lookup] = p] ELSE answer
  /\ UNCHANGED <<listing, name, living>>

EndOfListing(lookup) ==
  /\ answer[lookup] = None /\ seen[lookup] = Len(listing)
  /\ answer' = [answer EXCEPT ![lookup] = NotFound(lookup)]
  /\ UNCHANGED <<listing, name, living, seen>>

PidNext == (\E p \in Pids : End(p)) \/ (\E l \in Lookups : Look(l) \/ EndOfListing(l))

-----------------------------------------------------------------------------
\* A process of that name that still lives is not missed by ptracehook1, and by
\* ptracehook3 only when another process has ended; what is found has the name
\* (tools.cpp:101-120, Tools.c:32-57).
PidFound ==
  \A l \in Lookups :
    /\ answer[l] \in Pids => name[answer[l]] = Wanted
    /\ answer[l] = NotFound(l) /\ (l = "ptracehook1" \/ living = Pids)
         => \A p \in living : name[p] # Wanted
=============================================================================
