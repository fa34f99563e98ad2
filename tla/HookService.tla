---------------------------- MODULE HookService ----------------------------
(***************************************************************************)
(* What xhook.h promises an application that does not overlap register or  *)
(* clear with other calls, without threads, mutexes or flags: infos are    *)
(* collected, then refreshes bring the remembered libraries in line with   *)
(* all of them and serve the asynchronous requests, until clear starts the *)
(* collection again.  XhCore implements this specification.                *)
(***************************************************************************)
CONSTANTS Callers, Rules

VARIABLES
  phase,    \* "collecting" infos, "serving" refreshes, or "closing"
  rules,    \* the hook and ignore infos accepted so far
  entries,  \* the infos each remembered library was hooked with
  owed      \* the callers with an asynchronous request not served yet

svars == <<phase, rules, entries, owed>>

SInit ==
  /\ phase = "collecting"
  /\ rules = {} /\ entries = {} /\ owed = {}

Accept(r) ==
  /\ phase = "collecting"
  /\ rules' = rules \cup {r}
  /\ UNCHANGED <<phase, entries, owed>>

Start ==
  /\ phase = "collecting"
  /\ phase' = "serving"
  /\ UNCHANGED <<rules, entries, owed>>

Ask(c) ==
  /\ phase = "serving"
  /\ owed' = owed \cup {c}
  /\ UNCHANGED <<phase, rules, entries>>

\* A refresh: whatever it remembers afterwards was hooked with all the rules.
\* A refresh under way when clear begins is completed.
Serve(S) ==
  /\ phase # "collecting"
  /\ entries' \in {entries, {rules}, {}}
  /\ owed' = owed \ S
  /\ UNCHANGED <<phase, rules>>

\* clear begins, from whatever phase the service is in.
Close ==
  /\ phase' = "closing"
  /\ UNCHANGED <<rules, entries, owed>>

Withdraw(S) ==
  /\ phase = "closing"
  /\ owed' = owed \ S
  /\ UNCHANGED <<phase, rules, entries>>

\* clear returns when nothing is owed to anybody.
Reset ==
  /\ phase = "closing"
  /\ owed = {}
  /\ phase' = "collecting"
  /\ rules' = {} /\ entries' = {}
  /\ UNCHANGED owed

SNext ==
  \/ \E r \in Rules : Accept(r)
  \/ Start
  \/ \E c \in Callers : Ask(c)
  \/ \E S \in SUBSET Callers : Serve(S) \/ Withdraw(S)
  \/ Close
  \/ Reset

SSpec == SInit /\ [][SNext]_svars

\* Every remembered library was hooked with exactly the rules in force.
EntriesUpToDate == entries \subseteq {rules}
=============================================================================
