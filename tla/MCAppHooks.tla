----------------------------- MODULE MCAppHooks -----------------------------
(* Hooking inside an application without xHook: the three older hooks of the *)
(* global offset table and the hooks of Java methods, of which a behaviour   *)
(* is about one while the others stand still.                                *)
EXTENDS MCElfHooks, MCMethodHook

ThreadSymmetry == Permutations(Threads) \cup Permutations(DvmThreads)

VARIABLE kind                  \* "table" or "method"

\* What stands still is in one of its initial states.
AppInit ==
  /\ kind \in {"table", "method"}
  /\ kind = "table" => vm = "dalvik" /\ method = (CHOOSE m \in DvmMethods : TRUE) /\ named = {}
  /\ kind = "method" => process = CHOOSE p \in Processes : TRUE
  /\ Init /\ MethodInit

AppNext ==
  /\ UNCHANGED kind
  /\ \/ kind = "table" /\ Next /\ UNCHANGED methodVars
     \/ kind = "method" /\ MethodNext /\ UNCHANGED vars
=============================================================================
