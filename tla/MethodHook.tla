----------------------------- MODULE MethodHook -----------------------------
(* What is done to the methods of an application: java_method_hook on both   *)
(* virtual machines, of which isArt says once for the process which it is,   *)
(* and the build that adds code to methods.                                  *)
EXTENDS ArtHook, DalvikHook, AsmPlugin

VARIABLE vm                    \* "dalvik" or "art", and "build" for the plug-in

methodVars == <<vm, artVars, dvmVars, asmVars>>

IsArt == vm = "art"

MethodInit ==
  /\ vm \in {"dalvik", "art", "build"} /\ ArtInit /\ DvmInit /\ AsmInit
  /\ vm # "dalvik" => method = CHOOSE m \in DvmMethods : TRUE
  /\ vm # "build" => project = CHOOSE p \in Projects : TRUE

\* java_method_hook and the calls of the hooked methods, or a build.
MethodNext ==
  /\ UNCHANGED vm
  /\ \/ IsArt /\ ArtNext /\ UNCHANGED <<dvmVars, asmVars>>
     \/ vm = "dalvik" /\ DvmNext /\ UNCHANGED <<artVars, asmVars>>
     \/ vm = "build" /\ AsmNext /\ UNCHANGED <<artVars, dvmVars>>

MethodSpec == MethodInit /\ [][MethodNext]_methodVars

\* A method call crashes only for a reason the two modules name.
CallsSafe == ArtCallsSafe /\ DvmCallsSafe
=============================================================================
