------------------------------- MODULE ArtHook -------------------------------
(* The ART half of artmethodhook: art_java_method_hook puts the dispatcher   *)
(* into the entry point of a method and the HookInfo where its native code   *)
(* was; artQuickToDispatcher puts the native code back while the original    *)
(* runs and the HookInfo after it.  Nothing of it is locked.                 *)
(*                                                                           *)
(* A class that is not initialised has methods with a trampoline for entry   *)
(* point; the runtime puts the code there when it initialises the class.     *)
EXTENDS Integers, Sequences, FiniteSets, SequencesExt

CONSTANTS Threads,
          ArtMethods,          \* [jni, object, stub, static]: native; returns an object; begins with a trampoline
          ArtClasses,          \* the classes of receivers and results
          ArtInfos,            \* the HookInfos of the calls of java_method_hook
          Target,              \* the method each of them is for
          MaxFrames, MaxInvokes \* bounds: nesting of a thread, invocations of hooked methods

ASSUME ArtAssumption ==
  /\ ArtMethods \subseteq [jni : BOOLEAN, object : BOOLEAN, stub : BOOLEAN, static : BOOLEAN]
  /\ Target \in [ArtInfos -> ArtMethods]

VARIABLES meth,                \* entry point and native code of each method
          info,                \* entrypoint and nativecode of each HookInfo
          stack,               \* the hooks and dispatched calls of each thread, the newest last
          named,               \* classes whose name has been computed: name_ is NULL until somebody asks for it
          crash,               \* why the process has crashed, "no" while it has not, and in a call of which method
          overlap,             \* methods that were entered while a hook or call of them was under way
          elsewhere,           \* methods initialised from elsewhere than a dispatched call
          invokes

artVars == <<meth, info, stack, named, crash, overlap, elsewhere, invokes>>

Code == [kind |-> "code", id |-> 0]
Info(i) == [kind |-> "info", id |-> i]
Unset == [entrypoint |-> "none", nativecode |-> Code]

ArtInit ==
  /\ meth = [m \in ArtMethods |-> [entry |-> IF m.stub THEN "stub" ELSE "code", native |-> Code]]
  /\ info = [i \in ArtInfos |-> Unset]
  /\ stack = [t \in Threads |-> <<>>]
  /\ named \in SUBSET ArtClasses
  /\ crash = [why |-> "no", of |-> {}] /\ overlap = {} /\ elsewhere = {} /\ invokes = 0

Top(t) == Last(stack[t])
Running == crash.why = "no"
At(t, what, at) == Running /\ stack[t] # <<>> /\ Top(t).what = what /\ Top(t).at = at
SetTop(t, f) == stack' = [stack EXCEPT ![t] = Append(Front(@), f)]
Go(t, at) == SetTop(t, [Top(t) EXCEPT !.at = at])
Pop(t) == stack' = [stack EXCEPT ![t] = Front(@)]

Busy(m) == \E t \in Threads : \E k \in 1..Len(stack[t]) : stack[t][k].m = m
Push(t, what, m, i, at) ==
  /\ stack' = [stack EXCEPT ![t] = Append(@, [what |-> what, m |-> m, info |-> i, at |-> at, entry |-> "none"])]
  /\ overlap' = IF Busy(m) THEN overlap \cup {m} ELSE overlap

Crash(why, m) == /\ crash' = [why |-> why, of |-> {m}]
                 /\ UNCHANGED <<meth, info, stack, named, overlap, elsewhere, invokes>>

\* art_java_method_hook: the entry point and the native code are saved, unless the
\* dispatcher is there; without the class or the method nothing happens.
Hook(t) ==
  /\ Running /\ stack[t] = <<>>
  /\ \E i \in ArtInfos :
       /\ info[i] = Unset
       /\ LET m == Target[i] IN
          /\ meth[m].entry # "dispatcher"
          /\ info' = [info EXCEPT ![i] = [entrypoint |-> meth[m].entry, nativecode |-> meth[m].native]]
          /\ Push(t, "hook", m, i, "entry")
  /\ UNCHANGED <<meth, named, crash, elsewhere, invokes>>

HookEntry(t) ==
  /\ At(t, "hook", "entry")
  /\ meth' = [meth EXCEPT ![Top(t).m].entry = "dispatcher"] /\ Go(t, "info")
  /\ UNCHANGED <<info, named, crash, overlap, elsewhere, invokes>>

HookNative(t) ==
  /\ At(t, "hook", "info")
  /\ meth' = [meth EXCEPT ![Top(t).m].native = Info(Top(t).info)] /\ Pop(t)
  /\ UNCHANGED <<info, named, crash, overlap, elsewhere, invokes>>

\* A thread calls a method: from outside, or from an original that runs.
MayInvoke(t) ==
  /\ Running /\ invokes < MaxInvokes /\ Len(stack[t]) < MaxFrames
  /\ stack[t] # <<>> => At(t, "call", "original")

\* The entry point is the method's own: native code is called through the method.
InvokePlain(t, m) ==
  /\ MayInvoke(t) /\ meth[m].entry # "dispatcher" /\ m.jni /\ meth[m].native # Code
  /\ Crash("native", m)

InvokeHooked(t, m) ==
  /\ MayInvoke(t) /\ meth[m].entry = "dispatcher"
  /\ Push(t, "call", m, 0, "enter") /\ invokes' = invokes + 1
  /\ UNCHANGED <<meth, info, named, crash, elsewhere>>

\* artQuickToDispatcher: whatever is in the place of the native code is the HookInfo;
\* the class of the receiver is asked for its name.
Enter(t) ==
  /\ At(t, "call", "enter")
  /\ LET m == Top(t).m
         n == meth[m].native
     IN \/ n.kind # "info" /\ Crash("info", m)
        \/ /\ n.kind = "info"
           /\ \/ ~m.static /\ named # ArtClasses /\ Crash("name", m)
              \/ /\ m.static \/ named # {}
                 /\ SetTop(t, [Top(t) EXCEPT !.info = n.id, !.at = "restore"])
                 /\ UNCHANGED <<meth, info, named, crash, overlap, elsewhere, invokes>>

\* The native code comes back while the original runs.
RestoreNative(t) ==
  /\ At(t, "call", "restore")
  /\ LET i == Top(t).info
     IN /\ meth' = [meth EXCEPT ![Top(t).m].native = info[i].nativecode]
        /\ SetTop(t, [Top(t) EXCEPT !.entry = info[i].entrypoint, !.at = "run"])
  /\ UNCHANGED <<info, named, crash, overlap, elsewhere, invokes>>

\* art_quick_call_entrypoint: the saved entry point is called; a trampoline
\* initialises the class first, which puts the code into the entry point.
CallEntrypoint(t) ==
  /\ At(t, "call", "run")
  /\ LET m == Top(t).m
     IN IF Top(t).entry = "dispatcher" THEN Crash("recursion", m)
        ELSE IF m.jni /\ meth[m].native # Code THEN Crash("native", m)
        ELSE /\ meth' = IF Top(t).entry = "stub" /\ m \notin elsewhere
                        THEN [meth EXCEPT ![m].entry = "code"] ELSE meth
             /\ Go(t, "original")
             /\ UNCHANGED <<info, named, crash, overlap, elsewhere, invokes>>

\* The original returns; its result is looked at as if it were an object, and its
\* class is asked for its name.  What is no object may pass for one, or not.
Result(t) ==
  /\ At(t, "call", "original")
  /\ LET m == Top(t).m
     IN \/ ~m.object /\ Crash("result", m)
        \/ m.object /\ Crash("null", m)
        \/ m.object /\ named # ArtClasses /\ Crash("name", m)
        \/ /\ m.object => named # {}
           /\ Go(t, "after") /\ UNCHANGED <<meth, info, named, crash, overlap, elsewhere, invokes>>

\* Mutant of Rehook: the entry point is saved after the dispatcher is there again.
RehookLate(t) ==
  /\ At(t, "call", "after")
  /\ LET m == Top(t).m IN
     IF meth[m].entry # "dispatcher"
     THEN /\ meth' = [meth EXCEPT ![m].entry = "dispatcher"]
          /\ info' = [info EXCEPT ![Top(t).info] = [entrypoint |-> meth'[m].entry, nativecode |-> meth[m].native]]
     ELSE UNCHANGED <<meth, info>>
  /\ Go(t, "set")
  /\ UNCHANGED <<named, crash, overlap, elsewhere, invokes>>

\* A replaced entry point is the one to call from now on.
Rehook(t) ==
  /\ At(t, "call", "after")
  /\ LET m == Top(t).m IN
     IF meth[m].entry # "dispatcher"
     THEN /\ meth' = [meth EXCEPT ![m].entry = "dispatcher"]
          /\ info' = [info EXCEPT ![Top(t).info] = [entrypoint |-> meth[m].entry, nativecode |-> meth[m].native]]
     ELSE UNCHANGED <<meth, info>>
  /\ Go(t, "set")
  /\ UNCHANGED <<named, crash, overlap, elsewhere, invokes>>

SetInfo(t) ==
  /\ At(t, "call", "set")
  /\ meth' = [meth EXCEPT ![Top(t).m].native = Info(Top(t).info)] /\ Pop(t)
  /\ UNCHANGED <<info, named, crash, overlap, elsewhere, invokes>>

\* The runtime initialises the class for another reason: the code replaces whatever
\* the entry point is.
InitElsewhere(m) ==
  /\ Running /\ m.stub /\ m \notin elsewhere
  /\ elsewhere' = elsewhere \cup {m}
  /\ meth' = [meth EXCEPT ![m].entry = "code"]
  /\ UNCHANGED <<info, stack, named, crash, overlap, invokes>>

\* Somebody asks for the name of a class.
ComputeName(c) ==
  /\ Running /\ named' = named \cup {c}
  /\ UNCHANGED <<meth, info, stack, crash, overlap, elsewhere, invokes>>

ArtNext ==
  \/ \E t \in Threads :
       \/ Hook(t) \/ HookEntry(t) \/ HookNative(t) \/ Enter(t) \/ RestoreNative(t)
       \/ CallEntrypoint(t) \/ Result(t) \/ Rehook(t) \/ SetInfo(t)
       \/ \E m \in ArtMethods : InvokePlain(t, m) \/ InvokeHooked(t, m)
  \/ \E m \in ArtMethods : InitElsewhere(m)
  \/ \E c \in ArtClasses \ named : ComputeName(c)
-----------------------------------------------------------------------------
(* Properties.                                                              *)

\* A call of a hooked method takes something else than a HookInfo for one, executes
\* a HookInfo or calls the dispatcher again only where calls or hooks of that very
\* method have overlapped, recursion included, or its class was initialised
\* meanwhile; otherwise it can only crash on a result that is null or no object,
\* or, while some class has no name computed, on the receiver or the result of one
\* (ArtMethodHook.cpp:22-73).
ArtCallsSafe ==
  /\ crash.why \in {"info", "native", "recursion"} => crash.of \subseteq overlap \cup elsewhere
  /\ crash.why = "result" => \A m \in crash.of : ~m.object
  /\ crash.why = "null" => \A m \in crash.of : m.object
  /\ crash.why = "name" => named # ArtClasses /\ \A m \in crash.of : ~m.static \/ m.object

\* Between calls a hooked method holds the dispatcher and a HookInfo of its
\* own, which leads to the method's own code, however often the runtime has
\* put back the entry point during a call (ArtMethodHook.cpp:57-68).
ArtHookStays ==
  \A m \in ArtMethods :
    ~Busy(m) /\ m \notin overlap \cup elsewhere /\ (\E i \in ArtInfos : Target[i] = m /\ info[i] # Unset) =>
      /\ meth[m].entry = "dispatcher" /\ meth[m].native.kind = "info"
      /\ LET i == meth[m].native.id
         IN Target[i] = m /\ info[i].entrypoint \in {"stub", "code"} /\ info[i].nativecode = Code
=============================================================================
