------------------------------ MODULE DalvikHook ------------------------------
(* The Dalvik half of artmethodhook: dalvik_java_method_hook copies a Method, *)
(* turns it into a native one whose handler invokes the copy, and works out   *)
(* from its signature what the handler and the VM need to pass arguments.     *)
(*                                                                            *)
(* A signature is the sequence of its parameter descriptors, each with its    *)
(* letter, whether it is an array and of how many dimensions, and the length  *)
(* of the element's descriptor, which is 1 but for a class.                   *)
EXTENDS Integers, Sequences, FiniteSets

CONSTANTS DvmThreads, DvmInfos,
          DvmMethods,          \* [sig, ret, static, native, class]: the class is known to the
                               \* "system", to a "loader" of the application, or "missing"
          CountShift,          \* DALVIK_JNI_COUNT_SHIFT
          MaxDvmCalls             \* bound: calls of the method

\* A HookInfo is an address, which the values insns has without it are not, and a
\* signature is finite.
ASSUME DalvikAssumption ==
  /\ DvmInfos \subseteq Nat \ {0} /\ CountShift \in Nat
  /\ \A m \in DvmMethods :
       /\ m.native \in BOOLEAN /\ Len(m.sig) \in Nat
       /\ \A k \in 1..Len(m.sig) : m.sig[k].array \in Nat /\ m.sig[k].length \in Nat

VARIABLES method,              \* what the method is like, and its class
          now,                 \* the Method as it is: native, func, insns, argsSize, hints
          dinfo,               \* each HookInfo: the copy, the types, what the hook returned
          hook,                \* each thread's hook: the HookInfo and the next write
          dcrash,              \* why a call or hook has failed, "no" while none has
          doverlap, dcalls

dvmVars == <<method, now, dinfo, hook, dcrash, doverlap, dcalls>>

Wide == {"D", "J"}
Primitives == Wide \cup {"Z", "C", "F", "B", "S", "I"}

\* The shorty of a parameter: its letter, L for any reference.
Short(p) == IF p.array > 0 THEN "L" ELSE p.type
Shorty(sig) == [k \in 1..Len(sig) |-> Short(sig[k])]

\* A loop over a signature, from base on: what it has come to after each parameter.
After(op(_, _), base, s) ==
  LET after[k \in 0..Len(s)] == IF k = 0 THEN base ELSE op(after[k - 1], s[k])
  IN after

\* The argument words of a parameter.
Words(c) == IF c \in Wide THEN 2 ELSE 1

\* calcMethodArgsSize
Sized(n, c) == n + Words(c)
CalcMethodArgsSize(shorty) == After(Sized, 0, shorty)[Len(shorty)]

\* One parameter more: a wide one is put at an even word, behind a padding word.
\* flags are the bits set in padFlags, mask is the bit of padMask.
Placed(s, c) ==
  LET pad == c \in Wide /\ s.offset % 2 = 1
      words == Words(c) + IF pad THEN 1 ELSE 0
  IN [flags |-> IF pad THEN s.flags \cup {s.mask} ELSE s.flags,
      offset |-> s.offset + words, mask |-> s.mask + words]

\* dvmPlatformInvokeHints: the words beyond r2/r3 in pairs, and the padding words.
PlatformInvokeHints(shorty) ==
  LET s == After(Placed, [flags |-> {}, offset |-> 0, mask |-> 0], shorty)[Len(shorty)]
      stacked == IF s.offset < 2 THEN 0 ELSE s.offset - 2
  IN IF s.offset > CountShift THEN [none |-> TRUE, count |-> 0, flags |-> {}]
     ELSE [none |-> FALSE, count |-> (stacked + 1) \div 2, flags |-> s.flags]

\* dvmComputeJniArgInfo: the kind of the result beside the hints.
ReturnType(ret) ==
  CASE ret = "V" -> "VOID" [] ret = "F" -> "FLOAT" [] ret = "D" -> "DOUBLE" [] ret = "J" -> "S8"
    [] ret \in {"Z", "B"} -> "S1" [] ret = "C" -> "U2" [] ret = "S" -> "S2" [] OTHER -> "S4"

ComputeJniArgInfo(shorty, ret) == [ret |-> ReturnType(ret), hints |-> PlatformInvokeHints(shorty)]

\* dvmBoxMethodArgs: the words each boxed argument is made of.
Boxed(s, c) == [next |-> s.next + Words(c),
                words |-> Append(s.words, [first |-> s.next, wide |-> c \in Wide])]
BoxMethodArgs(shorty) == After(Boxed, [next |-> 0, words |-> <<>>], shorty)[Len(shorty)].words

\* dvmGetMethodParamTypes, one parameter: isArray is reset behind an L only, and an
\* array is looked up by the character before the element and the element.
TypeOf(s, p) ==
  LET isArray == s.isArray \/ p.array > 0
      before  == IF p.array > 0 THEN "[" ELSE s.before
  IN [isArray |-> isArray /\ p.type \in Primitives,
      before |-> IF p.type \in Primitives THEN p.type ELSE ";",
      types |-> Append(s.types, [prefix |-> IF isArray THEN before ELSE "", type |-> p.type])]

ParamTypes(sig) == After(TypeOf, [isArray |-> FALSE, before |-> "(", types |-> <<>>], sig)
GetMethodParamTypes(sig) == ParamTypes(sig)[Len(sig)].types

\* A class's descriptor, and the mark of the array before it, is copied to a buffer
\* whose last byte is to stay 0.
BufferSize == 128
Overruns(sig) ==
  \E k \in 1..Len(sig) :
    /\ sig[k].type \notin Primitives
    /\ sig[k].length + (IF ParamTypes(sig)[k - 1].isArray \/ sig[k].array > 0 THEN 1 ELSE 0) >= BufferSize

\* dvmFindJNIClass: FindClass, then the application's loaders.
FindJNIClass == method.class \in {"system", "loader"}

\* What insns points to, when not to a HookInfo: bytecode, or the native function.
Dex == 0
Jni == -1

Fresh(m) == [native |-> m.native, func |-> IF m.native THEN "bridge" ELSE "none",
             insns |-> IF m.native THEN Jni ELSE Dex,
             argsSize |-> -1, hints |-> <<>>]          \* what the loader computed
NoInfo == [copy |-> [native |-> FALSE, func |-> "none", insns |-> Dex, argsSize |-> -1, hints |-> <<>>],
           params |-> <<>>, ret |-> "none"]

DvmInit ==
  /\ method \in DvmMethods
  /\ now = Fresh(method)
  /\ dinfo = [i \in DvmInfos |-> NoInfo]
  /\ hook = [t \in DvmThreads |-> [info |-> 0, at |-> "idle"]]
  /\ dcrash = "no" /\ doverlap = FALSE /\ dcalls = 0

Hooking(t, at) == dcrash = "no" /\ hook[t].at = at
HookBusy == \E t \in DvmThreads : hook[t].at # "idle"

\* The class is not found, or the method is hooked: -1.
Answer(t, i) ==
  /\ Hooking(t, "idle") /\ dinfo[i].ret = "none"
  /\ ~FindJNIClass \/ now.func = "handler"
  /\ dinfo' = [dinfo EXCEPT ![i].ret = "-1"]
  /\ UNCHANGED <<method, now, hook, dcrash, doverlap, dcalls>>

\* Mutant of MayHook: a hooked method is hooked again.
MayHookAlways == FindJNIClass

MayHook == FindJNIClass /\ now.func # "handler"

\* The Method is copied and the HookInfo filled in.
Backup(t, i) ==
  /\ Hooking(t, "idle") /\ dinfo[i].ret = "none" /\ MayHook
  /\ \A u \in DvmThreads : hook[u].info # i
  /\ ~Overruns(method.sig)
  /\ dinfo' = [dinfo EXCEPT ![i] = [copy |-> now, params |-> GetMethodParamTypes(method.sig), ret |-> "none"]]
  /\ hook' = [hook EXCEPT ![t] = [info |-> i, at |-> "flags"]]
  /\ doverlap' = (doverlap \/ HookBusy)
  /\ UNCHANGED <<method, now, dcrash, dcalls>>

\* ... unless the names of its classes do not fit, which ends what can be said.
Overrun(t, i) ==
  /\ Hooking(t, "idle") /\ dinfo[i].ret = "none" /\ MayHook
  /\ \A u \in DvmThreads : hook[u].info # i
  /\ Overruns(method.sig)
  /\ dcrash' = "buffer"
  /\ UNCHANGED <<method, now, dinfo, hook, doverlap, dcalls>>

\* Mutant of ArgsSize: this is counted for a static method.
ArgsSizeStatic == CalcMethodArgsSize(Shorty(method.sig)) + IF method.static THEN 1 ELSE 0

ArgsSize == CalcMethodArgsSize(Shorty(method.sig)) + IF method.static THEN 0 ELSE 1

\* ACC_NATIVE, the sizes and jniArgInfo ...
SetFlags(t) ==
  /\ Hooking(t, "flags")
  /\ now' = [now EXCEPT !.native = TRUE, !.argsSize = ArgsSize,
                        !.hints = ComputeJniArgInfo(Shorty(method.sig), method.ret)]
  /\ hook' = [hook EXCEPT ![t].at = "insns"]
  /\ UNCHANGED <<method, dinfo, dcrash, doverlap, dcalls>>

\* ... then insns, then nativeFunc.
SetInsns(t) ==
  /\ Hooking(t, "insns")
  /\ now' = [now EXCEPT !.insns = hook[t].info]
  /\ hook' = [hook EXCEPT ![t].at = "func"]
  /\ UNCHANGED <<method, dinfo, dcrash, doverlap, dcalls>>

SetFunc(t) ==
  /\ Hooking(t, "func")
  /\ now' = [now EXCEPT !.func = "handler"]
  /\ dinfo' = [dinfo EXCEPT ![hook[t].info].ret = "0"]
  /\ hook' = [hook EXCEPT ![t] = [info |-> 0, at |-> "idle"]]
  /\ UNCHANGED <<method, dcrash, doverlap, dcalls>>

\* The VM can run a Method: its code is of the kind its flags and function say.
Runs(m) == IF m.native THEN m.func = "bridge" /\ m.insns = Jni ELSE m.insns = Dex

\* dvmInvokeMethod holds every argument against the type it is given for it; null
\* passes for any class, so a wrong type may go unnoticed.
Accepts(sig, types) ==
  \A k \in 1..Len(sig) :
    types[k] = [prefix |-> CASE sig[k].array = 0 -> "" [] sig[k].array = 1 -> "[" [] OTHER -> "[[",
                type |-> sig[k].type]

\* A thread calls the method: the handler takes insns for the HookInfo, and invokes
\* the copy with the arguments and the types of the HookInfo.
Call ==
  /\ dcrash = "no" /\ dcalls < MaxDvmCalls
  /\ dcalls' = dcalls + 1
  /\ doverlap' = (doverlap \/ HookBusy)
  /\ LET handled == now.native /\ now.func = "handler"
     IN dcrash' \in IF handled /\ now.insns \notin DvmInfos THEN {"info"}
                    ELSE IF ~Runs(IF handled THEN dinfo[now.insns].copy ELSE now) THEN {"code"}
                    ELSE IF handled /\ ~Accepts(method.sig, dinfo[now.insns].params) THEN {"types", "no"}
                    ELSE {"no"}
  /\ UNCHANGED <<method, now, dinfo, hook>>

DvmNext ==
  \/ \E t \in DvmThreads : \/ SetFlags(t) \/ SetInsns(t) \/ SetFunc(t)
                           \/ \E i \in DvmInfos : Answer(t, i) \/ Backup(t, i) \/ Overrun(t, i)
  \/ Call
-----------------------------------------------------------------------------
(* Properties.                                                              *)

\* Only the last parameter is an array of primitives, and none has two dimensions.
Plain(sig) == \A k \in 1..Len(sig) :
                /\ sig[k].array <= 1
                /\ sig[k].array = 1 /\ sig[k].type \in Primitives => k = Len(sig)

\* While nothing overlaps a hook, every call runs the method or, through the
\* handler, its copy, which is the method from before the hook, and a second hook
\* changes nothing; and whatever overlaps, a call of a hooked method only fails on
\* the types of its arguments, and a hook on the names of their classes, where an
\* array of primitives comes before another parameter or an array has two
\* dimensions, and where a class's descriptor has at least 127 characters
\* (DalvikMethodHook.cpp:254-392).
DvmCallsSafe ==
  /\ ~doverlap => /\ dcrash \notin {"info", "code"}
                  /\ \A i \in DvmInfos : dinfo[i].ret = "0" => dinfo[i].copy = Fresh(method)
                  /\ Cardinality({i \in DvmInfos : dinfo[i].ret = "0"}) <= 1
  /\ dcrash = "types" => ~Plain(method.sig)
  /\ dcrash = "buffer" => \E k \in 1..Len(method.sig) :
                            method.sig[k].type \notin Primitives /\ method.sig[k].length + 1 >= BufferSize

\* The argument words before parameter k.
First(shorty, k) ==
  Cardinality({x \in (1..(k - 1)) \X {1, 2} : x[2] = 1 \/ shorty[x[1]] \in Wide})

\* The place, among the words and the padding words, of parameter k.
Free(flags, s) == Cardinality({x \in 0..(s - 1) : x \notin flags})
Place(shorty, flags, k) ==
  CHOOSE s \in 0..CountShift : s \notin flags /\ Free(flags, s) = First(shorty, k)

BoxedRight(shorty, boxed) ==
  /\ Len(boxed) = Len(shorty)
  /\ \A k \in 1..Len(shorty) : boxed[k] = [first |-> First(shorty, k), wide |-> shorty[k] \in Wide]

WidesEven(shorty, flags) ==
  \A k \in 1..Len(shorty) : shorty[k] \in Wide =>
    Place(shorty, flags, k) % 2 = 0 /\ Place(shorty, flags, k) + 1 \notin flags
WidesPadded(shorty, flags) ==
  \A b \in flags : b % 2 = 1 /\ \E k \in 1..Len(shorty) :
                                shorty[k] \in Wide /\ Place(shorty, flags, k) = b + 1
Counted(shorty, flags, count) ==
  LET words == Place(shorty, flags, Len(shorty)) + Words(shorty[Len(shorty)])
  IN Len(shorty) > 0 => 2 * count \in (words - 2)..words

HintsRight(shorty, h) ==
  ~h.none => /\ WidesEven(shorty, h.flags) /\ WidesPadded(shorty, h.flags)
             /\ Counted(shorty, h.flags, h.count)

TypesRight(sig, types) ==
  /\ Len(types) = Len(sig)
  /\ \A k \in 1..Len(sig) :
       types[k] = [prefix |-> IF sig[k].array = 1 THEN "[" ELSE "", type |-> sig[k].type]

\* What a hook computes from the signature is right for every signature: the
\* boxed arguments and the frame size cover the argument words exactly, wide
\* ones get two; the padding words of the hints put every wide argument at an
\* even word, and nothing else is padded; the types are those of the
\* parameters, unless an array of primitives comes before another parameter
\* or an array has two dimensions (DalvikMethodHook.cpp:15-88, 199-322).
SignatureRead ==
  \A t \in DvmThreads : hook[t].at = "insns" =>
    LET shorty == Shorty(method.sig)
    IN /\ BoxedRight(shorty, BoxMethodArgs(shorty))
       /\ now.argsSize = First(shorty, Len(shorty) + 1) + IF method.static THEN 0 ELSE 1
       /\ HintsRight(shorty, now.hints.hints)
       /\ Plain(method.sig) => TypesRight(method.sig, dinfo[hook[t].info].params)
=============================================================================
