-------------------------- MODULE MethodHookProofs --------------------------
(***************************************************************************)
(* Proofs about the hooks of Java methods, for any threads, methods and    *)
(* HookInfos, any depth of nesting and any number of invocations, and      *)
(* about the builds, for any project and any number of builds.             *)
(***************************************************************************)
EXTENDS MethodHook, SequenceTheorems, FiniteSetTheorems, WellFoundedInduction, TLAPS

ArtSpec == ArtInit /\ [][ArtNext]_artVars

-----------------------------------------------------------------------------
(* The inductive invariant.                                                *)

\* A method's own code, or a HookInfo of that method.
Owned(n, m) == n = Code \/ \E i \in ArtInfos : n = Info(i) /\ Target[i] = m

Places == {"entry", "info", "enter", "restore", "run", "original", "after", "set"}
EntryPoints == {"none", "stub", "code", "dispatcher"}
Natives == {Code} \cup {Info(i) : i \in ArtInfos}

Frame == [what : {"hook", "call"}, m : ArtMethods, info : ArtInfos \cup {0}, entry : EntryPoints, at : Places]

\* A frame knows its HookInfo once the dispatcher has read it.
FrameOwned(f) == f.what = "hook" \/ f.at # "enter" => f.info \in ArtInfos /\ Target[f.info] = f.m

ArtTypeOK ==
  /\ meth \in [ArtMethods -> [entry : EntryPoints, native : Natives]]
  /\ info \in [ArtInfos -> [entrypoint : EntryPoints, nativecode : Natives]]
  /\ stack \in [Threads -> Seq(Frame)]
  /\ overlap \subseteq ArtMethods /\ elsewhere \subseteq ArtMethods

\* No HookInfo is ever found in another method than the one it was made for.
OwnInv ==
  /\ \A m \in ArtMethods : Owned(meth[m].native, m)
  /\ \A i \in ArtInfos : Owned(info[i].nativecode, Target[i])
  /\ \A t \in Threads : \A k \in 1..Len(stack[t]) : FrameOwned(stack[t][k])

OwnEntries == {"stub", "code"}

\* HookInfo i leads to the code of m.
LeadsTo(i, m) ==
  i \in ArtInfos /\ Target[i] = m /\ info[i].entrypoint \in OwnEntries /\ info[i].nativecode = Code

Hooked(m) ==
  meth[m].entry = "dispatcher" /\ \E i \in ArtInfos : meth[m].native = Info(i) /\ LeadsTo(i, m)

NotHooked(m) ==
  /\ meth[m].entry \in OwnEntries /\ meth[m].native = Code
  /\ \A i \in ArtInfos : Target[i] = m => info[i] = Unset

\* What the only hook or call of a method under way has done so far.
Progress(f) ==
  /\ f.what = "hook" => f.at \in {"entry", "info"}
  /\ f.what = "call" => f.at \in {"enter", "restore", "run", "original", "after", "set"}
  /\ f.at = "entry" => meth[f.m].entry \in OwnEntries
  /\ f.at \in {"info", "enter", "restore", "run", "set"} => meth[f.m].entry = "dispatcher"
  /\ f.at \in {"original", "after"} => meth[f.m].entry \in {"dispatcher", "code"}
  /\ f.at = "enter" => Hooked(f.m)
  /\ f.at # "enter" => LeadsTo(f.info, f.m)
  /\ f.at \notin {"enter", "restore"} => meth[f.m].native = Code
  /\ f.at = "run" => f.entry \in OwnEntries

\* While its hooks and calls keep apart, a method has one of them under way, or
\* is hooked, or was never hooked.
MethodInv(m) ==
  m \notin overlap \cup elsewhere =>
    /\ \A t, u \in Threads : \A k \in 1..Len(stack[t]), l \in 1..Len(stack[u]) :
         stack[t][k].m = m /\ stack[u][l].m = m => t = u /\ k = l
    /\ \A t \in Threads : \A k \in 1..Len(stack[t]) : stack[t][k].m = m => Progress(stack[t][k])
    /\ ~Busy(m) => Hooked(m) \/ NotHooked(m)

ArtInv == ArtTypeOK /\ OwnInv /\ \A m \in ArtMethods : MethodInv(m)

-----------------------------------------------------------------------------
(* The stacks.                                                             *)

\* The newest frame of a thread, and the thread's stack without it or with
\* another in its place.
LEMMA Newest ==
  ASSUME NEW S, NEW s \in Seq(S), s # <<>>, NEW f \in S
  PROVE  /\ Len(s) \in Nat /\ Len(s) # 0
         /\ Last(s) = s[Len(s)] /\ Last(s) \in S
         /\ Front(s) \in Seq(S) /\ Len(Front(s)) = Len(s) - 1
         /\ \A k \in 1..Len(s) - 1 : Front(s)[k] = s[k]
         /\ Append(Front(s), f) \in Seq(S) /\ Len(Append(Front(s), f)) = Len(s)
         /\ \A k \in 1..Len(s) : Append(Front(s), f)[k] = IF k = Len(s) THEN f ELSE s[k]
<1>1. Len(s) \in Nat /\ Len(s) # 0 /\ s[Len(s)] \in S
  OBVIOUS
<1>2. Front(s) \in Seq(S) /\ Len(Front(s)) = Len(s) - 1 /\ \A k \in 1..Len(s) - 1 : Front(s)[k] = s[k]
  <2>1. \A k \in 1..Len(s) - 1 : s[k] \in S
    BY <1>1
  <2>2. /\ SubSeq(s, 1, Len(s) - 1) \in Seq(S)
        /\ Len(SubSeq(s, 1, Len(s) - 1)) = IF 1 <= Len(s) - 1 THEN Len(s) - 1 - 1 + 1 ELSE 0
        /\ \A k \in 1..(Len(s) - 1) - 1 + 1 : SubSeq(s, 1, Len(s) - 1)[k] = s[1 + k - 1]
    BY <1>1, <2>1, SubSeqProperties
  <2>3. Len(SubSeq(s, 1, Len(s) - 1)) = Len(s) - 1
    <3>1. CASE Len(s) = 1
      BY <2>2, <3>1
    <3>2. CASE 1 <= Len(s) - 1
      <4>1. Len(s) - 1 - 1 + 1 = Len(s) - 1
        BY <1>1
      <4> QED
        BY <2>2, <3>2, <4>1
    <3>3. \A n \in Nat : n # 0 => n = 1 \/ 1 <= n - 1
      OBVIOUS
    <3> QED
      BY <1>1, <3>1, <3>2, <3>3
  <2>4. \A k \in 1..Len(s) - 1 : SubSeq(s, 1, Len(s) - 1)[k] = s[k]
    <3> SUFFICES ASSUME NEW k \in 1..Len(s) - 1 PROVE SubSeq(s, 1, Len(s) - 1)[k] = s[k]
      OBVIOUS
    <3>1. k \in 1..(Len(s) - 1) - 1 + 1 /\ 1 + k - 1 = k
      BY <1>1
    <3> QED
      BY <2>2, <3>1
  <2> QED
    BY <2>2, <2>3, <2>4 DEF Front
<1>3. Append(Front(s), f) \in Seq(S) /\ Len(Append(Front(s), f)) = Len(s)
  BY <1>1, <1>2, AppendProperties
<1>4. \A k \in 1..Len(s) : Append(Front(s), f)[k] = IF k = Len(s) THEN f ELSE s[k]
  BY <1>1, <1>2, AppendProperties
<1> QED
  BY <1>1, <1>2, <1>3, <1>4 DEF Last

\* What the steps of thread t do to the stacks: its newest frame becomes f, or
\* goes, or f comes on top of it.
Elsewise(t) == \A u \in Threads \ {t} : stack'[u] = stack[u]

Replaced(t, f) ==
  /\ Elsewise(t) /\ Len(stack'[t]) = Len(stack[t])
  /\ \A k \in 1..Len(stack[t]) : stack'[t][k] = IF k = Len(stack[t]) THEN f ELSE stack[t][k]

Popped(t) ==
  /\ Elsewise(t) /\ Len(stack'[t]) = Len(stack[t]) - 1
  /\ \A k \in 1..Len(stack[t]) - 1 : stack'[t][k] = stack[t][k]

Pushed(t, f) ==
  /\ Elsewise(t) /\ Len(stack'[t]) = Len(stack[t]) + 1
  /\ stack'[t][Len(stack[t]) + 1] = f
  /\ \A k \in 1..Len(stack[t]) : stack'[t][k] = stack[t][k]

LEMMA TopFrame ==
  ASSUME ArtTypeOK, NEW t \in Threads, stack[t] # <<>>
  PROVE  /\ Len(stack[t]) \in Nat /\ Len(stack[t]) # 0
         /\ Top(t) = stack[t][Len(stack[t])] /\ Top(t) \in Frame
  BY Newest DEF ArtTypeOK, Top

LEMMA SetTopReplaces ==
  ASSUME ArtTypeOK, NEW t \in Threads, stack[t] # <<>>, NEW f \in Frame, SetTop(t, f)
  PROVE  stack' \in [Threads -> Seq(Frame)] /\ Replaced(t, f)
<1>1. /\ Append(Front(stack[t]), f) \in Seq(Frame) /\ Len(Append(Front(stack[t]), f)) = Len(stack[t])
      /\ \A k \in 1..Len(stack[t]) : Append(Front(stack[t]), f)[k] = IF k = Len(stack[t]) THEN f ELSE stack[t][k]
  <2>1. stack[t] \in Seq(Frame)
    BY DEF ArtTypeOK
  <2> QED
    BY <2>1, Newest
<1>2. stack' = [stack EXCEPT ![t] = Append(Front(stack[t]), f)]
  BY DEF SetTop
<1> QED
  BY <1>1, <1>2 DEF ArtTypeOK, Replaced, Elsewise

LEMMA PopTakes ==
  ASSUME ArtTypeOK, NEW t \in Threads, stack[t] # <<>>, Pop(t)
  PROVE  stack' \in [Threads -> Seq(Frame)] /\ Popped(t)
<1>1. /\ Front(stack[t]) \in Seq(Frame) /\ Len(Front(stack[t])) = Len(stack[t]) - 1
      /\ \A k \in 1..Len(stack[t]) - 1 : Front(stack[t])[k] = stack[t][k]
  <2>1. Top(t) \in Frame /\ stack[t] \in Seq(Frame)
    BY TopFrame DEF ArtTypeOK
  <2> QED
    BY <2>1, Newest
<1>2. stack' = [stack EXCEPT ![t] = Front(stack[t])]
  BY DEF Pop
<1>3. Len(stack[t]) \in Nat /\ Len(stack[t]) # 0
  BY TopFrame
<1> QED
  BY <1>1, <1>2, <1>3 DEF ArtTypeOK, Popped, Elsewise

LEMMA PushAdds ==
  ASSUME ArtTypeOK, NEW t \in Threads, NEW f \in Frame, stack' = [stack EXCEPT ![t] = Append(@, f)]
  PROVE  stack' \in [Threads -> Seq(Frame)] /\ Pushed(t, f)
<1>1. /\ Append(stack[t], f) \in Seq(Frame) /\ Len(Append(stack[t], f)) = Len(stack[t]) + 1
      /\ \A k \in 1..Len(stack[t]) : Append(stack[t], f)[k] = stack[t][k]
      /\ Append(stack[t], f)[Len(stack[t]) + 1] = f
  BY AppendProperties DEF ArtTypeOK
<1> QED
  BY <1>1 DEF ArtTypeOK, Pushed, Elsewise

-----------------------------------------------------------------------------
(* Types, and whose HookInfo is whose.                                     *)

\* A step on frame f of a thread gives it another HookInfo, entry or place.
LEMMA TopIs ==
  ASSUME ArtTypeOK, NEW t \in Threads, NEW what, NEW at, At(t, what, at)
  PROVE  /\ stack[t] # <<>> /\ Top(t) \in Frame /\ Top(t).what = what /\ Top(t).at = at
         /\ Running /\ Top(t).m \in ArtMethods
         /\ Len(stack[t]) \in Nat /\ Len(stack[t]) # 0 /\ Top(t) = stack[t][Len(stack[t])]
  BY TopFrame DEF At, Frame

LEMMA NativeValues ==
  /\ Code \in Natives /\ Code.kind = "code"
  /\ \A i \in ArtInfos : Info(i) \in Natives /\ Info(i).kind = "info" /\ Info(i).id = i
  BY DEF Natives, Code, Info

LEMMA ArtTypeStep == ArtTypeOK /\ OwnInv /\ [ArtNext]_artVars => ArtTypeOK'
<1> SUFFICES ASSUME ArtTypeOK, OwnInv, [ArtNext]_artVars PROVE ArtTypeOK'
  OBVIOUS
<1>1. ASSUME NEW t \in Threads, Hook(t) PROVE ArtTypeOK'
  <2>1. PICK i \in ArtInfos :
          /\ info' = [info EXCEPT ![i] = [entrypoint |-> meth[Target[i]].entry, nativecode |-> meth[Target[i]].native]]
          /\ Push(t, "hook", Target[i], i, "entry")
    BY <1>1 DEF Hook
  <2>2. Target[i] \in ArtMethods
    BY ArtAssumption
  <2>3. [what |-> "hook", m |-> Target[i], info |-> i, at |-> "entry", entry |-> "none"] \in Frame
    BY <2>2 DEF Frame, Places, EntryPoints
  <2>4. stack' \in [Threads -> Seq(Frame)]
    BY <2>1, <2>3, PushAdds DEF Push
  <2>5. overlap' \subseteq ArtMethods
    BY <2>1, <2>2 DEF Push, ArtTypeOK
  <2> QED
    BY <1>1, <2>1, <2>2, <2>4, <2>5 DEF Hook, ArtTypeOK
<1>2. ASSUME NEW t \in Threads, NEW m \in ArtMethods, InvokeHooked(t, m) PROVE ArtTypeOK'
  <2>1. [what |-> "call", m |-> m, info |-> 0, at |-> "enter", entry |-> "none"] \in Frame
    BY DEF Frame, Places, EntryPoints
  <2>2. stack' \in [Threads -> Seq(Frame)]
    BY <1>2, <2>1, PushAdds DEF InvokeHooked, Push
  <2> QED
    BY <1>2, <2>2 DEF InvokeHooked, Push, ArtTypeOK
<1>3. ASSUME NEW t \in Threads, NEW f \in Frame, stack[t] # <<>>, SetTop(t, f)
      PROVE  stack' \in [Threads -> Seq(Frame)]
  BY <1>3, SetTopReplaces
<1>4. ASSUME NEW t \in Threads, NEW at \in Places, stack[t] # <<>>, Go(t, at)
      PROVE  stack' \in [Threads -> Seq(Frame)]
  <2>1. [Top(t) EXCEPT !.at = at] \in Frame
    BY <1>4, TopFrame DEF Frame, Places, EntryPoints
  <2> QED
    BY <1>4, <2>1, SetTopReplaces DEF Go
<1>5. ASSUME NEW t \in Threads, HookEntry(t) PROVE ArtTypeOK'
  <2>1. stack[t] # <<>> /\ Top(t).m \in ArtMethods /\ Go(t, "info")
    BY <1>5, TopIs DEF HookEntry
  <2>2. stack' \in [Threads -> Seq(Frame)]
    BY <1>4, <2>1 DEF Places
  <2> QED
    BY <1>5, <2>1, <2>2 DEF HookEntry, ArtTypeOK, EntryPoints
<1>6. ASSUME NEW t \in Threads, HookNative(t) \/ SetInfo(t) PROVE ArtTypeOK'
  <2>1. stack[t] # <<>> /\ Top(t).m \in ArtMethods /\ Top(t) = stack[t][Len(stack[t])]
        /\ Len(stack[t]) \in 1..Len(stack[t]) /\ (Top(t).what = "hook" \/ Top(t).at # "enter")
    BY <1>6, TopIs DEF HookNative, SetInfo
  <2>2. Top(t).info \in ArtInfos
    BY <2>1 DEF OwnInv, FrameOwned
  <2> QED
    BY <1>6, <2>1, <2>2, PopTakes, NativeValues DEF HookNative, SetInfo, ArtTypeOK
<1>7. ASSUME NEW t \in Threads, Enter(t) PROVE ArtTypeOK'
  <2>1. stack[t] # <<>> /\ Top(t) \in Frame /\ Top(t).m \in ArtMethods
    BY <1>7, TopIs DEF Enter
  <2>2. CASE UNCHANGED <<meth, info, stack, overlap, elsewhere>>
    BY <2>2 DEF ArtTypeOK
  <2>3. CASE /\ meth[Top(t).m].native.kind = "info" /\ UNCHANGED <<meth, info, overlap, elsewhere>>
             /\ SetTop(t, [Top(t) EXCEPT !.info = meth[Top(t).m].native.id, !.at = "restore"])
    <3>1. meth[Top(t).m].native.id \in ArtInfos
      BY <2>1, <2>3, NativeValues DEF OwnInv, Owned
    <3>2. [Top(t) EXCEPT !.info = meth[Top(t).m].native.id, !.at = "restore"] \in Frame
      BY <2>1, <3>1 DEF Frame, Places, EntryPoints
    <3> QED
      BY <1>3, <2>1, <2>3, <3>2 DEF ArtTypeOK
  <2> QED
    BY <1>7, <2>2, <2>3 DEF Enter, Crash
<1>8. ASSUME NEW t \in Threads, RestoreNative(t) PROVE ArtTypeOK'
  <2>1. stack[t] # <<>> /\ Top(t) \in Frame /\ Top(t).m \in ArtMethods /\ Top(t) = stack[t][Len(stack[t])]
        /\ Len(stack[t]) \in 1..Len(stack[t]) /\ Top(t).at # "enter"
    BY <1>8, TopIs DEF RestoreNative
  <2>2. Top(t).info \in ArtInfos
    BY <2>1 DEF OwnInv, FrameOwned
  <2>3. [Top(t) EXCEPT !.entry = info[Top(t).info].entrypoint, !.at = "run"] \in Frame
    BY <2>1, <2>2 DEF Frame, Places, EntryPoints, ArtTypeOK
  <2> QED
    BY <1>3, <1>8, <2>1, <2>2, <2>3 DEF RestoreNative, ArtTypeOK
<1>9. ASSUME NEW t \in Threads, CallEntrypoint(t) PROVE ArtTypeOK'
  <2>1. stack[t] # <<>> /\ Top(t).m \in ArtMethods
    BY <1>9, TopIs DEF CallEntrypoint
  <2>2. CASE UNCHANGED <<meth, info, stack, overlap, elsewhere>>
    BY <2>2 DEF ArtTypeOK
  <2>3. CASE Go(t, "original") /\ UNCHANGED <<info, overlap, elsewhere>>
              /\ (meth' = meth \/ meth' = [meth EXCEPT ![Top(t).m].entry = "code"])
    <3>1. stack' \in [Threads -> Seq(Frame)]
      BY <1>4, <2>1, <2>3 DEF Places
    <3> QED
      BY <2>1, <2>3, <3>1 DEF ArtTypeOK, EntryPoints
  <2> QED
    BY <1>9, <2>2, <2>3 DEF CallEntrypoint, Crash
<1>10. ASSUME NEW t \in Threads, Result(t) PROVE ArtTypeOK'
  <2>1. stack[t] # <<>>
    BY <1>10, TopIs DEF Result
  <2>2. CASE UNCHANGED <<meth, info, stack, overlap, elsewhere>>
    BY <2>2 DEF ArtTypeOK
  <2>3. CASE Go(t, "after") /\ UNCHANGED <<meth, info, overlap, elsewhere>>
    BY <1>4, <2>1, <2>3 DEF ArtTypeOK, Places
  <2> QED
    BY <1>10, <2>2, <2>3 DEF Result, Crash
<1>11. ASSUME NEW t \in Threads, Rehook(t) PROVE ArtTypeOK'
  <2>1. stack[t] # <<>> /\ Top(t) \in Frame /\ Top(t).m \in ArtMethods /\ Top(t) = stack[t][Len(stack[t])]
        /\ Len(stack[t]) \in 1..Len(stack[t]) /\ Top(t).at # "enter"
    BY <1>11, TopIs DEF Rehook
  <2>2. Top(t).info \in ArtInfos
    BY <2>1 DEF OwnInv, FrameOwned
  <2>3. stack' \in [Threads -> Seq(Frame)]
    BY <1>4, <1>11, <2>1 DEF Rehook, Places
  <2>4. CASE UNCHANGED <<meth, info>>
    BY <1>11, <2>3, <2>4 DEF Rehook, ArtTypeOK
  <2>5. CASE /\ meth' = [meth EXCEPT ![Top(t).m].entry = "dispatcher"]
             /\ info' = [info EXCEPT ![Top(t).info] =
                           [entrypoint |-> meth[Top(t).m].entry, nativecode |-> meth[Top(t).m].native]]
    <3>1. meth[Top(t).m].entry \in EntryPoints /\ meth[Top(t).m].native \in Natives
      BY <2>1 DEF ArtTypeOK
    <3>2. info' \in [ArtInfos -> [entrypoint : EntryPoints, nativecode : Natives]]
      BY <2>2, <2>5, <3>1 DEF ArtTypeOK
    <3>3. meth' \in [ArtMethods -> [entry : EntryPoints, native : Natives]]
      BY <2>5 DEF ArtTypeOK, EntryPoints
    <3> QED
      BY <1>11, <2>3, <3>2, <3>3 DEF Rehook, ArtTypeOK
  <2> QED
    BY <1>11, <2>4, <2>5 DEF Rehook
<1>12. ASSUME NEW t \in Threads, NEW m \in ArtMethods, InvokePlain(t, m) PROVE ArtTypeOK'
  BY <1>12 DEF InvokePlain, Crash, ArtTypeOK
<1>13. ASSUME NEW m \in ArtMethods, InitElsewhere(m) PROVE ArtTypeOK'
  BY <1>13 DEF InitElsewhere, ArtTypeOK, EntryPoints
<1>14. CASE UNCHANGED artVars \/ \E c \in ArtClasses : ComputeName(c)
  BY <1>14 DEF artVars, ComputeName, ArtTypeOK
<1> QED
  BY <1>1, <1>2, <1>5, <1>6, <1>7, <1>8, <1>9, <1>10, <1>11, <1>12, <1>13, <1>14 DEF ArtNext

LEMMA OwnStep == ArtTypeOK /\ OwnInv /\ [ArtNext]_artVars => OwnInv'
<1> SUFFICES ASSUME ArtTypeOK, OwnInv, [ArtNext]_artVars PROVE OwnInv'
  OBVIOUS
\* The three parts, when only some of the state changes.
<1>1. ASSUME NEW t \in Threads, NEW f \in Frame, FrameOwned(f), stack[t] # <<>>, SetTop(t, f)
      PROVE  \A u \in Threads : \A k \in 1..Len(stack'[u]) : FrameOwned(stack'[u][k])
  <2>1. Replaced(t, f)
    BY <1>1, SetTopReplaces
  <2> QED
    BY <1>1, <2>1, TopFrame DEF Replaced, Elsewise, OwnInv
<1>2. ASSUME NEW t \in Threads, stack[t] # <<>>, Pop(t)
      PROVE  \A u \in Threads : \A k \in 1..Len(stack'[u]) : FrameOwned(stack'[u][k])
  <2>1. Popped(t)
    BY <1>2, PopTakes
  <2> QED
    BY <1>2, <2>1, TopFrame DEF Popped, Elsewise, OwnInv
<1>3. ASSUME NEW t \in Threads, NEW f \in Frame, FrameOwned(f), stack' = [stack EXCEPT ![t] = Append(@, f)]
      PROVE  \A u \in Threads : \A k \in 1..Len(stack'[u]) : FrameOwned(stack'[u][k])
  <2>1. Pushed(t, f)
    BY <1>3, PushAdds
  <2>2. Len(stack[t]) \in Nat
    BY DEF ArtTypeOK
  <2>3. \A k \in 1..Len(stack[t]) + 1 : k \in 1..Len(stack[t]) \/ k = Len(stack[t]) + 1
    BY <2>2
  <2> QED
    BY <1>3, <2>1, <2>2, <2>3 DEF Pushed, Elsewise, OwnInv
<1>4. ASSUME NEW t \in Threads, stack[t] # <<>>, Top(t).what = "hook" \/ Top(t).at # "enter"
      PROVE  Top(t) \in Frame /\ Top(t).m \in ArtMethods /\ Top(t).info \in ArtInfos /\ Target[Top(t).info] = Top(t).m
  <2>1. Top(t) \in Frame /\ Top(t).m \in ArtMethods /\ Top(t) = stack[t][Len(stack[t])] /\ Len(stack[t]) \in 1..Len(stack[t])
    BY <1>4, TopFrame DEF Frame
  <2> QED
    BY <1>4, <2>1 DEF OwnInv, FrameOwned
<1>5. ASSUME NEW t \in Threads, stack[t] # <<>>, Top(t).what = "hook" \/ Top(t).at # "enter",
             NEW at \in Places, Go(t, at)
      PROVE  \A u \in Threads : \A k \in 1..Len(stack'[u]) : FrameOwned(stack'[u][k])
  <2>1. [Top(t) EXCEPT !.at = at] \in Frame
    BY <1>4, <1>5 DEF Frame
  <2>2. FrameOwned([Top(t) EXCEPT !.at = at])
    BY <1>4, <1>5 DEF FrameOwned, Frame
  <2> QED
    BY <1>1, <1>5, <2>1, <2>2 DEF Go
<1>6. ASSUME NEW t \in Threads, Hook(t) PROVE OwnInv'
  <2>1. PICK i \in ArtInfos :
          /\ info' = [info EXCEPT ![i] = [entrypoint |-> meth[Target[i]].entry, nativecode |-> meth[Target[i]].native]]
          /\ Push(t, "hook", Target[i], i, "entry")
    BY <1>6 DEF Hook
  <2>2. Target[i] \in ArtMethods
    BY ArtAssumption
  <2>3. [what |-> "hook", m |-> Target[i], info |-> i, at |-> "entry", entry |-> "none"] \in Frame
    BY <2>2 DEF Frame, Places, EntryPoints
  <2>4. FrameOwned([what |-> "hook", m |-> Target[i], info |-> i, at |-> "entry", entry |-> "none"])
    BY DEF FrameOwned
  <2>5. \A u \in Threads : \A k \in 1..Len(stack'[u]) : FrameOwned(stack'[u][k])
    BY <1>3, <2>1, <2>3, <2>4 DEF Push
  <2>6. \A j \in ArtInfos : Owned(info'[j].nativecode, Target[j])
    BY <2>1, <2>2 DEF OwnInv, ArtTypeOK
  <2>7. \A m \in ArtMethods : Owned(meth'[m].native, m)
    BY <1>6 DEF Hook, OwnInv
  <2> QED
    BY <2>5, <2>6, <2>7 DEF OwnInv, Owned
<1>7. ASSUME NEW t \in Threads, HookEntry(t) PROVE OwnInv'
  <2>1. stack[t] # <<>> /\ Top(t).what = "hook" /\ Go(t, "info") /\ Top(t).m \in ArtMethods
    BY <1>7, TopIs DEF HookEntry
  <2>2. \A u \in Threads : \A k \in 1..Len(stack'[u]) : FrameOwned(stack'[u][k])
    BY <1>5, <2>1 DEF Places
  <2>3. \A m \in ArtMethods : meth'[m].native = meth[m].native
    BY <1>7, <2>1 DEF HookEntry, ArtTypeOK
  <2> QED
    BY <1>7, <2>2, <2>3 DEF HookEntry, OwnInv, Owned
<1>8. ASSUME NEW t \in Threads, HookNative(t) \/ SetInfo(t) PROVE OwnInv'
  <2>1. stack[t] # <<>> /\ (Top(t).what = "hook" \/ Top(t).at # "enter") /\ Pop(t) /\ info' = info
        /\ meth' = [meth EXCEPT ![Top(t).m].native = Info(Top(t).info)]
    BY <1>8, TopIs DEF HookNative, SetInfo
  <2>2. Top(t).m \in ArtMethods /\ Top(t).info \in ArtInfos /\ Target[Top(t).info] = Top(t).m
    BY <1>4, <2>1
  <2>3. \A m \in ArtMethods : meth'[m].native = IF m = Top(t).m THEN Info(Top(t).info) ELSE meth[m].native
    BY <2>1 DEF ArtTypeOK
  <2> QED
    BY <1>2, <2>1, <2>2, <2>3 DEF OwnInv, Owned
<1>9. ASSUME NEW t \in Threads, NEW m \in ArtMethods, InvokeHooked(t, m) PROVE OwnInv'
  <2>1. [what |-> "call", m |-> m, info |-> 0, at |-> "enter", entry |-> "none"] \in Frame
    BY DEF Frame, Places, EntryPoints
  <2>2. FrameOwned([what |-> "call", m |-> m, info |-> 0, at |-> "enter", entry |-> "none"])
    BY DEF FrameOwned
  <2>3. \A u \in Threads : \A k \in 1..Len(stack'[u]) : FrameOwned(stack'[u][k])
    BY <1>3, <1>9, <2>1, <2>2 DEF InvokeHooked, Push
  <2> QED
    BY <1>9, <2>3 DEF InvokeHooked, OwnInv
<1>10. ASSUME UNCHANGED <<meth, info, stack>> PROVE OwnInv'
  BY <1>10 DEF OwnInv, Owned
<1>11. ASSUME NEW t \in Threads, Enter(t) PROVE OwnInv'
  <2>1. stack[t] # <<>> /\ Top(t) \in Frame /\ Top(t).m \in ArtMethods
    BY <1>11, TopIs DEF Enter
  <2>2. CASE UNCHANGED <<meth, info, stack>>
    BY <1>10, <2>2
  <2>3. CASE /\ meth[Top(t).m].native.kind = "info" /\ UNCHANGED <<meth, info>>
             /\ SetTop(t, [Top(t) EXCEPT !.info = meth[Top(t).m].native.id, !.at = "restore"])
    <3>1. meth[Top(t).m].native.id \in ArtInfos /\ Target[meth[Top(t).m].native.id] = Top(t).m
      BY <2>1, <2>3, NativeValues DEF OwnInv, Owned
    <3>2. [Top(t) EXCEPT !.info = meth[Top(t).m].native.id, !.at = "restore"] \in Frame
      BY <2>1, <3>1 DEF Frame, Places
    <3>3. FrameOwned([Top(t) EXCEPT !.info = meth[Top(t).m].native.id, !.at = "restore"])
      BY <2>1, <3>1 DEF FrameOwned, Frame
    <3>4. \A u \in Threads : \A k \in 1..Len(stack'[u]) : FrameOwned(stack'[u][k])
      BY <1>1, <2>1, <2>3, <3>2, <3>3
    <3> QED
      BY <2>3, <3>4 DEF OwnInv, Owned
  <2> QED
    BY <1>11, <2>2, <2>3 DEF Enter, Crash
<1>12. ASSUME NEW t \in Threads, RestoreNative(t) PROVE OwnInv'
  <2>1. stack[t] # <<>> /\ Top(t).at # "enter" /\ meth' = [meth EXCEPT ![Top(t).m].native = info[Top(t).info].nativecode]
    BY <1>12, TopIs DEF RestoreNative
  <2>2. Top(t) \in Frame /\ Top(t).m \in ArtMethods /\ Top(t).info \in ArtInfos /\ Target[Top(t).info] = Top(t).m
    BY <1>4, <2>1
  <2>3. [Top(t) EXCEPT !.entry = info[Top(t).info].entrypoint, !.at = "run"] \in Frame
    BY <2>2 DEF Frame, Places, EntryPoints, ArtTypeOK
  <2>4. FrameOwned([Top(t) EXCEPT !.entry = info[Top(t).info].entrypoint, !.at = "run"])
    BY <2>2 DEF FrameOwned, Frame
  <2>5. \A u \in Threads : \A k \in 1..Len(stack'[u]) : FrameOwned(stack'[u][k])
    BY <1>1, <1>12, <2>1, <2>3, <2>4 DEF RestoreNative
  <2>6. \A m \in ArtMethods : Owned(meth'[m].native, m)
    BY <2>1, <2>2 DEF OwnInv, ArtTypeOK
  <2> QED
    BY <1>12, <2>5, <2>6 DEF RestoreNative, OwnInv, Owned
<1>13. ASSUME NEW t \in Threads, CallEntrypoint(t) PROVE OwnInv'
  <2>1. stack[t] # <<>> /\ Top(t).at # "enter" /\ Top(t).m \in ArtMethods
    BY <1>13, TopIs DEF CallEntrypoint
  <2>2. CASE Go(t, "original") /\ info' = info
              /\ (meth' = meth \/ meth' = [meth EXCEPT ![Top(t).m].entry = "code"])
    <3>1. \A u \in Threads : \A k \in 1..Len(stack'[u]) : FrameOwned(stack'[u][k])
      BY <1>5, <2>1, <2>2 DEF Places
    <3>2. \A m \in ArtMethods : meth'[m].native = meth[m].native
      BY <2>1, <2>2 DEF ArtTypeOK
    <3> QED
      BY <2>2, <3>1, <3>2 DEF OwnInv, Owned
  <2> QED
    BY <1>10, <1>13, <2>2 DEF CallEntrypoint, Crash
<1>14. ASSUME NEW t \in Threads, Result(t) PROVE OwnInv'
  <2>1. stack[t] # <<>> /\ Top(t).at # "enter"
    BY <1>14, TopIs DEF Result
  <2>2. CASE Go(t, "after") /\ UNCHANGED <<meth, info>>
    <3>1. \A u \in Threads : \A k \in 1..Len(stack'[u]) : FrameOwned(stack'[u][k])
      BY <1>5, <2>1, <2>2 DEF Places
    <3> QED
      BY <2>2, <3>1 DEF OwnInv, Owned
  <2> QED
    BY <1>10, <1>14, <2>2 DEF Result, Crash
<1>15. ASSUME NEW t \in Threads, Rehook(t) PROVE OwnInv'
  <2>1. stack[t] # <<>> /\ Top(t).at # "enter" /\ Go(t, "set")
    BY <1>15, TopIs DEF Rehook
  <2>2. Top(t) \in Frame /\ Top(t).m \in ArtMethods /\ Top(t).info \in ArtInfos /\ Target[Top(t).info] = Top(t).m
    BY <1>4, <2>1
  <2>3. \A u \in Threads : \A k \in 1..Len(stack'[u]) : FrameOwned(stack'[u][k])
    BY <1>5, <2>1 DEF Places
  <2>4. CASE UNCHANGED <<meth, info>>
    BY <2>3, <2>4 DEF OwnInv, Owned
  <2>5. CASE /\ meth' = [meth EXCEPT ![Top(t).m].entry = "dispatcher"]
             /\ info' = [info EXCEPT ![Top(t).info] =
                           [entrypoint |-> meth[Top(t).m].entry, nativecode |-> meth[Top(t).m].native]]
    <3>1. \A m \in ArtMethods : meth'[m].native = meth[m].native
      BY <2>2, <2>5 DEF ArtTypeOK
    <3>2. \A i \in ArtInfos : Owned(info'[i].nativecode, Target[i])
      BY <2>2, <2>5 DEF OwnInv, ArtTypeOK
    <3> QED
      BY <2>3, <3>1, <3>2 DEF OwnInv, Owned
  <2> QED
    BY <1>15, <2>4, <2>5 DEF Rehook
<1>16. ASSUME NEW t \in Threads, NEW m \in ArtMethods, InvokePlain(t, m) PROVE OwnInv'
  BY <1>10, <1>16 DEF InvokePlain, Crash
<1>17. ASSUME NEW m \in ArtMethods, InitElsewhere(m) PROVE OwnInv'
  <2>1. \A q \in ArtMethods : meth'[q].native = meth[q].native
    BY <1>17 DEF InitElsewhere, ArtTypeOK
  <2> QED
    BY <1>17, <2>1 DEF InitElsewhere, OwnInv, Owned
<1>18. CASE UNCHANGED artVars \/ \E c \in ArtClasses : ComputeName(c)
  BY <1>10, <1>18 DEF artVars, ComputeName
<1> QED
  BY <1>6, <1>7, <1>8, <1>9, <1>11, <1>12, <1>13, <1>14, <1>15, <1>16, <1>17, <1>18 DEF ArtNext

-----------------------------------------------------------------------------
(* Each method by itself.                                                  *)

\* The step leaves the hooks and calls of m alone.
SameFrames(m) ==
  /\ \A u \in Threads : \A k \in 1..Len(stack[u]) :
       stack[u][k].m = m => k \in 1..Len(stack'[u]) /\ stack'[u][k] = stack[u][k]
  /\ \A u \in Threads : \A k \in 1..Len(stack'[u]) :
       stack'[u][k].m = m => k \in 1..Len(stack[u]) /\ stack'[u][k] = stack[u][k]

SameInfos(m) == \A i \in ArtInfos : Target[i] = m => info'[i] = info[i]

LEMMA OtherMethod ==
  ASSUME NEW m \in ArtMethods, MethodInv(m), SameFrames(m), SameInfos(m), meth'[m] = meth[m],
         overlap \subseteq overlap', elsewhere \subseteq elsewhere'
  PROVE  MethodInv(m)'
<1> SUFFICES ASSUME m \notin overlap' \cup elsewhere'
             PROVE  /\ \A t, u \in Threads : \A k \in 1..Len(stack'[t]), l \in 1..Len(stack'[u]) :
                         stack'[t][k].m = m /\ stack'[u][l].m = m => t = u /\ k = l
                    /\ \A t \in Threads : \A k \in 1..Len(stack'[t]) : stack'[t][k].m = m => Progress(stack[t][k])'
                    /\ ~Busy(m)' => Hooked(m)' \/ NotHooked(m)'
  BY DEF MethodInv
<1>1. m \notin overlap \cup elsewhere
  OBVIOUS
<1>2. \A t, u \in Threads : \A k \in 1..Len(stack'[t]), l \in 1..Len(stack'[u]) :
        stack'[t][k].m = m /\ stack'[u][l].m = m => t = u /\ k = l
  BY <1>1 DEF MethodInv, SameFrames
<1>3. \A i \in ArtInfos : LeadsTo(i, m) => LeadsTo(i, m)'
  BY DEF LeadsTo, SameInfos
<1>4. Hooked(m) => Hooked(m)'
  BY <1>3 DEF Hooked
<1>5. ASSUME NEW t \in Threads, NEW k \in 1..Len(stack'[t]), stack'[t][k].m = m
      PROVE  Progress(stack[t][k])'
  <2>1. k \in 1..Len(stack[t]) /\ stack'[t][k] = stack[t][k] /\ stack[t][k].m = m
    BY <1>5 DEF SameFrames
  <2>2. Progress(stack[t][k])
    BY <1>1, <2>1 DEF MethodInv
  <2>3. stack[t][k].at # "enter" => LeadsTo(stack[t][k].info, m)'
    <3>1. stack[t][k].at # "enter" => LeadsTo(stack[t][k].info, m)
      BY <2>1, <2>2 DEF Progress
    <3>2. stack[t][k].at # "enter" => stack[t][k].info \in ArtInfos
      BY <3>1 DEF LeadsTo
    <3> QED
      BY <2>1, <3>1, <3>2 DEF LeadsTo, SameInfos
  <2> QED
    BY <1>4, <2>1, <2>2, <2>3 DEF Progress
<1>6. Busy(m)' <=> Busy(m)
  BY DEF Busy, SameFrames
<1>7. NotHooked(m) => NotHooked(m)'
  BY DEF NotHooked, SameInfos
<1> QED
  BY <1>1, <1>2, <1>4, <1>5, <1>6, <1>7 DEF MethodInv

LEMMA FramesOfOthers ==
  ASSUME ArtTypeOK, NEW t \in Threads, NEW f, NEW m \in ArtMethods, m # f.m,
         \/ stack[t] # <<>> /\ Top(t).m = f.m /\ (Replaced(t, f) \/ Popped(t))
         \/ Pushed(t, f)
  PROVE  SameFrames(m)
<1>1. CASE stack[t] # <<>> /\ Top(t).m = f.m /\ Replaced(t, f)
  BY <1>1, TopFrame DEF Replaced, Elsewise, SameFrames
<1>2. CASE stack[t] # <<>> /\ Top(t).m = f.m /\ Popped(t)
  <2>1. Len(stack[t]) \in Nat /\ Len(stack[t]) # 0 /\ Top(t) = stack[t][Len(stack[t])]
    BY <1>2, TopFrame
  <2>2. \A k \in 1..Len(stack[t]) : k \in 1..Len(stack[t]) - 1 \/ k = Len(stack[t])
    BY <2>1
  <2>3. \A k \in 1..Len(stack[t]) - 1 : k \in 1..Len(stack[t])
    BY <2>1
  <2> QED
    BY <1>2, <2>1, <2>2, <2>3 DEF Popped, Elsewise, SameFrames
<1>3. CASE Pushed(t, f)
  <2>1. Len(stack[t]) \in Nat
    BY DEF ArtTypeOK
  <2>2. \A k \in 1..Len(stack[t]) + 1 : k \in 1..Len(stack[t]) \/ k = Len(stack[t]) + 1
    BY <2>1
  <2>3. \A k \in 1..Len(stack[t]) : k \in 1..Len(stack[t]) + 1
    BY <2>1
  <2> QED
    BY <1>3, <2>1, <2>2, <2>3 DEF Pushed, Elsewise, SameFrames
<1> QED
  BY <1>1, <1>2, <1>3

\* The newest frame of t is the only one of its method, and goes on to be f.
LEMMA MethodGoesOn ==
  ASSUME ArtTypeOK, NEW t \in Threads, stack[t] # <<>>, NEW f, f.m = Top(t).m, MethodInv(f.m),
         Replaced(t, f), overlap \subseteq overlap', elsewhere \subseteq elsewhere',
         f.m \notin overlap' \cup elsewhere' => Progress(f)'
  PROVE  MethodInv(f.m)'
<1> SUFFICES ASSUME f.m \notin overlap' \cup elsewhere'
             PROVE  /\ \A u, v \in Threads : \A k \in 1..Len(stack'[u]), l \in 1..Len(stack'[v]) :
                         stack'[u][k].m = f.m /\ stack'[v][l].m = f.m => u = v /\ k = l
                    /\ \A u \in Threads : \A k \in 1..Len(stack'[u]) : stack'[u][k].m = f.m => Progress(stack[u][k])'
                    /\ Busy(f.m)'
  BY DEF MethodInv
<1>1. f.m \notin overlap \cup elsewhere
  OBVIOUS
<1>2. Len(stack[t]) \in 1..Len(stack[t]) /\ Top(t) = stack[t][Len(stack[t])]
  BY TopFrame
<1>3. \A u \in Threads : \A k \in 1..Len(stack'[u]) : stack'[u][k].m = f.m => u = t /\ k = Len(stack[t])
  BY <1>1, <1>2 DEF MethodInv, Replaced, Elsewise
<1>4. stack'[t][Len(stack[t])] = f /\ Len(stack[t]) \in 1..Len(stack'[t])
  BY <1>2 DEF Replaced
<1>5. \A u \in Threads : \A k \in 1..Len(stack'[u]) : stack'[u][k].m = f.m => Progress(stack[u][k])'
  <2> SUFFICES ASSUME NEW u \in Threads, NEW k \in 1..Len(stack'[u]), stack'[u][k].m = f.m
               PROVE  Progress(stack[u][k])'
    OBVIOUS
  <2>1. stack'[u][k] = f
    BY <1>3, <1>4
  <2> QED
    BY <2>1 DEF Progress
<1> QED
  BY <1>3, <1>4, <1>5 DEF Busy

\* ... or it goes, and leaves the method hooked.
LEMMA MethodFree ==
  ASSUME ArtTypeOK, NEW t \in Threads, stack[t] # <<>>, NEW m \in ArtMethods, m = Top(t).m, MethodInv(m),
         Popped(t), overlap \subseteq overlap', elsewhere \subseteq elsewhere',
         m \notin overlap' \cup elsewhere' => Hooked(m)'
  PROVE  MethodInv(m)'
<1> SUFFICES ASSUME m \notin overlap' \cup elsewhere'
             PROVE  \A u \in Threads : \A k \in 1..Len(stack'[u]) : stack'[u][k].m # m
  BY DEF MethodInv
<1>1. m \notin overlap \cup elsewhere
  OBVIOUS
<1>2. Len(stack[t]) \in 1..Len(stack[t]) /\ Top(t) = stack[t][Len(stack[t])] /\ Len(stack[t]) \in Nat
  BY TopFrame
<1>3. \A k \in 1..Len(stack[t]) - 1 : k \in 1..Len(stack[t]) /\ k # Len(stack[t])
  BY <1>2
<1>4. \A u \in Threads : \A k \in 1..Len(stack[u]) : stack[u][k].m = m => u = t /\ k = Len(stack[t])
  BY <1>1, <1>2 DEF MethodInv
<1>5. \A k \in 1..Len(stack'[t]) : stack'[t][k].m # m
  BY <1>3, <1>4 DEF Popped
<1>6. \A u \in Threads \ {t} : \A k \in 1..Len(stack'[u]) : stack'[u][k].m # m
  BY <1>4 DEF Popped, Elsewise
<1> QED
  BY <1>5, <1>6

\* ... or a first one comes.
LEMMA MethodTaken ==
  ASSUME ArtTypeOK, NEW t \in Threads, NEW f, f.m \in ArtMethods, Pushed(t, f),
         overlap' = (IF Busy(f.m) THEN overlap \cup {f.m} ELSE overlap),
         ~Busy(f.m) /\ f.m \notin overlap' \cup elsewhere' => Progress(f)'
  PROVE  MethodInv(f.m)'
<1> SUFFICES ASSUME f.m \notin overlap' \cup elsewhere'
             PROVE  /\ \A u, v \in Threads : \A k \in 1..Len(stack'[u]), l \in 1..Len(stack'[v]) :
                         stack'[u][k].m = f.m /\ stack'[v][l].m = f.m => u = v /\ k = l
                    /\ \A u \in Threads : \A k \in 1..Len(stack'[u]) : stack'[u][k].m = f.m => Progress(stack[u][k])'
                    /\ Busy(f.m)'
  BY DEF MethodInv
<1>1. ~Busy(f.m)
  OBVIOUS
<1>2. Len(stack[t]) \in Nat
  BY DEF ArtTypeOK
<1>3. \A k \in 1..Len(stack[t]) + 1 : k \in 1..Len(stack[t]) \/ k = Len(stack[t]) + 1
  BY <1>2
<1>4. \A u \in Threads : \A k \in 1..Len(stack'[u]) : stack'[u][k].m = f.m => u = t /\ k = Len(stack[t]) + 1
  BY <1>1, <1>3 DEF Pushed, Elsewise, Busy
<1>5. stack'[t][Len(stack[t]) + 1] = f /\ Len(stack[t]) + 1 \in 1..Len(stack'[t])
  BY <1>2 DEF Pushed
<1>6. \A u \in Threads : \A k \in 1..Len(stack'[u]) : stack'[u][k].m = f.m => Progress(stack[u][k])'
  <2> SUFFICES ASSUME NEW u \in Threads, NEW k \in 1..Len(stack'[u]), stack'[u][k].m = f.m
               PROVE  Progress(stack[u][k])'
    OBVIOUS
  <2>1. stack'[u][k] = f
    BY <1>4, <1>5
  <2> QED
    BY <1>1, <2>1 DEF Progress
<1> QED
  BY <1>4, <1>5, <1>6 DEF Busy

\* What the newest frame has done so far.
LEMMA TopProgress ==
  ASSUME ArtInv, NEW t \in Threads, stack[t] # <<>>, Top(t).m \notin overlap \cup elsewhere
  PROVE  Progress(Top(t))
<1>1. Len(stack[t]) \in 1..Len(stack[t]) /\ Top(t) = stack[t][Len(stack[t])] /\ Top(t).m \in ArtMethods
  BY TopFrame DEF ArtInv, Frame
<1> QED
  BY <1>1 DEF ArtInv, MethodInv

LEMMA MethodStep == ArtInv /\ [ArtNext]_artVars => \A m \in ArtMethods : MethodInv(m)'
<1> SUFFICES ASSUME ArtInv, [ArtNext]_artVars, NEW m \in ArtMethods PROVE MethodInv(m)'
  OBVIOUS
<1>0. ArtTypeOK /\ OwnInv /\ MethodInv(m)
  BY DEF ArtInv
<1>1. ASSUME UNCHANGED <<meth, info, stack, overlap, elsewhere>> PROVE MethodInv(m)'
  BY <1>0, <1>1, OtherMethod DEF SameFrames, SameInfos
\* The newest frame of t has its HookInfo.
<1>2. ASSUME NEW t \in Threads, stack[t] # <<>>
      PROVE  /\ Top(t) \in Frame /\ Top(t).m \in ArtMethods
             /\ Top(t).what = "hook" \/ Top(t).at # "enter" => Top(t).info \in ArtInfos /\ Target[Top(t).info] = Top(t).m
  <2>1. Top(t) \in Frame /\ Top(t).m \in ArtMethods /\ Top(t) = stack[t][Len(stack[t])] /\ Len(stack[t]) \in 1..Len(stack[t])
    BY <1>0, <1>2, TopFrame DEF Frame
  <2> QED
    BY <1>0, <2>1 DEF OwnInv, FrameOwned
\* A step on the newest frame of t, seen from its method and from the others.
<1>3. ASSUME NEW t \in Threads, stack[t] # <<>>, NEW f \in Frame, f.m = Top(t).m, SetTop(t, f),
             overlap' = overlap, elsewhere' = elsewhere,
             m # f.m => SameInfos(m) /\ meth'[m] = meth[m],
             m = f.m /\ m \notin overlap \cup elsewhere => Progress(f)'
      PROVE  MethodInv(m)'
  <2>1. Replaced(t, f)
    BY <1>0, <1>3, SetTopReplaces
  <2>2. CASE m = f.m
    BY <1>0, <1>3, <2>1, <2>2, MethodGoesOn
  <2>3. CASE m # f.m
    <3>1. SameFrames(m)
      BY <1>0, <1>3, <2>1, <2>3, FramesOfOthers
    <3> QED
      BY <1>0, <1>3, <2>3, <3>1, OtherMethod
  <2> QED
    BY <2>2, <2>3
<1>4. ASSUME NEW t \in Threads, stack[t] # <<>>, Pop(t), overlap' = overlap, elsewhere' = elsewhere,
             m # Top(t).m => SameInfos(m) /\ meth'[m] = meth[m],
             m = Top(t).m /\ m \notin overlap \cup elsewhere => Hooked(m)'
      PROVE  MethodInv(m)'
  <2>1. Popped(t)
    BY <1>0, <1>4, PopTakes
  <2>2. CASE m = Top(t).m
    BY <1>0, <1>4, <2>1, <2>2, MethodFree
  <2>3. CASE m # Top(t).m
    <3>1. SameFrames(m)
      BY <1>0, <1>4, <2>1, <2>3, FramesOfOthers
    <3> QED
      BY <1>0, <1>4, <2>3, <3>1, OtherMethod
  <2> QED
    BY <2>2, <2>3
<1>5. ASSUME NEW t \in Threads, NEW f \in Frame, stack' = [stack EXCEPT ![t] = Append(@, f)],
             overlap' = (IF Busy(f.m) THEN overlap \cup {f.m} ELSE overlap), elsewhere' = elsewhere,
             m # f.m => SameInfos(m) /\ meth'[m] = meth[m],
             m = f.m /\ ~Busy(m) /\ m \notin overlap \cup elsewhere => Progress(f)'
      PROVE  MethodInv(m)'
  <2>1. Pushed(t, f)
    BY <1>0, <1>5, PushAdds
  <2>2. CASE m = f.m
    BY <1>0, <1>5, <2>1, <2>2, MethodTaken
  <2>3. CASE m # f.m
    <3>1. SameFrames(m)
      BY <1>0, <2>1, <2>3, FramesOfOthers
    <3> QED
      BY <1>0, <1>5, <2>3, <3>1, OtherMethod
  <2> QED
    BY <2>2, <2>3
<1>6. ASSUME NEW t \in Threads, Hook(t) PROVE MethodInv(m)'
  <2>1. PICK i \in ArtInfos :
          /\ info[i] = Unset /\ meth[Target[i]].entry # "dispatcher"
          /\ info' = [info EXCEPT ![i] = [entrypoint |-> meth[Target[i]].entry, nativecode |-> meth[Target[i]].native]]
          /\ Push(t, "hook", Target[i], i, "entry")
    BY <1>6 DEF Hook
  <2>2. Target[i] \in ArtMethods
    BY ArtAssumption
  <2>3. PICK f : f = [what |-> "hook", m |-> Target[i], info |-> i, at |-> "entry", entry |-> "none"]
    OBVIOUS
  <2>4. f \in Frame
    BY <2>2, <2>3 DEF Frame, Places, EntryPoints
  <2>5. meth' = meth /\ elsewhere' = elsewhere
    BY <1>6 DEF Hook
  <2>6. m # f.m => SameInfos(m)
    BY <2>1, <2>3, <1>0 DEF SameInfos, ArtTypeOK
  <2>7. ASSUME m = f.m, ~Busy(m), m \notin overlap \cup elsewhere PROVE Progress(f)'
    <3>1. NotHooked(m)
      BY <1>0, <2>1, <2>3, <2>7 DEF MethodInv, Hooked
    <3>2. info'[i] = [entrypoint |-> meth[m].entry, nativecode |-> Code]
      BY <1>0, <2>1, <2>3, <2>7, <3>1 DEF ArtTypeOK, NotHooked
    <3>3. LeadsTo(i, m)'
      BY <2>3, <2>7, <3>1, <3>2 DEF LeadsTo, NotHooked
    <3> QED
      BY <2>3, <2>5, <2>7, <3>1, <3>3 DEF Progress, NotHooked
  <2> QED
    BY <1>5, <2>1, <2>3, <2>4, <2>5, <2>6, <2>7 DEF Push
<1>7. ASSUME NEW t \in Threads, NEW q \in ArtMethods, InvokeHooked(t, q) PROVE MethodInv(m)'
  <2>1. PICK f : f = [what |-> "call", m |-> q, info |-> 0, at |-> "enter", entry |-> "none"]
    OBVIOUS
  <2>2. f \in Frame
    BY <2>1 DEF Frame, Places, EntryPoints
  <2>3. ASSUME m = f.m, ~Busy(m), m \notin overlap \cup elsewhere PROVE Progress(f)'
    <3>1. Hooked(m)
      BY <1>0, <1>7, <2>1, <2>3 DEF MethodInv, NotHooked, InvokeHooked, OwnEntries
    <3>2. Hooked(m)'
      BY <1>7, <3>1 DEF InvokeHooked, Hooked, LeadsTo
    <3> QED
      BY <2>1, <2>3, <3>2 DEF Progress, Hooked
  <2> QED
    BY <1>5, <1>7, <2>1, <2>2, <2>3 DEF InvokeHooked, Push, SameInfos
<1>8. ASSUME NEW t \in Threads, HookEntry(t) PROVE MethodInv(m)'
  <2>1. stack[t] # <<>> /\ Top(t).what = "hook" /\ Top(t).at = "entry"
    BY <1>0, <1>8, TopIs DEF HookEntry
  <2>2. PICK f : f = [Top(t) EXCEPT !.at = "info"]
    OBVIOUS
  <2>3. f \in Frame /\ f.m = Top(t).m /\ f.info = Top(t).info /\ f.what = "hook" /\ f.at = "info"
    BY <1>2, <2>1, <2>2 DEF Frame, Places
  <2>4. m # f.m => meth'[m] = meth[m]
    BY <1>0, <1>8, <2>3 DEF HookEntry, ArtTypeOK
  <2>5. ASSUME m = f.m, m \notin overlap \cup elsewhere PROVE Progress(f)'
    <3>1. Progress(Top(t))
      BY <2>1, <2>3, <2>5, TopProgress
    <3>2. meth'[m].entry = "dispatcher" /\ meth'[m].native = Code
      BY <1>0, <1>8, <2>1, <2>3, <2>5, <3>1 DEF HookEntry, ArtTypeOK, Progress
    <3>3. LeadsTo(f.info, m)'
      BY <1>8, <2>1, <2>3, <2>5, <3>1 DEF HookEntry, Progress, LeadsTo
    <3> QED
      BY <2>3, <2>5, <3>2, <3>3 DEF Progress
  <2> QED
    BY <1>3, <1>8, <2>1, <2>2, <2>3, <2>4, <2>5 DEF HookEntry, Go, SameInfos
<1>9. ASSUME NEW t \in Threads, HookNative(t) \/ SetInfo(t) PROVE MethodInv(m)'
  <2>1. /\ stack[t] # <<>> /\ Pop(t) /\ info' = info /\ overlap' = overlap /\ elsewhere' = elsewhere
        /\ Top(t).at \in {"info", "set"}
        /\ meth' = [meth EXCEPT ![Top(t).m].native = Info(Top(t).info)]
    BY <1>0, <1>9, TopIs DEF HookNative, SetInfo
  <2>2. m # Top(t).m => meth'[m] = meth[m]
    BY <1>0, <2>1 DEF ArtTypeOK
  <2>3. ASSUME m = Top(t).m, m \notin overlap \cup elsewhere PROVE Hooked(m)'
    <3>1. Progress(Top(t))
      BY <2>1, <2>3, TopProgress
    <3>2. LeadsTo(Top(t).info, m) /\ meth[m].entry = "dispatcher"
      BY <2>1, <2>3, <3>1 DEF Progress
    <3>3. meth'[m].entry = "dispatcher" /\ meth'[m].native = Info(Top(t).info)
      BY <1>0, <2>1, <2>3, <3>2 DEF ArtTypeOK
    <3> QED
      BY <2>1, <3>2, <3>3 DEF Hooked, LeadsTo
  <2> QED
    BY <1>4, <2>1, <2>2, <2>3 DEF SameInfos
<1>10. ASSUME NEW t \in Threads, Enter(t) PROVE MethodInv(m)'
  <2>1. stack[t] # <<>> /\ Top(t).what = "call" /\ Top(t).at = "enter"
    BY <1>0, <1>10, TopIs DEF Enter
  <2>2. CASE UNCHANGED <<meth, info, stack, overlap, elsewhere>>
    BY <1>1, <2>2
  <2>3. CASE /\ meth[Top(t).m].native.kind = "info" /\ UNCHANGED <<meth, info, overlap, elsewhere>>
             /\ SetTop(t, [Top(t) EXCEPT !.info = meth[Top(t).m].native.id, !.at = "restore"])
    <3>1. meth[Top(t).m].native.id \in ArtInfos
      BY <1>0, <1>2, <2>1, <2>3, NativeValues DEF OwnInv, Owned
    <3>2. PICK f : f = [Top(t) EXCEPT !.info = meth[Top(t).m].native.id, !.at = "restore"]
      OBVIOUS
    <3>3. f \in Frame /\ f.m = Top(t).m /\ f.info = meth[Top(t).m].native.id /\ f.what = "call" /\ f.at = "restore"
      BY <1>2, <2>1, <3>1, <3>2 DEF Frame, Places
    <3>4. ASSUME m = f.m, m \notin overlap \cup elsewhere PROVE Progress(f)'
      <4>1. Progress(Top(t))
        BY <2>1, <3>3, <3>4, TopProgress
      <4>2. Hooked(m)
        BY <2>1, <3>3, <3>4, <4>1 DEF Progress
      <4>3. meth[m].entry = "dispatcher" /\ LeadsTo(f.info, m)
        BY <3>3, <3>4, <4>2, NativeValues DEF Hooked
      <4> QED
        BY <2>3, <3>3, <3>4, <4>3 DEF Progress, LeadsTo
    <3> QED
      BY <1>3, <2>1, <2>3, <3>2, <3>3, <3>4 DEF SameInfos
  <2> QED
    BY <1>10, <2>2, <2>3 DEF Enter, Crash
<1>11. ASSUME NEW t \in Threads, RestoreNative(t) PROVE MethodInv(m)'
  <2>1. /\ stack[t] # <<>> /\ Top(t).what = "call" /\ Top(t).at = "restore"
        /\ meth' = [meth EXCEPT ![Top(t).m].native = info[Top(t).info].nativecode]
    BY <1>0, <1>11, TopIs DEF RestoreNative
  <2>2. PICK f : f = [Top(t) EXCEPT !.entry = info[Top(t).info].entrypoint, !.at = "run"]
    OBVIOUS
  <2>3. Top(t).info \in ArtInfos
    BY <1>2, <2>1
  <2>4. /\ f \in Frame /\ f.m = Top(t).m /\ f.info = Top(t).info /\ f.what = "call" /\ f.at = "run"
        /\ f.entry = info[f.info].entrypoint
    BY <1>0, <1>2, <2>1, <2>2, <2>3 DEF Frame, Places, EntryPoints, ArtTypeOK
  <2>5. m # f.m => meth'[m] = meth[m]
    BY <1>0, <2>1, <2>4 DEF ArtTypeOK
  <2>6. ASSUME m = f.m, m \notin overlap \cup elsewhere PROVE Progress(f)'
    <3>1. Progress(Top(t))
      BY <2>1, <2>4, <2>6, TopProgress
    <3>2. LeadsTo(f.info, m) /\ meth[m].entry = "dispatcher"
      BY <2>1, <2>4, <2>6, <3>1 DEF Progress
    <3>3. meth'[m].entry = "dispatcher" /\ meth'[m].native = Code
      BY <1>0, <2>1, <2>4, <2>6, <3>2 DEF ArtTypeOK, LeadsTo
    <3>4. LeadsTo(f.info, m)' /\ f.entry \in OwnEntries
      BY <1>11, <2>4, <3>2 DEF RestoreNative, LeadsTo
    <3> QED
      BY <2>4, <2>6, <3>3, <3>4 DEF Progress
  <2> QED
    BY <1>3, <1>11, <2>1, <2>2, <2>4, <2>5, <2>6 DEF RestoreNative, SameInfos
<1>12. ASSUME NEW t \in Threads, NEW at \in Places, stack[t] # <<>>
       PROVE  /\ [Top(t) EXCEPT !.at = at] \in Frame
              /\ [Top(t) EXCEPT !.at = at].m = Top(t).m /\ [Top(t) EXCEPT !.at = at].info = Top(t).info
              /\ [Top(t) EXCEPT !.at = at].what = Top(t).what /\ [Top(t) EXCEPT !.at = at].at = at
  BY <1>2, <1>12 DEF Frame
<1>13. ASSUME NEW t \in Threads, CallEntrypoint(t) PROVE MethodInv(m)'
  <2>1. stack[t] # <<>> /\ Top(t).what = "call" /\ Top(t).at = "run"
    BY <1>0, <1>13, TopIs DEF CallEntrypoint
  <2>2. CASE UNCHANGED <<meth, info, stack, overlap, elsewhere>>
    BY <1>1, <2>2
  <2>3. CASE /\ Go(t, "original") /\ UNCHANGED <<info, overlap, elsewhere>>
             /\ \/ meth' = meth
                \/ meth' = [meth EXCEPT ![Top(t).m].entry = "code"]
    <3>1. PICK f : f = [Top(t) EXCEPT !.at = "original"]
      OBVIOUS
    <3>2. f \in Frame /\ f.m = Top(t).m /\ f.info = Top(t).info /\ f.what = "call" /\ f.at = "original"
      BY <1>12, <2>1, <3>1 DEF Places
    <3>3. m # f.m => meth'[m] = meth[m]
      BY <1>0, <2>3, <3>2 DEF ArtTypeOK
    <3>4. ASSUME m = f.m, m \notin overlap \cup elsewhere PROVE Progress(f)'
      <4>1. Progress(Top(t))
        BY <2>1, <3>2, <3>4, TopProgress
      <4>2. LeadsTo(f.info, m) /\ meth[m].entry = "dispatcher" /\ meth[m].native = Code
        BY <2>1, <3>2, <3>4, <4>1 DEF Progress
      <4>3. meth'[m].entry \in {"dispatcher", "code"} /\ meth'[m].native = Code
        BY <1>0, <2>3, <3>2, <3>4, <4>2 DEF ArtTypeOK
      <4>4. LeadsTo(f.info, m)'
        BY <2>3, <4>2 DEF LeadsTo
      <4> QED
        BY <3>2, <3>4, <4>3, <4>4 DEF Progress
    <3> QED
      BY <1>3, <2>1, <2>3, <3>1, <3>2, <3>3, <3>4 DEF Go, SameInfos
  <2> QED
    BY <1>13, <2>2, <2>3 DEF CallEntrypoint, Crash
<1>14. ASSUME NEW t \in Threads, Result(t) PROVE MethodInv(m)'
  <2>1. stack[t] # <<>> /\ Top(t).what = "call" /\ Top(t).at = "original"
    BY <1>0, <1>14, TopIs DEF Result
  <2>2. CASE UNCHANGED <<meth, info, stack, overlap, elsewhere>>
    BY <1>1, <2>2
  <2>3. CASE Go(t, "after") /\ UNCHANGED <<meth, info, overlap, elsewhere>>
    <3>1. PICK f : f = [Top(t) EXCEPT !.at = "after"]
      OBVIOUS
    <3>2. f \in Frame /\ f.m = Top(t).m /\ f.info = Top(t).info /\ f.what = "call" /\ f.at = "after"
      BY <1>12, <2>1, <3>1 DEF Places
    <3>3. ASSUME m = f.m, m \notin overlap \cup elsewhere PROVE Progress(f)'
      <4>1. Progress(Top(t))
        BY <2>1, <3>2, <3>3, TopProgress
      <4> QED
        BY <2>1, <2>3, <3>2, <3>3, <4>1 DEF Progress, LeadsTo
    <3> QED
      BY <1>3, <2>1, <2>3, <3>1, <3>2, <3>3 DEF Go, SameInfos
  <2> QED
    BY <1>14, <2>2, <2>3 DEF Result, Crash
<1>15. ASSUME NEW t \in Threads, Rehook(t) PROVE MethodInv(m)'
  <2>1. stack[t] # <<>> /\ Top(t).what = "call" /\ Top(t).at = "after" /\ Go(t, "set")
    BY <1>0, <1>15, TopIs DEF Rehook
  <2>2. PICK f : f = [Top(t) EXCEPT !.at = "set"]
    OBVIOUS
  <2>3. f \in Frame /\ f.m = Top(t).m /\ f.info = Top(t).info /\ f.what = "call" /\ f.at = "set"
    BY <1>12, <2>1, <2>2 DEF Places
  <2>4. f.info \in ArtInfos /\ Target[f.info] = f.m
    BY <1>2, <2>1, <2>3
  <2>5. CASE meth[Top(t).m].entry # "dispatcher"
    <3>1. /\ meth' = [meth EXCEPT ![Top(t).m].entry = "dispatcher"]
          /\ info' = [info EXCEPT ![f.info] = [entrypoint |-> meth[f.m].entry, nativecode |-> meth[f.m].native]]
      BY <1>15, <2>3, <2>5 DEF Rehook
    <3>2. m # f.m => SameInfos(m) /\ meth'[m] = meth[m]
      BY <1>0, <2>3, <2>4, <3>1 DEF SameInfos, ArtTypeOK
    <3>3. ASSUME m = f.m, m \notin overlap \cup elsewhere PROVE Progress(f)'
      <4>1. Progress(Top(t))
        BY <2>1, <2>3, <3>3, TopProgress
      <4>2. meth[m].entry = "code" /\ meth[m].native = Code
        BY <2>1, <2>3, <2>5, <3>3, <4>1 DEF Progress
      <4>3. meth'[m].entry = "dispatcher" /\ meth'[m].native = Code
        BY <1>0, <2>3, <3>1, <3>3, <4>2 DEF ArtTypeOK
      <4>4. LeadsTo(f.info, m)'
        BY <1>0, <2>4, <3>1, <3>3, <4>2 DEF LeadsTo, OwnEntries, ArtTypeOK
      <4> QED
        BY <2>3, <3>3, <4>3, <4>4 DEF Progress
    <3> QED
      BY <1>3, <1>15, <2>1, <2>2, <2>3, <3>2, <3>3 DEF Rehook, Go
  <2>6. CASE meth[Top(t).m].entry = "dispatcher"
    <3>1. meth' = meth /\ info' = info
      BY <1>15, <2>6 DEF Rehook
    <3>2. ASSUME m = f.m, m \notin overlap \cup elsewhere PROVE Progress(f)'
      <4>1. Progress(Top(t))
        BY <2>1, <2>3, <3>2, TopProgress
      <4> QED
        BY <2>1, <2>3, <2>6, <3>1, <3>2, <4>1 DEF Progress, LeadsTo
    <3> QED
      BY <1>3, <1>15, <2>1, <2>2, <2>3, <3>1, <3>2 DEF Rehook, Go, SameInfos
  <2> QED
    BY <2>5, <2>6
<1>16. ASSUME NEW t \in Threads, NEW q \in ArtMethods, InvokePlain(t, q) PROVE MethodInv(m)'
  BY <1>1, <1>16 DEF InvokePlain, Crash
<1>17. ASSUME NEW q \in ArtMethods, InitElsewhere(q) PROVE MethodInv(m)'
  <2>1. CASE m = q
    BY <1>17, <2>1 DEF InitElsewhere, MethodInv
  <2>2. CASE m # q
    <3>1. meth'[m] = meth[m]
      BY <1>0, <1>17, <2>2 DEF InitElsewhere, ArtTypeOK
    <3> QED
      BY <1>0, <1>17, <3>1, OtherMethod DEF InitElsewhere, SameFrames, SameInfos
  <2> QED
    BY <2>1, <2>2
<1>18. CASE UNCHANGED artVars \/ \E c \in ArtClasses : ComputeName(c)
  BY <1>1, <1>18 DEF artVars, ComputeName
<1> QED
  BY <1>6, <1>7, <1>8, <1>9, <1>10, <1>11, <1>13, <1>14, <1>15, <1>16, <1>17, <1>18 DEF ArtNext

-----------------------------------------------------------------------------
(* The theorems.                                                           *)

LEMMA ArtInvStarts == ArtInit => ArtInv
<1> SUFFICES ASSUME ArtInit PROVE ArtInv
  OBVIOUS
<1>1. \A m \in ArtMethods : meth[m].entry \in OwnEntries /\ meth[m].native = Code
  BY DEF ArtInit, OwnEntries
<1>2. meth \in [ArtMethods -> [entry : EntryPoints, native : Natives]]
  BY NativeValues DEF ArtInit, EntryPoints
<1>3. \A i \in ArtInfos : info[i] = Unset
  BY DEF ArtInit
<1>4. info \in [ArtInfos -> [entrypoint : EntryPoints, nativecode : Natives]]
  BY NativeValues DEF ArtInit, Unset, EntryPoints
<1>5. stack \in [Threads -> Seq(Frame)] /\ \A t \in Threads : Len(stack[t]) = 0
  BY DEF ArtInit
<1>6. ArtTypeOK
  BY <1>2, <1>4, <1>5 DEF ArtInit, ArtTypeOK
<1>7. OwnInv
  BY <1>1, <1>3, <1>5 DEF OwnInv, Owned, Unset
<1>8. \A m \in ArtMethods : MethodInv(m)
  BY <1>1, <1>3, <1>5 DEF MethodInv, NotHooked
<1> QED
  BY <1>6, <1>7, <1>8 DEF ArtInv

LEMMA ArtInvHolds == ArtSpec => []ArtInv
<1>1. ArtInv /\ [ArtNext]_artVars => ArtInv'
  BY ArtTypeStep, OwnStep, MethodStep DEF ArtInv
<1> QED
  BY <1>1, ArtInvStarts, PTL DEF ArtSpec

\* A hooked method holds the dispatcher and a HookInfo of its own between calls
\* that keep apart, although each call takes the HookInfo away and the runtime may
\* put the entry point back meanwhile.
THEOREM HookStays == ArtSpec => []ArtHookStays
<1>1. ArtInv => ArtHookStays
  <2> SUFFICES ASSUME ArtInv, NEW m \in ArtMethods, ~Busy(m), m \notin overlap \cup elsewhere,
                      NEW j \in ArtInfos, Target[j] = m, info[j] # Unset
               PROVE  /\ meth[m].entry = "dispatcher" /\ meth[m].native.kind = "info"
                      /\ Target[meth[m].native.id] = m
                      /\ info[meth[m].native.id].entrypoint \in {"stub", "code"}
                      /\ info[meth[m].native.id].nativecode = Code
    BY DEF ArtHookStays
  <2>1. Hooked(m)
    BY DEF ArtInv, MethodInv, NotHooked
  <2>2. PICK i \in ArtInfos : meth[m].native = Info(i) /\ LeadsTo(i, m)
    BY <2>1 DEF Hooked
  <2> QED
    BY <2>1, <2>2, NativeValues DEF Hooked, LeadsTo, OwnEntries
<1> QED
  BY <1>1, ArtInvHolds, PTL

LEMMA CrashStep == ArtInv /\ ArtCallsSafe /\ [ArtNext]_artVars => ArtCallsSafe'
<1> SUFFICES ASSUME ArtInv, ArtCallsSafe, [ArtNext]_artVars PROVE ArtCallsSafe'
  OBVIOUS
<1>0. ArtTypeOK
  BY DEF ArtInv
<1>1. ASSUME crash' = crash, overlap \subseteq overlap', elsewhere \subseteq elsewhere', named' = named \/ Running
      PROVE  ArtCallsSafe'
  BY <1>1 DEF ArtCallsSafe, Running
\* A crash in a call of m.
<1>2. ASSUME NEW m, NEW why, Crash(why, m),
             why \in {"info", "native", "recursion"} => m \in overlap \cup elsewhere,
             why = "result" => ~m.object, why = "null" => m.object,
             why = "name" => named # ArtClasses /\ (~m.static \/ m.object)
      PROVE  ArtCallsSafe'
  <2>1. /\ crash'.why = why /\ crash'.of = {m} /\ overlap' = overlap /\ elsewhere' = elsewhere /\ named' = named
    BY <1>2 DEF Crash
  <2> QED
    BY <1>2, <2>1 DEF ArtCallsSafe
<1>3. ASSUME NEW t \in Threads, NEW m \in ArtMethods, InvokePlain(t, m) PROVE ArtCallsSafe'
  <2>1. Crash("native", m) /\ meth[m].entry # "dispatcher" /\ meth[m].native # Code
    BY <1>3 DEF InvokePlain
  <2>2. ASSUME m \notin overlap \cup elsewhere PROVE FALSE
    <3>1. CASE ~Busy(m)
      BY <2>1, <2>2, <3>1 DEF ArtInv, MethodInv, Hooked, NotHooked
    <3>2. CASE Busy(m)
      <4>1. PICK u \in Threads : \E k \in 1..Len(stack[u]) : stack[u][k].m = m
        BY <3>2 DEF Busy
      <4>2. PICK k \in 1..Len(stack[u]) : stack[u][k].m = m
        BY <4>1
      <4>3. Progress(stack[u][k])
        BY <2>2, <4>2 DEF ArtInv, MethodInv
      <4> QED
        BY <2>1, <4>2, <4>3 DEF Progress
    <3> QED
      BY <3>1, <3>2
  <2> QED
    BY <1>2, <2>1, <2>2
<1>4. ASSUME NEW t \in Threads, Enter(t) PROVE ArtCallsSafe'
  <2>1. stack[t] # <<>> /\ Top(t).at = "enter" /\ Top(t).m \in ArtMethods
    BY <1>0, <1>4, TopIs DEF Enter
  <2>2. CASE meth[Top(t).m].native.kind # "info" /\ Crash("info", Top(t).m)
    <3>1. ASSUME Top(t).m \notin overlap \cup elsewhere PROVE FALSE
      <4>1. Hooked(Top(t).m)
        BY <2>1, <3>1, TopProgress DEF Progress
      <4> QED
        BY <2>2, <4>1, NativeValues DEF Hooked
    <3> QED
      BY <1>2, <2>2, <3>1
  <2>3. CASE ~Top(t).m.static /\ named # ArtClasses /\ Crash("name", Top(t).m)
    BY <1>2, <2>3
  <2>4. CASE UNCHANGED <<named, crash, overlap, elsewhere>>
    BY <1>1, <2>4
  <2> QED
    BY <1>4, <2>2, <2>3, <2>4 DEF Enter
<1>5. ASSUME NEW t \in Threads, CallEntrypoint(t) PROVE ArtCallsSafe'
  <2>1. stack[t] # <<>> /\ Top(t).at = "run"
    BY <1>0, <1>5, TopIs DEF CallEntrypoint
  <2>2. ASSUME Top(t).entry = "dispatcher" \/ (Top(t).m.jni /\ meth[Top(t).m].native # Code),
               Top(t).m \notin overlap \cup elsewhere
        PROVE  FALSE
    <3>1. Progress(Top(t))
      BY <2>1, <2>2, TopProgress
    <3> QED
      BY <2>1, <2>2, <3>1 DEF Progress, OwnEntries
  <2>3. CASE Top(t).entry = "dispatcher" /\ Crash("recursion", Top(t).m)
    BY <1>2, <2>2, <2>3
  <2>4. CASE (Top(t).m.jni /\ meth[Top(t).m].native # Code) /\ Crash("native", Top(t).m)
    BY <1>2, <2>2, <2>4
  <2>5. CASE UNCHANGED <<named, crash, overlap, elsewhere>>
    BY <1>1, <2>5
  <2> QED
    BY <1>5, <2>3, <2>4, <2>5 DEF CallEntrypoint
<1>6. ASSUME NEW t \in Threads, Result(t) PROVE ArtCallsSafe'
  <2>1. CASE ~Top(t).m.object /\ Crash("result", Top(t).m)
    BY <1>2, <2>1
  <2>2. CASE Top(t).m.object /\ Crash("null", Top(t).m)
    BY <1>2, <2>2
  <2>3. CASE Top(t).m.object /\ named # ArtClasses /\ Crash("name", Top(t).m)
    BY <1>2, <2>3
  <2>4. CASE UNCHANGED <<named, crash, overlap, elsewhere>>
    BY <1>1, <2>4
  <2> QED
    BY <1>6, <2>1, <2>2, <2>3, <2>4 DEF Result
<1>7. ASSUME NEW t \in Threads,
             Hook(t) \/ HookEntry(t) \/ HookNative(t) \/ RestoreNative(t) \/ Rehook(t) \/ SetInfo(t)
      PROVE  ArtCallsSafe'
  BY <1>1, <1>7 DEF Hook, Push, HookEntry, HookNative, RestoreNative, Rehook, SetInfo
<1>8. ASSUME NEW t \in Threads, NEW m \in ArtMethods, InvokeHooked(t, m) PROVE ArtCallsSafe'
  BY <1>1, <1>8 DEF InvokeHooked, Push
<1>9. ASSUME NEW m \in ArtMethods, InitElsewhere(m) PROVE ArtCallsSafe'
  BY <1>1, <1>9 DEF InitElsewhere
<1>10. CASE UNCHANGED artVars \/ \E c \in ArtClasses : ComputeName(c)
  BY <1>1, <1>10 DEF artVars, ComputeName
<1> QED
  BY <1>3, <1>4, <1>5, <1>6, <1>7, <1>8, <1>9, <1>10 DEF ArtNext

\* A call of a hooked method takes something else for a HookInfo, executes one or
\* calls the dispatcher again only where calls or hooks of that very method overlapped
\* or its class was initialised from elsewhere; every other crash comes of a result
\* that is null or no object, or of a class whose name was not computed.
THEOREM CrashNamed == ArtSpec => []ArtCallsSafe
<1>1. ArtInit => ArtCallsSafe
  BY DEF ArtInit, ArtCallsSafe
<1> QED
  BY <1>1, CrashStep, ArtInvHolds, PTL DEF ArtSpec

-----------------------------------------------------------------------------
(* Dalvik: the hooks of one Method.                                        *)

Stages == {"idle", "flags", "insns", "func"}

\* Nothing was written over the method yet.
Unhooked == now = Fresh(method) /\ \A i \in DvmInfos : dinfo[i].ret # "0"

\* The handler finds the HookInfo of the only hook that answered 0, and in it the
\* method as it was.
HookedBy(i) ==
  /\ i \in DvmInfos /\ now.native /\ now.func = "handler" /\ now.insns = i
  /\ \A j \in DvmInfos : dinfo[j].ret = "0" <=> j = i
  /\ dinfo[i].copy = Fresh(method)

\* What the only hook under way has written so far.
Halfway(h) ==
  /\ h.info \in DvmInfos /\ dinfo[h.info].copy = Fresh(method)
  /\ \A i \in DvmInfos : dinfo[i].ret # "0"
  /\ h.at = "flags" => now = Fresh(method)
  /\ h.at \in {"insns", "func"} => now.native /\ now.func # "handler"
  /\ h.at = "func" => now.insns = h.info

DvmTypeOK ==
  /\ method.native \in BOOLEAN /\ now.native \in BOOLEAN
  /\ now = [native |-> now.native, func |-> now.func, insns |-> now.insns,
            argsSize |-> now.argsSize, hints |-> now.hints]
  /\ DOMAIN dinfo = DvmInfos
  /\ \A i \in DvmInfos : dinfo[i] = [copy |-> dinfo[i].copy, params |-> dinfo[i].params, ret |-> dinfo[i].ret]
  /\ hook \in [DvmThreads -> [info : DvmInfos \cup {0}, at : Stages]]

DvmInv ==
  ~doverlap =>
    /\ dcrash \notin {"info", "code"}
    /\ \A t, u \in DvmThreads : hook[t].at # "idle" /\ hook[u].at # "idle" => t = u
    /\ \A t \in DvmThreads : hook[t].at # "idle" => Halfway(hook[t])
    /\ ~HookBusy => Unhooked \/ \E i \in DvmInfos : HookedBy(i)

LEMMA DvmTyped == DvmInit => DvmTypeOK
<1> SUFFICES ASSUME DvmInit PROVE DvmTypeOK
  OBVIOUS
<1>1. method.native \in BOOLEAN
  BY DalvikAssumption DEF DvmInit
<1>2. now.native = method.native
  BY DEF DvmInit, Fresh
<1> QED
  BY <1>1, <1>2 DEF DvmInit, DvmTypeOK, Fresh, NoInfo, Stages

LEMMA DvmTypes == DvmTypeOK /\ [DvmNext]_dvmVars => DvmTypeOK'
<1> SUFFICES ASSUME DvmTypeOK, [DvmNext]_dvmVars PROVE DvmTypeOK'
  OBVIOUS
<1> USE DEF DvmTypeOK
<1>1. ASSUME NEW t \in DvmThreads, NEW i \in DvmInfos, Answer(t, i) PROVE DvmTypeOK'
  BY <1>1 DEF Answer
<1>2. ASSUME NEW t \in DvmThreads, NEW i \in DvmInfos, Backup(t, i) PROVE DvmTypeOK'
  BY <1>2 DEF Backup, Stages
<1>3. ASSUME NEW t \in DvmThreads, SetFlags(t) PROVE DvmTypeOK'
  BY <1>3 DEF SetFlags, Stages
<1>4. ASSUME NEW t \in DvmThreads, SetInsns(t) PROVE DvmTypeOK'
  BY <1>4 DEF SetInsns, Stages
<1>5. ASSUME NEW t \in DvmThreads, SetFunc(t) PROVE DvmTypeOK'
  BY <1>5 DEF SetFunc, Stages
<1>6. CASE Call
  BY <1>6 DEF Call
<1>7. CASE UNCHANGED dvmVars \/ \E t \in DvmThreads, i \in DvmInfos : Overrun(t, i)
  BY <1>7 DEF dvmVars, Overrun
<1> QED
  BY <1>1, <1>2, <1>3, <1>4, <1>5, <1>6, <1>7 DEF DvmNext

\* A method that is not hooked, or was hooked by one, is run without a crash.
LEMMA CallRuns ==
  ASSUME DvmTypeOK, DvmInv, ~doverlap, ~HookBusy, Call
  PROVE  dcrash' \notin {"info", "code"}
<1>1. CASE Unhooked
  <2>1. now.func # "handler" /\ Runs(now)
    BY <1>1 DEF Unhooked, Fresh, Runs, DvmTypeOK, Dex, Jni
  <2> QED
    BY <2>1 DEF Call
<1>2. ASSUME NEW i \in DvmInfos, HookedBy(i) PROVE dcrash' \notin {"info", "code"}
  <2>1. Runs(dinfo[i].copy)
    BY <1>2 DEF HookedBy, Fresh, Runs, DvmTypeOK, Dex, Jni
  <2> QED
    BY <1>2, <2>1 DEF Call, HookedBy
<1> QED
  BY <1>1, <1>2 DEF DvmInv

LEMMA DvmStarts == DvmInit => DvmInv
<1> SUFFICES ASSUME DvmInit PROVE DvmInv
  OBVIOUS
<1>1. \A i \in DvmInfos : dinfo[i].ret # "0"
  BY DEF DvmInit, NoInfo
<1> QED
  BY <1>1 DEF DvmInit, DvmInv, Unhooked

\* A step of the only hook under way.
LEMMA DvmGoesOn ==
  ASSUME DvmTypeOK, DvmInv, ~doverlap', doverlap' = doverlap, dcrash' = dcrash, method' = method,
         NEW t \in DvmThreads, hook[t].at # "idle",
         hook' = [hook EXCEPT ![t] = hook'[t]], hook'[t].at # "idle" => Halfway(hook[t])',
         hook'[t].at = "idle" => (Unhooked \/ \E i \in DvmInfos : HookedBy(i))'
  PROVE  DvmInv'
<1>1. \A u \in DvmThreads \ {t} : hook[u].at = "idle" /\ hook'[u] = hook[u]
  BY DEF DvmInv, DvmTypeOK
<1> QED
  BY <1>1 DEF DvmInv, HookBusy

LEMMA DvmStep == DvmTypeOK /\ DvmInv /\ [DvmNext]_dvmVars => DvmInv'
<1> SUFFICES ASSUME DvmTypeOK, DvmInv, [DvmNext]_dvmVars, ~doverlap' PROVE DvmInv'
  BY DEF DvmInv
<1>0. ~doverlap
  BY DEF DvmNext, Answer, Backup, Overrun, SetFlags, SetInsns, SetFunc, Call, dvmVars
<1>1. ASSUME NEW t \in DvmThreads, NEW i \in DvmInfos, Answer(t, i) PROVE DvmInv'
  <2>1. \A j \in DvmInfos : dinfo'[j].copy = dinfo[j].copy /\ (dinfo'[j].ret = "0" <=> dinfo[j].ret = "0")
    BY <1>1 DEF Answer, DvmTypeOK
  <2> QED
    BY <1>0, <1>1, <2>1 DEF Answer, DvmInv, Unhooked, HookedBy, Halfway, HookBusy, Fresh
<1>2. ASSUME NEW t \in DvmThreads, NEW i \in DvmInfos, Backup(t, i) PROVE DvmInv'
  <2>1. ~HookBusy
    BY <1>2 DEF Backup
  <2>2. Unhooked
    BY <1>0, <1>2, <2>1 DEF Backup, MayHook, DvmInv, HookedBy
  <2>3. /\ \A j \in DvmInfos \ {i} : dinfo'[j] = dinfo[j]
        /\ dinfo'[i].copy = now /\ dinfo'[i].ret = "none"
    BY <1>2 DEF Backup, DvmTypeOK
  <2>4. /\ \A u \in DvmThreads \ {t} : hook'[u].at = "idle"
        /\ hook'[t] = [info |-> i, at |-> "flags"]
    BY <1>2, <2>1 DEF Backup, HookBusy, DvmTypeOK
  <2>5. now' = Fresh(method) /\ method' = method /\ dcrash' \notin {"info", "code"}
    BY <1>0, <1>2, <2>2 DEF Backup, Unhooked, DvmInv
  <2>6. Halfway(hook[t])'
    BY <2>2, <2>3, <2>4, <2>5 DEF Halfway, Unhooked
  <2> QED
    BY <2>4, <2>5, <2>6 DEF DvmInv, HookBusy
<1>3. ASSUME NEW t \in DvmThreads, SetFlags(t) PROVE DvmInv'
  <2>1. hook[t].at = "flags" /\ Halfway(hook[t])
    BY <1>0, <1>3 DEF SetFlags, Hooking, DvmInv
  <2>2. now' = [now EXCEPT !.native = TRUE, !.argsSize = ArgsSize,
                           !.hints = ComputeJniArgInfo(Shorty(method.sig), method.ret)]
    BY <1>3 DEF SetFlags
  <2>3. now.func # "handler"
    BY <2>1 DEF Halfway, Fresh
  <2>4. now'.native /\ now'.func # "handler"
    BY <2>2, <2>3 DEF DvmTypeOK
  <2>5. hook'[t] = [hook[t] EXCEPT !.at = "insns"] /\ hook' = [hook EXCEPT ![t] = hook'[t]]
    BY <1>3 DEF SetFlags, DvmTypeOK
  <2>6. hook'[t].at = "insns" /\ hook'[t].info = hook[t].info
    BY <2>5 DEF DvmTypeOK
  <2>7. Halfway(hook[t])'
    BY <1>3, <2>1, <2>4, <2>6 DEF SetFlags, Halfway
  <2> QED
    BY <1>3, <2>1, <2>5, <2>6, <2>7, DvmGoesOn DEF SetFlags
<1>4. ASSUME NEW t \in DvmThreads, SetInsns(t) PROVE DvmInv'
  <2>1. hook[t].at = "insns" /\ Halfway(hook[t])
    BY <1>0, <1>4 DEF SetInsns, Hooking, DvmInv
  <2>2. now'.native = now.native /\ now'.func = now.func /\ now'.insns = hook[t].info
    BY <1>4 DEF SetInsns, DvmTypeOK
  <2>3. hook'[t] = [hook[t] EXCEPT !.at = "func"] /\ hook' = [hook EXCEPT ![t] = hook'[t]]
    BY <1>4 DEF SetInsns, DvmTypeOK
  <2>4. hook'[t].at = "func" /\ hook'[t].info = hook[t].info
    BY <2>3 DEF DvmTypeOK
  <2>5. Halfway(hook[t])'
    BY <1>4, <2>1, <2>2, <2>4 DEF SetInsns, Halfway
  <2> QED
    BY <1>4, <2>1, <2>3, <2>4, <2>5, DvmGoesOn DEF SetInsns
<1>5. ASSUME NEW t \in DvmThreads, SetFunc(t) PROVE DvmInv'
  <2>1. hook[t].at = "func" /\ Halfway(hook[t])
    BY <1>0, <1>5 DEF SetFunc, Hooking, DvmInv
  <2>2. now'.native = now.native /\ now'.func = "handler" /\ now'.insns = now.insns
    BY <1>5 DEF SetFunc, DvmTypeOK
  <2>8. PICK i \in DvmInfos : i = hook[t].info
    BY <2>1 DEF Halfway
  <2>3. /\ \A j \in DvmInfos \ {i} : dinfo'[j] = dinfo[j]
        /\ dinfo'[i].copy = dinfo[i].copy /\ dinfo'[i].ret = "0"
    BY <1>5, <2>8 DEF SetFunc, DvmTypeOK
  <2>4. hook'[t].at = "idle" /\ hook' = [hook EXCEPT ![t] = hook'[t]]
    BY <1>5 DEF SetFunc, DvmTypeOK
  <2>5. method' = method
    BY <1>5 DEF SetFunc
  <2>6. now.native /\ now.insns = i /\ dinfo[i].copy = Fresh(method) /\ \A j \in DvmInfos : dinfo[j].ret # "0"
    BY <2>1, <2>8 DEF Halfway
  <2>7. HookedBy(i)'
    BY <2>2, <2>3, <2>5, <2>6 DEF HookedBy
  <2> QED
    BY <1>5, <2>1, <2>3, <2>4, <2>7, DvmGoesOn DEF SetFunc
<1>6. CASE Call
  <2>1. ~HookBusy
    BY <1>6 DEF Call
  <2> QED
    BY <1>0, <1>6, <2>1, CallRuns DEF Call, DvmInv, Unhooked, HookedBy, Halfway, HookBusy
<1>7. CASE UNCHANGED dvmVars \/ \E t \in DvmThreads, i \in DvmInfos : Overrun(t, i)
  <2>1. UNCHANGED <<method, now, dinfo, hook, doverlap>> /\ (dcrash' = dcrash \/ dcrash' = "buffer")
    BY <1>7 DEF dvmVars, Overrun
  <2> QED
    BY <2>1 DEF DvmInv, Unhooked, HookedBy, Halfway, HookBusy, Fresh
<1> QED
  BY <1>1, <1>2, <1>3, <1>4, <1>5, <1>6, <1>7 DEF DvmNext

\* Where hooks and calls keep apart, a copy is what the method was.
LEMMA DvmSafe ==
  DvmInv /\ ~doverlap => /\ dcrash \notin {"info", "code"}
                         /\ \A i \in DvmInfos : dinfo[i].ret = "0" => dinfo[i].copy = Fresh(method)
                         /\ Cardinality({i \in DvmInfos : dinfo[i].ret = "0"}) <= 1
<1> SUFFICES ASSUME DvmInv, ~doverlap
             PROVE  /\ dcrash \notin {"info", "code"}
                    /\ \A i \in DvmInfos : dinfo[i].ret = "0" => dinfo[i].copy = Fresh(method)
                    /\ Cardinality({i \in DvmInfos : dinfo[i].ret = "0"}) <= 1
  OBVIOUS
<1>1. ASSUME \A i \in DvmInfos : dinfo[i].ret # "0"
      PROVE  Cardinality({i \in DvmInfos : dinfo[i].ret = "0"}) <= 1
  <2>1. {i \in DvmInfos : dinfo[i].ret = "0"} = {}
    BY <1>1
  <2>2. Cardinality({}) = 0
    BY FS_EmptySet
  <2>3. Cardinality({i \in DvmInfos : dinfo[i].ret = "0"}) = 0
    BY <2>1, <2>2, Zenon
  <2> QED
    BY <2>3
<1>2. ASSUME NEW i \in DvmInfos, HookedBy(i)
      PROVE  /\ \A j \in DvmInfos : dinfo[j].ret = "0" => dinfo[j].copy = Fresh(method)
             /\ Cardinality({j \in DvmInfos : dinfo[j].ret = "0"}) <= 1
  <2>1. {j \in DvmInfos : dinfo[j].ret = "0"} = {i}
    BY <1>2 DEF HookedBy
  <2>2. Cardinality({i}) = 1
    BY FS_Singleton
  <2> QED
    BY <1>2, <2>1, <2>2 DEF HookedBy
<1>3. (\A i \in DvmInfos : dinfo[i].ret # "0") \/ \E i \in DvmInfos : HookedBy(i)
  BY DEF DvmInv, Unhooked, HookBusy, Halfway
<1>4. dcrash \notin {"info", "code"}
  BY DEF DvmInv
<1> QED
  BY <1>1, <1>2, <1>3, <1>4

-----------------------------------------------------------------------------
(* Both virtual machines.                                                  *)

LEMMA Parts ==
  /\ MethodSpec => ArtSpec
  /\ MethodSpec => DvmInit /\ [][DvmNext]_dvmVars
<1>1. MethodInit => ArtInit /\ DvmInit
  BY DEF MethodInit
<1>2. [MethodNext]_methodVars => [ArtNext]_artVars /\ [DvmNext]_dvmVars
  BY DEF MethodNext, methodVars
<1> QED
  BY <1>1, <1>2, PTL DEF MethodSpec, ArtSpec

-----------------------------------------------------------------------------
(* The builds.                                                             *)

Paths == {i.path : i \in Jars}
IsZip(i) == i.kind = "jar" /\ i.suffix = ".jar"
Inputs == {i \in ToSet(project.items) : i.kind = "directory" \/ i.suffix = ".jar"}
WrittenAll(entries) == [k \in 1..Len(entries) |-> Written(entries[k])]
Copying == {"entries", "copy", "delete"}

\* The project's own jars stay as they are, and beside them there is at most a
\* classes_temp.jar where a jar is.
DiskInv ==
  /\ project \in Projects
  /\ \A i \in Jars : i.path \in DOMAIN disk /\ disk[i.path] = [entries |-> i.entries, closed |-> TRUE]
  /\ \A p \in DOMAIN disk : disk[p] = [entries |-> disk[p].entries, closed |-> disk[p].closed]
  /\ \A p \in DOMAIN disk : p \in Paths \/ \E i \in Jars : IsZip(i) /\ p = TempIn(i.path[1])

\* What is still to handle lies where a jar of the project does.
TodoInv ==
  /\ pending \in Seq(ToSet(pending))
  /\ \A x \in ToSet(pending) : IsZip(x) => \E i \in Jars : IsZip(i) /\ x.path[1] = i.path[1]
  /\ step \in Copying => pending # <<>> /\ IsZip(Head(pending)) /\ TempFile \in DOMAIN disk

\* The inputs that have been put out.
Handled == {i \in Inputs : i \notin ToSet(pending) \/ (step = "delete" /\ i = Head(pending))}

\* The entries before those that are left in source have been copied.
Copied ==
  LET all == Head(pending).entries
      temp == disk[TempFile].entries
  IN /\ temp \in Seq(ToSet(temp)) /\ source \in Seq(ToSet(source))
     /\ Len(temp) + Len(source) = Len(all)
     /\ \A k \in 1..Len(temp) : temp[k] = Written(all[k])
     /\ \A k \in 1..Len(source) : source[k] = all[Len(temp) + k]

\* What is put out, when H is handled; and nothing else, when alone.
PutsOut(out, H, alone) ==
  /\ \A j \in H : Location(j) \in DOMAIN out /\ out[Location(j)] = WrittenAll(j.entries)
  /\ alone => DOMAIN out = {Location(j) : j \in H}

\* A file of an earlier build that is among the inputs.
IsLeft(x) == x.kind = "jar" /\ x.path \notin Paths

\* A build has put out what it has handled of the project's inputs, and nothing else
\* when it has found no others, and what earlier builds left is in the way of what is to do.
BuildInv ==
  step # "idle" =>
    /\ \A x \in ToSet(pending) : x \in ToSet(project.items) \/ (taken /\ IsLeft(x))
    /\ \A j, k \in 1..Len(pending) : pending[j] = pending[k] => j = k
    /\ PutsOut(output, Handled, ~taken)
    /\ \A p \in DOMAIN disk : p \in Paths \/ \E i \in ToSet(pending) : IsZip(i) /\ p = TempIn(i.path[1])
    /\ step = "entries" /\ Head(pending) \in Inputs => Copied
    /\ step \in {"copy", "delete"} /\ Head(pending) \in Inputs =>
         disk[TempFile].entries = WrittenAll(Head(pending).entries)
    /\ step = "done" => pending = <<>>

AsmInv == DiskInv /\ TodoInv /\ BuildInv

\* A sequence is one of what it lists; what its tail lists.
LEMMA Listed ==
  ASSUME NEW S, NEW q \in Seq(S)
  PROVE  q \in Seq(ToSet(q)) /\ \A x : x \in ToSet(q) <=> \E k \in 1..Len(q) : x = q[k]
<1>1. Len(q) \in Nat /\ DOMAIN q = 1..Len(q) /\ q = [k \in 1..Len(q) |-> q[k]]
  BY LenProperties
<1>2. \A k \in 1..Len(q) : q[k] \in ToSet(q)
  BY <1>1 DEF ToSet
<1>3. [k \in 1..Len(q) |-> q[k]] \in Seq(ToSet(q))
  BY <1>1, <1>2, IsASeq
<1>4. \A x : x \in ToSet(q) <=> \E k \in 1..Len(q) : x = q[k]
  BY <1>1 DEF ToSet
<1> QED
  BY <1>1, <1>3, <1>4

LEMMA TailLists ==
  ASSUME NEW S, NEW q \in Seq(S), q # <<>>
  PROVE  /\ Head(q) \in ToSet(q) /\ Tail(q) \in Seq(ToSet(Tail(q)))
         /\ ToSet(Tail(q)) \subseteq ToSet(q) /\ ToSet(q) \subseteq ToSet(Tail(q)) \cup {Head(q)}
         /\ (\A j, k \in 1..Len(q) : q[j] = q[k] => j = k) =>
              /\ Head(q) \notin ToSet(Tail(q))
              /\ \A j, k \in 1..Len(Tail(q)) : Tail(q)[j] = Tail(q)[k] => j = k
<1>1. /\ Tail(q) \in Seq(S) /\ Len(Tail(q)) = Len(q) - 1
      /\ \A j \in 1..(Len(q) - 1) : Tail(q)[j] = q[j + 1]
  BY HeadTailProperties
<1>2. Len(q) \in Nat /\ Len(q) # 0 /\ Head(q) = q[1]
  BY EmptySeq
<1>3. 1 \in 1..Len(q) /\ \A j \in 1..(Len(q) - 1) : j + 1 \in 1..Len(q) /\ j + 1 # 1
  BY <1>2
<1>4. \A x : x \in ToSet(q) <=> \E k \in 1..Len(q) : x = q[k]
  BY Listed
<1>5. /\ Tail(q) \in Seq(ToSet(Tail(q)))
      /\ \A x : x \in ToSet(Tail(q)) <=> \E k \in 1..(Len(q) - 1) : x = q[k + 1]
  <2>1. PICK t : t = Tail(q)
    OBVIOUS
  <2>2. t \in Seq(ToSet(t)) /\ \A x : x \in ToSet(t) <=> \E k \in 1..Len(t) : x = t[k]
    <3>1. t \in Seq(S)
      BY <1>1, <2>1
    <3> QED
      BY <3>1, Listed, Zenon
  <2>3. Len(t) = Len(q) - 1 /\ \A j \in 1..(Len(q) - 1) : t[j] = q[j + 1]
    BY <1>1, <2>1
  <2>4. \A x : (\E k \in 1..Len(t) : x = t[k]) <=> \E k \in 1..(Len(q) - 1) : x = q[k + 1]
    <3>1. ASSUME NEW x, NEW k \in 1..Len(t), x = t[k] PROVE \E j \in 1..(Len(q) - 1) : x = q[j + 1]
      <4>1. k \in 1..(Len(q) - 1) /\ x = q[k + 1]
        BY <2>3, <3>1
      <4> QED
        BY <4>1
    <3>2. ASSUME NEW x, NEW k \in 1..(Len(q) - 1), x = q[k + 1] PROVE \E j \in 1..Len(t) : x = t[j]
      <4>1. k \in 1..Len(t) /\ x = t[k]
        BY <2>3, <3>2
      <4> QED
        BY <4>1
    <3> QED
      BY <3>1, <3>2
  <2>5. \A x : x \in ToSet(t) <=> \E k \in 1..(Len(q) - 1) : x = q[k + 1]
    BY <2>2, <2>4
  <2> QED
    BY <2>1, <2>2, <2>5
<1>6. ASSUME NEW x \in ToSet(q), x # Head(q) PROVE x \in ToSet(Tail(q))
  <2>1. PICK k \in 1..Len(q) : x = q[k]
    BY <1>4
  <2>2. k - 1 \in 1..(Len(q) - 1) /\ (k - 1) + 1 = k
    BY <1>2, <1>6, <2>1
  <2> QED
    BY <1>5, <2>1, <2>2
<1>7. ASSUME \A j, k \in 1..Len(q) : q[j] = q[k] => j = k
      PROVE  /\ Head(q) \notin ToSet(Tail(q))
             /\ \A j, k \in 1..Len(Tail(q)) : Tail(q)[j] = Tail(q)[k] => j = k
  <2>1. ASSUME NEW j \in 1..(Len(q) - 1) PROVE q[1] # q[j + 1]
    BY <1>3, <1>7, <2>1
  <2>2. ASSUME NEW j \in 1..(Len(q) - 1), NEW k \in 1..(Len(q) - 1), q[j + 1] = q[k + 1] PROVE j = k
    <3>1. j + 1 = k + 1
      BY <1>3, <1>7, <2>2
    <3> QED
      BY <3>1
  <2> QED
    BY <1>1, <1>2, <1>5, <2>1, <2>2
<1> QED
  BY <1>2, <1>3, <1>4, <1>5, <1>6, <1>7

\* What an input is.
LEMMA ItemIs ==
  ASSUME project \in Projects
  PROVE  /\ project.items \in Seq(ToSet(project.items))
         /\ \A i, j \in ToSet(project.items) : Location(i) = Location(j) => i = j
         /\ \A i \in ToSet(project.items) :
              /\ i.kind \in {"directory", "jar"} /\ i.entries \in Seq(ToSet(i.entries))
              /\ i.kind = "jar" <=> i \in Jars
         /\ \A i, j \in Jars : i.path # TempIn(j.path[1])
<1>1. project.items \in Seq(ToSet(project.items))
  BY ProjectsAssumption
<1>2. \A i \in ToSet(project.items) : \E k \in 1..Len(project.items) : i = project.items[k]
  BY <1>1, Listed
<1>3. \A j, k \in 1..Len(project.items) : Location(project.items[j]) = Location(project.items[k]) => j = k
  BY ProjectsAssumption
<1>4. \A i \in ToSet(project.items) : i.kind \in {"directory", "jar"} /\ i.entries \in Seq(ToSet(i.entries))
  BY ProjectsAssumption
<1>5. ASSUME NEW i \in Jars, NEW j \in Jars, i.path = TempIn(j.path[1]) PROVE FALSE
  <2>1. i.path # TempIn(i.path[1])
    BY ProjectsAssumption DEF Jars, JarsOf
  <2> QED
    BY <1>5, <2>1 DEF TempIn
<1> QED
  BY <1>1, <1>2, <1>3, <1>4, <1>5 DEF Jars, JarsOf

LEMMA InputsNamed ==
  ASSUME project \in Projects
  PROVE  /\ Inputs \subseteq ToSet(project.items)
         /\ \A i \in ToSet(project.items) : i \in Inputs <=> i.kind = "directory" \/ IsZip(i)
  BY ItemIs DEF Inputs, IsZip

\* Two more facts about the files of a build.
LEMMA TempIsNew ==
  ASSUME AsmInv, step \in Copying
  PROVE  TempFile \notin Paths /\ \E i \in Jars : IsZip(i) /\ TempFile = TempIn(i.path[1])
<1>1. pending # <<>> /\ IsZip(Head(pending)) /\ pending \in Seq(ToSet(pending))
  BY DEF AsmInv, TodoInv
<1>2. Head(pending) \in ToSet(pending)
  BY <1>1, TailLists
<1>3. PICK i \in Jars : IsZip(i) /\ Head(pending).path[1] = i.path[1]
  BY <1>1, <1>2 DEF AsmInv, TodoInv
<1>4. TempFile = TempIn(i.path[1])
  BY <1>3 DEF TempFile
<1> QED
  BY <1>3, <1>4, ItemIs DEF AsmInv, DiskInv, Paths

LEMMA JarsAreSame ==
  ASSUME project' = project
  PROVE  Jars' = Jars /\ Paths' = Paths /\ Inputs' = Inputs
  BY DEF Jars, JarsOf, Paths, Inputs

\* The disk, when nothing but a classes_temp.jar changes.
LEMMA DiskStep == AsmInv /\ [AsmNext]_asmVars => DiskInv'
<1> SUFFICES ASSUME AsmInv, [AsmNext]_asmVars PROVE DiskInv'
  OBVIOUS
<1>1. project' = project /\ Jars' = Jars /\ Paths' = Paths
  <2>1. project' = project
    BY DEF AsmNext, asmVars, Transform, HandleDirectory, PassOver, OpenJar, CopyEntry, CloseJar,
       CopyFile, DeleteTemp, Finished, Abort
  <2> QED
    BY <2>1, JarsAreSame
<1>2. DiskInv
  BY DEF AsmInv
<1>3. CASE disk' = disk
  BY <1>1, <1>2, <1>3 DEF DiskInv
<1>4. ASSUME NEW t, t \notin Paths, \E i \in Jars : IsZip(i) /\ t = TempIn(i.path[1]),
             \A p : p # t => (p \in DOMAIN disk' <=> p \in DOMAIN disk),
             \A p \in DOMAIN disk : p # t => disk'[p] = disk[p],
             t \in DOMAIN disk' => disk'[t] = [entries |-> disk'[t].entries, closed |-> disk'[t].closed]
      PROVE  DiskInv'
  <2>1. \A i \in Jars : i.path \in DOMAIN disk' /\ disk'[i.path] = [entries |-> i.entries, closed |-> TRUE]
    BY <1>2, <1>4 DEF DiskInv, Paths
  <2>2. ASSUME NEW p \in DOMAIN disk'
        PROVE  /\ disk'[p] = [entries |-> disk'[p].entries, closed |-> disk'[p].closed]
               /\ p \in Paths \/ \E i \in Jars : IsZip(i) /\ p = TempIn(i.path[1])
    BY <1>2, <1>4 DEF DiskInv
  <2> QED
    BY <1>1, <1>2, <2>1, <2>2 DEF DiskInv
<1>5. CASE OpenJar
  <2>1. /\ step = "inputs" /\ pending # <<>> /\ IsZip(Head(pending))
        /\ disk' = With(disk, TempIn(Head(pending).path[1]), [entries |-> <<>>, closed |-> FALSE])
    BY <1>5 DEF OpenJar, IsZip
  <2>2. PICK t : t = TempIn(Head(pending).path[1])
    OBVIOUS
  <2>3. /\ DOMAIN disk' = {t} \cup DOMAIN disk /\ disk'[t] = [entries |-> <<>>, closed |-> FALSE]
        /\ \A p \in DOMAIN disk : p # t => disk'[p] = disk[p]
    BY <2>1, <2>2 DEF With
  <2>4. Head(pending) \in ToSet(pending)
    BY <2>1, TailLists DEF AsmInv, TodoInv
  <2>5. PICK i \in Jars : IsZip(i) /\ Head(pending).path[1] = i.path[1]
    BY <2>1, <2>4 DEF AsmInv, TodoInv
  <2>6. t = TempIn(i.path[1]) /\ t \notin Paths
    BY <1>2, <2>2, <2>5, ItemIs DEF DiskInv, Paths
  <2> QED
    BY <1>4, <2>3, <2>5, <2>6
<1>6. CASE CopyEntry \/ CloseJar
  <2>1. /\ step \in Copying
        /\ \/ disk' = [disk EXCEPT ![TempFile].entries = Append(@, Written(Head(source)))]
           \/ disk' = [disk EXCEPT ![TempFile].closed = TRUE]
    BY <1>6 DEF CopyEntry, CloseJar, Copying
  <2>2. PICK t : t = TempFile
    OBVIOUS
  <2>3. t \in DOMAIN disk
    BY <2>1, <2>2 DEF AsmInv, TodoInv
  <2>4. disk[t] = [entries |-> disk[t].entries, closed |-> disk[t].closed]
    BY <1>2, <2>3 DEF DiskInv
  <2>5. PICK r : /\ disk' = [disk EXCEPT ![t] = r]
                 /\ \/ r = [disk[t] EXCEPT !.entries = Append(@, Written(Head(source)))]
                    \/ r = [disk[t] EXCEPT !.closed = TRUE]
    BY <2>1, <2>2
  <2>6. r = [entries |-> r.entries, closed |-> r.closed]
    BY <2>4, <2>5
  <2>7. DOMAIN disk' = DOMAIN disk /\ disk'[t] = r /\ \A p \in DOMAIN disk : p # t => disk'[p] = disk[p]
    BY <2>3, <2>5
  <2> QED
    BY <1>4, <2>1, <2>2, <2>6, <2>7, TempIsNew
<1>7. CASE DeleteTemp
  <2>1. step \in Copying /\ disk' = Without(disk, TempFile)
    BY <1>7 DEF DeleteTemp, Copying
  <2>2. PICK t : t = TempFile
    OBVIOUS
  <2>3. DOMAIN disk' = DOMAIN disk \ {t} /\ \A p \in DOMAIN disk' : disk'[p] = disk[p]
    BY <2>1, <2>2 DEF Without
  <2> QED
    BY <1>4, <2>1, <2>2, <2>3, TempIsNew
<1>8. ~(OpenJar \/ CopyEntry \/ CloseJar \/ DeleteTemp) => disk' = disk
  BY DEF AsmNext, asmVars, Transform, HandleDirectory, PassOver, CopyFile, Finished, Abort
<1> QED
  BY <1>3, <1>5, <1>6, <1>7, <1>8

\* What is in a sequence is finitely many; so are the files of a build.
LEMMA ListedFinite ==
  ASSUME NEW S, NEW q \in Seq(S)
  PROVE  IsFiniteSet(ToSet(q))
<1>1. Len(q) \in Nat /\ q \in [1..Len(q) -> ToSet(q)]
  <2>1. q \in Seq(ToSet(q))
    BY Listed
  <2> QED
    BY <2>1, LenProperties
<1>2. q \in Surjection(1..Len(q), ToSet(q))
  BY <1>1, Listed DEF Surjection
<1>3. IsFiniteSet(1..Len(q))
  BY <1>1, FS_Interval
<1> QED
  BY <1>2, <1>3, FS_Surjection

LEMMA MappedFinite ==
  ASSUME NEW S, NEW f, DOMAIN f = S, IsFiniteSet(S)
  PROVE  IsFiniteSet({f[x] : x \in S})
<1>1. PICK g : g = [x \in S |-> f[x]]
  OBVIOUS
<1>2. g \in Surjection(S, {f[x] : x \in S})
  BY <1>1 DEF Surjection
<1> QED
  BY <1>2, FS_Surjection

LEMMA FilesFinite ==
  ASSUME DiskInv
  PROVE  IsFiniteSet(LeftBehind)
<1>1. IsFiniteSet(Jars)
  <2>1. IsFiniteSet(ToSet(project.items))
    BY ItemIs, ListedFinite DEF DiskInv
  <2> QED
    BY <2>1, FS_Subset DEF Jars, JarsOf
<1>2. PICK f : f = [i \in Jars |-> TempIn(i.path[1])]
  OBVIOUS
<1>3. IsFiniteSet({f[i] : i \in Jars})
  BY <1>1, <1>2, MappedFinite
<1>4. LeftBehind \subseteq {f[i] : i \in Jars}
  BY <1>2 DEF LeftBehind, DiskInv, Paths
<1> QED
  BY <1>3, <1>4, FS_Subset

\* Sequences that repeat nothing, have nothing in common, are part of another.
NoRepeats(s) == \A j, k \in 1..Len(s) : s[j] = s[k] => j = k
Apart(s, t) == \A j \in 1..Len(s), k \in 1..Len(t) : s[j] # t[k]
Among(s, t) == \A j \in 1..Len(s) : \E k \in 1..Len(t) : s[j] = t[k]

\* Two sequences without repetitions that have nothing in common make one without.
LEMMA Concatenated ==
  ASSUME NEW S, NEW a \in Seq(S), NEW b \in Seq(S), NoRepeats(a), NoRepeats(b), Apart(a, b)
  PROVE  a \o b \in Seq(S) /\ NoRepeats(a \o b) /\ Among(a, a \o b) /\ Among(b, a \o b)
<1> USE DEF NoRepeats, Apart, Among
<1>0. PICK c : c = a \o b
  OBVIOUS
<1>1. PICK m, n : m = Len(a) /\ n = Len(b)
  OBVIOUS
<1>2. m \in Nat /\ n \in Nat
  BY <1>1, LenProperties
<1>3. /\ c \in Seq(S) /\ Len(c) = m + n
      /\ \A i \in 1..(m + n) : c[i] = IF i <= m THEN a[i] ELSE b[i - m]
  BY <1>0, <1>1, ConcatProperties
<1>4. ASSUME NEW j \in 1..(m + n), NEW k \in 1..(m + n), c[j] = c[k] PROVE j = k
  <2>1. CASE j <= m /\ k <= m
    <3>1. j \in 1..m /\ k \in 1..m /\ a[j] = a[k]
      BY <1>2, <1>3, <1>4, <2>1
    <3> QED
      BY <1>1, <3>1
  <2>2. CASE ~(j <= m) /\ ~(k <= m)
    <3>1. j - m \in 1..n /\ k - m \in 1..n /\ b[j - m] = b[k - m]
      BY <1>2, <1>3, <1>4, <2>2
    <3>2. j - m = k - m
      BY <1>1, <3>1
    <3> QED
      BY <1>2, <3>2
  <2>3. CASE j <= m /\ ~(k <= m)
    <3>1. j \in 1..m /\ k - m \in 1..n /\ a[j] = b[k - m]
      BY <1>2, <1>3, <1>4, <2>3
    <3> QED
      BY <1>1, <3>1
  <2>4. CASE ~(j <= m) /\ k <= m
    <3>1. k \in 1..m /\ j - m \in 1..n /\ a[k] = b[j - m]
      BY <1>2, <1>3, <1>4, <2>4
    <3> QED
      BY <1>1, <3>1
  <2> QED
    BY <2>1, <2>2, <2>3, <2>4
<1>5. ASSUME NEW j \in 1..m PROVE j \in 1..(m + n) /\ a[j] = c[j]
  <2>1. j \in 1..(m + n) /\ j <= m
    BY <1>2, <1>5
  <2> QED
    BY <1>3, <2>1
<1>6. ASSUME NEW j \in 1..n PROVE m + j \in 1..(m + n) /\ b[j] = c[m + j]
  <2>1. m + j \in 1..(m + n) /\ ~(m + j <= m) /\ (m + j) - m = j
    BY <1>2, <1>6
  <2> QED
    BY <1>3, <2>1
<1> QED
  BY <1>0, <1>1, <1>3, <1>4, <1>5, <1>6

\* What a build finds to do: the project's inputs and what was left behind, each once.
LEMMA ToDo ==
  ASSUME DiskInv, Transform
  PROVE  /\ pending' \in Seq(ToSet(pending'))
         /\ \A x \in ToSet(pending') : x \in ToSet(project.items) \/ \E p \in LeftBehind : x = LeftInput(p)
         /\ ToSet(project.items) \subseteq ToSet(pending')
         /\ \A j, k \in 1..Len(pending') : pending'[j] = pending'[k] => j = k
<1>1. PICK order \in SetToSeqs(LeftBehind) :
        LET left == [k \in 1..Len(order) |-> LeftInput(order[k])]
        IN pending' \in {left \o project.items, project.items \o left}
  BY DEF Transform
<1>2. PICK left, items : left = [k \in 1..Len(order) |-> LeftInput(order[k])] /\ items = project.items
  OBVIOUS
<1>3. PICK M : M = ToSet(items) \cup {LeftInput(p) : p \in LeftBehind}
  OBVIOUS
<1>4. PICK n : n = Cardinality(LeftBehind)
  OBVIOUS
<1>5. n \in Nat /\ order \in [1..n -> LeftBehind] /\ \A j, k \in 1..n : order[j] = order[k] => j = k
  <2>1. n \in Nat
    BY <1>4, FilesFinite, FS_CardinalityType
  <2>2. order \in [1..n -> LeftBehind] /\ \A j, k \in 1..n : j # k => order[j] # order[k]
    BY <1>1, <1>4 DEF SetToSeqs
  <2>3. \A j, k \in 1..n : order[j] = order[k] => j = k
    BY <2>2
  <2> QED
    BY <2>1, <2>2, <2>3
<1>6. order \in Seq(LeftBehind) /\ Len(order) = n
  <2>1. order = [k \in 1..n |-> order[k]] /\ \A k \in 1..n : order[k] \in LeftBehind
    BY <1>5
  <2>2. [k \in 1..n |-> order[k]] \in Seq(LeftBehind)
    BY <1>5, <2>1, IsASeq
  <2>3. order \in Seq(LeftBehind)
    BY <2>1, <2>2
  <2>4. Len(order) \in Nat /\ DOMAIN order = 1..Len(order)
    BY <2>3, LenProperties
  <2>5. 1..Len(order) = 1..n
    BY <1>5, <2>4
  <2>6. Len(order) = n
    BY <1>5, <2>4, <2>5
  <2> QED
    BY <2>3, <2>6
<1>7. left \in Seq(M) /\ items \in Seq(M) /\ items \in Seq(ToSet(items)) /\ Len(left) = n
  <2>1. \A k \in 1..n : LeftInput(order[k]) \in M
    BY <1>3, <1>5
  <2>2. [k \in 1..n |-> LeftInput(order[k])] \in Seq(M)
    BY <1>5, <2>1, IsASeq
  <2>3. items \in Seq(ToSet(items))
    BY <1>2, ItemIs DEF DiskInv
  <2>4. items \in Seq(M)
    BY <1>3, <2>3, SeqMonotonic
  <2>5. left = [k \in 1..n |-> LeftInput(order[k])]
    BY <1>2, <1>6
  <2>6. Len(left) = n
    BY <1>5, <2>5
  <2> QED
    BY <2>2, <2>3, <2>4, <2>5, <2>6
<1>8. \A x : x \in ToSet(items) <=> \E k \in 1..Len(items) : x = items[k]
  BY <1>7, Listed
<1>9. \A k \in 1..n : left[k] = LeftInput(order[k]) /\ left[k].kind = "jar" /\ left[k].path = order[k]
  <2>1. \A k \in 1..n : left[k] = LeftInput(order[k])
    BY <1>2, <1>6
  <2> QED
    BY <2>1 DEF LeftInput
<1>10. \A j, k \in 1..Len(left) : left[j] = left[k] => j = k
  BY <1>5, <1>7, <1>9
<1>11. \A j, k \in 1..Len(items) : items[j] = items[k] => j = k
  BY <1>2, ProjectsAssumption DEF DiskInv
<1>12. \A j \in 1..Len(left), k \in 1..Len(items) : left[j] # items[k] /\ items[k] # left[j]
  <2>1. ASSUME NEW j \in 1..n, NEW k \in 1..Len(items), left[j] = items[k] PROVE FALSE
    <3>1. items[k] \in ToSet(items) /\ items[k].kind = "jar"
      BY <1>8, <1>9, <2>1
    <3>2. items[k] \in Jars
      BY <1>2, <3>1 DEF Jars, JarsOf
    <3>3. order[j] = items[k].path /\ order[j] \in LeftBehind
      BY <1>5, <1>9, <2>1
    <3> QED
      BY <3>2, <3>3 DEF LeftBehind
  <2> QED
    BY <1>7, <2>1
<1>13. PICK q : q = pending'
  OBVIOUS
<1>14. q = left \o items \/ q = items \o left
  BY <1>1, <1>2, <1>13
<1>15. /\ q \in Seq(M) /\ \A j, k \in 1..Len(q) : q[j] = q[k] => j = k
       /\ \A j \in 1..Len(items) : \E k \in 1..Len(q) : items[j] = q[k]
  <2>1. NoRepeats(left) /\ NoRepeats(items) /\ Apart(left, items) /\ Apart(items, left)
    BY <1>10, <1>11, <1>12 DEF NoRepeats, Apart
  <2>2. left \in Seq(M) /\ items \in Seq(M)
    BY <1>7
  <2>3. /\ left \o items \in Seq(M) /\ NoRepeats(left \o items) /\ Among(items, left \o items)
        /\ items \o left \in Seq(M) /\ NoRepeats(items \o left) /\ Among(items, items \o left)
    BY <2>1, <2>2, Concatenated
  <2> QED
    BY <1>14, <2>3 DEF NoRepeats, Among
<1>16. q \in Seq(ToSet(q)) /\ \A x : x \in ToSet(q) <=> \E k \in 1..Len(q) : x = q[k]
  BY <1>15, Listed
<1>17. \A k \in 1..Len(q) : q[k] \in M
  BY <1>15, ElementOfSeq
<1>18. \A x \in ToSet(q) : x \in M
  BY <1>16, <1>17
<1>19. ToSet(items) \subseteq ToSet(q)
  BY <1>8, <1>15, <1>16
<1> QED
  BY <1>2, <1>3, <1>13, <1>15, <1>16, <1>18, <1>19

LEMMA TodoStep == AsmInv /\ [AsmNext]_asmVars => TodoInv'
<1> SUFFICES ASSUME AsmInv, [AsmNext]_asmVars PROVE TodoInv'
  OBVIOUS
<1>1. project' = project /\ Jars' = Jars /\ Paths' = Paths
  <2>1. project' = project
    BY DEF AsmNext, asmVars, Transform, HandleDirectory, PassOver, OpenJar, CopyEntry, CloseJar,
       CopyFile, DeleteTemp, Finished, Abort
  <2> QED
    BY <2>1, JarsAreSame
<1>2. DiskInv /\ TodoInv
  BY DEF AsmInv
<1>3. ASSUME pending' = pending, step' \in Copying => step \in Copying, DOMAIN disk \subseteq DOMAIN disk'
      PROVE  TodoInv'
  BY <1>1, <1>2, <1>3 DEF TodoInv, TempFile
<1>4. CASE UNCHANGED asmVars
  BY <1>3, <1>4 DEF asmVars
<1>5. CASE Transform
  <2>1. step' = "inputs"
    BY <1>5 DEF Transform
  <2>2. ASSUME NEW x \in ToSet(pending'), IsZip(x) PROVE \E i \in Jars : IsZip(i) /\ x.path[1] = i.path[1]
    <3>1. CASE x \in ToSet(project.items)
      BY <1>2, <2>2, <3>1, ItemIs DEF DiskInv, IsZip
    <3>2. CASE \E p \in LeftBehind : x = LeftInput(p)
      <4>1. PICK p \in LeftBehind : x.path = p
        BY <3>2 DEF LeftInput
      <4>2. PICK i \in Jars : IsZip(i) /\ p = TempIn(i.path[1])
        BY <1>2, <4>1 DEF LeftBehind, DiskInv, Paths
      <4> QED
        BY <4>1, <4>2 DEF TempIn
    <3> QED
      BY <1>2, <1>5, <3>1, <3>2, ToDo
  <2> QED
    BY <1>1, <1>2, <1>5, <2>1, <2>2, ToDo DEF TodoInv, Copying, IsZip
<1>6. ASSUME pending # <<>>, pending' = Tail(pending), step' \notin Copying PROVE TodoInv'
  <2>1. PICK q, r : q = pending /\ r = Tail(pending)
    OBVIOUS
  <2>2. q \in Seq(ToSet(q)) /\ q # <<>>
    BY <1>2, <1>6, <2>1 DEF TodoInv
  <2>3. r \in Seq(ToSet(r)) /\ ToSet(r) \subseteq ToSet(q)
    BY <2>1, <2>2, TailLists
  <2> QED
    BY <1>1, <1>2, <1>6, <2>1, <2>3 DEF TodoInv, IsZip
<1>7. CASE HandleDirectory \/ PassOver \/ DeleteTemp
  BY <1>2, <1>6, <1>7 DEF HandleDirectory, PassOver, DeleteTemp, TodoInv, Copying
<1>8. CASE OpenJar
  <2>1. /\ pending # <<>> /\ IsZip(Head(pending)) /\ pending' = pending
        /\ disk' = With(disk, TempIn(Head(pending).path[1]), [entries |-> <<>>, closed |-> FALSE])
    BY <1>8 DEF OpenJar, IsZip
  <2>2. TempFile \in DOMAIN disk'
    BY <2>1 DEF TempFile, With
  <2>3. TempFile' = TempFile
    BY <2>1 DEF TempFile
  <2> QED
    BY <1>1, <1>2, <2>1, <2>2, <2>3 DEF TodoInv, IsZip
<1>9. CASE CopyEntry \/ CloseJar \/ CopyFile \/ Finished
  BY <1>3, <1>9 DEF CopyEntry, CloseJar, CopyFile, Finished, Copying
<1>10. CASE Abort
  <2>1. pending' = <<>> /\ step' = "idle"
    BY <1>10 DEF Abort
  <2>2. ToSet(<<>>) = {}
    BY DEF ToSet
  <2> QED
    BY <2>1, <2>2 DEF TodoInv, Copying
<1> QED
  BY <1>4, <1>5, <1>7, <1>8, <1>9, <1>10 DEF AsmNext

\* An input is put out: it counts as handled, and nothing else that is put out changes.
LEMMA PutOutOne ==
  ASSUME project \in Projects, NEW H, H \subseteq Inputs, NEW i \in Inputs, i \notin H,
         NEW out, NEW alone \in BOOLEAN, PutsOut(out, H, alone),
         NEW new, new = With(out, Location(i), WrittenAll(i.entries))
  PROVE  PutsOut(new, H \cup {i}, alone)
<1>1. DOMAIN new = DOMAIN out \cup {Location(i)}
  BY DEF With
<1>2. new[Location(i)] = WrittenAll(i.entries)
  BY DEF With
<1>3. ASSUME NEW j \in H PROVE Location(j) \in DOMAIN new /\ new[Location(j)] = WrittenAll(j.entries)
  <2>1. Location(j) # Location(i)
    BY ItemIs, InputsNamed
  <2>2. Location(j) \in DOMAIN out
    BY DEF PutsOut
  <2> QED
    BY <2>1, <2>2 DEF With, PutsOut
<1>4. alone => DOMAIN new = {Location(j) : j \in H \cup {i}}
  BY <1>1 DEF PutsOut
<1> QED
  BY <1>1, <1>2, <1>3, <1>4 DEF PutsOut

\* A file that was left is put out beside the project's inputs.
LEMMA PutOutLeft ==
  ASSUME project \in Projects, NEW H, H \subseteq Inputs, NEW x, IsLeft(x),
         NEW out, PutsOut(out, H, FALSE), NEW v, NEW new, new = With(out, Location(x), v)
  PROVE  PutsOut(new, H, FALSE)
<1>1. ASSUME NEW j \in H PROVE Location(j) # Location(x)
  <2>1. CASE j.kind = "jar"
    <3>1. j.path \in Paths
      BY <2>1, ItemIs, InputsNamed DEF Paths
    <3>2. Location(j).path = j.path /\ Location(x).path = x.path
      BY <2>1 DEF Location, IsLeft
    <3> QED
      BY <3>1, <3>2 DEF IsLeft
  <2>2. CASE j.kind # "jar"
    <3>1. Location(j).kind = j.kind /\ Location(x).kind = "jar"
      BY DEF Location, IsLeft
    <3> QED
      BY <2>2, <3>1
  <2> QED
    BY <2>1, <2>2
<1> QED
  BY <1>1 DEF PutsOut, With

\* A step that leaves what is to do as it is, and adds no file but the classes_temp.jar
\* of the jar that is being copied.
LEMMA BuildStays ==
  ASSUME AsmInv, step # "idle", project' = project, taken' = taken, pending' = pending,
         step' # "done" \/ pending = <<>>, step' = "entries" /\ Head(pending) \in Inputs => Copied',
         step' \in {"copy", "delete"} /\ Head(pending) \in Inputs =>
           disk'[TempFile].entries = WrittenAll(Head(pending).entries),
         \A p \in DOMAIN disk' : p \in DOMAIN disk \/ (pending # <<>> /\ IsZip(Head(pending)) /\ p = TempFile),
         PutsOut(output', Handled', ~taken)
  PROVE  BuildInv'
<1>1. Jars' = Jars /\ Paths' = Paths /\ Inputs' = Inputs
  BY JarsAreSame
<1>2. TempFile' = TempFile
  BY DEF TempFile
<1>3. ASSUME NEW p \in DOMAIN disk'
      PROVE  p \in Paths \/ \E i \in ToSet(pending) : IsZip(i) /\ p = TempIn(i.path[1])
  <2>1. CASE p \in DOMAIN disk
    BY <2>1 DEF AsmInv, BuildInv
  <2>2. CASE pending # <<>> /\ IsZip(Head(pending)) /\ p = TempFile
    <3>1. Head(pending) \in ToSet(pending)
      BY <2>2, TailLists DEF AsmInv, TodoInv
    <3> QED
      BY <2>2, <3>1 DEF TempFile
  <2> QED
    BY <1>3, <2>1, <2>2
<1>4. /\ \A x \in ToSet(pending') : x \in ToSet(project.items) \/ (taken /\ x.kind = "jar" /\ x.path \notin Paths)
      /\ \A j, k \in 1..Len(pending') : pending'[j] = pending'[k] => j = k
      /\ \A p \in DOMAIN disk' :
           p \in Paths \/ \E i \in ToSet(pending') : i.kind = "jar" /\ i.suffix = ".jar" /\ p = TempIn(i.path[1])
  BY <1>3 DEF IsZip, IsLeft, AsmInv, BuildInv
<1>5. PutsOut(output, Handled, ~taken)'
  BY DEF PutsOut, Location, WrittenAll, Written
<1> QED
  BY <1>1, <1>2, <1>4, <1>5 DEF BuildInv, IsZip, IsLeft

\* The build goes on to the next input, and has put out what it should.
LEMMA BuildGoesOn ==
  ASSUME AsmInv, step # "idle", project' = project, taken' = taken,
         pending # <<>>, pending' = Tail(pending), step' = "inputs",
         PutsOut(output', Handled', ~taken),
         DOMAIN disk' \subseteq DOMAIN disk, IsZip(Head(pending)) => TempFile \notin DOMAIN disk'
  PROVE  BuildInv'
<1>1. Jars' = Jars /\ Paths' = Paths /\ Inputs' = Inputs
  BY JarsAreSame
<1>2. PICK q, r, h : q = pending /\ r = Tail(pending) /\ h = Head(pending)
  OBVIOUS
<1>3. /\ q \in Seq(ToSet(q)) /\ q # <<>>
      /\ \A x \in ToSet(q) : x \in ToSet(project.items) \/ (taken /\ IsLeft(x))
      /\ \A j, k \in 1..Len(q) : q[j] = q[k] => j = k
      /\ \A p \in DOMAIN disk : p \in Paths \/ \E i \in ToSet(q) : IsZip(i) /\ p = TempIn(i.path[1])
  BY <1>2 DEF AsmInv, TodoInv, BuildInv
<1>4. /\ ToSet(r) \subseteq ToSet(q) /\ ToSet(q) \subseteq ToSet(r) \cup {h}
      /\ \A j, k \in 1..Len(r) : r[j] = r[k] => j = k
  BY <1>2, <1>3, TailLists
<1>5. ASSUME NEW p \in DOMAIN disk'
      PROVE  p \in Paths \/ \E i \in ToSet(r) : IsZip(i) /\ p = TempIn(i.path[1])
  <2>1. CASE p \notin Paths
    <3>1. PICK i \in ToSet(q) : IsZip(i) /\ p = TempIn(i.path[1])
      BY <1>3, <1>5, <2>1
    <3>2. i # h
      BY <1>2, <1>5, <3>1 DEF TempFile
    <3> QED
      BY <1>4, <3>1, <3>2
  <2> QED
    BY <2>1
<1>6. pending' = r /\ step' = "inputs" /\ taken' = taken /\ project' = project
  BY <1>2
<1>7. /\ \A x \in ToSet(pending') : x \in ToSet(project.items) \/ (taken /\ x.kind = "jar" /\ x.path \notin Paths)
      /\ \A j, k \in 1..Len(pending') : pending'[j] = pending'[k] => j = k
      /\ \A p \in DOMAIN disk' :
           p \in Paths \/ \E i \in ToSet(pending') : i.kind = "jar" /\ i.suffix = ".jar" /\ p = TempIn(i.path[1])
  BY <1>3, <1>4, <1>5, <1>6 DEF IsZip, IsLeft
<1>8. PutsOut(output, Handled, ~taken)'
  BY DEF PutsOut, Location, WrittenAll, Written
<1> QED
  BY <1>1, <1>6, <1>7, <1>8 DEF BuildInv, IsZip, IsLeft

\* What has been handled before and after a step to the next input.
LEMMA HandledNext ==
  ASSUME AsmInv, step # "idle", project' = project, pending # <<>>, pending' = Tail(pending), step' = "inputs"
  PROVE  Handled' = Handled \cup ({Head(pending)} \cap Inputs)
<1>1. PICK q, r, h : q = pending /\ r = Tail(pending) /\ h = Head(pending)
  OBVIOUS
<1>2. q \in Seq(ToSet(q)) /\ q # <<>> /\ \A j, k \in 1..Len(q) : q[j] = q[k] => j = k
  BY <1>1 DEF AsmInv, TodoInv, BuildInv
<1>3. ToSet(r) \subseteq ToSet(q) /\ ToSet(q) \subseteq ToSet(r) \cup {h} /\ h \notin ToSet(r)
  BY <1>1, <1>2, TailLists
<1>4. Inputs' = Inputs
  BY JarsAreSame
<1> QED
  BY <1>1, <1>3, <1>4 DEF Handled

LEMMA BuildStarts == AsmInv /\ Transform => BuildInv'
<1> SUFFICES ASSUME AsmInv, Transform PROVE BuildInv'
  OBVIOUS
<1>1. /\ taken' = (LeftBehind # {}) /\ output' = <<>> /\ step' = "inputs" /\ project' = project /\ disk' = disk
  BY DEF Transform
<1>2. DiskInv /\ project \in Projects
  BY DEF AsmInv, DiskInv
<1>3. Jars' = Jars /\ Paths' = Paths /\ Inputs' = Inputs
  BY <1>1, JarsAreSame
<1>4. /\ \A x \in ToSet(pending') : x \in ToSet(project.items) \/ \E p \in LeftBehind : x = LeftInput(p)
      /\ ToSet(project.items) \subseteq ToSet(pending')
      /\ \A j, k \in 1..Len(pending') : pending'[j] = pending'[k] => j = k
  BY <1>2, ToDo
<1>5. Handled' = {}
  BY <1>1, <1>2, <1>3, <1>4, InputsNamed DEF Handled
<1>6. ASSUME NEW x \in ToSet(pending')
      PROVE  x \in ToSet(project.items) \/ (taken' /\ x.kind = "jar" /\ x.path \notin Paths)
  <2>1. ASSUME NEW p \in LeftBehind, x = LeftInput(p)
        PROVE  taken' /\ x.kind = "jar" /\ x.path \notin Paths
    BY <1>1, <2>1 DEF LeftInput, LeftBehind, Paths
  <2> QED
    BY <1>4, <2>1
<1>7. \A p \in DOMAIN disk' :
        p \in Paths \/ \E i \in ToSet(pending') : i.kind = "jar" /\ i.suffix = ".jar" /\ p = TempIn(i.path[1])
  <2>1. \A p \in DOMAIN disk : p \in Paths \/ \E i \in ToSet(project.items) : IsZip(i) /\ p = TempIn(i.path[1])
    BY <1>2 DEF DiskInv, Jars, JarsOf
  <2> QED
    BY <1>1, <1>4, <2>1 DEF IsZip
<1>8. DOMAIN output' = {}
  BY <1>1
<1>9. PutsOut(output, Handled, ~taken)'
  BY <1>5, <1>8 DEF PutsOut
<1> QED
  BY <1>1, <1>3, <1>4, <1>6, <1>7, <1>9 DEF BuildInv, IsZip, IsLeft

\* The entries of a jar, one after the other.
LEMMA CopyBegins == AsmInv /\ Head(pending) \in Inputs /\ OpenJar => Copied'
<1> SUFFICES ASSUME AsmInv, Head(pending) \in Inputs, OpenJar PROVE Copied'
  OBVIOUS
<1>1. PICK h : h = Head(pending)
  OBVIOUS
<1>2. /\ step = "inputs" /\ pending # <<>> /\ pending' = pending /\ source' = disk[h.path].entries
      /\ h.kind = "jar"
      /\ disk' = With(disk, TempIn(h.path[1]), [entries |-> <<>>, closed |-> FALSE])
  BY <1>1 DEF OpenJar
<1>3. h \in ToSet(project.items)
  BY <1>1, InputsNamed DEF AsmInv, DiskInv
<1>4. h \in Jars /\ h.entries \in Seq(ToSet(h.entries))
  BY <1>2, <1>3, ItemIs DEF AsmInv, DiskInv
<1>5. source' = h.entries
  <2>1. disk[h.path] = [entries |-> h.entries, closed |-> TRUE]
    BY <1>4 DEF AsmInv, DiskInv
  <2> QED
    BY <1>2, <2>1
<1>6. disk'[TempFile'] = [entries |-> <<>>, closed |-> FALSE]
  BY <1>1, <1>2 DEF TempFile, With
<1>7. <<>> \in Seq(ToSet(<<>>)) /\ Len(<<>>) = 0
  BY EmptySeq
<1>8. Len(h.entries) \in Nat
  BY <1>4, LenProperties
<1>9. PICK t, src : t = disk'[TempFile'].entries /\ src = source'
  OBVIOUS
<1>10. t = <<>> /\ src = h.entries
  BY <1>5, <1>6, <1>9
<1>11. Head(pending') = h
  BY <1>1, <1>2
<1>12. /\ t \in Seq(ToSet(t)) /\ src \in Seq(ToSet(src)) /\ Len(t) + Len(src) = Len(h.entries)
       /\ \A k \in 1..Len(t) : t[k] = Written(h.entries[k])
       /\ \A k \in 1..Len(src) : src[k] = h.entries[Len(t) + k]
  BY <1>4, <1>7, <1>8, <1>10
<1> QED
  BY <1>9, <1>11, <1>12 DEF Copied

LEMMA CopyGoesOn == AsmInv /\ Head(pending) \in Inputs /\ CopyEntry => Copied'
<1> SUFFICES ASSUME AsmInv, Head(pending) \in Inputs, CopyEntry PROVE Copied'
  OBVIOUS
<1>1. PICK h, t, src, file : h = Head(pending) /\ file = TempFile /\ t = disk[file].entries /\ src = source
  OBVIOUS
<1>2. /\ step = "entries" /\ src # <<>> /\ pending' = pending /\ source' = Tail(src)
      /\ disk' = [disk EXCEPT ![file].entries = Append(@, Written(Head(src)))]
  BY <1>1 DEF CopyEntry
<1>3. /\ t \in Seq(ToSet(t)) /\ src \in Seq(ToSet(src)) /\ Len(t) + Len(src) = Len(h.entries)
      /\ \A k \in 1..Len(t) : t[k] = Written(h.entries[k])
      /\ \A k \in 1..Len(src) : src[k] = h.entries[Len(t) + k]
  BY <1>1, <1>2 DEF AsmInv, BuildInv, Copied
<1>4. file \in DOMAIN disk /\ disk[file] = [entries |-> disk[file].entries, closed |-> disk[file].closed]
  BY <1>1, <1>2 DEF AsmInv, DiskInv, TodoInv, Copying
<1>5. PICK u, rest : u = Append(t, Written(Head(src))) /\ rest = Tail(src)
  OBVIOUS
<1>6. disk'[file].entries = u
  <2>1. PICK r : r = [disk[file] EXCEPT !.entries = Append(@, Written(Head(src)))]
    OBVIOUS
  <2>2. disk' = [disk EXCEPT ![file] = r]
    BY <1>2, <2>1
  <2>3. disk'[file] = r
    BY <1>4, <2>2
  <2>4. r.entries = Append(disk[file].entries, Written(Head(src)))
    BY <1>4, <2>1
  <2> QED
    BY <1>1, <1>5, <2>3, <2>4
<1>7. TempFile' = file /\ Head(pending') = h
  BY <1>1, <1>2 DEF TempFile
<1>8. /\ rest \in Seq(ToSet(rest)) /\ Len(rest) = Len(src) - 1 /\ Head(src) = src[1]
      /\ \A k \in 1..(Len(src) - 1) : rest[k] = src[k + 1]
  BY <1>2, <1>3, <1>5, TailLists, HeadTailProperties
<1>9. /\ u \in Seq(ToSet(u)) /\ Len(u) = Len(t) + 1 /\ u[Len(t) + 1] = Written(src[1])
      /\ \A k \in 1..Len(t) : u[k] = t[k]
  <2>1. PICK w, S : w = Written(Head(src)) /\ S = ToSet(t) \cup {w}
    OBVIOUS
  <2>2. t \in Seq(S) /\ w \in S
    BY <1>3, <2>1, SeqMonotonic
  <2>3. u = Append(t, w)
    BY <1>5, <2>1
  <2>4. /\ u \in Seq(S) /\ Len(u) = Len(t) + 1 /\ u[Len(t) + 1] = w /\ \A k \in 1..Len(t) : u[k] = t[k]
    BY <2>2, <2>3, AppendProperties
  <2>5. u \in Seq(ToSet(u))
    BY <2>4, Listed
  <2> QED
    BY <1>8, <2>1, <2>4, <2>5
<1>10. Len(t) \in Nat /\ Len(src) \in Nat /\ Len(src) # 0
  BY <1>2, <1>3, EmptySeq, LenProperties
<1>11. \A k \in 1..Len(u) : u[k] = Written(h.entries[k])
  <2>1. src[1] = h.entries[Len(t) + 1]
    BY <1>3, <1>10
  <2> QED
    BY <1>3, <1>9, <1>10, <2>1
<1>12. \A k \in 1..Len(rest) : rest[k] = h.entries[Len(u) + k]
  <2>1. ASSUME NEW k \in 1..Len(rest) PROVE rest[k] = h.entries[Len(u) + k]
    <3>1. k + 1 \in 1..Len(src) /\ k \in 1..(Len(src) - 1) /\ Len(t) + (k + 1) = Len(u) + k
      BY <1>8, <1>9, <1>10
    <3>2. src[k + 1] = h.entries[Len(t) + (k + 1)]
      BY <1>3, <3>1
    <3> QED
      BY <1>8, <3>1, <3>2
  <2> QED
    BY <2>1
<1>13. Len(u) + Len(rest) = Len(h.entries)
  <2>1. /\ Len(u) = Len(t) + 1 /\ Len(rest) = Len(src) - 1 /\ Len(t) + Len(src) = Len(h.entries)
        /\ Len(t) \in Nat /\ Len(src) \in Nat
    BY <1>3, <1>8, <1>9, <1>10
  <2> QED
    BY <2>1
<1>14. source' = rest
  BY <1>2, <1>5
<1> QED
  BY <1>6, <1>7, <1>8, <1>9, <1>11, <1>12, <1>13, <1>14 DEF Copied

LEMMA CopyEnds ==
  ASSUME AsmInv, Head(pending) \in Inputs, step = "entries", source = <<>>
  PROVE  disk[TempFile].entries = WrittenAll(Head(pending).entries)
<1>1. PICK h, t, src : h = Head(pending) /\ t = disk[TempFile].entries /\ src = source
  OBVIOUS
<1>2. /\ t \in Seq(ToSet(t)) /\ Len(t) + Len(src) = Len(h.entries)
      /\ \A k \in 1..Len(t) : t[k] = Written(h.entries[k])
  BY <1>1 DEF AsmInv, BuildInv, Copied
<1>3. Len(src) = 0 /\ Len(t) \in Nat
  BY <1>1, <1>2, EmptySeq, LenProperties
<1>4. Len(t) = Len(h.entries)
  BY <1>2, <1>3
<1>5. t = [k \in 1..Len(t) |-> t[k]]
  BY <1>2, LenProperties
<1>6. t = WrittenAll(h.entries)
  BY <1>2, <1>4, <1>5 DEF WrittenAll
<1> QED
  BY <1>1, <1>6

LEMMA BuildStep == AsmInv /\ [AsmNext]_asmVars => BuildInv'
<1> SUFFICES ASSUME AsmInv, [AsmNext]_asmVars, step' # "idle" PROVE BuildInv'
  BY DEF BuildInv
<1>1. CASE Transform
  BY <1>1, BuildStarts
<1>2. CASE Abort
  BY <1>2 DEF Abort
<1> SUFFICES ASSUME ~Transform, ~Abort PROVE BuildInv'
  BY <1>1, <1>2
<1>3. project' = project /\ taken' = taken /\ step # "idle"
  <2>1. project' = project /\ taken' = taken
    BY DEF AsmNext, asmVars, HandleDirectory, PassOver, OpenJar, CopyEntry, CloseJar,
       CopyFile, DeleteTemp, Finished
  <2>2. step # "idle"
    BY DEF AsmNext, asmVars, HandleDirectory, PassOver, OpenJar, CopyEntry, CloseJar,
       CopyFile, DeleteTemp, Finished
  <2> QED
    BY <2>1, <2>2
<1>4. /\ PutsOut(output, Handled, ~taken) /\ (~taken) \in BOOLEAN
      /\ project \in Projects /\ Handled \subseteq Inputs
  BY <1>3 DEF AsmInv, BuildInv, DiskInv, Handled
<1>5. Jars' = Jars /\ Paths' = Paths /\ Inputs' = Inputs
  BY <1>3, JarsAreSame
<1>6. pending # <<>> => /\ Head(pending) \in ToSet(pending)
                    /\ (Head(pending) \in ToSet(project.items) \/ (taken /\ IsLeft(Head(pending))))
  BY <1>3, TailLists DEF AsmInv, TodoInv, BuildInv
<1>7. ASSUME pending' = pending, output' = output, step' = "delete" <=> step = "delete",
             step' # "done" \/ pending = <<>>, step' = "entries" /\ Head(pending) \in Inputs => Copied',
             step' \in {"copy", "delete"} /\ Head(pending) \in Inputs =>
               disk'[TempFile].entries = WrittenAll(Head(pending).entries),
             \A p \in DOMAIN disk' : p \in DOMAIN disk \/ (pending # <<>> /\ IsZip(Head(pending)) /\ p = TempFile)
      PROVE  BuildInv'
  <2>1. Handled' = Handled
    BY <1>5, <1>7 DEF Handled
  <2> QED
    BY <1>3, <1>4, <1>7, <2>1, BuildStays
<1>8. CASE UNCHANGED asmVars
  <2>1. step' = "entries" /\ Head(pending) \in Inputs => Copied'
    BY <1>3, <1>8 DEF AsmInv, BuildInv, asmVars, Copied, TempFile
  <2> QED
    BY <1>3, <1>7, <1>8, <2>1 DEF AsmInv, BuildInv, asmVars
<1>9. CASE HandleDirectory
  <2>1. PICK d : d = Head(pending)
    OBVIOUS
  <2>2. /\ step = "inputs" /\ pending # <<>> /\ d.kind = "directory" /\ pending' = Tail(pending) /\ step' = "inputs"
        /\ output' = With(output, Location(d), WrittenAll(d.entries)) /\ disk' = disk
    BY <1>9, <2>1 DEF HandleDirectory, WrittenAll
  <2>3. d \in Inputs /\ d \notin Handled
    BY <1>6, <2>1, <2>2 DEF Inputs, Handled, IsLeft
  <2>4. Handled' = Handled \cup {d}
    BY <1>3, <2>1, <2>2, <2>3, HandledNext
  <2>5. PICK new : new = output'
    OBVIOUS
  <2>6. PutsOut(new, Handled \cup {d}, ~taken)
    BY <1>4, <2>2, <2>3, <2>5, PutOutOne
  <2>7. ~IsZip(Head(pending))
    BY <2>1, <2>2 DEF IsZip
  <2> QED
    BY <1>3, <2>2, <2>4, <2>5, <2>6, <2>7, BuildGoesOn
<1>10. CASE PassOver
  <2>1. /\ step = "inputs" /\ pending # <<>> /\ pending' = Tail(pending) /\ step' = "inputs"
        /\ output' = output /\ disk' = disk /\ Head(pending).kind = "jar" /\ Head(pending).suffix # ".jar"
    BY <1>10 DEF PassOver
  <2>2. Head(pending) \notin Inputs /\ ~IsZip(Head(pending))
    BY <2>1 DEF Inputs, IsZip
  <2>3. Handled' = Handled
    BY <1>3, <2>1, <2>2, HandledNext
  <2> QED
    BY <1>3, <1>4, <2>1, <2>2, <2>3, BuildGoesOn
<1>11. CASE OpenJar
  <2>1. /\ step = "inputs" /\ pending # <<>> /\ IsZip(Head(pending)) /\ pending' = pending /\ output' = output
        /\ disk' = With(disk, TempIn(Head(pending).path[1]), [entries |-> <<>>, closed |-> FALSE])
        /\ step' = "entries"
    BY <1>11 DEF OpenJar, IsZip
  <2>2. DOMAIN disk' = DOMAIN disk \cup {TempFile}
    BY <2>1 DEF With, TempFile
  <2> QED
    BY <1>3, <1>7, <1>11, <2>1, <2>2, CopyBegins
<1>12. CASE CopyEntry
  <2>1. /\ step = "entries" /\ step' = step /\ pending' = pending /\ output' = output /\ DOMAIN disk' = DOMAIN disk
    BY <1>12 DEF CopyEntry
  <2> QED
    BY <1>3, <1>7, <1>12, <2>1, CopyGoesOn
<1>13. CASE CloseJar
  <2>1. /\ step = "entries" /\ step' = "copy" /\ pending' = pending /\ output' = output /\ source = <<>>
        /\ disk' = [disk EXCEPT ![TempFile].closed = TRUE]
    BY <1>13 DEF CloseJar
  <2>2. DOMAIN disk' = DOMAIN disk /\ disk'[TempFile].entries = disk[TempFile].entries
    <3>1. PICK t : t = TempFile
      OBVIOUS
    <3>2. t \in DOMAIN disk
      BY <2>1, <3>1 DEF AsmInv, TodoInv, Copying
    <3>3. disk[t] = [entries |-> disk[t].entries, closed |-> disk[t].closed]
      BY <3>2 DEF AsmInv, DiskInv
    <3>4. disk' = [disk EXCEPT ![t] = [disk[t] EXCEPT !.closed = TRUE]]
      BY <2>1, <3>1
    <3> QED
      BY <3>1, <3>2, <3>3, <3>4
  <2>3. Head(pending) \in Inputs => disk[TempFile].entries = WrittenAll(Head(pending).entries)
    BY <1>3, <2>1, CopyEnds
  <2> QED
    BY <1>3, <1>7, <2>1, <2>2, <2>3
<1>14. CASE CopyFile
  <2>1. PICK h : h = Head(pending)
    OBVIOUS
  <2>2. /\ step = "copy" /\ step' = "delete" /\ pending' = pending /\ disk' = disk
        /\ output' = With(output, Location(h), disk[TempFile].entries)
    BY <1>14, <2>1 DEF CopyFile
  <2>3. pending # <<>> /\ IsZip(h)
    BY <1>3, <2>1, <2>2 DEF AsmInv, TodoInv, Copying
  <2>4. h \in Inputs => disk[TempFile].entries = WrittenAll(h.entries)
    BY <2>1, <2>2 DEF AsmInv, BuildInv
  <2>5. PICK new : new = output'
    OBVIOUS
  <2>6. PutsOut(new, Handled', ~taken)
    <3>1. CASE h \in ToSet(project.items)
      <4>1. h \in Inputs /\ h \notin Handled
        BY <1>6, <2>1, <2>2, <2>3, <3>1 DEF Inputs, Handled, IsZip
      <4>2. Handled' = Handled \cup {h}
        BY <1>5, <2>1, <2>2, <4>1 DEF Handled
      <4>3. new = With(output, Location(h), WrittenAll(h.entries))
        BY <2>2, <2>4, <2>5, <4>1
      <4> QED
        BY <1>4, <4>1, <4>2, <4>3, PutOutOne
    <3>2. CASE taken /\ IsLeft(h)
      <4>1. h \notin Inputs
        BY <1>4, <3>2, InputsNamed, ItemIs DEF IsLeft, Paths
      <4>2. Handled' = Handled
        BY <1>5, <2>1, <2>2, <4>1 DEF Handled
      <4>3. PutsOut(output, Handled, FALSE)
        BY <1>4 DEF PutsOut
      <4>4. PutsOut(new, Handled, FALSE)
        BY <1>4, <2>2, <2>5, <3>2, <4>3, PutOutLeft
      <4> QED
        BY <3>2, <4>2, <4>4 DEF PutsOut
    <3> QED
      BY <1>6, <2>1, <2>3, <3>1, <3>2
  <2> QED
    BY <1>3, <2>1, <2>2, <2>3, <2>4, <2>5, <2>6, BuildStays
<1>15. CASE DeleteTemp
  <2>1. /\ step = "delete" /\ step' = "inputs" /\ pending' = Tail(pending) /\ output' = output
        /\ disk' = Without(disk, TempFile)
    BY <1>15 DEF DeleteTemp
  <2>2. pending # <<>> /\ IsZip(Head(pending))
    BY <2>1 DEF AsmInv, TodoInv, Copying
  <2>3. DOMAIN disk' = DOMAIN disk \ {TempFile}
    BY <2>1 DEF Without
  <2>4. Head(pending) \in Inputs => Head(pending) \in Handled
    BY <2>1 DEF Handled
  <2>5. Handled' = Handled
    BY <1>3, <2>1, <2>2, <2>4, HandledNext
  <2> QED
    BY <1>3, <1>4, <2>1, <2>2, <2>3, <2>5, BuildGoesOn
<1>16. CASE Finished
  <2>1. /\ step = "inputs" /\ step' = "done" /\ pending = <<>> /\ pending' = pending /\ output' = output /\ disk' = disk
    BY <1>16 DEF Finished
  <2> QED
    BY <1>7, <2>1
<1> QED
  BY <1>8, <1>9, <1>10, <1>11, <1>12, <1>13, <1>14, <1>15, <1>16 DEF AsmNext

LEMMA AsmStarts == AsmInit => AsmInv
<1> SUFFICES ASSUME AsmInit PROVE AsmInv
  OBVIOUS
<1>1. /\ project \in Projects /\ pending = <<>> /\ step = "idle"
      /\ disk = [p \in Paths |-> [entries |-> (CHOOSE i \in Jars : i.path = p).entries, closed |-> TRUE]]
  BY DEF AsmInit, Paths
<1>2. ASSUME NEW i \in Jars PROVE disk[i.path] = [entries |-> i.entries, closed |-> TRUE]
  <2>1. PICK j : j = CHOOSE x \in Jars : x.path = i.path
    OBVIOUS
  <2>2. j \in Jars /\ j.path = i.path
    BY <2>1
  <2>3. j = i
    BY <1>1, <2>2, ProjectsAssumption DEF Jars
  <2> QED
    BY <1>1, <2>1, <2>3 DEF Paths
<1>3. DiskInv
  BY <1>1, <1>2 DEF DiskInv, Paths
<1>4. ToSet(<<>>) = {} /\ <<>> \in Seq(ToSet(<<>>))
  BY EmptySeq DEF ToSet
<1> QED
  BY <1>1, <1>3, <1>4 DEF AsmInv, TodoInv, BuildInv, Copying

LEMMA AsmInvHolds == AsmInit /\ [][AsmNext]_asmVars => []AsmInv
<1>1. AsmInv /\ [AsmNext]_asmVars => AsmInv'
  BY DiskStep, TodoStep, BuildStep DEF AsmInv
<1> QED
  BY <1>1, AsmStarts, PTL

-----------------------------------------------------------------------------
(* The code that a build adds to a method.                                 *)

\* A set of naturals has a least element, which Min is.
LEMMA LeastNatural ==
  ASSUME NEW S, S \subseteq Nat, S # {}
  PROVE  Min(S) \in S /\ \A n \in S : Min(S) <= n
<1> DEFINE Less == {ss \in Nat \X Nat : ss[1] < ss[2]}
<1>1. IsWellFoundedOn(Less, Nat)
  BY NatLessThanWellFounded, Zenon DEF OpToRel
<1>2. PICK m \in S : \A n \in S : ~(<<n, m>> \in Less)
  <2> HIDE DEF Less
  <2> QED
    BY <1>1, WFMin
<1>3. ASSUME NEW n \in S PROVE m <= n
  <2>1. m \in Nat /\ n \in Nat /\ ~(<<n, m>> \in Less)
    BY <1>2
  <2>2. n < m => <<n, m>> \in Less
    BY <2>1
  <2> QED
    BY <2>1, <2>2
<1> QED
  BY <1>3, Zenon DEF Min

\* A function that is made step by step exists, and its values are of the type.
Steps(N, S, F) == \A k \in 1..N, s \in S : F[k][s] \in S
Follows(f, N, S, start, F) == f \in [0..N -> S] /\ f[0] = start /\ \A k \in 1..N : f[k] = F[k][f[k - 1]]

LEMMA StepByStep ==
  ASSUME NEW N \in Nat, NEW S, NEW start \in S, NEW F, Steps(N, S, F)
  PROVE  \E f : Follows(f, N, S, start, F)
<1> DEFINE Upto(n, f) == /\ f \in [0..n -> S] /\ f[0] = start
                         /\ \A k \in 1..n : f[k] = F[k][f[k - 1]]
           Never == {n \in 0..N : ~\E f : Upto(n, f)}
<1>1. ASSUME Never # {} PROVE FALSE
  <2>1. PICK n : n \in Never /\ \A m \in Never : n <= m
    <3>1. Never \subseteq Nat
      OBVIOUS
    <3> HIDE DEF Never
    <3> QED
      BY <1>1, <3>1, LeastNatural
  <2>2. n \in 0..N /\ ~\E f : Upto(n, f)
    BY <2>1
  <2>3. CASE n = 0
    <3>1. PICK f : f = [k \in 0..0 |-> start]
      OBVIOUS
    <3>2. Upto(0, f)
      BY <3>1
    <3> QED
      BY <2>2, <2>3, <3>2
  <2>4. CASE n # 0
    <3>1. n - 1 \in 0..N /\ n - 1 \notin Never
      <4>1. n - 1 \in 0..N /\ ~(n <= n - 1)
        BY <2>2, <2>4
      <4> HIDE DEF Never
      <4> QED
        BY <2>1, <4>1
    <3>2. PICK f : Upto(n - 1, f)
      BY <3>1
    <3>3. PICK g : g = [k \in 0..n |-> IF k = n THEN F[n][f[n - 1]] ELSE f[k]]
      OBVIOUS
    <3>4. f[n - 1] \in S /\ n \in 1..N /\ F[n][f[n - 1]] \in S
      BY <2>2, <2>4, <3>2 DEF Steps
    <3>5. g \in [0..n -> S] /\ g[0] = start
      BY <2>2, <2>4, <3>2, <3>3, <3>4
    <3>6. ASSUME NEW k \in 1..n PROVE g[k] = F[k][g[k - 1]]
      <4>1. CASE k = n
        BY <2>2, <3>3, <4>1
      <4>2. CASE k # n
        <5>1. k \in 1..(n - 1) /\ k \in 0..n /\ k - 1 \in 0..n /\ k - 1 # n
          BY <2>2, <4>2
        <5> QED
          BY <3>2, <3>3, <4>2, <5>1
      <4> QED
        BY <4>1, <4>2
    <3>7. Upto(n, g)
      BY <3>5, <3>6
    <3> QED
      BY <2>2, <3>7
  <2> QED
    BY <2>3, <2>4
<1>2. N \notin Never
  BY <1>1
<1> QED
  BY <1>2 DEF Follows


Logged(s, x) == IF x = "return" THEN Append(Append(s, "log end"), x) ELSE Append(s, x)
Emits(f, body, M) ==
  /\ f[0] = <<"log">> /\ \A k \in 0..Len(body) : f[k] \in Seq(M)
  /\ \A k \in 1..Len(body) : f[k] = Logged(f[k - 1], body[k])

\* The instructions of onCreate are emitted one after the other.
LEMMA EmittedSteps ==
  ASSUME NEW body, body \in Seq(ToSet(body)), NEW M, M = ToSet(body) \cup Logs
  PROVE  \E f : Emits(f, body, M) /\ OnCreate(body) = f[Len(body)]
<1> DEFINE n == Len(body)
           Found(f) == f = [k \in 0..n |->
                              IF k = 0 THEN <<"log">>
                              ELSE IF body[k] = "return" THEN Append(Append(f[k - 1], "log end"), body[k])
                              ELSE Append(f[k - 1], body[k])]
<1>1. n \in Nat /\ \A k \in 1..n : body[k] \in M
  BY LenProperties, ElementOfSeq
<1>2. <<"log">> \in Seq(M) /\ "log end" \in M
  <2>1. "log" \in M /\ "log end" \in M
    BY DEF Logs
  <2>2. PICK e, x : e = <<>> /\ x = "log"
    OBVIOUS
  <2>3. Append(e, x) \in Seq(M)
    BY <2>1, <2>2, EmptySeq, AppendProperties
  <2>4. <<"log">> = Append(e, x)
    BY <2>2
  <2> QED
    BY <2>1, <2>3, <2>4
<1>3. \A k \in 1..n, s \in Seq(M) : Logged(s, body[k]) \in Seq(M)
  <2> HIDE DEF n
  <2>1. ASSUME NEW x \in M, NEW s \in Seq(M) PROVE Logged(s, x) \in Seq(M)
    BY <1>2, AppendProperties DEF Logged
  <2> QED
    BY <1>1, <2>1
<1>4. PICK F : F = [k \in 1..n |-> [s \in Seq(M) |-> Logged(s, body[k])]]
  OBVIOUS
<1>5. PICK f : Follows(f, n, Seq(M), <<"log">>, F)
  <2> HIDE DEF n
  <2>1. Steps(n, Seq(M), F)
    BY <1>3, <1>4 DEF Steps
  <2> QED
    BY <1>1, <1>2, <2>1, StepByStep
<1>6. ASSUME NEW k \in 1..n PROVE f[k] = Logged(f[k - 1], body[k])
  <2> HIDE DEF n
  <2>1. k - 1 \in 0..n
    BY <1>1
  <2>2. f[k - 1] \in Seq(M) /\ f[k] = F[k][f[k - 1]]
    BY <1>5, <2>1 DEF Follows
  <2> QED
    BY <1>4, <2>2
<1>7. \E g : Found(g)
  <2>1. f = [k \in 0..n |-> f[k]]
    BY <1>5 DEF Follows
  <2>2. ASSUME NEW k \in 0..n
        PROVE  f[k] = IF k = 0 THEN <<"log">>
                      ELSE IF body[k] = "return" THEN Append(Append(f[k - 1], "log end"), body[k])
                      ELSE Append(f[k - 1], body[k])
    <3>1. CASE k = 0
      BY <1>5, <3>1 DEF Follows
    <3>2. CASE k # 0
      <4>1. k \in 1..n
        BY <1>1, <3>2
      <4> HIDE DEF n
      <4> QED
        BY <1>6, <3>2, <4>1 DEF Logged
    <3> QED
      BY <3>1, <3>2
  <2>3. Found(f)
    <3> HIDE DEF n
    <3> QED
      BY <2>1, <2>2
  <2> QED
    BY <2>3
<1>8. PICK g : g = CHOOSE h : Found(h)
  OBVIOUS
<1>9. Found(g)
  <2> HIDE DEF Found
  <2> QED
    BY <1>7, <1>8
<1>10. g[0] = <<"log">> /\ \A k \in 1..n : g[k] = Logged(g[k - 1], body[k])
  <2>1. g[0] = <<"log">>
    <3>1. 0 \in 0..n
      BY <1>1
    <3> QED
      BY <1>9, <3>1
  <2>2. ASSUME NEW k \in 1..n PROVE g[k] = Logged(g[k - 1], body[k])
    <3>1. k \in 0..n /\ k # 0
      BY <1>1
    <3> QED
      BY <1>9, <3>1 DEF Logged
  <2> QED
    BY <2>1, <2>2
<1>11. \A k \in 0..n : g[k] \in Seq(M)
  <2> DEFINE Off == {k \in 0..n : g[k] \notin Seq(M)}
  <2>1. ASSUME Off # {} PROVE FALSE
    <3>1. PICK k : k \in Off /\ \A m \in Off : k <= m
      <4>1. Off \subseteq Nat
        BY <1>1
      <4> HIDE DEF Off
      <4> QED
        BY <2>1, <4>1, LeastNatural
    <3>2. k \in 0..n /\ g[k] \notin Seq(M)
      BY <3>1
    <3>3. k # 0
      BY <1>2, <1>10, <3>2
    <3>4. k \in 1..n /\ k - 1 \in 0..n /\ k - 1 \notin Off
      BY <1>1, <3>1, <3>2, <3>3
    <3>5. g[k - 1] \in Seq(M)
      BY <3>4
    <3> HIDE DEF n, Off, Found
    <3> QED
      BY <1>3, <1>10, <3>2, <3>4, <3>5
  <2> QED
    BY <2>1
<1>12. OnCreate(body) = g[n]
  BY <1>8, Zenon DEF OnCreate
<1> HIDE DEF Found
<1> QED
  BY <1>10, <1>11, <1>12 DEF Emits

\* The first n instructions of a body are what has been emitted, without the logs.
ReadsUpto(out, body, n) ==
  /\ Cardinality(Own(out)) = n
  /\ \A k \in Own(out) : out[k] = body[Cardinality({j \in Own(out) : j <= k})]

LEMMA OwnFinite ==
  ASSUME NEW S, NEW s \in Seq(S)
  PROVE  Len(s) \in Nat /\ Own(s) \subseteq 1..Len(s) /\ IsFiniteSet(Own(s)) /\ Cardinality(Own(s)) \in Nat
<1>1. Len(s) \in Nat /\ Own(s) \subseteq 1..Len(s)
  BY LenProperties DEF Own
<1>2. IsFiniteSet(Own(s))
  <2>1. PICK A, B : A = Own(s) /\ B = 1..Len(s)
    OBVIOUS
  <2>2. IsFiniteSet(B)
    <3>1. Len(s) \in Int /\ 1 \in Int
      BY <1>1
    <3> QED
      BY <2>1, <3>1, FS_Interval
  <2>3. A \subseteq B
    BY <1>1, <2>1
  <2>4. IsFiniteSet(A)
    BY <2>2, <2>3, FS_Subset
  <2> QED
    BY <2>1, <2>4
<1> QED
  BY <1>1, <1>2, FS_CardinalityType

\* One more instruction, counted.
LEMMA CountAppend ==
  ASSUME NEW S, NEW s \in Seq(S), NEW x \in S, NEW y
  PROVE  Count(s, y) \in Nat /\ Count(Append(s, x), y) = Count(s, y) + (IF x = y THEN 1 ELSE 0)
<1>1. PICK t, n : t = Append(s, x) /\ n = Len(s)
  OBVIOUS
<1>2. n \in Nat /\ Len(t) = n + 1 /\ t[n + 1] = x /\ \A k \in 1..n : t[k] = s[k]
  BY <1>1, AppendProperties, LenProperties
<1>3. PICK A, B : A = {k \in 1..n : s[k] = y} /\ B = {k \in 1..(n + 1) : t[k] = y}
  OBVIOUS
<1>4. IsFiniteSet(A) /\ n + 1 \notin A
  <2>1. A \subseteq 1..n /\ IsFiniteSet(1..n) /\ n + 1 \notin 1..n
    BY <1>2, <1>3, FS_Interval
  <2> QED
    BY <2>1, FS_Subset
<1>5. Cardinality(A) \in Nat
  BY <1>4, FS_CardinalityType
<1>6. x = y => B = A \cup {n + 1}
  BY <1>2, <1>3
<1>7. x # y => B = A
  BY <1>2, <1>3
<1>8. Cardinality(B) = Cardinality(A) + (IF x = y THEN 1 ELSE 0)
  BY <1>4, <1>5, <1>6, <1>7, FS_AddElement
<1>9. Count(s, y) = Cardinality(A) /\ Count(t, y) = Cardinality(B)
  BY <1>1, <1>2, <1>3 DEF Count
<1> QED
  BY <1>1, <1>5, <1>8, <1>9

\* One more instruction, read.
LEMMA ReadsAppend ==
  ASSUME NEW S, NEW s \in Seq(S), NEW x \in S, NEW body, NEW n \in Nat, ReadsUpto(s, body, n)
  PROVE  /\ x \in Logs => ReadsUpto(Append(s, x), body, n)
         /\ x \notin Logs /\ x = body[n + 1] => ReadsUpto(Append(s, x), body, n + 1)
<1>1. PICK t, l : t = Append(s, x) /\ l = Len(s)
  OBVIOUS
<1>2. l \in Nat /\ Len(t) = l + 1 /\ t[l + 1] = x /\ \A k \in 1..l : t[k] = s[k]
  BY <1>1, AppendProperties, LenProperties
<1>3. PICK A, B : A = Own(s) /\ B = Own(t)
  OBVIOUS
<1>4. A \subseteq 1..l /\ IsFiniteSet(A) /\ l + 1 \notin A
  BY <1>1, <1>2, <1>3, OwnFinite
<1>5. Cardinality(A) = n /\ \A k \in A : s[k] = body[Cardinality({j \in A : j <= k})]
  BY <1>3 DEF ReadsUpto
<1>6. ASSUME x \in Logs PROVE ReadsUpto(t, body, n)
  <2>1. B = A
    BY <1>1, <1>2, <1>3, <1>6 DEF Own
  <2>2. \A k \in B : t[k] = body[Cardinality({j \in B : j <= k})]
    BY <1>2, <1>4, <1>5, <2>1
  <2> QED
    BY <1>3, <1>5, <2>1, <2>2 DEF ReadsUpto
<1>7. ASSUME x \notin Logs, x = body[n + 1] PROVE ReadsUpto(t, body, n + 1)
  <2>1. B = A \cup {l + 1}
    BY <1>1, <1>2, <1>3, <1>7 DEF Own
  <2>2. Cardinality(B) = n + 1
    BY <1>4, <1>5, <2>1, FS_AddElement
  <2>3. ASSUME NEW k \in B PROVE t[k] = body[Cardinality({j \in B : j <= k})]
    <3>1. CASE k = l + 1
      <4>1. \A j \in B : j <= k
        <5>1. \A j \in A : j <= l + 1
          BY <1>2, <1>4
        <5>2. l + 1 <= l + 1
          BY <1>2
        <5> QED
          BY <2>1, <3>1, <5>1, <5>2
      <4>2. {j \in B : j <= k} = B
        BY <4>1
      <4> QED
        BY <1>2, <1>7, <2>2, <3>1, <4>2
    <3>2. CASE k # l + 1
      <4>1. k \in A /\ k \in 1..l
        BY <1>4, <2>1, <2>3, <3>2
      <4>2. {j \in B : j <= k} = {j \in A : j <= k}
        BY <1>2, <1>4, <2>1, <4>1
      <4> QED
        BY <1>2, <1>5, <4>1, <4>2
    <3> QED
      BY <3>1, <3>2
  <2> QED
    BY <1>3, <2>2, <2>3 DEF ReadsUpto
<1> QED
  BY <1>1, <1>6, <1>7

\* There is one log call at the start, and one before each return.
LogsRight(out) ==
  /\ Len(out) # 0 /\ out[1] = "log" /\ Count(out, "log") = 1
  /\ Count(out, "log end") = Count(out, "return")
  /\ \A k \in 1..Len(out) : out[k] = "return" => k # 1 /\ out[k - 1] = "log end"

Takes(body, n, x) == x \notin Logs /\ x = body[n + 1]

\* Where one more instruction leaves the others, and itself.
Grows(s, x, t) ==
  /\ Len(s) \in Nat /\ Len(t) = Len(s) + 1 /\ t[Len(s) + 1] = x
  /\ \A k \in 1..Len(s) : t[k] = s[k]
  /\ \A y : Count(s, y) \in Nat /\ Count(t, y) = Count(s, y) + (IF x = y THEN 1 ELSE 0)

LEMMA Grown ==
  ASSUME NEW S, NEW s \in Seq(S), NEW x \in S
  PROVE  Append(s, x) \in Seq(S) /\ Grows(s, x, Append(s, x))
<1>1. PICK t : t = Append(s, x)
  OBVIOUS
<1>2. /\ t \in Seq(S) /\ Len(s) \in Nat /\ Len(t) = Len(s) + 1 /\ t[Len(s) + 1] = x
      /\ \A k \in 1..Len(s) : t[k] = s[k]
  BY <1>1, AppendProperties, LenProperties
<1>3. \A y : Count(s, y) \in Nat /\ Count(t, y) = Count(s, y) + (IF x = y THEN 1 ELSE 0)
  BY <1>1, CountAppend
<1> QED
  BY <1>1, <1>2, <1>3 DEF Grows

\* An instruction that is neither a log call nor a return.
LEMMA LogsPlain ==
  ASSUME NEW s, NEW x, NEW t, Grows(s, x, t), LogsRight(s), x \notin Logs, x # "return"
  PROVE  LogsRight(t)
<1>1. PICK l, m : l = Len(s) /\ m = Len(t)
  OBVIOUS
<1>2. l \in Nat /\ l # 0 /\ m = l + 1
  BY <1>1 DEF Grows, LogsRight
<1>3. t[l + 1] = x /\ \A k \in 1..l : t[k] = s[k]
  BY <1>1 DEF Grows
<1>4. s[1] = "log" /\ \A k \in 1..l : s[k] = "return" => k # 1 /\ s[k - 1] = "log end"
  BY <1>1 DEF LogsRight
<1>5. x # "log" /\ x # "log end"
  BY DEF Logs
<1>6. \A y : Count(s, y) \in Nat /\ (x # y => Count(t, y) = Count(s, y))
  BY DEF Grows
<1>7. Count(t, "log") = 1 /\ Count(t, "log end") = Count(t, "return")
  <2>1. Count(s, "log") = 1 /\ Count(s, "log end") = Count(s, "return")
    BY DEF LogsRight
  <2> QED
    BY <1>5, <1>6, <2>1
<1>8. t[1] = "log"
  <2>1. 1 \in 1..l
    BY <1>2
  <2> QED
    BY <1>3, <1>4, <2>1
<1>9. ASSUME NEW k \in 1..m, t[k] = "return" PROVE k # 1 /\ t[k - 1] = "log end"
  <2>1. k # l + 1
    BY <1>3, <1>9
  <2>2. k \in 1..l
    BY <1>2, <2>1
  <2>3. k # 1 /\ s[k - 1] = "log end"
    BY <1>3, <1>4, <1>9, <2>2
  <2>4. k # 1
    BY <2>3
  <2>5. k - 1 \in 1..l
    BY <1>2, <2>2, <2>4
  <2> QED
    BY <1>3, <2>3, <2>5
<1>10. m # 0
  BY <1>2
<1> QED
  BY <1>1, <1>7, <1>8, <1>9, <1>10 DEF LogsRight

IsEnd(e) == e = "log end"
IsReturn(e, x) == IsEnd(e) /\ x = "return"

\* A return, after its log call.
LEMMA LogsReturn ==
  ASSUME NEW e, NEW x, IsReturn(e, x),
         NEW s, NEW u, NEW t, Grows(s, e, u), Grows(u, x, t), LogsRight(s)
  PROVE  LogsRight(t)
<1>1. PICK l, j, m : l = Len(s) /\ j = Len(u) /\ m = Len(t)
  OBVIOUS
<1>2. l \in Nat /\ l # 0 /\ j = l + 1 /\ m = j + 1
  <2>1. l \in Nat /\ j = l + 1
    BY <1>1 DEF Grows
  <2>2. m = j + 1
    BY <1>1 DEF Grows
  <2>3. l # 0
    BY <1>1 DEF LogsRight
  <2> QED
    BY <2>1, <2>2, <2>3
<1>3. u[l + 1] = e /\ \A k \in 1..l : u[k] = s[k]
  BY <1>1 DEF Grows
<1>4. \A k \in 1..j : t[k] = u[k]
  BY <1>1 DEF Grows
<1>5. s[1] = "log" /\ \A k \in 1..l : s[k] = "return" => k # 1 /\ s[k - 1] = "log end"
  BY <1>1 DEF LogsRight
<1>6. \A y : /\ Count(s, y) \in Nat
             /\ e # y => Count(u, y) = Count(s, y)
             /\ e = y => Count(u, y) = Count(s, y) + 1
  BY DEF Grows
<1>7. \A y : /\ Count(u, y) \in Nat
             /\ x # y => Count(t, y) = Count(u, y)
             /\ x = y => Count(t, y) = Count(u, y) + 1
  BY DEF Grows
<1>8. Count(t, "log") = 1 /\ Count(t, "log end") = Count(t, "return")
  <2>1. Count(s, "log") = 1 /\ Count(s, "log end") = Count(s, "return")
    BY DEF LogsRight
  <2>2. Count(u, "log") = 1 /\ Count(u, "log end") = Count(s, "log end") + 1 /\ Count(u, "return") = Count(s, "return")
    BY <1>6, <2>1 DEF IsReturn, IsEnd
  <2>3. Count(t, "log") = 1 /\ Count(t, "log end") = Count(u, "log end") /\ Count(t, "return") = Count(u, "return") + 1
    BY <1>7, <2>2 DEF IsReturn, IsEnd
  <2> QED
    BY <2>1, <2>2, <2>3
<1>9. t[1] = "log"
  <2>1. 1 \in 1..l /\ 1 \in 1..j
    BY <1>2
  <2> QED
    BY <1>3, <1>4, <1>5, <2>1
<1>10. ASSUME NEW k \in 1..m, t[k] = "return" PROVE k # 1 /\ t[k - 1] = "log end"
  <2>1. CASE k = m
    <3>1. k - 1 = l + 1 /\ l + 1 \in 1..j /\ k # 1
      BY <1>2, <2>1
    <3> QED
      BY <1>3, <1>4, <3>1 DEF IsReturn, IsEnd
  <2>2. CASE k # m
    <3>1. k \in 1..j
      BY <1>2, <2>2
    <3>2. u[k] = "return"
      BY <1>4, <1>10, <3>1
    <3>3. k # l + 1
      BY <1>3, <3>2 DEF IsReturn, IsEnd
    <3>4. k \in 1..l
      BY <1>2, <3>1, <3>3
    <3>5. k # 1 /\ s[k - 1] = "log end"
      BY <1>3, <1>5, <3>2, <3>4
    <3>6. k # 1
      BY <3>5
    <3>7. k - 1 \in 1..l /\ k - 1 \in 1..j
      BY <1>2, <3>4, <3>6
    <3> QED
      BY <1>3, <1>4, <3>5, <3>7
  <2> QED
    BY <2>1, <2>2
<1>11. m # 0
  BY <1>2
<1> QED
  BY <1>1, <1>8, <1>9, <1>10, <1>11 DEF LogsRight

\* One more instruction of the method, with its log call.
LEMMA LoggedRight ==
  ASSUME NEW M, NEW e \in M, IsEnd(e), NEW s \in Seq(M), LogsRight(s), NEW x \in M, NEW body,
         NEW n \in Nat, Takes(body, n, x), ReadsUpto(s, body, n)
  PROVE  LogsRight(Logged(s, x)) /\ ReadsUpto(Logged(s, x), body, n + 1)
<1>1. x \notin Logs /\ x = body[n + 1] /\ e \in Logs
  BY DEF Logs, Takes, IsEnd
<1>2. CASE x # "return"
  <2>1. PICK t : t = Append(s, x)
    OBVIOUS
  <2>2. ReadsUpto(t, body, n + 1)
    BY <1>1, <2>1, ReadsAppend
  <2>3. Grows(s, x, t)
    BY <2>1, Grown
  <2>4. LogsRight(t)
    BY <1>1, <1>2, <2>3, LogsPlain
  <2>5. Logged(s, x) = t
    BY <1>2, <2>1 DEF Logged
  <2> QED
    BY <2>2, <2>4, <2>5
<1>3. CASE x = "return"
  <2>1. PICK u, t : u = Append(s, e) /\ t = Append(u, x)
    OBVIOUS
  <2>2. u \in Seq(M) /\ Grows(s, e, u)
    BY <2>1, Grown
  <2>3. Grows(u, x, t)
    BY <2>1, <2>2, Grown
  <2>4. ReadsUpto(u, body, n)
    BY <1>1, <2>1, ReadsAppend
  <2>5. ReadsUpto(t, body, n + 1)
    BY <1>1, <2>1, <2>2, <2>4, ReadsAppend
  <2>6. IsReturn(e, x)
    BY <1>3 DEF IsReturn, IsEnd
  <2>7. LogsRight(t)
    BY <2>2, <2>3, <2>6, LogsReturn
  <2>8. Logged(s, x) = t
    BY <1>3, <2>1 DEF Logged, IsEnd
  <2> QED
    BY <2>5, <2>7, <2>8
<1> QED
  BY <1>2, <1>3

\* What is emitted for the first k instructions is right for all k.
RightAt(f, body, k) == LogsRight(f[k]) /\ ReadsUpto(f[k], body, k)

LEMMA StartRight ==
  ASSUME NEW s, s = <<"log">>, NEW body
  PROVE  LogsRight(s) /\ ReadsUpto(s, body, 0)
<1>1. s[1] = "log" /\ Len(s) = 1
  OBVIOUS
<1>2. PICK D : D = 1..Len(s)
  OBVIOUS
<1>3. D = {1}
  <2>1. 1..1 = {1}
    OBVIOUS
  <2> QED
    BY <1>1, <1>2, <2>1
<1>4. Own(s) = {}
  <2>1. Own(s) = {k \in D : s[k] \notin Logs}
    BY <1>2 DEF Own
  <2>2. s[1] \in Logs
    BY <1>1 DEF Logs
  <2> QED
    BY <1>3, <2>1, <2>2
<1>5. ReadsUpto(s, body, 0)
  BY <1>4, FS_EmptySet DEF ReadsUpto
<1>6. \A y : Count(s, y) = Cardinality({k \in D : s[k] = y})
  BY <1>2 DEF Count
<1>7. Count(s, "log") = 1
  <2>1. {k \in D : s[k] = "log"} = {1}
    BY <1>1, <1>3
  <2>2. Cardinality({1}) = 1
    BY FS_Singleton
  <2> QED
    BY <1>6, <2>1, <2>2
<1>8. Count(s, "log end") = Count(s, "return")
  <2>1. {k \in D : s[k] = "log end"} = {} /\ {k \in D : s[k] = "return"} = {}
    BY <1>1, <1>3
  <2> QED
    BY <1>6, <2>1
<1>9. \A k \in D : s[k] # "return"
  BY <1>1, <1>3
<1>10. Len(s) # 0
  BY <1>1
<1> QED
  BY <1>1, <1>2, <1>5, <1>7, <1>8, <1>9, <1>10 DEF LogsRight

\* A body of instructions of M that nothing has been logged in yet.
Unlogged(body, M) == Len(body) \in Nat /\ \A k \in 1..Len(body) : body[k] \in M /\ body[k] \notin Logs

LEMMA EmittedRight ==
  ASSUME NEW body, NEW M, NEW e \in M, IsEnd(e), NEW f, Emits(f, body, M), Unlogged(body, M)
  PROVE  \A k \in 0..Len(body) : RightAt(f, body, k)
<1> DEFINE n == Len(body)
           Off == {k \in 0..n : ~RightAt(f, body, k)}
<1>0. n \in Nat /\ \A k \in 1..n : body[k] \in M /\ body[k] \notin Logs
  BY DEF Unlogged
<1>1. RightAt(f, body, 0)
  <2>1. f[0] = <<"log">>
    BY DEF Emits
  <2> QED
    BY <2>1, StartRight DEF RightAt
<1>2. ASSUME NEW k \in 1..n, RightAt(f, body, k - 1) PROVE RightAt(f, body, k)
  <2>1. PICK l, s, x : l = k - 1 /\ s = f[k - 1] /\ x = body[k]
    OBVIOUS
  <2>2. l \in Nat /\ l + 1 = k /\ l \in 0..n
    BY <1>0, <2>1
  <2>3. s \in Seq(M) /\ x \in M
    BY <1>0, <2>1, <2>2 DEF Emits
  <2>4. LogsRight(s) /\ ReadsUpto(s, body, l)
    BY <1>2, <2>1 DEF RightAt
  <2>5. Takes(body, l, x)
    BY <1>0, <2>1, <2>2 DEF Takes
  <2>6. LogsRight(Logged(s, x)) /\ ReadsUpto(Logged(s, x), body, l + 1)
    BY <2>2, <2>3, <2>4, <2>5, LoggedRight
  <2>7. f[k] = Logged(s, x)
    BY <2>1 DEF Emits
  <2> QED
    BY <2>2, <2>6, <2>7 DEF RightAt
<1>3. ASSUME Off # {} PROVE FALSE
  <2>1. PICK k : k \in Off /\ \A m \in Off : k <= m
    <3>1. Off \subseteq Nat
      BY <1>0
    <3> HIDE DEF Off
    <3> QED
      BY <1>3, <3>1, LeastNatural
  <2>2. k \in 0..n /\ ~RightAt(f, body, k)
    BY <2>1
  <2>3. k # 0
    BY <1>1, <2>2
  <2>4. k \in 1..n /\ k - 1 \in 0..n /\ ~(k <= k - 1)
    BY <1>0, <2>2, <2>3
  <2>5. RightAt(f, body, k - 1)
    BY <2>1, <2>4
  <2> QED
    BY <1>2, <2>2, <2>4, <2>5
<1> QED
  BY <1>3

\* onCreate: its log calls are where they belong, and the rest is as it was.
LEMMA OnCreateRight ==
  ASSUME NEW body, body \in Seq(ToSet(body)), ToSet(body) \cap Logs = {}
  PROVE  LogsRight(OnCreate(body)) /\ ReadsUpto(OnCreate(body), body, Len(body))
<1>1. PICK M, e : M = ToSet(body) \cup Logs /\ e = "log end"
  OBVIOUS
<1>2. e \in M /\ IsEnd(e)
  BY <1>1 DEF Logs, IsEnd
<1>3. Len(body) \in Nat /\ \A k \in 1..Len(body) : body[k] \in M /\ body[k] \notin Logs
  BY <1>1, LenProperties, ElementOfSeq
<1>4. Unlogged(body, M)
  BY <1>3 DEF Unlogged
<1>5. PICK f : Emits(f, body, M) /\ OnCreate(body) = f[Len(body)]
  BY <1>1, EmittedSteps
<1>6. \A k \in 0..Len(body) : RightAt(f, body, k)
  BY <1>2, <1>4, <1>5, EmittedRight
<1>7. Len(body) \in 0..Len(body)
  BY <1>3
<1> QED
  BY <1>5, <1>6, <1>7 DEF RightAt

\* A body that nothing was added to reads as it is.
LEMMA SameReads ==
  ASSUME NEW body, body \in Seq(ToSet(body)), ToSet(body) \cap Logs = {}
  PROVE  ReadsAs(body, body)
<1>1. Len(body) \in Nat /\ \A k \in 1..Len(body) : body[k] \notin Logs
  BY LenProperties, ElementOfSeq
<1>2. Own(body) = 1..Len(body)
  BY <1>1 DEF Own
<1>3. \A k \in Nat : Cardinality(1..k) = k
  <2>1. ASSUME NEW k \in Nat PROVE Cardinality(1..k) = k
    <3>1. Cardinality(1..k) = IF 1 > k THEN 0 ELSE k - 1 + 1
      BY FS_Interval
    <3> QED
      BY <3>1
  <2> QED
    BY <2>1
<1>4. ASSUME NEW k \in 1..Len(body) PROVE {j \in 1..Len(body) : j <= k} = 1..k
  BY <1>1
<1>5. ASSUME NEW k \in 1..Len(body) PROVE Cardinality({j \in 1..Len(body) : j <= k}) = k
  <2>1. k \in Nat
    BY <1>1
  <2> QED
    BY <1>3, <1>4, <2>1
<1> QED
  BY <1>1, <1>2, <1>3, <1>5 DEF ReadsAs

\* onDestroy: its log call comes first, and the rest is as it was.
LEMMA OnDestroyRight ==
  ASSUME NEW body, body \in Seq(ToSet(body)), ToSet(body) \cap Logs = {}
  PROVE  /\ OnDestroy(body)[1] = "log" /\ Count(OnDestroy(body), "log") = 1
         /\ Count(OnDestroy(body), "log end") = 0 /\ ReadsAs(OnDestroy(body), body)
<1>1. PICK M, l, s, out : M = ToSet(body) \cup Logs /\ l = Len(body) /\ s = <<"log">> /\ out = OnDestroy(body)
  OBVIOUS
<1>2. l \in Nat
  BY <1>1, LenProperties
<1>3. Len(s) = 1 /\ s[1] = "log"
  BY <1>1
<1>4. s \in Seq(M) /\ body \in Seq(M)
  <2>1. PICK e, x : e = <<>> /\ x = "log"
    OBVIOUS
  <2>2. x \in M
    BY <1>1, <2>1 DEF Logs
  <2>3. Append(e, x) \in Seq(M)
    BY <2>1, <2>2, EmptySeq, AppendProperties
  <2>4. s = Append(e, x)
    BY <1>1, <2>1
  <2>5. body \in Seq(M)
    BY <1>1, LenProperties, ElementOfSeq, SeqDef
  <2> QED
    BY <2>3, <2>4, <2>5
<1>5. Len(out) = l + 1
  <2>1. out = s \o body
    BY <1>1 DEF OnDestroy
  <2>2. Len(s \o body) = Len(s) + Len(body)
    BY <1>4, ConcatProperties
  <2> QED
    BY <1>1, <1>2, <1>3, <2>1, <2>2
<1>6. \A k \in 1..(l + 1) : out[k] = IF k = 1 THEN "log" ELSE body[k - 1]
  <2>1. out = s \o body
    BY <1>1 DEF OnDestroy
  <2>2. \A k \in 1..(Len(s) + Len(body)) : (s \o body)[k] = IF k <= Len(s) THEN s[k] ELSE body[k - Len(s)]
    BY <1>4, ConcatProperties
  <2>3. ASSUME NEW k \in 1..(l + 1) PROVE out[k] = IF k = 1 THEN "log" ELSE body[k - 1]
    <3>1. k \in 1..(1 + l)
      BY <1>2
    <3>2. out[k] = IF k <= 1 THEN s[k] ELSE body[k - 1]
      BY <1>1, <1>3, <2>1, <2>2, <3>1
    <3>3. k <= 1 <=> k = 1
      BY <1>2
    <3> QED
      BY <1>3, <3>2, <3>3
  <2> QED
    BY <2>3
<1>7. \A k \in 1..l : body[k] \notin Logs
  BY <1>1, ElementOfSeq
<1>8. ASSUME NEW k \in 1..(l + 1), k # 1 PROVE k - 1 \in 1..l
  BY <1>2, <1>8
<1>9. Count(out, "log") = 1
  <2>1. {k \in 1..(l + 1) : out[k] = "log"} = {1}
    <3>1. 1 \in 1..(l + 1) /\ out[1] = "log"
      BY <1>2, <1>6
    <3>2. ASSUME NEW k \in 1..(l + 1), k # 1 PROVE out[k] # "log"
      <4>1. out[k] = body[k - 1] /\ body[k - 1] \notin Logs
        BY <1>6, <1>7, <1>8, <3>2
      <4> QED
        BY <4>1 DEF Logs
    <3> QED
      BY <3>1, <3>2
  <2>2. Cardinality({1}) = 1
    BY FS_Singleton
  <2> QED
    BY <1>5, <2>1, <2>2 DEF Count
<1>10. Count(out, "log end") = 0
  <2>1. ASSUME NEW k \in 1..(l + 1) PROVE out[k] # "log end"
    <3>1. CASE k = 1
      BY <1>6, <3>1
    <3>2. CASE k # 1
      <4>1. out[k] = body[k - 1] /\ body[k - 1] \notin Logs
        BY <1>6, <1>7, <1>8, <3>2
      <4> QED
        BY <4>1 DEF Logs
    <3> QED
      BY <3>1, <3>2
  <2>2. {k \in 1..(l + 1) : out[k] = "log end"} = {}
    BY <2>1
  <2> QED
    BY <1>5, <2>2, FS_EmptySet DEF Count
<1>11. Own(out) = 2..(l + 1)
  <2>1. ASSUME NEW k \in 1..(l + 1) PROVE out[k] \notin Logs <=> k # 1
    <3>1. CASE k = 1
      <4>1. out[k] = "log"
        BY <1>6, <3>1
      <4> QED
        BY <3>1, <4>1 DEF Logs
    <3>2. CASE k # 1
      BY <1>6, <1>7, <1>8, <3>2
    <3> QED
      BY <3>1, <3>2
  <2>2. Own(out) = {k \in 1..(l + 1) : k # 1}
    BY <1>5, <2>1 DEF Own
  <2>3. {k \in 1..(l + 1) : k # 1} = 2..(l + 1)
    BY <1>2
  <2> QED
    BY <2>2, <2>3
<1>12. \A k \in Nat \ {0} : Cardinality(2..k) = k - 1
  <2>1. ASSUME NEW k \in Nat \ {0} PROVE Cardinality(2..k) = k - 1
    <3>1. Cardinality(2..k) = IF 2 > k THEN 0 ELSE k - 2 + 1
      BY FS_Interval
    <3> QED
      BY <3>1
  <2> QED
    BY <2>1
<1>13. Cardinality(Own(out)) = l
  <2>1. l + 1 \in Nat \ {0} /\ (l + 1) - 1 = l
    BY <1>2
  <2> QED
    BY <1>11, <1>12, <2>1
<1>14. ASSUME NEW k \in Own(out) PROVE out[k] = body[Cardinality({j \in Own(out) : j <= k})]
  <2>1. k \in 2..(l + 1)
    BY <1>11
  <2>2. k \in 1..(l + 1) /\ k # 1 /\ k \in Nat \ {0}
    BY <1>2, <2>1
  <2>3. {j \in 2..(l + 1) : j <= k} = 2..k
    BY <1>2, <2>1
  <2>4. Cardinality({j \in Own(out) : j <= k}) = k - 1
    BY <1>11, <1>12, <2>2, <2>3
  <2> QED
    BY <1>6, <2>2, <2>4
<1>15. ReadsAs(out, body)
  BY <1>1, <1>13, <1>14 DEF ReadsAs
<1>16. out[1] = "log"
  BY <1>2, <1>6
<1> QED
  BY <1>1, <1>9, <1>10, <1>15, <1>16

\* visitMethod instruments every method of FragmentActivity the way it should.
LEMMA MethodRight ==
  ASSUME NEW m, IsMethod(m), NEW class, class = FragmentActivityClass
  PROVE  Instrumented(m, VisitMethod(class, m))
<1>1. m = [name |-> m.name, body |-> m.body] /\ m.body \in Seq(ToSet(m.body)) /\ ToSet(m.body) \cap Logs = {}
  BY DEF IsMethod, Logs
<1>2. ReadsAs(m.body, m.body)
  BY <1>1, SameReads
<1>3. CASE m.body = <<>> \/ m.name \notin {"onCreate", "onDestroy"}
  <2>1. VisitMethod(class, m) = m
    BY <1>3 DEF VisitMethod
  <2> QED
    BY <1>2, <1>3, <2>1 DEF Instrumented
<1>4. CASE m.body # <<>> /\ m.name = "onCreate"
  <2>1. PICK b : b = OnCreate(m.body)
    OBVIOUS
  <2>2. VisitMethod(class, m) = [name |-> m.name, body |-> b]
    <3>1. VisitMethod(class, m) = [m EXCEPT !.body = b]
      BY <1>4, <2>1 DEF VisitMethod
    <3> QED
      BY <1>1, <3>1
  <2>3. LogsRight(b) /\ ReadsUpto(b, m.body, Len(m.body))
    BY <1>1, <2>1, OnCreateRight
  <2>4. ReadsAs(b, m.body)
    BY <2>3 DEF ReadsUpto, ReadsAs
  <2>5. PICK out, name : out = VisitMethod(class, m) /\ name = m.name
    OBVIOUS
  <2>6. out.name = name /\ out.body = b
    BY <2>2, <2>5
  <2>7. name = "onCreate" /\ name # "onDestroy" /\ name \in {"onCreate", "onDestroy"}
    BY <1>4, <2>5
  <2>8. /\ b[1] = "log" /\ Count(b, "log") = 1 /\ Count(b, "log end") = Count(b, "return")
        /\ \A k \in 1..Len(b) : b[k] = "return" => b[k - 1] = "log end"
    BY <2>3 DEF LogsRight
  <2>9. Instrumented(m, out)
    BY <1>4, <2>4, <2>5, <2>6, <2>7, <2>8, Zenon DEF Instrumented
  <2> QED
    BY <2>5, <2>9
<1>5. CASE m.body # <<>> /\ m.name = "onDestroy"
  <2>1. PICK b : b = OnDestroy(m.body)
    OBVIOUS
  <2>2. VisitMethod(class, m) = [name |-> m.name, body |-> b]
    <3>1. VisitMethod(class, m) = [m EXCEPT !.body = b]
      BY <1>5, <2>1 DEF VisitMethod
    <3> QED
      BY <1>1, <3>1
  <2>3. b[1] = "log" /\ Count(b, "log") = 1 /\ Count(b, "log end") = 0 /\ ReadsAs(b, m.body)
    BY <1>1, <2>1, OnDestroyRight
  <2>4. PICK out, name : out = VisitMethod(class, m) /\ name = m.name
    OBVIOUS
  <2>5. out.name = name /\ out.body = b
    BY <2>2, <2>4
  <2>6. name = "onDestroy" /\ name # "onCreate" /\ name \in {"onCreate", "onDestroy"}
    BY <1>5, <2>4
  <2>7. Instrumented(m, out)
    BY <1>5, <2>3, <2>4, <2>5, <2>6, Zenon DEF Instrumented
  <2> QED
    BY <2>4, <2>7
<1> QED
  BY <1>3, <1>4, <1>5

\* What is written for an entry: the entry, or its class with the calls added.
Support(e) == e.name = FragmentActivity /\ e.class = FragmentActivityClass

LEMMA WrittenRight ==
  ASSUME NEW e, IsEntry(e)
  PROVE  /\ ~Support(e) => Written(e) = e
         /\ Support(e) =>
              /\ Written(e).name = e.name /\ Written(e).class = e.class
              /\ Len(Written(e).methods) = Len(e.methods)
              /\ \A m \in 1..Len(e.methods) : Instrumented(e.methods[m], Written(e).methods[m])
<1>1. e = [name |-> e.name, class |-> e.class, methods |-> e.methods] /\ e.methods \in Seq(ToSet(e.methods))
  BY DEF IsEntry
<1>2. \A m \in ToSet(e.methods) : IsMethod(m)
  BY DEF IsEntry
<1>3. PICK c, l, class : /\ l = Len(e.methods) /\ class = e.class
                         /\ c = [k \in 1..l |-> VisitMethod(class, e.methods[k])]
  <2>1. PICK len, cls : len = Len(e.methods) /\ cls = e.class
    OBVIOUS
  <2>2. PICK d : d = [k \in 1..len |-> VisitMethod(cls, e.methods[k])]
    OBVIOUS
  <2> QED
    BY <2>1, <2>2
<1>4. l \in Nat /\ Len(c) = l
  <2>1. l \in Nat
    BY <1>1, <1>3, LenProperties
  <2> QED
    BY <1>3, <2>1
<1>5. ASSUME class = FragmentActivityClass, NEW m \in 1..l PROVE Instrumented(e.methods[m], c[m])
  <2>1. IsMethod(e.methods[m])
    BY <1>1, <1>2, <1>3, ElementOfSeq
  <2>2. c[m] = VisitMethod(class, e.methods[m])
    BY <1>3
  <2> QED
    BY <1>5, <2>1, <2>2, MethodRight
<1>6. ASSUME CheckClassFile(e.name)
      PROVE  Written(e) = [name |-> e.name, class |-> e.class, methods |-> c]
  <2>1. Written(e) = [e EXCEPT !.methods = c]
    BY <1>3, <1>6 DEF Written
  <2> QED
    BY <1>1, <2>1
<1>7. Support(e) => Written(e).name = e.name /\ Written(e).class = e.class /\ Written(e).methods = c
  BY <1>6 DEF Support, CheckClassFile
<1>8. ASSUME ~Support(e) PROVE Written(e) = e
  <2>1. CASE ~CheckClassFile(e.name)
    BY <2>1 DEF Written
  <2>2. CASE CheckClassFile(e.name) /\ class # FragmentActivityClass
    <3>1. e.methods = [k \in 1..l |-> e.methods[k]]
      BY <1>1, <1>3, LenProperties
    <3>2. \A k \in 1..l : VisitMethod(class, e.methods[k]) = e.methods[k]
      BY <2>2 DEF VisitMethod
    <3>3. c = e.methods
      BY <1>3, <3>1, <3>2
    <3> QED
      BY <1>1, <1>6, <2>2, <3>3
  <2> QED
    BY <1>3, <1>8, <2>1, <2>2 DEF Support, CheckClassFile
<1> QED
  BY <1>3, <1>4, <1>5, <1>7, <1>8 DEF Support

\* What a build puts out for an input of the project is what it should be.
LEMMA InputRight ==
  ASSUME project \in Projects, NEW i \in ToSet(project.items)
  PROVE  PutOut(i, WrittenAll(i.entries))
<1>1. i.entries \in Seq(ToSet(i.entries)) /\ \A e \in ToSet(i.entries) : IsEntry(e)
  BY ProjectsAssumption
<1>2. i.kind \in {"directory", "jar"} /\ (i.kind = "directory" => \A e \in ToSet(i.entries) : e.name # FragmentActivity)
  BY ProjectsAssumption DEF CheckClassFile
<1>3. PICK l, out : l = Len(i.entries) /\ out = WrittenAll(i.entries)
  OBVIOUS
<1>4. l \in Nat /\ Len(out) = l /\ \A k \in 1..l : out[k] = Written(i.entries[k])
  <2>1. l \in Nat
    BY <1>1, <1>3, LenProperties
  <2>2. out = [k \in 1..l |-> Written(i.entries[k])]
    BY <1>3 DEF WrittenAll
  <2> QED
    BY <2>1, <2>2
<1>5. ASSUME NEW k \in 1..l
      PROVE  LET e == i.entries[k]
             IN IF i.kind = "jar" /\ e.name = FragmentActivity /\ e.class = FragmentActivityClass
                THEN /\ out[k].name = e.name /\ out[k].class = e.class
                     /\ Len(out[k].methods) = Len(e.methods)
                     /\ \A m \in 1..Len(e.methods) : Instrumented(e.methods[m], out[k].methods[m])
                ELSE out[k] = e
  <2>1. PICK e, w : e = i.entries[k] /\ w = out[k]
    OBVIOUS
  <2>2. e \in ToSet(i.entries) /\ IsEntry(e) /\ w = Written(e)
    BY <1>1, <1>3, <1>4, <2>1, ElementOfSeq
  <2>3. CASE Support(e)
    <3>1. i.kind = "jar"
      BY <1>2, <2>2, <2>3 DEF Support
    <3>2. /\ w.name = e.name /\ w.class = e.class /\ Len(w.methods) = Len(e.methods)
          /\ \A m \in 1..Len(e.methods) : Instrumented(e.methods[m], w.methods[m])
      BY <2>2, <2>3, WrittenRight
    <3> QED
      BY <2>1, <2>3, <3>1, <3>2 DEF Support
  <2>4. CASE ~Support(e)
    <3>1. w = e
      BY <2>2, <2>4, WrittenRight
    <3> QED
      BY <2>1, <2>4, <3>1 DEF Support
  <2> QED
    BY <2>3, <2>4
<1> QED
  BY <1>3, <1>4, <1>5 DEF PutOut

\* A build that is done is right.
LEMMA DoneRight == AsmInv => BuildRight
<1> SUFFICES ASSUME AsmInv, step = "done"
             PROVE  /\ \A i \in Inputs : Location(i) \in DOMAIN output /\ PutOut(i, output[Location(i)])
                    /\ ~taken => Cardinality(DOMAIN output) = Cardinality(Inputs)
                    /\ DOMAIN disk = {i.path : i \in Jars}
                    /\ \A i \in Jars : disk[i.path] = [entries |-> i.entries, closed |-> TRUE]
  BY DEF BuildRight, Inputs
<1>1. project \in Projects /\ \A i \in Jars : i.path \in DOMAIN disk /\ disk[i.path] = [entries |-> i.entries, closed |-> TRUE]
  BY DEF AsmInv, DiskInv
<1>2. /\ pending = <<>>
      /\ ~taken => DOMAIN output = {Location(i) : i \in Handled}
      /\ \A i \in Handled : Location(i) \in DOMAIN output /\ output[Location(i)] = WrittenAll(i.entries)
      /\ \A p \in DOMAIN disk : p \in Paths \/ \E i \in ToSet(pending) : IsZip(i) /\ p = TempIn(i.path[1])
  BY DEF AsmInv, BuildInv, PutsOut
<1>3. ToSet(pending) = {}
  BY <1>2 DEF ToSet
<1>4. Handled = Inputs
  BY <1>3 DEF Handled
<1>5. Inputs \subseteq ToSet(project.items) /\ IsFiniteSet(Inputs)
  <2>1. Inputs \subseteq ToSet(project.items) /\ project.items \in Seq(ToSet(project.items))
    BY <1>1, InputsNamed, ItemIs
  <2>2. IsFiniteSet(ToSet(project.items))
    BY <2>1, ListedFinite
  <2> QED
    BY <2>1, <2>2, FS_Subset
<1>6. ASSUME NEW i \in Inputs PROVE Location(i) \in DOMAIN output /\ PutOut(i, output[Location(i)])
  <2>1. Location(i) \in DOMAIN output /\ output[Location(i)] = WrittenAll(i.entries)
    BY <1>2, <1>4
  <2>2. PutOut(i, WrittenAll(i.entries))
    BY <1>1, <1>5, InputRight
  <2> QED
    BY <2>1, <2>2
<1>7. ASSUME ~taken PROVE Cardinality(DOMAIN output) = Cardinality(Inputs)
  <2>1. PICK D, f : D = DOMAIN output /\ f = [i \in Inputs |-> Location(i)]
    OBVIOUS
  <2>2. D = {Location(i) : i \in Inputs}
    BY <1>2, <1>4, <1>7, <2>1
  <2>3. \A i, j \in Inputs : Location(i) = Location(j) => i = j
    BY <1>1, <1>5, ItemIs
  <2>4. f \in Bijection(Inputs, D)
    <3>1. f \in [Inputs -> D]
      BY <2>1, <2>2
    <3>2. \A i, j \in Inputs : f[i] = f[j] => i = j
      BY <2>1, <2>3
    <3>3. \A d \in D : \E i \in Inputs : f[i] = d
      BY <2>1, <2>2
    <3> QED
      BY <3>1, <3>2, <3>3 DEF Bijection, Injection, Surjection, IsInjective
  <2>5. Cardinality(D) = Cardinality(Inputs)
    BY <1>5, <2>4, FS_Bijection DEF ExistsBijection
  <2> QED
    BY <2>1, <2>5
<1>8. DOMAIN disk = {i.path : i \in Jars}
  <2>1. DOMAIN disk \subseteq Paths
    BY <1>2, <1>3
  <2>2. Paths \subseteq DOMAIN disk
    BY <1>1 DEF Paths
  <2> QED
    BY <2>1, <2>2 DEF Paths
<1> QED
  BY <1>1, <1>6, <1>7, <1>8

\* A build that ends, after any number of builds that were killed or failed, has put
\* out every input of the project, FragmentActivity with its log calls exactly once
\* and every other class as it was, whether or not it found a file that an earlier
\* build had left among its inputs; only then has it put out anything else.  The
\* project's jars are as they were.
THEOREM BuildsRight == MethodSpec => []BuildRight
<1>1. MethodInit => AsmInit
  BY DEF MethodInit
<1>2. [MethodNext]_methodVars => [AsmNext]_asmVars
  BY DEF MethodNext, methodVars
<1> QED
  BY <1>1, <1>2, AsmInvHolds, DoneRight, PTL DEF MethodSpec

-----------------------------------------------------------------------------
(* What a Dalvik hook computes from a signature.                           *)

\* What holds at 0, and from each step to the next, holds up to N.
LEMMA UpTo ==
  ASSUME NEW N \in Nat, NEW Good, 0 \in Good, \A k \in 1..N : k - 1 \in Good => k \in Good
  PROVE  0..N \subseteq Good
<1> DEFINE Off == {k \in 0..N : k \notin Good}
<1>1. ASSUME Off # {} PROVE FALSE
  <2>1. PICK k : k \in Off /\ \A m \in Off : k <= m
    <3>1. Off \subseteq Nat
      OBVIOUS
    <3> HIDE DEF Off
    <3> QED
      BY <1>1, <3>1, LeastNatural
  <2>2. k \in 0..N /\ k \notin Good /\ k # 0
    BY <2>1
  <2>3. k \in 1..N /\ k - 1 \in 0..N /\ ~(k <= k - 1)
    BY <2>2
  <2>4. k - 1 \notin Off
    BY <2>1, <2>3
  <2> QED
    BY <2>2, <2>3, <2>4
<1> QED
  BY <1>1

\* The words before a parameter: those before the last one, and its own.
LEMMA FirstWords ==
  ASSUME NEW shorty
  PROVE  /\ First(shorty, 1) = 0
         /\ \A k \in Nat \ {0} : /\ First(shorty, k) \in Nat
                                 /\ First(shorty, k + 1) = First(shorty, k) + Words(shorty[k])
<1> DEFINE W(k) == {x \in (1..(k - 1)) \X {1, 2} : x[2] = 1 \/ shorty[x[1]] \in Wide}
<1>1. First(shorty, 1) = 0
  <2>1. W(1) = {}
    OBVIOUS
  <2> QED
    BY <2>1, FS_EmptySet, Zenon DEF First
<1>2. ASSUME NEW k \in Nat \ {0}
      PROVE  /\ First(shorty, k) \in Nat
             /\ First(shorty, k + 1) = First(shorty, k) + Words(shorty[k])
  <2>1. IsFiniteSet(W(k)) /\ Cardinality(W(k)) \in Nat
    <3>1. IsFiniteSet(1..(k - 1)) /\ IsFiniteSet({1, 2})
      <4>1. IsFiniteSet(1..(k - 1)) /\ IsFiniteSet(1..2)
        <5>1. \A m \in Int : IsFiniteSet(1..m)
          BY FS_Interval
        <5>2. k - 1 \in Int /\ 2 \in Int
          OBVIOUS
        <5> QED
          BY <5>1, <5>2, Zenon
      <4>2. ASSUME NEW x \in 1..2 PROVE x = 1 \/ x = 2
        OBVIOUS
      <4>3. {1, 2} = 1..2
        BY <4>2
      <4> QED
        BY <4>1, <4>3
    <3>2. IsFiniteSet((1..(k - 1)) \X {1, 2})
      BY <3>1, FS_Product
    <3>3. W(k) \in SUBSET ((1..(k - 1)) \X {1, 2})
      OBVIOUS
    <3> HIDE DEF W
    <3>4. IsFiniteSet(W(k))
      BY <3>2, <3>3, FS_Subset
    <3> QED
      BY <3>4, FS_CardinalityType
  <2>2. <<k, 1>> \notin W(k) /\ <<k, 2>> \notin W(k) \cup {<<k, 1>>}
    OBVIOUS
  <2>3. PICK S : S = W(k) \cup {<<k, 1>>}
    OBVIOUS
  <2>4. IsFiniteSet(S) /\ Cardinality(S) = Cardinality(W(k)) + 1
    <3> HIDE DEF W
    <3> QED
      BY <2>1, <2>2, <2>3, FS_AddElement
  <2>5. Cardinality(S \cup {<<k, 2>>}) = Cardinality(W(k)) + 2
    <3>1. Cardinality(S \cup {<<k, 2>>}) = Cardinality(S) + 1
      <4>1. <<k, 2>> \notin S
        BY <2>2, <2>3
      <4> HIDE DEF W
      <4> QED
        BY <2>4, <4>1, FS_AddElement
    <3> QED
      BY <2>1, <2>4, <3>1
  <2>6. (k + 1) - 1 = k /\ 1..k = (1..(k - 1)) \cup {k}
    OBVIOUS
  <2>7. W(k + 1) = IF shorty[k] \in Wide THEN S \cup {<<k, 2>>} ELSE S
    <3>1. W(k + 1) = {x \in ((1..(k - 1)) \cup {k}) \X {1, 2} : x[2] = 1 \/ shorty[x[1]] \in Wide}
      BY <2>6
    <3>2. ASSUME shorty[k] \in Wide PROVE W(k + 1) = S \cup {<<k, 2>>}
      BY <2>3, <3>1, <3>2
    <3>3. ASSUME shorty[k] \notin Wide PROVE W(k + 1) = S
      BY <2>3, <3>1, <3>3
    <3> QED
      BY <3>2, <3>3
  <2>8. Cardinality(W(k + 1)) = Cardinality(W(k)) + Words(shorty[k])
    <3> HIDE DEF W
    <3> QED
      BY <2>1, <2>4, <2>5, <2>7 DEF Words
  <2>9. First(shorty, k) = Cardinality(W(k)) /\ First(shorty, k + 1) = Cardinality(W(k + 1))
    BY Zenon DEF First
  <2> HIDE DEF W
  <2> QED
    BY <2>1, <2>8, <2>9
<1> QED
  BY <1>1, <1>2

\* calcMethodArgsSize counts the argument words.
LEMMA SizeCounts ==
  ASSUME NEW shorty, NEW n \in Nat, Len(shorty) = n
  PROVE  CalcMethodArgsSize(shorty) = First(shorty, n + 1)
<1> DEFINE Found(h) == h = [k \in 0..n |-> IF k = 0 THEN 0 ELSE Sized(h[k - 1], shorty[k])]
<1>1. \E h : Found(h)
  <2>1. PICK f : f = [k \in 0..n |-> First(shorty, k + 1)]
    OBVIOUS
  <2>2. ASSUME NEW k \in 0..n PROVE f[k] = IF k = 0 THEN 0 ELSE Sized(f[k - 1], shorty[k])
    <3>1. CASE k = 0
      BY <2>1, <3>1, FirstWords
    <3>2. CASE k # 0
      <4>1. k \in Nat \ {0} /\ k - 1 \in 0..n /\ (k - 1) + 1 = k
        BY <3>2
      <4>2. First(shorty, k + 1) = First(shorty, k) + Words(shorty[k])
        BY <4>1, FirstWords
      <4>3. f[k - 1] = First(shorty, k) /\ f[k] = First(shorty, k + 1)
        BY <2>1, <4>1
      <4> QED
        BY <3>2, <4>2, <4>3 DEF Sized
    <3> QED
      BY <3>1, <3>2
  <2>3. f = [k \in 0..n |-> f[k]]
    BY <2>1
  <2>4. Found(f)
    BY <2>2, <2>3
  <2> QED
    BY <2>4
<1>2. PICK g : g = CHOOSE h : Found(h)
  OBVIOUS
<1>3. Found(g)
  <2> HIDE DEF Found
  <2> QED
    BY <1>1, <1>2
<1>4. CalcMethodArgsSize(shorty) = g[n]
  BY <1>2, Zenon DEF CalcMethodArgsSize, After
<1>5. 0..n \subseteq {k \in 0..n : g[k] = First(shorty, k + 1)}
  <2> DEFINE Good == {k \in 0..n : g[k] = First(shorty, k + 1)}
  <2>1. 0 \in Good
    BY <1>3, FirstWords
  <2>2. ASSUME NEW k \in 1..n, k - 1 \in Good PROVE k \in Good
    <3>1. k \in Nat \ {0} /\ k \in 0..n /\ (k - 1) + 1 = k /\ g[k - 1] = First(shorty, k)
      BY <2>2
    <3>2. First(shorty, k + 1) = First(shorty, k) + Words(shorty[k])
      BY <3>1, FirstWords
    <3>3. g[k] = Sized(g[k - 1], shorty[k])
      BY <1>3, <3>1
    <3> QED
      BY <3>1, <3>2, <3>3 DEF Sized
  <2> HIDE DEF Good
  <2>3. 0..n \subseteq Good
    BY <2>1, <2>2, UpTo
  <2> QED
    BY <2>3 DEF Good
<1> QED
  BY <1>4, <1>5

\* The words of a boxed parameter.
BoxOf(shorty, k) == [first |-> First(shorty, k), wide |-> shorty[k] \in Wide]

\* A sequence of what is made of each parameter: one more is appended.
LEMMA OneMore ==
  ASSUME NEW f, NEW k \in Nat \ {0}
  PROVE  [j \in 1..k |-> f[j]] = Append([j \in 1..(k - 1) |-> f[j]], f[k])
<1>1. PICK s : s = [j \in 1..(k - 1) |-> f[j]]
  OBVIOUS
<1>2. PICK T : T = {f[j] : j \in 1..k}
  OBVIOUS
<1>3. s \in Seq(T) /\ Len(s) = k - 1 /\ f[k] \in T
  <2>1. \A j \in 1..(k - 1) : f[j] \in T
    BY <1>2
  <2>2. k - 1 \in Nat /\ s \in [1..(k - 1) -> T] /\ f[k] \in T
    BY <1>1, <1>2, <2>1
  <2> QED
    BY <2>2
<1>4. /\ Append(s, f[k]) \in Seq(T) /\ Len(Append(s, f[k])) = k
      /\ Append(s, f[k])[k] = f[k]
      /\ \A j \in 1..(k - 1) : Append(s, f[k])[j] = s[j]
  BY <1>3, AppendProperties
<1>5. PICK a : a = Append(s, f[k])
  OBVIOUS
<1>6. a = [j \in 1..k |-> a[j]]
  BY <1>4, <1>5
<1>7. \A j \in 1..k : a[j] = f[j]
  BY <1>1, <1>4, <1>5
<1> QED
  BY <1>1, <1>5, <1>6, <1>7

\* dvmBoxMethodArgs makes of each parameter its words.
LEMMA BoxesRight ==
  ASSUME NEW shorty, NEW n \in Nat, Len(shorty) = n
  PROVE  BoxedRight(shorty, BoxMethodArgs(shorty))
<1> DEFINE Found(h) == h = [k \in 0..n |-> IF k = 0 THEN [next |-> 0, words |-> <<>>]
                                           ELSE Boxed(h[k - 1], shorty[k])]
<1>1. PICK b : b = [k \in 1..n |-> BoxOf(shorty, k)]
  OBVIOUS
<1>2. PICK f : f = [k \in 0..n |-> [next |-> First(shorty, k + 1), words |-> [j \in 1..k |-> b[j]]]]
  OBVIOUS
<1>3. f[0] = [next |-> 0, words |-> <<>>]
  <2>1. [j \in 1..0 |-> b[j]] = <<>>
    OBVIOUS
  <2> QED
    BY <1>2, <2>1, FirstWords
<1>4. ASSUME NEW k \in 1..n PROVE f[k] = Boxed(f[k - 1], shorty[k])
  <2>1. k \in Nat \ {0} /\ k \in 0..n /\ k - 1 \in 0..n /\ (k - 1) + 1 = k
    OBVIOUS
  <2>2. First(shorty, k + 1) = First(shorty, k) + Words(shorty[k])
    BY <2>1, FirstWords
  <2>3. [j \in 1..k |-> b[j]] = Append([j \in 1..(k - 1) |-> b[j]], b[k])
    BY <2>1, OneMore
  <2>4. f[k - 1] = [next |-> First(shorty, k), words |-> [j \in 1..(k - 1) |-> b[j]]]
    BY <1>2, <2>1
  <2>5. f[k] = [next |-> First(shorty, k + 1), words |-> [j \in 1..k |-> b[j]]]
    BY <1>2, <2>1
  <2>6. b[k] = [first |-> First(shorty, k), wide |-> shorty[k] \in Wide]
    BY <1>1 DEF BoxOf
  <2>7. Boxed(f[k - 1], shorty[k]) = [next |-> First(shorty, k) + Words(shorty[k]),
                                      words |-> Append([j \in 1..(k - 1) |-> b[j]], b[k])]
    BY <2>4, <2>6 DEF Boxed
  <2> QED
    BY <2>2, <2>3, <2>5, <2>7
<1>5. Found(f)
  <2>1. f = [k \in 0..n |-> f[k]]
    BY <1>2
  <2>2. ASSUME NEW k \in 0..n, k # 0 PROVE f[k] = Boxed(f[k - 1], shorty[k])
    <3>1. k \in 1..n
      BY <2>2
    <3> QED
      BY <1>4, <3>1
  <2> QED
    BY <1>3, <2>1, <2>2
<1>6. PICK g : g = CHOOSE h : Found(h)
  OBVIOUS
<1>7. Found(g)
  <2> HIDE DEF Found
  <2> QED
    BY <1>5, <1>6
<1>8. BoxMethodArgs(shorty) = g[n].words
  BY <1>6, Zenon DEF BoxMethodArgs, After
<1>9. g[n] = f[n]
  <2> DEFINE Good == {k \in 0..n : g[k] = f[k]}
  <2>1. 0 \in Good
    BY <1>3, <1>7
  <2>2. ASSUME NEW k \in 1..n, k - 1 \in Good PROVE k \in Good
    <3>1. k \in 0..n /\ k # 0 /\ g[k - 1] = f[k - 1]
      BY <2>2
    <3>2. g[k] = Boxed(g[k - 1], shorty[k])
      BY <1>7, <3>1
    <3> QED
      BY <1>4, <3>1, <3>2
  <2> HIDE DEF Good
  <2>3. 0..n \subseteq Good
    BY <2>1, <2>2, UpTo
  <2> QED
    BY <2>3 DEF Good
<1>10. BoxMethodArgs(shorty) = [j \in 1..n |-> b[j]]
  <2>1. n \in 0..n
    OBVIOUS
  <2>2. f[n] = [next |-> First(shorty, n + 1), words |-> [j \in 1..n |-> b[j]]]
    BY <1>2, <2>1
  <2> HIDE DEF Found
  <2> QED
    BY <1>8, <1>9, <2>2
<1> HIDE DEF Found
<1>11. Len(BoxMethodArgs(shorty)) = n
  BY <1>10
<1>12. \A k \in 1..n : BoxMethodArgs(shorty)[k] = BoxOf(shorty, k)
  BY <1>1, <1>10
<1> QED
  BY <1>11, <1>12 DEF BoxedRight, BoxOf


\* The type of a parameter as it should be looked up, and what dvmGetMethodParamTypes
\* has behind a parameter, when no array of primitives came before it.
Typed(p) == [prefix |-> IF p.array = 1 THEN "[" ELSE "", type |-> p.type]
Behind(p, types) ==
  [isArray |-> p.array > 0 /\ p.type \in Primitives,
   before |-> IF p.type \in Primitives THEN p.type ELSE ";", types |-> types]
Unread == [isArray |-> FALSE, before |-> "(", types |-> <<>>]

LEMMA TypeRead ==
  \A s, p : s.isArray = FALSE /\ p.array \in {0, 1} =>
            TypeOf(s, p) = Behind(p, Append(s.types, Typed(p)))
<1> SUFFICES ASSUME NEW s, NEW p, s.isArray = FALSE, p.array \in {0, 1}
             PROVE  TypeOf(s, p) = Behind(p, Append(s.types, Typed(p)))
  OBVIOUS
<1>1. CASE p.array = 0
  <2>1. (s.isArray \/ p.array > 0) = FALSE /\ ~(p.array > 0) /\ p.array # 1
    BY <1>1
  <2> QED
    BY <2>1, Zenon DEF TypeOf, Behind, Typed
<1>2. CASE p.array = 1
  <2>1. (s.isArray \/ p.array > 0) = TRUE /\ p.array > 0 /\ p.array = 1
    BY <1>2
  <2> QED
    BY <2>1, Zenon DEF TypeOf, Behind, Typed
<1> QED
  BY <1>1, <1>2

LEMMA Fields ==
  /\ Unread.isArray = FALSE /\ Unread.types = <<>>
  /\ \A p, types : /\ Behind(p, types).isArray = (p.array > 0 /\ p.type \in Primitives)
                    /\ Behind(p, types).types = types
  BY DEF Unread, Behind

\* dvmGetMethodParamTypes looks up the types of the parameters.
LEMMA TypesRead ==
  ASSUME NEW sig, NEW n \in Nat, Len(sig) = n, \A k \in 1..n : sig[k].array \in Nat, Plain(sig)
  PROVE  TypesRight(sig, GetMethodParamTypes(sig))
<1> DEFINE Found(h) == h = [k \in 0..n |-> IF k = 0 THEN Unread ELSE TypeOf(h[k - 1], sig[k])]
<1>1. \A k \in 1..n : /\ sig[k].array \in {0, 1}
                      /\ sig[k].array = 1 /\ sig[k].type \in Primitives => k = n
  <2>1. ASSUME NEW k \in 1..n
        PROVE  /\ sig[k].array \in {0, 1}
               /\ sig[k].array = 1 /\ sig[k].type \in Primitives => k = n
    <3>1. /\ sig[k].array <= 1
          /\ sig[k].array = 1 /\ sig[k].type \in Primitives => k = n
      BY Zenon DEF Plain
    <3>2. sig[k].array \in Nat
      OBVIOUS
    <3>3. sig[k].array \in {0, 1}
      BY <3>1, <3>2
    <3> QED
      BY <3>1, <3>3
  <2> QED
    BY <2>1
<1>2. PICK e : e = [k \in 1..n |-> Typed(sig[k])]
  OBVIOUS
<1>3. PICK q : q = [k \in 0..n |-> [j \in 1..k |-> e[j]]]
  OBVIOUS
<1>4. PICK f : f = [k \in 0..n |-> IF k = 0 THEN Unread ELSE Behind(sig[k], q[k])]
  OBVIOUS
<1>5. q[0] = <<>>
  <2>1. [j \in 1..0 |-> e[j]] = <<>>
    OBVIOUS
  <2> QED
    BY <1>3, <2>1
<1>6. ASSUME NEW k \in 1..n PROVE f[k] = TypeOf(f[k - 1], sig[k])
  <2>1. k \in Nat \ {0} /\ k \in 0..n /\ k # 0 /\ k - 1 \in 0..n
    OBVIOUS
  <2>2. q[k] = Append(q[k - 1], e[k])
    <3>1. [j \in 1..k |-> e[j]] = Append([j \in 1..(k - 1) |-> e[j]], e[k])
      BY <2>1, OneMore
    <3> QED
      BY <1>3, <2>1, <3>1
  <2>3. f[k - 1].isArray = FALSE /\ f[k - 1].types = q[k - 1]
    <3>1. CASE k = 1
      <4>1. f[k - 1] = Unread /\ q[k - 1] = <<>>
        BY <1>4, <1>5, <2>1, <3>1
      <4> QED
        BY <4>1, Fields, Zenon
    <3>2. CASE k # 1
      <4>1. k - 1 # 0 /\ k - 1 \in 1..n /\ k - 1 # n
        BY <3>2
      <4>2. f[k - 1] = Behind(sig[k - 1], q[k - 1])
        BY <1>4, <2>1, <4>1
      <4>3. sig[k - 1].array \in {0, 1}
        BY <1>1, <4>1
      <4>4. (sig[k - 1].array > 0 /\ sig[k - 1].type \in Primitives) = FALSE
        <5>1. ~(sig[k - 1].array = 1 /\ sig[k - 1].type \in Primitives)
          BY <1>1, <4>1
        <5>2. sig[k - 1].array > 0 => sig[k - 1].array = 1
          BY <4>3
        <5> QED
          BY <5>1, <5>2, Zenon
      <4>5. /\ Behind(sig[k - 1], q[k - 1]).isArray = (sig[k - 1].array > 0 /\ sig[k - 1].type \in Primitives)
            /\ Behind(sig[k - 1], q[k - 1]).types = q[k - 1]
        BY Fields, Zenon
      <4> QED
        BY <4>2, <4>4, <4>5
    <3> QED
      BY <3>1, <3>2
  <2>4. sig[k].array \in {0, 1}
    BY <1>1
  <2>5. e[k] = Typed(sig[k]) /\ f[k] = Behind(sig[k], q[k])
    BY <1>2, <1>4, <2>1
  <2>6. TypeOf(f[k - 1], sig[k]) = Behind(sig[k], Append(f[k - 1].types, Typed(sig[k])))
    <3>1. PICK s, p : s = f[k - 1] /\ p = sig[k]
      OBVIOUS
    <3>2. TypeOf(s, p) = Behind(p, Append(s.types, Typed(p)))
      <4>1. s.isArray = FALSE /\ p.array \in {0, 1}
        BY <2>3, <2>4, <3>1
      <4> QED
        BY <4>1, TypeRead, Zenon
    <3> QED
      BY <3>1, <3>2, Zenon
  <2> QED
    BY <2>2, <2>3, <2>5, <2>6, Zenon
<1>7. Found(f)
  <2>1. f = [k \in 0..n |-> f[k]]
    BY <1>4
  <2>2. ASSUME NEW k \in 0..n PROVE f[k] = IF k = 0 THEN Unread ELSE TypeOf(f[k - 1], sig[k])
    <3>1. CASE k = 0
      BY <1>4, <3>1
    <3>2. CASE k # 0
      <4>1. k \in 1..n
        BY <3>2
      <4> QED
        BY <1>6, <3>2, <4>1
    <3> QED
      BY <3>1, <3>2
  <2> QED
    BY <2>1, <2>2
<1>8. PICK g : g = CHOOSE h : Found(h)
  OBVIOUS
<1>9. Found(g)
  <2> HIDE DEF Found
  <2> QED
    BY <1>7, <1>8
<1>10. GetMethodParamTypes(sig) = g[n].types
  BY <1>8, Zenon DEF GetMethodParamTypes, ParamTypes, After, Unread
<1>11. g[n] = f[n]
  <2> DEFINE Good == {k \in 0..n : g[k] = f[k]}
  <2>1. 0 \in Good
    BY <1>9, <1>4
  <2>2. ASSUME NEW k \in 1..n, k - 1 \in Good PROVE k \in Good
    <3>1. k \in 0..n /\ k # 0 /\ g[k - 1] = f[k - 1]
      BY <2>2
    <3>2. g[k] = TypeOf(g[k - 1], sig[k])
      BY <1>9, <3>1
    <3> QED
      BY <1>6, <3>1, <3>2
  <2> HIDE DEF Good
  <2>3. 0..n \subseteq Good
    BY <2>1, <2>2, UpTo
  <2> QED
    BY <2>3 DEF Good
<1>12. GetMethodParamTypes(sig) = q[n]
  <2> HIDE DEF Found
  <2>1. n \in 0..n
    OBVIOUS
  <2>2. CASE n = 0
    <3>1. f[n] = Unread
      BY <1>4, <2>1, <2>2
    <3> QED
      BY <1>10, <1>11, <1>5, <2>2, <3>1, Fields, Zenon
  <2>3. CASE n # 0
    <3>1. f[n] = Behind(sig[n], q[n])
      BY <1>4, <2>1, <2>3
    <3>2. Behind(sig[n], q[n]).types = q[n]
      BY Fields, Zenon
    <3> QED
      BY <1>10, <1>11, <3>1, <3>2
  <2> QED
    BY <2>2, <2>3
<1> HIDE DEF Found
<1>13. Len(GetMethodParamTypes(sig)) = n
  BY <1>3, <1>12
<1>14. \A k \in 1..n : GetMethodParamTypes(sig)[k] = Typed(sig[k])
  BY <1>2, <1>3, <1>12
<1> QED
  BY <1>13, <1>14, Zenon DEF TypesRight, Typed

\* The words that are not padding are counted one by one, whatever is behind them.
Unpadded(flags, s) == {x \in 0..(s - 1) : x \notin flags}

LEMMA FreeFinite ==
  ASSUME NEW flags, NEW s \in Nat
  PROVE  /\ IsFiniteSet(Unpadded(flags, s)) /\ Free(flags, s) \in Nat
         /\ Free(flags, s) = Cardinality(Unpadded(flags, s))
<1>1. Free(flags, s) = Cardinality(Unpadded(flags, s))
  BY Zenon DEF Free, Unpadded
<1>2. IsFiniteSet(0..(s - 1))
  <2>1. \A m \in Int : IsFiniteSet(0..m)
    BY FS_Interval
  <2>2. s - 1 \in Int
    OBVIOUS
  <2> QED
    BY <2>1, <2>2, Zenon
<1>3. Unpadded(flags, s) \in SUBSET (0..(s - 1))
  BY DEF Unpadded
<1>4. IsFiniteSet(Unpadded(flags, s))
  BY <1>2, <1>3, FS_Subset
<1> QED
  BY <1>1, <1>4, FS_CardinalityType

LEMMA FreeNext ==
  ASSUME NEW flags, NEW s \in Nat
  PROVE  Free(flags, s + 1) = IF s \in flags THEN Free(flags, s) ELSE Free(flags, s) + 1
<1>1. (s + 1) - 1 = s /\ 0..s = 0..(s - 1) \cup {s} /\ s \notin 0..(s - 1) /\ s + 1 \in Nat
  OBVIOUS
<1>2. Unpadded(flags, s + 1) = {x \in 0..(s - 1) \cup {s} : x \notin flags}
  BY <1>1, Zenon DEF Unpadded
<1>3. CASE s \in flags
  <2>1. Unpadded(flags, s + 1) = Unpadded(flags, s)
    BY <1>2, <1>3 DEF Unpadded
  <2> QED
    BY <1>1, <1>3, <2>1, FreeFinite
<1>4. CASE s \notin flags
  <2>1. Unpadded(flags, s + 1) = Unpadded(flags, s) \cup {s} /\ s \notin Unpadded(flags, s)
    BY <1>1, <1>2, <1>4 DEF Unpadded
  <2>2. IsFiniteSet(Unpadded(flags, s))
    BY FreeFinite
  <2>3. Cardinality(Unpadded(flags, s) \cup {s}) = Cardinality(Unpadded(flags, s)) + 1
    BY <2>1, <2>2, FS_AddElement
  <2> QED
    BY <1>1, <1>4, <2>1, <2>3, FreeFinite
<1> QED
  BY <1>3, <1>4

LEMMA FreeSame ==
  ASSUME NEW flags, NEW more, NEW s \in Nat, \A x \in 0..(s - 1) : x \in flags <=> x \in more
  PROVE  Free(flags, s) = Free(more, s)
<1>1. Unpadded(flags, s) = Unpadded(more, s)
  BY DEF Unpadded
<1> QED
  BY <1>1, FreeFinite

\* So a word that is not padding is known by how many come before it.
LEMMA FreeGrows ==
  ASSUME NEW flags, NEW s \in Nat, NEW u \in Nat, s < u, s \notin flags
  PROVE  Free(flags, s) < Free(flags, u)
<1>1. Unpadded(flags, s + 1) \in SUBSET Unpadded(flags, u)
  BY DEF Unpadded
<1>2. s + 1 \in Nat
  OBVIOUS
<1>3. Free(flags, s + 1) <= Free(flags, u)
  <2>1. IsFiniteSet(Unpadded(flags, u))
    BY FreeFinite
  <2>2. Cardinality(Unpadded(flags, s + 1)) <= Cardinality(Unpadded(flags, u))
    BY <1>1, <2>1, FS_Subset
  <2> QED
    BY <1>2, <2>2, FreeFinite
<1> QED
  BY <1>2, <1>3, FreeNext, FreeFinite

\* One parameter more is put behind the words so far.
Pad(s, c) == IF c \in Wide /\ s.offset % 2 = 1 THEN 1 ELSE 0

LEMMA PlacedStep ==
  \A s, c : s.offset \in Nat /\ s.mask = s.offset =>
    /\ Pad(s, c) \in {0, 1} /\ Words(c) \in {1, 2}
    /\ Placed(s, c).offset = s.offset + Pad(s, c) + Words(c)
    /\ Placed(s, c).mask = Placed(s, c).offset
    /\ Placed(s, c).flags = IF Pad(s, c) = 1 THEN s.flags \cup {s.offset} ELSE s.flags
<1> SUFFICES ASSUME NEW s, NEW c, s.offset \in Nat, s.mask = s.offset
             PROVE  /\ Pad(s, c) \in {0, 1} /\ Words(c) \in {1, 2}
                    /\ Placed(s, c).offset = s.offset + Pad(s, c) + Words(c)
                    /\ Placed(s, c).mask = Placed(s, c).offset
                    /\ Placed(s, c).flags = IF Pad(s, c) = 1 THEN s.flags \cup {s.offset} ELSE s.flags
  OBVIOUS
<1>1. Pad(s, c) \in {0, 1}
  BY DEF Pad
<1>2. Words(c) \in {1, 2}
  BY DEF Words
<1>3. CASE c \in Wide /\ s.offset % 2 = 1
  BY <1>1, <1>2, <1>3 DEF Placed, Pad
<1>4. CASE ~(c \in Wide /\ s.offset % 2 = 1)
  BY <1>1, <1>2, <1>4 DEF Placed, Pad
<1> QED
  BY <1>3, <1>4, <1>1, <1>2

\* Behind the first k parameters: what is flagged is a word behind which a wide one
\* was put at an even word, the words not flagged are those of the parameters, and
\* what comes later flags nothing before.
Padding(shorty, g, k) ==
  \A b \in g[k].flags : b % 2 = 1 /\ \E j \in 1..k : shorty[j] \in Wide /\ g[j - 1].offset = b
Kept(g, j, k) ==
  /\ g[j].offset \in Nat /\ g[j].offset <= g[k].offset
  /\ \A x \in 0..(g[j].offset - 1) : x \in g[j].flags <=> x \in g[k].flags
PlacedUpTo(shorty, g, k) ==
  /\ g[k].offset \in Nat /\ g[k].mask = g[k].offset
  /\ g[k].flags \subseteq 0..(g[k].offset - 1)
  /\ Padding(shorty, g, k)
  /\ Free(g[k].flags, g[k].offset) = First(shorty, k + 1)
  /\ \A j \in 0..k : Kept(g, j, k)

GoesOn(shorty, g, n) ==
  /\ \A k \in 0..n : PlacedUpTo(shorty, g, k)
  /\ \A k \in 1..n : g[k] = Placed(g[k - 1], shorty[k])

LEMMA PlacedGoesOn ==
  ASSUME NEW shorty, NEW g, NEW k \in Nat \ {0}, g[k] = Placed(g[k - 1], shorty[k]),
         PlacedUpTo(shorty, g, k - 1)
  PROVE  PlacedUpTo(shorty, g, k)
<1>1. PICK s, r, c, o, u, d, w : /\ s = g[k - 1] /\ r = g[k] /\ c = shorty[k] /\ o = s.offset /\ u = r.offset
                                 /\ d = Pad(s, c) /\ w = Words(c)
  OBVIOUS
<1>2. o \in Nat /\ s.mask = o /\ s.flags \subseteq 0..(o - 1)
  BY <1>1 DEF PlacedUpTo
<1>3. /\ d \in {0, 1} /\ w \in {1, 2} /\ u = o + d + w /\ r.mask = u
      /\ r.flags = IF d = 1 THEN s.flags \cup {o} ELSE s.flags
  <2>1. r = Placed(s, c)
    BY <1>1
  <2>2. s.offset \in Nat /\ s.mask = s.offset
    BY <1>1, <1>2
  <2>3. /\ Pad(s, c) \in {0, 1} /\ Words(c) \in {1, 2}
        /\ Placed(s, c).offset = s.offset + Pad(s, c) + Words(c)
        /\ Placed(s, c).mask = Placed(s, c).offset
        /\ Placed(s, c).flags = IF Pad(s, c) = 1 THEN s.flags \cup {s.offset} ELSE s.flags
    BY <2>2, PlacedStep, Zenon
  <2> QED
    BY <1>1, <2>1, <2>3
<1>4. u \in Nat /\ r.flags \subseteq 0..(u - 1) /\ o \in Nat /\ o <= u
  BY <1>2, <1>3
<1>5. d = 1 => c \in Wide /\ o % 2 = 1 /\ w = 2
  BY <1>1 DEF Pad, Words
<1>6. k - 1 \in Nat /\ k \in Nat /\ (k - 1) + 1 = k /\ k - 1 \in 0..(k - 1) /\ k \in 1..k
      /\ 1..(k - 1) \subseteq 1..k /\ 0..k = 0..(k - 1) \cup {k}
  OBVIOUS
<1>7. Padding(shorty, g, k)
  <2>1. ASSUME NEW b \in s.flags
        PROVE  b % 2 = 1 /\ \E j \in 1..k : shorty[j] \in Wide /\ g[j - 1].offset = b
    <3>1. Padding(shorty, g, k - 1) /\ b \in g[k - 1].flags
      BY <1>1, <2>1 DEF PlacedUpTo
    <3>2. b % 2 = 1 /\ \E j \in 1..(k - 1) : shorty[j] \in Wide /\ g[j - 1].offset = b
      BY <3>1, Zenon DEF Padding
    <3> QED
      BY <1>6, <3>2
  <2>2. ASSUME d = 1
        PROVE  o % 2 = 1 /\ \E j \in 1..k : shorty[j] \in Wide /\ g[j - 1].offset = o
    BY <1>1, <1>5, <1>6, <2>2
  <2>3. ASSUME NEW b \in r.flags
        PROVE  b % 2 = 1 /\ \E j \in 1..k : shorty[j] \in Wide /\ g[j - 1].offset = b
    <3>1. b \in s.flags \/ (d = 1 /\ b = o)
      <4>1. CASE d = 1
        <5>1. r.flags = s.flags \cup {o}
          BY <1>3, <4>1, Zenon
        <5> QED
          BY <2>3, <4>1, <5>1
      <4>2. CASE d # 1
        <5>1. r.flags = s.flags
          BY <1>3, <4>2, Zenon
        <5> QED
          BY <2>3, <5>1
      <4> QED
        BY <4>1, <4>2
    <3> QED
      BY <2>1, <2>2, <3>1
  <2> QED
    BY <1>1, <2>3 DEF Padding
<1>8. Free(r.flags, u) = First(shorty, k + 1)
  <2>1. PICK a : a = Free(r.flags, o)
    OBVIOUS
  <2>2. a = First(shorty, k) /\ a \in Nat
    <3>1. \A x \in 0..(o - 1) : x \in r.flags <=> x \in s.flags
      BY <1>2, <1>3
    <3>2. Free(r.flags, o) = Free(s.flags, o)
      BY <1>2, <3>1, FreeSame
    <3>3. Free(g[k - 1].flags, g[k - 1].offset) = First(shorty, (k - 1) + 1)
      BY Zenon DEF PlacedUpTo
    <3>4. Free(r.flags, o) \in Nat
      BY <1>2, FreeFinite
    <3> QED
      BY <1>1, <1>6, <2>1, <3>2, <3>3, <3>4
  <2>3. First(shorty, k + 1) = a + w
    BY <1>1, <2>2, FirstWords
  <2>4. CASE d = 0
    <3>1. o \notin r.flags /\ o + 1 \notin r.flags /\ o + 1 \in Nat /\ (o + 1) + 1 = o + 2
      BY <1>2, <1>3, <2>4
    <3>2. Free(r.flags, o + 1) = a + 1
      BY <1>2, <2>1, <3>1, FreeNext
    <3>3. Free(r.flags, (o + 1) + 1) = (a + 1) + 1
      BY <3>1, <3>2, FreeNext
    <3>4. (u = o + 1 /\ w = 1) \/ (u = o + 2 /\ w = 2)
      <4>1. (w = 1 \/ w = 2) /\ u = o + 0 + w /\ o \in Nat
        BY <1>2, <1>3, <2>4
      <4> QED
        BY <4>1
    <3> QED
      BY <2>2, <2>3, <3>1, <3>2, <3>3, <3>4
  <2>5. CASE d = 1
    <3>1. /\ o \in r.flags /\ o + 1 \notin r.flags /\ o + 2 \notin r.flags
          /\ o + 1 \in Nat /\ (o + 1) + 1 = o + 2 /\ o + 2 \in Nat /\ (o + 2) + 1 = o + 3
      BY <1>2, <1>3, <2>5
    <3>2. Free(r.flags, o + 1) = a
      BY <1>2, <2>1, <3>1, FreeNext
    <3>3. Free(r.flags, (o + 1) + 1) = a + 1
      BY <3>1, <3>2, FreeNext
    <3>4. Free(r.flags, (o + 2) + 1) = (a + 1) + 1
      BY <3>1, <3>3, FreeNext
    <3>5. u = o + 3 /\ w = 2
      BY <1>2, <1>3, <1>5, <2>5
    <3> QED
      BY <2>2, <2>3, <3>1, <3>4, <3>5
  <2> QED
    BY <1>3, <2>4, <2>5
<1>9. ASSUME NEW j \in 0..k PROVE Kept(g, j, k)
  <2>1. CASE j = k
    BY <1>1, <1>4, <2>1 DEF Kept
  <2>2. CASE j # k
    <3>1. Kept(g, j, k - 1)
      <4>1. j \in 0..(k - 1)
        BY <2>2
      <4> QED
        BY <4>1 DEF PlacedUpTo
    <3>2. PICK v, fl : v = g[j].offset /\ fl = g[j].flags
      OBVIOUS
    <3>3. v \in Nat /\ v <= o /\ \A x \in 0..(v - 1) : x \in fl <=> x \in s.flags
      BY <1>1, <3>1, <3>2 DEF Kept
    <3>4. v \in Nat /\ v <= u /\ \A x \in 0..(v - 1) : x \in fl <=> x \in r.flags
      BY <1>2, <1>3, <1>4, <3>3
    <3> QED
      BY <1>1, <3>2, <3>4 DEF Kept
  <2> QED
    BY <2>1, <2>2
<1>10. g[k].offset \in Nat /\ g[k].mask = g[k].offset /\ g[k].flags \subseteq 0..(g[k].offset - 1)
  BY <1>1, <1>3, <1>4
<1>11. Free(g[k].flags, g[k].offset) = First(shorty, k + 1)
  BY <1>1, <1>8
<1> QED
  BY <1>7, <1>9, <1>10, <1>11, Zenon DEF PlacedUpTo

\* dvmPlatformInvokeHints goes through a signature step by step.
Begun == [flags |-> {}, offset |-> 0, mask |-> 0]
Hints(s) ==
  LET stacked == IF s.offset < 2 THEN 0 ELSE s.offset - 2
  IN IF s.offset > CountShift THEN [none |-> TRUE, count |-> 0, flags |-> {}]
     ELSE [none |-> FALSE, count |-> (stacked + 1) \div 2, flags |-> s.flags]

LEMMA HintsStepByStep ==
  ASSUME NEW shorty, NEW n \in Nat, Len(shorty) = n
  PROVE  \E g : GoesOn(shorty, g, n) /\ PlatformInvokeHints(shorty) = Hints(g[n])
<1> DEFINE Found(h) == h = [k \in 0..n |-> IF k = 0 THEN Begun ELSE Placed(h[k - 1], shorty[k])]
<1>1. PICK S : S = [flags : SUBSET Nat, offset : Nat, mask : Nat]
  OBVIOUS
<1>2. PICK F : F = [k \in 1..n |-> [s \in S |-> Placed(s, shorty[k])]]
  OBVIOUS
<1>3. PICK f : Follows(f, n, S, Begun, F)
  <2>1. Begun \in S
    BY <1>1 DEF Begun
  <2>2. ASSUME NEW k \in 1..n, NEW s \in S PROVE F[k][s] \in S
    <3>1. Placed(s, shorty[k]) \in S
      BY <1>1 DEF Placed, Words
    <3> QED
      BY <1>2, <3>1
  <2>3. Steps(n, S, F)
    BY <2>2 DEF Steps
  <2> QED
    BY <2>1, <2>3, StepByStep
<1>4. Found(f)
  <2>1. f = [k \in 0..n |-> f[k]]
    BY <1>3 DEF Follows
  <2>2. ASSUME NEW k \in 0..n PROVE f[k] = IF k = 0 THEN Begun ELSE Placed(f[k - 1], shorty[k])
    <3>1. CASE k = 0
      BY <1>3, <3>1 DEF Follows
    <3>2. CASE k # 0
      <4>1. k \in 1..n /\ k - 1 \in 0..n
        BY <3>2
      <4>2. f[k - 1] \in S /\ f[k] = F[k][f[k - 1]]
        BY <1>3, <4>1 DEF Follows
      <4> QED
        BY <1>2, <3>2, <4>1, <4>2
    <3> QED
      BY <3>1, <3>2
  <2> QED
    BY <2>1, <2>2
<1>5. PICK g : g = CHOOSE h : Found(h)
  OBVIOUS
<1>6. Found(g)
  <2> HIDE DEF Found
  <2> QED
    BY <1>4, <1>5
<1>7. PlatformInvokeHints(shorty) = Hints(g[n])
  BY <1>5, Zenon DEF PlatformInvokeHints, Hints, After, Begun
<1>8. \A k \in 1..n : g[k] = Placed(g[k - 1], shorty[k])
  <2>1. ASSUME NEW k \in 1..n PROVE g[k] = Placed(g[k - 1], shorty[k])
    <3>1. k \in 0..n /\ k # 0
      OBVIOUS
    <3> QED
      BY <1>6, <3>1
  <2> QED
    BY <2>1
<1>9. PlacedUpTo(shorty, g, 0)
  <2>1. g[0] = Begun
    BY <1>6
  <2>2. g[0].flags = {} /\ g[0].offset = 0 /\ g[0].mask = 0
    BY <2>1 DEF Begun
  <2>3. Free({}, 0) = 0
    <3>1. Unpadded({}, 0) = {}
      BY DEF Unpadded
    <3> QED
      BY <3>1, FreeFinite, FS_EmptySet
  <2>4. Free(g[0].flags, g[0].offset) = First(shorty, 0 + 1)
    BY <2>2, <2>3, FirstWords
  <2>5. \A j \in 0..0 : Kept(g, j, 0)
    BY <2>2 DEF Kept
  <2> QED
    BY <2>2, <2>4, <2>5 DEF PlacedUpTo, Padding
<1>10. \A k \in 0..n : PlacedUpTo(shorty, g, k)
  <2> DEFINE Good == {k \in 0..n : PlacedUpTo(shorty, g, k)}
  <2>1. 0 \in Good
    BY <1>9
  <2>2. ASSUME NEW k \in 1..n, k - 1 \in Good PROVE k \in Good
    <3>1. k \in Nat \ {0} /\ k \in 0..n /\ PlacedUpTo(shorty, g, k - 1)
      BY <2>2
    <3>2. PlacedUpTo(shorty, g, k)
      BY <1>8, <3>1, PlacedGoesOn
    <3> QED
      BY <3>1, <3>2
  <2> HIDE DEF Good
  <2>3. 0..n \subseteq Good
    BY <2>1, <2>2, UpTo
  <2> QED
    BY <2>3 DEF Good
<1> HIDE DEF Found
<1> QED
  BY <1>7, <1>8, <1>10 DEF GoesOn

\* The place of a parameter is behind what came before it, and its padding word.
LEMMA PlaceIs ==
  ASSUME NEW shorty, NEW g, NEW n \in Nat, NEW k \in 1..n, GoesOn(shorty, g, n), g[n].offset <= CountShift
  PROVE  /\ Place(shorty, g[n].flags, k) = g[k - 1].offset + Pad(g[k - 1], shorty[k])
         /\ g[k - 1].offset \in Nat /\ g[k].offset \in Nat
         /\ Place(shorty, g[n].flags, k) + Words(shorty[k]) = g[k].offset
         /\ \A x \in Place(shorty, g[n].flags, k)..(g[k].offset - 1) : x \notin g[n].flags
<1>0. PICK flags, p : flags = g[n].flags /\ p = g[k - 1].offset + Pad(g[k - 1], shorty[k])
  OBVIOUS
<1>1. PICK s, r, c, o, u, d, w : /\ s = g[k - 1] /\ r = g[k] /\ c = shorty[k] /\ o = s.offset /\ u = r.offset
                                 /\ d = Pad(s, c) /\ w = Words(c)
  OBVIOUS
<1>2. k - 1 \in 0..n /\ k \in 0..n /\ n \in 0..n /\ k \in Nat \ {0} /\ (k - 1) + 1 = k
  OBVIOUS
<1>3. /\ PlacedUpTo(shorty, g, k - 1) /\ PlacedUpTo(shorty, g, k) /\ PlacedUpTo(shorty, g, n)
      /\ g[k] = Placed(g[k - 1], shorty[k])
  BY <1>2, Zenon DEF GoesOn
<1>4. o \in Nat /\ s.mask = o /\ s.flags \subseteq 0..(o - 1)
  BY <1>1, <1>3 DEF PlacedUpTo
<1>5. /\ d \in {0, 1} /\ w \in {1, 2} /\ u = o + d + w
      /\ r.flags = IF d = 1 THEN s.flags \cup {o} ELSE s.flags
  <2>1. r = Placed(s, c)
    BY <1>1, <1>3
  <2>2. s.offset \in Nat /\ s.mask = s.offset
    BY <1>1, <1>4
  <2>3. /\ Pad(s, c) \in {0, 1} /\ Words(c) \in {1, 2}
        /\ Placed(s, c).offset = s.offset + Pad(s, c) + Words(c)
        /\ Placed(s, c).flags = IF Pad(s, c) = 1 THEN s.flags \cup {s.offset} ELSE s.flags
    BY <2>2, PlacedStep, Zenon
  <2> QED
    BY <1>1, <2>1, <2>3
<1>6. u \in Nat /\ u <= CountShift /\ \A x \in 0..(u - 1) : x \in r.flags <=> x \in flags
  <2>1. Kept(g, k, n)
    BY <1>2, <1>3 DEF PlacedUpTo
  <2>2. g[n].offset \in Nat
    BY <1>3 DEF PlacedUpTo
  <2> QED
    BY <1>0, <1>1, <2>1, <2>2, DalvikAssumption DEF Kept
<1>7. p = o + d /\ p \in Nat /\ p + w = u /\ p < u
  BY <1>0, <1>1, <1>4, <1>5
<1>8. ASSUME NEW x \in p..(u - 1) PROVE x \notin flags
  <2>1. x \in 0..(u - 1) /\ x \notin s.flags /\ (d = 1 => x # o)
    BY <1>4, <1>5, <1>7
  <2>2. x \notin r.flags
    BY <1>5, <2>1
  <2> QED
    BY <1>6, <2>1, <2>2
<1>9. Free(flags, p) = First(shorty, k)
  <2>1. Free(flags, o) = First(shorty, k)
    <3>1. \A x \in 0..(o - 1) : x \in s.flags <=> x \in flags
      <4>1. Kept(g, k - 1, n)
        <5>1. k - 1 \in 0..n
          BY <1>2
        <5> QED
          BY <1>3, <5>1 DEF PlacedUpTo
      <4> QED
        BY <1>0, <1>1, <4>1 DEF Kept
    <3>2. Free(s.flags, o) = Free(flags, o)
      BY <1>4, <3>1, FreeSame
    <3>3. Free(g[k - 1].flags, g[k - 1].offset) = First(shorty, (k - 1) + 1)
      BY <1>3, Zenon DEF PlacedUpTo
    <3> QED
      BY <1>1, <1>2, <3>2, <3>3
  <2>2. CASE d = 0
    <3>1. p = o
      BY <1>4, <1>7, <2>2
    <3> QED
      BY <2>1, <3>1
  <2>3. CASE d = 1
    <3>1. o \in r.flags /\ o \in 0..(u - 1) /\ p = o + 1
      BY <1>4, <1>5, <1>7, <2>3
    <3>2. o \in flags
      BY <1>6, <3>1
    <3>3. Free(flags, o + 1) = Free(flags, o)
      BY <1>4, <3>2, FreeNext
    <3> QED
      BY <2>1, <3>1, <3>3
  <2> QED
    BY <1>5, <2>2, <2>3
<1> DEFINE Of(q) == q \notin flags /\ Free(flags, q) = First(shorty, k)
<1>10. p \in 0..CountShift /\ Of(p)
  <2>1. p \in p..(u - 1)
    BY <1>6, <1>7
  <2>2. p \in 0..CountShift
    BY <1>6, <1>7, DalvikAssumption
  <2> QED
    BY <1>8, <1>9, <2>1, <2>2
<1>11. ASSUME NEW q \in 0..CountShift, Of(q) PROVE q = p
  <2>1. q \in Nat /\ Free(flags, p) \in Nat /\ Free(flags, q) = Free(flags, p)
    <3>1. q \in Nat
      OBVIOUS
    <3> QED
      BY <1>7, <1>10, <1>11, <3>1, FreeFinite
  <2>2. ~(p < q)
    <3>1. p < q => Free(flags, p) < Free(flags, q)
      BY <1>7, <1>10, <2>1, FreeGrows
    <3> QED
      BY <2>1, <3>1
  <2>3. ~(q < p)
    <3>1. q < p => Free(flags, q) < Free(flags, p)
      BY <1>7, <1>11, <2>1, FreeGrows
    <3> QED
      BY <2>1, <3>1
  <2> QED
    BY <1>7, <2>1, <2>2, <2>3
<1>12. Place(shorty, flags, k) = p
  <2>1. PICK a : a = CHOOSE q \in 0..CountShift : Of(q)
    OBVIOUS
  <2>2. a \in 0..CountShift /\ Of(a)
    <3> HIDE DEF Of
    <3> QED
      BY <1>10, <2>1
  <2>3. Place(shorty, flags, k) = a
    BY <2>1, Zenon DEF Place
  <2> HIDE DEF Of
  <2> QED
    BY <1>11, <2>2, <2>3
<1> QED
  BY <1>0, <1>1, <1>4, <1>6, <1>7, <1>8, <1>12

\* dvmPlatformInvokeHints puts the wide parameters at even words, pads nothing else, and
\* counts the words behind the first two.
LEMMA HintsAreRight ==
  ASSUME NEW shorty, Len(shorty) \in Nat
  PROVE  HintsRight(shorty, PlatformInvokeHints(shorty))
<1> DEFINE n == Len(shorty)
           h == PlatformInvokeHints(shorty)
<1> HIDE DEF n, h
<1>0. n \in Nat /\ Len(shorty) = n
  BY DEF n
<1>2. PICK g : GoesOn(shorty, g, n) /\ h = Hints(g[n])
  BY <1>0, HintsStepByStep DEF h
<1> SUFFICES ASSUME ~h.none
             PROVE  /\ WidesEven(shorty, h.flags) /\ WidesPadded(shorty, h.flags)
                    /\ Counted(shorty, h.flags, h.count)
  BY Zenon DEF HintsRight, h
<1>3. PICK z : z = g[n].offset
  OBVIOUS
<1>4. /\ z <= CountShift /\ h.flags = g[n].flags
      /\ h.count = ((IF z < 2 THEN 0 ELSE z - 2) + 1) \div 2
  <2>1. CASE g[n].offset > CountShift
    BY <1>2, <2>1 DEF Hints
  <2>2. CASE ~(g[n].offset > CountShift)
    <3>1. g[n].offset \in Nat
      <4>1. n \in 0..n
        BY <1>0
      <4> QED
        BY <1>2, <4>1 DEF GoesOn, PlacedUpTo
    <3>2. z <= CountShift
      BY <1>3, <2>2, <3>1, DalvikAssumption
    <3> QED
      BY <1>2, <1>3, <2>2, <3>2 DEF Hints
  <2> QED
    BY <2>1, <2>2
<1>5. ASSUME NEW k \in 1..n
      PROVE  /\ g[k - 1].offset \in Nat /\ g[k].offset \in Nat
             /\ Place(shorty, h.flags, k) = g[k - 1].offset + Pad(g[k - 1], shorty[k])
             /\ Place(shorty, h.flags, k) + Words(shorty[k]) = g[k].offset
             /\ \A x \in Place(shorty, h.flags, k)..(g[k].offset - 1) : x \notin h.flags
  <2>1. g[n].offset <= CountShift /\ h.flags = g[n].flags
    BY <1>3, <1>4
  <2>2. /\ Place(shorty, g[n].flags, k) = g[k - 1].offset + Pad(g[k - 1], shorty[k])
        /\ g[k - 1].offset \in Nat /\ g[k].offset \in Nat
        /\ Place(shorty, g[n].flags, k) + Words(shorty[k]) = g[k].offset
        /\ \A x \in Place(shorty, g[n].flags, k)..(g[k].offset - 1) : x \notin g[n].flags
    <3>1. n \in Nat /\ k \in 1..n /\ GoesOn(shorty, g, n) /\ g[n].offset <= CountShift
      BY <1>0, <1>2, <2>1
    <3> QED
      BY <3>1, PlaceIs, Zenon
  <2> QED
    BY <2>1, <2>2
<1>6. ASSUME NEW k \in 1..n, shorty[k] \in Wide
      PROVE  Place(shorty, h.flags, k) % 2 = 0 /\ Place(shorty, h.flags, k) + 1 \notin h.flags
  <2>1. PICK o, d, p, u : /\ o = g[k - 1].offset /\ d = Pad(g[k - 1], shorty[k]) /\ p = Place(shorty, h.flags, k)
                          /\ u = g[k].offset
    OBVIOUS
  <2>2. o \in Nat /\ p = o + d /\ p + 2 = u /\ \A x \in p..(u - 1) : x \notin h.flags
    <3>1. Words(shorty[k]) = 2
      BY <1>6 DEF Words
    <3> QED
      BY <1>5, <2>1, <3>1
  <2>3. d = IF o % 2 = 1 THEN 1 ELSE 0
    BY <1>6, <2>1 DEF Pad
  <2>4. p % 2 = 0
    BY <2>2, <2>3
  <2>5. p + 1 \in p..(u - 1)
    BY <2>2, <2>3
  <2> QED
    BY <2>1, <2>2, <2>4, <2>5
<1>7. ASSUME NEW b \in h.flags
      PROVE  b % 2 = 1 /\ \E k \in 1..n : shorty[k] \in Wide /\ Place(shorty, h.flags, k) = b + 1
  <2>1. Padding(shorty, g, n) /\ b \in g[n].flags
    <3>1. n \in 0..n
      BY <1>0
    <3> QED
      BY <1>2, <1>4, <3>1 DEF GoesOn, PlacedUpTo
  <2>2. PICK k \in 1..n : b % 2 = 1 /\ shorty[k] \in Wide /\ g[k - 1].offset = b
    BY <2>1, Zenon DEF Padding
  <2>3. Pad(g[k - 1], shorty[k]) = 1
    BY <2>2 DEF Pad
  <2>4. Place(shorty, h.flags, k) = b + 1
    BY <1>5, <2>2, <2>3
  <2> QED
    BY <2>2, <2>4
<1>8. ASSUME n > 0
      PROVE  2 * h.count \in ((Place(shorty, h.flags, n) + Words(shorty[n])) - 2)..(Place(shorty, h.flags, n) + Words(shorty[n]))
  <2>1. PICK p, w, m : p = Place(shorty, h.flags, n) /\ w = Words(shorty[n]) /\ m = h.count
    OBVIOUS
  <2>2. n \in 1..n
    BY <1>0, <1>8
  <2>3. p + w = z /\ z \in Nat /\ p \in Nat /\ w \in {1, 2}
    <3>1. Words(shorty[n]) \in {1, 2}
      BY DEF Words
    <3>2. g[n - 1].offset \in Nat /\ p = g[n - 1].offset + Pad(g[n - 1], shorty[n])
      BY <1>5, <2>1, <2>2
    <3>3. Pad(g[n - 1], shorty[n]) \in {0, 1}
      BY DEF Pad
    <3> QED
      BY <1>3, <1>5, <2>1, <2>2, <3>1, <3>2, <3>3
  <2>4. m = ((IF z < 2 THEN 0 ELSE z - 2) + 1) \div 2
    BY <1>4, <2>1
  <2>5. 2 * m \in (z - 2)..z
    <3>1. z # 0
      BY <2>3
    <3> QED
      BY <2>3, <2>4, <3>1
  <2> QED
    BY <2>1, <2>3, <2>5
<1>9. WidesEven(shorty, h.flags)
  BY <1>0, <1>6 DEF WidesEven
<1>10. WidesPadded(shorty, h.flags)
  BY <1>0, <1>7 DEF WidesPadded
<1>11. Counted(shorty, h.flags, h.count)
  BY <1>8, Zenon DEF Counted, n
<1> QED
  BY <1>9, <1>10, <1>11

\* A hook has the types of the parameters from its start, and the sizes from SetFlags on.
Prepared(t) ==
  /\ hook[t].at # "idle" => /\ hook[t].info \in DvmInfos
                            /\ dinfo[hook[t].info].params = GetMethodParamTypes(method.sig)
  /\ hook[t].at \in {"insns", "func"} =>
       now.argsSize = ArgsSize /\ now.hints = ComputeJniArgInfo(Shorty(method.sig), method.ret)
SigInv == method \in DvmMethods /\ \A t \in DvmThreads : Prepared(t)

LEMMA SigStarts == DvmInit => SigInv
  BY DEF DvmInit, SigInv, Prepared

LEMMA SigStep == DvmTypeOK /\ SigInv /\ [DvmNext]_dvmVars => SigInv'
<1> SUFFICES ASSUME DvmTypeOK, SigInv, [DvmNext]_dvmVars PROVE SigInv'
  OBVIOUS
<1>0. method' = method
  BY DEF DvmNext, Answer, Backup, Overrun, SetFlags, SetInsns, SetFunc, Call, dvmVars
<1>1. ASSUME NEW u \in DvmThreads PROVE Prepared(u)
  BY DEF SigInv
<1>2. PICK types, size, hints :
        /\ types = GetMethodParamTypes(method.sig) /\ size = ArgsSize
        /\ hints = ComputeJniArgInfo(Shorty(method.sig), method.ret)
  OBVIOUS
<1>3. ASSUME NEW u \in DvmThreads,
             hook'[u].at # "idle" => hook'[u].info \in DvmInfos /\ dinfo'[hook'[u].info].params = types,
             hook'[u].at \in {"insns", "func"} => now'.argsSize = size /\ now'.hints = hints
      PROVE  Prepared(u)'
  <2>1. GetMethodParamTypes(method.sig)' = types /\ ArgsSize' = size
        /\ ComputeJniArgInfo(Shorty(method.sig), method.ret)' = hints
    BY <1>0, <1>2, Zenon DEF ArgsSize
  <2> QED
    BY <1>3, <2>1 DEF Prepared
<1>4. ASSUME NEW t \in DvmThreads, NEW i \in DvmInfos, Answer(t, i), NEW u \in DvmThreads PROVE Prepared(u)'
  <2>1. \A j \in DvmInfos : dinfo'[j].params = dinfo[j].params
    BY <1>4 DEF Answer, DvmTypeOK
  <2>2. now' = now /\ hook' = hook
    BY <1>4 DEF Answer
  <2> QED
    BY <1>1, <1>2, <1>3, <2>1, <2>2 DEF Prepared
<1>5. ASSUME NEW t \in DvmThreads, NEW i \in DvmInfos, Backup(t, i), NEW u \in DvmThreads PROVE Prepared(u)'
  <2>1. /\ dinfo'[i].params = types /\ \A j \in DvmInfos \ {i} : dinfo'[j].params = dinfo[j].params
        /\ hook[u].info # i /\ now' = now
    BY <1>2, <1>5 DEF Backup, DvmTypeOK
  <2>2. CASE u = t
    <3>1. hook'[u].info = i /\ hook'[u].at = "flags"
      BY <1>5, <2>2 DEF Backup, DvmTypeOK
    <3> QED
      BY <1>3, <2>1, <3>1
  <2>3. CASE u # t
    <3>1. hook'[u] = hook[u]
      BY <1>5, <2>3 DEF Backup, DvmTypeOK
    <3> QED
      BY <1>1, <1>2, <1>3, <2>1, <3>1 DEF Prepared
  <2> QED
    BY <2>2, <2>3
<1>6. ASSUME NEW t \in DvmThreads, SetFlags(t), NEW u \in DvmThreads PROVE Prepared(u)'
  <2>1. now'.argsSize = size /\ now'.hints = hints /\ dinfo' = dinfo
    BY <1>2, <1>6 DEF SetFlags, DvmTypeOK
  <2>2. hook'[u].info = hook[u].info /\ (hook'[u].at # "idle" => hook[u].at # "idle")
    BY <1>6 DEF SetFlags, Hooking, DvmTypeOK
  <2> QED
    BY <1>1, <1>2, <1>3, <2>1, <2>2 DEF Prepared
<1>7. ASSUME NEW t \in DvmThreads, SetInsns(t), NEW u \in DvmThreads PROVE Prepared(u)'
  <2>1. now'.argsSize = now.argsSize /\ now'.hints = now.hints /\ dinfo' = dinfo
    BY <1>7 DEF SetInsns, DvmTypeOK
  <2>2. /\ hook'[u].info = hook[u].info /\ (hook'[u].at # "idle" => hook[u].at # "idle")
        /\ hook'[u].at \in {"insns", "func"} => hook[u].at \in {"insns", "func"}
    BY <1>7 DEF SetInsns, Hooking, DvmTypeOK
  <2> QED
    BY <1>1, <1>2, <1>3, <2>1, <2>2 DEF Prepared
<1>8. ASSUME NEW t \in DvmThreads, SetFunc(t), NEW u \in DvmThreads PROVE Prepared(u)'
  <2>1. now'.argsSize = now.argsSize /\ now'.hints = now.hints
    BY <1>8 DEF SetFunc, DvmTypeOK
  <2>2. \A j \in DvmInfos : dinfo'[j].params = dinfo[j].params
    BY <1>8 DEF SetFunc, DvmTypeOK
  <2>3. hook'[u] = hook[u] \/ hook'[u].at = "idle"
    BY <1>8 DEF SetFunc, DvmTypeOK
  <2> QED
    BY <1>1, <1>2, <1>3, <2>1, <2>2, <2>3 DEF Prepared
<1>9. ASSUME Call \/ UNCHANGED dvmVars \/ \E t \in DvmThreads, i \in DvmInfos : Overrun(t, i),
             NEW u \in DvmThreads
      PROVE  Prepared(u)'
  <2>1. now' = now /\ hook' = hook /\ dinfo' = dinfo
    BY <1>9 DEF Call, Overrun, dvmVars
  <2> QED
    BY <1>1, <1>2, <1>3, <2>1 DEF Prepared
<1>10. ASSUME NEW u \in DvmThreads PROVE Prepared(u)'
  BY <1>4, <1>5, <1>6, <1>7, <1>8, <1>9 DEF DvmNext
<1> QED
  BY <1>0, <1>10 DEF SigInv

\* What is computed from a signature is right.
LEMMA SigRight == SigInv => SignatureRead
<1> SUFFICES ASSUME SigInv, NEW t \in DvmThreads, hook[t].at = "insns"
             PROVE  /\ BoxedRight(Shorty(method.sig), BoxMethodArgs(Shorty(method.sig)))
                    /\ now.argsSize = First(Shorty(method.sig), Len(Shorty(method.sig)) + 1)
                                        + IF method.static THEN 0 ELSE 1
                    /\ HintsRight(Shorty(method.sig), now.hints.hints)
                    /\ Plain(method.sig) => TypesRight(method.sig, dinfo[hook[t].info].params)
  BY Zenon DEF SignatureRead
<1>1. PICK sig, shorty, n : sig = method.sig /\ shorty = Shorty(sig) /\ n = Len(sig)
  OBVIOUS
<1>2. n \in Nat /\ \A k \in 1..n : sig[k].array \in Nat
  BY <1>1, DalvikAssumption DEF SigInv
<1>3. Len(shorty) = n
  <2>1. shorty = [k \in 1..n |-> Short(sig[k])]
    BY <1>1 DEF Shorty
  <2> QED
    BY <1>2, <2>1
<1>4. /\ hook[t].at # "idle" /\ now.argsSize = ArgsSize
      /\ now.hints = ComputeJniArgInfo(shorty, method.ret)
      /\ dinfo[hook[t].info].params = GetMethodParamTypes(sig)
  BY <1>1 DEF SigInv, Prepared
<1>5. BoxedRight(shorty, BoxMethodArgs(shorty))
  BY <1>2, <1>3, BoxesRight
<1>6. now.argsSize = First(shorty, n + 1) + IF method.static THEN 0 ELSE 1
  <2>1. CalcMethodArgsSize(shorty) = First(shorty, n + 1)
    BY <1>2, <1>3, SizeCounts
  <2> QED
    BY <1>1, <1>4, <2>1 DEF ArgsSize
<1>7. HintsRight(shorty, now.hints.hints)
  <2>1. now.hints.hints = PlatformInvokeHints(shorty)
    BY <1>4 DEF ComputeJniArgInfo
  <2>2. HintsRight(shorty, PlatformInvokeHints(shorty))
    BY <1>2, <1>3, HintsAreRight
  <2> QED
    BY <2>1, <2>2
<1>8. Plain(sig) => TypesRight(sig, GetMethodParamTypes(sig))
  BY <1>1, <1>2, TypesRead
<1> QED
  BY <1>1, <1>3, <1>4, <1>5, <1>6, <1>7, <1>8

\* What a Dalvik hook computes from the signature of a method - the boxed arguments, the
\* frame size, the hints and the types - is right for every signature.
THEOREM SignaturesRead == MethodSpec => []SignatureRead
<1>1. DvmInit /\ [][DvmNext]_dvmVars => []SignatureRead
  BY DvmTyped, DvmTypes, SigStarts, SigStep, SigRight, PTL
<1> QED
  BY <1>1, Parts, PTL

-----------------------------------------------------------------------------
(* What a call of a hooked Method, and a hook, fail on.                    *)

\* The HookInfo that insns points to has the types of the parameters, and only what
\* is the matter with them has made a call or a hook fail.
TypesInv ==
  /\ now.insns \in DvmInfos => dinfo[now.insns].params = GetMethodParamTypes(method.sig)
  /\ dcrash = "types" => ~Plain(method.sig)
  /\ dcrash = "buffer" => \E k \in 1..Len(method.sig) :
       method.sig[k].type \notin Primitives /\ method.sig[k].length + 1 >= BufferSize

LEMMA TypesStart == DvmInit => TypesInv
<1> SUFFICES ASSUME DvmInit PROVE TypesInv
  OBVIOUS
<1>1. now.insns \in {Dex, Jni} /\ dcrash = "no"
  BY DEF DvmInit, Fresh
<1>2. now.insns \notin DvmInfos
  BY <1>1, DalvikAssumption DEF Dex, Jni
<1> QED
  BY <1>1, <1>2 DEF TypesInv

\* dvmInvokeMethod takes the right types.
LEMMA PlainAccepted ==
  ASSUME SigInv, Plain(method.sig)
  PROVE  Accepts(method.sig, GetMethodParamTypes(method.sig))
<1>1. PICK sig, types : sig = method.sig /\ types = GetMethodParamTypes(sig)
  OBVIOUS
<1>2. Len(sig) \in Nat /\ \A k \in 1..Len(sig) : sig[k].array \in Nat
  BY <1>1, DalvikAssumption DEF SigInv
<1>3. TypesRight(sig, types)
  BY <1>1, <1>2, TypesRead
<1>4. ASSUME NEW k \in 1..Len(sig)
      PROVE  types[k] = [prefix |-> CASE sig[k].array = 0 -> "" [] sig[k].array = 1 -> "[" [] OTHER -> "[[",
                         type |-> sig[k].type]
  <2>1. types[k] = [prefix |-> IF sig[k].array = 1 THEN "[" ELSE "", type |-> sig[k].type]
    BY <1>3 DEF TypesRight
  <2>2. sig[k].array \in Nat /\ sig[k].array <= 1
    BY <1>1, <1>2 DEF Plain
  <2>3. PICK a : a = sig[k].array
    OBVIOUS
  <2>4. a = 0 \/ a = 1
    BY <2>2, <2>3
  <2>5. (IF a = 1 THEN "[" ELSE "") = CASE a = 0 -> "" [] a = 1 -> "[" [] OTHER -> "[["
    <3>1. CASE a = 0
      <4>1. a # 1
        BY <3>1
      <4> QED
        BY <3>1, <4>1
    <3>2. CASE a = 1
      <4>1. a # 0
        BY <3>2
      <4> QED
        BY <3>2, <4>1
    <3> QED
      BY <2>4, <3>1, <3>2
  <2> QED
    BY <2>1, <2>3, <2>5, Zenon
<1> QED
  BY <1>1, <1>4, Zenon DEF Accepts

\* The names of the classes fill the buffer only when one is long.
LEMMA LongName ==
  ASSUME SigInv, Overruns(method.sig)
  PROVE  \E k \in 1..Len(method.sig) :
           method.sig[k].type \notin Primitives /\ method.sig[k].length + 1 >= BufferSize
<1>1. PICK k \in 1..Len(method.sig) :
        /\ method.sig[k].type \notin Primitives
        /\ method.sig[k].length
             + (IF ParamTypes(method.sig)[k - 1].isArray \/ method.sig[k].array > 0 THEN 1 ELSE 0) >= BufferSize
  BY Zenon DEF Overruns
<1>2. method.sig[k].length \in Nat
  BY DalvikAssumption DEF SigInv
<1>3. method.sig[k].length + 1 >= BufferSize
  BY <1>1, <1>2 DEF BufferSize
<1> QED
  BY <1>1, <1>3

LEMMA TypesStep == DvmTypeOK /\ SigInv /\ TypesInv /\ [DvmNext]_dvmVars => TypesInv'
<1> SUFFICES ASSUME DvmTypeOK, SigInv, TypesInv, [DvmNext]_dvmVars PROVE TypesInv'
  OBVIOUS
<1>0. method' = method
  BY DEF DvmNext, Answer, Backup, Overrun, SetFlags, SetInsns, SetFunc, Call, dvmVars
<1>1. PICK types : types = GetMethodParamTypes(method.sig)
  OBVIOUS
<1>2. GetMethodParamTypes(method.sig)' = types
  BY <1>0, <1>1
<1>3. ASSUME dcrash' = dcrash, now'.insns \in DvmInfos => dinfo'[now'.insns].params = types
      PROVE  TypesInv'
  BY <1>0, <1>2, <1>3 DEF TypesInv
<1>4. ASSUME NEW t \in DvmThreads, NEW i \in DvmInfos, Answer(t, i) PROVE TypesInv'
  <2>1. \A j \in DvmInfos : dinfo'[j].params = dinfo[j].params
    BY <1>4 DEF Answer, DvmTypeOK
  <2> QED
    BY <1>1, <1>3, <1>4, <2>1 DEF Answer, TypesInv
<1>5. ASSUME NEW t \in DvmThreads, NEW i \in DvmInfos, Backup(t, i) PROVE TypesInv'
  <2>1. dinfo'[i].params = types /\ \A j \in DvmInfos \ {i} : dinfo'[j].params = dinfo[j].params
    BY <1>1, <1>5 DEF Backup, DvmTypeOK
  <2> QED
    BY <1>1, <1>3, <1>5, <2>1 DEF Backup, TypesInv
<1>6. ASSUME NEW t \in DvmThreads, SetFlags(t) PROVE TypesInv'
  <2>1. now'.insns = now.insns /\ dinfo' = dinfo /\ dcrash' = dcrash
    BY <1>6 DEF SetFlags, DvmTypeOK
  <2> QED
    BY <1>1, <1>3, <2>1 DEF TypesInv
<1>7. ASSUME NEW t \in DvmThreads, SetInsns(t) PROVE TypesInv'
  <2>1. now'.insns = hook[t].info /\ dinfo' = dinfo /\ dcrash' = dcrash
    BY <1>7 DEF SetInsns, DvmTypeOK
  <2>2. dinfo[hook[t].info].params = types
    BY <1>1, <1>7 DEF SetInsns, Hooking, SigInv, Prepared
  <2> QED
    BY <1>3, <2>1, <2>2
<1>8. ASSUME NEW t \in DvmThreads, SetFunc(t) PROVE TypesInv'
  <2>1. now'.insns = now.insns /\ dcrash' = dcrash
    BY <1>8 DEF SetFunc, DvmTypeOK
  <2>2. \A j \in DvmInfos : dinfo'[j].params = dinfo[j].params
    BY <1>8 DEF SetFunc, DvmTypeOK
  <2> QED
    BY <1>1, <1>3, <2>1, <2>2 DEF TypesInv
<1>9. CASE Call
  <2>1. now' = now /\ dinfo' = dinfo
    BY <1>9 DEF Call
  <2>2. dcrash' = "types" => /\ now.insns \in DvmInfos
                             /\ ~Accepts(method.sig, dinfo[now.insns].params)
    BY <1>9 DEF Call
  <2>3. dcrash' = "types" => ~Plain(method.sig)
    BY <2>2, PlainAccepted DEF TypesInv
  <2>4. dcrash' # "buffer"
    BY <1>9 DEF Call
  <2> QED
    BY <1>0, <1>1, <1>2, <2>1, <2>3, <2>4 DEF TypesInv
<1>10. ASSUME NEW t \in DvmThreads, NEW i \in DvmInfos, Overrun(t, i) PROVE TypesInv'
  <2>1. now' = now /\ dinfo' = dinfo /\ dcrash' = "buffer" /\ Overruns(method.sig)
    BY <1>10 DEF Overrun
  <2>2. \E k \in 1..Len(method.sig) :
          method.sig[k].type \notin Primitives /\ method.sig[k].length + 1 >= BufferSize
    BY <2>1, LongName
  <2> QED
    BY <1>0, <1>1, <1>2, <2>1, <2>2 DEF TypesInv
<1>11. CASE UNCHANGED dvmVars
  <2>1. now' = now /\ dinfo' = dinfo /\ dcrash' = dcrash
    BY <1>11 DEF dvmVars
  <2> QED
    BY <1>1, <1>3, <2>1 DEF TypesInv
<1> QED
  BY <1>4, <1>5, <1>6, <1>7, <1>8, <1>9, <1>10, <1>11 DEF DvmNext

\* A call of a hooked method, and a hook, fail only for a reason that is named, on either
\* virtual machine; on Dalvik a second hook that overlaps nothing changes nothing.
THEOREM CallsReachOriginal == MethodSpec => []CallsSafe
<1>1. /\ DvmTypeOK /\ DvmInv => (~doverlap =>
           /\ dcrash \notin {"info", "code"}
           /\ \A i \in DvmInfos : dinfo[i].ret = "0" => dinfo[i].copy = Fresh(method)
           /\ Cardinality({i \in DvmInfos : dinfo[i].ret = "0"}) <= 1)
  BY DvmSafe
<1>2. DvmTypeOK /\ DvmInv /\ TypesInv => DvmCallsSafe
  BY <1>1, Zenon DEF TypesInv, DvmCallsSafe
<1>3. DvmInit /\ [][DvmNext]_dvmVars => []DvmCallsSafe
  BY <1>2, DvmTyped, DvmTypes, DvmStarts, DvmStep, SigStarts, SigStep, TypesStart, TypesStep, PTL
<1>4. ArtCallsSafe /\ DvmCallsSafe => CallsSafe
  BY DEF CallsSafe
<1> QED
  BY <1>3, <1>4, Parts, CrashNamed, PTL
=============================================================================
