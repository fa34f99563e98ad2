------------------------------ MODULE Inject3 ------------------------------
(***************************************************************************)
(* ptracehook3: the transfers and the remote call of Inject.c, one ptrace  *)
(* request per step, on a tracee stopped in one thread; its other threads  *)
(* go on writing (OtherThread), and any request may be refused, when the   *)
(* tracee is gone or the address is not mapped.  The functions are the     *)
(* library of the injector; its main only attaches and continues.  An      *)
(* address in the tracee is a void* that advances by one byte per word     *)
(* (68, 106) while the buffer advances by a word, and a word of all ones   *)
(* counts as a failed read (63, 74, 111).                                  *)
(***************************************************************************)
EXTENDS Integers, Sequences

CONSTANTS WordSize, Target, Contents, Ones

ASSUME Inject3Assumption ==
  WordSize \in Nat \ {0} /\ Target \subseteq Nat /\ 0 .. (3 * WordSize - 1) \subseteq Target

VARIABLES op,     \* [kind, data]: "write" or "read" of data, or "call" with data stacked
          step,   \* "words", "tail", "poke", "ready", "waiting", "second" or "done"
          at,     \* the offset reached in the tracee
          buffer, \* the bytes still to write, or the bytes read
          word,   \* uDataBuf
          bytes,  \* the tracee's memory from the target on
          kept,    \* what was there, or what its threads have written since
          lost,   \* what they have written between a PEEK and its POKE
          result, \* iRet
          thread, \* the traced thread: "stopped", "running", or what stopped it last
          refused \* whether a transfer has been refused a request

inject3Vars == <<op, step, at, buffer, word, bytes, kept, lost, result, thread, refused>>

Transfers == UNION {[1 .. n -> Contents] : n \in 1 .. 3 * WordSize}
Stacked == UNION {[1 .. n * WordSize -> Contents] : n \in 0 .. 3}

Inject3Init ==
  /\ op \in [kind : {"write", "read"}, data : Transfers] \cup [kind : {"call"}, data : Stacked]
  /\ step = "words" /\ at = 0 /\ word = <<>> /\ result = -1
  /\ buffer = IF op.kind = "read" THEN <<>> ELSE op.data
  /\ bytes \in [Target -> Contents] /\ kept = bytes /\ lost = {}
  /\ thread = "stopped" /\ refused = FALSE

WordThere(a) == [i \in 1 .. WordSize |-> bytes[a + i - 1]]
PokeWord(a, w) == bytes' = [b \in Target |-> IF b \in a .. (a + WordSize - 1) THEN w[b - a + 1] ELSE bytes[b]]
Finish(r) == step' = "done" /\ result' = r

\* What follows a transfer: PtraceCallFunc does not look at its result.
Ended(r) == IF op.kind = "call" THEN step' = "ready" /\ UNCHANGED result ELSE Finish(r)
Refuse == Ended(-1) /\ refused' = TRUE

\* PtraceWriteData, the loop over the whole words; a call's arguments are words.
WriteLoop ==
  /\ op.kind # "read" /\ step = "words"
  /\ IF Len(buffer) >= WordSize
     THEN \/ /\ PokeWord(at, buffer)
             /\ buffer' = SubSeq(buffer, WordSize + 1, Len(buffer))
             /\ at' = at + 1
             /\ UNCHANGED <<step, result, refused>>
          \/ Refuse /\ UNCHANGED <<bytes, buffer, at>>
     ELSE /\ IF buffer = <<>> THEN Ended(0) ELSE step' = "tail" /\ UNCHANGED result
          /\ UNCHANGED <<bytes, buffer, at, refused>>
  /\ UNCHANGED <<op, word, kept, lost, thread>>

\* Mutant of Merged: the word is not what is there.
MergedOnes(w) == [i \in 1 .. WordSize |-> IF i <= Len(buffer) THEN buffer[i] ELSE Ones[i]]

Merged(w) == [i \in 1 .. WordSize |-> IF i <= Len(buffer) THEN buffer[i] ELSE w[i]]

\* PtraceWriteData, the bytes after the last whole word.
WriteTail ==
  /\ step = "tail"
  /\ \/ /\ WordThere(at) # Ones
        /\ word' = Merged(WordThere(at))
        /\ step' = "poke" /\ UNCHANGED <<result, refused>>
     \/ Refuse /\ UNCHANGED word
  /\ UNCHANGED <<op, at, buffer, bytes, kept, lost, thread>>

PokeLast ==
  /\ step = "poke"
  /\ \/ PokeWord(at, word) /\ Ended(0) /\ UNCHANGED refused
     \/ Refuse /\ UNCHANGED bytes
  /\ UNCHANGED <<op, at, buffer, word, kept, lost, thread>>

\* PtraceReadData: words, then what is left of the size.
ReadData ==
  /\ op.kind = "read" /\ step = "words"
  /\ LET left == Len(op.data) - Len(buffer)
         n == IF left < WordSize THEN left ELSE WordSize IN
     \/ n = 0 /\ Finish(0) /\ UNCHANGED <<buffer, at, refused>>
     \/ /\ n > 0 /\ WordThere(at) # Ones
        /\ buffer' = buffer \o SubSeq(WordThere(at), 1, n)
        /\ at' = at + 1
        /\ UNCHANGED <<step, result, refused>>
     \/ n > 0 /\ Refuse /\ UNCHANGED <<buffer, at>>
  /\ UNCHANGED <<op, word, bytes, kept, lost, thread>>

\* PtraceCallFunc: the registers are set and the tracee is continued.
CallFunc ==
  /\ step = "ready"
  /\ \/ step' = "waiting" /\ thread' = "running" /\ UNCHANGED result
     \/ Finish(-1) /\ UNCHANGED thread
  /\ UNCHANGED <<op, at, buffer, word, bytes, kept, lost, refused>>

\* The first waitpid: SIGSEGV, the signal of a return to address 0 and of a fault, ends
\* the call; after any other stop the tracee is continued.
CallWait ==
  /\ step = "waiting" /\ thread # "running"
  /\ \/ thread \in {"returned", "fault"} /\ Finish(0) /\ UNCHANGED thread
     \/ thread = "signal" /\ step' = "second" /\ thread' = "running" /\ UNCHANGED result
     \/ thread \in {"signal", "gone"} /\ Finish(-1) /\ UNCHANGED thread
  /\ UNCHANGED <<op, at, buffer, word, bytes, kept, lost, refused>>

\* Whatever the second waitpid reports, the call has been done.
LastWait ==
  /\ step = "second" /\ thread # "running"
  /\ Finish(0)
  /\ UNCHANGED <<op, at, buffer, word, bytes, kept, lost, thread, refused>>

\* The traced thread returns from the function, or something else stops it; an exit
\* of the tracee whose code is the number of SIGSEGV looks like a fault.
Stop ==
  /\ thread = "running"
  /\ thread' \in {"returned", "fault", "signal", "gone"}
  /\ UNCHANGED <<op, step, at, buffer, word, bytes, kept, lost, result, refused>>

\* Another thread of the tracee writes a byte that is none of the injector's.
OtherThread3 ==
  /\ step # "done"
  /\ \E a \in {b \in Target : b >= Len(op.data)}, c \in Contents :
       /\ bytes' = [bytes EXCEPT ![a] = c] /\ kept' = [kept EXCEPT ![a] = c]
       /\ lost' = lost \cup (IF step = "poke" THEN {a} \cap (at .. (at + WordSize - 1)) ELSE {})
  /\ UNCHANGED <<op, step, at, buffer, word, result, thread, refused>>

Inject3Next == WriteLoop \/ WriteTail \/ PokeLast \/ ReadData \/ CallFunc \/ CallWait \/ LastWait
               \/ Stop \/ OtherThread3

-----------------------------------------------------------------------------
Placed == \A i \in 1 .. Len(op.data) : bytes[i - 1] = op.data[i]

\* Whatever requests are refused, no transfer changes a byte outside those asked for,
\* but for one that another thread writes between the PEEK and the POKE of the last
\* word; a write or read of at most a word that answers 0 is exact, and so is the
\* argument on the stack of a call, if no request was refused; when a call is over
\* the tracee has stopped, and one that answers -1 has not returned
\* (Inject.c:61-79, 99-126, 147-187).
TransfersExact ==
  /\ \A a \in Target \ lost : a >= Len(op.data) \/ op.kind = "read" => bytes[a] = kept[a]
  /\ Len(op.data) <= WordSize =>
       /\ op.kind = "write" /\ step = "done" /\ result = 0 => Placed
       /\ op.kind = "read" /\ step = "done" /\ result = 0 =>
            buffer = [i \in 1 .. Len(op.data) |-> kept[i - 1]]
       /\ op.kind = "call" /\ step = "ready" /\ ~refused => Placed
  /\ step = "done" => thread # "running" /\ (result = -1 => thread # "returned")

\* "wait until the function in the target process has returned (to the address null,
\* with SIGSEGV)" (Inject.c:177): a call that answers 0 has returned.  A fault of the
\* function has the same signal, and the second stop is not looked at.
CallReturned == op.kind = "call" /\ step = "done" /\ result = 0 => thread = "returned"
=============================================================================
