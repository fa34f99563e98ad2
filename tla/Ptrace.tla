------------------------------- MODULE Ptrace -------------------------------
(***************************************************************************)
(* ptracehook1: a process attaches to another, calls mmap and dlopen in    *)
(* it with borrowed registers and lets it go (tracer.cpp, tools.cpp,       *)
(* main.cpp).  ptrace stops one thread only: the other threads of the      *)
(* tracee go on writing their memory (OtherThread), a signal may stop the  *)
(* traced one at any time, and the tracee may be killed between two calls. *)
(*                                                                         *)
(* Data memory is a function from small addresses to bytes; code addresses *)
(* live in the modules "libc" and "linker" of each process.  A word has    *)
(* Word bytes.  MaxSignals bounds the signals that reach the tracee.       *)
(***************************************************************************)
EXTENDS Integers, Sequences

CONSTANTS Word,        \* sizeof(t_long)
          Free,        \* the bytes below the stack pointer
          Used,        \* the bytes the tracee's own threads read and write
          Page,        \* the bytes of the page mmap returns
          Library,     \* the library's name as bytes, its final 0 included
          Sp,          \* the stack pointer of the traced thread
          Offset,      \* offsets of mmap and dlopen in their modules
          MaxSignals

ASSUME PtraceAssumption ==
  /\ Word \in Nat \ {0} /\ MaxSignals \in Nat /\ Offset \subseteq Nat
  /\ Free \cap Used = {} /\ Page \cap (Free \cup Used) = {}

VARIABLES pc,      \* where the injector is
          tracee,  \* "free", "stopped", "running", "halted", "gone"
          stop,    \* why it last stopped: "return", "fault" or "signal"
          pending, \* whether the SIGSTOP of PTRACE_ATTACH is still to be delivered
          regs,    \* the registers of the traced thread
          mem,     \* its memory
          own,     \* what its own threads last wrote to Used
          mapped,  \* whether Page is mapped
          saved,   \* main's copy of the registers
          work,    \* the copy handed to traceCall
          call,    \* the function being called, or "name" while its name is written
          job,     \* what traceWrite has left to write
          report,  \* what main printed
          ret,     \* main's exit code
          loaded,  \* whether the tracee has loaded the library
          layout,  \* [split: modules have two lines, off: offset of the functions]
          signals  \* signals delivered

ptraceVars == <<pc, tracee, stop, pending, regs, mem, own, mapped, saved, work,
                call, job, report, ret, loaded, layout, signals>>

\* The lines of a module in /proc/<pid>/maps: one, or two when the file's first
\* segment is not the one with its code.
Lines(base) == IF layout.split THEN << <<base, base + 2>>, <<base + 2, base + 4>> >>
                               ELSE << <<base, base + 4>> >>
Local == [mmap |-> 20, dlopen |-> 30]
Remote == [mmap |-> 40, dlopen |-> 50]

\* find_module_info_by_address: both ends of the line are left out.
LineOf(base, a) == {l \in {Lines(base)[i] : i \in 1..Len(Lines(base))} : l[1] < a /\ a < l[2]}

\* get_remote_address: the distance to the start of the line that holds the
\* address here, from the start of the module's first line there; 0 when no line does.
RemoteAddress(fn) ==
  LET local == Local[fn] + layout.off IN
  IF LineOf(Local[fn], local) = {} THEN 0
  ELSE local + Lines(Remote[fn])[1][1] - (CHOOSE l \in LineOf(Local[fn], local) : TRUE)[1]

FunctionAt(a) == IF \E fn \in DOMAIN Remote : a = Remote[fn] + layout.off
                 THEN CHOOSE fn \in DOMAIN Remote : a = Remote[fn] + layout.off ELSE "other"

Mapped == Free \cup Used \cup (IF mapped THEN Page ELSE {})
WordAt(a) == a .. (a + Word - 1)
Start == CHOOSE a \in Page : \A b \in Page : a <= b
Bad == 99          \* a program counter that is not 0, or the result of a failed mmap

\* The stack grows downwards: what its owner keeps there is at the stack pointer
\* and above.  The page has room for the name to its last word; and there is no
\* data at the lowest addresses nor where the result of a failed mmap points.
ASSUME MemoryAssumption ==
  /\ Free \cup Used \cup Page \subseteq Nat /\ Sp \in Nat
  /\ Library \in Seq(Nat) /\ Library # <<>>
  /\ \A a \in Used : Sp <= a
  /\ \A i \in 1..(Len(Library) + Word - 1) : Start + i - 1 \in Page /\ {i, Bad + i - 1} \cap Used = {}

Failed == -1
NoJob == [dest |-> 0, bytes |-> <<>>]

InitialRegs == [pc |-> 7, r0 |-> 7, sp |-> Sp, lr |-> 7]

PtraceInit ==
  /\ pc = "attach" /\ tracee = "free" /\ stop = "signal" /\ pending = FALSE
  /\ regs = InitialRegs /\ saved = InitialRegs /\ work = InitialRegs
  /\ mem = [a \in Free \cup Used \cup Page |-> IF a \in Page THEN 0 ELSE 1]
  /\ own = [a \in Used |-> 1]
  /\ mapped = FALSE /\ call = "none" /\ job = NoJob
  /\ report = "none" /\ ret = 0 /\ loaded = FALSE /\ signals = 0
  /\ layout \in [split : BOOLEAN, off : Offset]

-----------------------------------------------------------------------------
\* The injector.

\* traceAttach: waitpid takes the first stop, which another signal may cause
\* while the SIGSTOP of the attach is still pending.
Attach ==
  /\ pc = "attach"
  /\ \/ /\ tracee = "free"
        /\ tracee' = "stopped"
        /\ pc' = "save"
        /\ \/ UNCHANGED <<pending, signals>>
           \/ signals < MaxSignals /\ signals' = signals + 1 /\ pending' = TRUE
        /\ UNCHANGED ret
     \/ /\ pc' = "exit" /\ ret' = Failed
        /\ UNCHANGED <<tracee, pending, signals>>
  /\ UNCHANGED <<stop, regs, mem, own, mapped, saved, work, call, job, report, loaded, layout>>

\* main: keep the registers, or detach at once when they cannot be read.
Save ==
  /\ pc = "save"
  /\ IF tracee = "stopped" THEN pc' = "load" /\ saved' = regs /\ UNCHANGED ret
                           ELSE pc' = "detach" /\ ret' = Failed /\ UNCHANGED saved
  /\ UNCHANGED <<tracee, stop, pending, regs, mem, own, mapped, work, call, job, report,
                 loaded, layout, signals>>

NotLoaded == pc' = "restore" /\ report' = "failed"

\* Mutant: the stack pointer is lowered, but the arguments are written above it.
PrepareAbove(fn, from, r0, stacked) ==
  /\ work' = [from EXCEPT !.r0 = r0, !.pc = RemoteAddress(fn), !.lr = 0, !.sp = @ - Len(stacked)]
  /\ job' = [dest |-> from.sp, bytes |-> stacked]
  /\ call' = fn
  /\ pc' = "write"

\* traceCall up to the write of the stack: r0 and pc, and the arguments that are
\* not passed in registers, below the stack pointer.
Prepare(fn, from, r0, stacked) ==
  /\ work' = [from EXCEPT !.r0 = r0, !.pc = RemoteAddress(fn), !.lr = 0, !.sp = @ - Len(stacked)]
  /\ job' = [dest |-> from.sp - Len(stacked), bytes |-> stacked]
  /\ call' = fn
  /\ pc' = "write"

\* load and find_space_by_mmap: both read the registers again; mmap's fifth and
\* sixth argument, two words of 0, go to the stack.
CallMmap ==
  /\ pc = "load"
  /\ IF tracee = "stopped" /\ RemoteAddress("dlopen") # 0 /\ RemoteAddress("mmap") # 0
     THEN Prepare("mmap", regs, 0, [i \in 1 .. 2 * Word |-> 0]) /\ UNCHANGED report
     ELSE NotLoaded /\ UNCHANGED <<work, job, call>>
  /\ UNCHANGED <<tracee, stop, pending, regs, mem, own, mapped, saved, ret, loaded, layout, signals>>

\* The buffer that mmap returned: the last word of the name is written from job.dest.
NameAt == job.dest - Word * (Len(Library) \div Word)

\* load: the write is done; call dlopen with the registers read at its start.
CallDlopen ==
  /\ pc = "dlopen"
  /\ Prepare("dlopen", saved, NameAt, <<>>)
  /\ UNCHANGED <<tracee, stop, pending, regs, mem, own, mapped, saved, report, ret, loaded,
                 layout, signals>>

\* A SIGSTOP nobody has taken yet halts a tracee that is let go.
LetGo == tracee' = IF tracee # "stopped" THEN tracee ELSE IF pending THEN "halted" ELSE "free"

\* A maps file cannot be opened, and fclose is called on NULL: the injector dies, and
\* the kernel lets its tracee go.
NoMaps ==
  /\ pc = "load" /\ pc' = "exit" /\ ret' = Failed /\ LetGo
  /\ UNCHANGED <<stop, pending, regs, mem, own, mapped, saved, work, call, job, report, loaded,
                 layout, signals>>

Reachable(a) == tracee = "stopped" /\ WordAt(a) \subseteq Mapped
Poked(a, bytes) == [b \in DOMAIN mem |-> IF b \in WordAt(a) THEN bytes[b - a + 1] ELSE mem[b]]

\* What follows traceWrite: its result is not looked at in traceCall, and a
\* failed write of the name ends load.
Written == pc' = (IF call = "name" THEN "dlopen" ELSE "run") /\ UNCHANGED report
WriteFailed == IF call = "name" THEN NotLoaded ELSE pc' = "run" /\ UNCHANGED report

\* traceWrite: whole words first; the rest is merged into the word that is there.
WriteWord ==
  /\ pc = "write" /\ Len(job.bytes) >= Word
  /\ IF Reachable(job.dest)
     THEN /\ mem' = Poked(job.dest, job.bytes)
          /\ job' = [dest |-> job.dest + Word, bytes |-> SubSeq(job.bytes, Word + 1, Len(job.bytes))]
          /\ UNCHANGED <<pc, report>>
     ELSE WriteFailed /\ UNCHANGED <<mem, job>>
  /\ UNCHANGED <<tracee, stop, pending, regs, own, mapped, saved, work, call, ret, loaded,
                 layout, signals>>

PeekTail ==
  /\ pc = "write" /\ Len(job.bytes) \in 1 .. (Word - 1)
  /\ IF Reachable(job.dest)
     THEN /\ job' = [job EXCEPT !.bytes = [i \in 1 .. Word |->
                       IF i <= Len(job.bytes) THEN job.bytes[i] ELSE mem[job.dest + i - 1]]]
          /\ pc' = "poke" /\ UNCHANGED report
     ELSE WriteFailed /\ UNCHANGED job
  /\ UNCHANGED <<tracee, stop, pending, regs, mem, own, mapped, saved, work, call, ret, loaded,
                 layout, signals>>

PokeTail ==
  /\ pc = "poke"
  /\ IF Reachable(job.dest)
     THEN mem' = Poked(job.dest, job.bytes) /\ Written
     ELSE WriteFailed /\ UNCHANGED mem
  /\ UNCHANGED <<tracee, stop, pending, regs, own, mapped, saved, work, call, job, ret, loaded,
                 layout, signals>>

EndWrite ==
  /\ pc = "write" /\ job.bytes = <<>> /\ Written
  /\ UNCHANGED <<tracee, stop, pending, regs, mem, own, mapped, saved, work, call, job, ret,
                 loaded, layout, signals>>

\* traceCall from traceSetRegs to the first waitpid.
Run ==
  /\ pc = "run"
  /\ IF tracee = "stopped"
     THEN regs' = work /\ tracee' = "running" /\ pc' = "wait" /\ UNCHANGED report
     ELSE NotLoaded /\ UNCHANGED <<regs, tracee>>
  /\ UNCHANGED <<stop, pending, mem, own, mapped, saved, work, call, job, ret, loaded, layout,
                 signals>>

\* The loop of traceCall: any stop but the SIGSEGV at the end of the call is
\* simply continued.
Wait ==
  /\ pc = "wait" /\ tracee \in {"stopped", "gone"}
  /\ \/ tracee = "stopped" /\ stop # "signal" /\ pc' = "after" /\ UNCHANGED <<tracee, report>>
     \/ tracee = "stopped" /\ stop = "signal" /\ tracee' = "running" /\ UNCHANGED <<pc, report>>
     \/ tracee = "gone" /\ NotLoaded /\ UNCHANGED tracee
  /\ UNCHANGED <<stop, pending, regs, mem, own, mapped, saved, work, call, job, ret, loaded,
                 layout, signals>>

\* After a call: r0 counts when the function came back to address 0.
After ==
  /\ pc = "after"
  /\ IF tracee = "stopped" /\ regs.pc = 0 /\ regs.r0 # 0
     THEN IF call = "mmap"
          THEN pc' = "write" /\ job' = [dest |-> regs.r0, bytes |-> Library]
               /\ call' = "name" /\ UNCHANGED report
          ELSE pc' = "restore" /\ report' = "success" /\ UNCHANGED <<job, call>>
     ELSE NotLoaded /\ UNCHANGED <<job, call>>
  /\ UNCHANGED <<tracee, stop, pending, regs, mem, own, mapped, saved, work, ret, loaded, layout,
                 signals>>

Restore ==
  /\ pc = "restore"
  /\ pc' = "detach"
  /\ IF tracee = "stopped" THEN regs' = saved /\ UNCHANGED ret
                           ELSE ret' = Failed /\ UNCHANGED regs
  /\ UNCHANGED <<tracee, stop, pending, mem, own, mapped, saved, work, call, job, report, loaded,
                 layout, signals>>

Detach ==
  /\ pc = "detach" /\ pc' = "exit" /\ LetGo
  /\ UNCHANGED <<stop, pending, regs, mem, own, mapped, saved, work, call, job, report, ret,
                 loaded, layout, signals>>

Tracer == Attach \/ Save \/ CallMmap \/ NoMaps \/ CallDlopen \/ WriteWord \/ PeekTail \/ PokeTail
          \/ EndWrite \/ Run \/ Wait \/ After \/ Restore \/ Detach

-----------------------------------------------------------------------------
\* The tracee.

\* Another thread of the tracee writes one of its bytes.
OtherThread ==
  /\ tracee # "gone" /\ pc # "exit"
  /\ \E a \in Used : mem' = [mem EXCEPT ![a] = 1 - @] /\ own' = [own EXCEPT ![a] = 1 - @]
  /\ UNCHANGED <<pc, tracee, stop, pending, regs, mapped, saved, work, call, job, report, ret,
                 loaded, layout, signals>>

\* A call leaves its frames below the stack pointer.
Framed == [a \in DOMAIN mem |-> IF a \in Free /\ a < regs.sp THEN 2 ELSE mem[a]]

\* The called function comes back to address 0, which is not mapped.
Back(r0) ==
  /\ regs' = [regs EXCEPT !.r0 = r0, !.pc = regs.lr]
  /\ mem' = Framed
  /\ tracee' = "stopped" /\ stop' = "return"

\* A pending SIGSTOP is delivered before the thread runs any code of the function.
\* mmap looks at its offset on the stack; dlopen at the name; a function that
\* is neither does as it likes.
Return ==
  /\ tracee = "running" /\ ~pending
  /\ \/ /\ FunctionAt(regs.pc) = "mmap"
        /\ \/ /\ \A a \in regs.sp .. (regs.sp + 2 * Word - 1) : mem[a] = 0
              /\ Back(Start) /\ mapped' = TRUE
           \/ Back(Bad) /\ UNCHANGED mapped
        /\ UNCHANGED loaded
     \/ /\ FunctionAt(regs.pc) = "dlopen"
        /\ \/ /\ \A i \in 1 .. Len(Library) : mem[regs.r0 + i - 1] = Library[i]
              /\ Back(1) /\ loaded' = TRUE
           \/ Back(0) /\ UNCHANGED loaded
        /\ UNCHANGED mapped
     \/ /\ FunctionAt(regs.pc) = "other"
        /\ \E r0 \in {0, 1} : Back(r0)
        /\ UNCHANGED <<mapped, loaded>>
  /\ UNCHANGED <<pc, pending, own, saved, work, call, job, report, ret, layout, signals>>

\* A fault inside the function, with the same signal as a return.  After a call
\* through a NULL pointer, which a constructor of the library may make and the
\* system call mmap does not, pc is 0 too, and r0 what it happens to be.
Fault ==
  /\ tracee = "running" /\ ~pending
  /\ tracee' = "stopped" /\ stop' = "fault" /\ mem' = Framed
  /\ \/ regs' = [regs EXCEPT !.pc = Bad]
     \/ /\ FunctionAt(regs.pc) # "mmap"
        /\ \E r0 \in {0, 1} : regs' = [regs EXCEPT !.pc = 0, !.r0 = r0]
  /\ UNCHANGED <<pc, pending, own, mapped, saved, work, call, job, report, ret, loaded, layout,
                 signals>>

\* A signal stops the traced thread: the pending SIGSTOP first.
Signal ==
  /\ tracee = "running"
  /\ pending \/ signals < MaxSignals
  /\ pending' = FALSE
  /\ signals' = IF pending THEN signals ELSE signals + 1
  /\ tracee' = "stopped" /\ stop' = "signal"
  /\ UNCHANGED <<pc, regs, mem, own, mapped, saved, work, call, job, report, ret, loaded, layout>>

Killed ==
  /\ tracee \in {"stopped", "running"} /\ tracee' = "gone"
  /\ UNCHANGED <<pc, stop, pending, regs, mem, own, mapped, saved, work, call, job, report, ret,
                 loaded, layout, signals>>

Tracee == OtherThread \/ Return \/ Fault \/ Signal \/ Killed

PtraceNext == Tracer \/ Tracee

-----------------------------------------------------------------------------
\* What the tracee's own threads keep in memory is never overwritten, neither by
\* the arguments on the borrowed stack nor by the tail of a write, and a tracee
\* that outlives the injector has its registers back (main.cpp:73,
\* tracer.cpp:180-184, 111-126).
TraceeKept ==
  /\ \A a \in Used : mem[a] = own[a]
  /\ pc = "exit" /\ ret = 0 /\ tracee # "gone" => regs = InitialRegs

\* When main reports success the tracee has loaded the library and runs, if the
\* functions' modules have one line in the maps and dlopen did not end in a fault
\* that looks like its return (tools.cpp:157, 194, 246).
ReportTrue ==
  report = "success" /\ ~layout.split =>
    /\ loaded \/ stop = "fault"
    /\ pc = "exit" => tracee # "halted"
=============================================================================
