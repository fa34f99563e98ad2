# FHook in TLA+

A verification development kept beside the FHook repository: TLA+ modules of
its hooking core, TLC instances that check them, and TLAPS proofs about them.
Paths are relative to the repository; `xh_core.c` and its neighbours are in
`elfhook/src/main/cpp/xHook/`, the three older hooks in `elfhook1/`, `elfhook2/`
and `elfhook3/` beside it.

## 1. Inventory

FHook is an Android demonstration of hooking techniques. Its parts hardly
depend on each other; `app` links them into one UI.

| component | state it keeps | operations | hard behaviour |
|---|---|---|---|
| xHook core, life cycle (`xh_core.c`, `xhook.c`) | two mutexes, a condition, four unlocked "initialised" flags, the worker thread with its `running` and `do` flags, the queues of hook and ignore infos | register, ignore, refresh (sync/async), clear, the worker's loop | threads, double-checked initialisation, a request flag of one bit, stop and join, frees beside readers |
| xHook core, map refresh (`xh_core.c`) | the tree `map_info` of hooked libraries and the new tree of the walk | `xh_core_refresh_impl`, `xh_core_hook`, `xh_core_hook_impl` | libraries loaded and unloaded beside the walk and between walks; order of infos |
| xHook ELF hooking (`xh_elf.c`, `xh_util.c`) | GOT slots, page protections, `*old_func` | `xh_elf_init`, `xh_elf_hook`, relocation iterators, `xh_elf_replace_function` | half-done calls, faults, another thread's mprotect, iterator boundaries |
| SIGSEGV protection (`xh_core.c` 85-119, 283-302, 653-656) | process-wide handler, flag, jump buffer, enable switch | install, remove, jump out | several threads and one jump buffer |
| JNI bridge, Java front end, log, version | an init flag | forwarding | none |
| queue.h, tree.h | the links and colours of a red-black tree | vendored BSD macros, of which the tree holds `map_info` | removal under the walk that removes |
| elfhook1, elfhook2, elfhook3 | GOT slots, page protections, `old_func`; elfhook3 keeps its modules | three other implementations of the same hook, sequential | loop bounds, load biases, two kinds of hash table, `old_func` saved before the checks |
| artmethodhook | entry point and native pointer of a method | install the dispatcher; dispatch a call; the Dalvik variant and its signature parser | the native pointer is swapped while the original runs |
| ptracehook | registers, memory and run state of the tracee | find the process, attach, peek, poke, call a remote function, detach | stops, signals and the end of the other process; word-wise copies; addresses computed from maps |
| inlinehook | - | one address range test (the rest is commented out) | an inclusive bound |
| sharedmemory | System V segments, the attach table of `shmop.c` | a server/client handshake, attach and detach | two processes on unsynchronised memory |
| asmplugin | the output of a build, `classes_temp.jar` beside each jar | copy directories and jars, with log calls added to one class | builds killed half way and run again |
| app | - | UI | none |

How they interact inside xHook: an application thread calls `xhook_*`, which
forwards to `xh_core_*`. Refresh runs `xh_core_refresh_impl` in the caller or,
asynchronously, in the worker; that walks `/proc/self/maps` and for each
selected library calls `xh_core_hook` -> `xh_elf_init` -> `xh_elf_hook`, with the
SIGSEGV handler armed. Shared state: `xh_core_mutex` guards the queues and the
worker's flags, `xh_core_refresh_mutex` the walk; the flags `inited`, `init_ok`,
`async_inited`, `async_init_ok` are read and written without either.

What makes each part correct:

- **life cycle**: mutual exclusion of walks and frees; one worker, joined by
  clear; no lost wake-up; an accepted request is followed by a refresh that
  begins after it; UNKNOWN only for a reason; infos complete before libraries
  are hooked; every call returns.
- **map refresh**: entries for exactly the selected libraries that are mapped,
  at the right base; every selected library hooked as asked, ignored libraries
  never entered; the two trees disjoint; `old_func` chains end in the original.
- **ELF hooking**: protections come back; a call that answers 0 has replaced all
  slots of the symbol; `old_func` is the original after any history of calls.
- **tables**: every symbol is found and no other; the relocations packed are the
  ones returned; the tree stays a red-black tree and a walk sees each entry once;
  a word to be written is writable in every byte, and afterwards as it was.
- **elfhook1-3**: only slots of the symbol in the libraries that were asked for are
  written; the original is saved first; what is reported done is done; no page
  is writable and executable where the code says so.
- **method hooks**: the dispatcher finds the method's own HookInfo in every call; a hooked
  method stays hooked, and is not hooked twice; what is computed from a signature covers its
  arguments and fits their types.
- **injectors**: the tracee keeps its memory and gets its registers back; a success
  reported is one; transfers touch the bytes asked for; a call that is over has returned; the
  process found is the one named.
- **build plug-in**: every class is put out once, log calls are added exactly once, whatever a
  build that was killed has left; nothing is left in the project.
- **shared memory**: the handshake hands over all the data and ends; the attach table
  is the kernel's.

`PROJECT.json` lists the components with their status, and under `hazards` what
is hard to test, each at its line, with the properties that would show it.

## 2. Modules

| module | models | by |
|---|---|---|
| `HookService` | what the core promises an application that serialises its calls | phase, rules, entries, requests owed; no threads |
| `XhCore` | `xh_core.c` 122-221, 465-646: the API calls, the worker, the mutexes and flags | one action per step another thread can see; program counters `pc` (callers) and `wpc` (workers) |
| `XhRefresh` | `xh_core.c` 223-463: the walk and the hooking of one library | `mode` (setup, idle, walk, hook), the lines still to read, the two trees |
| `XhElf` | `xh_elf.c` 72-94, 454-500, 939-1042 with `xh_util.c` 105-116 | one hook call at a time on one image, one action per relocation and per memory or mprotect call |
| `XhTree` | the red-black tree of `tree.h` | nodes with parent, children and colour; insertion, removal and each step of the removing walk |
| `XhImage` | the header checks and `xh_elf_init` of `xh_elf.c` | a library as a record; one action per dynamic entry |
| `HashTables` | the two kinds of hash table xHook and the older hooks look names up in | how a chain is followed, and what a linker writes; no state |
| `XhLookup` | the look-ups in both hash tables of `xh_elf.c` | `HashTables` over what `XhImage` found |
| `PackedTables` | what a table of packed relocations is | the numbers in its bytes, its groups and flags, what a packer means by them; no state |
| `XhPacked` | the packed relocations of `xh_elf.c` 106-255 | over `PackedTables`: a byte stream; one action per relocation |
| `XhProtect` | the protection helpers of `xh_util.c` with their use in `xh_elf.c` | one action per line of the maps file and per mprotect |
| `ElfProcess` | the process the three older hooks run in, and what they promise | libraries, slots, page protections, `old_func` |
| `ElfHook1`, `ElfHook2`, `ElfHook3` | `elfhook1/elfhook.cpp`, `elfhook2/elf_reader.cpp` and `hooker.cpp`, `elfhook3/elf_hooker.cpp` and `elf_module.cpp` | over `ElfProcess`: one action for the look-ups of a call, then one per slot, with saving and writing apart |
| `ElfHooks` | the three older hooks together | a process is hooked by one of them, and libraries are loaded beside it |
| `ArtHook`, `DalvikHook` | `artmethodhook`: the ART dispatcher, the Dalvik installation | one action per write of a shared word; several threads |
| `AsmPlugin` | `asmplugin`: the transform and its three visitors | one action per directory, per jar entry and per step on a file; `Abort` anywhere |
| `MethodHook` | what is done to the methods of an application, together | `ArtHook`, `DalvikHook` and `AsmPlugin`, of which a behaviour takes one |
| `Ptrace` | `ptracehook1`: `main.cpp`, `tracer.cpp`, `tools.cpp` | injector and tracee, one action per ptrace request or stop |
| `Inject3` | `ptracehook3/Inject.c`: transfers and the remote call | one action per ptrace request |
| `PidLookup` | the searches of `/proc` in both injectors | one action per entry, processes ending beside them |
| `ShmTable` | `shm/shmop.c` with `shmctl.c` beside it | one action per answer of the user |
| `ShmHandshake` | `shm/shm-server.c`, `shm-client.c` | one action per byte |
| `Processes` | what one process does to another, together | `Ptrace`, `Inject3`, `PidLookup`, `ShmTable` and `ShmHandshake`, of which a behaviour takes one |
| `XhCoreProofs`, `HookServiceProofs`, `XhRefreshProofs`, `XhElfProofs`, `XhDataProofs`, `ElfHookProofs`, `MethodHookProofs`, `ProcessProofs` | - | the proofs |
| `MCXhCore`, `MCXhRefresh`, `MCXhElf`, `MCXhData`, `MCElfHooks`, `MCMethodHook`, `MCAppHooks`, `MCProcesses` | - | the small instances; `MCLinker` writes the symbol and hash tables of a library as a linker does |

The modules of xHook are layers. `XhCore` takes a whole walk as one step
under `refresh_mutex` (`RefreshImpl`: an entry is kept, or hooked with the infos
there are, or dropped); `XhRefresh` opens that step, justified by
`MutualExclusion`, which says that only one thread is ever inside it; `XhRefresh`
takes `xh_elf_hook` as one step (`Replace`), which `XhElf` opens. `XhElf` in turn takes
as given that a symbol is found, that the packed iterator returns what was packed
and that `xh_util_get_addr_protect` says how the pages of a slot are protected:
`XhImage` and `XhLookup`, `XhPacked`, and `XhProtect` are about these. `XhRefresh` treats `map_info` as a set,
which `XhTree` justifies. The other parts of the repository share nothing with
xHook; `ElfHooks`, `MethodHook` and `Processes` hold those of a kind together, a
behaviour being about one of them, for the runs and the proofs alike.

### XhCore and the code

Variables are the globals of `xh_core.c` 122-134 (`inited`, `initOk`, `running`, `do`,
`tid`, ...), the mutexes as their owners, the queues as one set `infos`, the tree
as a set `mapInfo` of "the infos this library was hooked with". `asked` and
`failed` are history: the state of each caller's last asynchronous request, and
what initialisation has failed since clear. `calls` only bounds the runs.

The four unlocked flags are why the calls are cut up: each read or write of one
is a step (`InitFast`, `InitCheck`, `AsyncFast`, `AsyncCheck`, `ClearAsync`,
`ClearAsyncInited`, `ClearHandler`, `ClearInited`). A critical section whose
effects are only read under the mutex is one step; one that writes an unlocked
flag in the middle is two, the thread keeping the mutex in between (`LockedPcs`).
`pthread_create` and `sigaction` may fail, `pthread_cond_wait` may wake up without a signal,
`pthread_join` of a thread already joined returns (`ClearJoin`). A second clear's join of a
thread id the system has given away meanwhile is taken as that return.

`SerialRegister` and `SerialClear` say what the application serialises itself:
register with refresh, clear with everything. xhook.h does not say whether it
must, so both are constants: `core` has both TRUE, `core_races` both FALSE, with the properties that
hold anyway, and `core_late_register` shows what happens without `SerialRegister`. The theorems of
section 4 name the one each needs.

### XhRefresh and the code

A regular expression is the set of paths it matches. `/proc/self/maps` is read
at once by `Begin` (the kernel gives it page by page; a file of a few lines comes
in one read); the linker may then load and unload (`Dlopen`, `Dlclose`), so lines
go stale under the walk. `Selected` is the filter of lines 357-382, with the jump
to `check_continue` that ends the search at the first matching hook info.
The infos are in their queues' order: `Search` is the loop over the ignore infos (262-270), which ends
at the first that fits, with the library left (`HookStopped`) or the symbol passed over (`HookSkipped`).
The return at 266 cannot be reached: where an ignore info names the library whole, the filter has
already left it out, which `IgnoredHasNoEntry` shows for every order of the queues.
`KnownLine`, `NewLine` and `NoMemory` are lines 388-439; `End` frees what is left
in the old tree. `excused` is history: the libraries the linker touched behind
the walk's back, about which a refresh can promise nothing.

### XhElf and the code

A slot's initial content is its own name. `PlainEntries` is the plain iterator
as written: it advances before it returns, so entry 1 is passed over and
whatever lies beyond the table is returned last (`afterPlt`, `afterDyn`). `Fault`
is a SIGSEGV at the access the code is about to make, after which the handler
leaves the call. A page without the pathname on its maps line (`Named`) makes
`xh_util_get_addr_protect` fail. Not modelled: a NULL `old_func` argument, a fault
while reading the table itself, and the protection switched off (the process
then ends).

### What xHook computes with: XhTree, XhImage, XhLookup, XhPacked, XhProtect

`XhTree` keeps the macros' structure: `Rotate`, the colouring loops as recursive
operators whose cases are those of the code, removal of a node with two children
by its successor. A walk is the loop of `RB_FOREACH_SAFE`: the successor is taken before
the body, which may remove and free the node.

`XhImage` reads the dynamic entries in their order, so that a repeated or late
entry overwrites what an earlier one left, and stops at `DT_NULL`. What the code tests for NULL is an
address there too: `self` keeps where each table is, and `at` of a library what is at an address, so that
an empty table is one like any other. The hash of a name
is a constant function; the look-ups of `XhLookup` follow the chains of the table a linker
wrote: `InElfHash` and `InGnuHash` say what that is, `EmptyGnuHash` what GNU ld writes when a library defines
nothing, and `MCLinker` writes such tables. The two kinds of table have their words at different places
(`HashTable`, `GnuTableRead` read each array through its own pointer), which is what `DT_HASH` after
`DT_GNU_HASH` mixes up. A chain is
a recursive function of the number of links, cut off at the length of the table. `XhPacked` computes with numbers modulo 2^Width in chunks of
Chunk bits, 7 in the code, so that sign extension and overflow happen within the
width. `WellPacked` of `PackedTables` says what a packer writes, as a relation between the bytes, the numbers
in them and the relocations: which numbers are a group's and which a relocation's own, and what they add
to the relocation before. It says nothing of how any of it is read. `XhProtect` reads the maps file line by line: a word on two lines gets the rights
both have.

### The older hooks: ElfProcess, ElfHook1, ElfHook2, ElfHook3

The process has a maps file, libraries with their program headers, dynamic entries,
tables and slots, and a protection for each page. A call first works out the words
it will replace (`todo`), which only reads, and then saves and writes them one by
one; mprotect may refuse each time. elfhook1 takes the first line of its library
and makes pages readable, writable and executable; elfhook2 ends a call with its
first replacement and goes on after a failure; elfhook3 scans the maps file, keeps the
modules it has seen, passes them through the caller's filter and hooks each. A library
may be loaded between two calls (`LoadLibrary`).

### The method hooks: ArtHook, DalvikHook

In `ArtHook` the entry point and the native pointer of a method, and the HookInfo, are
written word by word by threads without a lock; `stack` holds the hooks and calls
of each thread, so that an original may call the method again. The dispatcher asks the class of the
receiver and of the result for its name, which the runtime computes when somebody asks for it (`named`):
until then the pointer is NULL, and the dispatcher does not test it. A method of a class
that is not initialised begins with a trampoline, which the first call replaces by the
code. `DalvikHook` marks a method as hooked with several writes to one `Method`
(`now`) and computes argument size, call hints, parameter types and boxes from
its signature: `After` is a loop over the parameters, as a function from the number of those read
to what the loop has come to. The handler passes these types on with the arguments (`Accepts` is what
`dvmInvokeMethod` makes of them), and the names of classes go through a buffer of 128 bytes (`Overruns`),
for which a parameter has the length of its descriptor. `padFlags` is the set of the bits set in it.

### The build-time plug-in: AsmPlugin

A class is its name and its methods with their instructions, of which only returns and log calls
matter; the entry it is in has a name of its own, and the code asks for both (`CheckClassFile`, `VisitMethod`). A
jar on the disk is its entries and whether it has been closed. A build goes through
the inputs in their order; `Abort` ends it anywhere, and what is on the disk stays: where a directory's
jars are all inputs, the next build has what was left among its own (`LeftInput`). `Location` is
where an input goes: a jar's name with the digest of its path. Class files
in directories come out as they are, since `checkClassFile` compares a file's base
name with a full one (`HandleDirectory` applies it all the same).

### The injectors and the shared segments: Ptrace, Inject3, PidLookup, ShmTable, ShmHandshake

In `Ptrace` the tracee's stopped thread has registers, its memory is bytes below and above
the stack pointer and in the page that mmap returns, and its other threads go on
writing theirs (`OtherThread`); what a stop was for is not visible to the injector, as in
the code: a fault has the signal of a return, and pc 0 as well after a call through NULL (`Fault`). A
maps file that cannot be opened ends the injector in `fclose(NULL)` (`NoMaps`). `Lines` are the lines of a module in the maps file, from which `get_remote_address`
computes. `Inject3` keeps the two paces of the transfer loops: the buffer advances
by a word, the remote address by a byte. Any request may be refused (`Refuse`), other threads write
between the PEEK and the POKE of the last word (`OtherThread3`, with what is lost of it in `lost`), a call
writes its stacked arguments first and goes on whatever becomes of them (`Ended`), and the function
returns, faults, or is stopped by something else (`Stop`). In `PidLookup` processes end while /proc is
listed. `ShmTable` pairs the array of `shmop.c` with the kernel's own record of attachments;
`ShmHandshake` has the server, one run after the other, and clients that may overlap; the server and
each client may be killed at any moment.

## 3. Runs

| run | instance | shows |
|---|---|---|
| `core` | 2 callers, 2 workers, a hook and an ignore info, 6 calls; register and clear serialised; fair | types, one worker, no lost wake-up, requests held and served, handler in place, UNKNOWN explained, every call returns, entries current, no late insert, refinement of `HookService` |
| `core_races` | 3 callers, 2 workers, 4 calls; nothing serialised | mutual exclusion, no free under a refresh |
| `core_late_register` | 2 callers, 3 calls; register not serialised | violation: an info inserted after refresh began (finding) |
| `refresh` | 2 files (one mapped twice, with two possible bases around the other; one that `xh_elf_init` refuses), 2 symbols, 3 hook and 2 ignore infos, 3 of them registered at a time, 1 dlopen, loads beside the walk | trees disjoint, entries exact, hooked as asked, ignored libraries without an entry, infos in any order, chains end in the original |
| `refresh_ignore` | as above with one file that is not ELF, loads between walks only | violation: an ignore for one symbol drops the library (finding) |
| `library` | hook calls: 3 images, 6 slots on 3 pages, 4 hooks, 3 calls, 1 foreign mprotect; a tree of 7 keys; some fifty libraries linked at 0 or 16, with either hash table, both or none, and broken headers; 5-bit numbers in 2-bit chunks, 3 relocations in 2 groups, whole tables and cut ones; words of 2 on pages of 4, 3 lines of maps | protections restored, completeness, `old_func` is original; the tree stays red-black, searches and walks agree with the sorted set; every symbol is found and the tables are those linked; the packed list is returned; words are writable when written and restored |
| `elf_first` | the hook calls above, 1 call, no foreign mprotect | violation: the first relocation is never hooked (finding) |
| `app_hooks` | older hooks: 1 to 3 libraries, linked at 0 or 8, either hash table, 2 calls, pages of 8 words; ART: 2 threads, 3 HookInfos, nesting 2, 3 invocations, a class with and without its name; Dalvik: 2 threads, 2 hooks, 2 calls, signatures up to 3 parameters over 5 kinds and 4 over 2, doubles and ints up to 14, class names at the end of the buffer; plug-in: 3 projects (jars of one name, one directory read whole, a jar with an entry twice, a class of another name in an entry of the right one), 3 builds | the properties of `ElfProcess` and of each hook's completeness; calls and hooks fail only for the reasons named; the hook stays; signatures are read as written; every class is put out and instrumented once, whatever was left |
| `asm_twice` | the projects above, 2 builds | violation: log calls inserted twice into what a killed build left (finding) |
| `processes` | words of 4 and of 2, 2 signals, modules with one line or two, transfers and stacked arguments of up to 3 words, any request refused; 3 processes; 2 segments, 3 addresses, a table of 2; 3 letters, 2 runs of the server, 3 of two clients; fair | tracee kept, reports true, process found; transfers exact; table true, letters printed; the server ends |
| `inject_call` | as above | violation: a call that is over has not returned (finding) |
| `shm_star` | as above | violation: the server ends, nobody has read all the letters (finding) |

**Bounds.** Two callers are needed for every race of the fast paths, a third only
for a clear that overlaps a clear and a refresh (`core_races`). Four calls are
refresh, refresh, clear, refresh: enough to create, stop and create a worker again
while requests are pending; six add registrations before and after. Runs of one kind are one run
where they share bounds: in `library` and `app_hooks` a behaviour is about one part and the others stand still. `Workers` has
two identities so that a second worker could exist if the code let it (and does, in
`core_races`). `MaxLoads = 1` with `Dlclose` unbounded gives unload, reload elsewhere,
reload at the same base. Three hook calls are a call cut short, its repetition,
and a call for the other function of the same symbol.
`CHECK_DEADLOCK FALSE` stands where the bound on calls lets the system stop; in
`refresh` and `refresh_ignore` a walk can always begin, and deadlock is checked.
Seven keys make every case of the colour fix-ups happen, on both sides. A number of
5 bits takes up to three chunks, the last of which may stick out of the width or
end short of it, which are the decoder's two cases. Pages of four and words of two
have words inside a page, at its end and across. Libraries linked at 0 and above tell
apart a base from a bias. Three invocations nested two deep are a call, another
inside it, and one after both; two signals are the retry and one more; two clients overlap in every
way a third could, and three runs are one before the letters are complete and two after. Four
parameters reach the second padding word; 14 wide ones reach past the count.

**Symmetry** of callers and of workers is used in `core_races`, and of threads in `app_hooks`, where
no liveness is checked.

**Fairness** (`FairSpec`): weak fairness of each thread's steps inside the library,
that is, the scheduler runs every runnable thread. It suffices for the mutexes
because each holder's section is finite and the number of calls bounded. No
fairness on calls (nobody must call), on spurious wake-ups, or on success of
`pthread_create`. `ShmFairness` is the same for the server and the client, which are
separate processes: each goes on while it can. Nobody must start or kill one.

**What the properties leave out.** Where a property asks less than one might expect, the
condition in it names behaviour of the code. Mostly nothing in the repository calls that behaviour
right or wrong; where a line of it does, the line is named here, or the behaviour has a run of its own
under "Findings":

- `UnknownExplained`: an UNKNOWN while another caller's initialisation is under way (`xh_core.c:498`) is one of
  the two causes it names.
- `ChainReachesOriginal`, `OldIsOriginal`: symbols for which several functions are registered, whose
  `old_func` may end up in a circle.
- `EntriesExact`, `RefreshHooks`: libraries the linker touched behind the walk's back or that came back at the
  same address.
- `ProtectionRestored`: calls that end in a fault, and pages another thread has changed.
- `SymbolsFound`: `DT_HASH` after `DT_GNU_HASH`, and the imports an empty `.gnu.hash` leaves to neither
  search. In both cases symbols the library has are missed (`xh_elf.c:858-880`, `419`), though `XHook.java:12`
  says that the index of the symbol is found.
- `Complete2`: elfhook2 looks at the first entry of `.rel.dyn` only (`elf_reader.cpp:327`), and is
  done with one slot. `Complete3`: elfhook3 reads the `DT_REL` table, not `DT_RELA`.
- `ArtCallsSafe`: calls and hooks of one method that overlap, recursion included, and a class
  initialised by other code may crash: while the original runs, the HookInfo is not where the
  next call looks for it (`ArtMethodHook.cpp:23`, `37`); so does a result that is null or no object, and a class
  without a computed name. The property says which of these can happen to which methods.
- `DvmCallsSafe`: hooks of the method that overlap, which both answer 0 (`DalvikMethodHook.cpp:362`, `388`); signatures with an array of primitives before
  another parameter or an array of two dimensions, whose types are wrong when they are used; class names of 127
  characters and more. `SignatureRead` leaves out the same signatures.
- `BuildRight`: what becomes of a `classes_temp.jar` that was left where all jars are inputs; `asm_twice` is about
  that. The project's own inputs come out right beside it.
- `ReportTrue`: modules with two lines in the maps file, where the distance is taken from
  another line than it is added to, and a call through NULL under dlopen, which leaves the pc of a return (`tools.cpp:246`): "load
  %s success" (`main.cpp:69`) may then be said of a library that is not loaded.
- `TransfersExact`: transfers longer than a word are only confined to the bytes asked for, as a `void *` advances by
  a byte and the words of a write overwrite one another (`Inject.c:106`), although the path of a library is to be kept
  this way (`Inject.c:17`); a
  neighbour's byte written between PEEK and POKE is lost; whether the function has returned when a call
  answers 0 (`inject_call`).
- `ServerEnds`, `PrintsAll`: clients started before the letters are complete. What their '*' means to the server is
  `shm_star`'s question.

**Findings**, each a run that violates what the code says of itself.

1. `core_late_register`, `xh_core.c:145`: register tests `inited` without a lock and does not test again before it inserts.
2. `refresh_ignore`, `xh_core.c:377`: the filter leaves its search at the first matching hook info, so an ignore info for that
   symbol drops the library.
3. `elf_first`, `xh_elf.c:92`: the plain iterator never returns the first relocation.
4. `asm_twice`, `AsmPlugin.groovy:123`: a `classes_temp.jar` that is an input is read before it is deleted.
5. `inject_call`, `ptracehook3/Inject.c:178`: any SIGSEGV, and any second stop, is taken for the return of the function.
6. `shm_star`, `shm-server.c:55`: a '*' ends the server whether its client has read the letters or not.

## 4. Proofs

All for any values of the constants: any sets of threads, infos, paths, tables and
pages, and any number of calls. What each module takes for granted are its named
assumptions.

### The life cycle: XhCoreProofs, HookServiceProofs

From `CoreAssumption` only, unless an assumption on the application is named.

| theorem | property | assumes |
|---|---|---|
| `Typing` | `TypeOK` | - |
| `MutualExclusion` | `LocksHeld` | - |
| `FreeSafe` | `NoFreeDuringRefresh` | - |
| `OneRefreshThread` | `OneWorker` | SerialClear |
| `WakeupKept` | `NoLostWakeup` | SerialClear |
| `RequestKept` | `RequestHeld` | SerialClear |
| `HandlerInPlace` | `RefreshOnlyWhenReady` | SerialClear |
| `UnknownHasCause` | `UnknownExplained` | SerialClear |
| `EntriesCurrent` | `EntryCurrent` | SerialClear, SerialRegister |
| `InsertFirst` | `NoInsertAfterRefresh` | SerialClear, SerialRegister |
| `Implementation` | `ServiceSpec` | SerialClear, SerialRegister |
| `AlwaysUpToDate` | `HookService`: `EntriesUpToDate` | - |

The argument. `TypeOK` is inductive; it is proved in two halves because its Boolean
part suits Zenon and the rest the SMT solver. `LocksHeld` is inductive given
`TypeOK`, and `FreeSafe` follows since only `ClearFree` shrinks `infos`, and it waits for
`refresh_mutex`.

The worker's properties are not inductive one by one. `WorkerInv` joins them with
three facts: while a caller is in clear no other caller is inside the library
(`ClearAlone`, where SerialClear enters); where a caller stands tells the flags it
has seen (`FlagsKnown`: in `post`, for example, both init_ok flags hold); and the
flags are set and reset in an order (`FlagsOrdered`). Without them, clear could be
thought to begin while a caller is about to post to a worker that is gone.
`FailureInv` adds that a flag that is set without its init_ok has a failure on
record or an initialisation under way, which gives `UnknownExplained`.

`EntryInv` adds that while `inited` is not set there are no entries, and no caller
is about to insert once it is set (where SerialRegister enters): an info can
then not be added beside an entry hooked without it.

`Implementation` maps `phase`, `rules`, `entries`, `owed` as in `XhCore!Service` and shows each
step to be a step of `HookService` or a stutter: `InitLock` is `Start`, `Insert` is `Accept`,
`Post` is `Ask`, a walk is `Serve`, and the last step of clear is `Reset`, which needs that
nothing is owed by then: requests not taken are withdrawn by `ClearStop`, and the
taken ones are served before the join.

### The walk: XhRefreshProofs

From `RefreshAssumption`: a hook info is known by its function, no two libraries
can be loaded at one address, and files and infos are finite in number.

| theorem | property |
|---|---|
| `RefreshTyping` | `XhRefresh!TypeOK` |
| `TwoTrees` | `TreesDisjoint` |
| `IgnoredHaveNoEntry` | `IgnoredHasNoEntry` |
| `ChainEnds`, `ChainsReachOriginal` | `ChainInv`, and with it `ChainReachesOriginal` |
| `EntriesAhead`, `EntriesAreExact` | `EntriesInv`, and with it `EntriesExact` |
| `EntriesHooked`, `RefreshHooksAll` | `HooksInv`, and with it `RefreshHooks` |

`TypeOK` carries what the steps on one library need: the library being hooked has
its entry in the new tree, and the position is inside the list. `TreesDisjoint` is inductive:
only `KnownLine` puts a path of the old tree into the new one, and takes it out first.
A slot is only written by `Hook`, `Dlopen` and `Dlclose` (lemma `WhoWrites`), and the linker's two put
the original back. `IgnoredHasNoEntry` is about the search: a path the ignore infos name whole is dropped by the
filter whichever hook info it asks about, since the search over the ignore infos ends, at the latest, at the one that
names the path whole, and every way it ends makes the filter drop the library. `ChainInv` says of a symbol with one function that
a slot holds the original, or the function, whose `*old_func` is the original then: since `Replace` leaves a
slot alone that holds the function already, what it saves was the original, and the recursive function
of `ChainReachesOriginal` stops after one link.

`EntriesInv` says what is so in mid-walk: a library that nobody touched behind the walk's back
and that has an entry is wanted and mapped where the entry says; one that is wanted and has none
yet has its first line among the lines still to read (`FirstLine`). A file mapped twice makes the
second line pass over the entry of the first; that the lines are finitely many and each is read
is what brings the walk to its end with none left. `HooksInv` says that every slot of an entry in the new
tree holds what the last matching info up to the current position asks for (`HookedUpTo`), and that an
entry kept from the old tree was hooked with all the infos; infos cannot change in mid-walk, which is
`XhCore`'s `NoInsertAfterRefresh` one layer up.

### One hook call: XhElfProofs

From `ElfAssumption`, `TableAssumption` (tables are sequences of relocations, whose slots are
slots) and, for the last two, `LinkerAssumption`: no slot belongs to two symbols, a symbol has one
slot in `.rel(a).plt`, and what lies beyond a table does not read like a relocation to the contrary.

| theorem | property |
|---|---|
| `ElfTyping` | `XhElf!TypeOK` |
| `PagesRestored` | `ProtectionRestored` |
| `OldFunction` | `OldIsOriginal` |
| `AllHooked` | `HookComplete` |

`ProtectionInv` adds to `ProtectionRestored` what holds in mid-call: only the page in hand may
differ from how the call found it, `oldProt` knows how that was, and where it was RW
already nothing was changed. `OldInv` says where functions are: a slot holds its first value or the
function of a hook of its symbol (`MemoryInv`, where `LinkerAssumption` enters), the iterator returns entries of
its table (`FromTable`), and in mid-replacement the slot is one of the symbol and does not hold the
function yet (`ReplaceInv`); so what is saved was never a replacement. `CompleteInv` says what is
done: the tables before the current one, and in that one every entry hooked or still to be returned;
the call leaves `.rel(a).plt` at its first match, which stands for all since the symbol
has one slot there. All three were model-checked before they were proved.

### What is read before a word is written: XhDataProofs

From `LibraryAssumption` (addresses and sizes in a library are numbers, and `DT_PLTREL` is there at most
once), `ProtectAssumption` (a line of the maps file is whole pages, and the lines are in the order of
their addresses) and `HashAssumption` (a library has one symbol table, whose index 0 has no name, and at
most one hash table of each kind, which is over those symbols and leads to each of them as a linker
writes it: `InElfHash`, `InGnuHash`, or is the empty table of GNU ld; hash values are numbers) and `PackedAssumption` (a packed table is what a packer writes,
`WellPacked`, or, if it is cut, the beginning of it; its numbers fit their bytes, and no number has more
bytes than the word has room for).

| theorem | property |
|---|---|
| `TablesLinked` | `TablesAsLinked` |
| `WordsProtected` | `WordProtected` |
| `EverySymbolFound` | `SymbolsFound` |
| `RelocationsUnpacked` | `PackedExact` |

`ImageInv` says what is filled in in mid-walk: each table is where one of the entries passed so far says
(`Passed`), or NULL if there was none, and no entry passed was `DT_NULL` unless the loop is over
(`WalkInv`). `LookupInv` adds what the buckets, the chain and the bloom filter hold in mid-walk: those of
the last `DT_HASH` or `DT_GNU_HASH` entry passed (`HashInv`). When the walk is over these are over the symbol
table it found; then the chain reaches the index of a symbol of the name, and the first hit on it is of
that name (`ElfIndex`, `GnuIndex`); what is imported comes before the hashed symbols. No property of the hash
function is used, and the names on a chain may collide in any way. Of an empty `.gnu.hash` it is shown that it
answers nothing, which is right for all but the imports (`Unreached`).
`ProtectInv` says what the scan knows: every byte of the word it has accounted for (`Seen`)
lies in a private line of the library, the rights read are those all these bytes have, and no line passed
over could have accounted for the next byte (`ScanInv`); the pages are as before, or as the last mprotect
left them (`PageInv`). It rests on lemmas about pages (`WholePages`, `PageOrder`, `LineOfByte`): a byte is in
a line exactly when its page is.
`PackedInv` says what the iterator knows between two relocations: what it has returned is the beginning of the
list, it stands at the first number of the next relocation, its offset and addend are those of the relocation
before, and within a group it has the group's size, flags, delta and info (`Awaits`); or the table has ended
in its first two numbers, an error nobody looks at, and then nothing is returned (`Unread`). That a number is
read as it was written, modulo the word (`SlebReads`), is an induction over its chunks (`ChunksAdded`), on
lemmas about powers of two, quotients and remainders (`TwoSum`, `Divided`, `RemainderOfSum`), and the case of the
sign (`SignRight`).

### The older hooks: ElfHookProofs

From `ProcessesAssumption`: the lines of the maps file are of the process's libraries or of
something else, the first line that matches the name asked for is a library's (elfhook1, elfhook2), no two
slots share an address, and libraries are laid out as each of the hooks sees them (`Linked1`, `Linked2`,
`Linked3`): a table is as long as its size says, and each relocation of a type that is hooked is a slot
of the symbol it is against. For completeness also, in elfhook1 and elfhook3: each slot is in one of the tables
(`Relocated`) and is of a type that is hooked, a name is in the symbol table once (`Named`), and the hash
tables lead to it (`InElfHash`, `InGnuHash`). In elfhook3 a bloom filter has a power of two of words
(the code masks where it should divide), and a symbol has one slot in `.rel(a).plt` (`OnePlt`: the code ends
there); whatever has an ELF header is a loaded library, with its tables. No page is writable and executable
from the start.

| theorem | property |
|---|---|
| `TargetsFound` | `HookInv` |
| `HooksOnlyItsSlots` | `OnlyItsSlots` |
| `HooksSaveOriginal` | `OriginalSaved` |
| `NeverBoth` | `NeverWritableExecutable` |
| `AnswersTrue2` | `Complete2`, a part of `HookedWhenDone` |
| `EverySlotHooked` | `HookedWhenDone` |

`HookInv` has five parts. `MapsInv`: the maps file is a beginning of all the lines there will be.
`CallInv`: what a call still has to replace are slots of its symbol, in a library its caller allowed, and the
original is saved when it is about to write. `ReaderInv` and `ModulesInv`: the load bias kept by
elfhook2's reader and by elfhook3's modules is that of the library they were opened for. `MemoryInv`: the
properties themselves. For safety of the look-ups only this is used: an index they return is one of a symbol
of the name, whichever chain they followed to it.

`EverySlotHooked` needs the converse, that the look-ups find every name in the table (`Index1`, `Index3`, from
lemmas about chains), and two invariants about the words in between, where a slot is `Treated` when its word is
still to do or replaced: in a call of elfhook1 each slot of the symbol (`Treats1`), in one of elfhook3 that has
met no refusal each slot of a symbol and module the walk is past (`Treats3`). A call that returns has nothing to do
left, so that `Treated` is replaced.

### The method hooks: MethodHookProofs

From `ArtAssumption` (a HookInfo is made for one method), `DalvikAssumption` (a HookInfo has an
address other than NULL, a signature is finite) and `ProjectsAssumption` (the inputs of a project go to different
places and the jars have different paths, none of which is a `classes_temp.jar` itself; its classes were not
instrumented before; a file's name has no directories in it).

| theorem | property |
|---|---|
| `HookStays` | `ArtHookStays` |
| `CrashNamed` | `ArtCallsSafe`, a part of `CallsSafe` |
| `CallsReachOriginal` | `CallsSafe` |
| `SignaturesRead` | `SignatureRead` |
| `BuildsRight` | `BuildRight` |

`ArtInv` has two parts. `OwnInv` holds whatever overlaps: the HookInfo found in a method, in
another HookInfo or in the frame of a call was made for that method. `MethodInv` is about one method
whose hooks and calls have kept apart: there is at most one of them, and where it stands tells what
is in the method (`Progress`); or there is none, and the method is hooked or never was. The
proof takes each step from the method it acts on (`MethodGoesOn`, `MethodTaken`,
`MethodFree`) and from the others (`OtherMethod`). `DvmInv` does the same for the one method of
`DalvikHook`: where hooks have not overlapped, at most one thread is hooking, the words written so far are
those its position says (`Halfway`), and otherwise the method is as it was or hooked by one
HookInfo, whose copy is the method from before. `TypesInv` holds whatever overlaps: the HookInfo the handler
would find has the types computed from the signature; that `dvmInvokeMethod` accepts them for every signature
without the two kinds of arrays (`PlainAccepted`) is the reading of the loop once more, and so is that a
descriptor too long for the buffer has 127 characters or more (`LongName`).

`SigInv` says when what the hook computes is there: the parameter types from the first copy on, sizes and
hints from `SetFlags` on. That they are right for every signature is shown of `After`, parameter by parameter
(`UpTo`: what holds at the start and goes on holding holds to the end, by its least counterexample). The
hints are the hard part: `PlacedUpTo` says of the words behind the first k parameters that those not flagged
as padding are the argument words, so that a parameter is known by the number of words not flagged before
it (`Free`), however many flags come after.

`AsmInv` is about any number of builds, each killed anywhere. `DiskInv`: a project's own jar is as it
was, and what else is on the disk is a `classes_temp.jar` beside one. `TodoInv`: what is still to do lies
where a jar of the project does. `BuildInv` is about the inputs of the project, among which left files may
stand anywhere: those handled are put out, each at its place, a jar of the project being copied has its first
entries in the temporary file (`Copied`), and what lies beside the jars is in the directory of a jar still to
do, which deletes it first. A body is
instrumented once: log calls before each return and at the start, and the other instructions as they were
(`EmittedRight`, `LoggedRight`).

### Between processes: ProcessProofs

| theorem | property | assumes |
|---|---|---|
| `TraceeUnharmed` | `TraceeKept`, `ReportTrue` | PtraceAssumption, MemoryAssumption |
| `TransfersAreExact` | `TransfersExact` | Inject3Assumption |
| `ProcessesFound` | `PidFound` | PidAssumption |
| `InjectorsSound` | `InjectionSound`: `TraceeKept`, `ReportTrue`, `PidFound` | the first two and PidAssumption |
| `SegmentsSound` | `SharedMemorySound`: `AttachTableTrue`, `PrintsAll` | ShmTableAssumption, ShmHandshakeAssumption |

The assumptions say that words have a size, that the numbers of processes and of attachments are
finite, and that the bytes other threads use lie above the stack pointer or apart from the page that
mmap returns. `PtraceInv` is about the injector: what it saved are the registers of the tracee, and
where it stands tells which function the registers call (`StageInv`); the words it still writes end below
the stack pointer, or are in the new page, so that the whole last word misses what threads keep
(`JobInv`, `KeptInv`); a function that has come back has done what r0 says, and a stop at pc 0 that is no return
was a fault of a function other than mmap (`RemoteInv`); a SIGSTOP still
pending keeps the report from being a success (`OutcomeInv`). `TransferInv` follows the two paces of the loops
of `ptracehook3`, beside threads that write any byte which is none of the transfer's: the word read for the last
POKE differs from the memory in the bytes written since, and only there (`lost`); where a call stands tells
whether its function can have returned. `PidInv` says that no entry seen so far was a living process of the name asked for;
`ptracehook3` may lose its place when one ends. `TableInv` counts the attachments, so that moving the last
entry into the gap loses none; `ShmInv` gives each letter its place, with zeros for those not written yet and perhaps a
mark on the first: a later server writes the same letters over them, so that what was complete stays so, and a client
that started on complete letters has read those before its position.

### Only model-checked

- The liveness properties `EveryCallReturns`, `RequestServed` and `ServerEnds`: liveness under fairness is
  beyond the proof system.
- The red-black tree of `XhTree` (`TreeSound`, `WalkVisitsAll`). The loops of `tree.h` go up and
  down the tree and are recursive operators here, which no module with a theorem may reach; that they leave a
  red-black tree is an induction over trees of any height, not carried out (section 6 says what it would take).

Every other invariant and action property of a run is a theorem.

## 5. Not modelled

The components with status `not_modelled` or `partly` in `PROJECT.json`, with reasons. In short:

- the wrappers, logging, version and UI have no state a property could be about;
- of the vendored headers, the splay tree (unused) and `queue.h` (a linked list, for
  which the models have sequences);
- the SIGSEGV handler as an object shared by threads: a jump into another thread's stack
  is undefined, and no line says what other threads may count on;
- in elfhook1-3, dumps and the section views, which nothing calls;
- in ptracehook, `PtraceAttach` and the `main` of `Inject.c`, which calls none of the functions modelled, `IsExecAddr` and `GetModuleBaseAddr`, whose results are undefined when `sscanf` fails,
  `ChangePageAttr` and `traceRead`, which nothing calls, and the inline hook, which is commented out;
- the shared memory examples that run once from start to end without waiting, and two servers of one segment at once.

Within the modelled parts: `enable_debug`, memory exhaustion in ways other than the
ones named above, and the data race on the queue links themselves (`xh_core.c:360`).

## 6. Plan

Every component with state of its own has its module, and every invariant and action property of its runs
is proved except the two of the tree named in "Only model-checked". What could still be said:

- The tree, with recursive functions in the place of the operators and an induction by least counterexample
  as for signatures and packed numbers. It needs the nodes below a node and the black height as functions of
  the node, and a lemma for each of the ways a removal relinks them.
- Four hazards without a property: overlapping clears reset shared state that another caller has set (`xh_core.c:596`),
  a fault jumps into another thread's buffer (`xh_core.c:95`), functions registered in two orders tie two
  `old_func` into a circle (`xh_elf.c:475`), and one loop looks at a relocation many
  times and at the others never (`elf_reader.cpp:327`). `SerialClear`, the condition in
  `ChainReachesOriginal` and `Complete2` are where they enter.

## 7. Running

    tlc -config XhCore.cfg MCXhCore.tla      (and the other .cfg files)
    tlapm XhCoreProofs.tla
    tlapm HookServiceProofs.tla
    tlapm XhRefreshProofs.tla
    tlapm XhElfProofs.tla
    tlapm XhDataProofs.tla
    tlapm ElfHookProofs.tla
    tlapm MethodHookProofs.tla
    tlapm ProcessProofs.tla

No run takes more than a few minutes. A proof module takes a minute or two, `XhDataProofs` about six.
