------------------------------ MODULE ShmTable ------------------------------
(***************************************************************************)
(* shm/shmop.c: an exerciser that keeps the segments it has attached in an *)
(* array of MaxNap entries, while shm/shmctl.c, another process, removes   *)
(* segments.  shmat, shmdt and shmctl are the kernel's: no two attachments *)
(* of a process overlap (the flags a user gives here never hold SHM_REMAP) *)
(* and a segment marked for removal lives on until its last detach.  An    *)
(* address is a model value; entries of the array past nap keep what they  *)
(* held last.                                                              *)
(***************************************************************************)
EXTENDS Integers, FiniteSets

CONSTANTS Segments, Addresses, NoAddress, MaxNap, Texts

ASSUME ShmTableAssumption == MaxNap \in Nat \ {0} /\ NoAddress \notin Addresses

VARIABLES ap,       \* the array: shmid, shmaddr and whether it is SHM_RDONLY
          nap,      \* how many entries count
          attached, \* the kernel's record of this process: address to segment and mode
          removed,  \* segments marked for removal
          content,  \* what each segment holds
          handler,  \* "default", or "catcher" while a write is tried
          writing   \* the address being written, or NoAddress

shmTableVars == <<ap, nap, attached, removed, content, handler, writing>>

Entry(id, addr, ro) == [shmid |-> id, shmaddr |-> addr, rdonly |-> ro]
NoEntry == Entry("none", NoAddress, FALSE)

ShmTableInit ==
  /\ ap = [i \in 0 .. MaxNap - 1 |-> NoEntry] /\ nap = 0
  /\ attached = {} /\ removed = {}
  /\ content = [s \in Segments |-> CHOOSE l \in Texts : TRUE]
  /\ handler = "default" /\ writing = NoAddress

Asked == writing = NoAddress

\* Case 1: the entry is taken before shmat is called and given back when it fails.
Shmat ==
  /\ Asked /\ nap # MaxNap
  /\ \E id \in Segments, addr \in Addresses, ro \in BOOLEAN :
       \/ /\ id \notin removed /\ addr \notin {e.shmaddr : e \in attached}
          /\ attached' = attached \cup {Entry(id, addr, ro)}
          /\ ap' = [ap EXCEPT ![nap] = Entry(id, addr, ro)]
          /\ nap' = nap + 1
       \/ /\ id \in removed \/ addr \in {e.shmaddr : e \in attached}
          /\ ap' = [ap EXCEPT ![nap] = Entry(id, NoAddress, ro)]
          /\ UNCHANGED <<nap, attached>>
  /\ UNCHANGED <<removed, content, handler, writing>>

\* Mutant: the array gets shorter, and nothing moves into the gap.
DropLast(addr) == [ap |-> ap, nap |-> nap - 1]

\* The loop of case 2: every entry with the address is overwritten by the last
\* one, over as many entries as there were before.
Drop(addr) ==
  LET Dropped[i \in 0 .. nap] ==
        IF i = 0 THEN [ap |-> ap, nap |-> nap]
        ELSE LET d == Dropped[i - 1]
             IN IF d.ap[i - 1].shmaddr # addr THEN d
                ELSE [ap |-> [d.ap EXCEPT ![i - 1] = d.ap[d.nap - 1]], nap |-> d.nap - 1]
  IN Dropped[nap]

\* Case 2: the array follows when shmdt says 0.
Shmdt ==
  /\ Asked
  /\ \E addr \in Addresses :
       \/ /\ \E e \in attached : e.shmaddr = addr
          /\ attached' = {e \in attached : e.shmaddr # addr}
          /\ ap' = Drop(addr).ap /\ nap' = Drop(addr).nap
       \/ /\ \A e \in attached : e.shmaddr # addr
          /\ UNCHANGED <<attached, ap, nap>>
  /\ UNCHANGED <<removed, content, handler, writing>>

GoodAddr(addr) == \E i \in 0 .. nap - 1 : ap[i].shmaddr = addr

\* Case 4: the handler is installed before the address is looked up.
BeginWrite ==
  /\ Asked /\ nap # 0
  /\ \E addr \in Addresses : writing' = addr
  /\ handler' = "catcher"
  /\ UNCHANGED <<ap, nap, attached, removed, content>>

\* The write itself, the fault of a read-only or unattached address, or neither
\* when good_addr says no; the handler is put back in each case.
Gets ==
  /\ writing # NoAddress
  /\ \/ /\ GoodAddr(writing)
        /\ \E e \in attached : /\ e.shmaddr = writing /\ ~e.rdonly
                               /\ \E l \in Texts : content' = [content EXCEPT ![e.shmid] = l]
     \/ /\ ~GoodAddr(writing) \/ \A e \in attached : e.shmaddr = writing => e.rdonly
        /\ UNCHANGED content
  /\ handler' = "default" /\ writing' = NoAddress
  /\ UNCHANGED <<ap, nap, attached, removed>>

\* shmctl IPC_RMID from the other process.
Shmctl ==
  /\ \E id \in Segments \ removed : removed' = removed \cup {id}
  /\ UNCHANGED <<ap, nap, attached, content, handler, writing>>

ShmTableNext == Shmat \/ Shmdt \/ BeginWrite \/ Gets \/ Shmctl

-----------------------------------------------------------------------------
\* Between two answers of the user the counted entries of the array are exactly
\* the attachments the kernel knows, each once, whatever was attached, detached
\* and moved before (shmop.c:69-104, 114-124).
AttachTableTrue ==
  /\ {ap[i] : i \in 0 .. nap - 1} = attached
  /\ nap = Cardinality(attached)
=============================================================================
