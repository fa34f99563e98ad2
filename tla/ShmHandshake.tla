---------------------------- MODULE ShmHandshake ----------------------------
(***************************************************************************)
(* shm/shm-server.c and shm/shm-client.c: the server writes the letters    *)
(* into a segment, one byte at a time, and waits for its first byte to be  *)
(* '*'; a client reads up to the terminating 0 and then writes the '*'.    *)
(* Nothing but that byte orders them, and the segment outlives them.  One  *)
(* server runs at a time and clients overlap; each of them may be killed   *)
(* at any moment and be started again.  Letters is SHMSZ - 1; MaxRuns      *)
(* bounds the runs of the server and MaxClients those of the clients.      *)
(***************************************************************************)
EXTENDS Integers, Sequences

CONSTANTS Letters, MaxRuns, Clients, MaxClients

ASSUME ShmHandshakeAssumption == {Letters, MaxRuns, MaxClients} \subseteq Nat \ {0}

VARIABLES shm,     \* the segment's bytes: 0, Star, or the index of a letter
          exists,  \* whether shmget has created it
          server,  \* "off", "writing", "waiting", or "ended" after a '*'
          s,       \* the server's write position
          runs,    \* runs of the server
          client,  \* each client: what it does, its read position, what it has printed,
                   \* and whether all the letters were there when it started
          clients, \* runs of clients
          late,    \* the clients that started while this run of the server waited
          read     \* whether a client has read all the letters since this run started

shmVars == <<shm, exists, server, s, runs, client, clients, late, read>>

Star == -1
Nul == 0

Gone == [at |-> "off", r |-> 0, printed |-> <<>>, whole |-> FALSE]
Complete == \A i \in 0 .. (Letters - 1) : shm[i] # Nul

ShmInit ==
  /\ shm = [i \in 0 .. Letters |-> Nul] /\ exists = FALSE
  /\ server = "off" /\ s = 0 /\ runs = 0
  /\ client = [c \in Clients |-> Gone] /\ clients = 0 /\ late = {} /\ read = FALSE

\* shmget with IPC_CREAT: a new segment is zero, an old one as it was left.
StartServer ==
  /\ server \in {"off", "ended"} /\ runs < MaxRuns
  /\ server' = "writing" /\ s' = 0 /\ runs' = runs + 1 /\ exists' = TRUE
  /\ late' = {} /\ read' = FALSE
  /\ UNCHANGED <<shm, client, clients>>

WriteLetter ==
  /\ server = "writing"
  /\ IF s < Letters THEN shm' = [shm EXCEPT ![s] = s + 1] /\ s' = s + 1 /\ UNCHANGED server
                    ELSE shm' = [shm EXCEPT ![s] = Nul] /\ server' = "waiting" /\ UNCHANGED s
  /\ UNCHANGED <<exists, runs, client, clients, late, read>>

\* Mutant: the server polls the byte after the letters, where s was left.
SeeStarAtEnd ==
  /\ server = "waiting" /\ shm[s] = Star
  /\ server' = "ended"
  /\ UNCHANGED <<shm, exists, s, runs, client, clients, late, read>>

\* The polling loop ends.
SeeStar ==
  /\ server = "waiting" /\ shm[0] = Star
  /\ server' = "ended"
  /\ UNCHANGED <<shm, exists, s, runs, client, clients, late, read>>

KillServer ==
  /\ server \in {"writing", "waiting"} /\ server' = "off"
  /\ UNCHANGED <<shm, exists, s, runs, client, clients, late, read>>

\* shmget without IPC_CREAT fails, and the client exits, when there is no segment.
StartClient(c) ==
  /\ client[c].at = "off" /\ clients < MaxClients
  /\ clients' = clients + 1
  /\ IF exists
     THEN /\ client' = [client EXCEPT ![c] = [at |-> "reading", r |-> 0, printed |-> <<>>, whole |-> Complete]]
          /\ late' = IF server = "waiting" THEN late \cup {c} ELSE late \ {c}
     ELSE UNCHANGED <<client, late>>
  /\ UNCHANGED <<shm, exists, server, s, runs, read>>

Putchar(c) ==
  /\ client[c].at = "reading"
  /\ LET letter == shm[client[c].r] IN
     IF letter # Nul
     THEN /\ client' = [client EXCEPT ![c].printed = Append(@, letter), ![c].r = @ + 1]
          /\ UNCHANGED read
     ELSE /\ client' = [client EXCEPT ![c].at = "marking"]
          /\ read' = (read \/ client[c].r = Letters)
  /\ UNCHANGED <<shm, exists, server, s, runs, clients, late>>

Mark(c) ==
  /\ client[c].at = "marking"
  /\ shm' = [shm EXCEPT ![0] = Star] /\ client' = [client EXCEPT ![c] = Gone]
  /\ UNCHANGED <<exists, server, s, runs, clients, late, read>>

KillClient(c) ==
  /\ client[c].at # "off" /\ client' = [client EXCEPT ![c] = Gone] /\ late' = late \ {c}
  /\ UNCHANGED <<shm, exists, server, s, runs, clients, read>>

ShmNext ==
  \/ StartServer \/ WriteLetter \/ SeeStar \/ KillServer
  \/ \E c \in Clients : StartClient(c) \/ Putchar(c) \/ Mark(c) \/ KillClient(c)

\* The scheduler runs each process that can go on.  Starting and killing are
\* nobody's duty.
ShmFairness == /\ WF_shmVars(WriteLetter) /\ WF_shmVars(SeeStar)
               /\ \A c \in Clients : WF_shmVars(Putchar(c)) /\ WF_shmVars(Mark(c))

-----------------------------------------------------------------------------
\* A client that starts while the server waits ends the wait, unless either is
\* killed; the mark of one that starts earlier may be overwritten
\* (shm-server.c:45-56, shm-client.c:43-52).
ServerEnds == \A c \in Clients : c \in late ~> server # "waiting" \/ c \notin late

\* The reads of a client stay inside the segment, and one that started when all the
\* letters were there prints all of them, whatever other clients and later servers,
\* killed or not, write meanwhile; the first may already be a mark.
PrintsAll ==
  \A c \in Clients :
    /\ client[c].r <= Letters
    /\ client[c].whole /\ client[c].at = "marking" =>
         /\ Len(client[c].printed) = Letters
         /\ \A i \in 2 .. Letters : client[c].printed[i] = i

\* The '*' "indicat[es] that it has read what we put there" (shm-server.c:49-54): when
\* the server ends, a client has read all the letters.  One that starts before the
\* letters are complete writes the '*' after fewer.
StarMeansRead == server = "ended" => read
=============================================================================
