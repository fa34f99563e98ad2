------------------------- MODULE HookServiceProofs -------------------------
(* What follows from the promises of HookService alone.                    *)
EXTENDS HookService, TLAPS

\* While infos are collected nothing is remembered.
ServiceInv ==
  /\ EntriesUpToDate
  /\ phase = "collecting" => entries = {}

\* Whoever keeps the promises of the service never remembers a library that was
\* hooked with other rules than those in force (EntriesUpToDate).
THEOREM AlwaysUpToDate == SSpec => []EntriesUpToDate
<1> USE DEF ServiceInv, EntriesUpToDate
<1>1. SInit => ServiceInv
  BY DEF SInit
<1>2. ServiceInv /\ [SNext]_svars => ServiceInv'
  <2> SUFFICES ASSUME ServiceInv, [SNext]_svars PROVE ServiceInv'
    OBVIOUS
  <2>1. ASSUME NEW r \in Rules, Accept(r) PROVE ServiceInv'
    BY <2>1 DEF Accept
  <2>2. CASE Start \/ Close
    BY <2>2 DEF Start, Close
  <2>3. ASSUME NEW c \in Callers, Ask(c) PROVE ServiceInv'
    BY <2>3 DEF Ask
  <2>4. ASSUME NEW S \in SUBSET Callers, Serve(S) \/ Withdraw(S) PROVE ServiceInv'
    BY <2>4 DEF Serve, Withdraw
  <2>5. CASE Reset \/ UNCHANGED svars
    BY <2>5 DEF Reset, svars
  <2> QED
    BY <2>1, <2>2, <2>3, <2>4, <2>5 DEF SNext
<1>3. ServiceInv => EntriesUpToDate
  OBVIOUS
<1> QED
  BY <1>1, <1>2, <1>3, PTL DEF SSpec
=============================================================================
