------------------------------- MODULE IpcProofs -------------------------------
(***************************************************************************)
(* Proofs about IpcServer, for any number of clients and descriptors: the   *)
(* invariant ClientInv, and that Stop is complete.                          *)
(***************************************************************************)
EXTENDS IpcServer, TLAPS

Alive(n) == pc[n] \in {"read", "close", "erase"}

\* Stop's progress: the accept thread is dead before the threads are taken over,
\* and none is stored afterwards.
Phases ==
  /\ (accepted # None) <=> (accepting = "store")
  /\ stop \in {"swap", "join", "done"} => accepting = "dead"
  /\ stop \in {"join", "done"} => \A f \in Fds : threads[f] = None
  /\ stop = "done" => \A f \in Fds : joining[f] = None

\* What a client's thread has been through.
Histories ==
  /\ \A n \in Clients : pc[n] = "none" => n \notin hungUp \cup down
  /\ \A n \in Clients : pc[n] # "none" => fdOf[n] \in Fds
  /\ \A f \in Fds : threads[f] # None => pc[threads[f]] # "none"
  /\ accepted # None => /\ pc[accepted] # "none"
                        /\ \A f \in Fds : threads[f] # accepted

\* A client's descriptor is open while its thread has not closed it.
Descriptors ==
  \A f \in Fds : fdt[f] \in Clients =>
    fdOf[fdt[f]] = f /\ pc[fdt[f]] \in {"read", "close"}

\* Every thread that still runs is known to the accept thread or to Stop.
AllKept == \A n \in Clients : Alive(n) => n = accepted \/ Kept(n)

\* What holds as long as nothing has raced.
Orderly ==
  /\ ~terminated
  /\ accepted # None => /\ pc[accepted] = "read"
                        /\ accepted \notin hungUp \cup down
  /\ \A f \in Fds : threads[f] # None => /\ fdOf[threads[f]] = f
                                         /\ Alive(threads[f])
  /\ \A n \in Clients : /\ pc[n] \in {"read", "close"} => fdt[fdOf[n]] = n
                        /\ pc[n] = "erase" => fdt[fdOf[n]] = "free"

\* The inductive invariant.
IInv == /\ TypeOK
        /\ Up => Phases /\ Histories /\ Descriptors /\ AllKept
        /\ raced \/ Orderly
-----------------------------------------------------------------------------
LEMMA InitIInv == Init => IInv
  BY IpcAssumption DEF Init, IInv, TypeOK, Up, Phases, Histories, Descriptors,
     AllKept, Alive, Orderly

USE DEF IInv, Up, TypeOK

LEMMA AcceptIInv ==
  ASSUME IInv, NEW n \in Clients, NEW f \in Fds, Accept(n, f)
  PROVE  IInv'
<1> USE DEF Accept, Open, stopVars, Alive
<1>1. TypeOK'
  BY IpcAssumption
<1>2. Phases'
  BY IpcAssumption DEF Phases
<1>3. Histories'
  BY IpcAssumption DEF Phases, Histories
<1>4. Descriptors'
  BY IpcAssumption DEF Descriptors
<1>5. AllKept'
  BY IpcAssumption DEF AllKept, Kept, Phases
<1>6. (raced \/ Orderly)'
  <2> SUFFICES ASSUME ~raced' PROVE Orderly'
    OBVIOUS
  <2>1. ~raced /\ Orderly /\ \A m \in Clients : pc[m] # "erase"
    BY DEF Orderly
  <2>2. QED
    BY <2>1, IpcAssumption DEF Orderly, Histories
<1> QED
  BY <1>1, <1>2, <1>3, <1>4, <1>5, <1>6

LEMMA StoreIInv ==
  ASSUME IInv, Store
  PROVE  IInv'
<1> USE DEF Store, Stored, kernVars, clientVars, stopVars, Alive
<1>1. accepted \in Clients /\ fdOf[accepted] \in Fds
  BY IpcAssumption DEF Phases, Histories
<1>2. TypeOK'
  BY <1>1, IpcAssumption
<1>3. Phases' \/ terminated'
  BY <1>1, IpcAssumption DEF Phases
<1>4. Histories'
  BY <1>1, IpcAssumption DEF Histories
<1>5. Descriptors'
  BY DEF Descriptors
<1>6. AllKept' \/ terminated'
  BY <1>1, IpcAssumption DEF AllKept, Kept, Histories
<1>7. (raced \/ Orderly)'
  <2> SUFFICES ASSUME ~raced, Orderly PROVE Orderly'
    OBVIOUS
  <2>1. threads[fdOf[accepted]] = None
    BY <1>1, IpcAssumption DEF Orderly, Histories, Phases
  <2>2. QED
    BY <1>1, <2>1, IpcAssumption DEF Orderly, Histories, Phases
<1> QED
  BY <1>2, <1>3, <1>4, <1>5, <1>6, <1>7

\* A reading client that leaves is stored, or it has raced.
LEMMA LeavesOrderly ==
  ASSUME IInv, NEW n \in Clients, Leaves(n), ~raced'
  PROVE  /\ Orderly /\ n # accepted
         /\ Kept(n)
<1>1. ~raced /\ Kept(n) /\ fdOf[n] \in Fds
  BY DEF Leaves, Histories
<1>2. joining[fdOf[n]] # None \/ threads[fdOf[n]] = n
  BY <1>1, IpcAssumption DEF Kept
<1>3. n # accepted
  BY <1>1, <1>2, IpcAssumption DEF Histories, Phases, Leaves
<1> QED
  BY <1>1, <1>3

LEMMA ClientIInv ==
  ASSUME IInv, NEW n \in Clients, HangsUp(n) \/ ReadLast(n) \/ ReadEnds(n)
  PROVE  IInv'
<1> USE DEF HangsUp, ReadLast, ReadEnds, Leaves, Step, kernVars, acceptVars,
        clientVars, stopVars, flagVars, Alive
<1>1. TypeOK'
  OBVIOUS
<1>2. Phases'
  BY DEF Phases
<1>3. Histories'
  BY IpcAssumption DEF Histories
<1>4. Descriptors'
  BY IpcAssumption DEF Descriptors
<1>5. AllKept'
  BY DEF AllKept, Kept
<1>6. (raced \/ Orderly)'
  <2> SUFFICES ASSUME ~raced' PROVE Orderly'
    OBVIOUS
  <2>1. CASE HangsUp(n)
    <3>1. Orderly /\ n # accepted
      BY <2>1, LeavesOrderly
    <3> QED
      BY <2>1, <3>1 DEF Orderly
  <2>2. CASE ReadLast(n)
    <3>1. Orderly /\ n # accepted
      BY <2>2, LeavesOrderly
    <3> QED
      BY <2>2, <3>1, IpcAssumption DEF Orderly, Histories
  <2>3. CASE ReadEnds(n)
    <3>1. Orderly /\ n # accepted
      BY <2>3, IpcAssumption DEF Orderly
    <3> QED
      BY <2>3, <3>1, IpcAssumption DEF Orderly, Histories
  <2> QED
    BY <2>1, <2>2, <2>3
<1> QED
  BY <1>1, <1>2, <1>3, <1>4, <1>5, <1>6

LEMMA ClientClosesIInv ==
  ASSUME IInv, NEW n \in Clients, ClientCloses(n)
  PROVE  IInv'
<1> USE DEF ClientCloses, CloseClient, Close, Step, acceptVars, stopVars, flagVars,
        Alive
<1>1. fdOf[n] \in Fds
  BY DEF Histories
<1>2. TypeOK'
  BY <1>1
<1>3. Phases' /\ Histories'
  BY <1>1, IpcAssumption DEF Phases, Histories
<1>4. Descriptors'
  BY <1>1, IpcAssumption DEF Descriptors
<1>5. AllKept'
  BY DEF AllKept, Kept
<1>6. (raced \/ Orderly)'
  BY <1>1, IpcAssumption DEF Orderly, Histories
<1> QED
  BY <1>2, <1>3, <1>4, <1>5, <1>6

LEMMA EraseIInv ==
  ASSUME IInv, NEW n \in Clients, Erase(n)
  PROVE  IInv'
<1> USE DEF Erase, Erased, Detached, Step, kernVars, acceptVars, stopVars, Alive
<1>1. fdOf[n] \in Fds
  BY DEF Histories
<1>2. TypeOK'
  BY <1>1
<1>3. Phases' /\ Histories'
  BY <1>1, IpcAssumption DEF Phases, Histories
<1>4. Descriptors'
  BY <1>1, IpcAssumption DEF Descriptors
<1>5. AllKept' \/ terminated'
  BY <1>1, IpcAssumption DEF AllKept, Kept, Histories
<1>6. (raced \/ Orderly)'
  <2> SUFFICES ASSUME ~raced, Orderly PROVE Orderly'
    OBVIOUS
  <2>1. n # accepted
    BY IpcAssumption DEF Orderly
  <2>2. threads[fdOf[n]] \in {None, n}
    <3>1. threads[fdOf[n]] # None => threads[fdOf[n]] = n
      <4>1. joining[fdOf[n]] = n => threads[fdOf[n]] = None
        BY <1>1, IpcAssumption DEF Phases
      <4> QED
        BY <2>1, <4>1 DEF AllKept, Kept
    <3> QED
      BY <3>1
  <2> QED
    BY <1>1, <2>1, <2>2, IpcAssumption DEF Orderly, Histories
<1> QED
  BY <1>2, <1>3, <1>4, <1>5, <1>6

LEMMA StopIInv ==
  ASSUME IInv, Loops \/ AcceptFails \/ StopBegins \/ StopShutsSocket \/ StopJoinsAccept
               \/ StopSwaps \/ StopEnds
  PROVE  IInv'
<1> USE DEF StopStep, kernVars, acceptVars, clientVars, stopVars, flagVars, Alive
<1>1. CASE Loops \/ AcceptFails
  <2>1. /\ UNCHANGED <<kernVars, threads, accepted, clientVars, stopVars, flagVars>>
        /\ accepting \in {"loop", "accept"} /\ accepting' \in {"loop", "accept", "dead"}
        /\ ~terminated
    BY <1>1 DEF Loops, AcceptFails
  <2>2. Phases /\ Histories /\ Descriptors /\ AllKept /\ (raced \/ Orderly)
    BY <2>1
  <2>3. TypeOK'
    BY <2>1
  <2>4. Phases'
    BY <2>1, <2>2, IpcAssumption DEF Phases
  <2>5. Histories' /\ Descriptors' /\ AllKept'
    BY <2>1, <2>2 DEF Histories, Descriptors, AllKept, Kept
  <2>6. (raced \/ Orderly)'
    BY <2>1, <2>2 DEF Orderly
  <2> QED
    BY <2>3, <2>4, <2>5, <2>6
<1>2. CASE StopBegins \/ StopShutsSocket
  <2>1. CASE StopBegins
    BY <2>1, IpcAssumption
       DEF StopBegins, Phases, Histories, Descriptors, AllKept, Kept, Orderly
  <2>2. CASE StopShutsSocket
    BY <2>2, IpcAssumption
       DEF StopShutsSocket, Phases, Histories, Descriptors, AllKept, Kept, Orderly
  <2> QED
    BY <1>2, <2>1, <2>2
<1>3. CASE StopJoinsAccept
  BY <1>3, IpcAssumption
     DEF StopJoinsAccept, Phases, Histories, Descriptors, AllKept, Kept, Orderly
<1>4. CASE StopSwaps
  <2> USE <1>4 DEF StopSwaps, ShutDown
  <2>1. accepted = None
    BY DEF Phases
  <2>2. TypeOK' /\ Phases' /\ Descriptors'
    BY IpcAssumption DEF Phases, Descriptors
  <2>3. Histories'
    BY <2>1, IpcAssumption DEF Histories, Descriptors
  <2>4. AllKept'
    BY <2>1, IpcAssumption DEF AllKept, Kept, Histories
  <2>5. (raced \/ Orderly)'
    BY <2>1, IpcAssumption DEF Orderly
  <2> QED
    BY <2>2, <2>3, <2>4, <2>5
<1>5. CASE StopEnds
  BY <1>5, IpcAssumption
     DEF StopEnds, AllJoined, Phases, Histories, Descriptors, AllKept, Kept, Orderly
<1> QED
  BY <1>1, <1>2, <1>3, <1>4, <1>5

LEMMA StopJoinsIInv ==
  ASSUME IInv, NEW f \in Fds, StopJoins(f)
  PROVE  IInv'
<1> USE DEF StopJoins, Close, acceptVars, clientVars, flagVars, Alive
<1>1. accepted = None /\ \A g \in Fds : threads[g] = None
  BY DEF Phases
<1>2. TypeOK' /\ Phases' /\ Histories'
  BY <1>1, IpcAssumption DEF Phases, Histories
<1>3. Descriptors'
  BY IpcAssumption DEF Descriptors
<1>4. AllKept'
  BY <1>1, IpcAssumption DEF AllKept, Kept, Histories
<1>5. (raced \/ Orderly)'
  <2>1. ASSUME NEW n \in Clients, Alive(n) PROVE fdOf[n] # f
    BY <1>1, <2>1, IpcAssumption DEF AllKept, Kept, Histories
  <2> QED
    BY <1>1, <2>1, IpcAssumption DEF Orderly, Histories
<1> QED
  BY <1>2, <1>3, <1>4, <1>5

LEMMA FileIInv ==
  ASSUME IInv, NEW f \in Fds, FileOpens(f) \/ FileCloses(f)
  PROVE  IInv'
<1> USE DEF FileOpens, FileCloses, Open, Close, acceptVars, clientVars, stopVars,
        flagVars, Alive
<1>1. TypeOK' /\ Phases' /\ Histories'
  BY IpcAssumption DEF Phases, Histories
<1>2. Descriptors'
  BY IpcAssumption DEF Descriptors
<1>3. AllKept'
  BY DEF AllKept, Kept
<1>4. (raced \/ Orderly)'
  BY IpcAssumption DEF Orderly, Histories
<1> QED
  BY <1>1, <1>2, <1>3, <1>4

LEMMA NextIInv == IInv /\ [Next]_vars => IInv'
<1> SUFFICES ASSUME IInv, [Next]_vars PROVE IInv'
  OBVIOUS
<1>1. CASE UNCHANGED vars
  BY <1>1 DEF vars, kernVars, acceptVars, clientVars, stopVars, flagVars, Phases,
     Histories, Descriptors, AllKept, Alive, Kept, Orderly
<1>2. CASE Next
  BY <1>2, AcceptIInv, StoreIInv, ClientIInv, ClientClosesIInv, EraseIInv, StopIInv,
     StopJoinsIInv, FileIInv DEF Next, Client, Stop
<1> QED
  BY <1>1, <1>2

THEOREM Invariant == Spec => []IInv
  BY InitIInv, NextIInv, PTL DEF Spec
-----------------------------------------------------------------------------
\* The table of clients and the kernel's descriptors agree (ClientInv): in every
\* interleaving no client's thread is forgotten, and while no client leaves before
\* it is stored and no descriptor is reused too early, none is dropped while it
\* runs, no dead entry is left, and Write reaches nobody but clients.
THEOREM ClientsAccounted == Spec => []ClientInv
<1>1. IInv => ClientInv
  <2> SUFFICES ASSUME IInv PROVE ClientInv
    OBVIOUS
  <2>1. ClientsStored
    BY DEF ClientsStored, AllKept, Alive
  <2>2. NoTerminate /\ EntriesAlive
    BY DEF NoTerminate, EntriesAlive, NoDeadEntry, Orderly, Alive
  <2>3. WritesToClients
    <3> SUFFICES ASSUME ~raced, NEW f \in Fds, threads[f] # None
                 PROVE  fdt[f] \in {threads[f], "free"}
      BY DEF WritesToClients
    <3> QED
      BY IpcAssumption DEF Orderly, Alive
  <2> QED
    BY <2>1, <2>2, <2>3 DEF ClientInv
<1> QED
  BY <1>1, Invariant, PTL

\* Stop leaves nothing behind (StopIsComplete), in any interleaving: when it
\* returns no thread runs, none is stored, and no client's descriptor is open.
THEOREM StopCompletes == Spec => []StopIsComplete
<1>1. IInv => StopIsComplete
  BY IpcAssumption DEF StopIsComplete, Phases, AllKept, Alive, Kept, Histories,
     Descriptors
<1> QED
  BY <1>1, Invariant, PTL
===============================================================================
