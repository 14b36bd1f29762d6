------------------------------- MODULE IpcServer -------------------------------
(***************************************************************************)
(* UnixSocketServer (src/src/ipc/unix_socket_server.cpp): the accept        *)
(* thread, one thread per client, Write from the data channels, and Stop.   *)
(*                                                                          *)
(* fdt is the kernel's descriptor table.  A descriptor that has been closed *)
(* is given to whoever opens one next: the next client, or another part of  *)
(* the process ("file").  A client is identified with its thread.           *)
(*                                                                          *)
(* Granularity.  A block under mutex_ is one step, and so is each system    *)
(* call on a descriptor.                                                    *)
(***************************************************************************)
EXTENDS Naturals

CONSTANTS
  Fds,      \* descriptors
  Clients,  \* clients that may connect, each once: the bound of the model
  None,     \* no client, no descriptor
  Files     \* other parts of the process open and close descriptors too

ASSUME IpcAssumption ==
  /\ None \notin Clients \cup Fds
  /\ Clients \cap {"free", "file"} = {}
  /\ Files \in BOOLEAN

VARIABLES
  running,   \* running_
  fdt,       \* per descriptor: "free", "file", or the client connected to it
  threads,   \* client_threads_: per descriptor, a client's thread or None
  accepting, \* the accept thread: "loop", "accept", "store" or "dead"
  accepted,  \* the client whose thread it has just started
  pc,        \* the client threads
  fdOf,      \* client_fd
  hungUp,    \* clients that have closed their end
  down,      \* clients whose connection shutdown() has closed
  stop,      \* Stop: "no", "shut", "accept", "swap", "join", "done"
  joining,   \* local_clients: per descriptor, a client's thread or None
  terminated, \* std::terminate: a joinable std::thread was destroyed
  raced      \* history: a client left before the accept thread had stored its
             \* thread, or a descriptor was handed out between the close() of a
             \* client's thread and the erase of its entry

kernVars == <<fdt, hungUp, down>>
acceptVars == <<accepting, accepted>>
clientVars == <<pc, fdOf>>
stopVars == <<running, stop, joining>>
flagVars == <<terminated, raced>>
vars == <<kernVars, threads, acceptVars, clientVars, stopVars, flagVars>>

Up == ~terminated
Step(n, label) == pc' = [pc EXCEPT ![n] = label] /\ UNCHANGED fdOf

\* close(f): whoever has the descriptor loses it.
Close(f) == fdt' = [fdt EXCEPT ![f] = "free"]

\* open(), accept(): a descriptor is handed out.
Open(f, to) ==
  /\ fdt[f] = "free"
  /\ fdt' = [fdt EXCEPT ![f] = to]
  /\ raced' = (raced \/ \E n \in Clients : pc[n] = "erase")
-----------------------------------------------------------------------------
(***************************************************************************)
(* AcceptLoop.                                                              *)
(***************************************************************************)
\* while (running_)
Loops ==
  /\ Up /\ accepting = "loop"
  /\ accepting' = IF running THEN "accept" ELSE "dead"
  /\ UNCHANGED <<kernVars, threads, accepted, clientVars, stopVars, flagVars>>

Listening == stop \in {"no", "shut"}

\* A client connects: its thread starts at once.
Accept(n, f) ==
  /\ Up /\ accepting = "accept" /\ Listening /\ pc[n] = "none"
  /\ Open(f, n)
  /\ fdOf' = [fdOf EXCEPT ![n] = f]
  /\ pc' = [pc EXCEPT ![n] = "read"]
  /\ accepted' = n
  /\ accepting' = "store"
  /\ UNCHANGED <<hungUp, down, threads, stopVars, terminated>>

\* mutant: the thread is not stored
MutStored(f, n) == threads

\* client_threads_[client_fd] = std::move(t)
Stored(f, n) == [threads EXCEPT ![f] = n]

\* Assigning over a thread that was neither joined nor detached terminates the
\* process.
Store ==
  /\ Up /\ accepting = "store"
  /\ threads' = Stored(fdOf[accepted], accepted)
  /\ terminated' = (threads[fdOf[accepted]] # None)
  /\ accepting' = "loop"
  /\ accepted' = None
  /\ UNCHANGED <<kernVars, clientVars, stopVars, raced>>

\* accept() fails once the socket is shut down.
AcceptFails ==
  /\ Up /\ accepting = "accept" /\ ~Listening
  /\ accepting' = "loop"
  /\ UNCHANGED <<kernVars, threads, accepted, clientVars, stopVars, flagVars>>
-----------------------------------------------------------------------------
(***************************************************************************)
(* HandleClient.  A message that is read goes to the callbacks and changes  *)
(* nothing here.                                                            *)
(***************************************************************************)
Kept(n) == threads[fdOf[n]] = n \/ joining[fdOf[n]] = n

\* A client's last message, or its hanging up.
Leaves(n) == Up /\ pc[n] = "read" /\ raced' = (raced \/ ~Kept(n))

HangsUp(n) ==
  /\ Leaves(n) /\ n \notin hungUp
  /\ hungUp' = hungUp \cup {n}
  /\ UNCHANGED <<fdt, down, threads, acceptVars, clientVars, stopVars, terminated>>

\* The loop ends after a message, or before the first, once running_ is false.
ReadLast(n) ==
  /\ Leaves(n) /\ ~running
  /\ Step(n, "close")
  /\ UNCHANGED <<kernVars, threads, acceptVars, stopVars, terminated>>

\* read() returns nothing more.
ReadEnds(n) ==
  /\ Up /\ pc[n] = "read" /\ n \in hungUp \cup down
  /\ Step(n, "close")
  /\ UNCHANGED <<kernVars, threads, acceptVars, stopVars, flagVars>>

\* mutant: the descriptor is left open
MutCloseClient(f) == UNCHANGED fdt

CloseClient(f) == Close(f)

ClientCloses(n) ==
  /\ Up /\ pc[n] = "close"
  /\ CloseClient(fdOf[n])
  /\ Step(n, "erase")
  /\ UNCHANGED <<hungUp, down, threads, acceptVars, stopVars, flagVars>>

\* The threads that can be erased: the client's own, which it detaches.
Detached(n) == {None, n}

Erased(f) == [threads EXCEPT ![f] = None]

\* The entry under this descriptor is erased, whosever it is.
Erase(n) ==
  /\ Up /\ pc[n] = "erase"
  /\ threads' = Erased(fdOf[n])
  /\ terminated' = (threads[fdOf[n]] \notin Detached(n))
  /\ Step(n, "exited")
  /\ UNCHANGED <<kernVars, acceptVars, stopVars, raced>>
-----------------------------------------------------------------------------
(***************************************************************************)
(* Stop, called by the destructor of the Conductor.                         *)
(***************************************************************************)
StopStep(from, to) ==
  /\ Up /\ stop = from
  /\ stop' = to
  /\ UNCHANGED <<fdt, hungUp, acceptVars, clientVars, flagVars>>

StopBegins ==
  /\ StopStep("no", "shut")
  /\ running' = FALSE
  /\ UNCHANGED <<down, threads, joining>>

\* The socket that the accept thread listens on.
StopShutsSocket ==
  /\ StopStep("shut", "accept")
  /\ UNCHANGED <<down, threads, joining, running>>

StopJoinsAccept ==
  /\ StopStep("accept", "swap")
  /\ accepting = "dead"
  /\ UNCHANGED <<down, threads, joining, running>>

\* mutant: the clients' connections are not shut down
MutShutDown == {}

\* Whoever has a stored descriptor.
ShutDown == {n \in Clients : \E f \in Fds : threads[f] # None /\ fdt[f] = n}

\* Every stored descriptor is shut down, and the threads are taken over.
StopSwaps ==
  /\ StopStep("swap", "join")
  /\ down' = down \cup ShutDown
  /\ joining' = threads
  /\ threads' = [f \in Fds |-> None]
  /\ UNCHANGED running

\* A thread is joined, and its descriptor closed once more.
StopJoins(f) ==
  /\ Up /\ stop = "join" /\ joining[f] # None
  /\ pc[joining[f]] = "exited"
  /\ Close(f)
  /\ joining' = [joining EXCEPT ![f] = None]
  /\ UNCHANGED <<hungUp, down, threads, acceptVars, clientVars, running, stop,
                 flagVars>>

AllJoined == \A f \in Fds : joining[f] = None

StopEnds ==
  /\ StopStep("join", "done")
  /\ AllJoined
  /\ UNCHANGED <<down, threads, joining, running>>
-----------------------------------------------------------------------------
\* The rest of the process opens and closes descriptors.
FileOpens(f) ==
  /\ Up /\ Files
  /\ Open(f, "file")
  /\ UNCHANGED <<hungUp, down, threads, acceptVars, clientVars, stopVars,
                 terminated>>

FileCloses(f) ==
  /\ Up /\ fdt[f] = "file"
  /\ Close(f)
  /\ UNCHANGED <<hungUp, down, threads, acceptVars, clientVars, stopVars, flagVars>>

Init ==
  /\ running = TRUE /\ stop = "no"
  /\ fdt = [f \in Fds |-> "free"]
  /\ threads = [f \in Fds |-> None] /\ joining = [f \in Fds |-> None]
  /\ accepting = "loop" /\ accepted = None
  /\ pc = [n \in Clients |-> "none"]
  /\ fdOf = [n \in Clients |-> None]
  /\ hungUp = {} /\ down = {}
  /\ terminated = FALSE /\ raced = FALSE

Client(n) == ReadEnds(n) \/ ClientCloses(n) \/ Erase(n)
Stop == \/ StopShutsSocket \/ StopJoinsAccept \/ StopSwaps
        \/ (\E f \in Fds : StopJoins(f)) \/ StopEnds

Next == \/ \E n \in Clients, f \in Fds : Accept(n, f)
        \/ Loops \/ Store \/ AcceptFails
        \/ \E n \in Clients : Client(n) \/ ReadLast(n) \/ HangsUp(n)
        \/ StopBegins \/ Stop
        \/ \E f \in Fds : FileOpens(f) \/ FileCloses(f)

Spec == Init /\ [][Next]_vars

\* The threads of the server run; a client may stay silent.
FairSpec == /\ Spec
            /\ WF_vars(Loops \/ Store \/ AcceptFails) /\ WF_vars(Stop)
            /\ \A n \in Clients : WF_vars(Client(n))
-----------------------------------------------------------------------------
\* Every variable keeps its type, and threads are being joined only while Stop
\* runs.
TypeOK ==
  /\ running \in BOOLEAN
  /\ fdt \in [Fds -> Clients \cup {"free", "file"}]
  /\ threads \in [Fds -> Clients \cup {None}]
  /\ joining \in [Fds -> Clients \cup {None}]
  /\ accepting \in {"loop", "accept", "store", "dead"}
  /\ accepted \in Clients \cup {None}
  /\ pc \in [Clients -> {"none", "read", "close", "erase", "exited"}]
  /\ fdOf \in [Clients -> Fds \cup {None}]
  /\ hungUp \subseteq Clients /\ down \subseteq Clients
  /\ stop \in {"no", "shut", "accept", "swap", "join", "done"}
  /\ {terminated, raced} \subseteq BOOLEAN
  /\ \A f \in Fds : joining[f] # None => stop = "join"

\* Clients coming and going, without such a race, never terminate the process:
\* no thread is dropped that was neither joined nor detached.
NoTerminate == raced \/ ~terminated

\* Write reaches "local IPC applications" only (parser.cpp:237): a stored
\* descriptor is its client's, or nobody's since the client has left.
WritesToClients ==
  raced \/ \A f \in Fds : threads[f] # None => fdt[f] \in {threads[f], "free"}

\* In every interleaving nothing of the server is left when Stop returns: no thread
\* that would still use it, no stored thread, and no descriptor of a client.
StopIsComplete ==
  Up /\ stop = "done"
  => /\ \A n \in Clients : pc[n] \in {"none", "exited"}
     /\ \A f \in Fds : threads[f] = None /\ fdt[f] \notin Clients

\* No client is forgotten, in any interleaving: while its thread reads, it is
\* stored, about to be, or being joined.
ClientsStored ==
  Up => \A n \in Clients : pc[n] = "read" => n = accepted \/ Kept(n)

\* A client that is gone leaves no entry behind ("already detached ones won't be
\* in here", unix_socket_server.cpp:95).
NoDeadEntry == Up => \A f \in Fds : threads[f] # None => pc[threads[f]] # "exited"

\* The same as long as no client leaves before it was stored.
EntriesAlive == raced \/ NoDeadEntry

\* The table of clients and the descriptors of the kernel agree: nothing is
\* forgotten, dead, reached in place of another, or dropped while it runs.
ClientInv ==
  TypeOK /\ NoTerminate /\ WritesToClients /\ ClientsStored /\ EntriesAlive

\* Stop always returns, whatever the clients do.
StopReturns == (stop # "no") ~> (stop = "done" \/ ~Up)
=============================================================================
