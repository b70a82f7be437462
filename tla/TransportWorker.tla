--------------------------- MODULE TransportWorker ---------------------------
(***************************************************************************)
(* A transport shared by several clients, iothubtransport.c: the first call *)
(* of a client starts the worker thread, Destroy of the last client stops it. *)
(* The worker calls DoWork of the transport under lockHandle, which is also   *)
(* the LockHandle of every client, and then calls the callbacks of every      *)
(* client in turn while it holds clientsLockHandle.                           *)
(*                                                                         *)
(* What happens under lockHandle is one step.  clientsLockHandle is held over  *)
(* the callbacks, and workerThreadHandle is read and written without a lock.   *)
(* A callback that calls its client asks for a lock its own thread has: the    *)
(* worker stays there.                                                       *)
(***************************************************************************)
EXTENDS Naturals, Sequences, FiniteSets, SequencesExt

CONSTANTS
  Clients,        \* clients of the transport, each with its thread
  MuxWorkers,     \* threads ThreadAPI_Create may make
  MaxCalls,       \* bound on the calls of a client
  Overlapping     \* may clients make calls while another one is ending?

ASSUME WorkerAssumption ==
  /\ MaxCalls \in Nat /\ Overlapping \in BOOLEAN
  /\ Clients \cap MuxWorkers = {} /\ "none" \notin Clients
  /\ MuxWorkers \cap {"free", "none", "freed"} = {}

VARIABLES
  muxAt,              \* where each client and each worker is
  workerThreadHandle, stopThread,
  clients,            \* the clients the worker serves, in this order
  clientsLockHandle,  \* the worker that holds it, or "free"
  serving,            \* how many of clients a worker has served
  current,            \* the client whose callbacks a worker calls, or "none"
  muxSaved,           \* clients with saved callbacks
  calls               \* calls of each client so far

muxVars == <<muxAt, workerThreadHandle, stopThread, clients, clientsLockHandle, serving,
             current, muxSaved, calls>>

\* lockHandle is held for ever by a worker whose callback called its client inside DoWork.
Hung == \E w \in MuxWorkers : muxAt[w] = "hung"

\* A worker waits for itself, here or for clientsLockHandle.
Stuck == \E w \in MuxWorkers : muxAt[w] \in {"blocked", "hung"}

Ending == {c \in Clients : muxAt[c] = "joining"}
Alive == {c \in Clients : muxAt[c] \in {"starting", "adding", "on"}}

\* IoTHubTransport_Create
MuxInit ==
  /\ muxAt = [t \in Clients \cup MuxWorkers |-> "off"]
  /\ workerThreadHandle = "none" /\ stopThread = TRUE
  /\ clients = <<>> /\ clientsLockHandle = "free"
  /\ serving = [w \in MuxWorkers |-> 0] /\ current = [w \in MuxWorkers |-> "none"]
  /\ muxSaved = {} /\ calls = [c \in Clients |-> 0]

-----------------------------------------------------------------------------
(* The threads of the clients *)

\* Every call of client c begins with IoTHubTransport_StartWorkerThread, which looks at
\* workerThreadHandle without a lock, ...
IoTHubTransport_StartWorkerThread(c) ==
  /\ muxAt[c] \in {"off", "on"} /\ calls[c] < MaxCalls
  /\ ~Overlapping => \A d \in Clients : muxAt[d] \notin {"starting", "adding", "joining"}
  /\ calls' = [calls EXCEPT ![c] = @ + 1]
  /\ muxAt' = [muxAt EXCEPT ![c] = IF workerThreadHandle = "none" THEN "starting" ELSE "adding"]
  /\ UNCHANGED <<workerThreadHandle, stopThread, clients, clientsLockHandle, serving, current, muxSaved>>

\* ... creates the thread if there was none, ...
CreateMuxWorker(c) ==
  /\ muxAt[c] = "starting"
  /\ \E w \in MuxWorkers :
       /\ muxAt[w] = "off"
       /\ workerThreadHandle' = w
       /\ muxAt' = [muxAt EXCEPT ![c] = "adding", ![w] = "loop"]
  /\ stopThread' = FALSE
  /\ UNCHANGED <<clients, clientsLockHandle, serving, current, muxSaved, calls>>

\* ... and adds the client, unless it is there, under clientsLockHandle.
start_worker_if_needed(c) ==
  /\ muxAt[c] = "adding" /\ clientsLockHandle = "free"
  /\ clients' = IF Contains(clients, c) THEN clients ELSE Append(clients, c)
  /\ muxAt' = [muxAt EXCEPT ![c] = "on"]
  /\ UNCHANGED <<workerThreadHandle, stopThread, clientsLockHandle, serving, current, muxSaved, calls>>

\* VECTOR_find_if and VECTOR_erase: list s without client c.
Without(s, c) ==
  IF Contains(s, c) THEN RemoveAt(s, CHOOSE i \in DOMAIN s : s[i] = c) ELSE s

\* mutant: the client is removed without clientsLockHandle.
SignalEndUnlocked(c) ==
  /\ muxAt[c] = "on"
  /\ ~Overlapping => \A d \in Clients : muxAt[d] \notin {"starting", "adding", "joining"}
  /\ clients' = Without(clients, c)
  /\ workerThreadHandle # "none" /\ clients' = <<>> => ~Hung
  /\ stopThread' = (stopThread \/ (workerThreadHandle # "none" /\ clients' = <<>>))
  /\ muxAt' = [muxAt EXCEPT ![c] = IF workerThreadHandle # "none" /\ clients' = <<>>
                                    THEN "joining" ELSE "gone"]
  /\ UNCHANGED <<workerThreadHandle, clientsLockHandle, serving, current, muxSaved, calls>>

\* mutant: the worker is stopped when any client ends.
SignalEndAlways(c) ==
  /\ muxAt[c] = "on" /\ clientsLockHandle = "free"
  /\ ~Overlapping => \A d \in Clients : muxAt[d] \notin {"starting", "adding", "joining"}
  /\ clients' = Without(clients, c)
  /\ stopThread' = (stopThread \/ workerThreadHandle # "none")
  /\ muxAt' = [muxAt EXCEPT ![c] = "gone"]
  /\ UNCHANGED <<workerThreadHandle, clientsLockHandle, serving, current, muxSaved, calls>>

\* Destroy of client c: under clientsLockHandle it is removed, and the worker is told to
\* stop if it was the last; only then is it joined.  The rest of Destroy needs no more of
\* the transport than its lock.
IoTHubTransport_SignalEndWorkerThread(c) ==
  /\ muxAt[c] = "on" /\ clientsLockHandle = "free"
  /\ ~Overlapping => \A d \in Clients : muxAt[d] \notin {"starting", "adding", "joining"}
  /\ clients' = Without(clients, c)
  /\ workerThreadHandle # "none" /\ clients' = <<>> => ~Hung
  /\ stopThread' = (stopThread \/ (workerThreadHandle # "none" /\ clients' = <<>>))
  /\ muxAt' = [muxAt EXCEPT ![c] = IF workerThreadHandle # "none" /\ clients' = <<>>
                                    THEN "joining" ELSE "gone"]
  /\ UNCHANGED <<workerThreadHandle, clientsLockHandle, serving, current, muxSaved, calls>>

IoTHubTransport_JoinWorkerThread(c) ==
  /\ muxAt[c] = "joining"
  /\ workerThreadHandle # "none" => muxAt[workerThreadHandle] = "ended"
  /\ workerThreadHandle' = "none"
  /\ muxAt' = [muxAt EXCEPT ![c] = "gone"]
  /\ UNCHANGED <<stopThread, clients, clientsLockHandle, serving, current, muxSaved, calls>>

-----------------------------------------------------------------------------
(* transport_worker_thread *)

\* Under lockHandle: stopThread, or DoWork, which saves callbacks of some clients.
transport_worker_thread(w) ==
  /\ muxAt[w] = "loop" /\ ~Hung
  /\ \/ stopThread /\ muxAt' = [muxAt EXCEPT ![w] = "ended"] /\ UNCHANGED muxSaved
     \/ /\ ~stopThread /\ muxAt' = [muxAt EXCEPT ![w] = "worked"]
        /\ \E s \in SUBSET Alive : muxSaved' = muxSaved \cup s
  /\ UNCHANGED <<workerThreadHandle, stopThread, clients, clientsLockHandle, serving, current, calls>>

\* Inside DoWork the transport calls the callbacks of messages, reported states, the connection
\* status and the twin of a client of a shared transport directly, and one of them calls the
\* client: it waits for LockHandle, which is lockHandle and its own.
DoWorkCallbackCalls(w) ==
  /\ muxAt[w] = "loop" /\ ~Hung /\ ~stopThread /\ Alive # {}
  /\ muxAt' = [muxAt EXCEPT ![w] = "hung"]
  /\ UNCHANGED <<workerThreadHandle, stopThread, clients, clientsLockHandle, serving, current, muxSaved, calls>>

\* The callbacks of one client after the other, with clientsLockHandle held: take it, ...
multiplexed_client_do_work(w) ==
  /\ muxAt[w] = "worked" /\ clientsLockHandle = "free"
  /\ clientsLockHandle' = w
  /\ serving' = [serving EXCEPT ![w] = 0]
  /\ muxAt' = [muxAt EXCEPT ![w] = "serving"]
  /\ UNCHANGED <<workerThreadHandle, stopThread, clients, current, muxSaved, calls>>

\* ... move the callbacks saved for the next client, ...
ScheduleWork_Thread_ForMultiplexing(w) ==
  /\ muxAt[w] = "serving" /\ current[w] = "none" /\ serving[w] < Len(clients) /\ ~Hung
  /\ current' = [current EXCEPT ![w] = clients[serving[w] + 1]]
  /\ muxSaved' = muxSaved \ {clients[serving[w] + 1]}
  /\ UNCHANGED <<muxAt, workerThreadHandle, stopThread, clients, clientsLockHandle, serving, calls>>

\* ... call them, ...
MuxCallbacks(w) ==
  /\ muxAt[w] = "serving" /\ current[w] # "none"
  /\ current' = [current EXCEPT ![w] = "none"]
  /\ serving' = [serving EXCEPT ![w] = @ + 1]
  /\ UNCHANGED <<muxAt, workerThreadHandle, stopThread, clients, clientsLockHandle, muxSaved, calls>>

\* ... of which one calls the client: IoTHubTransport_StartWorkerThread, which nearly every
\* call begins with, waits for clientsLockHandle, and that is its own, ...
MuxCallbackCalls(w) ==
  /\ muxAt[w] = "serving" /\ current[w] # "none"
  /\ muxAt' = [muxAt EXCEPT ![w] = "blocked"]
  /\ UNCHANGED <<workerThreadHandle, stopThread, clients, clientsLockHandle, serving, current, muxSaved, calls>>

\* mutant: clientsLockHandle is not released.
EndOfClientsKeeps(w) ==
  /\ muxAt[w] = "serving" /\ current[w] = "none" /\ serving[w] >= Len(clients)
  /\ muxAt' = [muxAt EXCEPT ![w] = "loop"]
  /\ UNCHANGED <<workerThreadHandle, stopThread, clients, clientsLockHandle, serving, current, muxSaved, calls>>

\* ... release it.
EndOfClients(w) ==
  /\ muxAt[w] = "serving" /\ current[w] = "none" /\ serving[w] >= Len(clients)
  /\ clientsLockHandle' = "free"
  /\ muxAt' = [muxAt EXCEPT ![w] = "loop"]
  /\ UNCHANGED <<workerThreadHandle, stopThread, clients, serving, current, muxSaved, calls>>

-----------------------------------------------------------------------------

\* IoTHubTransport_Destroy, once every client is gone: stops the worker if there still is
\* one, ...
AllGone == \A c \in Clients : muxAt[c] \in {"off", "gone"}
stop_worker_thread ==
  /\ AllGone /\ ~Hung /\ stopThread' = TRUE
  /\ UNCHANGED <<muxAt, workerThreadHandle, clients, clientsLockHandle, serving, current, muxSaved, calls>>

\* ... waits for the one workerThreadHandle names, and frees the transport.
IoTHubTransport_Destroy ==
  /\ AllGone /\ stopThread
  /\ workerThreadHandle # "none" => muxAt[workerThreadHandle] = "ended"
  /\ workerThreadHandle' = "freed"
  /\ UNCHANGED <<muxAt, stopThread, clients, clientsLockHandle, serving, current, muxSaved, calls>>

MuxCall(c) ==
  \/ IoTHubTransport_StartWorkerThread(c) \/ CreateMuxWorker(c) \/ start_worker_if_needed(c)
  \/ IoTHubTransport_SignalEndWorkerThread(c) \/ IoTHubTransport_JoinWorkerThread(c)

MuxWork(w) ==
  \/ transport_worker_thread(w) \/ multiplexed_client_do_work(w)
  \/ ScheduleWork_Thread_ForMultiplexing(w) \/ MuxCallbacks(w) \/ EndOfClients(w)

MuxNext ==
  /\ workerThreadHandle # "freed"
  /\ \/ \E c \in Clients : MuxCall(c)
     \/ \E w \in MuxWorkers : MuxWork(w) \/ DoWorkCallbackCalls(w) \/ MuxCallbackCalls(w)
     \/ stop_worker_thread \/ IoTHubTransport_Destroy

MuxSpec == MuxInit /\ [][MuxNext]_muxVars

\* Threads are scheduled and callbacks return; locks are released, unless a worker is Stuck:
\* no lock is held while waiting for a thread.  Callbacks need not call the client.
MuxFairness ==
  /\ \A w \in MuxWorkers : WF_muxVars(MuxWork(w))
  /\ \A c \in Clients :
       /\ WF_muxVars(CreateMuxWorker(c) \/ IoTHubTransport_JoinWorkerThread(c))
       /\ SF_muxVars(start_worker_if_needed(c))

MuxFairSpec == MuxSpec /\ MuxFairness

-----------------------------------------------------------------------------
(* Properties *)

\* Types, and only the worker that holds clientsLockHandle calls callbacks.
MuxTypeOK ==
  /\ clientsLockHandle \in MuxWorkers \cup {"free"}
  /\ \A w \in MuxWorkers : muxAt[w] \in {"serving", "blocked"} <=> clientsLockHandle = w
  /\ workerThreadHandle \in MuxWorkers \cup {"none", "freed"}
  /\ stopThread \in BOOLEAN /\ muxSaved \subseteq Clients
  /\ IsInjective(clients)

\* The worker never calls callbacks of a client whose Destroy has passed
\* SignalEndWorkerThread and is free to free it.
OnlyLiveServed ==
  \A w \in MuxWorkers : current[w] # "none" => muxAt[current[w]] \in {"on", "starting", "adding"}

\* The worker exits only when every client that started it has ended; a transport that is
\* freed has no thread left.
ThreadOutlivesClients ==
  /\ \A c \in Clients : muxAt[c] = "on" =>
       /\ workerThreadHandle \in MuxWorkers
       /\ muxAt[workerThreadHandle] \notin {"off", "ended"}
  /\ workerThreadHandle = "freed" => \A w \in MuxWorkers : muxAt[w] \in {"off", "ended"}

\* Callbacks saved for a client are called, or the client is destroyed, unless a callback has
\* called the client and the worker is Stuck; and a Destroy that has signalled the end does not
\* wait for ever for a worker that waits for it.
SavedAreServed ==
  \A c \in Clients :
    /\ (c \in muxSaved /\ muxAt[c] # "gone") ~> (c \notin muxSaved \/ muxAt[c] = "gone" \/ Stuck)
    /\ muxAt[c] = "joining" ~> muxAt[c] = "gone"

\* What the documentation of the library lets an application assume, and what the code does not
\* keep (in no run): a callback may call its client, so that no worker ever waits for itself.
CallbacksMayCall == ~Stuck
=============================================================================
