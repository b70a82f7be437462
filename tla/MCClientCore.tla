---------------------------- MODULE MCClientCore ----------------------------
(***************************************************************************)
(* The convenience layer for TLC: a client with a worker of its own            *)
(* (ClientCore), or clients that share a transport and its worker              *)
(* (TransportWorker); a behaviour exercises one of the two.  In one with a      *)
(* worker of its own the application registers one kind of callback, or sets     *)
(* options: registrations of different kinds have nothing in common.             *)
(***************************************************************************)
EXTENDS ClientCore, TransportWorker

VARIABLE uses      \* what the application registers, or "multiplexing"

RegisteredKinds == DOMAIN llContext

Init == CoreInit /\ MuxInit /\ uses \in RegisteredKinds \cup {"options", "multiplexing"}

\* What the application does not use stays as it is.
OnlyUses ==
  /\ \A k \in RegisteredKinds \ {uses} : llContext'[k] = llContext[k]
  /\ \A k \in Slots \ {uses} : context'[k] = context[k]
  /\ \A k \in Kinds : Slot(k) # uses => callback'[k] = callback[k]
  /\ uses # "options" => UNCHANGED <<do_work_freq_ms, currentMessageTimeout, llTimeout>>
  /\ sets' # sets => \/ callback' # callback \/ context' # context
                     \/ llContext' # llContext \/ uses = "options"

\* Bound on the items and registrations of a behaviour together.
MaxTogether == 3
WithinBound == Cardinality({i \in DOMAIN done : done'[i] # "new"}) + sets' <= MaxTogether

OwnWorker == uses # "multiplexing" /\ CoreNext /\ OnlyUses /\ WithinBound /\ UNCHANGED muxVars
SharedWorker == uses = "multiplexing" /\ MuxNext /\ UNCHANGED coreVars
Next == UNCHANGED uses /\ (OwnWorker \/ SharedWorker)

\* Nothing of the one that is not exercised is ever enabled, so that its fairness demands nothing.
Spec == Init /\ [][Next]_<<coreVars, muxVars, uses>> /\ CoreFairness /\ MuxFairness

-----------------------------------------------------------------------------
(* Properties *)

\* What holds of the threads, the saved callbacks and the clients at every step of the workers,
\* the application threads, the uploads and Destroy.
LayerSound ==
  /\ CoreTypeOK /\ AllConfirmed /\ ConfirmedInOrder /\ NothingLeftBehind /\ ContextsLive
  /\ MuxTypeOK /\ OnlyLiveServed /\ ThreadOutlivesClients

\* Destroy returns on either kind of transport, what the lower layer reported on a message is told
\* in the end, and callbacks that were saved are called.
CallsEnd == DestroyReturns /\ ReportsReachApp /\ SavedAreServed
=============================================================================
