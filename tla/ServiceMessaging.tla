--------------------------- MODULE ServiceMessaging ---------------------------
(***************************************************************************)
(* Messages of a service to its devices: iothub_messaging_ll.c under the lock    *)
(* and the worker of iothub_messaging.c.  The AMQP sender, receiver and            *)
(* connection are external: they report their states, the outcome of each send      *)
(* and feedback while the worker lets them work.                                     *)
(***************************************************************************)
EXTENDS Naturals, Sequences, FiniteSets

CONSTANTS
  MaxSends,      \* bound: messages accepted
  MaxOpens,      \* bound: calls of Open that succeed
  MaxFeedback    \* bound: feedback batches received

VARIABLES
  stage,          \* of the client: "none", "made", "opened", "closing", "gone", or "undefined"
  isOpened,       \* what Send and Open look at
  linkOf,         \* state of the sender and of the receiver
  callback_data,  \* the one callback of each kind: a send's (0: none, or a refused one's), whether Open's is set, feedback's
  outstanding,    \* sends the sender holds
  crossed,        \* sends in flight together with another, refused or not, or whose sender a second Open dropped
  sends,          \* messages accepted
  opens,          \* calls of Open that succeeded
  outcomes,       \* what the application was told of its sends: <<send, result>>, in order
  feedback,       \* of each feedback batch: what it held, if records were lost, what was told, how it was settled
  workerThread,   \* ThreadHandle: "NULL", "running" or "joined"
  StopThread,
  asked           \* history: SendAsync was called since the client was made or last closed

smVars == <<stage, isOpened, linkOf, callback_data, outstanding, crossed, sends, opens, outcomes, feedback, workerThread, StopThread, asked>>
smApp == <<sends, opens, workerThread, StopThread, asked>>

LinkEnds == {"sender", "receiver"}
LinkStates == {"opening", "open", "error"}
\* One of the four descriptions the client knows, one it does not, and a record that cannot be read.
Records == {"success", "other", "malformed"}
NoCallbacks == [send |-> 0, open |-> FALSE, feedback |-> FALSE]

MessagingInit ==
  /\ stage = "none" /\ isOpened = FALSE /\ linkOf = [e \in LinkEnds |-> "idle"] /\ callback_data = NoCallbacks
  /\ outstanding = {} /\ crossed = {} /\ sends = 0 /\ opens = 0 /\ outcomes = <<>> /\ feedback = <<>>
  /\ workerThread = "NULL" /\ StopThread = FALSE /\ asked = FALSE

IoTHubMessaging_LL_Create ==
  /\ stage = "none" /\ stage' = "made" /\ callback_data' = NoCallbacks
  /\ UNCHANGED <<isOpened, linkOf, outstanding, crossed, outcomes, feedback, smApp>>

\* Opened at once, before the links are; a client that lost a link is opened anew, and drops what the old sender held.
IoTHubMessaging_LL_Open ==
  /\ stage \in {"made", "opened"} /\ ~isOpened /\ opens < MaxOpens
  /\ opens' = opens + 1 /\ stage' = "opened" /\ isOpened' = TRUE
  /\ callback_data' = [callback_data EXCEPT !.open = TRUE]
  /\ linkOf' = [e \in LinkEnds |-> "opening"] /\ crossed' = crossed \union outstanding /\ outstanding' = {}
  /\ UNCHANGED <<sends, outcomes, feedback, workerThread, StopThread, asked>>

IoTHubMessaging_LL_SetFeedbackMessageCallback ==
  /\ stage \in {"made", "opened"} /\ ~callback_data.feedback /\ callback_data' = [callback_data EXCEPT !.feedback = TRUE]
  /\ UNCHANGED <<stage, isOpened, linkOf, outstanding, crossed, outcomes, feedback, smApp>>

\* The worker is started by the first message.  Its handle is never reset: after a Close there is no other.
StartWorkerThreadIfNeeded ==
  IF workerThread = "NULL" THEN workerThread' = "running" /\ StopThread' = FALSE ELSE UNCHANGED <<workerThread, StopThread>>

\* SendAsync, by the thread that opens and closes or by another while Close waits for the worker.
IoTHubMessaging_SendAsync ==
  /\ stage \in {"made", "opened", "closing"} /\ StartWorkerThreadIfNeeded /\ asked' = TRUE
  /\ UNCHANGED <<stage, isOpened, linkOf, opens, outcomes, feedback>>

\* The callback of the latest message replaces that of the ones still in flight.
IoTHubMessaging_LL_Send ==
  /\ IoTHubMessaging_SendAsync
  /\ isOpened /\ sends < MaxSends /\ sends' = sends + 1
  /\ callback_data' = [callback_data EXCEPT !.send = sends']
  /\ outstanding' = outstanding \union {sends'}
  /\ crossed' = IF outstanding = {} THEN crossed ELSE crossed \union outstanding'

\* A message that is refused has started the worker all the same, and when it is the sender that refuses it, its
\* callback has replaced that of the ones in flight.
SendRefused ==
  /\ IoTHubMessaging_SendAsync /\ UNCHANGED <<outstanding, sends>>
  /\ \/ UNCHANGED <<callback_data, crossed>>
     \/ isOpened /\ callback_data' = [callback_data EXCEPT !.send = 0] /\ crossed' = crossed \union outstanding

-----------------------------------------------------------------------------
(* The worker: connection_dowork, and the callbacks of what it does *)

Works == workerThread = "running" /\ ~StopThread /\ UNCHANGED smApp

\* A client that was closed holds a connection that is destroyed.  Before Open there is none, and no work.
WorksOnDestroyed ==
  /\ Works /\ stage = "made" /\ opens > 0 /\ stage' = "undefined"
  /\ UNCHANGED <<isOpened, linkOf, callback_data, outstanding, crossed, outcomes, feedback>>

\* Each link tells its state; the client counts as open when both are, and Open's callback is called.
LinkStateChanged(e, state) ==
  /\ linkOf[e] \notin {"idle", state} /\ linkOf' = [linkOf EXCEPT ![e] = state]
  /\ isOpened' = (\A x \in LinkEnds : linkOf'[x] = "open")
  /\ UNCHANGED <<callback_data, outstanding, crossed, outcomes, feedback>>

IoTHubMessaging_LL_SenderStateChanged == \E state \in LinkStates : LinkStateChanged("sender", state)
IoTHubMessaging_LL_ReceiverStateChanged == \E state \in LinkStates : LinkStateChanged("receiver", state)

SendOutcomes == {"OK", "ERROR", "TIMEOUT", "CANCELLED"}

\* Mutant: a cancelled message counts as sent.
ResultCancelledOk(sent) == IF sent \in {"OK", "CANCELLED"} THEN "OK" ELSE "ERROR"

ResultOf(sent) == IF sent = "OK" THEN "OK" ELSE "ERROR"

IoTHubMessaging_LL_SendMessageComplete(id, sent) ==
  Append(outcomes, [send |-> callback_data.send, of |-> id, sent |-> sent, result |-> ResultOf(sent)])

SendCompletes ==
  /\ \E id \in outstanding, sent \in SendOutcomes :
       outstanding' = outstanding \ {id} /\ outcomes' = IoTHubMessaging_LL_SendMessageComplete(id, sent)
  /\ UNCHANGED <<isOpened, linkOf, callback_data, crossed, feedback>>

StatusOf(record) == IF record = "success" THEN record ELSE "unknown"

\* Mutant: the records before the one that cannot be read are told.
TellsSome(batch) == \E i \in DOMAIN batch : batch[i] # "malformed"

TellsBatch(batch) == batch # <<>> /\ \A i \in DOMAIN batch : batch[i] # "malformed"

InOrder(order) == \A i, j \in DOMAIN order : i < j => order[i] < order[j]

\* A batch is read as a whole, told if there is a callback, and accepted even if there is none.  kept: the places of
\* the records there was memory to list; the others are left out.  read: there was memory for all the rest.
FeedbackRead(batch, kept, read) ==
  LET accepted == TellsBatch(batch) /\ read IN
    [batch |-> batch, lost |-> accepted /\ DOMAIN kept # DOMAIN batch, settled |-> IF accepted THEN "accepted" ELSE "rejected",
     told |-> IF accepted /\ callback_data.feedback THEN [i \in DOMAIN kept |-> StatusOf(batch[kept[i]])] ELSE <<>>]

IoTHubMessaging_LL_FeedbackMessageReceived ==
  /\ linkOf["receiver"] = "open" /\ Len(feedback) < MaxFeedback
  /\ \E n \in 0..2 : \E batch \in [1..n -> Records], k \in 0..n, read \in BOOLEAN :
       \E kept \in [1..k -> 1..n] : InOrder(kept) /\ feedback' = Append(feedback, FeedbackRead(batch, kept, read))
  /\ UNCHANGED <<isOpened, linkOf, callback_data, outstanding, crossed, outcomes>>

IoTHubMessaging_LL_DoWork ==
  /\ Works /\ UNCHANGED stage
  /\ IoTHubMessaging_LL_SenderStateChanged \/ IoTHubMessaging_LL_ReceiverStateChanged \/ SendCompletes
     \/ IoTHubMessaging_LL_FeedbackMessageReceived

-----------------------------------------------------------------------------
(* The end *)

\* A client that is opened is closed, or one that never was.
IoTHubMessaging_Close ==
  /\ stage = "opened" \/ (stage = "made" /\ opens = 0)
  /\ StopThread' = TRUE /\ stage' = "closing"
  /\ UNCHANGED <<isOpened, linkOf, callback_data, outstanding, crossed, sends, opens, outcomes, feedback, workerThread, asked>>

\* Mutant: Close does not wait for the worker.
ClosesAtOnce == UNCHANGED workerThread

\* A worker that a send started after Close told it to stop never does: the join does not return.
Joins ==
  /\ workerThread = "running" => StopThread
  /\ workerThread' = IF workerThread = "running" THEN "joined" ELSE workerThread

\* Messages in flight are cancelled by the destruction of the sender, one callback each, in the order of the sends.
CancelledIn(order) ==
  [i \in DOMAIN order |-> [send |-> callback_data.send, of |-> order[i], sent |-> "CANCELLED", result |-> ResultOf("CANCELLED")]]

IoTHubMessaging_LL_Close ==
  /\ stage = "closing" /\ stage' = "made" /\ Joins /\ asked' = FALSE
  /\ isOpened' = FALSE /\ linkOf' = [e \in LinkEnds |-> "idle"]
  /\ outstanding' = {}
  /\ \E order \in [1..Cardinality(outstanding) -> outstanding] :
       InOrder(order) /\ outcomes' = outcomes \o CancelledIn(order)
  /\ UNCHANGED <<callback_data, crossed, sends, opens, feedback, StopThread>>

\* The application destroys what it has closed.
IoTHubMessaging_Destroy ==
  /\ stage = "made" /\ stage' = "gone" /\ callback_data' = NoCallbacks
  /\ UNCHANGED <<isOpened, linkOf, outstanding, crossed, outcomes, feedback, smApp>>

MessagingNext ==
  \/ IoTHubMessaging_LL_Create \/ IoTHubMessaging_LL_Open \/ IoTHubMessaging_LL_SetFeedbackMessageCallback
  \/ IoTHubMessaging_LL_Send \/ SendRefused \/ IoTHubMessaging_LL_DoWork \/ WorksOnDestroyed
  \/ IoTHubMessaging_Close \/ IoTHubMessaging_LL_Close \/ IoTHubMessaging_Destroy

MessagingSpec == MessagingInit /\ [][MessagingNext]_smVars

-----------------------------------------------------------------------------
(* Properties *)

ToldOf(id) == {i \in DOMAIN outcomes : outcomes[i].send = id}

\* A message that was alone in flight is told of exactly once, by its own callback, with OK only if the hub took it;
\* after Close no message waits for its callback.  (Of messages in flight together, or with one that was refused, the
\* last one's callback is called for all: see RequirementsKept.)
SendsTold ==
  /\ \A id \in (1..sends) \ crossed :
       Cardinality(ToldOf(id)) = (IF id \in outstanding THEN 0 ELSE 1)
  /\ \A i \in DOMAIN outcomes : (outcomes[i].result = "OK") = (outcomes[i].sent = "OK")
  /\ stage \in {"made", "gone"} => outstanding = {}

\* Feedback the application was told of is accepted, and complete unless memory ran out for a record: a batch with
\* a record that cannot be read is rejected as a whole.
FeedbackWhole ==
  \A i \in DOMAIN feedback :
    LET f == feedback[i] IN
    /\ f.told # <<>> => f.settled = "accepted" /\ (f.lost \/ Len(f.told) = Len(f.batch))
    /\ \A k \in DOMAIN f.batch : f.batch[k] = "malformed" => f.settled = "rejected"

\* A client that is gone leaves no worker behind, if it was closed after the last call of SendAsync.
WorkerEnds == stage = "gone" /\ ~asked => workerThread # "running"

\* Sends are told of, feedback is whole and a destroyed client is gone, however sends, losses of the link,
\* Close and Open follow each other.
MessagingSound == SendsTold /\ FeedbackWhole /\ WorkerEnds

\* What the comments at iothub_messaging_ll.c:655 and :830 and iothub_messaging.c:46 require, without the exceptions
\* above: every message is told of, with its context; feedback is told as received; Destroy ends the worker.  No run
\* checks it, for the code does not keep it: see the README.
RequirementsKept ==
  /\ \A id \in (1..sends) \ outstanding : Cardinality(ToldOf(id)) = 1
  /\ \A i \in DOMAIN feedback : feedback[i].told # <<>> => Len(feedback[i].told) = Len(feedback[i].batch)
  /\ stage = "gone" => workerThread # "running"
=============================================================================
