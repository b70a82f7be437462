# TLA+ models of the Azure IoT SDK for C

This directory models the SDK: the device client in `iothub_client/src` with its
layers and its three transports, the provisioning client, the clients of the
services, and the serializer. The models say how messages, twin requests, methods
and registrations are accepted, queued, sent, retried, timed out, acknowledged and
reported, how the connections under them are kept alive, and which thread may do
what when. TLC checks the models on small instances; TLAPS proves theorems about
eighteen of them for every instance. `PROJECT.json` maps each definition to the lines
it models and lists the runs, mutants, hazards, findings and theorems.

## 1. The system and its parts

The application calls one of the facades (`iothub_device_client.c`, ...). With
the convenience layer, `iothub_client_core.c` guards the lower layer with a lock
and calls it from a worker thread, of its own or shared by the clients of one
transport; with the `_LL_` interface the application itself calls `DoWork`. The
lower layer, `iothub_client_core_ll.c`, owns the queue `waitingToSend` that the
transport reads, and hands twin reports to the transport. A transport (MQTT, AMQP
or HTTP) does all its work inside its own `DoWork` and calls back into the lower
layer, which calls the application. Provisioning, the service clients and the
serializer are programs of their own beside it.

| Component | State | Operations | Talks to | Correct when |
|---|---|---|---|---|
| message queue (`message_queue.c`) | lists `pending` and `in_progress`, times, attempts, options | add, do_work, completion callback, remove all, move back, destroy, options | AMQP messenger, by callback both ways | each message completed once, none stuck, timeout scans miss nothing |
| retry control (`iothub_client_retry_control.c`) | policy, options, first and last retry time, count, wait | should_retry, reset, set_option | MQTT and AMQP transports | waits respected, a stop is final, a reset forgets everything |
| lower layer, sending (`iothub_client_core_ll.c`) | `waitingToSend`, `iot_msg_queue`, `iot_ack_queue`, ids, timeouts | SendEventAsync, SendReportedState, DoWork, completions, Destroy | transport; callbacks that call back in | each message confirmed once, the timeout scan survives callbacks |
| lower layer, receiving (same file, MQTT methods and messages) | message, input, twin and method callbacks; memory of what was received | Set...Callback, dispatch, dispositions, method responses | transport subscriptions | who sets a callback is subscribed; what is received is freed once |
| creation and sharing (same file) | resources of each client, whom a shared transport calls back | Create..., Destroy, Register | shared transport | failures leak nothing; callbacks reach the right client |
| configuration and options | credentials; options kept across connections | connection strings, Edge environment, SetOption | transports, network io | whole or refused; what was set is used |
| convenience layer (`iothub_client_core.c`) | lock, threads, saved callbacks, contexts | all calls, worker loop, uploads, Destroy | lower layer | confirmations once and in order, no thread after Destroy |
| shared worker (`iothubtransport.c`) | client list, two locks, worker | start, signal, join | every client of the transport | no callback of a dead client, one worker |
| MQTT connection (`iothubtransport_mqtt_common.c`) | `mqttClientStatus`, `currPacketState`, topics, flags | DoWork, uMQTT callbacks, Subscribe/Unsubscribe, SetOption, Destroy | uMQTT, retry control, core | no work without a connection, losses handled, subscriptions restored |
| MQTT telemetry (same file) | `telemetry_waitingForAck`, `packetId` | publish, PUBACK, resend, give up, Destroy | connection, core | settled once; OK means acknowledged |
| MQTT twin (same file) | `pending_get_twin_queue`, `ack_waiting_queue`, flags | GetTwinAsync, ProcessItem, responses, expiry, Destroy | connection, core | every request ends once |
| AMQP transport and connection | state, connection, preferred authentication | DoWork, Register, Subscribe, Destroy | devices, uAMQP, retry control | works again after every failure |
| AMQP device and CBS authentication | a state machine each, a token under way | start, stop, do_work, answers to tokens | transport, messengers | links only when authorized |
| AMQP telemetry messenger | `waiting_to_send`, `in_progress_list`, links | send_async, do_work, completions, stop, destroy | uAMQP, device | each caller answered once, in order |
| AMQP twin and generic messenger | patches, operations, subscription, links | report, get, subscribe, do_work, answers | uAMQP, message queue | each report told once; the two layers agree |
| HTTP transport (`iothubtransporthttp.c`) | per-device lists, polling times | DoWork, Register, dispositions | core, hub | events settled once in order; polls pause |
| upload (`iothub_client_ll_uploadtoblob.c`, `blob.c`) | block list, last status | the steps of one upload | storage, hub | hub, storage and caller agree |
| provisioning client and transports | registration state, timers, operation id | Register_Device, DoWork, transport callbacks | provisioning service, security module | one answer per registration, of its own |
| TPM authentication (`prov_sasl_tpm.c`) | key offsets, segment numbers | init bytes, challenge | provisioning service | keys and nonce pass whole |
| service messaging | one callback slot, links, worker | Open, Send, Close, feedback | hub | a message is told once, feedback whole |
| service requests (registry, configurations, twins, methods) | one request | build, send, read | hub | the result is what the hub said |
| enrollments (`provisioning_service_client`) | enrollments with versions, query token | create, update, delete, get, bulk, query | provisioning service | no write lost, what was written comes back |
| serializer | schemas, devices, twin models, trees | register, create, send, report, ingest, invoke | client | exchanges carry what was asked for |
| MQTT/AMQP wrappers, facades, client data, security modules | none between calls | forwarding, conversions, libraries | - | not modelled |

What is hard here: the layers are mostly single threaded but re-entrant - every
callback may call back in, while a caller holds a list position; answers may
come late, twice or never, before or after a timeout, on the next connection, or
after Destroy has begun; clocks and allocations fail; the transports' state is
several variables (`currPacketState`, `mqttClientStatus`, flags, topic strings;
five nested state machines over AMQP) written by handlers that run in any order;
and where there are threads, the lock is given up exactly around callbacks,
starting a thread and joining it.

## 2. Modules

| Module | Models | Extends |
|---|---|---|
| `MessageQueue` | `message_queue.c` | - |
| `RetryControl` | `iothub_client_retry_control.c` | - |
| `ClientCoreLL` | the sending half of `iothub_client_core_ll.c` | - |
| `ClientSubscriptions` | its receiving half, with the methods and messages of MQTT | - |
| `SharedTransport` | creation and end of clients on own and shared transports | - |
| `ClientConfig`, `ClientOptions` | what a client is made of; options that must survive | - |
| `ClientCore` | `iothub_client_core.c`, a client with a worker of its own | - |
| `TransportWorker` | `iothubtransport.c`, a worker shared by clients | - |
| `MqttConnection` | connection and subscriptions of `iothubtransport_mqtt_common.c` | - |
| `MqttTelemetry`, `MqttTwin` | its telemetry; its twin requests; each composed with the connection | `MqttConnection` |
| `MqttProperties` | properties of messages in topics | - |
| `AmqpTelemetry` | the AMQP telemetry messenger | - |
| `AmqpMessenger` | the generic AMQP messenger | - |
| `AmqpTwin` | the AMQP twin messenger on top of it | `AmqpMessenger` |
| `AmqpDevice` | a device with its CBS authentication, as operators on its record | - |
| `AmqpTransport` | the transport and its connection, composed with the device | `AmqpDevice` |
| `HttpTransport`, `UploadToBlob` | the HTTP transport; uploads | - |
| `Provisioning`, `TpmSasl` | registration over three transports; authentication by TPM | - |
| `ServiceMessaging`, `ServiceRequests`, `EnrollmentService` | the clients of the services | - |
| `ModelRegistry`, `ModelExchange`, `JsonTree` | the serializer: schemas and devices; what is exchanged; JSON | - |
| `Delivery` | abstract: a thing is accepted, then settled once and for good | - |
| `MC...` | instances for TLC; `MCClientCore`, `MCAmqpMessengers`, `MCClientParts` and `MCServices` are sums of modules; where a cfg says it all, the run is of the module itself | the modules |
| `SequenceFacts` | lemmas about lists that the proofs share | - |
| `MessageQueueProofs`, `ClientCoreLLProofs`, `ClientCoreProofs`, `MqttProofs`, `TransportProofs`, `ClientPartsProofs`, `ServicesProofs` | theorems and proofs (section 4) | the modules they are about |

`MqttTelemetry` (property `SettledOnce`), `MqttTwin` (`RequestEndsOnce`),
`ClientCore` (`AnsweredOnce`), `MessageQueue` (`QueueDelivers`) and `ClientCoreLL`
(`ClientDelivers`) implement `Delivery`, each through a mapping from its lists to the
status of a message or request: the first three are checked by TLC, all five are
proved.

### Correspondence with the code

**MessageQueue.** One action per function of the interface.
`message_queue_do_work` is cut wherever it calls out: `phase` is the loop of
`process_timeouts` or `process_pending_messages` it is in and `cursor` its
`list_item`, because the callee may add messages, report earlier ones or move
the lists in between. Times are kept as ages that saturate at `AgeCap`, at least
every timeout, so that no comparison is changed. `get_time` and `malloc` may
fail (`FaultsHappen`). A retry that cannot be added to `pending` is reported through
the list item that was freed (`CompletedRetryFails`): it still holds the message, or
anything, and then `phase` is "undefined" and the model ends. History: `order` of
adding, `fired` callbacks, `owed` reports of the processor.

**RetryControl.** `retry_control_should_retry` with the seven policies, the
overall limit, the wait and the jitter; options; reset. The random choice of a
wait is any value the formula can give. An evaluation in which the clock cannot
be read fails; the transports then retry at once, which `MqttConnection` has. History:
`everStopped`, that a call has answered STOP since the last reset; such a failure in
between does not forget it.

**ClientCoreLL.** `DoWork` is cut at each callback: `pc` is `timeouts` or
`callback` inside `DoTimeouts`, then `twin`, then `transport`. While `pc` is
`callback` the application may send. Ticks are unsigned and differences wrap at
`TickModulus`; item ids wrap at `MaxItemId`, and `IdsAssumption` says that fewer
reports are made than there are ids, so that an id names one state. The clock may
begin at any `StartTick`. The transport is external: it takes messages from the
head, may put them back, completes what it holds. Destroy is cut at each callback it
makes while it drains the lists, and these callbacks may send and report: `tooLate` and
`untold` are what was given to it after the list in question was drained.

**MqttConnection.** One call of `DoWork` is the stages `state`, `network` and
`pending`; `waiting` is the loop in `DisconnectFromClient`, which runs
`mqtt_client_dowork` and so the uMQTT callbacks. `topic` is the set of topic
strings that are not NULL, `topics_ToSubscribe` the bits of the same name. uMQTT
and the hub are external: `link`, SUBSCRIBE packets without a SUBACK, and
`session`, the subscriptions the hub keeps (the client asks for a persistent
session). Whether a time has run out is nondeterministic. `told` is the last
connection status given to the application. A SUBACK grants or refuses each topic of
`Refusable`; the code logs a refusal and goes on as if it were granted, and `refused`
remembers the topic until it is asked for again.

**MqttTelemetry.** `ProcessPublishStateDoWork`, PUBACKs and the walk of
`ProcessPendingTelemetryMessages`, one entry per step, with the saved next entry
(`walk`). A PUBACK removes every entry with its id; `Remain` says which list is left.
The walk is cut since giving a message up disconnects and therefore processes
callbacks. When the saved entry is freed the model marks it (`"freed"`) and
stops, as the code's behaviour is undefined from there.

**MqttTwin.** The GET of the transport (`SendInitialGet`), GETs of the
application, reports, responses, expiry, Destroy. Every operation goes through
the whole of a queue and packet ids under way are distinct, so the queues are
sets. `responses` are the answers of the hub under way; they are lost with the
connection. A SUBACK that refuses the topic of responses sets `twin_resp_sub_recv` as
well; the reports sent then have no answer and expire.

**ClientCore.** A call of the application is one step once it has `LockHandle`.
What happens without it is cut: `StartWorkerThreadIfNeeded` (test, create, store
the handle), the wait of Destroy for the worker and for uploads, the dispatch of
saved callbacks. `saved_user_callback_list` becomes `callbacks`, one worker's
batch; `copies` are the callbacks it copied before it gave the lock up. `context`
is what the client allocated, `llContext` what the lower layer will pass: the two
part when a callback is set again. A setter that frees the old context and then fails
leaves the lower layer with it; `dangling` remembers those slots. The lower layer is `inLL`, what it still has
to report on; what Destroy does with it is in two steps, the saved callbacks that are
dispatched (`DestroyDispatches`) and those of the lower layer's own destroy
(`DestroyFrees`). `HandlesAssumption`: a thread is of one kind, a handle of one item.

**TransportWorker.** What happens under `lockHandle`, which is also the lock of
every client, is one step; `clientsLockHandle` is held over the callbacks, and
`workerThreadHandle` is read and written without a lock. A callback may make a call that
starts the worker: one that was saved waits for `clientsLockHandle`, which its worker holds
("blocked"), one that the transport calls inside DoWork for `lockHandle` ("hung"); such a
worker is `Stuck` and never goes on. A lock is not recursive, as with pthreads.

**ClientSubscriptions.** Each received item is a position of `received`, with who
has it; `frees` counts how often it was freed. A callback may call the client
(`inCallback`). `mishandled` are the items the code leaks or frees twice (section 5).

**SharedTransport.** `initialize_iothub_client` is a step per resource; each
failure branch releases what it names. `tellings` are the calls of the last step
with whose device they are about and whom they reach.

**ClientConfig, ClientOptions, MqttProperties.** Conversions are operators on
sequences of pairs and segments, whose values are classes ("ok", "bad", "empty";
"plain", "sep"). The four concerns of `ClientOptions` share no state.

**AmqpTelemetry.** `turn` says who runs: calls of the device, `do_work` inside
`send_pending_events`, or uAMQP completing sends. A task is [id, callers, bodies,
sent, timedOut]; `FreedIntact` chooses what `remove_timed_out_events` reads from
the list item it has just freed: its old successor, or anything. A stop may fail to move
what is in progress back (`MoveFails`): its callers are then "lost". Destroy comes in any
state, as a device in the state ERROR is not stopped before its messengers go.

**AmqpMessenger, AmqpTwin.** Operators of the lower module give its next state
and `calls`, the callbacks made in order, which the twin messenger applies in the
same step. `operations` are the twin requests with their state; `atService` are
those the service will answer on these links. `twin_messenger_destroy` comes in any
state too: it stops the messenger below, hears its callbacks (`Destroys`) and answers what
is left. The queue is what `MessageQueue`
models, with the settings the messenger gives it. `OutagesShort` leaves out that a
request waits in the queue below for longer than its own time limit (section 5).

**AmqpDevice, AmqpTransport.** An operator takes the record of a device (its own
state, its authentication, token, messengers by their states) to the set of
records it may become, since a step may fail in several ways. `calm` is a moment
from which nothing fails; before it every failure is possible again and again.
One device: a further one only makes the transport reconnect more often, as the
share of faulty devices that it tolerates is 0.

**HttpTransport.** One device whose parts are the objects `IoTHubTransportHttp_Register`
makes one by one; messages are [number, size]; sizes, limits and times are small.
What the transport cannot do (twins, methods) returns errors and is left out.

**UploadToBlob.** A block is the interval of positions it covers. `httpStatus`
begins arbitrary, since the code reads it uninitialised when no block was sent.

**Provisioning.** `Prov_Device_LL_DoWork` is three steps: what the network brings,
what the transport does about its state, the client's own state machine. One
operator per operation of each of the three transports; `carrier` chooses among
them. The JSON of an answer is modelled by what it decides (`Payloads`). Times are
ages in ticks that saturate.

**TpmSasl.** Keys are intervals of positions cut into frames of
`MAX_FRAME_DATA_LEN`; segments of the nonce carry numbers that wrap at `SEQUENCES`.

**ServiceMessaging.** Calls under the lock are one step; the sender, receiver and
connection of uAMQP are external. `callback_data.send` is the one callback slot of
all sends; `crossed` are the sends that shared it, with one that was refused too, as the
slot is overwritten before the sender is asked. SendAsync starts the worker in any stage,
also before Open and during Close (`asked`); a worker that works on a destroyed
connection ends the model (`stage` "undefined"). Memory may fail for one record of a
batch (`lost`) or for the batch.

**ServiceRequests.** A call is three steps: what is sent, what the hub does and
answers (or the answer is lost before or after it acted), what is read. Others
write in between. Records keep the fields the code writes and reads. A 200 without the
identity in it is read as "no such device" (`SaysNone`).

**EnrollmentService.** JSON objects are records with only the fields written (`One` field,
`Join` of two). The service gives every write a version of its own, pages its lists, and
others write to it.

**ModelRegistry, ModelExchange, JsonTree.** A schema is what `DECLARE_MODEL`
reflects, registered element by element while memory lasts; variables are
offsets, found by address as in the code; a received document is a tree of
entries; a JSON text is a sequence of tokens that the decoder overwrites with NULs
as it goes, and `noLeaf` is the leaf of its tree that memory is not found for: it fails an
object and makes an array skip an index.

## 3. Runs

A property of a run is often a conjunction of named parts; the parts are stated,
each with its comment, in the module. A mutant in `PROJECT.json` breaks each
property through a change of the mapped code; most conjunctions have one mutant
per deep part.

| Run | Instance | Properties and their parts |
|---|---|---|
| `message_queue` | 2 messages; enqueue timeout 0 or 2 s, processing timeout 0 or 1 s, 0 or 1 retries, switched while messages are queued; faults | `QueueSound` (types, `CompletedExactlyOnce`, `InProgressOrdered`, `InProgressOwed`); `QueueOrdered` (`InProgressSwept`, `FirstAttemptsInOrder`); `QueueDrains` (liveness: `EveryMessageCompletes`, `DoWorkReturns`) |
| `retry_control` | all policies, limits 0 and 5 s, waits up to 4 s, jitter 50 and 101 %, ages up to 8 s, a clock that fails | `WaitsAreRespected`, `StopIsFinal`, `RetriesProgress` (`FreshStart`; liveness `RetriesEnd`, `LaterEnds`) |
| `core_ll` | 2 messages, 2 reports, timeout 1, ticks 1..3, ids below 4, callbacks that send inside Destroy | `ListsSound` (types, `ConfirmedExactlyOnce`, `ScanPositionValid`, `ReportedStatesTold`, `SentInOrder`); `TimeoutsWork` (`ScanComplete`, `NothingForgotten`; liveness `WaitingEnds`) |
| `core_ll_early_timeout` (violation) | 3 messages | `NoEarlyTimeout`: a message sent from a callback of the timeout scan times out at once |
| `mqtt_connection` | telemetry and twin topics, granted or refused, all three reasons to disconnect, one SUBSCRIBE under way | `ConnSound` (types, `WorksConnected`, `ConnectedTold`), `SubscriptionsRestored`, `Recovers` (liveness `LossHandled`, `Reconnects`) |
| `mqtt_telemetry` | 2 messages, 3 packet ids, timeouts disconnect | `TelSound` (types, `OkMeansReceived`, `PublishesBounded`); `MessagesSettle` (`SettledOnce`, implements `Delivery`; liveness `PublishedSettles`) |
| `mqtt_twin` | 1 GET, 1 report, GETs of the transport again and again; the twin topic granted or refused, no disconnection but by errors | `TwinTypeOK`; `TwinHandled` (`RequestEndsOnce`, implements `Delivery`; `ReportsAnswerable`); liveness `RequestsEnd` |
| `client_core` | sum: own worker (1 application thread, 1 worker, 1 upload, 1 message, report, GET and inbound item; together at most 3 items and settings), shared worker (2 clients, 2 workers, 3 calls each, one after the other, callbacks that call) | `LayerSound` (`AllConfirmed`, `ConfirmedInOrder`, `NothingLeftBehind`, `ContextsLive`; `OnlyLiveServed`, `ThreadOutlivesClients`); `AnsweredOnce` (implements `Delivery`); liveness `CallsEnd` (`DestroyReturns`, `ReportsReachApp`, `SavedAreServed`) |
| `amqp_transport` | 1 device with tokens or a certificate, 2 tolerated failures, 1 token unanswered | `TransportSound` (`LinksAuthorized`, `StartedTold`); liveness `DeviceRecovers` |
| `amqp_messengers` | sum: telemetry (3 events, batches of 2, 2 retries, 2 starts) and twin (1 report, a GET, a subscription; 2 starts, 2 requests) | `EventsSound` (`EachCallerOnce`, `OwedInOrder`, `TasksOutliveSends`), `TwinSound` (`PatchesToldOnce`, `MessengersAgree`, `RequestsAreOperations`) |
| `client_parts` | sum of ten parts; sizes in `ClientParts.cfg` | `SubscriptionsSound` (`CallbacksSubscribed`, `FreedWhenEnded`), `SharedSound` (`NothingLeaks`, `DevicesReachOwner`), `TopicsFaithful`, `ConfigurationWhole`, `OptionsSound` (`OptionsKept`, `SampledEvenly`), `HttpSound` (`HttpSettled`, `HttpPolling`, `DevicesWhole`), `UploadHonest`, `RegistryConsistent`, `DecodesJson`, `ExchangesTrue` |
| `services` | sum of five parts; sizes in `Services.cfg` | `ProvisioningHonest` (`AnsweredOnce`, `OkAssigned`, `OwnOperation`), liveness `RegistrationEnds`, `TpmAuthenticates`, `MessagingSound` (`SendsTold`, `FeedbackWhole`, `WorkerEnds`), `RequestsSound` (`ResultsTrue`, `UpdateKeepsRest`), `EnrollmentsSound` (`NoWriteLost`, `MechanismsOwned`, `PagesWhole`), `WrittenComesBack` |

**Sums.** The parts of a sum share no variable. A behaviour picks one (`which`,
`uses`) and the others keep their initial values, so the states of the sum are
those of the parts, and a property of one part is checked in every state of it.
The composition of parts that do interact is in the modules themselves:
`MqttTelemetry` and `MqttTwin` with `MqttConnection`, `AmqpTwin` with
`AmqpMessenger`, `AmqpTransport` with `AmqpDevice`.

**Why the bounds are enough.** The properties relate at most two things (order,
exactly once, a scan that skips one, two clients on one transport, a batch that is
split), so two or three messages reach every case, and each may take every path:
retried, moved back, timed out, flushed, late. The values of a timeout are "off"
and one or two units, with ages past both. Ids, ticks and counters are small
enough to wrap (`MaxItemId`, `PacketIds`, `TickModulus`, `SEQUENCES`,
`MaxMessageNumber`). Two starts of a messenger give one restart with everything
old still under way; two registrations, one with the leavings of the first; three
requests and edits, one write between a read and its update. Sizes are in units
of a block, a frame or a page, with data for one more than fits. One SUBSCRIBE
under way at a time (`MaxSubscribes = 1`) bounds the packets; the assumption
behind it is that the hub answers SUBSCRIBE packets in order. `FaultyIds` bounds
the ids that failed calls lose. `FewerSendsWithFeedback` (`MCServices`) gives a behaviour with
feedback one send less, as what is received and what is sent share only the worker; a text for
which memory fails (`noLeaf`) has one edit less. `MaxTogether` and one kind of callback per
behaviour bound `ClientCore`: registrations of different kinds touch nothing in
common. `Overlapping = FALSE` and one application thread leave out the races of
section 5, which break the properties there. Deadlock is not checked where the
component can be destroyed, the messages of the instance can run out, or the
application need not call again: there the system really stops.

**Fairness.** The application (or the worker thread) keeps calling `DoWork`, and
each call goes on to its end: weak fairness of the steps of `DoWork`
(`ProvDoWork`, `DeviceWorks`, the connection steps of the AMQP transport). Time
passes: fairness of the clock steps, strong where a step of the code may keep
interrupting it. The clock does not fail for ever: strong fairness of the steps
that read it successfully. `Connect` is strongly fair in `MqttConnection`: the
retry policy does not put the connection off for ever, which `RetryControl`
shows (`LaterEnds`). Threads are scheduled: weak fairness of each worker, upload
and Destroy (`CoreFairness`), and strong fairness for a client that waits for
`lockHandle`, which the worker gives up in every round (`MuxFairness`). Nothing is
assumed of the hub, the network, the processor of the queue or the application's
own calls, with one exception: `DeviceRecovers` is about behaviours in which from
some time on nothing fails (`calm`), and there an answer to a token and the
opening of links come in the end.

## 4. Proofs

TLAPS checks the theorems for every set of messages, clients and threads, every
option set, size and bound that satisfies the modules' assumptions. Of the properties
that the runs check they state the ones in this table; the others are listed at the end
of the section.

| Module | Theorem of | Properties |
|---|---|---|
| `MessageQueueProofs` | `MessageQueue` | `QueueSound`, `QueueOrdered`; implements `Delivery` |
| `ClientCoreLLProofs` | `ClientCoreLL` | `ListsSound`, both step properties of `TimeoutsWork`; implements `Delivery` |
| `ClientCoreProofs` | `ClientCore`, `TransportWorker`, their sum | `LayerSound`, `AnsweredOnce` (implements `Delivery`) |
| `MqttProofs` | `MqttConnection`, `MqttTwin`, `MqttTelemetry` | `ConnSound`, `SubscriptionsRestored`, `TwinTypeOK`, `TwinHandled`, `TelSound`, `SettledOnce`; `TwinHandled` and `SettledOnce` implement `Delivery` |
| `TransportProofs` | `RetryControl`, `AmqpTransport` with `AmqpDevice`, `AmqpTelemetry`, `AmqpTwin` with `AmqpMessenger` | `WaitsAreRespected`, `StopIsFinal`, `TransportSound`, `EventsSound`, `TwinSound` |
| `ClientPartsProofs` | `ClientSubscriptions`, `SharedTransport`, `HttpTransport`, `UploadToBlob`, `ClientOptions`, `ClientConfig`, `MqttProperties` | `SubscriptionsSound`, `SharedSound`, `HttpSound`, `UploadHonest`, `OptionsSound`, `ConfigurationWhole`, `TopicsFaithful` |
| `ServicesProofs` | `Provisioning`, `TpmSasl`, `ServiceMessaging`, `ServiceRequests`, `EnrollmentService` | `ProvisioningHonest`, `TpmAuthenticates`, `MessagingSound`, `RequestsSound`, `EnrollmentsSound`, `WrittenComesBack` |

Each proof has the same frame: an inductive invariant (`...Inv`), a lemma that it holds
at first, one lemma per step or kind of step that it is kept, and the theorems that
follow. What the invariants add to the properties, and why:

**MessageQueue.** `QueueInv` is `RunInv`, the conjunction of `TypeOK`, `CompletedExactlyOnce`,
`InProgressOrdered` and `InProgressOwed`, or `HaltInv`, that the program has read a freed item
and is not followed; in `RunInv` none of the last three is inductive without the others: that a completion leaves the rest alone needs that no message is listed
twice, and the order of `in_progress` after a dispatch needs the type of ages. One
lemma per way an item can move (dequeue from either list, retry, dispatch, move back,
flush, clock). `ScanMissesNothing` (the action property `InProgressSwept`) needs a second
invariant, what the loops of `process_timeouts` have left behind them at each phase, and
the order of the list for the early break of the last. `FirstAttemptsOrdered` needs that
what was never attempted is in `pending` in the order it was added, whatever is retried
or moved back in between (`AttemptsOrdered`). `QueueIsDelivery` maps a message to "held"
while it is in either list.

**ClientCoreLL.** The transport takes messages and puts them back, so neither list keeps
its elements; their concatenation `Line` (held, then waiting) does: every step appends to
it, removes one item or leaves it as it is. The same with `Under`, the reported states
that wait and those under way, which `ProcessItem` rotates. `CoreInv` says that both have
no duplicates and hold exactly what has no outcome (`Accounted`), that the ids of states
under way are distinct and in a range of ids not given out again (`IdsDistinct`, from
`IdsAssumption`), and that the scan of `DoTimeouts` stands on an entry with everything
before it checked (`ScanInv`), which gives `ScanIsComplete`. `NothingIsForgotten` follows the
stages of Destroy: behind each its list is empty but for what is `tooLate` or `untold`.

**ClientCore.** Here `Line` is what was reported and not yet told: the rest of the batch of
the worker, then `saved_user_callback_list`. `OrderInv` says that what is unconfirmed is
exactly what is in the line, in its order (`Matches`); a batch is copied when the line was
all in the list, and so the copy leaves it as it is. `ContextsLive` is inductive with
`dangling`, into which a slot goes when a setter fails after freeing, and out of which it goes
when a later one succeeds. `ItemsInv` keeps an item in the lower
layer or in the line, `EndInv` says what each stage of Destroy has behind it (no worker
after the join, no upload after the wait, an empty lower layer at the end), `ThreadInv`
that there is one worker and that it is the one to be joined. That is where the premise
`FirstCallsApart` comes from: two threads that make their first calls at once create two
workers (`iothub_client_core.c:849`, section 5), and nothing of this holds then. The
premise is about the calls of the application; a single caller satisfies it.

**TransportWorker.** That a callback is only called of a client that is in `clients`, while
the worker has `clientsLockHandle`, and that a client in `clients` has not ended
(`ServedInv`), needs no premise: `ServedAreLive` holds even where calls overlap. That a
worker outlives the clients does not (section 5); `WorkersInv` follows the thread handle
through starting, adding and joining for calls one after the other (`~Overlapping`).
`LayerIsSound` puts both parts together for the sum that the run checks.

**MqttConnection.** `WorksConnected` is not inductive: the stages of `DoWork` look at
`currPacketState`, and a token renewal leaves it `UNKNOWN`, from which a subscription makes
it `SUBSCRIBE` without a connection. `ConnInv` adds that `mqttClientStatus` is CONNECTED
exactly while uMQTT is (`Linked`), and that such a left-over state implies a status from
which the next `DoWork` connects or skips the stage of work (`Placed`). `RestoreInv` adds
that a topic is with the hub, in a SUBSCRIBE under way or marked, unless it was dropped
or refused (`TopicsKept`), and where packets can be; `SubscriptionsAreRestored` follows.

**MqttTwin.** A step of the twin is a step of the connection or leaves it alone
(`TwinKeepsConnection`), so that what is proved of the connection holds here.
`ReportsAreAnswerable` rests on `TwinSubscribed`: while `twin_resp_sub_recv` is set the hub
has the subscription or refused it when last asked, although the flag outlives connections. `TwinRequestsEndOnce` maps
"held" to either queue.

**MqttTelemetry.** Every step either takes a message, settles some that are held, or leaves
all where they are (`TelDelivers`), and a list from which messages leave keeps the others
once each (`EntriesLeft`): `MessageInv`, `TelSettlesOnce`. `PublishInv` is the argument for
the bound on publishes: `retryCount` counts every publish and goes with the entry, so it is
never less than the count. Both hold without a premise. `OkMeansReceived` does not: ids
are 16 bits and come round (`iothubtransport_mqtt_common.c:404`), and then one PUBACK
confirms two messages. `TelIsSound` has the premise `NextIdFree`, that the id the next
message gets is not that of an entry or of a PUBACK under way; with it entries are apart by
id and a PUBACK is for its own message (`PacketInv`).

**RetryControl.** `RetryInv` adds to the types that the time since the last retry plus the
waits before it fit into the time since the first (`Elapsed`), and that once a call answered STOP
the limit stays exceeded until a reset (`Spent`), whatever fails in between.

**AmqpTransport.** The operators of `AmqpDevice` give the set of records a device may become, so
there is a lemma for each operator: all it gives is `Sound`, and what the application was
told stays told. `Sound` says that links stand on an authorization, that a device that has
stopped has neither links nor an answer to come (unless it is `late`), and that the state
the transport has seen is the device's. `ConnectionInv` says which connection each state of
the transport stands for, and that no device is seen working before there is one.

**AmqpTelemetry.** Here the line is of tasks: what the callers of the tasks in
`in_progress_list` are owed, task by task, then `waiting_to_send` (`TelLines`). Filling a
batch takes the front of what waits to the end of the last task, a restart puts all that
is owed back in front of what waits, and a task that ends takes its callers out of the
middle: each keeps the line rising, which is `OwedInOrder`. `TelTold` says that the line
holds exactly what has no outcome, and so an outcome is told once (`EachCallerOnce`), the callers
"lost" by a stop that failed being told none.
`TelFills` is about the inside of `send_pending_events`: the task being filled is the last,
uAMQP does not have it, and whoever joined it is in its body, so that no caller is left
with a task that is never sent. `TasksOutliveSends` is inductive with `TelStates`. The
premise of `EventsAreSound` is `FreedIntact`: a list item that was freed still holds its
successor. Without it `remove_timed_out_events` may stop before the end and leave tasks
behind a `stop`.

**AmqpMessenger, AmqpTwin.** The twin messenger hears of the lower one through callbacks that
run inside its calls. `HearsAllFacts` is an induction over the list of callbacks of a step:
each of them leaves every report with its caller or tells it once, and the twin messenger's
copy of the other's state is what it was told last (`TwinAgrees`), however many callbacks
there were. That gives `MessengersAgree`. `TwinAccounted` says that a report that is held
waits or is an operation, in one place, and `ExpireAllFacts` that giving up the operations
that took too long keeps it; `PatchesAreToldOnce` has no premise. `RequestsAreOperations` needs that the requests queued below are
numbered apart (`TwinNumbered`), so that one answer ends one operation, and the premise
`OutagesShort`: `process_timeouts` frees an operation whose request may still be queued, and
the lower messenger would then call back with a context that was freed (section 5).

**Parts of a client.** `SubInv`: what each callback implies about subscriptions, and who has
each received item. `SharedInv`: the resources a client owns at each step of its creation
(`OwnedAt`), one creation at a time, and over AMQP the context a device remembers is its
own. `HttpInv`: what is confirmed and what waits are the messages in their order without a
gap (`InLine`; a failed batch goes back to its place), the hub took what waits only from its
front (`HubPrefix`), the next poll is measured from the last dialogue (`PollInv`), fetched
messages are answered once (`FetchInv`). `UploadInv`: at each stage what will be or was
committed covers the data and is in storage (`Complete`). `OptionInv` is `OptionsKept` with
its types.

`SamplingInv` is what `SampledEvenly` needs of the hundred messages before: each is what its
number, counted back from the number of the last message, says (`should_add_diagnostic_info`). A message is
marked when its percentage of its number takes in one more whole (`SampledByShare`), so the
marked ones of a hundred telescope (`RisesCounted`), and the percentage of a hundred numbers
more is the percentage more (`ShareOfHundreds`). The number wraps modulo the percentage times a
hundred, so it moves by whole hundreds and the messages before it keep their meaning
(`WrapsByHundreds`), whatever the number is at which it wraps.

Connection strings, addresses and topics are read and written in loops, which are recursive
functions of how much was done. `ConfigurationIsWhole` follows the pairs of a
connection string: `ReadOf` says what the first `n` of them leave, and `Split` the same for the
parts of a device's address. `TopicsAreFaithful` has the index with which the writer decides
on a separator count the segments written (`Counts`), so a separator is before each but the
first, up to the properties of a trace (`TopicApart`); and in reading each property is
where its name says (`Placed`). Induction over the number read is done by hand: a
number where the claim fails has a least one (`LeastNatural`), and the step before it holds.

**Clients of services.** `ProvInv`: a transport exists only while a registration runs, the
operation it keeps is that of this registration from the first answer on
(`OperationInv`), an answer is looked at in the step after it came (`ReplyInv`), answers are
as many as registrations that ended. `SaslInv`: how far each key was sent at each offset, and
that the counter is the number of segments taken. `SmInv`: what is in flight is the latest
message alone or was crossed with it, and each message that was alone is told of once when
it is no longer in flight.

`RequestInv`: an answer says what the hub did (`Did`), and what was read of a record is that
record as long as nobody wrote since, at each place on its way round: in the answer to a
`get` (`SentFresh`), in the application's hands (`HeldFresh`), in the body of the update
made of it (`UpdateFresh`). `UpdateKeepsRest` needs all three: a client sends a record
whole, and what it does not carry it would erase.

`EnrollmentInv`: the enrollment in hand has the version it was read at, a request has the
enrollment in hand, an answer that is no error met the version that was asked for
(`RepliedInv`); and at each continuation token the pages read so far hold each enrollment
that is still there up to the token's place once (`PagingInv`, over an `Order` that
`OrderMeetsAll` proves to be one). `WrittenEnrollmentReturns` is the round trip through
JSON: a lemma for each writer with its reader (certificate, mechanism, twin, whole
enrollment), and the invariant that what is stored can be read and what is held can be
written (`ComesBackInv`). It is where the information of a certificate takes its place:
`Meaning` is kept, not the record.

**Assumptions on constants.** Bounds are numbers; a scaled-down width leaves room for one
wrap (`TelemetryAssumption`, `CoreAssumption`); names of different kinds of things differ
(`HandlesAssumption`, `WorkerAssumption`, `EndAssumption`, `OptionAssumption`, `TwinAssumption`),
as pointers to different objects do; `IdsAssumption` above; `SaslAssumption`, `HttpAssumption`,
`UploadAssumption` and `ConfigAssumption`, and what `OptionAssumption` says of numbers, are types
and signs of sizes; `EnrollmentsAssumption` is that a service has finitely many individual
enrollments, which a query lists in some order, and that an id is of an enrollment or of a group; `TelemetryAssumption` and `TwinAssumption` number
the events and the reports of a behaviour, any finite number of them. TLC evaluates each in a run.

**Only model-checked.**
- All liveness (`QueueDrains`, `RetriesProgress`, `Recovers`, ...): fairness and `ENABLED` are
  out of the provers' reach.
- `RegistryConsistent`, `DecodesJson` and `ExchangesTrue`: they are about trees, of schemas
  and of JSON values, that recursive operators walk.
- What the waits of the backoff policies compute (powers of two).

## 5. What the models found

The violation run `core_ll_early_timeout` is quoted in `findings`. The following
statements of comments, documents or requirements are kept as definitions of
their modules; they do not hold, and no run lists them. Adding one to the cfg
named shows a counterexample.

| Definition | Add to | What happens |
|---|---|---|
| `MessageQueue!PendingOrderedByEnqueueTime` | `MessageQueue.cfg` (3 messages) | a retried message is appended with its old enqueue time (`message_queue.c:102`), but the scan stops early as if `pending` were ordered (comment at 200) |
| `MessageQueue!AcceptedIsReported` | `MessageQueue.cfg` | a retry that cannot be added to `pending` is reported through its freed list item (`message_queue.c:156`, 103): it may not be reported at all, although requirement 09_049 says so |
| `MqttConnection!AllSubscriptionsRestored` | `MqttConnection.cfg` | a SUBSCRIBE under way is dropped by a keepalive change and never repeated (`iothubtransport_mqtt_common.c:3623`), and a topic the hub refuses counts as subscribed (1926), although `connection_and_messaging_reliability.md:164` says subscriptions are reestablished |
| `MqttConnection!NoTopicStranded` | `MqttConnection.cfg` | a SUBACK hides a topic marked in the same round (1934) |
| `MqttTelemetry!WalkStaysInList` | `MqttTelemetry.cfg` | a PUBACK during the disconnection frees the entry the walk goes on with (2287) |
| `MqttTwin!NotifyNeedsTwin` | `MqttTwin.cfg` | a late response subscribes again after Unsubscribe_DeviceTwin (1662, 3184) |
| `TransportWorker!ThreadOutlivesClients` | `ClientCore.cfg`, `Overlapping = TRUE` | a client starts while the last other one has signalled the worker and not joined it (`iothubtransport.c:224`, 191): no worker is left for it |
| `TransportWorker!CallbacksMayCall` | `ClientCore.cfg` | a callback that makes a call which starts the worker waits for the lock its own worker holds (`iothubtransport.c:168`, 235), although `iothubclient_c_library.md:383` only forbids Destroy there |
| `ClientCore!NoneDangling` | `ClientCore.cfg` | a setter frees the old context, fails to allocate the new one, and leaves the lower layer with the old (`iothub_client_core.c:1450`, 1541, 2007) |
| `ClientCore!NothingLeftBehind` | `ClientCore.cfg`, two `Apps` and two `Workers` | two threads create a worker each and one handle is lost (`iothub_client_core.c:849`) |
| `AmqpTelemetry!OkMeansSent` | `AmqpMessengers.cfg` | `send_pending_events` confirms with the batch of another outcome (`iothubtransport_amqp_telemetry_messenger.c:1246`) |
| `AmqpTelemetry!NobodyLost` | `AmqpMessengers.cfg` | a stop that cannot move what is in progress forgets its callers (`iothubtransport_amqp_telemetry_messenger.c:1755`, 945) |
| `AmqpTwin!UnsubscribeEnds` | `AmqpMessengers.cfg` (no patch, `MaxSendErrors = 2`, 1 start, 3 requests) | unsubscribing sends a PUT, so that updates go on (`iothubtransport_amqp_twin_messenger.c:1223`, 1220) |
| `AmqpTransport!ResubscribeKeepsConnection` | `AmqpTransport.cfg`, `MaxPuts = 2` | subscribing to methods again clears `subscribed_for_methods` (`iothubtransport_amqp_common.c:1881`, 1879) and costs the connection |
| `SharedTransport!TwinsReachOwner` | `ClientParts.cfg` | updates of a twin go to the client that the transport calls back, not the device's (`iothubtransport_amqp_common.c:600`, 603) |
| `ServiceMessaging!RequirementsKept` | `Services.cfg` | a refused send takes over the callback of an earlier one (`iothub_messaging_ll.c:1558`), a record of feedback for which there is no memory is left out (810), SendAsync leaves a worker that Destroy does not join (`iothub_messaging.c:305`) |
| `JsonTree!FailureIsTold` | `ClientParts.cfg` | when a leaf cannot be added the loop over an array goes on: the text is accepted with its elements one index further (`jsondecoder.c:462`), although requirement 99_038 says it fails |
| `ClientSubscriptions!CompleteFirst` | `ClientParts.cfg` | a callback set again may hear a partial twin first (`iothub_client_core_ll.c:535`) |

Facts met on the way, visible in the models. Where a property makes an exception
for one of them, its comment says so.

*Queue, retries, lower layer.*
- `max_retry_count` bounds the retries after a retryable error; a message that
  `message_queue_move_all_back_to_pending` moves back is attempted again whatever
  its count, although `message_queue.h:159` calls the option the maximum number of
  times a message is re-processed.
- The jitter of a backoff is added to the wait (`iothub_client_retry_control.c:206`);
  `doc/connection_and_messaging_reliability.md:280` says it is deducted.
- A message sent while the tick counter reads 0 never times out
  (`iothub_client_core_ll.c:1808`), as 0 means "no timeout".
- A reported state for which `ProcessItem` returns `IOTHUB_PROCESS_ERROR` is freed
  without its callback (`iothub_client_core_ll.c:2114`).
- A message that a callback of Destroy sends after `waitingToSend` was drained is
  never confirmed (`iothub_client_core_ll.c:1733`), and a state reported there goes to a
  transport that was already unregistered. `NothingForgotten` leaves both out (`tooLate`, `untold`).
- A method request without a callback is leaked (`iothub_client_core_ll.c:774`); so is a message with an
  unreadable topic (`iothubtransport_mqtt_common.c:1750`); a synchronous response that cannot be
  published frees its record twice (3339 and 1726); a handler of an input whose
  subscription fails is freed while it is listed (`iothub_client_core_ll.c:2892`). `FreedWhenEnded` and
  `CallbacksSubscribed` leave these out (`mishandled`).
- An MQTT client that joins a transport and then fails has already been made the
  one that is called back; a message whose disposition
  cannot be sent over AMQP leaks (`iothubtransport_amqp_common.c:2520`).

*Convenience layer.*
- A setter of a callback that fails, whether it is refused or finds no memory, may leave the
  freed context of the callback before it in the lower layer (twins, methods, connection status,
  messages); `ContextsLive` leaves these out (`dangling`). A
  callback set again between save and dispatch is called with the other one's
  context; a rejected `messageTimeout` still changes `currentMessageTimeout`.
- The callback of an upload that calls the client while Destroy waits for its thread
  never returns (`iothub_client_core.c:1228`); the header only forbids calling
  Destroy from callbacks (`iothub_device_client.h:122`). `DestroyReturns` leaves it out.
- On a shared transport the same holds of any callback whose call starts the worker;
  then no client of the transport is served again. `SavedAreServed` leaves that out (`Stuck`).
- The callback of `GetTwinAsync` is not called if it is only saved when Destroy comes.

*MQTT.*
- A SUBACK that refuses the topic of twin responses sets `twin_resp_sub_recv` all the same
  (`iothubtransport_mqtt_common.c:1926`): reports are sent whose answers cannot come, and end
  by their time limit. `SubscriptionsRestored` and `ReportsAnswerable` leave refused topics out.
- Parse, memory and unknown errors of uMQTT drop the connection without a status
  callback (`iothubtransport_mqtt_common.c:2058`).
- Waiting while disconnected counts as a resend of an MQTT message, and a message
  whose payload cannot be read on a resend keeps no owner
  (`iothubtransport_mqtt_common.c:2265`).
- An on-demand GET of the twin whose PUBLISH fails is freed without its callback
  (`iothubtransport_mqtt_common.c:1091`).
- The properties of a trace are not counted for what follows them (853), so that the name
  of an output directly after them has no separator (895). `TopicsFaithful` says so.

*Options.* Options that cannot be applied to a new connection are lost (AMQP 764;
MQTT 2320); the port of a proxy changes although SetOption fails (MQTT 3695,
AMQP 2126); `SetRetryPolicy` drops the options of the old control (MQTT 3516,
AMQP 2447); a keepalive above 65535 is never equal to itself (3617).

*AMQP.*
- The test of the state ERROR in `device_do_work` is the wrong way round
  (`iothubtransport_amqp_device.c:1164`); stopping the authentication does not
  cancel a token under way, whose late answer starts it again; an aborted token is
  reported as bad credentials; a connection closed by the service tells the application
  nothing (`iothubtransport_amqp_common.c:796`); `IoTHubTransport_AMQP_Common_Device_SetOption` stops at the first refusal (1304).
- In the twin messenger, subscribing and unsubscribing are never left by an answer
  (1500, 1535); a second subscription has no effect (1972); stop asks for a GET even when
  there was no subscription (2125); a failed PUT is checked as a GET (942); a
  request queued below for longer than its time limit calls back a freed context
  (1101; `OutagesShort` leaves it out); a GET on demand is not called back by destroy (1273);
  a PATCH the service refused is told as a success.
- In the generic messenger the callback of a settled message is never invoked, and a
  send that fails at once is used after it was freed (926).

*HTTP and upload.*
- A device with a SAS token or a certificate is added half made
  (`iothubtransporthttp.c:831`, 544), batches use the SAS object even for a token
  (1652) and drop system properties; a message that cannot be formatted blocks
  the queue; a content encoding that cannot be stored ends the reading of headers
  (237). `DevicesWhole` and `HttpSettled` say which devices and messages they are about.
- The status of an upload is read uninitialised when no block was sent
  (`iothub_client_ll_uploadtoblob.c:387`), an aborted upload returns OK, and the answer of storage is
  formatted as a string without a terminator (873).

*Provisioning.*
- A refused second `Register_Device` frees the registration id of the one that runs
  (`prov_device_ll_client.c:976`). Over HTTP an error together with the timeout is
  told twice (919, 1014), an answer without content repeats the payload before it
  (166), and the operation id of the first registration is kept (978): `AnsweredOnce`
  leaves HTTP out, `OkAssigned` and `OwnOperation` make these exceptions. Over
  MQTT and AMQP the operation id outlives the connection, so that later
  registrations are refused (876, 1431). `error_reason` is never reset; the
  first timeout counts from the first send (1228).
- With a TPM, of an endorsement key longer than a frame only the first frame
  is sent, and a fifth segment of a nonce is refused. `TpmAuthenticates` is about keys that fit.

*Services.*
- All sends share one callback slot (`iothub_messaging_ll.c:656`): of messages in
  flight together the last one's callback is called for all, and a send that is refused
  has taken the slot already (`SendsTold` leaves them out, `crossed`). After Close and Open
  there is no worker, and the second Close joins a joined thread; Destroy without Close frees
  under the worker, and so it does when SendAsync came after Close (`asked`) or
  before any Open; a SendAsync during Close starts a worker that Close waits for without end.
- `GetModule` says DEVICE_NOT_EXIST for any failure (`iothub_registrymanager.c:2212`);
  `UpdateDevice` turns `iotEdge` off (1952); `If-Match: *` loses concurrent updates;
  the priority of a configuration reads as 0 (`iothub_deviceconfiguration.c:758`),
  and the time of its update goes under the key of its creation (523).
  `ResultsTrue` and `UpdateKeepsRest` say so.
- The provisioning service client has no timeout; an update whose answer cannot be
  read destroys the enrollment of the application (`provisioning_service_client.c:538`);
  the token of a query moves on even when the page cannot be read (822), and is
  lost without headers; CA references are base64 encoded.
  `PagesWhole` is about queries whose pages were read.

*Serializer.*
- SERIALIZE of a child model together with a member of it sends only the member and
  returns OK (`jsonencoder.c:105`); the other order fails. Actions and methods of
  models nested two deep are not found (`codefirst.c:532`), nor those of models that are
  reported or desired (510). A desired document that fails half way leaves what came
  before it applied, with its callbacks called (`commanddecoder.c:803`); a
  property that cannot be copied fails the document while those after it are applied (873).
- The JSON decoder accepts white space for a comma (`jsondecoder.c:370`), and skips the index of
  an element for which a leaf could not be added (462); the name of
  an action loses its first character, a quote or not (`commanddecoder.c:608`).
- Deinit neither releases schemas nor deinitialises desired properties
  (`codefirst.c:447`); of two twin models on one client, destroying the first clears
  the callbacks of the second (`serializer_devicetwin.h:301`).
  `ExchangesTrue`, `DecodesJson` and `RegistryConsistent` make these exceptions.

## 6. Abstractions and limits

- Payloads, topic strings, encodings and log output are left out, except where a
  property is about them (`MqttProperties`, `JsonTree`, `ModelExchange`,
  `EnrollmentService`), and there they are classes of values.
- Allocation failures are modelled where the code recovers in a way that changes
  its state (`MessageQueue`, `SharedTransport`, `ModelRegistry`, `HttpTransport`, ...);
  elsewhere they leave the state as it was.
- The clock never goes backwards. In the MQTT modules a time limit may have run
  out at any moment; the choice covers every clock.
- A uMQTT PUBLISH or SUBSCRIBE on a live connection reaches the hub or fails at
  once; what is under way is lost with the connection. The hub may be slow, refuse
  connections, or never answer. uAMQP completes a send at most once, and only while
  its sender lives.
- A packet id is not reused while its first packet is under way. The code does not
  prevent that after 65535 packets; one PUBACK would then confirm two messages.
- Handles are unique: the application gives each message handle once.
- Where the code's behaviour is undefined (a freed list item read, an
  uninitialised status) the model chooses among what the build can produce, or marks
  the state and stops there.
- Calls that are refused at once and change nothing are left out of the newer modules.
- Where a history variable remembers an item the code mishandles (`tooLate`, `untold`,
  `refused`, `dangling`, `crossed`, `lost`, `asked`, `mishandled`, `skipped`), the properties say nothing of
  that item and all they said before of every other one.
- In `ServiceMessaging` calls that overlap `IoTHubMessaging_LL_Close`, which takes no lock, are
  left out, and so is that a refused send destroys its message twice (`iothub_messaging_ll.c:1572`,
  1588): the model goes on from there. `JsonTree` has one failure of memory in a text.

## 7. Plan

**Proofs.** `RegistryConsistent`, with the schemas walked by recursive functions in place of
recursive operators and folds.

**Models.** Cloud-to-device messages through the AMQP receiver and the answers to
methods over AMQP; several AMQP devices on one connection; `set_option` of the AMQP
layers; `MessageQueue` composed with `AmqpMessenger` in place of its abstraction there.

**Not modelled.**
- The MQTT and AMQP protocol wrappers and the facades forward every call and keep
  no state.
- `client_data`: messages, credentials and the calls of an Edge module are values
  that one thread builds and reads, or single HTTP requests; what the transports
  make of messages is in `MqttProperties` and `HttpTransport`.
- Security modules (TPM, RIoT, OpenSSL, wolfSSL) are library calls without a state
  of their own; `TpmSasl` has the protocol around one of them.
- Traces, trusted certificates and similar options of the service clients;
  registration states of the provisioning service; in the serializer the text
  form of each type, of which only failure and what is kept are modelled.
- Samples, tools, build files and test code.
- The submodules `c-utility`, `uamqp`, `umqtt` and `deps`, which are not part of the
  repository: they appear as external actions.
