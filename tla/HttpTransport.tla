---------------------------- MODULE HttpTransport ----------------------------
(***************************************************************************)
(* The HTTP transport, iothubtransporthttp.c: the registration of a device,   *)
(* its events, alone or in batches, and the polling for its messages.          *)
(*                                                                         *)
(* The transport runs inside DoWork of its client, one request after the        *)
(* other.  A message is a record of its number, in the order of sending, and     *)
(* of its size; sizes, limits and times are small numbers.                        *)
(***************************************************************************)
EXTENDS Naturals, Sequences, FiniteSets, SequencesExt

CONSTANTS
  MaxSent,         \* bound: messages the application sends
  MaxArrived,      \* bound: messages that are fetched
  MaxClock,        \* bound: the clock
  MaxHub           \* bound: messages the hub takes, copies counted

ASSUME HttpAssumption == MaxSent \in Nat /\ MaxArrived \in Nat /\ MaxClock \in Nat /\ MaxHub \in Nat

VARIABLES
  transport,       \* whether the transport exists
  device,          \* Absent, or the credential and the parts of the registered device
  spilled,         \* parts of refused devices that nobody can free any more
  doBatchedTransfers, getMinimumPollingTime,
  waitingToSend, sentCount,
  hubTook,         \* numbers of the messages the hub took, in its order
  confirmations,   \* sequence of <<number, result>> told to the client
  DoWork_PullMessage, isFirstPoll, lastPollTime,
  clock,
  lastDialogue,    \* the time of the last poll that was answered, if known
  polledEarly,     \* a poll came too early
  fetched,         \* for every message fetched, how often it was answered for
  keptBack,        \* messages the application has to answer for
  misread          \* a message was delivered without a header, and none of them was bad

httpVars == <<transport, device, spilled, doBatchedTransfers, getMinimumPollingTime, waitingToSend, sentCount, hubTook,
              confirmations, DoWork_PullMessage, isFirstPoll, lastPollTime, clock, lastDialogue, polledEarly, fetched, keptBack, misread>>
deviceVars == <<transport, device, spilled>>
eventVars == <<waitingToSend, hubTook, confirmations>>
fetchVars == <<fetched, keptBack, misread>>
pollVars == <<isFirstPoll, lastPollTime, lastDialogue, polledEarly, fetchVars>>

Absent == [auth |-> "none", parts |-> {}]
MAXIMUM_MESSAGE_SIZE == 2
Unknown == MaxClock + 1   \* of a time
CredentialKinds == {"deviceKey", "deviceSasToken", "x509"}

HttpInit ==
  /\ transport = FALSE /\ device = Absent /\ spilled = {} /\ doBatchedTransfers = FALSE /\ getMinimumPollingTime = 1
  /\ waitingToSend = <<>> /\ sentCount = 0 /\ hubTook = <<>> /\ confirmations = <<>>
  /\ DoWork_PullMessage = FALSE /\ isFirstPoll = TRUE /\ lastPollTime = Unknown
  /\ clock = 0 /\ lastDialogue = Unknown /\ polledEarly = FALSE /\ fetched = <<>> /\ keptBack = {} /\ misread = FALSE

-----------------------------------------------------------------------------
(* The transport and its devices *)

TransportParts == <<"hostName", "httpApiExHandle", "perDeviceList">>

\* done parts are created before one fails; those are given back in the reverse order.
IoTHubTransportHttp_Create ==
  /\ ~transport
  /\ \E done \in 0..Len(TransportParts) :
       /\ transport' = (done = Len(TransportParts))
       /\ spilled' = spilled \cup (IF transport' THEN {} ELSE {TransportParts[i] : i \in 1..done} \ {"hostName", "httpApiExHandle"})
       /\ IF transport' THEN doBatchedTransfers' = FALSE /\ getMinimumPollingTime' = 1
          ELSE UNCHANGED <<doBatchedTransfers, getMinimumPollingTime>>
  /\ UNCHANGED <<device, eventVars, sentCount, DoWork_PullMessage, clock, pollVars>>

\* The devices that are left go with it.
IoTHubTransportHttp_Destroy ==
  /\ transport /\ transport' = FALSE /\ device' = Absent
  /\ fetched' = <<>> /\ keptBack' = {}
  /\ UNCHANGED <<spilled, doBatchedTransfers, getMinimumPollingTime, eventVars, sentCount, DoWork_PullMessage,
                 isFirstPoll, lastPollTime, clock, lastDialogue, polledEarly, misread>>

\* The parts of a device, in the order of their creation; a certificate needs no SAS object and a token no part more.
PartsOf(auth) ==
  <<"deviceId">> \o (IF auth = "x509" THEN <<>> ELSE <<auth>>)
    \o <<"eventHTTPrelativePath", "messageHTTPrelativePath", "eventHTTPrequestHeaders",
         "messageHTTPrequestHeaders", "abandonHTTPrelativePathBegin">>
    \o (IF auth = "deviceKey" THEN <<"sasObject">> ELSE <<>>)

\* How many parts are enough for the device to be added: a token or a certificate does, whatever fails after it.
Enough(auth) == CASE auth = "deviceKey" -> Len(PartsOf(auth)) [] auth = "deviceSasToken" -> 2 [] auth = "x509" -> 1

\* Mutant: a path that was created is forgotten when a later part fails.
ForgetsPath(auth, done) == {PartsOf(auth)[i] : i \in 1..done} \ {"messageHTTPrelativePath"}

\* The parts that a refused device gives back: those that were created.
GivesBack(auth, done) == {PartsOf(auth)[i] : i \in 1..done}

\* done parts are created before one fails, or all; the list may have no room.
IoTHubTransportHttp_Register ==
  /\ transport /\ device = Absent
  /\ \E auth \in CredentialKinds : \E done \in 0..Len(PartsOf(auth)) : \E room \in BOOLEAN :
       LET created == {PartsOf(auth)[i] : i \in 1..done} IN
       IF done >= Enough(auth) /\ room
       THEN /\ device' = [auth |-> auth, parts |-> created]
            /\ DoWork_PullMessage' = FALSE /\ isFirstPoll' = TRUE
            /\ lastDialogue' = Unknown
            /\ UNCHANGED spilled
       ELSE /\ spilled' = spilled \cup (created \ GivesBack(auth, done))
            /\ UNCHANGED <<device, DoWork_PullMessage, isFirstPoll, lastDialogue>>
  /\ UNCHANGED <<transport, doBatchedTransfers, getMinimumPollingTime, eventVars, sentCount, lastPollTime, clock, polledEarly, fetchVars>>

\* The messages that wait belong to the client; those it has to answer for are lost with it.
IoTHubTransportHttp_Unregister ==
  /\ device # Absent /\ device' = Absent
  /\ fetched' = <<>> /\ keptBack' = {}
  /\ UNCHANGED <<transport, spilled, doBatchedTransfers, getMinimumPollingTime, eventVars, sentCount, DoWork_PullMessage,
                 isFirstPoll, lastPollTime, clock, lastDialogue, polledEarly, misread>>

IoTHubTransportHttp_Subscribe(pull) ==
  /\ device # Absent /\ DoWork_PullMessage # pull /\ DoWork_PullMessage' = pull
  /\ UNCHANGED <<deviceVars, doBatchedTransfers, getMinimumPollingTime, eventVars, sentCount, clock, pollVars>>

IoTHubTransportHttp_SetOption ==
  /\ transport
  /\ \E batched \in BOOLEAN, polling \in {0, 1} : doBatchedTransfers' = batched /\ getMinimumPollingTime' = polling
  /\ UNCHANGED <<deviceVars, eventVars, sentCount, DoWork_PullMessage, clock, pollVars>>

\* A device that was added half made sends nothing that the hub understands.
Whole == device.parts = {PartsOf(device.auth)[i] : i \in 1..Len(PartsOf(device.auth))}

-----------------------------------------------------------------------------
(* Events *)

\* External: the client appends a message, with a body and properties of some size.
SendEvent ==
  /\ sentCount < MaxSent /\ sentCount' = sentCount + 1
  /\ \E body \in {1, MAXIMUM_MESSAGE_SIZE + 1}, properties \in {0, 1} :
       waitingToSend' = Append(waitingToSend, [number |-> sentCount + 1, body |-> body, properties |-> properties])
  /\ UNCHANGED <<deviceVars, doBatchedTransfers, getMinimumPollingTime, hubTook, confirmations, DoWork_PullMessage, clock, pollVars>>

Numbers(messages) == [i \in 1..Len(messages) |-> messages[i].number]
Confirms(messages, result) == confirmations' = confirmations \o [i \in 1..Len(messages) |-> <<messages[i].number, result>>]

\* What a message adds to a batch: its body and its properties, and no system property.
concat_Properties(m) == m.properties
make1EventJSONitem(m) == m.body + concat_Properties(m)
SizeOf(messages) == FoldLeft(LAMBDA sum, m : sum + make1EventJSONitem(m), 0, messages)

\* The properties of a message that is sent alone become headers, as long as they fit.
set_message_properties(m) == m.body + m.properties <= MAXIMUM_MESSAGE_SIZE

\* What becomes of a request: an answer of the hub, no answer after the hub took the messages, or before.
Outcomes == {"accepted", "refused", "unanswered", "failed", "RECOVERYFAILED"}
HubTakes(messages, outcome) ==
  IF outcome \in {"accepted", "unanswered"}
  THEN /\ Len(hubTook) + Len(messages) <= MaxHub /\ hubTook' = hubTook \o Numbers(messages)
  ELSE hubTook' = hubTook

\* n messages are the longest batch that fits; usable of them can be written.
Fits(n) == SizeOf(SubSeq(waitingToSend, 1, n)) <= MAXIMUM_MESSAGE_SIZE
makePayload(n, usable) == (n > 0 => Fits(n)) /\ (n < usable => ~Fits(n + 1))

\* Mutant: what was not sent goes to the end of the list.
PutAtEnd(messages, rest) == rest \o messages

\* What was not sent goes back, in order, before what waits.
reversePutListBackIn(messages, rest) == messages \o rest

SendsBatch ==
  /\ doBatchedTransfers
  /\ \E usable \in 1..Len(waitingToSend) : \E n \in {p \in 0..usable : makePayload(p, usable)} :
       LET batch == SubSeq(waitingToSend, 1, n)
           rest == SubSeq(waitingToSend, n + 1, Len(waitingToSend))
       IN IF n = 0
          THEN waitingToSend' = Tail(waitingToSend) /\ Confirms(<<Head(waitingToSend)>>, "ERROR") /\ UNCHANGED hubTook
          ELSE \E outcome \in Outcomes :
                 /\ outcome = "accepted" => Whole /\ device.auth # "deviceSasToken"   \* the token is not used
                 /\ HubTakes(batch, outcome)
                 /\ IF outcome = "accepted"
                    THEN waitingToSend' = rest /\ Confirms(batch, "OK")
                    ELSE waitingToSend' = reversePutListBackIn(batch, rest) /\ UNCHANGED confirmations

SendsOne ==
  /\ ~doBatchedTransfers
  /\ LET one == <<Head(waitingToSend)>> IN
     IF Head(waitingToSend).body > MAXIMUM_MESSAGE_SIZE \/ ~set_message_properties(Head(waitingToSend))
     THEN waitingToSend' = Tail(waitingToSend) /\ Confirms(one, "ERROR") /\ UNCHANGED hubTook
     ELSE \E outcome \in Outcomes :
            /\ outcome = "accepted" => Whole
            /\ HubTakes(one, outcome)
            /\ IF outcome \in {"accepted", "RECOVERYFAILED"}
               THEN waitingToSend' = Tail(waitingToSend) /\ Confirms(one, IF outcome = "accepted" THEN "OK" ELSE "ERROR")
               ELSE UNCHANGED <<waitingToSend, confirmations>>

DoEvent ==
  /\ device # Absent /\ waitingToSend # <<>>
  /\ SendsBatch \/ SendsOne
  /\ UNCHANGED <<deviceVars, doBatchedTransfers, getMinimumPollingTime, sentCount, DoWork_PullMessage, clock, pollVars>>

-----------------------------------------------------------------------------
(* Messages *)

\* Mutant: only a poll that brings a message is recorded.
RecordsMessages(timeNow, got) ==
  isFirstPoll' = (timeNow = Unknown \/ (isFirstPoll /\ ~got)) /\ lastPollTime' = IF got /\ timeNow # Unknown THEN timeNow ELSE lastPollTime

\* A poll that was answered: without a clock the next one counts as the first.
RecordsPoll(timeNow, got) ==
  /\ isFirstPoll' = (timeNow = Unknown)
  /\ lastPollTime' = IF timeNow = Unknown THEN lastPollTime ELSE timeNow

\* Mutant: a message the application does not want is dropped.
AnswersKept(readable, wanted) == IF ~readable THEN <<1, FALSE>> ELSE <<0, wanted>>

\* A message that cannot be read or is not wanted is abandoned at once; else the application answers later.
Answers(readable, wanted) == IF readable /\ wanted THEN <<0, TRUE>> ELSE <<1, FALSE>>

\* The headers of a message: of an application property, of a system property, of the content encoding; each
\* may be impossible to store.
Headers == UNION {[1..n -> [kind : {"iothub-app-", "iothub-messageid", "ContentEncoding"}, stored : BOOLEAN]] : n \in 0..2}

\* Mutant: of no header it matters that it cannot be stored.
StoresSome(headers) == [read |-> {i \in 1..Len(headers) : \A j \in 1..i : headers[j].stored}, failed |-> FALSE]

\* The first header that cannot be stored ends the reading, and is a failure unless it is the content encoding.
retrieve_message_properties(headers) ==
  LET read == {i \in 1..Len(headers) : \A j \in 1..i : headers[j].stored} IN
  [read |-> read, failed |-> \E i \in 1..Len(headers) : /\ ~headers[i].stored /\ \A j \in 1..(i - 1) : j \in read
                                                      /\ headers[i].kind # "ContentEncoding"]

\* The time now may be unknown.  An answer may bring a message, whose tag allows to answer for it or not.
DoMessages ==
  /\ device # Absent /\ DoWork_PullMessage
  /\ \E timeNow \in {clock, Unknown} : \E answer \in {"message", "untagged", "nothing", "error", "none"} :
       /\ isFirstPoll \/ timeNow = Unknown \/ timeNow > lastPollTime + getMinimumPollingTime
       /\ answer = "message" => Whole /\ Len(fetched) < MaxArrived
       /\ IF answer = "none" THEN UNCHANGED <<isFirstPoll, lastPollTime, lastDialogue, polledEarly>>
          ELSE /\ RecordsPoll(timeNow, answer = "message")
               /\ lastDialogue' = timeNow
               /\ polledEarly' = (polledEarly \/ (timeNow # Unknown /\ lastDialogue # Unknown
                                                  /\ timeNow - lastDialogue <= getMinimumPollingTime))
       /\ IF answer = "message"
          THEN \E created, wanted \in BOOLEAN : \E headers \in Headers :
                 LET readable == created /\ ~retrieve_message_properties(headers).failed IN
                 /\ misread' = (misread \/ (readable /\ retrieve_message_properties(headers).read # 1..Len(headers)
                                            /\ \A i \in 1..Len(headers) : headers[i].stored \/ headers[i].kind # "ContentEncoding"))
                 /\ fetched' = Append(fetched, Answers(readable, wanted)[1])
                 /\ keptBack' = IF Answers(readable, wanted)[2] THEN keptBack \cup {Len(fetched) + 1} ELSE keptBack
          ELSE UNCHANGED fetchVars
  /\ UNCHANGED <<deviceVars, doBatchedTransfers, getMinimumPollingTime, eventVars, sentCount, DoWork_PullMessage, clock>>

\* The application answers; the message is given up also when the request fails.
IoTHubTransportHttp_SendMessageDisposition ==
  /\ \E m \in keptBack : keptBack' = keptBack \ {m} /\ fetched' = [fetched EXCEPT ![m] = @ + 1]
  /\ UNCHANGED <<deviceVars, doBatchedTransfers, getMinimumPollingTime, eventVars, sentCount, DoWork_PullMessage,
                 isFirstPoll, lastPollTime, clock, lastDialogue, polledEarly, misread>>

HttpTick ==
  /\ clock < MaxClock /\ clock' = clock + 1
  /\ UNCHANGED <<deviceVars, doBatchedTransfers, getMinimumPollingTime, eventVars, sentCount, DoWork_PullMessage, pollVars>>

\* The events and the messages of a device do not meet: each is explored with what it depends on.
HttpDeviceStep ==
  \/ IoTHubTransportHttp_Create \/ IoTHubTransportHttp_Destroy
  \/ IoTHubTransportHttp_Register \/ IoTHubTransportHttp_Unregister \/ IoTHubTransportHttp_SetOption
HttpEventStep == SendEvent \/ DoEvent
HttpMessageStep ==
  \/ \E pull \in BOOLEAN : IoTHubTransportHttp_Subscribe(pull)
  \/ DoMessages \/ IoTHubTransportHttp_SendMessageDisposition \/ HttpTick

HttpNext == HttpDeviceStep \/ HttpEventStep \/ HttpMessageStep

HttpSpec == HttpInit /\ [][HttpNext]_httpVars

-----------------------------------------------------------------------------
(* Properties *)

\* A message waits or was confirmed, never both, and what was confirmed was confirmed once, however many
\* batches failed, were split or were put back; OK means that the hub took it.
HttpConfirmedOnce ==
  /\ \A n \in 1..sentCount :
       Cardinality({i \in 1..Len(confirmations) : confirmations[i][1] = n})
         + Cardinality({i \in 1..Len(waitingToSend) : waitingToSend[i].number = n}) = 1
  /\ \A i \in 1..Len(confirmations) : confirmations[i][2] = "OK" => \E j \in 1..Len(hubTook) : hubTook[j] = confirmations[i][1]

\* The hub takes no message for the first time after a message that was sent later: messages that go back
\* after a failed batch keep their place.
HubOrder ==
  \A i, j \in 1..Len(hubTook) : i < j /\ hubTook[i] > hubTook[j] => \E k \in 1..(i - 1) : hubTook[k] = hubTook[j]

\* The hub is not polled again within the minimum polling time, as far as the clock tells: an error or an
\* empty answer counts as a poll.
PollsApart == ~polledEarly

\* For a message that was fetched the hub gets one answer: from the transport when it cannot be read or is
\* not wanted, and otherwise from the application, which still has it until then.
FetchedAnsweredOnce == \A m \in 1..Len(fetched) : fetched[m] + (IF m \in keptBack THEN 1 ELSE 0) = 1

\* A message is not delivered without one of its headers, except after a content encoding that could not be stored.
DeliveredWhole == ~misread

\* A registration that fails gives back what it created, and a device with a key is added whole.
DevicesWhole == spilled = {} /\ (device.auth = "deviceKey" => Whole)

\* Events: settled once, in order; messages: polled with pauses, answered once, whole.
HttpSettled == HttpConfirmedOnce /\ HubOrder
HttpPolling == PollsApart /\ FetchedAnsweredOnce /\ DeliveredWhole

\* What holds of the messages of the HTTP transport in both directions and of its devices.
HttpSound == HttpSettled /\ HttpPolling /\ DevicesWhole
=============================================================================
