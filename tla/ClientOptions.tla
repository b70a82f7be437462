---------------------------- MODULE ClientOptions ----------------------------
(***************************************************************************)
(* What an application sets once and expects to stay set:                    *)
(*   io        options of the connection to the network, which is made anew at   *)
(*             every reconnection, and the proxy (both transports);                *)
(*   timeouts  options that the AMQP transport hands to each of its devices;          *)
(*   identity  product information and model, in the MQTT user name;                 *)
(*   sampling  the share of messages that carry a trace, iothub_client_diagnostic.c.  *)
(* The four share no state: a behaviour exercises one of them.                          *)
(***************************************************************************)
EXTENDS Naturals, Integers, Sequences, FiniteSets

CONSTANTS IoOptions, OptionDevices, Timeouts,
          Hundred,          \* stands for 100: percentages are scaled
          MaxMessageNumber  \* stands for UINT32_MAX, at least Hundred * Hundred

\* The word that stands for no connection is no option.
ASSUME OptionAssumption == "none" \notin IoOptions /\ Hundred \in Nat \ {0} /\ MaxMessageNumber \in Nat

VARIABLES
  concern, ioTransport,
  io, ioProxy,            \* the connection: options applied to it or NoIo; the proxy it was made with
  saved_tls_options,      \* options kept for the next one, or NoIo
  conn_attempted,         \* MQTT
  accepted,               \* options whose SetOption returned OK
  spoiled,                \* options could not be read from a connection, or not be applied to one
  http_proxy,             \* host, user and password of the proxy, and its port
  option_timeout, deviceTimeout,  \* of the transport, and of each registered device
  timeoutFailed,          \* a SetOption of a timeout returned an error
  product_info, model_id, userName,
  percentage, currentMessageNumber, recent  \* recent: which of the last messages were sampled

ioVars == <<ioTransport, io, ioProxy, saved_tls_options, conn_attempted, accepted, spoiled, http_proxy>>
timeoutVars == <<option_timeout, deviceTimeout, timeoutFailed>>
identityVars == <<product_info, model_id, userName>>
samplingVars == <<percentage, currentMessageNumber, recent>>
optionVars == <<concern, ioVars, timeoutVars, identityVars, samplingVars>>

NoIo == {"none"}
NoProxy == [host |-> "none", user |-> "none", password |-> "none", port |-> "none"]
Proxies == {"p", "q"}

OptionInit ==
  /\ concern \in {"io", "timeouts", "identity", "sampling"}
  /\ ioTransport \in IF concern = "io" THEN {"MQTT", "AMQP"} ELSE {"MQTT"}
  /\ io = NoIo /\ ioProxy = NoProxy /\ saved_tls_options = NoIo /\ conn_attempted = FALSE
  /\ accepted = {} /\ spoiled = FALSE /\ http_proxy = NoProxy
  /\ option_timeout \in Timeouts /\ deviceTimeout = [d \in OptionDevices |-> 0] /\ timeoutFailed = FALSE
  /\ product_info = "default" /\ model_id = "none" /\ userName = <<>>
  /\ percentage = 0 /\ currentMessageNumber = 0 /\ recent = <<>>

Keeps(others) == UNCHANGED <<concern, others>>

-----------------------------------------------------------------------------
(* The connection to the network *)

\* A new connection with the options kept, when they can be applied to it.  MQTT then forgets
\* them; AMQP keeps them and goes on also when they could not be applied.
Makes(ok, applied) ==
  /\ ok /\ ioProxy' = http_proxy
  /\ IF saved_tls_options = NoIo THEN io' = {} /\ UNCHANGED <<spoiled, saved_tls_options>>
     ELSE /\ io' = IF applied THEN saved_tls_options ELSE {}
          /\ spoiled' = (spoiled \/ ~applied)
          /\ saved_tls_options' = IF ioTransport = "MQTT" /\ applied THEN NoIo ELSE saved_tls_options

\* TRUE when there is a connection now; a failure to apply options is one, for MQTT.
CreateTransportProviderIfNecessary(ok, applied) ==
  IF io # NoIo THEN UNCHANGED <<io, ioProxy, spoiled, saved_tls_options>>
  ELSE \/ Makes(ok, applied)
       \/ ~ok /\ UNCHANGED <<io, ioProxy, spoiled, saved_tls_options>>
Usable(ok, applied) == io # NoIo \/ (ok /\ (ioTransport = "MQTT" => applied \/ saved_tls_options = NoIo))

\* Mutant: the connection is ended before its options are read.
SavesNothing(read) == saved_tls_options' = (IF ioTransport = "MQTT" THEN NoIo ELSE saved_tls_options) /\ UNCHANGED spoiled

\* What is kept of the options of a connection that is about to be ended.
SavesOptions(read) ==
  IF read THEN saved_tls_options' = io /\ UNCHANGED spoiled
  ELSE /\ saved_tls_options' = IF ioTransport = "MQTT" THEN NoIo ELSE saved_tls_options
       /\ spoiled' = TRUE

\* An option that no other part of the transport takes goes to the connection.
IoTHubTransport_Common_SetOption(option) ==
  /\ concern = "io"
  /\ \E ok, applied, taken, read \in BOOLEAN :
       LET done == Usable(ok, applied) /\ taken IN
       /\ IF io = NoIo /\ ok
          THEN /\ ioProxy' = http_proxy
               /\ io' = (IF saved_tls_options # NoIo /\ applied THEN saved_tls_options ELSE {}) \cup (IF done THEN {option} ELSE {})
          ELSE /\ UNCHANGED ioProxy
               /\ io' = IF done THEN io \cup {option} ELSE io
       /\ accepted' = IF done THEN accepted \cup {option} ELSE accepted
       /\ spoiled' = (spoiled \/ (io = NoIo /\ ok /\ saved_tls_options # NoIo /\ ~applied) \/ (ioTransport = "AMQP" /\ done /\ ~read))
       /\ saved_tls_options' = IF ioTransport = "AMQP" /\ done /\ read THEN io'
                               ELSE IF ioTransport = "MQTT" /\ io = NoIo /\ ok /\ applied THEN NoIo ELSE saved_tls_options
  /\ UNCHANGED <<ioTransport, conn_attempted, http_proxy>> /\ Keeps(<<timeoutVars, identityVars, samplingVars>>)

\* MQTT: a connection that was tried is ended before the next attempt.
ResetConnectionIfNecessary ==
  /\ concern = "io" /\ ioTransport = "MQTT" /\ io # NoIo /\ conn_attempted
  /\ \E read \in BOOLEAN : SavesOptions(read)
  /\ io' = NoIo /\ ioProxy' = NoProxy
  /\ UNCHANGED <<ioTransport, conn_attempted, accepted, http_proxy>> /\ Keeps(<<timeoutVars, identityVars, samplingVars>>)

Connects ==
  /\ concern = "io"
  /\ \E ok, applied \in BOOLEAN :
       /\ CreateTransportProviderIfNecessary(ok, applied)
       /\ conn_attempted' = (conn_attempted \/ Usable(ok, applied))
  /\ UNCHANGED <<ioTransport, accepted, http_proxy>> /\ Keeps(<<timeoutVars, identityVars, samplingVars>>)

\* DisconnectFromClient and prepare_for_connection_retry.
Disconnects ==
  /\ concern = "io" /\ io # NoIo /\ conn_attempted
  /\ \E read \in BOOLEAN : SavesOptions(read)
  /\ io' = NoIo /\ ioProxy' = NoProxy
  /\ UNCHANGED <<ioTransport, conn_attempted, accepted, http_proxy>> /\ Keeps(<<timeoutVars, identityVars, samplingVars>>)

\* Mutant: each part is replaced as soon as it is copied.
ReplacesParts(proxy, copied) ==
  http_proxy' = [host |-> IF copied >= 1 THEN proxy ELSE http_proxy.host, user |-> IF copied >= 2 THEN proxy ELSE http_proxy.user,
                 password |-> IF copied >= 3 THEN proxy ELSE http_proxy.password, port |-> proxy]

\* The port is replaced before the names are copied; the names together, or not at all.
ReplacesProxy(proxy, copied) ==
  http_proxy' = IF copied = 3 THEN [host |-> proxy, user |-> proxy, password |-> proxy, port |-> proxy]
                ELSE [http_proxy EXCEPT !.port = proxy]

\* Only without a connection; copied: how many of host, user and password could be copied.
SetsProxy(proxy) ==
  /\ concern = "io" /\ io = NoIo
  /\ \E copied \in 0..3 : ReplacesProxy(proxy, copied)
  /\ UNCHANGED <<ioTransport, io, ioProxy, saved_tls_options, conn_attempted, accepted, spoiled>>
  /\ Keeps(<<timeoutVars, identityVars, samplingVars>>)

-----------------------------------------------------------------------------
(* Timeouts of the devices of an AMQP transport *)

Registered == {d \in OptionDevices : deviceTimeout[d] # 0}

\* The transport keeps the value also when a device refuses it; devices after that one do not get it.
IoTHubTransport_AMQP_Common_Device_SetOption(t) ==
  /\ concern = "timeouts" /\ option_timeout' = t
  /\ \E reached \in SUBSET Registered :
       /\ deviceTimeout' = [d \in OptionDevices |-> IF d \in reached THEN t ELSE deviceTimeout[d]]
       /\ timeoutFailed' = (timeoutFailed \/ reached # Registered)
  /\ Keeps(<<ioVars, identityVars, samplingVars>>)

\* Mutant: a device starts with the timeout that devices have by default.
DefaultOptions(d) == deviceTimeout' = [deviceTimeout EXCEPT ![d] = CHOOSE t \in Timeouts : \A u \in Timeouts : t <= u]

replicate_device_options_to(d) == deviceTimeout' = [deviceTimeout EXCEPT ![d] = option_timeout]

\* A device whose options cannot be set is not registered.
RegistersDevice(d) ==
  /\ concern = "timeouts" /\ d \notin Registered /\ replicate_device_options_to(d)
  /\ UNCHANGED <<option_timeout, timeoutFailed>> /\ Keeps(<<ioVars, identityVars, samplingVars>>)
UnregistersDevice(d) ==
  /\ concern = "timeouts" /\ d \in Registered
  /\ deviceTimeout' = [deviceTimeout EXCEPT ![d] = 0]
  /\ UNCHANGED <<option_timeout, timeoutFailed>> /\ Keeps(<<ioVars, identityVars, samplingVars>>)

-----------------------------------------------------------------------------
(* Who the client says it is *)

\* A failure leaves no product information at all.
make_product_info(product) ==
  /\ concern = "identity" /\ product_info' \in {product, "none"}
  /\ UNCHANGED <<model_id, userName>> /\ Keeps(<<ioVars, timeoutVars, samplingVars>>)

SetsModelId ==
  /\ concern = "identity" /\ model_id = "none" /\ model_id' = "model"
  /\ UNCHANGED <<product_info, userName>> /\ Keeps(<<ioVars, timeoutVars, samplingVars>>)

\* Mutant: the product is written to the user name at once, the model only when it can be.
WritesAtOnce(failed) ==
  /\ userName' = userName \o <<product_info>> \o (IF model_id = "none" \/ failed THEN <<>> ELSE <<model_id>>)

\* Built from the name of the device when the client first connects, as a whole or not at all.
buildConfigForUsernameStep2IfNeeded(failed) ==
  userName' = IF userName # <<>> \/ failed THEN userName
              ELSE <<IF product_info = "none" THEN "default" ELSE product_info>> \o (IF model_id = "none" THEN <<>> ELSE <<model_id>>)

ConnectsAs ==
  /\ concern = "identity" /\ Len(userName) < 4
  /\ \E failed \in BOOLEAN : buildConfigForUsernameStep2IfNeeded(failed)
  /\ UNCHANGED <<product_info, model_id>> /\ Keeps(<<ioVars, timeoutVars, samplingVars>>)

-----------------------------------------------------------------------------
(* The share of messages with a trace *)

SetsPercentage(p) ==
  /\ concern = "sampling" /\ percentage' = p /\ currentMessageNumber' = 0 /\ recent' = <<>>
  /\ Keeps(<<ioVars, timeoutVars, identityVars>>)

\* Mutant: at its limit the counter is reduced by the percentage alone.
WrapsShort(number) == IF number = MaxMessageNumber THEN number % percentage ELSE number

WrapsAt(number) == IF number = MaxMessageNumber THEN number % (percentage * Hundred) ELSE number

should_add_diagnostic_info(number) ==
  ((number - 2) * percentage) \div Hundred < ((number - 1) * percentage) \div Hundred

SendsMessage ==
  /\ concern = "sampling" /\ percentage > 0
  /\ currentMessageNumber' = WrapsAt(currentMessageNumber) + 1
  /\ recent' = LET all == Append(recent, should_add_diagnostic_info(currentMessageNumber'))
               IN  IF Len(all) > Hundred THEN Tail(all) ELSE all
  /\ UNCHANGED percentage /\ Keeps(<<ioVars, timeoutVars, identityVars>>)

-----------------------------------------------------------------------------
OptionNext ==
  \/ \E option \in IoOptions : IoTHubTransport_Common_SetOption(option)
  \/ ResetConnectionIfNecessary \/ Connects \/ Disconnects
  \/ \E proxy \in Proxies : SetsProxy(proxy)
  \/ \E t \in Timeouts : IoTHubTransport_AMQP_Common_Device_SetOption(t)
  \/ \E d \in OptionDevices : RegistersDevice(d) \/ UnregistersDevice(d)
  \/ make_product_info("product") \/ SetsModelId \/ ConnectsAs
  \/ \E p \in 0..Hundred : SetsPercentage(p)
  \/ SendsMessage

OptionSpec == OptionInit /\ [][OptionNext]_optionVars

-----------------------------------------------------------------------------
(* Properties *)

\* An option that SetOption accepted is applied to the connection, and to every connection after
\* it, as long as options could be read from the old one and applied to the new one.
OptionsSurvive ==
  (concern = "io" /\ ~spoiled) => accepted \subseteq (IF io # NoIo THEN io ELSE IF saved_tls_options = NoIo THEN {} ELSE saved_tls_options)

\* The host, the user and the password of the proxy always come from one call, also when a later
\* one failed half-way (its port may not).
ProxyWhole == http_proxy.host = http_proxy.user /\ http_proxy.user = http_proxy.password

\* Devices have the timeout that the application set last, whenever they were registered, unless
\* a call that set one returned an error.
DevicesAgree ==
  (concern = "timeouts" /\ ~timeoutFailed) => \A d \in Registered : deviceTimeout[d] = option_timeout

\* The user name says once which product and model this is, whatever failed before.
UserNameOnce == Cardinality({i \in DOMAIN userName : userName[i] # "model"}) <= 1

\* Of any Hundred messages in a row exactly the wanted number carry a trace, also across the end of
\* the counter.
SampledEvenly ==
  Len(recent) = Hundred => Cardinality({i \in DOMAIN recent : recent[i]}) = percentage

\* What the application set is what is used.
OptionsKept == OptionsSurvive /\ ProxyWhole /\ DevicesAgree /\ UserNameOnce

\* Options and sampling do what the application asked for.
OptionsSound == OptionsKept /\ SampledEvenly
=============================================================================
