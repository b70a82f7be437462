---------------------------- MODULE MCClientParts ----------------------------
(***************************************************************************)
(* Instances for TLC of parts of the client and of the serializer that share *)
(* no state: a behaviour exercises the part it chose, and the others stay as   *)
(* they began.  The states of the sum are those of the parts, one by one.       *)
(***************************************************************************)
EXTENDS ClientSubscriptions, SharedTransport, MqttProperties, ClientConfig, ClientOptions, HttpTransport,
        UploadToBlob, ModelExchange, ModelRegistry, JsonTree

VARIABLE which
partsVars == <<which, subVars, sharedVars, topicVars, configVars, optionVars, httpVars, uploadVars,
               exchangeVars, registryVars, jsonVars>>

-----------------------------------------------------------------------------
(* The models of the serializer's part. *)

Member(of, kind, name, type, offset, size, args, told) ==
  [of |-> of, kind |-> kind, name |-> name, type |-> type, offset |-> offset, size |-> size, args |-> args, told |-> told]
MCReflected == {
  Member("Top", "property", "p", "int", 1, 1, {}, FALSE),
  Member("Top", "property", "c", "Inner", 2, 6, {}, FALSE),
  Member("Top", "reported", "r", "int", 8, 1, {}, FALSE),
  Member("Top", "desired", "d", "pair", 9, 1, {}, TRUE),
  Member("Top", "reported", "rc", "RepInner", 10, 2, {}, FALSE),
  Member("Top", "desired", "dc", "DesInner", 12, 2, {}, TRUE),
  Member("Top", "action", "a", "", 0, 0, {"n"}, FALSE),
  Member("Top", "method", "m", "", 0, 0, {}, FALSE),
  Member("Inner", "property", "q", "int", 1, 1, {}, FALSE),
  Member("Inner", "reported", "u", "int", 2, 1, {}, FALSE),
  Member("Inner", "desired", "d", "int", 3, 1, {}, TRUE),
  Member("Inner", "property", "e", "Deep", 4, 2, {}, FALSE),
  Member("Inner", "method", "m", "", 0, 0, {"n", "k"}, FALSE),
  Member("Deep", "property", "z", "int", 1, 1, {}, FALSE),
  Member("Deep", "action", "a", "", 0, 0, {"n"}, FALSE),
  Member("RepInner", "reported", "u", "int", 1, 1, {}, FALSE),
  Member("RepInner", "method", "m", "", 0, 0, {}, FALSE),
  Member("DesInner", "desired", "x", "int", 1, 1, {}, FALSE)}
MCStructs == [pair |-> {"a", "b"}]
Leaf(name, parts, value) == [name |-> name, given |-> parts, value |-> value, inner |-> <<>>]
Tree(name, inner) == [name |-> name, given |-> {}, value |-> 0, inner |-> inner]
MCEntries ==
  {Leaf("d", parts, v) : parts \in {{"a"}, {"a", "b"}}, v \in {1, 2}}
  \union {Leaf("$version", {"it"}, 1), Leaf("p", {"it"}, 1), Leaf("c", {"it"}, 1)}
  \union {Tree("c", s) : s \in {<<>>, <<Leaf("d", {"it"}, 1)>>, <<Leaf("d", {"it"}, 2)>>, <<Leaf("d", {"it"}, 2), Leaf("q", {"it"}, 2)>>,
                                 <<Leaf("$version", {"it"}, 2)>>, <<Tree("d", <<>>)>>, <<Tree("e", <<>>), Leaf("d", {"it"}, 1)>>}}
  \union {Tree("dc", <<Leaf("x", {"it"}, v)>>) : v \in {1, 2}} \union {Tree("dc", <<Leaf("y", {"it"}, 1)>>)}
MCUnfit == {{}, {9}}

Reflects(what, of, name, type, args) == [what |-> what, of |-> of, name |-> name, type |-> type, args |-> args]
MCMetadata ==
  [house |-> <<Reflects("model", "", "House", "", <<>>), Reflects("property", "House", "p", "int", <<>>),
               Reflects("desired", "House", "room", "Room", <<>>), Reflects("reported", "House", "r", "int", <<>>),
               Reflects("action", "House", "a", "", <<"n">>), Reflects("method", "House", "m", "", <<"n">>),
               Reflects("model", "", "Room", "", <<>>), Reflects("desired", "Room", "d", "pair", <<>>),
               Reflects("struct", "", "pair", "", <<>>), Reflects("field", "pair", "x", "int", <<>>)>>,
   car   |-> <<Reflects("model", "", "Car", "", <<>>), Reflects("desired", "Car", "d", "int", <<>>)>>]
MCTemplates == {<<>>,
                <<"{", "a", ":", "17", " ", ",", "b", ":", "{", "a", ":", "17", "}", "}">>,
                <<"{", "a", ":", "[", "17", " ", ",", "b", "]", "}">>}

-----------------------------------------------------------------------------
(* The sum. *)

PartsInit ==
  /\ which \in {"subscriptions", "shared", "properties", "config", "options", "httpEvents", "httpMessages",
                "upload", "exchange", "registry", "json"}
  /\ SubInit /\ SharedInit /\ TopicInit /\ ConfigInit /\ OptionInit /\ HttpInit /\ UploadInit
  /\ ExchangeInit /\ RegistryInit /\ JsonInit
  \* what another part may begin with is fixed
  /\ (which # "shared" => protocol = "MQTT")
  /\ (which # "options" => concern = "sampling" /\ option_timeout = 1)
  /\ (which # "upload" => httpStatus = "ok")
  /\ (which # "json" => text = <<>> /\ noLeaf = 0)

OthersStand ==
  /\ UNCHANGED which
  /\ IF which = "subscriptions" THEN TRUE ELSE UNCHANGED subVars
  /\ IF which = "shared" THEN TRUE ELSE UNCHANGED sharedVars
  /\ IF which = "properties" THEN TRUE ELSE UNCHANGED topicVars
  /\ IF which = "config" THEN TRUE ELSE UNCHANGED configVars
  /\ IF which = "options" THEN TRUE ELSE UNCHANGED optionVars
  /\ IF which \in {"httpEvents", "httpMessages"} THEN TRUE ELSE UNCHANGED httpVars
  /\ IF which = "upload" THEN TRUE ELSE UNCHANGED uploadVars
  /\ IF which = "exchange" THEN TRUE ELSE UNCHANGED exchangeVars
  /\ IF which = "registry" THEN TRUE ELSE UNCHANGED registryVars
  /\ IF which = "json" THEN TRUE ELSE UNCHANGED jsonVars


PartsNext ==
  \/ which = "subscriptions" /\ SubNext /\ OthersStand
  \/ which = "shared" /\ SharedNext /\ OthersStand
  \/ which = "properties" /\ TopicNext /\ OthersStand
  \/ which = "config" /\ ConfigNext /\ OthersStand
  \/ which = "options" /\ OptionNext /\ OthersStand
  \/ which = "httpEvents" /\ (HttpDeviceStep \/ HttpEventStep) /\ OthersStand
  \/ which = "httpMessages" /\ (HttpDeviceStep \/ HttpMessageStep) /\ OthersStand
  \/ which = "upload" /\ UploadNext /\ OthersStand
  \/ which = "exchange" /\ ExchangeNext /\ OthersStand
  \/ which = "registry" /\ RegistryNext /\ OthersStand
  \/ which = "json" /\ JsonNext /\ OthersStand

PartsSpec == PartsInit /\ [][PartsNext]_partsVars
=============================================================================
