--------------------------- MODULE MqttProperties ---------------------------
(***************************************************************************)
(* The properties of a message in the topic it is published to, and the    *)
(* properties of a received message read from its topic,                   *)
(* iothubtransport_mqtt_common.c.                                           *)
(*                                                                         *)
(* A topic is a sequence of segments, each with its name, its value, whether   *)
(* a separator precedes it and whether the value is URL encoded.  A value is    *)
(* "plain", or "sep" when it holds the separator of properties.                  *)
(***************************************************************************)
EXTENDS Naturals, Sequences, FiniteSets, Functions

VARIABLES
  topicStage,   \* "idle", "formatted": outgoing and segments are set, "parsed": incoming and readout are
  outgoing,     \* the message to publish
  segments,     \* its topic, or Failed
  incoming,     \* the pairs in the topic of a message of the hub, in order
  readout       \* what the received message holds: system and application properties

topicVars == <<topicStage, outgoing, segments, incoming, readout>>

Values == {"plain", "sep"}
None == "none"
NoMessage == [user |-> <<>>, cid |-> None, mid |-> None, ct |-> None, ce |-> None, ctime |-> None,
              security |-> FALSE, diagnostic |-> "none", output |-> None, urlencode |-> FALSE]
\* An application names its outputs itself and generates the identifier of a trace from letters.
Messages ==
  [user : {<<>>} \cup {<<v>> : v \in Values} \cup {<<v, w>> : v, w \in Values},
   cid : {None}, mid : Values \cup {None}, ct : {None, "plain"}, ce : Values \cup {None},
   ctime : {None, "plain"}, security : BOOLEAN, diagnostic : {"none", "both", "half"},
   output : {None, "plain"}, urlencode : BOOLEAN]

TopicInit ==
  /\ topicStage = "idle" /\ outgoing = NoMessage /\ segments = <<>>
  /\ incoming = <<>> /\ readout = [system |-> {}, application |-> {}]

-----------------------------------------------------------------------------
(* Formatting *)

Segment(separated, name, value, encoded) ==
  [separated |-> separated, name |-> name, value |-> value, encoded |-> encoded]

Failed == <<Segment(FALSE, "failed", None, FALSE)>>   \* no topic: the message is not published

\* The topic so far and the number of properties the code has counted.
TopicWritten(topic, index) == [topic |-> topic, index |-> index]

\* Each but the last is followed by a separator.
addUserPropertiesTouMqttMessage(m) ==
  TopicWritten([i \in 1..Len(m.user) |-> Segment(i > 1, "user", m.user[i], m.urlencode)], Len(m.user))

addSystemPropertyToTopicString(w, name, value, encoded) ==
  IF value = None THEN w
  ELSE TopicWritten(Append(w.topic, Segment(w.index > 0, name, value, encoded)), w.index + 1)

\* Mutant: the system properties do not pass on how many they are.
SystemUncounted(w, m) ==
  TopicWritten(addSystemPropertyToTopicString(addSystemPropertyToTopicString(w, "mid", m.mid, m.urlencode),
                                         "ct", m.ct, m.urlencode).topic, w.index)

addSystemPropertiesTouMqttMessage(w, m) ==
  LET w1 == addSystemPropertyToTopicString(w, "cid", m.cid, m.urlencode)
      w2 == addSystemPropertyToTopicString(w1, "mid", m.mid, m.urlencode)
      w3 == addSystemPropertyToTopicString(w2, "ct", m.ct, m.urlencode)
      w4 == addSystemPropertyToTopicString(w3, "ce", m.ce, m.security \/ m.urlencode)
      w5 == addSystemPropertyToTopicString(w4, "ctime", m.ctime, m.urlencode)
  IN  IF m.security THEN addSystemPropertyToTopicString(w5, "ifid", "plain", TRUE) ELSE w5

\* The properties of the trace are not counted for what follows them.
addDiagnosticPropertiesTouMqttMessage(w, m) ==
  IF m.diagnostic = "none" THEN w
  ELSE TopicWritten(w.topic \o <<Segment(w.index > 0, "diagid", "plain", FALSE), Segment(TRUE, "diagctx", "sep", TRUE)>>, w.index)

addPropertiesTouMqttMessage(m) ==
  LET w == addDiagnosticPropertiesTouMqttMessage(
             addSystemPropertiesTouMqttMessage(addUserPropertiesTouMqttMessage(m), m), m)
  IN  IF m.diagnostic = "half" THEN Failed
      ELSE IF m.output = None THEN w.topic
      ELSE Append(w.topic, Segment(w.index > 0, "on", m.output, FALSE))

Formats ==
  /\ topicStage = "idle" /\ topicStage' = "formatted"
  /\ \E m \in Messages : outgoing' = m /\ segments' = addPropertiesTouMqttMessage(m)
  /\ UNCHANGED <<incoming, readout>>

-----------------------------------------------------------------------------
(* Reading: names stand for themselves, with what they begin and end with *)

\* The names of a hub begin with %24. ; "%24." is left out here.  cetera begins as ce does.
SystemNames == {"exp", "mid", "uid", "to", "cid", "ct", "ce", "on", "cdid", "cmid", "ctime", "cetera", "iothub-ack"}
UserNames == {"colour", "price"}
isSystemProperty(name) == name \in SystemNames

\* The known names that a name ends with.
Endings(name) ==
  CASE name = "cmid" -> {"cmid", "mid"}
    [] name = "price" -> {"ce"}
    [] name \in {"mid", "uid", "cid", "ct", "ce", "cdid", "ctime"} -> {name}
    [] OTHER -> {}

Tried == <<"ctime", "cdid", "cmid", "mid", "cid", "uid", "ct", "ce">>
\* Mutant: the short names are tried before the long ones.
ShortNamesFirst(names) ==
  LET order == <<"ct", "ce", "mid", "cid", "uid", "cdid", "cmid", "ctime">>
  IN  order[CHOOSE i \in DOMAIN order : order[i] \in names /\ \A j \in 1..(i - 1) : order[j] \notin names]
FirstTried(names) ==
  Tried[CHOOSE i \in DOMAIN Tried : Tried[i] \in names /\ \A j \in 1..(i - 1) : Tried[j] \notin names]

\* A system property for which the message has no place is left out.
setMqttMessagePropertyIfPossible(r, name, value) ==
  IF Endings(name) = {} THEN r
  ELSE [r EXCEPT !.system = {p \in @ : p[1] # FirstTried(Endings(name))} \cup {<<FirstTried(Endings(name)), value>>}]

\* One property of a topic.
Extracts(r, pair) ==
  IF isSystemProperty(pair[1]) THEN setMqttMessagePropertyIfPossible(r, pair[1], pair[2])
  ELSE [r EXCEPT !.application = {p \in @ : p[1] # pair[1]} \cup {<<pair[1], pair[2]>>}]

extractMqttProperties(pairs) ==
  LET after[n \in 0..Len(pairs)] ==
        IF n = 0 THEN [system |-> {}, application |-> {}] ELSE Extracts(after[n - 1], pairs[n])
  IN  after[Len(pairs)]

\* The topic itself is read as a property for which there is no place; the hub puts %24.to after it.
HubTopics ==
  {<<<<"to", "plain">>, a, b, c>> : a, b, c \in {<<n, v>> : n \in SystemNames \cup UserNames, v \in {"plain"}}}

Reads ==
  /\ topicStage = "idle" /\ topicStage' = "parsed"
  /\ \E pairs \in HubTopics : incoming' = pairs /\ readout' = extractMqttProperties(pairs)
  /\ UNCHANGED <<outgoing, segments>>

-----------------------------------------------------------------------------
\* The handlers return; the message is published or given to its callback.
TopicDone ==
  /\ topicStage # "idle" /\ topicStage' = "idle"
  /\ outgoing' = NoMessage /\ segments' = <<>> /\ incoming' = <<>>
  /\ readout' = [system |-> {}, application |-> {}]

TopicNext == Formats \/ Reads \/ TopicDone

TopicSpec == TopicInit /\ [][TopicNext]_topicVars

-----------------------------------------------------------------------------
(* Properties *)

\* Properties in a topic can be told apart, whichever of them a message has: one separator between
\* two, and none inside a value when values are encoded.  Only an output after a trace and nothing
\* else has no separator (addDiagnosticPropertiesTouMqttMessage counts for itself alone).
PropertiesApart ==
  topicStage = "formatted" =>
    \A i \in DOMAIN segments :
      /\ \/ segments[i].separated = (i > 1)
         \/ segments[i].name = "on" /\ {segments[j].name : j \in 1..(i - 1)} = {"diagid", "diagctx"}
      /\ (outgoing.urlencode \/ segments[i].name \in {"ifid", "diagctx"}) /\ segments[i].value = "sep" => segments[i].encoded

\* What a message of the hub carries is found where it belongs: a system property under its own
\* name and not under one that its name ends with, an application property with the others.
ReadWhereSent ==
  topicStage = "parsed" =>
    /\ readout.application = {p \in Range(incoming) : p[1] \in UserNames}
    /\ readout.system = {p \in Range(incoming) : p[1] \in Range(Tried)}

\* Topics say what messages hold, in both directions.
TopicsFaithful == PropertiesApart /\ ReadWhereSent
=============================================================================
