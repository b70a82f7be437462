----------------------------- MODULE ModelExchange -----------------------------
(***************************************************************************)
(* What a device described by DECLARE_MODEL exchanges with the service: the     *)
(* properties it sends and reports, found by the address of the variable         *)
(* (codefirst.c, iotdevice.c, datapublisher.c, datamarshaller.c, jsonencoder.c),  *)
(* and the desired properties, actions and methods it receives, found by name     *)
(* (commanddecoder.c, schema.c).  A JSON text is the tree it denotes; one that     *)
(* is no JSON is refused before any of this (JsonTree).                            *)
(***************************************************************************)
EXTENDS Naturals, Sequences, FiniteSets, SequencesExt, TLC

CONSTANTS
  Reflected,      \* the members of the models: [of, kind, name, type, offset, size, args, told]
  Root,           \* the model of the devices
  Structs,        \* struct types, each with the names of its members
  Devices,        \* devices made, in memory one after the other
  IncludePath,    \* those made with includePropertyPath
  Entries,        \* entries a desired document is made of: [name, given, value, inner]
  Unfit,          \* sets of offsets whose value cannot be copied into the device (no memory)
  MaxListed,      \* bound: values given to one call of SERIALIZE
  MaxNamed        \* bound: names in one desired document

VARIABLES
  desired,   \* desired[a]: the desired property at offset a of a device, 0 before the first update
  lastExchange   \* the call just returned, with what it gave

exchangeVars == <<desired, lastExchange>>
NoCall == [call |-> "none"]

Models == {m.of : m \in Reflected}
IsModel(type) == type \in Models
HasData(m) == m.kind \in {"property", "reported", "desired"}
Members(model, kind) == {m \in Reflected : m.of = model /\ m.kind = kind}
ModelsIn(model) == {m \in Reflected : m.of = model /\ HasData(m) /\ IsModel(m.type)}
DataSize == 1 + FoldSet(LAMBDA m, n : IF m.of = Root /\ HasData(m) THEN n + m.size ELSE n, 0, Reflected)
Parts(type) == IF type \in DOMAIN Structs THEN Structs[type] ELSE {"it"}

-----------------------------------------------------------------------------
(* Sending.  A value is the set of its leaves, each a path and the variable it was read from. *)

Under(path, leaves) == {<<path \o e[1], e[2]>> : e \in leaves}
RECURSIVE Content(_, _, _, _)
Content(d, kind, type, at) ==
  IF IsModel(type)
  THEN UNION {Under(<<n.name>>, Content(d, kind, n.type, at + n.offset)) : n \in Members(type, kind)}
  ELSE {<< <<>>, <<d, at>> >>}

RECURSIVE FindValue(_, _, _)
\* Mutant: a variable inside an inner model is taken for the inner model
FindsOuter(kind, model, at) ==
  LET hit == {m \in Members(model, kind) : m.offset <= at /\ at < m.offset + m.size} IN
  IF hit = {} THEN <<>> ELSE <<CHOOSE m \in hit : TRUE>>
\* The members on the way to an address, all of the kind sent: none when the address is not the start of one.
FindValue(kind, model, at) ==
  LET hit == {m \in Members(model, kind) : m.offset <= at /\ at < m.offset + m.size}
      m == CHOOSE m \in hit : TRUE
      inner == FindValue(kind, m.type, at - m.offset)
  IN CASE hit = {} -> <<>>
       [] hit # {} /\ m.offset = at -> <<m>>
       [] OTHER -> IF inner = <<>> THEN <<>> ELSE <<m>> \o inner

\* Inner models are looked for before the members of the kind asked for, whatever they were declared as.
RECURSIVE PathExists(_, _, _)
PathExists(kind, model, path) ==
  LET inner == {m \in ModelsIn(model) : m.name = path[1]} IN
  IF inner # {} THEN Len(path) = 1 \/ PathExists(kind, (CHOOSE m \in inner : TRUE).type, Tail(path))
  ELSE \E m \in Members(model, kind) : m.name = path[1]

\* A transaction holds one value for each path, the last one published.
DataPublisher_PublishTransacted(slots, slot) ==
  IF \E i \in DOMAIN slots : slots[i].path = slot.path
  THEN [i \in DOMAIN slots |-> IF slots[i].path = slot.path THEN slot ELSE slots[i]]
  ELSE Append(slots, slot)

Slot(d, kind, path, type, at) == [path |-> path, complex |-> IsModel(type), leaves |-> Content(d, kind, type, at)]
SendAllDeviceProperties(d, kind) ==
  LET all == SetToSeq(Members(Root, kind)) IN [i \in DOMAIN all |-> Slot(d, kind, <<all[i].name>>, all[i].type, all[i].offset)]

FindDevice(value) == IF value.at < DataSize THEN value.device ELSE "none"
\* One value of the list: refused outside every device, in another device than the first, or if it is no member of the kind.
Published(kind, t, value) ==
  LET way == FindValue(kind, Root, value.at)
      path == [i \in DOMAIN way |-> way[i].name]
      refused == \/ FindDevice(value) \notin (IF t.device = "none" THEN Devices ELSE {t.device})
                 \/ value.at > 0 /\ (IF way = <<>> THEN TRUE ELSE ~PathExists(kind, Root, path))
      more == IF value.at = 0 THEN SendAllDeviceProperties(value.device, kind)
              ELSE <<Slot(value.device, kind, path, way[Len(way)].type, value.at)>>
  IN IF t.failed \/ refused THEN [t EXCEPT !.failed = TRUE]
     ELSE [t EXCEPT !.device = value.device, !.slots = FoldLeft(DataPublisher_PublishTransacted, @, more)]
Transaction(kind, list) ==
  FoldLeft(LAMBDA t, value : Published(kind, t, value), [device |-> "none", failed |-> FALSE, slots |-> <<>>], list)

\* A leaf is refused where there is a node; the nodes above it are made as needed and keep the value they may have.
MultiTree_AddLeaf(tree, leaf) ==
  IF tree.failed \/ leaf.path \in DOMAIN tree.nodes THEN [tree EXCEPT !.failed = TRUE]
  ELSE [tree EXCEPT !.nodes = @ @@ (leaf.path :> leaf.leaves) @@ [p \in Prefixes(leaf.path) \ {<<>>} |-> {}]]
\* A node that has children is written as its children: a value it has besides them is not.
JSONEncoder_EncodeTree(nodes) ==
  UNION {IF \E q \in DOMAIN nodes : Len(q) = Len(p) + 1 /\ IsPrefix(p, q) THEN {} ELSE Under(p, nodes[p]) : p \in DOMAIN nodes}

\* Without its path, a single complex value is sent as its members.
LeavesOf(withPath, slot) ==
  IF withPath \/ ~slot.complex THEN <<slot>>
  ELSE LET names == SetToSeq({e[1][1] : e \in slot.leaves})
       IN [i \in DOMAIN names |-> [path |-> <<names[i]>>,
             leaves |-> {<<Tail(e[1]), e[2]>> : e \in {f \in slot.leaves : f[1][1] = names[i]}}]]
Marshalled(withPath, slots) ==
  LET tree == FoldLeft(MultiTree_AddLeaf, [failed |-> FALSE, nodes |-> <<>>],
                       FlattenSeq([i \in DOMAIN slots |-> LeavesOf(withPath, slots[i])]))
  IN [ok |-> ~tree.failed, payload |-> IF tree.failed THEN {} ELSE JSONEncoder_EncodeTree(tree.nodes)]
\* Mutant: values are sent without their paths whenever the device asks for none
NeverWithPath(include, slots) == Marshalled(include, slots)
\* More than one value needs the paths when one of them is complex, whatever the device asks for.
DataMarshaller_SendData(include, slots) ==
  Marshalled(include \/ (Len(slots) > 1 /\ \E i \in DOMAIN slots : slots[i].complex), slots)

Failure == [ok |-> FALSE, payload |-> {}]
CodeFirst_SendAsync(list) ==
  LET t == Transaction("property", list) IN
  IF t.failed \/ t.slots = <<>> THEN Failure ELSE DataMarshaller_SendData(t.device \in IncludePath, t.slots)

\* Reported properties are set one by one in a JSON object, always with their paths.
json_object_dotset_value(object, slot) == {e \in object : ~IsPrefix(slot.path, e[1])} \union Under(slot.path, slot.leaves)
CodeFirst_SendAsyncReported(list) ==
  LET t == Transaction("reported", list) IN
  IF t.failed \/ t.slots = <<>> THEN Failure
  ELSE [ok |-> TRUE, payload |-> FoldLeft(json_object_dotset_value, {}, t.slots)]

-----------------------------------------------------------------------------
(* Desired properties.  An entry has a name, the parts of its value that can be read, the value, inner entries. *)

\* Mutant: a struct is taken when one of its members can be read
DecodesAny(type, given) == Parts(type) \intersect given # {}
DecodeValueFromNode(type, given) == Parts(type) \subseteq given

Untouched(stored) == [going |-> TRUE, whole |-> TRUE, stored |-> stored, tells |-> <<>>]
Stops(run) == [run EXCEPT !.going = FALSE, !.whole = FALSE]
TellsDesired(m, at, run) == IF m.told THEN [run EXCEPT !.tells = Append(@, [at |-> at, name |-> m.name, sees |-> run.stored])] ELSE run
\* Mutant: the callback is called before the value is stored
TellsFirst(m, at, unfit, run, entry) ==
  CASE ~DecodeValueFromNode(m.type, entry.given) -> Stops(run)
    [] DecodeValueFromNode(m.type, entry.given) /\ at + m.offset \in unfit -> [run EXCEPT !.whole = FALSE]
    [] OTHER -> [TellsDesired(m, at, run) EXCEPT !.stored[at + m.offset] = entry.value]
\* A desired property is copied into the device, then told; one that cannot be copied fails the document without ending it.
Desires(m, at, unfit, run, entry) ==
  CASE ~DecodeValueFromNode(m.type, entry.given) -> Stops(run)
    [] DecodeValueFromNode(m.type, entry.given) /\ at + m.offset \in unfit -> [run EXCEPT !.whole = FALSE]
    [] OTHER -> TellsDesired(m, at, [run EXCEPT !.stored[at + m.offset] = entry.value])

RECURSIVE validateModel_vs_Multitree(_, _, _, _, _)
\* Entry by entry: what has no place or cannot be read ends the walk; what came before stays applied.
ApplyEntry(model, at, unfit, run, entry) ==
  LET wanted == {m \in Members(model, "desired") : m.name = entry.name /\ ~IsModel(m.type)}
      inner == {m \in ModelsIn(model) : m.name = entry.name}
      m == CHOOSE m \in wanted \union inner : TRUE
      into == validateModel_vs_Multitree(m.type, at + m.offset, unfit, [run EXCEPT !.whole = TRUE], entry.inner)
  IN CASE ~run.going -> run
       [] run.going /\ wanted # {} -> Desires(m, at, unfit, run, entry)
       [] run.going /\ inner # {} -> IF into.whole THEN TellsDesired(m, at, [into EXCEPT !.whole = run.whole, !.going = TRUE])
                                      ELSE Stops(into)
       [] OTHER -> Stops(run)
validateModel_vs_Multitree(model, at, unfit, run, entries) ==
  FoldLeft(LAMBDA r, entry : ApplyEntry(model, at, unfit, r, entry), run, entries)

\* A full twin has the properties under "desired", an update is the properties themselves; $version is none of them.
\* A text of the other form has no such node, or names no property at all.
CommandDecoder_IngestDesiredProperties(stored, document, parseDesiredNode, unfit) ==
  IF document.wrapped # parseDesiredNode THEN Stops(Untouched(stored))
  ELSE validateModel_vs_Multitree(Root, 0, unfit, Untouched(stored), SelectSeq(document.entries, LAMBDA e : e.name # "$version"))

-----------------------------------------------------------------------------
(* Actions and methods, named by the inner models they are in. *)

NoModel == "no such model"
\* The schema knows the inner models of every kind and depth.
RECURSIVE ScanActionPath(_, _)
ScanActionPath(model, path) ==
  IF path = <<>> THEN model
  ELSE LET inner == {m \in ModelsIn(model) : m.name = path[1]}
       IN IF inner = {} THEN NoModel ELSE ScanActionPath((CHOOSE m \in inner : TRUE).type, Tail(path))

NoInstance == [model |-> NoModel, at |-> 0]
\* Mutant: the callee is given the device instead of the inner model
AtTheDevice(path) ==
  LET inner == {m \in Members(Root, "property") : path # <<>> /\ m.name = path[1] /\ IsModel(m.type)} IN
  IF Len(path) = 1 /\ inner # {} THEN [model |-> (CHOOSE m \in inner : TRUE).type, at |-> 0] ELSE NoInstance
\* The instance is looked for among the WITH_DATA members alone; after the first name the path left starts with its slash.
FindChildModelInCodeFirstMetadata(path) ==
  LET inner == {m \in Members(Root, "property") : path # <<>> /\ m.name = path[1] /\ IsModel(m.type)}
      m == CHOOSE m \in inner : TRUE
  IN CASE path = <<>> -> [model |-> Root, at |-> 0]
       [] Len(path) = 1 /\ inner # {} -> [model |-> m.type, at |-> m.offset]
       [] OTHER -> NoInstance

NotInvoked == [invoked |-> FALSE, at |-> 0]
CodeFirst_InvokeAction(path, name) ==
  LET child == FindChildModelInCodeFirstMetadata(path) IN
  IF \E m \in Members(child.model, "action") : m.name = name THEN [invoked |-> TRUE, at |-> child.at] ELSE NotInvoked
CodeFirst_InvokeMethod(path, name) ==
  LET child == FindChildModelInCodeFirstMetadata(path) IN
  IF \E m \in Members(child.model, "method") : m.name = name THEN [invoked |-> TRUE, at |-> child.at] ELSE NotInvoked

\* Every argument declared is there and can be read, or nothing is called; a method without any needs no payload.
DecodeAndExecuteModelAction(path, name, given) ==
  IF \E m \in Members(ScanActionPath(Root, path), "action") : m.name = name /\ m.args \subseteq given
  THEN CodeFirst_InvokeAction(path, name) ELSE NotInvoked
DecodeAndExecuteModelMethod(path, name, given) ==
  IF \E m \in Members(ScanActionPath(Root, path), "method") : m.name = name /\ m.args \subseteq given
  THEN CodeFirst_InvokeMethod(path, name) ELSE NotInvoked

-----------------------------------------------------------------------------
(* The application and the service: one call at a time. *)

AddressesOf == {[device |-> d, at |-> a] : d \in Devices, a \in 0 .. DataSize}
ListsOfValues == UNION {[1 .. n -> AddressesOf] : n \in 1 .. MaxListed}
Documents == {s \in UNION {[1 .. n -> Entries] : n \in 0 .. MaxNamed} : \A i, j \in DOMAIN s : i # j => s[i].name # s[j].name}
ModelNames == {m.name : m \in {n \in Reflected : HasData(n) /\ IsModel(n.type)}}
PathsOfNames == UNION {[1 .. n -> ModelNames] : n \in 0 .. 2}
Callables(kind) == {m \in Reflected : m.kind = kind}

\* Every member a device has, at every depth: the members on the way, and its address.
Layout == LET Below(n) == {[way |-> Append(n.way, m), at |-> n.at + m.offset] :
                            m \in {m \in Reflected : HasData(m) /\ m.of = n.way[Len(n.way)].type}}
              L1 == {[way |-> <<m>>, at |-> m.offset] : m \in {m \in Reflected : m.of = Root /\ HasData(m)}}
              L2 == UNION {Below(n) : n \in L1}
              L3 == UNION {Below(n) : n \in L2}
          IN L1 \union L2 \union L3
DesiredAt == {n.at : n \in {n \in Layout : n.way[Len(n.way)].kind = "desired" /\ ~IsModel(n.way[Len(n.way)].type)}}

ExchangeInit ==
  /\ desired = [a \in DesiredAt |-> 0]
  /\ lastExchange = NoCall

SERIALIZE(list) ==
  /\ lastExchange' = [call |-> "send", list |-> list] @@ CodeFirst_SendAsync(list)
  /\ UNCHANGED desired

SERIALIZE_REPORTED_PROPERTIES(list) ==
  /\ lastExchange' = [call |-> "report", list |-> list] @@ CodeFirst_SendAsyncReported(list)
  /\ UNCHANGED desired

INGEST_DESIRED_PROPERTIES(entries, wrapped, parseDesiredNode, unfit) ==
  LET run == CommandDecoder_IngestDesiredProperties(desired, [entries |-> entries, wrapped |-> wrapped], parseDesiredNode, unfit) IN
  /\ desired' = run.stored
  /\ lastExchange' = [call |-> "ingest", entries |-> entries, read |-> wrapped = parseDesiredNode, unfit |-> unfit,
                  ok |-> run.whole, tells |-> run.tells]

EXECUTE_COMMAND(path, name, given) ==
  /\ lastExchange' = [call |-> "action", path |-> path, name |-> name, given |-> given]
                 @@ DecodeAndExecuteModelAction(path, name, given)
  /\ UNCHANGED desired

\* The answer is what the method returned, or 500 when there was none to call.
EXECUTE_METHOD(path, name, given) ==
  /\ lastExchange' = [call |-> "method", path |-> path, name |-> name, given |-> given]
                 @@ DecodeAndExecuteModelMethod(path, name, given)
  /\ UNCHANGED desired

Return ==
  /\ lastExchange # NoCall
  /\ lastExchange' = NoCall
  /\ UNCHANGED desired

ExchangeNext ==
  \/ /\ lastExchange = NoCall
     /\ \/ \E list \in ListsOfValues : SERIALIZE(list)
        \/ \E list \in ListsOfValues : SERIALIZE_REPORTED_PROPERTIES(list)
        \/ \E entries \in Documents, parse \in BOOLEAN, unfit \in Unfit : INGEST_DESIRED_PROPERTIES(entries, parse, parse, unfit)
        \/ \E e \in Entries, parse \in BOOLEAN : INGEST_DESIRED_PROPERTIES(<<e>>, ~parse, parse, {})
        \/ \E m \in Callables("action"), path \in PathsOfNames : \E given \in SUBSET m.args : EXECUTE_COMMAND(path, m.name, given)
        \/ \E m \in Callables("method"), path \in PathsOfNames : \E given \in SUBSET m.args : EXECUTE_METHOD(path, m.name, given)
  \/ Return

ExchangeSpec == ExchangeInit /\ [][ExchangeNext]_exchangeVars

-----------------------------------------------------------------------------
(* Properties, against the layout of the models itself. *)

PathOf(n) == [i \in DOMAIN n.way |-> n.way[i].name]
TypeOf(n) == n.way[Len(n.way)].type
AllOfKind(kind, n) == \A i \in DOMAIN n.way : n.way[i].kind = kind
Listed(kind, list) ==
  {n \in Layout : AllOfKind(kind, n) /\ \E i \in DOMAIN list : n.at = list[i].at \/ (list[i].at = 0 /\ Len(n.way) = 1)}
Sendable(kind, list) ==
  /\ \A i, j \in DOMAIN list : list[i].device = list[j].device
  /\ \A i \in DOMAIN list : list[i].at = 0 \/ \E n \in Layout : AllOfKind(kind, n) /\ n.at = list[i].at
Nested(nodes) == \E n, m \in nodes : n # m /\ IsPrefix(n.way, m.way)
LeavesUnder(kind, d, nodes, keep) ==
  {<<SubSeq(PathOf(l), keep + 1, Len(l.way)), <<d, l.at>> >> :
     l \in {l \in Layout : AllOfKind(kind, l) /\ ~IsModel(TypeOf(l)) /\ \E n \in nodes : IsPrefix(n.way, l.way)}}

\* What is listed of one device is sent, every variable once under its own name; a single model is sent as its members
\* unless the device includes paths.  A model listed with a member of its own is left out: see README.
SentWhole ==
  lastExchange'.call = "send" =>
    LET list == lastExchange'.list
        nodes == Listed("property", list)
        bare == Cardinality(nodes) = 1 /\ list[1].device \notin IncludePath /\ \A n \in nodes : IsModel(TypeOf(n))
        keep == IF bare THEN Len((CHOOSE n \in nodes : TRUE).way) ELSE 0
    IN IF ~Sendable("property", list) THEN ~lastExchange'.ok
       ELSE Nested(nodes) \/ (lastExchange'.ok /\ lastExchange'.payload = LeavesUnder("property", list[1].device, nodes, keep))

\* What is listed of one device is reported, every variable once and under its full path.
ReportedWhole ==
  lastExchange'.call = "report" =>
    LET list == lastExchange'.list IN
    IF ~Sendable("reported", list) THEN ~lastExchange'.ok
    ELSE lastExchange'.ok /\ lastExchange'.payload = LeavesUnder("reported", list[1].device, Listed("reported", list), 0)

\* The entries of a document with the members they stand for: Places[path].
RECURSIVE Flat(_, _)
Flat(path, entries) ==
  UNION {{[path |-> Append(path, entries[i].name), entry |-> entries[i]]} \union Flat(Append(path, entries[i].name), entries[i].inner)
           : i \in DOMAIN entries}
Places(f) == {n \in Layout : PathOf(n) = f.path /\ (IsModel(TypeOf(n)) \/ n.way[Len(n.way)].kind = "desired")}
Applies(f, unfit) ==
  \E n \in Places(f) : IsModel(TypeOf(n)) \/ (Parts(TypeOf(n)) \subseteq f.entry.given /\ n.at \notin unfit)
Sets(f) == {<<n.at, f.entry.value>> : n \in {n \in Places(f) : ~IsModel(TypeOf(n))}}

\* A document is accepted exactly when every entry has a place and a value; then the device has the document, and each
\* callback declared for what it names was called once, after its value.  A refused one puts no value of its own making.
DesiredApplied ==
  lastExchange'.call = "ingest" =>
    LET flat == {f \in Flat(<<>>, lastExchange'.entries) : f.path # <<"$version">>}
        sets == UNION {Sets(f) : f \in flat}
        tells == lastExchange'.tells
        told == UNION {{n \in Places(f) : n.way[Len(n.way)].told} : f \in flat}
        For(t, n) == t.at = n.at - n.way[Len(n.way)].offset /\ t.name = n.way[Len(n.way)].name
    IN /\ lastExchange'.ok <=> (lastExchange'.read /\ \A f \in flat : Applies(f, lastExchange'.unfit))
       /\ lastExchange'.ok => /\ \A s \in sets : desired'[s[1]] = s[2]
                          /\ \A a \in DOMAIN desired : desired'[a] = desired[a] \/ \E s \in sets : s[1] = a
                          /\ Len(tells) = Cardinality(told)
                          /\ \A n \in told : \E i \in DOMAIN tells : For(tells[i], n)
       /\ ~lastExchange'.ok => \A a \in DOMAIN desired : desired'[a] = desired[a] \/ <<a, desired'[a]>> \in sets
       /\ \A i \in DOMAIN tells : \E n \in told :
            For(tells[i], n) /\ \A l \in Layout : \A s \in sets :
                                  (IsPrefix(n.way, l.way) /\ s[1] = l.at) => tells[i].sees[s[1]] = s[2]

\* What is invoked is what was named, on the variables it was declared in, with all its arguments; what the device
\* itself or a model it holds WITH_DATA declares is invoked when its arguments are there.
InvokedRight ==
  lastExchange'.call \in {"action", "method"} =>
    LET c == lastExchange'
        Declares(model) == \E m \in Members(model, c.call) : m.name = c.name /\ m.args \subseteq c.given
        in == {n \in Layout : PathOf(n) = c.path /\ IsModel(TypeOf(n))}
    IN /\ c.invoked => IF c.path = <<>> THEN c.at = 0 /\ Declares(Root)
                       ELSE \E n \in in : n.at = c.at /\ Declares(TypeOf(n))
       /\ (c.path = <<>> /\ Declares(Root)) => c.invoked
       /\ (\E n \in in : Len(n.way) = 1 /\ AllOfKind("property", n) /\ Declares(TypeOf(n))) => c.invoked

\* Each exchange carries what was asked for, the whole of it and nothing else (the four parts above).
ExchangesTrue == [][SentWhole /\ ReportedWhole /\ DesiredApplied /\ InvokedRight]_exchangeVars
=============================================================================
