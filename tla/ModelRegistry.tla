----------------------------- MODULE ModelRegistry -----------------------------
(***************************************************************************)
(* The registry of the serializer: namespaces of models registered as schemas    *)
(* (codefirst.c, schema.c), the devices made from them, and the twin models        *)
(* that give a client handle its callbacks (serializer_devicetwin.h).               *)
(* Used by one thread.                                                               *)
(***************************************************************************)
EXTENDS Naturals, Sequences, FiniteSets, SequencesExt, TLC

CONSTANTS
  Metadata,      \* Metadata[ns]: what DECLARE_MODEL reflects, in order: [what, of, name, type, args]
  Overrides,     \* namespaces an application may give to serializer_init, NoName among them
  ClientHandles, \* client handles that twin models are attached to
  MaxSchemas,    \* bound: schemas created
  MaxModels,     \* bound: devices created
  MaxMemory      \* bound: allocations that succeed before one fails while a schema is built

VARIABLES
  g_state, g_AgentState, g_OverrideSchemaNamespace,
  g_schemas,          \* sequence of [gen, ns, source, models, structs, count]
  g_Devices,          \* sequence of [id, ns, model, gen]
  g_allProtoHandles,  \* set of [client, id]
  twinContext, methodContext,  \* the callbacks of the client handles: the model given with them
  heldModels,         \* models the application has and has not destroyed
  initialised,        \* <<id, path>>: desired properties that hold something to free
  leaked,             \* models whose device serializer_deinit took away
  madeSchemas, madeModels

registryVars == <<g_state, g_AgentState, g_OverrideSchemaNamespace, g_schemas, g_Devices, g_allProtoHandles,
                  twinContext, methodContext, heldModels, initialised, leaked, madeSchemas, madeModels>>

NoName == "no name"
NoContext == 0
Namespaces == DOMAIN Metadata
Owned(what, of, name, type) == [what |-> what, of |-> of, name |-> name, type |-> type]

-----------------------------------------------------------------------------
(* Building a schema.  A run is [ok, memory, models, structs]; models[m] is the set of what m owns. *)

\* One element more, unless its owner has one of the same kind and name, or memory ends.
Adds(run, taken, more) ==
  IF ~run.ok \/ taken \/ run.memory = 0 THEN [run EXCEPT !.ok = FALSE] ELSE [more EXCEPT !.memory = @ - 1]
Has(elements, what, of, name) == \E e \in elements : e.what = what /\ e.of = of /\ e.name = name
With(run, m, element) == [run EXCEPT !.models[m] = @ \union {element}]

Schema_CreateModelType(run, m) ==
  Adds(run, m \in DOMAIN run.models, [run EXCEPT !.models = @ @@ (m :> {})])
AddModelProperty(run, m, name, type) ==
  Adds(run, Has(run.models[m], "property", m, name), With(run, m, Owned("property", m, name, type)))
Schema_AddModelReportedProperty(run, m, name, type) ==
  Adds(run, Has(run.models[m], "reported", m, name), With(run, m, Owned("reported", m, name, type)))
Schema_AddModelDesiredProperty(run, m, name, type) ==
  Adds(run, Has(run.models[m], "desired", m, name), With(run, m, Owned("desired", m, name, type)))
\* Inner models of one name are not refused.
Schema_AddModelModel(run, m, name, type) == Adds(run, FALSE, With(run, m, Owned("model", m, name, type)))
Schema_CreateModelAction(run, m, name) ==
  Adds(run, Has(run.models[m], "action", m, name), With(run, m, Owned("action", m, name, "")))
Schema_AddModelActionArgument(run, m, action, name) ==
  Adds(run, Has(run.models[m], "action argument", action, name), With(run, m, Owned("action argument", action, name, "")))
Schema_CreateModelMethod(run, m, name) ==
  Adds(run, Has(run.models[m], "method", m, name), With(run, m, Owned("method", m, name, "")))
Schema_AddModelMethodArgument(run, m, method, name) ==
  Adds(run, Has(run.models[m], "method argument", method, name), With(run, m, Owned("method argument", method, name, "")))
Schema_CreateStructType(run, s) ==
  Adds(run, s \in DOMAIN run.structs, [run EXCEPT !.structs = @ @@ (s :> {})])
Schema_AddStructTypeProperty(run, s, name) == Adds(run, name \in run.structs[s], [run EXCEPT !.structs[s] = @ \union {name}])

OfKind(reflected, what) == SelectSeq(reflected, LAMBDA r : r.what = what)
buildStructTypes(run, reflected) ==
  FoldLeft(LAMBDA r, s :
             FoldLeft(LAMBDA q, field : IF q.ok THEN Schema_AddStructTypeProperty(q, s.name, field.name) ELSE q,
                      Schema_CreateStructType(r, s.name),
                      SelectSeq(reflected, LAMBDA f : f.what = "field" /\ f.of = s.name)),
           run, OfKind(reflected, "struct"))

\* A member whose type is a model of the schema is an inner model, however it was declared.
AddMember(run, r) ==
  CASE r.what \in {"property", "reported", "desired"} /\ r.type \in DOMAIN run.models -> Schema_AddModelModel(run, r.of, r.name, r.type)
    [] r.what = "property" /\ r.type \notin DOMAIN run.models -> AddModelProperty(run, r.of, r.name, r.type)
    [] r.what = "reported" /\ r.type \notin DOMAIN run.models -> Schema_AddModelReportedProperty(run, r.of, r.name, r.type)
    [] r.what = "desired" /\ r.type \notin DOMAIN run.models -> Schema_AddModelDesiredProperty(run, r.of, r.name, r.type)
    [] r.what = "action" -> FoldLeft(LAMBDA q, a : IF q.ok THEN Schema_AddModelActionArgument(q, r.of, r.name, a) ELSE q,
                                     Schema_CreateModelAction(run, r.of, r.name), r.args)
    [] r.what = "method" -> FoldLeft(LAMBDA q, a : IF q.ok THEN Schema_AddModelMethodArgument(q, r.of, r.name, a) ELSE q,
                                     Schema_CreateModelMethod(run, r.of, r.name), r.args)
    [] OTHER -> run
buildModel(run, reflected, m) ==
  FoldLeft(LAMBDA r, member : IF r.ok THEN AddMember(r, member) ELSE r, run, SelectSeq(reflected, LAMBDA r : r.of = m))

\* Mutant: every model is built as soon as it is known
OnePass(run, reflected) ==
  FoldLeft(LAMBDA r, m : LET with == Schema_CreateModelType(r, m.name) IN IF with.ok THEN buildModel(with, reflected, m.name) ELSE with,
           run, OfKind(reflected, "model"))
\* All model types come first, so that a model may hold one declared after it.
buildModelTypes(run, reflected) ==
  LET known == FoldLeft(LAMBDA r, m : Schema_CreateModelType(r, m.name), run, OfKind(reflected, "model"))
  IN FoldLeft(LAMBDA r, m : IF r.ok THEN buildModel(r, reflected, m.name) ELSE r, known, OfKind(reflected, "model"))

\* The schemas, as they are after the call that registers a namespace: unchanged when memory ended on the way.
Schema_GetSchemaByNamespace(schemas, ns) == SelectSeq(schemas, LAMBDA s : s.ns = ns)
Schema_Create(gen, ns, source, built) ==
  [gen |-> gen, ns |-> ns, source |-> source, models |-> built.models, structs |-> built.structs,
   count |-> [m \in DOMAIN built.models |-> 0]]
\* The override, when there is one, stands for every namespace.
RegisteredAs(namespace) == IF g_OverrideSchemaNamespace = NoName THEN namespace ELSE g_OverrideSchemaNamespace
CodeFirst_RegisterSchema(namespace, memory) ==
  LET ns == RegisteredAs(namespace)
      start == [ok |-> memory > 0, memory |-> memory, models |-> <<>>, structs |-> <<>>]
      structs == buildStructTypes(start, Metadata[namespace])
      built == IF structs.ok THEN buildModelTypes(structs, Metadata[namespace]) ELSE structs
  IN IF Schema_GetSchemaByNamespace(g_schemas, ns) # <<>> \/ ~built.ok THEN g_schemas
     ELSE Append(g_schemas, Schema_Create(madeSchemas + 1, ns, namespace, built))

-----------------------------------------------------------------------------
(* Devices. *)

\* The desired properties of a model and of the models in it, each a path of names.
RECURSIVE initializeDesiredProperties(_, _, _)
\* Mutant: those of inner models are left as they are
InitializesOwn(schema, model, path) == {Append(path, e.name) : e \in {e \in schema.models[model] : e.what = "desired"}}
initializeDesiredProperties(schema, model, path) ==
  {Append(path, e.name) : e \in {e \in schema.models[model] : e.what = "desired"}}
  \union UNION {initializeDesiredProperties(schema, e.type, Append(path, e.name)) : e \in {e \in schema.models[model] : e.what = "model"}}

deinitializeDesiredProperties(id, schema, model) == initialised \ {<<id, p>> : p \in initializeDesiredProperties(schema, model, <<>>)}

Schema_AddDeviceRef(schemas, gen, model) ==
  [i \in DOMAIN schemas |-> IF schemas[i].gen = gen THEN [schemas[i] EXCEPT !.count[model] = @ + 1] ELSE schemas[i]]
Schema_ReleaseDeviceRef(schemas, gen, model) ==
  [i \in DOMAIN schemas |-> IF schemas[i].gen = gen THEN [schemas[i] EXCEPT !.count[model] = IF @ > 0 THEN @ - 1 ELSE 0] ELSE schemas[i]]
\* Mutant: only the model of the device destroyed is looked at
LooksAtOwnModel(schemas, gen, model) == SelectSeq(schemas, LAMBDA s : s.gen # gen \/ s.count[model] > 0)
\* The schema goes with the last device of any of its models.
Schema_DestroyIfUnused(schemas, gen, model) ==
  SelectSeq(schemas, LAMBDA s : s.gen # gen \/ \E m \in DOMAIN s.count : s.count[m] > 0)

CodeFirst_Init_impl(calledFromCodeFirst_Init) == IF calledFromCodeFirst_Init THEN "INIT_BY_INIT" ELSE "INIT_BY_API"
\* A first call through the interface initialises lazily, and drops the override given before.
LazyInit ==
  IF g_state = "NOT_INIT"
  THEN g_state' = CodeFirst_Init_impl(FALSE) /\ g_OverrideSchemaNamespace' = NoName
  ELSE UNCHANGED <<g_state, g_OverrideSchemaNamespace>>

\* A device of a model of a schema that is registered.
CodeFirst_CreateDevice(schemas, schema, ns, model) ==
  /\ g_schemas' = Schema_AddDeviceRef(schemas, schema.gen, model)
  /\ g_Devices' = Append(g_Devices, [id |-> madeModels + 1, ns |-> ns, model |-> model, gen |-> schema.gen])
  /\ madeModels' = madeModels + 1
  /\ heldModels' = heldModels \union {madeModels + 1}
  /\ initialised' = initialised \union {<<madeModels + 1, p>> : p \in initializeDesiredProperties(schema, model, <<>>)}

CodeFirst_DestroyDevice(id) ==
  LET devices == SelectSeq(g_Devices, LAMBDA d : d.id = id)
      left == SelectSeq(g_Devices, LAMBDA d : d.id # id)
      d == devices[1]
      schema == SelectSeq(g_schemas, LAMBDA s : s.gen = d.gen)[1]
  IN /\ IF devices = <<>> THEN UNCHANGED <<g_schemas, initialised>>
        ELSE /\ initialised' = deinitializeDesiredProperties(id, schema, d.model)
             /\ g_schemas' = Schema_DestroyIfUnused(Schema_ReleaseDeviceRef(g_schemas, d.gen, d.model), d.gen, d.model)
     /\ g_Devices' = left
     /\ g_state' = IF g_state = "INIT_BY_API" /\ left = <<>> THEN "NOT_INIT" ELSE g_state
     /\ UNCHANGED <<g_OverrideSchemaNamespace, madeModels>>

-----------------------------------------------------------------------------
(* The calls of the application. *)

RegistryInit ==
  /\ g_state = "NOT_INIT" /\ g_AgentState = "NOT_INITIALIZED" /\ g_OverrideSchemaNamespace = NoName
  /\ g_schemas = <<>> /\ g_Devices = <<>> /\ g_allProtoHandles = {}
  /\ twinContext = [k \in ClientHandles |-> NoContext] /\ methodContext = twinContext
  /\ heldModels = {} /\ initialised = {} /\ leaked = {} /\ madeSchemas = 0 /\ madeModels = 0

LiveIds == {g_Devices[i].id : i \in DOMAIN g_Devices}
Untwinned == UNCHANGED <<g_allProtoHandles, twinContext, methodContext>>

\* Refused after an earlier call, or while devices exist that were made without it.
serializer_init(override) ==
  /\ g_AgentState = "NOT_INITIALIZED" /\ g_state = "NOT_INIT"
  /\ g_state' = CodeFirst_Init_impl(TRUE)
  /\ g_OverrideSchemaNamespace' = override
  /\ g_AgentState' = "INITIALIZED"
  /\ UNCHANGED <<g_schemas, g_Devices, heldModels, initialised, leaked, madeSchemas, madeModels>> /\ Untwinned

\* All devices go; their schemas keep their counts, and the override stays for the next registration.
serializer_deinit ==
  /\ g_AgentState = "INITIALIZED"
  /\ g_Devices' = <<>>
  /\ leaked' = leaked \union LiveIds
  /\ g_state' = "NOT_INIT"
  /\ g_AgentState' = "NOT_INITIALIZED"
  /\ UNCHANGED <<g_OverrideSchemaNamespace, g_schemas, heldModels, initialised, madeSchemas, madeModels>> /\ Untwinned

SERIALIZER_REGISTER_NAMESPACE(ns, memory) ==
  /\ g_schemas' = CodeFirst_RegisterSchema(ns, memory)
  /\ madeSchemas' = IF g_schemas' # g_schemas THEN madeSchemas + 1 ELSE madeSchemas
  /\ UNCHANGED <<g_state, g_AgentState, g_OverrideSchemaNamespace, g_Devices, heldModels, initialised, leaked, madeModels>> /\ Untwinned

\* Registers when needed; the device is not made when its model is not found, or when memory ends (made).
CREATE_MODEL_INSTANCE(ns, model, memory, made) ==
  LET schemas == CodeFirst_RegisterSchema(ns, memory)
      found == Schema_GetSchemaByNamespace(schemas, RegisteredAs(ns))
  IN /\ madeSchemas' = IF schemas # g_schemas THEN madeSchemas + 1 ELSE madeSchemas
     /\ IF found = <<>> \/ (\A i \in DOMAIN found : model \notin DOMAIN found[i].models)
        THEN g_schemas' = schemas
             /\ UNCHANGED <<g_state, g_OverrideSchemaNamespace, g_Devices, heldModels, initialised, madeModels>>
        ELSE /\ LazyInit
             /\ IF made THEN CodeFirst_CreateDevice(schemas, found[1], ns, model)
                ELSE g_schemas' = schemas /\ UNCHANGED <<g_Devices, heldModels, initialised, madeModels>>
     /\ UNCHANGED <<g_AgentState, leaked>> /\ Untwinned

Twins == {p.id : p \in g_allProtoHandles}
DESTROY_MODEL_INSTANCE(id) ==
  /\ CodeFirst_DestroyDevice(id)
  /\ heldModels' = heldModels \ {id}
  /\ UNCHANGED <<g_AgentState, leaked, madeSchemas>> /\ Untwinned

\* The client takes both callbacks or, when it refuses the second, none.
Generic_IoTHubClient_SetCallbacks(k, context, twinTaken, methodTaken) ==
  /\ twinContext' = IF ~twinTaken THEN twinContext ELSE [twinContext EXCEPT ![k] = IF methodTaken THEN context ELSE NoContext]
  /\ methodContext' = IF twinTaken /\ methodTaken THEN [methodContext EXCEPT ![k] = context] ELSE methodContext

lazilyAddProtohandle(k, id) == g_allProtoHandles' = g_allProtoHandles \union {[client |-> k, id |-> id]}

\* A twin model needs a schema that is registered already.  What fails after the device was made takes it back.
TwinOutcomes == {"made", "no memory", "twin refused", "method refused", "not tracked"}
IoTHubDeviceTwin_Create(k, model, outcome) ==
  LET found == SelectSeq(g_schemas, LAMBDA s : model \in DOMAIN s.models) IN
  /\ found # <<>>
  /\ IF outcome = "made"
     THEN /\ LazyInit
          /\ CodeFirst_CreateDevice(g_schemas, found[1], found[1].source, model)
          /\ Generic_IoTHubClient_SetCallbacks(k, madeModels + 1, TRUE, TRUE)
          /\ lazilyAddProtohandle(k, madeModels + 1)
     ELSE /\ IF outcome = "no memory" THEN LazyInit /\ UNCHANGED <<g_schemas, twinContext, methodContext>>
             ELSE /\ g_state' = IF g_state = "INIT_BY_INIT" \/ g_Devices # <<>> THEN g_state ELSE "NOT_INIT"
                  /\ g_OverrideSchemaNamespace' = IF g_state = "NOT_INIT" THEN NoName ELSE g_OverrideSchemaNamespace
                  /\ Generic_IoTHubClient_SetCallbacks(k, NoContext, outcome # "twin refused", outcome = "not tracked")
                  /\ g_schemas' = Schema_DestroyIfUnused(g_schemas, found[1].gen, model)
          /\ UNCHANGED <<g_allProtoHandles, g_Devices, heldModels, initialised, madeModels>>
  /\ UNCHANGED <<g_AgentState, leaked, madeSchemas>>

\* Mutant: the callback of the methods keeps the model
KeepsMethods(k) == twinContext' = [twinContext EXCEPT ![k] = NoContext] /\ UNCHANGED methodContext
Clears(k) == twinContext' = [twinContext EXCEPT ![k] = NoContext] /\ methodContext' = [methodContext EXCEPT ![k] = NoContext]
\* Takes the callbacks of the client away, whichever model they have.
IoTHubDeviceTwin_Destroy(id) ==
  /\ \E p \in g_allProtoHandles :
       /\ p.id = id
       /\ Clears(p.client)
       /\ g_allProtoHandles' = g_allProtoHandles \ {p}
  /\ CodeFirst_DestroyDevice(id)
  /\ heldModels' = heldModels \ {id}
  /\ UNCHANGED <<g_AgentState, leaked, madeSchemas>>

ModelsOf(ns) == {r.name : r \in {Metadata[ns][i] : i \in {i \in DOMAIN Metadata[ns] : Metadata[ns][i].what = "model"}}}
RegistryNext ==
  \/ \E override \in Overrides : serializer_init(override)
  \/ serializer_deinit
  \/ \E ns \in Namespaces, memory \in 0 .. MaxMemory : madeSchemas < MaxSchemas /\ SERIALIZER_REGISTER_NAMESPACE(ns, memory)
  \/ \E ns \in Namespaces, memory \in {0, MaxMemory}, made \in BOOLEAN : \E model \in ModelsOf(ns) :
       madeSchemas < MaxSchemas /\ madeModels < MaxModels /\ CREATE_MODEL_INSTANCE(ns, model, memory, made)
  \/ \E id \in heldModels \ Twins : DESTROY_MODEL_INSTANCE(id)
  \/ \E k \in ClientHandles, ns \in Namespaces, outcome \in TwinOutcomes : \E model \in ModelsOf(ns) :
       madeModels < MaxModels /\ IoTHubDeviceTwin_Create(k, model, outcome)
  \/ \E id \in heldModels \intersect Twins : IoTHubDeviceTwin_Destroy(id)

RegistrySpec == RegistryInit /\ [][RegistryNext]_registryVars

-----------------------------------------------------------------------------
(* Properties. *)

\* What a namespace declares of a model, from the declarations alone.
Declared(ns, m) ==
  LET All == {Metadata[ns][i] : i \in DOMAIN Metadata[ns]}
      Mine == {r \in All : r.of = m}
      Data == {r \in Mine : r.what \in {"property", "reported", "desired"}}
      Calls == {r \in Mine : r.what \in {"action", "method"}}
  IN {Owned(IF r.type \in ModelsOf(ns) THEN "model" ELSE r.what, m, r.name, r.type) : r \in Data}
     \union {Owned(r.what, m, r.name, "") : r \in Calls}
     \union UNION {{Owned(IF r.what = "action" THEN "action argument" ELSE "method argument", r.name, r.args[i], "") : i \in DOMAIN r.args} : r \in Calls}
RECURSIVE DesiredPaths(_, _, _)
DesiredPaths(ns, m, path) ==
  {Append(path, e.name) : e \in {e \in Declared(ns, m) : e.what = "desired"}}
  \union UNION {DesiredPaths(ns, e.type, Append(path, e.name)) : e \in {e \in Declared(ns, m) : e.what = "model"}}

\* A registered schema holds what its namespace declares, all of it, wherever in the list a model stands; one that could
\* not be completed is not registered.
SchemasComplete ==
  \A i \in DOMAIN g_schemas :
    LET s == g_schemas[i] IN DOMAIN s.models = ModelsOf(s.source) /\ \A m \in DOMAIN s.models : s.models[m] = Declared(s.source, m)

\* Every device has its schema, the one of its own declarations, and is counted there.
DevicesHaveSchemas ==
  /\ g_Devices # <<>> => g_state # "NOT_INIT"
  /\ \A i \in DOMAIN g_Devices : LET d == g_Devices[i] IN
       \E j \in DOMAIN g_schemas :
         LET s == g_schemas[j] IN
           /\ s.gen = d.gen /\ d.model \in DOMAIN s.models /\ s.source = d.ns
           /\ s.count[d.model] >= Cardinality({n \in DOMAIN g_Devices : g_Devices[n].gen = d.gen /\ g_Devices[n].model = d.model})

\* The desired properties of a device, those of inner models included, are initialised while it lives and freed with it;
\* only serializer_deinit leaves some behind.
DesiredInitialised ==
  /\ \A i \in DOMAIN g_Devices : {e[2] : e \in {e \in initialised : e[1] = g_Devices[i].id}} = DesiredPaths(g_Devices[i].ns, g_Devices[i].model, <<>>)
  /\ \A e \in initialised : e[1] \in LiveIds \union leaked

\* No callback of a client has a model the application has destroyed, and the two callbacks of a client agree.
CallbacksLive ==
  \A k \in ClientHandles :
    /\ {twinContext[k], methodContext[k]} \ {NoContext} \subseteq heldModels
    /\ twinContext[k] # NoContext => twinContext[k] = methodContext[k]

\* The registry holds together (the four parts above).
RegistryConsistent == SchemasComplete /\ DevicesHaveSchemas /\ DesiredInitialised /\ CallbacksLive
=============================================================================
